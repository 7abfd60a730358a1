CONSTANTS
    Texts <- MCTexts
    Keys <- MCKeys
    MaxDepth = 5
    Files <- MCFiles
SPECIFICATION Spec
INVARIANT OnlyEquivalentAccepted
