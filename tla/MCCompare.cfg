CONSTANTS
    Texts <- MCTexts
    Keys <- MCKeys
    MaxDepth = 5
    Files <- MCFiles
SPECIFICATION Spec
INVARIANTS
    PermutationsAccepted
    AcceptedMeansMatched
    FieldsOfBeforeKept
