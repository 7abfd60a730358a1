CONSTANTS
    Artifact = {1, 2}
    Worker = {w1, w2}
    Generators <- MCGenerators
    Validators <- MCValidators
    Plans <- MCPlans
    Leaf <- MCLeaf
SPECIFICATION FairFilesSpec
INVARIANTS
    StagesInOrder
    RootCauseReported
    OutputsAreWriteOnce
    NilMeansValidated
    TornOnlyIfShared
PROPERTIES
    EventuallyReturns
