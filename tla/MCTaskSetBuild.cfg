CONSTANTS
    Task = {1, 2, 3, 4}
    Concurrency = 2
    NoTask = 0
    TaskSets <- MCTaskSets
    Listings <- MCListings
    Leaf <- MCLeaf
    Previous <- MCPrevious
SPECIFICATION BuildSpec
INVARIANTS
    ReadsAreComplete
    OutputsNeverClash
    SinksAreFresh
    FailuresGateWrites
    NoTornReads
PROPERTIES
    MaterializedOnce
    ImplementsExecutor
    BuildReturns
