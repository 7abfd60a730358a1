CONSTANTS
    Task = {1, 2, 3, 4}
    Concurrency = 2
    NoTask = 0
    TaskSets <- AliasedInputs
    Listings <- MCListings
    Leaf <- MCLeaf
    Previous <- MCPrevious
SPECIFICATION BuildSpec
INVARIANTS
    ReadsAreComplete
