CONSTANTS
    Task = {1, 2}
    Concurrency = 2
    NoTask = 0
    TaskSets <- Overlapping
    Listings <- MCListings
    Leaf <- MCLeaf
    Previous <- MCPrevious
SPECIFICATION BuildSpec
INVARIANTS
    NoTornReads
