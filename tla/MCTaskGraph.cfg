CONSTANTS
    Task = {1, 2, 3}
    TaskSets <- MCTaskSets
    Listings <- MCListings
SPECIFICATION GraphSpec
INVARIANTS
    EdgesFollowData
    InputsSourced
    LoadsAreDisjoint
CHECK_DEADLOCK FALSE
