CONSTANTS
    Task = {1, 2, 3, 4}
    NoTask = 0
SPECIFICATION Spec
INVARIANTS
    VerdictIsRight
    CycleIsReal
PROPERTIES
    EventuallyReturns
