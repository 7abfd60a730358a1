CONSTANTS
    Task = {1, 2, 3, 4}
    Concurrency = 2
    NoTask = 0
SPECIFICATION RecordSpec
INVARIANTS
    TopologicalOrder
    RootCauseReported
    DispatchIsReplay
PROPERTIES
    EventuallyReturns
    ImplementsDagRun
