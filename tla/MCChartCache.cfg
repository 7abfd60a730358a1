CONSTANTS
    Proc = {p1, p2, p3}
    NoProc = nobody
SPECIFICATION Spec
INVARIANTS
    PullsExclusive
    StaleLockMeansKilled
PROPERTIES
    EventuallyReturns
