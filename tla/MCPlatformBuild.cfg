CONSTANTS
    Total = 3
    Concurrencies <- MCConcurrencies
    NoErr = 0
    Platforms <- MCPlatforms
SPECIFICATION RenderSpec
INVARIANTS
    AtMostLimit
    NilMeansAllRendered
    TempDirsRemoved
PROPERTIES
    EventuallyReturns
