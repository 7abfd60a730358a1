CONSTANTS
    Requests = 3
    Concurrency = 2
    NoErr = "nil"
    Platforms <- MCPlatforms
    Flags <- MCFlags
    Formats = {"yaml", "xml"}
SPECIFICATION ShowSpec
INVARIANTS
    ResponsesMatch
    NilMeansAllCompiled
    NoOrphans
    ShownInOrder
PROPERTIES
    ShowReturns
