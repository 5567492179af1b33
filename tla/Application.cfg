SPECIFICATION Spec
CONSTANTS
    Words = {"--port", "--workers", "--queue-size", "--static-dir", "--timeout",
             "--no-keepalive", "--help", "-1", "big", "x"}
    MaxArgs = 4
    Served <- MCServed
    IntMax = 131071
    SizeModulus = 1048576
    Default = "./static"
    Methods = {"GET", "HEAD", "POST", "DELETE"}
    MaxExtra = 1
    Numbers <- MCNumbers
    Tokens <- MCTokens
    Targets <- MCAllTargets
    ExtraRoutes <- MCExtraRoutes
    Prefixes <- MCPrefixes
    Returned <- MCReturned
    FileSystems <- MCFileSystems
    AtStart <- MCAtStart
    MaxStates = 3
    Lowercase <- MCLowercase
INVARIANTS
    TypeOK
    ConfigIsMeaning
    AllowIsExact
    StaticAnswerIsTrue
PROPERTY LaterRoutesOnlyExtend
\* The program may end: --help, a value that is no number, an exception.
CHECK_DEADLOCK FALSE
