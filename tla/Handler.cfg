SPECIFICATION FairSpec
CONSTANTS
    MaxRequests = 2
    KeepAlive = TRUE
    ReadTimeout = 30
    WriteTimeout = 30
    ParserLimit = 3
    RespLen = 2
    SndBuf = 1
    RcvBuf = 3
    MaxOwed = 2
INVARIANTS
    TypeOK
    GivesUpFairly
PROPERTY WorkerReleased
\* The handler returns and the client stops sending.
CHECK_DEADLOCK FALSE
