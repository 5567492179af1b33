SPECIFICATION Spec
CONSTANTS
    MaxRequests = 2
    KeepAlive = TRUE
    ReadTimeout = 30
    WriteTimeout = 30
    ParserLimit = 3
    RespLen = 2
    SndBuf = 1
    RcvBuf = 2
    MaxOwed = 1
INVARIANT WriteFailureReturns
\* The handler returns and the client stops sending.
CHECK_DEADLOCK FALSE
