SPECIFICATION FairSpec
CONSTANTS
    Clients = {c1}
    Fds = {1}
    MaxEvents = 2
    MaxRequests = 2
    KeepAlive = TRUE
    RespLen = 2
    SndBuf = 1
    Sends = {"part", "end", "last", "bad"}
    MaxUnits = 4
    None = None
    Listener = Listener
INVARIANT RequestLimit
PROPERTIES
    EveryRequestAnswered
    StopEndsLoop
CHECK_DEADLOCK FALSE
