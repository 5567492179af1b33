SPECIFICATION Spec
CONSTANTS
    Clients = {c1, c2}
    Fds = {1, 2}
    MaxEvents = 2
    MaxRequests = 2
    KeepAlive = TRUE
    RespLen = 2
    SndBuf = 1
    Sends = {"part", "end"}
    MaxUnits = 2
    None = None
    Listener = Listener
SYMMETRY Symmetry
INVARIANTS
    TypeOK
    ConnectionsRegistered
    NoStaleEvent
    NoLostEdge
    ResponsesWhole
\* Clients may stop sending, and the loop ends after stop().
CHECK_DEADLOCK FALSE
