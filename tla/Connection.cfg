SPECIFICATION FairSpec
CONSTANTS
    Bytes = {"cr", "lf"}
    Limits = {2, 4}
    ChunkSize = 3
    ReadTimeout = 30
    MaxStream = 5
    Delims <- MCDelims
INVARIANTS
    TypeOK
    LineIsExact
    InOrder
PROPERTY CallReturns
\* The connection is closed and the peer has sent what it had to send.
CHECK_DEADLOCK FALSE
