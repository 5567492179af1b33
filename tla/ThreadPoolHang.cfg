SPECIFICATION FairSpec
CONSTANTS
    Workers = {w1, w2}
    Enqueuers = {e1}
    Stoppers = {s1}
    Tasks = {t1, t2}
    MaxQueueSize = 2
    None = None
PROPERTY ShutdownReturns
CHECK_DEADLOCK FALSE
