SPECIFICATION Spec
CONSTANTS
    Workers = {w1, w2}
    Enqueuers = {e1}
    Stoppers = {s1}
    Tasks = {t1, t2}
    MaxQueueSize = 2
    None = None
INVARIANT ShutdownDrainsQueue
CHECK_DEADLOCK FALSE
