SPECIFICATION Spec
CONSTANTS
    Workers = {w1, w2}
    Enqueuers = {e1, e2}
    Stoppers = {s1, s2}
    Tasks = {t1, t2, t3}
    MaxQueueSize = 2
    None = None
SYMMETRY Symmetry
INVARIANTS
    TypeOK
    QueueBounded
    TasksAccounted
    ActiveCountExact
    NoLostWakeup
    NoIdleSleeper
    ShutdownWaitsForInFlight
    RaceBounded
PROPERTY RefinesTaskQueue
\* The pool stops for good once it has been destroyed.
CHECK_DEADLOCK FALSE
