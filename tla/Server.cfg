SPECIFICATION ServerFairSpec
CONSTANTS
    Workers = {w1}
    Enqueuers = {main}
    Stoppers = {int, term, caller, dtor}
    Tasks = {c1, c2}
    MaxQueueSize = 1
    None = None
    Main = main
    Signals = {int, term}
    Callers = {caller}
    Dtor = dtor
INVARIANTS
    ServerTypeOK
    OneOwner
    CleanExit
    OneConnectionAfterStop
\* The process ends.
PROPERTIES
    EveryClientAnswered
    StopEndsServer
CHECK_DEADLOCK FALSE
