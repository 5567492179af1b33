SPECIFICATION ServerFairSpec
CONSTANTS
    Workers = {w1}
    Enqueuers = {main}
    Stoppers = {int, term, caller, dtor}
    Tasks = {c1, c2}
    MaxQueueSize = 1
    None = None
    Main = main
    Signals = {int, term}
    Callers = {caller}
    Dtor = dtor
PROPERTY GracefulShutdown
\* The process ends.
CHECK_DEADLOCK FALSE
