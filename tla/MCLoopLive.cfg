\* Two threads that run the loop to wait for a call, a worker, and a callback
\* that refers to the loop.
SPECIFICATION Spec
CONSTANTS
    Threads = {t1, t2}
    MaxWorkers = 1
    Tasks = {k1}
    Holding = {k1}
    Calls = {c1}
    Timeout = 1
    Team = 1
    None = None
\* A loop that is gone does nothing.
CHECK_DEADLOCK FALSE
PROPERTIES
    RecvReturns
    JoinReturns
