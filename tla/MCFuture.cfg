\* One future, two threads that wait on it and attach callbacks while it is settled.
SPECIFICATION Spec
CONSTANTS
    NoFuture = NoFuture
    Threads = {t1, t2}
    Readers = {reader}
    Timer = Timer
    Calls = {c1}
    IdSpace = 4
    Timeouts = {0}
    Answers = {"reply", "remote"}
    MaxAttach = 2
INVARIANTS
    CallbackOnce
    TornRead
PROPERTIES
    StableResult
    KeepsPromise
