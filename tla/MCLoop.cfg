\* Two threads of the program, a team of one worker, started up to twice, and
\* two callbacks, one of which refers to the loop.
INIT Init
NEXT Next
CONSTANTS
    Threads = {t1, t2}
    MaxWorkers = 2
    Tasks = {k1, k2}
    Holding = {k1}
    Calls = {c1}
    Timeout = 1
    Team = 1
    None = None
SYMMETRY Symmetry
\* A loop that is gone does nothing.
CHECK_DEADLOCK FALSE
INVARIANTS
    TypeOK
    OneTeam
    LastOutFrees
