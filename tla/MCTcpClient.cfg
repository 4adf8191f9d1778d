\* Two threads on one socket, two connections.
INIT TInit
NEXT TNext
CONSTANTS
    NoFuture = NoFuture
    Threads = {t1, t2}
    Readers = {strand, connect_timer}
    Strand = strand
    ConnectTimer = connect_timer
    Timer = Timer
    Calls = {c1}
    IdSpace = 4
    Timeouts = {0}
    Answers = {"reply"}
    MaxAttach = 0
    reconnect_limit = 2
    MaxConn = 2
SYMMETRY Symmetry
INVARIANTS
    TTypeOK
    OneConnect
    NeverDeaf
    CleanReconnect
    OrphansAreLate
