\* Two threads on one unlocked socket, which is opened twice.
SPECIFICATION USpec
CONSTANTS
    NoFuture = NoFuture
    Threads = {t1, t2}
    Readers = {strand}
    Strand = strand
    Timer = Timer
    Calls = {c1}
    IdSpace = 2
    Timeouts = {1}
    Answers = {"reply"}
    MaxAttach = 0
    MaxConn = 2
INVARIANTS
    UTypeOK
    DeafAfterError
    OneReceive
PROPERTY
    UdpCallSettles
