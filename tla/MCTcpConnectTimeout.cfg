\* A connect() of the socket may hang; does the timer end it?
SPECIFICATION TSpecMayHang
CONSTANTS
    NoFuture = NoFuture
    Threads = {t1}
    Readers = {strand, connect_timer}
    Strand = strand
    ConnectTimer = connect_timer
    Timer = Timer
    Calls = {c1}
    IdSpace = 4
    Timeouts = {0}
    Answers = {"reply"}
    MaxAttach = 0
    reconnect_limit = 2
    MaxConn = 2
PROPERTY
    ConnectTimesOut
