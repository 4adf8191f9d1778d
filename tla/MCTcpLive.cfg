\* Two threads that send notifications, which take the same way as requests,
\* and need the mutex; the connect() of the socket always ends.
SPECIFICATION TSpec
CONSTANTS
    NoFuture = NoFuture
    Threads = {t1, t2}
    Readers = {strand, connect_timer}
    Strand = strand
    ConnectTimer = connect_timer
    Timer = Timer
    Calls = {}
    IdSpace = 4
    Timeouts = {0}
    Answers = {"reply"}
    MaxAttach = 0
    reconnect_limit = 2
    MaxConn = 3
PROPERTY
    SendReturns
