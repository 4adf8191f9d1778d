\* Two clients, a request and a notification; each datagram may come twice.
INIT Init
NEXT Next
CONSTANTS
    Threads = {t1, t2}
    Clients = {c1, c2}
    Requests = {q1, n1}
    Notes = {n1}
    Large = {q1, n1}
    MaxCopies = 2
    None = None
SYMMETRY Symmetry
\* A server that is closed, or deaf, stops.
CHECK_DEADLOCK FALSE
INVARIANTS
    TypeOK
    RepliesGoHome
    AnsweredOnce
    DeafAfterError
