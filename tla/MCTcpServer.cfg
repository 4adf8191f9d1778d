\* Two threads answer two requests and get a notification of one connection.
SPECIFICATION Spec
CONSTANTS
    Threads = {t1, t2}
    Conns = {c1}
    Requests = {q1, q2, n1}
    Notes = {n1}
    NoConn = NoConn
    NoRequest = NoRequest
CHECK_DEADLOCK FALSE
INVARIANTS
    TypeOK
    AnsweredOnce
    FramesIntact
    SentOrLost
    Managed
    NoneSkipped
PROPERTIES
    AcceptsAgain
    GoneIsDropped
