\* What server::close() says of a trailing accept handler.
INIT Init
NEXT Next
CONSTANTS
    Threads = {t1}
    Conns = {c1, c2}
    Requests = {q1}
    Notes = {}
    NoConn = NoConn
    NoRequest = NoRequest
CHECK_DEADLOCK FALSE
INVARIANT
    NoTrailingAccept
