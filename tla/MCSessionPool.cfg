\* One address, two sessions of the pool one after the other, a client, one call.
SPECIFICATION Spec
CONSTANTS
    Threads = {t1}
    Addrs = {a1}
    Sessions = {s1, s2, s3}
    Clients = {s3}
    Calls = {c1}
    NoSession = NoSession
    TimeLimit = 1
INVARIANTS
    TypeOK
    UsedIsPooled
    KeptLongEnough
PROPERTY
    UnusedIsDropped
