\* Three calls and two message ids: an id is used again while it is taken.
INIT Init
NEXT Next
CONSTANTS
    NoFuture = NoFuture
    Threads = {t1}
    Readers = {reader}
    Timer = Timer
    Calls = {c1, c2, c3}
    IdSpace = 2
    Timeouts = {0}
    Answers = {"reply"}
    MaxAttach = 0
SYMMETRY Symmetry
INVARIANTS
    TypeOK
    ExclusiveCustody
    NoLostCall
    OwnReply
