CONSTANTS
    Threads = {t1, t2}
    Workers = {w1, w2}
    Uuids = {u1}
    ClientUuids = {u1}
    Consumers = {c1}
    Times = {1}
    Ids = {i1, i2}
    DatabaseDies = TRUE
    NoMessage = NoMessage
    NoCall = NoCall
    Service = c1
    bad = i2
    Malformed <- MCMalformed
    MaxIterations = 2
    NoThread = NoThread
    Askers = {a1}

SPECIFICATION StatusSpec
SYMMETRY Symmetry

INVARIANTS
    AckedIsKept
    StatusTypeOK
    TaskIsFound
    ReceivedIsConsumed
    CountedOnce
    RunsOnce
    HeldIsConsumed

