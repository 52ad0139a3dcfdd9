CONSTANTS
    Threads = {t1, t2}
    Workers = {w1, w2}
    Uuids = {u1, u2}
    ClientUuids = {u1}
    Consumers = {c1}
    Times = {1, 2}
    Ids = {i1, i2}
    DatabaseDies = FALSE
    NoMessage = NoMessage
    NoCall = NoCall

SPECIFICATION CallSpec
SYMMETRY Symmetry

INVARIANTS
    TypeOK
    FifoOrder
    EmptyAnswer
    NotReturnedAgain
