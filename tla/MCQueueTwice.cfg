CONSTANTS
    Threads = {t1, t2}
    Workers = {w1, w2}
    Uuids = {u1}
    ClientUuids = {}
    Consumers = {c1}
    Times = {1}
    Ids = {i1}
    DatabaseDies = FALSE
    NoMessage = NoMessage
    NoCall = NoCall

SPECIFICATION Spec
SYMMETRY Symmetry

INVARIANT AtMostOnce
