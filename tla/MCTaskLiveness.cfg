CONSTANTS
    Threads = {t1, t2}
    Workers = {w1}
    Uuids = {u1, u2}
    ClientUuids = {u1}
    Consumers = {c1, c2}
    Times = {1}
    Ids = {i1, i2}
    DatabaseDies = FALSE
    NoMessage = NoMessage
    NoCall = NoCall
    Service = c1
    bad = i2
    Malformed <- MCMalformed
    MaxIterations = 0
    NoThread = NoThread

SPECIFICATION FairTaskSpec

CHECK_DEADLOCK FALSE

PROPERTY TaskIsRun
