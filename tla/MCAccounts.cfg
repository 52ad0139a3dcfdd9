CONSTANTS
    Threads = {t1, t2}
    UserWorkers = {v1}
    TokenWorkers = {w1, w2}
    Emails = {e1}
    Passwords = {p1}
    UserUuids = {u1}
    TokenUuids = {k1, k2}
    DatabaseDies = TRUE
    NoRecord = NoRecord
    NoCall = NoCall

SPECIFICATION Spec
SYMMETRY Symmetry

INVARIANTS
    TypeOK
    LoggedOutStaysOut
    SessionIsKept
    AccountIsFound
