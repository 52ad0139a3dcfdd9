CONSTANTS
    Workers = {w1, w2}
    Conns = {c1, c2}
    MaxFd = 2
    Free = Free
    NoConn = NoConn

SPECIFICATION ServerSpec

CHECK_DEADLOCK FALSE

INVARIANT QueuedIsOpen
