CONSTANTS
    c1 = c1
    c2 = c2
    Workers = {w1, w2}
    Conns = {c1, c2}
    MaxFd = 2
    Free = Free
    NoConn = NoConn
    IntBits = 8
    Routes <- MCRoutes
    CallsOf <- MCCallsOf
    SplitOn = {c1}
    Page = Page
    Nothing = Nothing
    Sent <- TextOf
    RequestIn <- ParseRequest
    MessageIn <- ExtractProtoFromRequest
    BodyOf <- MessageBody
    Received <- ParseMessage
    IsNumber <- IsInt

SPECIFICATION ExchangeSpec

CHECK_DEADLOCK FALSE

INVARIANTS
    NoLostWakeup
    OwnAnswer
    HandledWhole
    CallIsLocal

PROPERTIES
    EveryConnectionCloses
    StopEnds
