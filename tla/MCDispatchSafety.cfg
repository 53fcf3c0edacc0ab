SPECIFICATION Spec
CONSTANTS
    r1 = r1
    r2 = r2
    c1 = c1
    c2 = c2
    None = None
    Requests = {r1, r2}
    Conns = {c1, c2}
    ConnOf <- SideBySide
    HeadRequests = {}
    Stuck = {r2}
    BodyLen = 3
    ChannelCap = 2
INVARIANTS
    TypeOK
    EventLoopOutlivesBody
    CompleteMeansWhole
    Isolated
    AwaitHasSender
    HeadAfterIdle
