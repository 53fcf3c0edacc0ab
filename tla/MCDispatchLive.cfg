SPECIFICATION FairSpec
CONSTANTS
    r1 = r1
    r2 = r2
    c1 = c1
    c2 = c2
    None = None
    Requests = {r1, r2}
    Conns = {c1}
    ConnOf <- KeptAlive
    HeadRequests = {r2}
    Stuck = {}
    BodyLen = 2
    ChannelCap = 1
PROPERTIES
    Resolved
    Reclaimed
    ImplementsService
