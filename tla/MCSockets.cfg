SPECIFICATION SocketsSpec
CONSTANTS
  Sent = 3
  HighWaterMark = 2
  MaxPauses = 2
  Writes = 4
  WriteMark = 2
  MaxCalls = 2
  Addresses = 2
  Listens = 2
  Clients = 2
  MaxClosing = 2
  r1 = r1
  r2 = r2
  r3 = r3
  n1 = n1
  n2 = n2
  n3 = n3
  Calls = {r1, r2, r3}
  Names = {n1, n2, n3}
  Hosts <- PairAndApart
  MaxSockets = 1
  MaxTotalSockets = 2
  MaxFreeSockets = 1
  MaxAborts = 1
  Messages = {r1, r2}
  Arrivals = 3
  MaxConnects = 2
INVARIANTS  ConnectInv ServerInv 
PROPERTIES SocketsProgress
CHECK_DEADLOCK FALSE
