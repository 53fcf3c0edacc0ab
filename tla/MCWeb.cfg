SPECIFICATION WebSpec
CONSTANTS
  Chunks = 2
  MaxRedirects = 2
  Branches = {b1, b2}
  MaxPieces = 3
  Pieces = 3
  MaxRequests = 2
  MaxWrites = 1
  Messages = 4
  Posts = 3
  Port1 = p1
  Port2 = p2
  Calls = {c1, c2}
  Writers = {w1, w2}
  MaxJobs = 1
  MaxItems = 1
  Items = 3
  Pulls = 4
  RequestChunks = 3
  DrainMark = 2
  Specials = {"plain", "malformed", "rejected", "lookup"}
  BodyPieces = 4
  BodyMark = 2
INVARIANTS FetchInv BodyInv  ExportsInv
 
CHECK_DEADLOCK FALSE
