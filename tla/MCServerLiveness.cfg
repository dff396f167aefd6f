CONSTANTS
  c1 = c1
  c2 = c2
  r1 = r1
  r2 = r2
  r3 = r3
  NoArc = NoArc
  Free = Free
  NoClient = NoClient
  Clients = {c1}
  Requests = {r1, r2}
  Traffic <- PairTraffic
  W = 2
  Limit = 1
  RespCap = 1
  MaxId = 1
  MaxSent = 1
  Environment = {"idle", "stall"}
SPECIFICATION FairSpec
PROPERTIES
  EveryRequestEnds
  IdleReclaimed
