CONSTANTS
  c1 = c1
  c2 = c2
  r1 = r1
  r2 = r2
  r3 = r3
  NoArc = NoArc
  Free = Free
  NoClient = NoClient
  Clients = {c1}
  Requests = {r1, r2, r3}
  Traffic <- StreamTraffic
  W = 3
  Limit = 1
  RespCap = 2
  MaxId = 1
  MaxSent = 3
  Environment = {"eof", "error"}
SPECIFICATION Spec
INVARIANTS
  WireInOrder
  NoReadForgotten
  
