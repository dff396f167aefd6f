CONSTANTS
  c1 = c1
  c2 = c2
  r1 = r1
  r2 = r2
  r3 = r3
  NoArc = NoArc
  Free = Free
  NoClient = NoClient
  Clients = {c1, c2}
  Requests = {r1, r2, r3}
  Traffic <- TaskTraffic
  W = 2
  Limit = 1
  RespCap = 1
  MaxId = 2
  MaxSent = 0
  Environment = {"idle"}
SPECIFICATION Spec
SYMMETRY Symmetry
INVARIANTS
  ConnectionLimit
  OneTaskPerClient
  OneOwner
  ServedOnce
  EntryStaysDuringAwait
