SPECIFICATION Spec
CONSTANTS
  Requests = {r1, r2, r3}
  Clients <- AllClients
  Setup <- TwoProxies
  Old = "c0"
  Capacity = 1
  Calls <- AllCalls
SYMMETRY Symmetry
INVARIANTS RoomErrsHigh ClientsKept  TwiceOnlyByRace
CHECK_DEADLOCK FALSE
