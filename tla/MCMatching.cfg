SPECIFICATION FairSpec
CONSTANTS
  Clients = {c1, c2, c3, c4}
  Proxies = {p1, p2}
  Nobody = Nobody
  Capacities = {1, 2}
INVARIANTS NoRegret
PROPERTIES Returns ImplementsStableMatching
CHECK_DEADLOCK FALSE
