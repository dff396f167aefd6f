CONSTANTS
  h1 = h1
  h2 = h2
  NoHandler = NoHandler
  Handlers = {h1}
  MaxReads = 2
  MaxChunks = 3
  MaxId = 1
  Environment = {"refuse", "lose_request", "lose_response", "target_ends", "restart", "socks_fails", "socks_ends", "idle", "hang"}
SPECIFICATION Spec
INVARIANTS TypeOK DeliveredInOrder  CloseNotForgotten
CHECK_DEADLOCK FALSE
