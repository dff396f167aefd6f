CONSTANTS
  h1 = h1
  h2 = h2
  NoHandler = NoHandler
  Handlers = {h1, h2}
  MaxReads = 0
  MaxChunks = 0
  MaxId = 2
  Environment = {}
SPECIFICATION Spec
INVARIANT NoStartDropped
CHECK_DEADLOCK FALSE
