CONSTANTS
  h1 = h1
  h2 = h2
  NoHandler = NoHandler
  Handlers = {h1, h2}
  MaxReads = 0
  MaxChunks = 1
  MaxId = 2
  Environment = {"idle", "restart"}
SPECIFICATION FairSpecR
INVARIANTS AnswerOwed CrossTalkOnlyByRestart
PROPERTIES EveryConnectAnswered LeftoversClosed
CHECK_DEADLOCK FALSE
