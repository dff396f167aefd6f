CONSTANTS
  W = 3
  MaxNonce = 9
  Nonces <- MCNonces
SPECIFICATION Spec
INVARIANTS
  NoFalseReject
  RepeatRejectedInsideWindow
  AtMostTwice
PROPERTY RepeatOnlyAtWindowEdge
