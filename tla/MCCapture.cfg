SPECIFICATION Spec
CONSTANTS
  Plan <- AllUseCases
  Repetitions = 2
  MaxInterrupts = 1
INVARIANTS CapturesApart  OnPageOrSaid
CHECK_DEADLOCK FALSE
