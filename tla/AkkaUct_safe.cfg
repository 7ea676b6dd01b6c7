SPECIFICATION Spec
CONSTANTS
  Binomial = 2
  MaxNodes = 7
  LoopCount = 2
INVARIANTS
  TypeOK
  LatchCountsActors
  StartedFirst
  NoGrantLost
  IterationComplete
PROPERTY RunReturns
CHECK_DEADLOCK FALSE
