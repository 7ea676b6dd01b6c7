SPECIFICATION Spec
CONSTANTS
  NumWriters = 2
  NumBenchmarks = 2
  NumMetrics = 2
  Reps <- MCDefaultReps
  Signals = FALSE
  FailureKinds = {}
  MaxTrouble = 1
  MaxOverlap = 2
INVARIANT UntroubledRunIsSaved
CHECK_DEADLOCK FALSE
