SPECIFICATION Spec
CONSTANTS
  NumWriters = 1
  NumBenchmarks = 1
  NumMetrics = 2
  Reps <- MCTimedReps
  Signals = TRUE
  FailureKinds = {}
  MaxTrouble = 1
  MaxOverlap = 2
PROPERTY SignalledJvmHalts
CHECK_DEADLOCK FALSE
