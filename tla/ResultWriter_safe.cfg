SPECIFICATION Spec
CONSTANTS
  NumWriters = 2
  NumBenchmarks = 2
  NumMetrics = 3
  Reps <- MCTimedReps
  Signals = TRUE
  FailureKinds = {"load", "operation", "result", "failure", "listener", "io"}
  MaxTrouble = 2
  MaxOverlap = 2
INVARIANTS
  TypeOK
  FinishedFileIsRectangular
  NormalFilesAgree
  ResultsSurviveOrdinaryEnd
PROPERTIES
  FinishedFileIsFinal
  OnlyNestedExitHangs
CHECK_DEADLOCK FALSE
