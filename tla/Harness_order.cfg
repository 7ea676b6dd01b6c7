SPECIFICATION Spec
CONSTANTS
  NumBenchmarks = 1
  NumPlugins = 5
  Policies = {"count"}
  Limit = 1
  MaxThrows = 0
INVARIANT EarlierPluginsWrap
CHECK_DEADLOCK FALSE
