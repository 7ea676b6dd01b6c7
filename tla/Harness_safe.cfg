SPECIFICATION Spec
CONSTANTS
  NumBenchmarks = 2
  NumPlugins = 2
  Policies = {"count", "opTime", "time"}
  Limit = 2
  MaxThrows = 3
INVARIANTS
  TypeOK
  EarlierPluginsWrap
  SetUpIsTornDown
  FailuresAccounted
  OnlyValidResults
  LastIsLast
PROPERTIES
  PluginsSeeProtocol
  RunEnds
CHECK_DEADLOCK FALSE
