SPECIFICATION Spec
CONSTANTS
  Benchmarks <- MCBenchmarks
  ModuleOf <- MCModuleOf
  HarnessModule = "core"
  Jars <- MCJars
INVARIANT ExtractedJarsReused
CHECK_DEADLOCK FALSE
