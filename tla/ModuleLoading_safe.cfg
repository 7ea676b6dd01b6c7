SPECIFICATION Spec
CONSTANTS
  Benchmarks <- MCBenchmarks
  ModuleOf <- MCModuleOf
  HarnessModule = "core"
  Jars <- MCJars
INVARIANTS
  TypeOK
  OwnClassPath
  PartialJarsReported
  ScratchDeleted
PROPERTY JvmHalts
CHECK_DEADLOCK FALSE
