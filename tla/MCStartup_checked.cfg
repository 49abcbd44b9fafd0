SPECIFICATION Spec
CONSTANTS
  Null = Null
  MaxOverrides = 2
  MaxExplicit = 1
  Library <- MCLibrary
  FirstSlots <- MCFirstSlots
  Builtins <- MCBuiltins
  Env <- MCEnv
  Scenarios <- MCScenarios
INVARIANTS
  LoadIsExact
  AcceptedIsRunnable
  RegistryIsSound
  RunsAsConfigured
