CONSTANTS
  Vars = {"x", "y"}
  Values = {"true", "false", "a"}
  Unset = Unset
  Pipelines <- AllPipelines
  Cancellable = TRUE
SPECIFICATION FairSpec
INVARIANTS
  LoopsAreScoped
  FailureIsFinal
PROPERTIES
  CancelIsHonoured
  RunEnds
