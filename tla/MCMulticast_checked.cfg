CONSTANTS
  NTaps = 3
  Sinks <- SinksTwoOfThree
  Limit <- LimitLast
  Depth = 2
  MaxBatches = 4
  AllocFails = TRUE
SPECIFICATION FairSpec
INVARIANTS
  SharingIsSound
  TapsSeeEverything
PROPERTIES
  StageTerminates
