CONSTANTS
  Stages <- Checked
  N = 3
  Cap = 2
  Dedup = TRUE
  MaxRefs = 3
SPECIFICATION SortOrStage
INVARIANTS
  SortIsSound
  EveryDAGIsSorted
  CleanedUpOnce
  NoTouchAfterDestroy
  WiringIsSound
  SuccessMeansDrained
