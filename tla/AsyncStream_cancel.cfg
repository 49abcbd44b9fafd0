CONSTANTS
  Depth = 1
  MaxBatches = 2
  Cancellable = TRUE
SPECIFICATION FairSpec
PROPERTY CancelReturns
