CONSTANTS
  Depth = 2
  MaxBatches = 5
  Cancellable = TRUE
SPECIFICATION FairSpec
INVARIANTS
  StreamIsSound
  Ownership
PROPERTIES
  ImplementsOrderedStream
  CallsReturn
