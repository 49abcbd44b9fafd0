SPECIFICATION Spec
CONSTANTS
  NULL = NULL
  ERR = ERR
  GARBAGE = GARBAGE
  WIDE = WIDE
  NULTEXT = NULTEXT
  LongVals = {2}
  MaxBatch = 2
  MaxBatches = 2
  Ops <- MCOps
INVARIANTS
  AllOrNothing
  StoresItsInput
  BcpStoresAPrefix
