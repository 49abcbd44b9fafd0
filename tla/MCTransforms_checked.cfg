SPECIFICATION TransformSpec
CONSTANTS
  NULL = NULL
  ERR = ERR
  GARBAGE = GARBAGE
  Bits = 3
  Cap0 = 4
  MaxBatch = 2
  MaxBatches = 3
  Hash <- MCHash
  Ops <- MCOps
INVARIANTS EndIsHonest RowWiseFaithful GroupsExact SortIsStable JoinIsRelational
PROPERTY CallReturns
CHECK_DEADLOCK FALSE
