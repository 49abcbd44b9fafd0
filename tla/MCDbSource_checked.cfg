SPECIFICATION Spec
CONSTANTS
  NULL = NULL
  ERR = ERR
  BAD = BAD
  SMALL = 3
  MaxVersions = 2
  MaxBatch = 2
  MaxBatches = 2
  Ops <- MCOps
INVARIANTS ReadsOneView LooksUpOneView ScriptIsAtomic
