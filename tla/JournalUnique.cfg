SPECIFICATION Spec
CHECK_DEADLOCK FALSE
CONSTANTS
  Writers = {w1}
  None = None
  MaxBurst = 1
  MaxRecords = 2
  MaxTears = 1
  MaxTruncations = 0
INVARIANTS
  SeqUnique
