SPECIFICATION LoopSpec
CHECK_DEADLOCK FALSE
CONSTANTS
  MaxOffset = 2
  MaxPending = 2
  Backend = FALSE
  BatchSize = 1
  MaxBurst = 1
  MaxMarkers = 0
  Archive = FALSE
  CanBreak = FALSE
  MaxFaults = 0
  MaxCrashes = 0
PROPERTIES
  GoodLineNotBlocked
