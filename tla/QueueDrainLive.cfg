SPECIFICATION LoopSpec
CHECK_DEADLOCK FALSE
CONSTANTS
  MaxOffset = 3
  MaxPending = 3
  Backend = FALSE
  BatchSize = 2
  MaxBurst = 2
  MaxMarkers = 0
  Archive = TRUE
  CanBreak = FALSE
  MaxFaults = 1
  MaxCrashes = 1
PROPERTIES
  OnlyFailingLinesSetAside
  GoodLinesStored
