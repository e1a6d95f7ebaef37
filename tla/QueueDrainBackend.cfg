SPECIFICATION Spec
CONSTANTS
  MaxOffset = 4
  MaxPending = 2
  Backend = TRUE
  BatchSize = 2
  MaxBurst = 2
  MaxMarkers = 0
  Archive = TRUE
  CanBreak = FALSE
  MaxFaults = 1
  MaxCrashes = 0
INVARIANTS
  TypeOK
  BackendAccounted
