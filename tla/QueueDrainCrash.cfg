SPECIFICATION Spec
CONSTANTS
  MaxOffset = 3
  MaxPending = 3
  Backend = FALSE
  BatchSize = 3
  MaxBurst = 3
  MaxMarkers = 1
  Archive = FALSE
  CanBreak = TRUE
  MaxFaults = 2
  MaxCrashes = 1
INVARIANTS
  AckedIsSaved
  SavedOncePerProcess
  NoDeadLettersFromDeadStore
  LearnedOnce
PROPERTIES
  ImplementsIngest
  ReplayCaveat
