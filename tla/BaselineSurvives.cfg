SPECIFICATION Spec
CHECK_DEADLOCK FALSE
CONSTANTS
  Pipelines = {1}
  Batches <- TwoBatches
  Backend = "postgres"
  Threaded = {1}
  MinEntity = 2
  MinGlobal = 2
  MinPeers = 2
  BurstThreshold = 3
  MaxCrashes = 2
  MaxFails = 0
INVARIANTS
  BaselineSurvives
