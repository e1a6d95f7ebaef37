SPECIFICATION EventSpec
CHECK_DEADLOCK FALSE
CONSTANTS
  Window = 2
  RepeatWindow = 2
  Threshold = 2
  MaxFindings = 3
  ScanLimit = 1
  BatchSize = 3
  MaxBatches = 2
  MaxSaveFails = 1
  MaxRestarts = 1
  MaxClosed = 1
  MaxFeedback = 3
  Learners = {1, 2}
  Backend = "postgres"
  Threaded = {2}
  MinEntity = 2
  MinGlobal = 2
  MinPeers = 2
  BurstThreshold = 3
  MaxStops = 2
  MaxFails = 1
  Accept = 75
  Review = 50
  Retries = 1
  EvidenceCap = 2
  Marker = 2
  MaxIncidents = 1
  Pipelines = {1, 2}
  AutonomyLevels = {2, 4}
  Terminal = TRUE
  MaxCloses = 1
  MaxDecisions = 1
  Arrays = {"identities"}
  Exploited = {"k1", "k2"}
  Ransomware = {"k2", "k3"}
  MaxLines = 3
  Slots = {1, 2}
  Routes = {"list", "ui_comment", "unsuppress", "suppress", "add", "revoke"}
  CliRoutes = {"rotate"}
  Targets = {"bob", "eve"}
  MaxRequests = 3
  MaxCrashes = 1
INVARIANTS
  RulesExact
  StoriesKept
  OnlyRepeatsSuppressed
  BaselineExact
  AdviceSound
  ResponseSound
  EnrichmentSound
  WebSound
PROPERTIES
  LearnedKept
