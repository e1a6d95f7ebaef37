SPECIFICATION FairSpec
CHECK_DEADLOCK FALSE
CONSTANTS
  MaxBatch = 2
  MaxLines = 4
  MaxFailures = 2
  ArchiveFaults = 1
  BatchSizes = {1, 2}
  MaxDatagram = 2
  BatchLines = 3
  Events = {"e1", "e2"}
  Destinations = {"opensearch", "clickhouse"}
  Savers = {"s1", "s2"}
  Target <- OnePerSink
  Limit = 1
  MaxSaves = 2
  MaxFaults = 1
INVARIANTS
  TypeOK
  NoLostWakeup
  StopSettles
  ReceiptsTrue
PROPERTIES
  LinesSettle
  StopEnds
  EveryEventProjected
