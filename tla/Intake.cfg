SPECIFICATION Spec
CHECK_DEADLOCK FALSE
CONSTANTS
  Kinds = {"okta", "github", "entra"}
  MaxRecords = 4
  PageSize = 2
  MaxPages = 2
  MaxRetries = 2
  SeenCap = 2
  NoId = {4}
  MaxKey = 5
  NotLogs = {2}
  Corrupt = {4}
  ListBound = 3
  MaxObjects = 2
  SeenKeys = 2
  MaxCrashes = 1
  MaxLostSaves = 1
  TailKinds = {"jsonl", "cloudtrail", "sysmon"}
  MaxLines = 3
  MaxGen = 1
  MaxRestarts = 1
  p1 = p1
  p2 = p2
  t1 = t1
  t2 = t2
  None = None
  Procs = {p1, p2}
  Threads = {t1, t2}
  Sharings <- BothShapes
  MaxOffset = 5
  MaxPending = 2
  MaxBurst = 2
  CompactAfter = 3
  Chunk = 2
  MaxFaults = 1
  Writers = {w1, w2}
  MaxEntries = 5
  MaxTears = 2
  MaxTruncations = 1
  Curated = {"c1"}
  Releases <- TwoReleases
  Imported = {"i1"}
  Published = {"i2"}
  Limit = 2
  MaxVersion = 2
  MaxRuns = 2
  MaxKills = 1
INVARIANTS
  TypeOK
  NothingSkipped
  NothingReplayed
  QueueBounded
  JournalReadable
  FeedsHonest
PROPERTIES
  QueueRowsKept
