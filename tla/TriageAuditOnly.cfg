SPECIFICATION Spec
CONSTANTS
  Drivers <- OnlySQLite
  None = None
  Clients = {c1, c2}
  Incidents = {i1, i2}
  Proposals = {p}
  Analysts = {a}
  MaxMerges = 2
  MaxOps = 3
SYMMETRY Symmetry
CHECK_DEADLOCK FALSE
INVARIANTS
  AuditChainIntact
