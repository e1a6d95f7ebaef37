SPECIFICATION Spec
CONSTANTS
  BatchSizes = {2}
  MaxDatagram = 1
  MaxLines = 1
CHECK_DEADLOCK FALSE
INVARIANTS
  NoLineLostUncounted
