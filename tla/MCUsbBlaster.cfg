SPECIFICATION Spec
CONSTANTS
  BufSize = 3
  MaxShift = 3
  MaxBytes = 4
INVARIANTS
  SameClocks
  SameResults
CHECK_DEADLOCK FALSE
