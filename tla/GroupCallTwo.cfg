SPECIFICATION Spec
CONSTANTS
  N = 2
  MaxStarts = 4
  MaxLosses = 0
INVARIANT NotEachOther
CHECK_DEADLOCK FALSE
