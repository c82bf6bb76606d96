SPECIFICATION Spec
CONSTANTS
  User = {a, b}
  MaxEph = 2
  MaxCalls = 3
INVARIANT NoContactMarked
CHECK_DEADLOCK FALSE
