SPECIFICATION Spec
CONSTANTS
  User = {a, b}
  MaxEph = 4
  MaxCalls = 0
INVARIANT AckIsRead
CHECK_DEADLOCK FALSE
