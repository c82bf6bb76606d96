SPECIFICATION Spec
CONSTANTS
  User = {a, b}
  MaxMsgs = 3
  MaxTime = 2
  MaxAsks = 1
  MaxRepeats = 1
INVARIANT NoMessageTwice
CHECK_DEADLOCK FALSE
