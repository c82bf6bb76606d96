SPECIFICATION Spec
CONSTANTS
  User = {a, b}
  MaxMsgs = 3
  MaxTime = 2
  MaxAsks = 1
  MaxRepeats = 1
PROPERTY HistoryIsKept
CHECK_DEADLOCK FALSE
