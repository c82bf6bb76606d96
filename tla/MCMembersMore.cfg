SPECIFICATION MembersSpec
CONSTANTS
  Size <- TwoAvatars
  MaxChanges = 2
  MaxRetries = 0
  Person = {a, b}
  Founder = a
  Chan = {x}
  TombstoneDays = 1
  N = 3
  MaxEph = 2
  MaxCalls = 3
  MaxKeys = 2
  MaxEdits = 3
  MaxDays = 2
  MaxGroupSteps = 4
  MaxMsgs = 2
  MaxTime = 2
  MaxAsks = 1
  MaxRepeats = 1
  MaxStarts = 0
  MaxLosses = 1
INVARIANT InOrder
PROPERTY DeletedStaysDeleted
CHECK_DEADLOCK FALSE
