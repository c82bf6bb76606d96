SPECIFICATION JoinedSpec
CONSTANTS
  User = {a, b, c}
  Founder = a
  Chan = {}
  TombstoneDays = 30
  MaxKeys = 2
  MaxEdits = 3
  MaxDays = 1
INVARIANT RemovedLacksKey
CHECK_DEADLOCK FALSE
