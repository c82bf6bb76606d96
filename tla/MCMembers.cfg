SPECIFICATION MembersSpec
CONSTANTS
  Size <- TwoAvatars
  MaxChanges = 2
  MaxRetries = 0
  Person = {a, b}
  Founder = a
  Chan = {x}
  TombstoneDays = 1
  N = 3
  MaxEph = 2
  MaxCalls = 3
  MaxKeys = 2
  MaxEdits = 2
  MaxDays = 2
  MaxGroupSteps = 3
  MaxMsgs = 2
  MaxTime = 2
  MaxAsks = 1
  MaxRepeats = 1
  MaxStarts = 0
  MaxLosses = 1
INVARIANTS
  Types
  NobodyAddedAlone
  DeletionIsRemembered
  RemovedLacksKey
  HeldIsWhole
  AckMeansSaved
PROPERTIES
  DeletedStaysDeleted
  SyncEnds
  SilenceEnds
CHECK_DEADLOCK FALSE
