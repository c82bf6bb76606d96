SPECIFICATION CallsSpec
CONSTANTS
  MaxCalls = 2
  MaxAttempts = 2
  Person = {a, b}
  NoPerson = NoPerson
  Viewer = {v}
  Sharer = {s}
  Ids = 5
  Room = 2
  N = 3
  MaxEph = 3
  MaxStarts = 2
  MaxLosses = 0
  MaxJoins = 5
  MaxPackets = 3
  MaxShares = 2
  MaxQueue = 2
  MaxFrames = 4
  MaxChunks = 2
INVARIANTS
  UpWithCalled
  StoppedShareLeavesScreen
  GroupCaptureIsShown
PROPERTY TogetherShown
CHECK_DEADLOCK FALSE
