SPECIFICATION Spec
CONSTANTS
  Viewer = {v}
  MaxShares = 2
  MaxQueue = 2
INVARIANT EveryoneIsSent
CHECK_DEADLOCK FALSE
