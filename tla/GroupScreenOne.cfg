SPECIFICATION Spec
CONSTANTS
  Viewer = {v}
  MaxShares = 2
  MaxQueue = 2
INVARIANT OneCapture
CHECK_DEADLOCK FALSE
