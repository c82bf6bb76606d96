SPECIFICATION Spec
CONSTANTS
  Sharer = {s}
  MaxFrames = 4
  MaxChunks = 3
  Ids = 5
  Room = 2
PROPERTY DropsStalest
CHECK_DEADLOCK FALSE
