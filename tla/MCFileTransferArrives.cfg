SPECIFICATION LiveSpec
CONSTANTS
  alice = alice
  bob = bob
  photo = photo
  song = song
  User = {alice, bob}
  File = {photo}
  NoFile = NoFile
  From <- MCFrom
  To <- MCTo
  Chunks = 2
  NackSize = 1
  Lossy = {"CHUNK", "COMPLETE", "NACK"}
  Repeated = {}
  MaxLink = 1
  MaxCmds = 2
  MaxCards = 1
  MaxRestarts = 0
  MaxCalls = 0
CONSTRAINT Calm
PROPERTIES Arrived
CHECK_DEADLOCK FALSE
