SPECIFICATION Spec
CONSTANTS
  alice = alice
  bob = bob
  photo = photo
  song = song
  User = {alice, bob}
  File = {photo, song}
  NoFile = NoFile
  From <- MCFrom
  To <- MCTo
  Chunks = 2
  NackSize = 1
  Lossy = {}
  Repeated = {}
  MaxLink = 2
  MaxCmds = 1
  MaxCards = 2
  MaxRestarts = 1
  MaxCalls = 0
CONSTRAINT Reuse
INVARIANT OneFilePerPart
CHECK_DEADLOCK FALSE
