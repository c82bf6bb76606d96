SPECIFICATION Spec
CONSTANTS
  alice = alice
  bob = bob
  photo = photo
  song = song
  User = {alice, bob}
  File = {photo}
  NoFile = NoFile
  From <- MCFrom
  To <- MCTo
  Chunks = 2
  NackSize = 1
  Lossy = {"CHUNK"}
  Repeated = {"ACK"}
  MaxLink = 2
  MaxCmds = 1
  MaxCards = 1
  MaxRestarts = 0
  MaxCalls = 1
CONSTRAINT Small
INVARIANTS TypeOK AckMeansWhole CompletedMeansWhole EntryHasCard OpenCardHasTransfer
CHECK_DEADLOCK FALSE
