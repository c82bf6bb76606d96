SPECIFICATION LiveSpec
CONSTANTS
  alice = alice
  bob = bob
  photo = photo
  song = song
  User = {alice, bob}
  File = {photo}
  NoFile = NoFile
  From <- MCFrom
  To <- MCTo
  Chunks = 1
  NackSize = 1
  Lossy = {"ACK"}
  Repeated = {}
  MaxLink = 1
  MaxCmds = 1
  MaxCards = 1
  MaxRestarts = 0
  MaxCalls = 0
PROPERTIES StaleTransferEnds
CONSTRAINT Connected
CHECK_DEADLOCK FALSE
