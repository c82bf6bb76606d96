SPECIFICATION Spec
CONSTANTS
  alice = alice
  bob = bob
  photo = photo
  song = song
  User = {alice, bob}
  File = {photo, song}
  NoFile = NoFile
  From <- MCCrossedFrom
  To <- MCCrossedTo
  Chunks = 1
  NackSize = 1
  Lossy = {}
  Repeated = {}
  MaxLink = 1
  MaxCmds = 1
  MaxCards = 2
  MaxRestarts = 0
  MaxCalls = 0
PROPERTIES OfferIsNew
CHECK_DEADLOCK FALSE
