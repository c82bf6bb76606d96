SPECIFICATION Spec
CONSTANTS
  alice = alice
  bob = bob
  NoNode = NoNode
  NoAddr = NoAddr
  Node = {alice, bob}
  Addr = {a1, b1}
  a1 = a1
  b1 = b1
  b2 = b1
  AddrOf <- MCAddrOf
  Contacts <- MCContacts
  MaxEph = 4
  MaxText <- MCTextBob
  MaxCalls = 0
INVARIANTS ShownOncePerSession DeliveredAsAddressed EndsUnderstandEachOther OnlineHasSession
PROPERTIES ShownWhileQueued
