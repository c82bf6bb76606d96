SPECIFICATION Spec
CONSTANTS
  alice = alice
  bob = bob
  carol = carol
  a1 = a1
  b1 = b1
  NoNode = NoNode
  NoAddr = NoAddr
  Node = {alice, bob, carol}
  Addr = {a1, b1}
  AddrOf <- MCAddrOf
  Contacts <- MCContacts
  MaxEph = 3
  MaxText <- MCText
  MaxCalls = 0
INVARIANTS NoMessageLost
