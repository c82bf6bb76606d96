SPECIFICATION Spec
CONSTANTS
  alice = alice
  bob = bob
  NoNode = NoNode
  NoAddr = NoAddr
  Node = {alice, bob}
  Addr = {a1, b1, b2}
  a1 = a1
  b1 = b1
  b2 = b2
  AddrOf <- MCAddrOf
  Contacts <- MCContacts
  MaxEph = 4
  MaxText <- MCTextNone
  MaxCalls = 0
CONSTRAINT NoKeepalive
INVARIANTS TypeOK TablesAgree
