---------------------------- MODULE MCMessenger ----------------------------
(* Two users, alice at one address and bob at two, both in each other's contacts. *)
EXTENDS MessengerInv

CONSTANTS alice, bob, a1, b1, b2

MCAddrOf == [n \in Node |-> IF n = alice THEN {a1} ELSE {b1, b2}]
MCTextNone == [n \in Node |-> 0]
MCTextOne == [n \in Node |-> 1]
MCTextTwo == [n \in Node |-> IF n = alice THEN 2 ELSE 0]
MCTextBob == [n \in Node |-> IF n = bob THEN 1 ELSE 0]
\* Bound of the move run: no history goes on after a keepalive.
NoKeepalive == \A p \in net : p.type = "ACK" => p.seq # 0

MCContacts == [n \in Node |-> Node \ {n}]
=============================================================================
