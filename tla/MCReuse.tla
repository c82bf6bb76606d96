------------------------------ MODULE MCReuse ------------------------------
(* Alice has two contacts, and carol's machine takes over bob's address. *)
EXTENDS Messenger

CONSTANTS alice, bob, carol, a1, b1

MCAddrOf == [n \in Node |-> IF n = alice THEN {a1} ELSE {b1}]
MCContacts == [n \in Node |-> IF n = alice THEN {bob, carol} ELSE {alice}]
MCText == [n \in Node |-> IF n = alice THEN 2 ELSE 0]
=============================================================================
