------------------------------ MODULE Mailbox ------------------------------
(***************************************************************************)
(* What the messenger promises its users, without sessions, packets,       *)
(* numbers or restarts: a composed message is queued until it has been     *)
(* shown to its addressee, is shown only while it is queued, and then      *)
(* leaves the queue.                                                       *)
(***************************************************************************)
CONSTANT Message

VARIABLES
  composed,   \* messages the users wrote
  queued,     \* messages still to be delivered, or not known to be
  shown       \* messages on their addressees' screens

vars == <<composed, queued, shown>>

Init == composed = {} /\ queued = {} /\ shown = {}

Compose(m) ==
  /\ m \notin composed
  /\ composed' = composed \cup {m} /\ queued' = queued \cup {m}
  /\ UNCHANGED shown

Show(m) ==
  /\ m \in queued
  /\ shown' = shown \cup {m}
  /\ UNCHANGED <<composed, queued>>

Settle(m) ==
  /\ m \in queued \cap shown
  /\ queued' = queued \ {m}
  /\ UNCHANGED <<composed, shown>>

Next == \E m \in Message : Compose(m) \/ Show(m) \/ Settle(m)

Spec == Init /\ [][Next]_vars
=============================================================================
