------------------------------ MODULE MCGroups ------------------------------
(***************************************************************************)
(* A group of three that is already there: its founder, and the two users  *)
(* who are in it, know of each other.                                      *)
(***************************************************************************)
EXTENDS Groups

\* The founder made one of the others an admin already, or nobody yet.
JoinedSpec == (\E v \in User : InitJoined({Founder, v})) /\ [][Next]_vars
=============================================================================
