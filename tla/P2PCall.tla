------------------------------ MODULE P2PCall ------------------------------
(***************************************************************************)
(* A group call as a mesh: everyone sends to everyone it knows of, and     *)
(* nobody leads.  A user is an address and a sender index at once, which   *)
(* holds when no member's address is a part of another's.                  *)
(*                                                                         *)
(* Packets between two users arrive in order and are not lost.  Voice goes *)
(* out every 20 ms, muted or not, so that within the thirty seconds of a   *)
(* timeout whoever is known somewhere has been heard from there.           *)
(***************************************************************************)
EXTENDS Naturals, Sequences

CONSTANTS
  User,
  MaxStarts, \* bound: calls started
  MaxQueue   \* bound: packets from one user to another, beyond which none is sent

\* Assumed of the constants, where they are given.
P2PCallAssumption == MaxStarts \in Nat /\ MaxQueue \in Nat

VARIABLES
  in,      \* users whose engine runs
  peers,   \* peers[u]: whom u knows of
  sharing, \* users with a capture loop
  link,    \* link[u][v]: packets from u to v
  left,    \* history: left[u], whom u knew when it last hung up without a share
  starts

vars == <<in, peers, sharing, link, left, starts>>

\* VOICE is any packet that carries an index: voice, screen, offer and stop.
Type == {"HELLO", "VOICE", "HANGUP"}

Init ==
  /\ in = {} /\ peers = [u \in User |-> {}] /\ sharing = {}
  /\ link = [u \in User |-> [v \in User |-> <<>>]]
  /\ left = [u \in User |-> {}] /\ starts = 0

To(u, D, ps) == [link EXCEPT ![u] = [v \in User |-> IF v \in D THEN @[v] \o ps ELSE @[v]]]

\* start: GRP_HELLO to every other member, three times, once and for all.
Start(u) ==
  /\ u \notin in /\ starts < MaxStarts
  /\ \A v \in User : Len(link[u][v]) < MaxQueue
  /\ in' = in \cup {u} /\ link' = To(u, User \ {u}, <<"HELLO">>)
  /\ left' = [left EXCEPT ![u] = {}] /\ starts' = starts + 1
  /\ UNCHANGED <<peers, sharing>>

Over(u) ==
  /\ in' = in \ {u} /\ peers' = [peers EXCEPT ![u] = {}] /\ sharing' = sharing \ {u}
  /\ UNCHANGED starts

\* Hanging up says so three times in 60 ms; a capture loop says three times in
\* 100 ms that the share has stopped.
Leave(u) ==
  /\ u \in in /\ Over(u)
  /\ link' = To(u, peers[u], <<"HANGUP">> \o IF u \in sharing THEN <<"VOICE">> ELSE <<>>)
  /\ left' = [left EXCEPT ![u] = IF u \in sharing THEN {} ELSE peers[u]]

Crash(u) == u \in in /\ Over(u) /\ UNCHANGED <<link, left>>

Share(u) ==
  /\ u \in in \ sharing /\ sharing' = sharing \cup {u}
  /\ UNCHANGED <<in, peers, link, left, starts>>

Speak(u) ==
  /\ u \in in /\ \E v \in peers[u] : link[u][v] = <<>>
  /\ link' = To(u, {v \in peers[u] : link[u][v] = <<>>}, <<"VOICE">>)
  /\ UNCHANGED <<in, peers, sharing, left, starts>>

----------------------------------------------------------------------------
\* A HELLO of somebody new is answered with one.
Answer(u, v) == IF v \in peers[u] THEN <<>> ELSE <<"HELLO">>

\* Fault: who hangs up is forgotten at the next timeout.
KnownYet(u, v, p) == peers[u] \cup {v}
\* Any packet registers its sender; HANGUP strikes it off.
KnownAfter(u, v, p) == IF p = "HANGUP" THEN peers[u] \ {v} ELSE peers[u] \cup {v}

Receive(u, v) ==
  /\ link[v][u] # <<>>
  /\ LET p == Head(link[v][u])
         rest == [link EXCEPT ![v][u] = Tail(@)]
     IN  IF u \in in
         THEN /\ peers' = [peers EXCEPT ![u] = KnownAfter(u, v, p)]
              /\ link' = IF p = "HELLO" THEN [rest EXCEPT ![u][v] = @ \o Answer(u, v)] ELSE rest
         ELSE link' = rest /\ UNCHANGED peers
  /\ UNCHANGED <<in, sharing, left, starts>>

\* Fault: the timeout is over before one's own voice has made one known.
SilentSoon(u, v) == u \notin peers[v]
\* Nothing for thirty seconds: who is out, that is.
Silent(u, v) == v \notin in
RemoveSilent(u, v) ==
  /\ u \in in /\ v \in peers[u] /\ Silent(u, v) /\ link[v][u] = <<>>
  /\ peers' = [peers EXCEPT ![u] = @ \ {v}]
  /\ UNCHANGED <<in, sharing, link, left, starts>>

Next ==
  \E u \in User :
    \/ Start(u) \/ Leave(u) \/ Crash(u) \/ Share(u) \/ Speak(u)
    \/ \E v \in User \ {u} : Receive(u, v) \/ RemoveSilent(u, v)

Spec == Init /\ [][Next]_vars

----------------------------------------------------------------------------
(* Properties *)

\* Every variable has its type.
TypeOK ==
  /\ in \subseteq User /\ sharing \subseteq in
  /\ peers \in [User -> SUBSET User] /\ left \in [User -> SUBSET User]
  /\ \A u \in User : u \notin peers[u]
  /\ link \in [User -> [User -> Seq(Type)]]
  /\ starts \in 0..MaxStarts

\* Nobody sits in a call unheard: of two users in it, with nothing between them
\* under way, one knows the other, and its voice will make that mutual.
OneKnowsTheOther ==
  \A u, v \in in :
    u # v /\ link[u][v] = <<>> /\ link[v][u] = <<>> => u \in peers[v] \/ v \in peers[u]

\* Nobody lingers: who hung up, and had no share running, is forgotten by all
\* it knew once its last packets are in, so that nobody goes on sending there.
\* (Whom it did not know yet waits for the timeout.)
LeaversAreForgotten ==
  \A u \in User : \A v \in left[u] \cap in : link[u][v] = <<>> => u \notin peers[v]
=============================================================================
