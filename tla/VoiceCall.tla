----------------------------- MODULE VoiceCall -----------------------------
(***************************************************************************)
(* One-to-one voice calls: how a call rings at a daemon, how it is         *)
(* accepted or rejected, the key exchange and the exchange of identities   *)
(* of the two engines, and how the call ends.  A user's engine and daemon  *)
(* use the same port in turn: while phase is "idle" the daemon has it.     *)
(*                                                                         *)
(* Every attempt has a fresh ephemeral key pair, here a number; two ends   *)
(* that hold the same two numbers share a session.  Voice, chat and screen *)
(* packets are left out: they need the session and change nothing in it.   *)
(***************************************************************************)
EXTENDS Naturals, FiniteSets

CONSTANTS
  User,
  Nobody,    \* what stands for no user
  MaxEph     \* bound: key pairs made, by calls and by rejections

\* Assumed of the constants, where they are given.
VoiceCallAssumption ==
  Nobody \notin User /\ MaxEph \in Nat

VARIABLES
  phase,    \* of each user's engine
  peer,     \* whom it calls
  eph,      \* its key pair
  other,    \* the key it took for the peer's
  shown,    \* the identity it received
  ring,     \* incoming_call, the popup: whose call
  notified, \* notified_calls: notified[u][v], the key of v's call that rang last
  rejected, \* rejected_ips
  net,      \* datagrams under way; a lost one stays for ever
  next,     \* next key pair
  hung      \* history: sessions that were hung up while established

state == <<phase, peer, eph, other, shown>>
daemon == <<ring, notified, rejected>>
vars == <<phase, peer, eph, other, shown, ring, notified, rejected, net, next, hung>>

Eph == 1..MaxEph
NoEph == 0

\* "failed" is the error screen and what follows it: the daemon has no socket.
Phase == {"idle", "failed", "hello", "identity", "up"}

Hello(u, v, e) == [type |-> "HELLO", src |-> u, dst |-> v, key |-> {e}]
\* "from" is the identity inside: the user who sealed the packet.
Sealed(type, u, v, e, f) == [type |-> type, src |-> u, dst |-> v, key |-> {e, f}]
Packet == [type : {"HELLO", "IDENTITY", "HANGUP"}, src : User, dst : User, key : SUBSET Eph]

Session(u) == {eph[u], other[u]}
Identity(u) == Sealed("IDENTITY", u, peer[u], eph[u], other[u])
\* Fault: the type is the first byte, in the clear.
ReadsType(u, p) == TRUE
Reads(u, p) == p.key = Session(u)

Init ==
  /\ phase = [u \in User |-> "idle"] /\ peer = [u \in User |-> Nobody]
  /\ eph = [u \in User |-> NoEph] /\ other = [u \in User |-> NoEph]
  /\ shown = [u \in User |-> Nobody]
  /\ ring = [u \in User |-> Nobody]
  /\ notified = [u \in User |-> [v \in User |-> NoEph]]
  /\ rejected = [u \in User |-> {}]
  /\ net = {} /\ next = 1 /\ hung = {}

----------------------------------------------------------------------------
(* The user *)

Dials(u, v) ==
  /\ phase[u] \in {"idle", "failed"} /\ next <= MaxEph
  /\ phase' = [phase EXCEPT ![u] = "hello"] /\ peer' = [peer EXCEPT ![u] = v]
  /\ eph' = [eph EXCEPT ![u] = next] /\ other' = [other EXCEPT ![u] = NoEph]
  /\ shown' = [shown EXCEPT ![u] = Nobody]
  /\ next' = next + 1
  /\ UNCHANGED <<rejected, net, hung>>

\* A popup stays up when another call is dialled.
Call(u, v) == u # v /\ Dials(u, v) /\ UNCHANGED <<ring, notified>>

\* Accepting calls back.
Accept(u) ==
  /\ phase[u] = "idle" /\ ring[u] # Nobody
  /\ Dials(u, ring[u])
  /\ ring' = [ring EXCEPT ![u] = Nobody]
  /\ notified' = [notified EXCEPT ![u][ring[u]] = NoEph]

\* Rejecting completes a key exchange of its own with the call that rang last,
\* if that is known still, and hangs up.
Reject(u) ==
  /\ phase[u] = "idle" /\ ring[u] # Nobody
  /\ LET v == ring[u]
         e == notified[u][v]
     IN  /\ \/ e = NoEph /\ UNCHANGED <<net, next>>
            \/ /\ e # NoEph /\ next <= MaxEph /\ next' = next + 1
               /\ net' = net \cup {Hello(u, v, next), Sealed("HANGUP", u, v, next, e)}
         /\ notified' = [notified EXCEPT ![u][v] = NoEph]
         /\ rejected' = [rejected EXCEPT ![u] = @ \cup {v}]
  /\ ring' = [ring EXCEPT ![u] = Nobody]
  /\ UNCHANGED <<phase, peer, eph, other, shown, hung>>

\* An engine that ends leaves nothing behind.
Over(u, p) ==
  /\ phase' = [phase EXCEPT ![u] = p] /\ peer' = [peer EXCEPT ![u] = Nobody]
  /\ eph' = [eph EXCEPT ![u] = NoEph] /\ other' = [other EXCEPT ![u] = NoEph]
  /\ shown' = [shown EXCEPT ![u] = Nobody]

\* cleanup_call and ReclaimSocket: the daemon is back with a fresh slate.
Reclaimed(u) ==
  /\ notified' = [notified EXCEPT ![u] = [v \in User |-> NoEph]]
  /\ rejected' = [rejected EXCEPT ![u] = {}]
  /\ UNCHANGED ring
Ends(u) == Over(u, "idle") /\ Reclaimed(u) /\ UNCHANGED next

\* An established call says HANGUP; one that is still connecting says nothing,
\* nor does one whose result the window has not taken up yet.
HangUp(u) ==
  /\ phase[u] = "up" /\ Ends(u)
  /\ net' = net \cup {Sealed("HANGUP", u, peer[u], eph[u], other[u])}
  /\ hung' = hung \cup {Session(u)}

Cancel(u) ==
  /\ phase[u] \in {"hello", "identity", "up"} /\ Ends(u)
  /\ UNCHANGED <<net, hung>>

----------------------------------------------------------------------------
(* The engine *)

Send(u, p) == net' = net \cup {p} /\ UNCHANGED <<phase, peer, eph, other, shown>>

\* handshake: HELLO every half second.
SendHello(u) ==
  /\ phase[u] = "hello" /\ Send(u, Hello(u, peer[u], eph[u]))
  /\ UNCHANGED <<ring, notified, rejected, next, hung>>

SendIdentity(u) ==
  /\ phase[u] = "identity" /\ Send(u, Identity(u))
  /\ UNCHANGED <<ring, notified, rejected, next, hung>>

\* Sixty HELLOs or thirty identities without an answer.
GiveUp(u) ==
  /\ phase[u] \in {"hello", "identity"}
  /\ Over(u, "failed")
  /\ UNCHANGED <<daemon, net, next, hung>>

Got(p, sent) == net' = (net \ {p}) \cup sent

\* The first HELLO from anywhere is taken; ten more of one's own follow.
\* Fault: they go where the HELLO came from.
Echo(u, p) == {Hello(u, p.src, eph[u])}
Rest(u, p) == {Hello(u, peer[u], eph[u])}
TakeHello(u, p) ==
  /\ phase[u] = "hello" /\ p.type = "HELLO"
  /\ phase' = [phase EXCEPT ![u] = "identity"]
  /\ other' = [other EXCEPT ![u] = CHOOSE e \in p.key : TRUE]
  /\ Got(p, Rest(u, p))
  /\ UNCHANGED <<peer, eph, shown>>

\* A blocked contact, or an audio stream that cannot be opened, ends the attempt
\* here, and nothing is said to the peer, who has the identity by then.
TakeIdentity(u, p) ==
  /\ phase[u] = "identity" /\ p.type = "IDENTITY" /\ Reads(u, p)
  /\ \/ /\ phase' = [phase EXCEPT ![u] = "up"] /\ shown' = [shown EXCEPT ![u] = p.src]
        /\ UNCHANGED <<peer, eph, other>>
     \/ Over(u, "failed")
  /\ Got(p, {Identity(u)})

\* Fault: only identities are looked at in the exchange of identities.
HeardWhenUp(u) == phase[u] = "up"
Heard(u) == phase[u] \in {"identity", "up"}

\* In the exchange of identities HANGUP means that the call was rejected; later
\* the window ends the call.
TakeHangup(u, p) ==
  /\ Heard(u) /\ p.type = "HANGUP" /\ Reads(u, p)
  /\ Over(u, IF phase[u] = "up" THEN "idle" ELSE "failed")
  /\ Got(p, {})

\* An established call answers any IDENTITY with its own, unread.
Repeat(u, p) ==
  /\ phase[u] = "up" /\ p.type = "IDENTITY"
  /\ Got(p, {Identity(u)}) /\ UNCHANGED state

Ignore(u, p) ==
  /\ \/ phase[u] = "failed"
     \/ phase[u] = "idle" /\ p.type # "HELLO"
     \/ phase[u] = "hello" /\ p.type # "HELLO"
     \/ phase[u] = "identity" /\ (p.type = "HELLO" \/ ~Reads(u, p))
     \/ phase[u] = "up" /\ (p.type = "HELLO" \/ (p.type = "HANGUP" /\ ~Reads(u, p)))
     \/ phase[u] = "identity" /\ p.type = "HANGUP" /\ ~Heard(u)
  /\ Got(p, {}) /\ UNCHANGED state

\* The daemon: a HELLO rings unless it repeats the one that rang last or comes
\* right after a rejection.
Ring(u, p) ==
  /\ phase[u] = "idle" /\ p.type = "HELLO"
  /\ IF p.src \in rejected[u] \/ p.key = {notified[u][p.src]}
     THEN UNCHANGED <<ring, notified>>
     ELSE /\ ring' = [ring EXCEPT ![u] = p.src]
          /\ notified' = [notified EXCEPT ![u][p.src] = CHOOSE e \in p.key : TRUE]
  /\ Got(p, {}) /\ UNCHANGED <<phase, peer, eph, other, shown, rejected>>

\* The window turns a remote hangup into cleanup_call.
Slate(u) == IF phase[u] = "up" /\ phase'[u] = "idle" THEN Reclaimed(u) ELSE UNCHANGED daemon

Receive(u) ==
  /\ \E p \in {q \in net : q.dst = u} :
       \/ /\ TakeHello(u, p) \/ TakeIdentity(u, p) \/ TakeHangup(u, p) \/ Repeat(u, p) \/ Ignore(u, p)
          /\ Slate(u)
       \/ Ring(u, p)
  /\ UNCHANGED <<next, hung>>

\* The sixty and the five seconds are over.
Forget(u) ==
  /\ \/ /\ rejected[u] # {} /\ rejected' = [rejected EXCEPT ![u] = {}]
        /\ UNCHANGED notified
     \/ /\ \E v \in User : notified[u][v] # NoEph /\ notified' = [notified EXCEPT ![u][v] = NoEph]
        /\ UNCHANGED rejected
  /\ phase[u] = "idle"
  /\ UNCHANGED <<phase, peer, eph, other, shown, ring, net, next, hung>>

----------------------------------------------------------------------------
Next ==
  \E u \in User :
    \/ \E v \in User : Call(u, v)
    \/ Accept(u) \/ Reject(u) \/ HangUp(u) \/ Cancel(u)
    \/ SendHello(u) \/ SendIdentity(u) \/ GiveUp(u) \/ Receive(u) \/ Forget(u)

Spec == Init /\ [][Next]_vars

----------------------------------------------------------------------------
(* Properties *)

\* Every variable has its type.
TypeOK ==
  /\ phase \in [User -> Phase] /\ peer \in [User -> User \cup {Nobody}]
  /\ eph \in [User -> Eph \cup {NoEph}] /\ other \in [User -> Eph \cup {NoEph}]
  /\ shown \in [User -> User \cup {Nobody}]
  /\ ring \in [User -> User \cup {Nobody}]
  /\ notified \in [User -> [User -> Eph \cup {NoEph}]]
  /\ rejected \in [User -> SUBSET User]
  /\ net \subseteq Packet /\ next \in 1..MaxEph + 1
  /\ hung \subseteq SUBSET Eph

\* Two users in a call with each other have one session, whatever remains of
\* earlier attempts, rejections and crossing calls was still on its way.
KeysAgree ==
  \A u, v \in User :
    phase[u] = "up" /\ phase[v] = "up" /\ peer[u] = v /\ peer[v] = u => Session(u) = Session(v)

\* Whoever a call shows is the one that was called, though the key exchange
\* takes a HELLO from anybody.
UpWithCalled == \A u \in User : phase[u] = "up" => shown[u] = peer[u]

\* A hangup ends the call at both ends: an end that still has the session of a
\* call that was hung up has the HANGUP yet to come, so that only its loss lets
\* the end go on alone.
HangupIsHeard ==
  \A u \in User :
    phase[u] \in {"identity", "up"} /\ Session(u) \in hung =>
      \E p \in net : p.dst = u /\ p.type = "HANGUP" /\ p.key = Session(u)
=============================================================================
