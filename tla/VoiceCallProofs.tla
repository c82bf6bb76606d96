-------------------------- MODULE VoiceCallProofs --------------------------
(***************************************************************************)
(* For any set of users and any number of calls, crossing, cancelled or    *)
(* rejected: two users who are in a call with each other hold one key, and *)
(* a hangup reaches whoever still holds the key of the call.               *)
(***************************************************************************)
EXTENDS VoiceCall, TLAPS

\* A user who waits for nobody has no keys; one who waits for a HELLO has none
\* of the peer's.
Stages ==
  \A u \in User :
    /\ phase[u] \in {"idle", "failed"} => eph[u] = NoEph /\ other[u] = NoEph
    /\ phase[u] = "hello" => eph[u] # NoEph /\ other[u] = NoEph
    /\ phase[u] \in {"identity", "up"} => eph[u] # NoEph /\ other[u] # NoEph
    /\ phase[u] \in {"hello", "identity", "up"} => peer[u] \in User \ {u}
    /\ ring[u] # u

\* Keys in use or under way were made; nobody has another's.
KeysMade ==
  /\ \A u \in User : eph[u] < next /\ other[u] < next
  /\ \A u, v \in User : notified[u][v] < next
  /\ \A p \in net : p.src # p.dst /\ \A e \in p.key : e < next
  /\ \A S \in hung : \A e \in S : e < next
  /\ \A u, v \in User : eph[u] = eph[v] /\ eph[u] # NoEph => u = v

\* A HELLO is one key, its sender's, on its way to whom the sender calls; so is
\* the key that was taken from it.
HellosHonest ==
  /\ \A p \in net : p.type = "HELLO" =>
       \E e \in Eph : p.key = {e} /\ \A u \in User : eph[u] = e => u = p.src /\ peer[u] = p.dst
  /\ \A u, v \in User : other[u] = eph[v] /\ eph[v] # NoEph => peer[v] = u

\* Who sent an identity had its own key e and took f, from a call to it; it has
\* those still, or has made new ones since.
Told(u, e, f) ==
  /\ e # f /\ e # NoEph /\ f # NoEph
  /\ eph[u] = NoEph \/ (eph[u] = e /\ other[u] = f) \/ (eph[u] > e /\ eph[u] > f)
  /\ \A v \in User : (eph[v] = e => v = u) /\ (eph[v] = f => peer[v] = u)
IdentitiesHonest ==
  \A p \in net : p.type = "IDENTITY" =>
    \E e, f \in Eph : p.key = {e, f} /\ Told(p.src, e, f)

\* Whoever is in a call has been told so by the peer.
UpWasTold == \A u \in User : phase[u] = "up" => Told(peer[u], other[u], eph[u])

\* A key of a session that was hung up is of no other session.
HungIsWhole == \A S \in hung : NoEph \notin S /\ \A u \in User : eph[u] \in S => Session(u) = S

CallInv ==
  /\ TypeOK /\ Stages /\ KeysMade /\ HellosHonest /\ IdentitiesHonest
  /\ UpWasTold /\ UpWithCalled /\ HungIsWhole /\ HangupIsHeard


----------------------------------------------------------------------------
(* What a step of user u may make of its engine: it goes on, stops, calls,
   takes the key in a HELLO, or is told that the peer took its own. *)

Same(u) == peer'[u] = peer[u] /\ eph'[u] = eph[u]
Stays(u) ==
  Same(u) /\ phase'[u] = phase[u] /\ other'[u] = other[u] /\ shown'[u] = shown[u]
Stops(u) == phase'[u] \in {"idle", "failed"} /\ eph'[u] = NoEph /\ other'[u] = NoEph
Dialled(u) ==
  /\ phase'[u] = "hello" /\ peer'[u] \in User \ {u}
  /\ eph'[u] = next /\ next' = next + 1 /\ other'[u] = NoEph
TookHello(u) ==
  /\ phase[u] = "hello" /\ phase'[u] = "identity" /\ Same(u)
  /\ \E p \in net : p.type = "HELLO" /\ p.dst = u /\ p.key = {other'[u]}
TookIdentity(u) ==
  /\ phase[u] = "identity" /\ phase'[u] = "up" /\ Same(u) /\ other'[u] = other[u]
  /\ \E p \in net :
       p.type = "IDENTITY" /\ p.dst = u /\ p.key = Session(u) /\ shown'[u] = p.src
Engine(u) ==
  /\ Stays(u) \/ Stops(u) \/ Dialled(u) \/ TookHello(u) \/ TookIdentity(u)
  /\ \A v \in User \ {u} : Stays(v)
  /\ next' \in {next, next + 1}

\* What the step may send,
Launched(u, q) ==
  /\ q.src = u /\ q.dst # u /\ \A e \in q.key : e < next'
  /\ q.type = "HELLO" =>
       \/ q.dst = peer[u] /\ q.key = {eph[u]} /\ Same(u) /\ phase[u] = "hello"
       \/ q.key = {next} /\ next \in Eph /\ Stays(u)
  /\ q.type = "IDENTITY" => phase[u] \in {"identity", "up"} /\ q.key = Session(u)

\* and take, and which sessions it hangs up.
Mail(u) ==
  /\ \A q \in net' : q \in net \/ Launched(u, q)
  /\ \A q \in net \ net' :
       /\ q.dst = u
       /\ q.type = "HANGUP" /\ q.key = Session(u) /\ phase[u] \in {"identity", "up"} => Stops(u)
  /\ \/ hung' = hung
     \/ /\ phase[u] = "up" /\ Stops(u) /\ hung' = hung \cup {Session(u)}
        /\ Sealed("HANGUP", u, peer[u], eph[u], other[u]) \in net'

\* The daemon's tables.
Tables ==
  /\ \A u \in User : ring'[u] # u
  /\ \A u, v \in User : notified'[u][v] < next'

Base == TypeOK /\ Stages /\ KeysMade

----------------------------------------------------------------------------
(* A step like that keeps the invariant, one part after the other. *)

LEMMA Numbers ==
  ASSUME TypeOK
  PROVE  /\ next \in Nat /\ next > 0 /\ NoEph = 0 /\ Eph \subseteq Nat \ {0}
         /\ \A u \in User : eph[u] \in Nat /\ other[u] \in Nat
         /\ \A p \in net : p.src \in User /\ p.dst \in User /\ p.key \subseteq Nat
BY DEF TypeOK, NoEph, Eph, Packet

LEMMA StagesKept ==
  ASSUME Base, HellosHonest, NEW u \in User, Engine(u), Tables
  PROVE  Stages'
<1>1. ASSUME NEW v \in User, v # u
      PROVE  /\ phase'[v] \in {"idle", "failed"} => eph'[v] = NoEph /\ other'[v] = NoEph
             /\ phase'[v] = "hello" => eph'[v] # NoEph /\ other'[v] = NoEph
             /\ phase'[v] \in {"identity", "up"} => eph'[v] # NoEph /\ other'[v] # NoEph
             /\ phase'[v] \in {"hello", "identity", "up"} => peer'[v] \in User \ {v}
  BY <1>1 DEF Engine, Stays, Same, Base, Stages
<1>2. TookHello(u) => other'[u] # NoEph
  BY Numbers DEF TookHello, HellosHonest, Base
<1>3. /\ phase'[u] \in {"idle", "failed"} => eph'[u] = NoEph /\ other'[u] = NoEph
      /\ phase'[u] = "hello" => eph'[u] # NoEph /\ other'[u] = NoEph
      /\ phase'[u] \in {"identity", "up"} => eph'[u] # NoEph /\ other'[u] # NoEph
      /\ phase'[u] \in {"hello", "identity", "up"} => peer'[u] \in User \ {u}
  BY <1>2, Numbers DEF Engine, Stays, Same, Stops, Dialled, TookHello, TookIdentity, Base, Stages
<1> QED BY <1>1, <1>3 DEF Stages, Tables

LEMMA KeysMadeKept ==
  ASSUME Base, NEW u \in User, Engine(u), Mail(u), Tables
  PROVE  KeysMade'
<1>n. next \in Nat /\ next' \in Nat /\ next <= next' /\ NoEph = 0 /\ next > 0
  BY Numbers DEF Engine, Base
<1>1. \A v \in User : eph'[v] < next' /\ other'[v] < next'
  <2>1. \A v \in User : eph[v] \in Nat /\ other[v] \in Nat /\ eph[v] < next /\ other[v] < next
    BY Numbers DEF Base, KeysMade
  <2>2. TookHello(u) => other'[u] \in Nat /\ other'[u] < next
    BY Numbers DEF TookHello, Base, KeysMade
  <2>3. eph'[u] < next' /\ other'[u] < next'
    BY <1>n, <2>1, <2>2 DEF Engine, Stays, Same, Stops, Dialled, TookHello, TookIdentity
  <2>4. ASSUME NEW v \in User \ {u} PROVE eph'[v] < next' /\ other'[v] < next'
    BY <1>n, <2>1 DEF Engine, Stays, Same
  <2> QED BY <2>3, <2>4
<1>2. \A p \in net' : p.src # p.dst /\ \A e \in p.key : e < next'
  BY <1>n, Numbers DEF Mail, Launched, Base, KeysMade
<1>3. \A S \in hung' : \A e \in S : e < next'
  <2>1. \A S \in hung : S \subseteq Nat
    BY Numbers DEF Base, TypeOK
  <2>2. \A e \in Session(u) : e < next /\ e \in Nat
    BY Numbers DEF Base, KeysMade, Session
  <2> QED BY <1>n, <2>1, <2>2 DEF Mail, Base, KeysMade
<1>4. \A v, w \in User : eph'[v] = eph'[w] /\ eph'[v] # NoEph => v = w
  <2>1. \A v \in User \ {u} : eph'[v] = eph[v]
    BY DEF Engine, Stays, Same
  <2>2. eph'[u] \in {eph[u], NoEph, next}
    BY DEF Engine, Stays, Same, Stops, Dialled, TookHello, TookIdentity
  <2>3. \A v \in User : eph[v] # next
    BY <1>n, Numbers DEF Base, KeysMade
  <2> QED BY <2>1, <2>2, <2>3 DEF Base, KeysMade
<1> QED BY <1>1, <1>2, <1>3, <1>4 DEF KeysMade, Tables

\* A key that is known stays whose it was.
LEMMA KeyKept ==
  ASSUME Base, NEW u \in User, Engine(u), NEW e, e \in Nat, e # NoEph, e < next,
         NEW v \in User, eph'[v] = e
  PROVE  eph[v] = e /\ peer'[v] = peer[v]
BY Numbers DEF Engine, Stays, Same, Stops, Dialled, TookHello, TookIdentity, Base

LEMMA ToldKept ==
  ASSUME Base, NEW u \in User, Engine(u), NEW w \in User, NEW e, NEW f,
         e \in Nat, f \in Nat, e < next, f < next, Told(w, e, f)
  PROVE  Told(w, e, f)'
<1>1. e # f /\ e # NoEph /\ f # NoEph
  BY DEF Told
<1>2. \A v \in User : (eph'[v] = e => v = w) /\ (eph'[v] = f => peer'[v] = w)
  BY <1>1, KeyKept DEF Told
<1>3. eph'[w] = NoEph \/ (eph'[w] = e /\ other'[w] = f) \/ (eph'[w] > e /\ eph'[w] > f)
  <2>1. CASE Stays(w) \/ Stops(w)
    BY <2>1 DEF Told, Stays, Same, Stops
  <2>2. CASE Dialled(w)
    BY <2>2, Numbers DEF Dialled, Base
  <2>3. CASE TookHello(w)
    <3>1. other[w] # f
      BY <1>1, <2>3 DEF TookHello, Base, Stages
    <3> QED BY <2>3, <3>1 DEF TookHello, Same, Told
  <2>4. CASE TookIdentity(w)
    BY <2>4 DEF TookIdentity, Same, Told
  <2> QED BY <2>1, <2>2, <2>3, <2>4 DEF Engine
<1> QED BY <1>1, <1>2, <1>3 DEF Told

LEMMA HellosHonestKept ==
  ASSUME Base, HellosHonest, NEW u \in User, Engine(u), Mail(u)
  PROVE  HellosHonest'
<1>1. ASSUME NEW p \in net', p.type = "HELLO"
      PROVE  \E e \in Eph : p.key = {e} /\ \A v \in User : eph'[v] = e => v = p.src /\ peer'[v] = p.dst
  <2>1. CASE p \in net
    <3>1. PICK e \in Eph : p.key = {e} /\ \A v \in User : eph[v] = e => v = p.src /\ peer[v] = p.dst
      BY <1>1, <2>1 DEF HellosHonest
    <3>2. e \in Nat /\ e # NoEph /\ e < next
      BY <2>1, <3>1, Numbers DEF Base, KeysMade
    <3> QED BY <3>1, <3>2, KeyKept
  <2>2. CASE p.src = u /\ p.dst = peer[u] /\ p.key = {eph[u]} /\ Same(u) /\ phase[u] = "hello"
    <3>1. eph[u] \in Eph /\ eph[u] \in Nat /\ eph[u] # NoEph /\ eph[u] < next
      BY <2>2, Numbers DEF Base, TypeOK, Stages, KeysMade
    <3>2. ASSUME NEW v \in User, eph'[v] = eph[u] PROVE v = u /\ peer'[v] = peer[u]
      BY <2>2, <3>1, <3>2, KeyKept DEF Base, KeysMade, Same
    <3> QED BY <2>2, <3>1, <3>2
  <2>3. CASE p.key = {next} /\ next \in Eph /\ Stays(u)
    <3>1. \A v \in User : eph'[v] # next
      <4>1. \A v \in User : eph'[v] = eph[v] /\ eph[v] < next /\ eph[v] \in Nat
        BY <2>3, Numbers DEF Engine, Stays, Same, Base, KeysMade
      <4> QED BY <4>1, Numbers DEF Base
    <3> QED BY <2>3, <3>1
  <2> QED BY <1>1, <2>1, <2>2, <2>3 DEF Mail, Launched
<1>2. ASSUME NEW v \in User, NEW w \in User, other'[v] = eph'[w], eph'[w] # NoEph
      PROVE  peer'[w] = v
  <2>1. CASE other'[v] = other[v]
    <3>1. other[v] \in Nat /\ other[v] < next
      BY Numbers DEF Base, KeysMade
    <3>2. eph[w] = other[v] /\ peer'[w] = peer[w]
      BY <1>2, <2>1, <3>1, KeyKept
    <3> QED BY <1>2, <2>1, <3>2 DEF HellosHonest
  <2>2. CASE v = u /\ TookHello(u)
    <3>1. PICK p \in net : p.type = "HELLO" /\ p.dst = u /\ p.key = {other'[u]}
      BY <2>2 DEF TookHello
    <3>2. PICK e \in Eph : p.key = {e} /\ \A x \in User : eph[x] = e => x = p.src /\ peer[x] = p.dst
      BY <3>1 DEF HellosHonest
    <3>3. e = other'[u] /\ e \in Nat /\ e < next
      BY <3>1, <3>2, Numbers DEF Base, KeysMade
    <3> QED BY <1>2, <2>2, <3>1, <3>2, <3>3, KeyKept
  <2> QED BY <1>2, <2>1, <2>2 DEF Engine, Stays, Stops, Dialled, TookIdentity
<1> QED BY <1>1, <1>2 DEF HellosHonest

LEMMA IdentitiesHonestKept ==
  ASSUME Base, HellosHonest, IdentitiesHonest, NEW u \in User, Engine(u), Mail(u)
  PROVE  IdentitiesHonest'
<1> SUFFICES ASSUME NEW p \in net', p.type = "IDENTITY"
             PROVE  \E e, f \in Eph : p.key = {e, f} /\ Told(p.src, e, f)'
  BY DEF IdentitiesHonest
<1>1. CASE p \in net
  <2>1. PICK e, f \in Eph : p.key = {e, f} /\ Told(p.src, e, f)
    BY <1>1 DEF IdentitiesHonest
  <2>2. e \in Nat /\ f \in Nat /\ e < next /\ f < next /\ p.src \in User
    BY <1>1, <2>1, Numbers DEF Base, KeysMade
  <2> QED BY <2>1, <2>2, ToldKept
<1>2. CASE p \notin net
  <2>1. p.src = u /\ phase[u] \in {"identity", "up"} /\ p.key = {eph[u], other[u]}
    BY <1>2 DEF Mail, Launched, Session
  <2>2. /\ eph[u] \in Eph /\ other[u] \in Eph /\ eph[u] # NoEph /\ other[u] # NoEph
        /\ eph[u] \in Nat /\ other[u] \in Nat /\ eph[u] < next /\ other[u] < next
        /\ peer[u] # u
    BY <2>1, Numbers DEF Base, TypeOK, Stages, KeysMade
  <2>3. Told(u, eph[u], other[u])
    BY <2>2 DEF Told, HellosHonest, Base, KeysMade
  <2>4. PICK e, f : e = eph[u] /\ f = other[u]
    OBVIOUS
  <2>5. Told(u, e, f)'
    BY <2>2, <2>3, <2>4, ToldKept
  <2> QED BY <2>1, <2>2, <2>4, <2>5
<1> QED BY <1>1, <1>2

\* An identity that is readable was sent by whom the reader calls.
LEMMA IdentityFromPeer ==
  ASSUME Base, IdentitiesHonest, NEW v \in User, eph[v] # NoEph,
         NEW p \in net, p.type = "IDENTITY", p.dst = v, p.key = Session(v)
  PROVE  p.src = peer[v] /\ Told(peer[v], other[v], eph[v])
<1>1. PICK e, f \in Eph : p.key = {e, f} /\ Told(p.src, e, f)
  BY DEF IdentitiesHonest
<1>2. p.src # v /\ e # f /\ p.key = {eph[v], other[v]}
  BY <1>1 DEF Base, KeysMade, Told, Session
<1>3. eph[v] # e
  BY <1>1, <1>2 DEF Told
<1>4. eph[v] = f /\ other[v] = e
  BY <1>1, <1>2, <1>3
<1>5. peer[v] = p.src
  BY <1>1, <1>4 DEF Told
<1> QED BY <1>1, <1>4, <1>5

LEMMA UpWasToldKept ==
  ASSUME Base, IdentitiesHonest, UpWasTold, NEW u \in User, Engine(u)
  PROVE  UpWasTold'
<1> SUFFICES ASSUME NEW v \in User, phase'[v] = "up"
             PROVE  Told(peer[v], other[v], eph[v])'
  BY DEF UpWasTold
<1>1. peer'[v] = peer[v] /\ other'[v] = other[v] /\ eph'[v] = eph[v]
      /\ phase[v] \in {"identity", "up"}
  BY DEF Engine, Stays, Same, Stops, Dialled, TookHello, TookIdentity
<1>2. /\ peer[v] \in User \ {v} /\ eph[v] \in Nat /\ other[v] \in Nat
      /\ eph[v] < next /\ other[v] < next
  BY <1>1, Numbers DEF Base, Stages, KeysMade
<1>3. Told(peer[v], other[v], eph[v])
  <2>1. CASE phase[v] = "up"
    BY <2>1 DEF UpWasTold
  <2>2. CASE phase[v] = "identity"
    <3>1. PICK p \in net : p.type = "IDENTITY" /\ p.dst = v /\ p.key = Session(v)
      BY <2>2 DEF Engine, Stays, Stops, Dialled, TookHello, TookIdentity
    <3>2. eph[v] # NoEph
      BY <2>2 DEF Base, Stages
    <3> QED BY <3>1, <3>2, IdentityFromPeer
  <2> QED BY <1>1, <2>1, <2>2
<1>4. PICK w, e, f : w = peer[v] /\ e = other[v] /\ f = eph[v]
  OBVIOUS
<1>5. Told(w, e, f)'
  BY <1>2, <1>3, <1>4, ToldKept
<1>6. w = peer'[v] /\ e = other'[v] /\ f = eph'[v]
  BY <1>1, <1>4
<1> QED BY <1>5, <1>6

LEMMA UpWithCalledKept ==
  ASSUME Base, IdentitiesHonest, UpWithCalled, NEW u \in User, Engine(u)
  PROVE  UpWithCalled'
<1>1. ASSUME NEW v \in User, phase'[v] = "up", Stays(v) PROVE shown'[v] = peer'[v]
  BY <1>1 DEF Stays, Same, UpWithCalled
<1>2. ASSUME TookIdentity(u) PROVE shown'[u] = peer'[u]
  <2>1. PICK p \in net :
          p.type = "IDENTITY" /\ p.dst = u /\ p.key = Session(u) /\ shown'[u] = p.src
    BY <1>2 DEF TookIdentity
  <2>2. eph[u] # NoEph
    BY <1>2 DEF TookIdentity, Base, Stages
  <2> QED BY <1>2, <2>1, <2>2, IdentityFromPeer DEF TookIdentity, Same
<1> QED BY <1>1, <1>2 DEF UpWithCalled, Engine, Stops, Dialled, TookHello

\* The other end of a session that is up.
LEMMA OtherEnd ==
  ASSUME Base, UpWasTold, NEW u \in User, phase[u] = "up",
         NEW v \in User, v # u, eph[v] \in Session(u)
  PROVE  v = peer[u] /\ Session(v) = Session(u)
<1>1. eph[u] # NoEph /\ other[u] # NoEph /\ eph[u] \in Nat /\ other[u] \in Nat
  BY Numbers DEF Base, Stages
<1>2. eph[v] = other[u]
  BY <1>1 DEF Session, Base, KeysMade
<1>3. Told(peer[u], other[u], eph[u])
  BY DEF UpWasTold
<1>4. v = peer[u] /\ other[v] = eph[u]
  BY <1>1, <1>2, <1>3 DEF Told
<1> QED BY <1>2, <1>4 DEF Session

LEMMA HungIsWholeKept ==
  ASSUME Base, UpWasTold, HungIsWhole, NEW u \in User, Engine(u), Mail(u)
  PROVE  HungIsWhole'
<1> SUFFICES ASSUME NEW S \in hung'
             PROVE  NoEph \notin S /\ \A v \in User : eph'[v] \in S => Session(v)' = S
  BY DEF HungIsWhole
<1>v. \A v \in User \ {u} : eph'[v] = eph[v] /\ Session(v)' = Session(v)
  BY DEF Engine, Stays, Same, Session
<1>1. CASE S \in hung
  <2>1. NoEph \notin S /\ next \notin S
    BY <1>1, Numbers DEF HungIsWhole, Base, KeysMade
  <2>2. eph'[u] \in S => Session(u)' = S
    <3>1. CASE Stays(u) \/ TookIdentity(u)
      BY <1>1, <3>1 DEF HungIsWhole, Stays, TookIdentity, Same, Session
    <3>2. CASE Stops(u) \/ Dialled(u)
      BY <2>1, <3>2 DEF Stops, Dialled
    <3>3. CASE TookHello(u)
      BY <1>1, <2>1, <3>3 DEF TookHello, Same, HungIsWhole, Session, Base, Stages
    <3> QED BY <3>1, <3>2, <3>3 DEF Engine
  <2> QED BY <1>1, <1>v, <2>1, <2>2 DEF HungIsWhole
<1>2. CASE S \notin hung
  <2>1. phase[u] = "up" /\ Stops(u) /\ S = Session(u)
    BY <1>2 DEF Mail
  <2>2. NoEph \notin S
    BY <2>1 DEF Session, Base, Stages
  <2>3. ASSUME NEW v \in User, eph'[v] \in S PROVE Session(v)' = S
    <3>1. v # u
      BY <2>1, <2>2, <2>3 DEF Stops
    <3> QED BY <1>v, <2>1, <2>3, <3>1, OtherEnd
  <2> QED BY <2>2, <2>3
<1> QED BY <1>1, <1>2

LEMMA HangupKept ==
  ASSUME Base, UpWasTold, HungIsWhole, HangupIsHeard, NEW u \in User, Engine(u), Mail(u)
  PROVE  HangupIsHeard'
<1> SUFFICES ASSUME NEW v \in User, phase'[v] \in {"identity", "up"}, Session(v)' \in hung'
             PROVE  \E p \in net' : p.dst = v /\ p.type = "HANGUP" /\ p.key = Session(v)'
  BY DEF HangupIsHeard
<1>1. CASE v # u
  <2>1. Session(v)' = Session(v) /\ phase[v] \in {"identity", "up"} /\ eph[v] \in Session(v)
    BY <1>1 DEF Engine, Stays, Same, Session
  <2>2. CASE Session(v) \in hung
    <3>1. PICK p \in net : p.dst = v /\ p.type = "HANGUP" /\ p.key = Session(v)
      BY <2>1, <2>2 DEF HangupIsHeard
    <3> QED BY <1>1, <2>1, <3>1 DEF Mail
  <2>3. CASE Session(v) \notin hung
    <3>1. /\ phase[u] = "up" /\ Session(v) = Session(u)
          /\ Sealed("HANGUP", u, peer[u], eph[u], other[u]) \in net'
      BY <2>1, <2>3 DEF Mail
    <3>2. v = peer[u]
      BY <1>1, <2>1, <3>1, OtherEnd
    <3> QED BY <2>1, <3>1, <3>2 DEF Sealed, Session
  <2> QED BY <2>2, <2>3
<1>2. CASE v = u
  <2>1. ~Stops(u) /\ ~Dialled(u) /\ hung' = hung
    BY <1>2 DEF Stops, Dialled, Mail
  <2>2. CASE Stays(u) \/ TookIdentity(u)
    <3>1. Session(u)' = Session(u) /\ phase[u] \in {"identity", "up"}
      BY <1>2, <2>2 DEF Stays, TookIdentity, Same, Session
    <3>2. PICK p \in net : p.dst = u /\ p.type = "HANGUP" /\ p.key = Session(u)
      BY <1>2, <2>1, <3>1 DEF HangupIsHeard
    <3>3. p \in net'
      BY <2>1, <3>1, <3>2 DEF Mail
    <3> QED BY <1>2, <3>1, <3>2, <3>3
  <2>3. CASE TookHello(u)
    <3>1. eph[u] \in Session(u)' /\ other[u] = NoEph
      BY <2>3 DEF TookHello, Same, Session, Base, Stages
    <3>2. NoEph \notin Session(u)' /\ Session(u) = Session(u)'
      BY <1>2, <2>1, <3>1 DEF HungIsWhole
    <3> QED BY <3>1, <3>2 DEF Session
  <2> QED BY <2>1, <2>2, <2>3 DEF Engine
<1> QED BY <1>1, <1>2

----------------------------------------------------------------------------
(* Every action is such a step. *)

\* The sessions of user u alone are changed.
LEMMA Elsewhere ==
  ASSUME TypeOK, NEW u \in User, NEW ph, NEW w, NEW e, NEW f, NEW x,
         phase' = [phase EXCEPT ![u] = ph], peer' = [peer EXCEPT ![u] = w],
         eph' = [eph EXCEPT ![u] = e], other' = [other EXCEPT ![u] = f],
         shown' = [shown EXCEPT ![u] = x]
  PROVE  /\ phase'[u] = ph /\ peer'[u] = w /\ eph'[u] = e /\ other'[u] = f
         /\ \A v \in User \ {u} : Stays(v)
BY DEF TypeOK, Stays, Same

LEMMA OverStops ==
  ASSUME TypeOK, NEW u \in User, NEW ph \in {"idle", "failed"}, Over(u, ph), next' = next
  PROVE  /\ Engine(u) /\ Stops(u)
         /\ phase' \in [User -> Phase] /\ peer' \in [User -> User \cup {Nobody}]
         /\ eph' \in [User -> Eph \cup {NoEph}] /\ other' \in [User -> Eph \cup {NoEph}]
         /\ shown' \in [User -> User \cup {Nobody}]
<1>1. Stops(u) /\ \A v \in User \ {u} : Stays(v)
  BY Elsewhere DEF Over, Stops
<1>2. ph \in Phase
  BY DEF Phase
<1> QED BY <1>1, <1>2 DEF Engine, Over, TypeOK

LEMMA StateStays ==
  ASSUME TypeOK, NEW u \in User, UNCHANGED <<phase, peer, eph, other, shown>>, next' \in {next, next + 1}
  PROVE  Engine(u) /\ \A v \in User : Stays(v)
BY DEF Engine, Stays, Same

LEMMA TablesStay ==
  ASSUME Base, UNCHANGED <<ring, notified>>, next' \in {next, next + 1}
  PROVE  Tables
<1>1. \A v, w \in User : notified[v][w] \in Nat /\ notified[v][w] < next
  BY Numbers DEF Base, KeysMade, TypeOK
<1>2. next \in Nat /\ next <= next'
  BY Numbers DEF Base
<1> QED BY <1>1, <1>2 DEF Base, Stages, Tables

\* What Reclaimed makes of the daemon's tables.
LEMMA ReclaimedTables ==
  ASSUME Base, NEW u \in User, Reclaimed(u), next' \in {next, next + 1}
  PROVE  /\ Tables /\ ring' = ring
         /\ notified' \in [User -> [User -> Eph \cup {NoEph}]]
         /\ rejected' \in [User -> SUBSET User]
<1>1. /\ notified' \in [User -> [User -> Eph \cup {NoEph}]]
      /\ rejected' \in [User -> SUBSET User] /\ ring' = ring
  BY DEF Reclaimed, Base, TypeOK
<1>2. \A v, w \in User : notified'[v][w] = notified[v][w] \/ notified'[v][w] = NoEph
  BY DEF Reclaimed, Base, TypeOK
<1>3. \A v, w \in User : notified[v][w] \in Nat
  BY Numbers DEF Base, TypeOK
<1> QED BY SMTT(20), <1>1, <1>2, <1>3, Numbers DEF Tables, Base, KeysMade, Stages

LEMMA DialsStep ==
  ASSUME VoiceCallAssumption, Base, NEW u \in User, NEW v \in User \ {u}, Dials(u, v)
  PROVE  /\ Engine(u) /\ Mail(u)
         /\ phase' \in [User -> Phase] /\ peer' \in [User -> User \cup {Nobody}]
         /\ eph' \in [User -> Eph \cup {NoEph}] /\ other' \in [User -> Eph \cup {NoEph}]
         /\ shown' \in [User -> User \cup {Nobody}]
         /\ rejected' = rejected /\ net' = net /\ hung' = hung /\ next' \in 1..MaxEph + 1
<1>1. /\ phase' = [phase EXCEPT ![u] = "hello"] /\ peer' = [peer EXCEPT ![u] = v]
      /\ eph' = [eph EXCEPT ![u] = next] /\ other' = [other EXCEPT ![u] = NoEph]
      /\ shown' = [shown EXCEPT ![u] = Nobody] /\ next' = next + 1 /\ next <= MaxEph
      /\ UNCHANGED <<rejected, net, hung>>
  BY DEF Dials
<1>2. TypeOK
  BY DEF Base
<1>3. Dialled(u) /\ \A w \in User \ {u} : Stays(w)
  BY <1>1, <1>2, Elsewhere DEF Dialled
<1>4. next \in Eph /\ "hello" \in Phase /\ next' \in 1..MaxEph + 1
  BY <1>1, <1>2 DEF Eph, Phase, TypeOK, VoiceCallAssumption
<1>5. /\ phase' \in [User -> Phase] /\ peer' \in [User -> User \cup {Nobody}]
      /\ eph' \in [User -> Eph \cup {NoEph}] /\ other' \in [User -> Eph \cup {NoEph}]
      /\ shown' \in [User -> User \cup {Nobody}]
  BY <1>1, <1>2, <1>4 DEF TypeOK
<1> QED BY <1>1, <1>3, <1>4, <1>5 DEF Engine, Mail

\* The user.
LEMMA UserStep ==
  ASSUME VoiceCallAssumption, Base, NEW u \in User,
         (\E v \in User : Call(u, v)) \/ Accept(u) \/ Reject(u) \/ HangUp(u) \/ Cancel(u)
  PROVE  Engine(u) /\ Mail(u) /\ Tables /\ TypeOK'
<1>t. TypeOK /\ next \in Nat
  BY Numbers DEF Base
<1>1. ASSUME NEW v \in User, Call(u, v) PROVE Engine(u) /\ Mail(u) /\ Tables /\ TypeOK'
  <2>1. v \in User \ {u} /\ Dials(u, v) /\ UNCHANGED <<ring, notified>> /\ next' = next + 1
    BY <1>1 DEF Call, Dials
  <2>2. Tables
    BY <2>1, TablesStay
  <2> QED BY <1>t, <2>1, <2>2, DialsStep DEF TypeOK
<1>2. CASE Accept(u)
  <2>1. /\ ring[u] \in User \ {u} /\ Dials(u, ring[u]) /\ next' = next + 1
        /\ ring' = [ring EXCEPT ![u] = Nobody]
        /\ notified' = [notified EXCEPT ![u][ring[u]] = NoEph]
    BY <1>2, <1>t DEF Accept, Dials, TypeOK, Base, Stages
  <2>2. /\ ring' \in [User -> User \cup {Nobody}]
        /\ notified' \in [User -> [User -> Eph \cup {NoEph}]]
    BY <1>t, <2>1 DEF TypeOK
  <2>3. Tables
    <3>1. \A w, x \in User : notified'[w][x] \in {notified[w][x], NoEph}
      BY <1>t, <2>1 DEF TypeOK
    <3>2. \A w \in User : ring'[w] \in {ring[w], Nobody}
      BY <1>t, <2>1 DEF TypeOK
    <3>3. \A w, x \in User : notified[w][x] \in Nat
      BY <1>t, Numbers DEF TypeOK
    <3> QED BY <1>t, <2>1, <3>1, <3>2, <3>3, Numbers
            DEF Tables, Base, KeysMade, Stages, VoiceCallAssumption
  <2> QED BY <1>t, <2>1, <2>2, <2>3, DialsStep DEF TypeOK
<1>3. CASE Reject(u)
  <2> DEFINE v == ring[u]
             e == notified[u][v]
  <2>1. /\ v \in User \ {u}
        /\ \/ UNCHANGED <<net, next>>
           \/ /\ e # NoEph /\ next <= MaxEph /\ next' = next + 1
              /\ net' = net \cup {Hello(u, v, next), Sealed("HANGUP", u, v, next, e)}
        /\ notified' = [notified EXCEPT ![u][v] = NoEph]
        /\ rejected' = [rejected EXCEPT ![u] = @ \cup {v}]
        /\ ring' = [ring EXCEPT ![u] = Nobody]
        /\ UNCHANGED <<phase, peer, eph, other, shown, hung>>
    BY <1>3, <1>t DEF Reject, TypeOK, Base, Stages
  <2>2. /\ ring' \in [User -> User \cup {Nobody}] /\ rejected' \in [User -> SUBSET User]
        /\ notified' \in [User -> [User -> Eph \cup {NoEph}]]
    BY <1>t, <2>1 DEF TypeOK
  <2>3. e \in Eph \cup {NoEph} /\ e \in Nat /\ e < next /\ next' \in {next, next + 1}
    BY <1>t, <2>1, Numbers DEF TypeOK, Base, KeysMade
  <2>4. Tables
    <3>1. \A w, x \in User : notified'[w][x] \in {notified[w][x], NoEph}
      BY <1>t, <2>1 DEF TypeOK
    <3>2. \A w \in User : ring'[w] \in {ring[w], Nobody}
      BY <1>t, <2>1 DEF TypeOK
    <3>3. \A w, x \in User : notified[w][x] \in Nat
      BY <1>t, Numbers DEF TypeOK
    <3> QED BY <1>t, <2>3, <3>1, <3>2, <3>3, Numbers
            DEF Tables, Base, KeysMade, Stages, VoiceCallAssumption
  <2>5. Engine(u) /\ Stays(u)
    BY <1>t, <2>1, <2>3, StateStays
  <2>6. /\ \A q \in net' : q \in net \/ Launched(u, q)
        /\ net' \subseteq Packet /\ next' \in 1..MaxEph + 1 /\ net \subseteq net'
    <3>1. CASE UNCHANGED <<net, next>>
      BY <1>t, <3>1 DEF TypeOK
    <3>2. CASE /\ e # NoEph /\ next <= MaxEph /\ next' = next + 1
               /\ net' = net \cup {Hello(u, v, next), Sealed("HANGUP", u, v, next, e)}
      <4>1. next \in Eph /\ e \in Eph /\ next' \in 1..MaxEph + 1
        BY <1>t, <2>3, <3>2 DEF TypeOK, Eph, VoiceCallAssumption
      <4>2. Launched(u, Hello(u, v, next)) /\ Hello(u, v, next) \in Packet
        BY <1>t, <2>1, <2>5, <3>2, <4>1 DEF Launched, Hello, Packet
      <4>3. /\ Launched(u, Sealed("HANGUP", u, v, next, e))
            /\ Sealed("HANGUP", u, v, next, e) \in Packet
        BY <1>t, <2>1, <2>3, <3>2, <4>1 DEF Launched, Sealed, Packet
      <4> QED BY <1>t, <3>2, <4>1, <4>2, <4>3 DEF TypeOK
    <3> QED BY <2>1, <3>1, <3>2
  <2>7. Mail(u)
    BY <2>1, <2>6 DEF Mail
  <2> QED BY <1>t, <2>1, <2>2, <2>4, <2>5, <2>6, <2>7 DEF TypeOK
<1>4. CASE HangUp(u)
  <2>1. /\ phase[u] = "up" /\ Over(u, "idle") /\ Reclaimed(u) /\ UNCHANGED next
        /\ net' = net \cup {Sealed("HANGUP", u, peer[u], eph[u], other[u])}
        /\ hung' = hung \cup {Session(u)}
    BY <1>4 DEF HangUp, Ends
  <2>2. /\ peer[u] \in User \ {u} /\ eph[u] \in Eph /\ other[u] \in Eph
        /\ eph[u] < next /\ other[u] < next
    BY <1>t, <2>1 DEF Base, Stages, TypeOK, KeysMade
  <2>3. /\ Sealed("HANGUP", u, peer[u], eph[u], other[u]) \in Packet
        /\ Launched(u, Sealed("HANGUP", u, peer[u], eph[u], other[u]))
        /\ Session(u) \subseteq Eph
    BY <2>1, <2>2 DEF Sealed, Packet, Launched, Session
  <2>4. Mail(u) /\ net' \subseteq Packet /\ hung' \subseteq SUBSET Eph
    BY <1>t, <2>1, <2>3, OverStops DEF Mail, TypeOK
  <2> QED BY <1>t, <2>1, <2>4, OverStops, ReclaimedTables DEF TypeOK
<1>5. CASE Cancel(u)
  <2>1. Over(u, "idle") /\ Reclaimed(u) /\ UNCHANGED <<next, net, hung>>
    BY <1>5 DEF Cancel, Ends
  <2> QED BY <1>t, <2>1, OverStops, ReclaimedTables DEF TypeOK, Mail
<1> QED BY <1>1, <1>2, <1>3, <1>4, <1>5

\* What the engine sends.
LEMMA OwnPackets ==
  ASSUME Base, NEW u \in User, next' \in {next, next + 1}
  PROVE  /\ phase[u] = "hello" =>
              /\ Hello(u, peer[u], eph[u]) \in Packet
              /\ Same(u) => Launched(u, Hello(u, peer[u], eph[u]))
         /\ phase[u] \in {"identity", "up"} => Identity(u) \in Packet /\ Launched(u, Identity(u))
<1>1. next \in Nat /\ TypeOK /\ eph[u] < next /\ other[u] < next /\ Eph \subseteq Nat
  BY Numbers DEF Base, KeysMade
<1>2. CASE phase[u] = "hello"
  <2>1. peer[u] \in User \ {u} /\ eph[u] \in Eph
    BY <1>1, <1>2 DEF Base, Stages, TypeOK
  <2>2. PICK q : q = Hello(u, peer[u], eph[u])
    OBVIOUS
  <2>3. q.type = "HELLO" /\ q.src = u /\ q.dst = peer[u] /\ q.key = {eph[u]}
    BY <2>2 DEF Hello
  <2>4. q \in Packet
    BY <2>1, <2>2 DEF Hello, Packet
  <2>5. Same(u) => Launched(u, q)
    <3>1. q.type # "IDENTITY" /\ q.dst # u
      BY <2>1, <2>3
    <3>2. eph[u] < next'
      <4>1. eph[u] \in Nat
        BY <1>1, <2>1
      <4> QED BY <1>1, <4>1
    <3>3. \A e \in q.key : e < next'
      BY <2>3, <3>2
    <3> QED BY <1>2, <2>3, <3>1, <3>3 DEF Launched
  <2> QED BY <1>2, <2>2, <2>4, <2>5
<1>3. CASE phase[u] \in {"identity", "up"}
  <2>1. peer[u] \in User \ {u} /\ eph[u] \in Eph /\ other[u] \in Eph
    BY <1>1, <1>3 DEF Base, Stages, TypeOK
  <2>2. PICK q : q = Identity(u)
    OBVIOUS
  <2>3. q.type = "IDENTITY" /\ q.src = u /\ q.dst = peer[u] /\ q.key = {eph[u], other[u]}
    BY <2>2 DEF Identity, Sealed
  <2>4. q \in Packet
    BY <2>1, <2>2 DEF Identity, Sealed, Packet
  <2>5. Launched(u, q)
    <3>1. \A e \in q.key : e < next'
      <4>1. eph[u] \in Nat /\ other[u] \in Nat
        BY <1>1, <2>1
      <4>2. eph[u] < next' /\ other[u] < next'
        BY <1>1, <4>1
      <4> QED BY <2>3, <4>2
    <3>2. q.key = Session(u) /\ q.type # "HELLO"
      BY <2>3 DEF Session
    <3> QED BY <1>3, <2>1, <2>3, <3>1, <3>2 DEF Launched
  <2> QED BY <1>3, <2>2, <2>4, <2>5
<1> QED BY <1>2, <1>3

\* The engine and the timers.
LEMMA TimerStep ==
  ASSUME Base, NEW u \in User,
         SendHello(u) \/ SendIdentity(u) \/ GiveUp(u) \/ Forget(u)
  PROVE  Engine(u) /\ Mail(u) /\ Tables /\ TypeOK'
<1>t. TypeOK /\ next \in Nat
  BY Numbers DEF Base
<1>1. CASE SendHello(u) \/ SendIdentity(u)
  <2>1. /\ UNCHANGED <<phase, peer, eph, other, shown, ring, notified, rejected, next, hung>>
        /\ \/ phase[u] = "hello" /\ net' = net \cup {Hello(u, peer[u], eph[u])}
           \/ phase[u] = "identity" /\ net' = net \cup {Identity(u)}
    BY <1>1 DEF SendHello, SendIdentity, Send
  <2>2. \A q \in net' : q \in net \/ (q \in Packet /\ Launched(u, q))
    BY <2>1, OwnPackets DEF Same
  <2> QED BY <1>t, <2>1, <2>2, StateStays, TablesStay DEF Mail, TypeOK
<1>2. CASE GiveUp(u)
  <2>1. Over(u, "failed") /\ UNCHANGED <<ring, notified, rejected, net, next, hung>>
    BY <1>2 DEF GiveUp, daemon
  <2> QED BY <1>t, <2>1, OverStops, TablesStay DEF Mail, TypeOK
<1>3. CASE Forget(u)
  <2>1. /\ UNCHANGED <<phase, peer, eph, other, shown, ring, net, next, hung>>
        /\ \/ rejected' = [rejected EXCEPT ![u] = {}] /\ UNCHANGED notified
           \/ /\ \E v \in User : notified' = [notified EXCEPT ![u][v] = NoEph]
              /\ UNCHANGED rejected
    BY <1>3 DEF Forget
  <2>2. /\ rejected' \in [User -> SUBSET User]
        /\ notified' \in [User -> [User -> Eph \cup {NoEph}]]
        /\ \A v, w \in User : notified'[v][w] \in {notified[v][w], NoEph}
    <3>1. CASE rejected' = [rejected EXCEPT ![u] = {}] /\ UNCHANGED notified
      BY <1>t, <3>1 DEF TypeOK
    <3>2. ASSUME NEW v \in User, notified' = [notified EXCEPT ![u][v] = NoEph], UNCHANGED rejected
          PROVE  <2>2!:
      BY <1>t, <3>2 DEF TypeOK
    <3> QED BY <2>1, <3>1, <3>2
  <2>4. Tables
    <3>1. \A w, x \in User : notified[w][x] \in Nat
      BY <1>t, Numbers DEF TypeOK
    <3> QED BY <1>t, <2>1, <2>2, <3>1, Numbers DEF Tables, Base, KeysMade, Stages
  <2> QED BY <1>t, <2>1, <2>2, <2>4, StateStays DEF Mail, TypeOK
<1> QED BY <1>1, <1>2, <1>3

\* User u takes packet p.
LEMMA GotMail ==
  ASSUME TypeOK, NEW u \in User, NEW p \in net, p.dst = u,
         \A q \in net' : q \in net \/ (q \in Packet /\ Launched(u, q)),
         \A q \in net \ net' : q = p, hung' = hung,
         p.type = "HANGUP" /\ p.key = Session(u) /\ phase[u] \in {"identity", "up"} => Stops(u)
  PROVE  Mail(u) /\ net' \subseteq Packet
BY DEF Mail, TypeOK

\* The engine takes a packet.
LEMMA TakeStep ==
  ASSUME Base, HellosHonest, NEW u \in User, NEW p \in net, p.dst = u,
         TakeHello(u, p) \/ TakeIdentity(u, p) \/ TakeHangup(u, p) \/ Repeat(u, p) \/ Ignore(u, p),
         Slate(u), UNCHANGED <<next, hung>>
  PROVE  Engine(u) /\ Mail(u) /\ Tables /\ TypeOK'
<1>t. TypeOK /\ next \in Nat /\ next' \in {next, next + 1}
  BY Numbers DEF Base
<1>d. CASE UNCHANGED daemon
  <2> USE <1>d DEF daemon
  <2>t. Tables
    BY <1>t, TablesStay
  <2>1. CASE TakeHello(u, p)
    <3>1. PICK e \in Eph : p.key = {e}
      BY <2>1 DEF TakeHello, HellosHonest
    <3>2. /\ phase[u] = "hello" /\ p.type = "HELLO"
          /\ phase' = [phase EXCEPT ![u] = "identity"] /\ other' = [other EXCEPT ![u] = e]
          /\ net' = (net \ {p}) \cup {Hello(u, peer[u], eph[u])}
          /\ UNCHANGED <<peer, eph, shown>>
      BY <1>t, <2>1, <3>1 DEF TakeHello, Got, Rest, TypeOK
    <3>3. TookHello(u) /\ Same(u) /\ \A v \in User \ {u} : Stays(v)
      <4>1. phase'[u] = "identity" /\ other'[u] = e /\ Same(u) /\ \A v \in User \ {u} : Stays(v)
        BY <1>t, <3>2 DEF Same, Stays, TypeOK
      <4> QED BY <3>1, <3>2, <4>1 DEF TookHello
    <3>4. Mail(u) /\ net' \subseteq Packet
      <4>1. \A q \in net' : q \in net \/ (q \in Packet /\ Launched(u, q))
        BY <1>t, <3>2, <3>3, OwnPackets
      <4>2. \A q \in net \ net' : q = p
        BY <1>t, <3>2, <3>3, OwnPackets
      <4> QED BY <1>t, <1>t, <3>2, <3>3, OwnPackets, <4>1, <4>2, GotMail
    <3>5. "identity" \in Phase
      BY DEF Phase
    <3>6. /\ phase' \in [User -> Phase] /\ other' \in [User -> Eph \cup {NoEph}]
          /\ peer' \in [User -> User \cup {Nobody}] /\ eph' \in [User -> Eph \cup {NoEph}]
      BY <1>t, <3>1, <3>2, <3>5 DEF TypeOK
    <3> QED BY <1>t, <2>t, <3>2, <3>3, <3>4, <3>6 DEF Engine, TypeOK
  <2>2. ASSUME phase[u] = "identity", p.type = "IDENTITY", Reads(u, p), Over(u, "failed"),
               net' = (net \ {p}) \cup {Identity(u)}
        PROVE  Engine(u) /\ Mail(u) /\ Tables /\ TypeOK'
    <3>1. Engine(u) /\ Stops(u)
      BY <1>t, <2>2, OverStops
    <3>2. Mail(u) /\ net' \subseteq Packet
      <4>1. \A q \in net' : q \in net \/ (q \in Packet /\ Launched(u, q))
        BY <1>t, <2>2, OwnPackets
      <4>2. \A q \in net \ net' : q = p
        BY <1>t, <2>2, OwnPackets
      <4> QED BY <1>t, <1>t, <2>2, OwnPackets, <4>1, <4>2, GotMail
    <3> QED BY <1>t, <2>t, <2>2, <3>1, <3>2, OverStops DEF TypeOK
  <2>3. ASSUME phase[u] = "identity", p.type = "IDENTITY", Reads(u, p),
               phase' = [phase EXCEPT ![u] = "up"], shown' = [shown EXCEPT ![u] = p.src],
               UNCHANGED <<peer, eph, other>>, net' = (net \ {p}) \cup {Identity(u)}
        PROVE  Engine(u) /\ Mail(u) /\ Tables /\ TypeOK'
    <3>1. TookIdentity(u) /\ \A v \in User \ {u} : Stays(v)
      BY <1>t, <2>3 DEF TookIdentity, Same, Stays, Reads, TypeOK
    <3>2. Mail(u) /\ net' \subseteq Packet
      <4>1. \A q \in net' : q \in net \/ (q \in Packet /\ Launched(u, q))
        BY <1>t, <2>3, OwnPackets
      <4>2. \A q \in net \ net' : q = p
        BY <1>t, <2>3, OwnPackets
      <4> QED BY <1>t, <1>t, <2>3, OwnPackets, <4>1, <4>2, GotMail
    <3>3. "up" \in Phase /\ p.src \in User
      BY <1>t, Numbers DEF Phase
    <3>4. phase' \in [User -> Phase] /\ shown' \in [User -> User \cup {Nobody}]
      BY <1>t, <2>3, <3>3 DEF TypeOK
    <3> QED BY <1>t, <2>t, <2>3, <3>1, <3>2, <3>4 DEF TypeOK, Engine
  <2>4. CASE TakeHangup(u, p)
    <3>1. /\ Over(u, IF phase[u] = "up" THEN "idle" ELSE "failed")
          /\ net' = (net \ {p}) \cup {}
      BY <2>4 DEF TakeHangup, Got
    <3>2. PICK ph \in {"idle", "failed"} : Over(u, ph)
      BY <3>1
    <3>3. Engine(u) /\ Stops(u)
      BY <1>t, <3>2, OverStops
    <3>4. Mail(u) /\ net' \subseteq Packet
      <4>1. \A q \in net' : q \in net \/ (q \in Packet /\ Launched(u, q))
        BY <3>1, <3>3
      <4>2. \A q \in net \ net' : q = p
        BY <3>1, <3>3
      <4> QED BY <1>t, <3>1, <3>3, <4>1, <4>2, GotMail
    <3> QED BY <1>t, <2>t, <3>2, <3>3, <3>4, OverStops DEF TypeOK
  <2>5. CASE Repeat(u, p)
    <3>1. /\ phase[u] = "up" /\ p.type = "IDENTITY" /\ UNCHANGED <<phase, peer, eph, other, shown>>
          /\ net' = (net \ {p}) \cup {Identity(u)}
      BY <2>5 DEF Repeat, Got, state
    <3>2. Mail(u) /\ net' \subseteq Packet
      <4>1. \A q \in net' : q \in net \/ (q \in Packet /\ Launched(u, q))
        BY <1>t, <3>1, OwnPackets
      <4>2. \A q \in net \ net' : q = p
        BY <1>t, <3>1, OwnPackets
      <4> QED BY <1>t, <1>t, <3>1, OwnPackets, <4>1, <4>2, GotMail
    <3> QED BY <1>t, <2>t, <3>1, <3>2, StateStays DEF TypeOK
  <2>6. CASE Ignore(u, p)
    <3>1. /\ UNCHANGED <<phase, peer, eph, other, shown>> /\ net' = (net \ {p}) \cup {}
      BY <2>6 DEF Ignore, Got, state
    <3>2. ~(p.type = "HANGUP" /\ p.key = Session(u) /\ phase[u] \in {"identity", "up"})
      BY <2>6 DEF Ignore, Reads, Heard
    <3>3. Mail(u) /\ net' \subseteq Packet
      <4>1. \A q \in net' : q \in net \/ (q \in Packet /\ Launched(u, q))
        BY <3>1, <3>2
      <4>2. \A q \in net \ net' : q = p
        BY <3>1, <3>2
      <4> QED BY <1>t, <3>1, <3>2, <4>1, <4>2, GotMail
    <3> QED BY <1>t, <2>t, <3>1, <3>3, StateStays DEF TypeOK
  <2>7. TakeIdentity(u, p) => Engine(u) /\ Mail(u) /\ Tables /\ TypeOK'
    <3>1. CASE TakeIdentity(u, p) /\ Over(u, "failed")
      BY <3>1, <2>2 DEF TakeIdentity, Got
    <3>2. CASE TakeIdentity(u, p) /\ ~Over(u, "failed")
      BY <3>2, <2>3 DEF TakeIdentity, Got
    <3> QED BY <3>1, <3>2
  <2> QED BY <2>1, <2>4, <2>5, <2>6, <2>7
<1>r. CASE phase[u] = "up" /\ phase'[u] = "idle" /\ Reclaimed(u)
  <2>1. TakeHangup(u, p)
    <3>1. "up" # "idle" /\ "up" # "hello" /\ "up" # "identity"
      OBVIOUS
    <3>2. ~TakeHello(u, p) /\ ~TakeIdentity(u, p)
      BY <1>r DEF TakeHello, TakeIdentity
    <3>3. ~Repeat(u, p) /\ ~Ignore(u, p)
      BY <1>r DEF Repeat, Ignore, state
    <3> QED BY <3>2, <3>3
  <2>2. Over(u, "idle") /\ net' = (net \ {p}) \cup {}
    BY <1>r, <2>1 DEF TakeHangup, Got
  <2>3. Engine(u) /\ Stops(u)
    BY <1>t, <2>2, OverStops
  <2>4. Mail(u) /\ net' \subseteq Packet
    <3>1. \A q \in net' : q \in net \/ (q \in Packet /\ Launched(u, q))
      BY <2>2, <2>3
    <3>2. \A q \in net \ net' : q = p
      BY <2>2, <2>3
    <3> QED BY <1>t, <2>2, <2>3, <3>1, <3>2, GotMail
  <2> QED BY <1>t, <1>r, <2>2, <2>3, <2>4, OverStops, ReclaimedTables DEF TypeOK
<1> QED BY <1>d, <1>r DEF Slate

\* The daemon takes a packet.
LEMMA RingStep ==
  ASSUME Base, HellosHonest, NEW u \in User, NEW p \in net, p.dst = u,
         Ring(u, p), UNCHANGED <<next, hung>>
  PROVE  Engine(u) /\ Mail(u) /\ Tables /\ TypeOK'
<1>t. TypeOK /\ next \in Nat /\ next' \in {next, next + 1}
  BY Numbers DEF Base
<1>1. /\ phase[u] = "idle" /\ p.type = "HELLO" /\ net' = (net \ {p}) \cup {}
      /\ UNCHANGED <<phase, peer, eph, other, shown, rejected>>
  BY DEF Ring, Got
<1>2. PICK e \in Eph : p.key = {e}
  BY <1>1 DEF HellosHonest
<1>3. /\ p.src \in User \ {u} /\ e \in Nat /\ e < next
  BY <1>t, <1>2, Numbers DEF Base, KeysMade
<1>4. Mail(u) /\ net' \subseteq Packet
  <2>1. \A q \in net' : q \in net \/ (q \in Packet /\ Launched(u, q))
    BY <1>1
  <2>2. \A q \in net \ net' : q = p
    BY <1>1
  <2> QED BY <1>t, <1>1, <2>1, <2>2, GotMail
<1>5. Tables /\ ring' \in [User -> User \cup {Nobody}] /\ notified' \in [User -> [User -> Eph \cup {NoEph}]]
  <2>1. CASE UNCHANGED <<ring, notified>>
    BY <1>t, <2>1, TablesStay DEF TypeOK
  <2>2. CASE ring' = [ring EXCEPT ![u] = p.src] /\ notified' = [notified EXCEPT ![u][p.src] = e]
    <3>1. /\ \A v \in User : ring'[v] \in {ring[v], p.src} /\ ring'[v] # v
          /\ ring' \in [User -> User \cup {Nobody}]
      BY <1>t, <1>3, <2>2 DEF TypeOK, Base, Stages
    <3>2. /\ \A v, w \in User : notified'[v][w] \in {notified[v][w], e}
          /\ notified' \in [User -> [User -> Eph \cup {NoEph}]]
      BY <1>t, <1>3, <2>2 DEF TypeOK
    <3>3. \A v, w \in User : notified'[v][w] < next'
      BY <1>t, <1>3, <3>2 DEF Base, KeysMade
    <3> QED BY <3>1, <3>2, <3>3 DEF Tables
  <2> QED BY <1>2, <2>1, <2>2 DEF Ring
<1> QED BY <1>t, <1>1, <1>4, <1>5, StateStays DEF TypeOK

----------------------------------------------------------------------------
(* The invariant *)

LEMMA CallStep ==
  ASSUME VoiceCallAssumption, Base, HellosHonest, Next
  PROVE  \E u \in User : Engine(u) /\ Mail(u) /\ Tables /\ TypeOK'
<1>1. PICK u \in User :
        \/ \E v \in User : Call(u, v)
        \/ Accept(u) \/ Reject(u) \/ HangUp(u) \/ Cancel(u)
        \/ SendHello(u) \/ SendIdentity(u) \/ GiveUp(u) \/ Receive(u) \/ Forget(u)
  BY DEF Next
<1>2. ASSUME Receive(u) PROVE Engine(u) /\ Mail(u) /\ Tables /\ TypeOK'
  <2>1. UNCHANGED <<next, hung>>
    BY <1>2 DEF Receive
  <2>2. PICK p \in net :
          /\ p.dst = u
          /\ \/ /\ TakeHello(u, p) \/ TakeIdentity(u, p) \/ TakeHangup(u, p) \/ Repeat(u, p) \/ Ignore(u, p)
                /\ Slate(u)
             \/ Ring(u, p)
    BY <1>2 DEF Receive
  <2> QED BY <2>1, <2>2, TakeStep, RingStep
<1> QED BY <1>1, <1>2, UserStep, TimerStep

LEMMA CallInvInductive ==
  ASSUME VoiceCallAssumption
  PROVE  Spec => []CallInv
<1>1. Init => CallInv
  <2> SUFFICES ASSUME Init PROVE CallInv
    OBVIOUS
  <2>1. TypeOK
    BY DEF Init, TypeOK, Phase, VoiceCallAssumption, NoEph
  <2>2. Stages
    BY DEF Init, Stages, VoiceCallAssumption
  <2>3. KeysMade
    BY DEF Init, KeysMade, NoEph
  <2>4. HellosHonest /\ IdentitiesHonest
    BY DEF Init, HellosHonest, IdentitiesHonest
  <2>5. UpWasTold /\ UpWithCalled /\ HungIsWhole /\ HangupIsHeard
    BY DEF Init, UpWasTold, UpWithCalled, HungIsWhole, HangupIsHeard
  <2> QED BY <2>1, <2>2, <2>3, <2>4, <2>5 DEF CallInv
<1>2. CallInv /\ [Next]_vars => CallInv'
  <2> SUFFICES ASSUME CallInv, [Next]_vars PROVE CallInv'
    OBVIOUS
  <2>1. CASE UNCHANGED vars
    <3>1. TypeOK' /\ Stages'
      BY <2>1 DEF vars, CallInv, TypeOK, Stages
    <3>2. KeysMade' /\ HellosHonest'
      BY <2>1 DEF vars, CallInv, KeysMade, HellosHonest
    <3>3. \A u, e, f : Told(u, e, f)' <=> Told(u, e, f)
      BY <2>1 DEF vars, Told
    <3>4. IdentitiesHonest' /\ UpWasTold'
      BY <2>1, <3>3 DEF vars, CallInv, IdentitiesHonest, UpWasTold, Told
    <3>5. UpWithCalled' /\ HungIsWhole' /\ HangupIsHeard'
      BY <2>1 DEF vars, CallInv, UpWithCalled, HungIsWhole, HangupIsHeard, Session
    <3> QED BY <3>1, <3>2, <3>4, <3>5 DEF CallInv
  <2>2. CASE Next
    <3>1. /\ Base /\ HellosHonest /\ IdentitiesHonest
          /\ UpWasTold /\ UpWithCalled /\ HungIsWhole /\ HangupIsHeard
      BY DEF CallInv, Base
    <3>2. PICK u \in User : Engine(u) /\ Mail(u) /\ Tables /\ TypeOK'
      BY <2>2, <3>1, CallStep
    <3> QED BY <3>1, <3>2, StagesKept, KeysMadeKept, HellosHonestKept, IdentitiesHonestKept,
               UpWasToldKept, UpWithCalledKept, HungIsWholeKept, HangupKept DEF CallInv
  <2> QED BY <2>1, <2>2
<1> QED BY <1>1, <1>2, PTL DEF Spec

\* Every variable has its type (TypeOK).
THEOREM VoiceTypes ==
  ASSUME VoiceCallAssumption
  PROVE  Spec => []TypeOK
<1>1. CallInv => TypeOK
  BY DEF CallInv
<1> QED BY <1>1, CallInvInductive, PTL

\* Two users in a call with each other hold one key, whatever of earlier
\* attempts, of rejections and of crossing calls was still under way: each has
\* been told by the other, and of two ends that had moved on after telling,
\* each would have the later key.
THEOREM KeysAlwaysAgree ==
  ASSUME VoiceCallAssumption
  PROVE  Spec => []KeysAgree
<1>1. CallInv => KeysAgree
  <2> SUFFICES ASSUME CallInv, NEW u \in User, NEW v \in User,
                      phase[u] = "up", phase[v] = "up", peer[u] = v, peer[v] = u
               PROVE  Session(u) = Session(v)
    BY DEF KeysAgree
  <2>1. Told(v, other[u], eph[u]) /\ Told(u, other[v], eph[v])
    BY DEF CallInv, UpWasTold
  <2>2. eph[u] # NoEph /\ eph[v] # NoEph /\ eph[u] \in Nat /\ eph[v] \in Nat
    BY Numbers DEF CallInv, Stages
  <2>3. (eph[v] = other[u] /\ other[v] = eph[u]) \/ eph[v] > eph[u]
    BY <2>1, <2>2 DEF Told
  <2>4. (eph[u] = other[v] /\ other[u] = eph[v]) \/ eph[u] > eph[v]
    BY <2>1, <2>2 DEF Told
  <2> QED BY <2>2, <2>3, <2>4 DEF Session
<1> QED BY <1>1, CallInvInductive, PTL

\* Whoever a call shows is whom its user called: the HELLO of somebody else may be
\* taken, but its sender never gets the key an identity for this user needs.
THEOREM CallShowsCalled ==
  ASSUME VoiceCallAssumption
  PROVE  Spec => []UpWithCalled
<1>1. CallInv => UpWithCalled
  BY DEF CallInv
<1> QED BY <1>1, CallInvInductive, PTL

\* Nobody goes on in a call that was hung up unless the HANGUP was lost: an end
\* that still has its session has the HANGUP of that very session to come.
THEOREM HangupAlwaysHeard ==
  ASSUME VoiceCallAssumption
  PROVE  Spec => []HangupIsHeard
<1>1. CallInv => HangupIsHeard
  BY DEF CallInv
<1> QED BY <1>1, CallInvInductive, PTL
=============================================================================
