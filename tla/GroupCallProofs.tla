--------------------------- MODULE GroupCallProofs --------------------------
(***************************************************************************)
(* For any number of users and starts of the call, and whatever order of   *)
(* joining, leaving, crashing and failing over: as long as no packet is    *)
(* lost, voice passes one leader at most and never returns to its speaker, *)
(* and nobody becomes a second leader beside one that was there to ask.    *)
(*                                                                         *)
(* Both rest on leaders that are strangers to each other: a leader has no  *)
(* other leader in its table, nor a packet of one on its way to it.  A     *)
(* lost HELLO makes a second leader, so MaxLosses = 0 is assumed.          *)
(***************************************************************************)
EXTENDS GroupCall, WellFoundedInduction, TLAPS

\* The types but for what TablesHonest and the bound of starts say.
Typed ==
  /\ mode \in [User -> Mode]
  /\ leader \in [User -> User \cup {Nobody}]
  /\ \A u \in User : mode[u] \in {"member", "discovering", "testing"} <=> leader[u] # Nobody
  /\ conn \in [User -> [User -> User \cup {Nobody}]]
  /\ alive \in [User -> SUBSET User]
  /\ net \subseteq Packet
  /\ led \in [User -> SUBSET User]
  /\ starts \in Nat /\ losses \in 0..MaxLosses

\* Nobody follows itself, and who looks for survivors is one.
Finding ==
  \A u \in User :
    leader[u] # u /\ (mode[u] \in {"discovering", "testing"} => u \in alive[u])

\* A leader's table has a member's own address, never the leader's.
TablesHonest ==
  \A u, m \in User :
    /\ conn[u][m] \in {Nobody, m} /\ conn[u][u] = Nobody
    /\ conn[u][m] # Nobody => mode[u] = "leader"

\* User x leads, or is about to without having had y to ask.
Unasked(x, y) == mode[x] = "leader" \/ (mode[x] = "probing" /\ y \notin led[x])
Strangers ==
  \A x, y \in User :
    x # y /\ mode[y] = "leader" /\ Unasked(x, y) =>
      conn[y][x] = Nobody /\ \A p \in net : ~(p.src = x /\ p.dst = y)

\* Of every leader there was to ask the answer is yet to come.
ProbesAnswered ==
  \A x \in User : mode[x] = "probing" => \A l \in led[x] :
    /\ mode[l] = "leader"
    /\ \E p \in net :
         (p.type = "HELLO" /\ p.src = x /\ p.dst = l) \/ (p.type = "LEADER" /\ p.dst = x)

\* Nothing relayed is on its way to a leader.
FirstHand ==
  \A p \in net : p.src # p.dst /\ (mode[p.dst] = "leader" => p.si = p.src /\ p.hops = 0)

RelayInv ==
  Typed /\ Finding /\ TablesHonest /\ Strangers /\ ProbesAnswered /\ FirstHand /\ NoEcho

----------------------------------------------------------------------------
(* What a step of user u may do: its engine goes on, stops or serves as a  *)
(* member, begins to probe, begins to lead, or leads on with another table. *)

Goes(u) == mode'[u] = mode[u] /\ conn'[u] = conn[u] /\ led'[u] = led[u]
Idles(u) == mode'[u] \notin {"leader", "probing"} /\ \A m \in User : conn'[u][m] = Nobody
Begins(u) ==
  /\ mode[u] # "leader" /\ mode'[u] = "probing" /\ conn'[u] = conn[u]
  /\ led'[u] = {v \in User : mode[v] = "leader"}
  /\ \A v \in User \ {u} : \E q \in net' : q.type = "HELLO" /\ q.src = u /\ q.dst = v
Leads(u) ==
  mode[u] = "probing" /\ mode'[u] = "leader" /\ conn'[u] = conn[u] /\ net' = net /\ Quiet(u)
Tends(u) ==
  /\ mode[u] = "leader" /\ mode'[u] = "leader"
  /\ \A m \in User :
       \/ conn'[u][m] \in {conn[u][m], Nobody}
       \/ conn'[u][m] = m /\ \E p \in net : p.src = m /\ p.dst = u

\* The others only learn that u leads no longer.
Bystander(u, v) ==
  /\ mode'[v] = mode[v] /\ conn'[v] = conn[v] /\ led'[v] \subseteq led[v]
  /\ \A y \in led[v] : y \in led'[v] \/ (y = u /\ mode'[u] # "leader")
  /\ mode[u] = "leader" /\ mode'[u] # "leader" => u \notin led'[v]
Moves(u) ==
  /\ Goes(u) \/ Idles(u) \/ Begins(u) \/ Leads(u) \/ Tends(u)
  /\ \A v \in User \ {u} : Bystander(u, v)

\* What it may send,
Sent(u, q) ==
  /\ q \in Packet /\ q.src = u /\ q.dst # u
  /\ (q.si = u /\ q.hops = 0) \/ (mode[u] = "leader" /\ q.hops = 1 /\ q.dst # q.si)
  /\ mode[u] = "leader" => mode[q.dst] # "leader"
  /\ mode[u] = "probing" => mode'[u] \notin {"leader", "probing"}

\* and take.
Mail(u) ==
  /\ \A q \in net' : q \in net \/ Sent(u, q)
  /\ \A q \in net \ net' :
       /\ q.dst = u
       /\ q.type = "HELLO" /\ mode[u] = "leader" =>
            \E r \in net' : r.type = "LEADER" /\ r.dst = q.src
       /\ q.type = "LEADER" /\ mode[u] = "probing" => mode'[u] # "probing"

Base == Typed /\ Finding /\ TablesHonest /\ Strangers /\ FirstHand

----------------------------------------------------------------------------
(* A step like that keeps the invariant, one part after the other. *)

LEMMA Modes == User \subseteq Nat /\ Nobody \notin User /\ Nobody = 0
BY DEF User, Nobody

LEMMA TablesHonestKept ==
  ASSUME Typed, TablesHonest, FirstHand, NEW u \in User, Moves(u)
  PROVE  TablesHonest'
<1>1. ASSUME NEW m \in User
      PROVE  /\ conn'[u][m] \in {Nobody, m} /\ conn'[u][u] = Nobody
             /\ conn'[u][m] # Nobody => mode'[u] = "leader"
  BY DEF Moves, Goes, Idles, Begins, Leads, Tends, TablesHonest, FirstHand
<1>2. ASSUME NEW v \in User \ {u}, NEW m \in User
      PROVE  /\ conn'[v][m] \in {Nobody, m} /\ conn'[v][v] = Nobody
             /\ conn'[v][m] # Nobody => mode'[v] = "leader"
  BY DEF Moves, Bystander, TablesHonest
<1> QED BY <1>1, <1>2 DEF TablesHonest

\* Who starts to lead had nobody to ask.
LEMMA NobodyToAsk ==
  ASSUME ProbesAnswered, NEW u \in User, mode[u] = "probing", Quiet(u)
  PROVE  led[u] = {}
BY DEF ProbesAnswered, Quiet

LEMMA StrangersKept ==
  ASSUME TablesHonest, Strangers, ProbesAnswered, NEW u \in User, Moves(u), Mail(u)
  PROVE  Strangers'
<1> SUFFICES ASSUME NEW x \in User, NEW y \in User, x # y, mode'[y] = "leader", Unasked(x, y)'
             PROVE  conn'[y][x] = Nobody /\ \A p \in net' : ~(p.src = x /\ p.dst = y)
  BY DEF Strangers
<1>1. CASE y = u /\ Leads(u)
  BY <1>1 DEF Leads, Quiet, TablesHonest
<1>2. CASE y = u /\ ~Leads(u)
  <2>1. mode[u] = "leader" /\ (Goes(u) \/ Tends(u))
    BY <1>2 DEF Moves, Goes, Idles, Begins, Tends
  <2>2. Unasked(x, u)
    BY <1>2 DEF Unasked, Moves, Bystander
  <2>3. conn[u][x] = Nobody /\ \A p \in net : ~(p.src = x /\ p.dst = u)
    BY <1>2, <2>1, <2>2 DEF Strangers
  <2>4. conn'[u][x] = Nobody
    BY <1>2, <2>1, <2>3 DEF Goes, Tends
  <2>5. \A p \in net' : ~(p.src = x /\ p.dst = u)
    BY <1>2, <2>3 DEF Mail, Sent
  <2> QED BY <1>2, <2>4, <2>5
<1>3. CASE y # u
  <2>1. mode[y] = "leader" /\ conn'[y] = conn[y]
    BY <1>3 DEF Moves, Bystander
  <2>2. Unasked(x, y)
    <3>1. CASE x # u
      BY <1>3, <3>1 DEF Unasked, Moves, Bystander
    <3>2. CASE x = u /\ Leads(u)
      BY <3>2, NobodyToAsk DEF Leads, Unasked
    <3>3. CASE x = u /\ ~Leads(u)
      BY <2>1, <3>3 DEF Unasked, Moves, Goes, Idles, Begins, Tends
    <3> QED BY <3>1, <3>2, <3>3
  <2>3. conn[y][x] = Nobody /\ \A p \in net : ~(p.src = x /\ p.dst = y)
    BY <2>1, <2>2 DEF Strangers
  <2>4. ASSUME NEW q \in net', Sent(u, q), q.src = x, q.dst = y PROVE q \in net
    BY <2>1, <2>2, <2>4 DEF Sent, Unasked, Moves, Leads, Goes, Idles, Begins, Tends
  <2> QED BY <2>1, <2>3, <2>4 DEF Mail
<1> QED BY <1>1, <1>2, <1>3

LEMMA ProbesAnsweredKept ==
  ASSUME Typed, ProbesAnswered, NEW u \in User, Moves(u), Mail(u)
  PROVE  ProbesAnswered'
<1> SUFFICES ASSUME NEW x \in User, mode'[x] = "probing", NEW l \in led'[x]
             PROVE  /\ mode'[l] = "leader"
                    /\ \E p \in net' : \/ p.type = "HELLO" /\ p.src = x /\ p.dst = l
                                       \/ p.type = "LEADER" /\ p.dst = x
  BY DEF ProbesAnswered
<1>1. CASE x = u /\ Begins(u)
  <2>1. l \in User \ {u} /\ mode[l] = "leader"
    BY <1>1 DEF Begins
  <2>2. mode'[l] = "leader"
    BY <2>1 DEF Moves, Bystander
  <2> QED BY <1>1, <2>1, <2>2 DEF Begins
<1>2. CASE x = u /\ ~Begins(u)
  <2>1. mode[u] = "probing" /\ l \in led[u]
    BY <1>2 DEF Moves, Goes, Idles, Leads, Tends
  <2>2. mode[l] = "leader" /\ l \in User /\ l # u
    BY <2>1 DEF ProbesAnswered, Typed
  <2>3. mode'[l] = "leader"
    BY <2>2 DEF Moves, Bystander
  <2>4. PICK p \in net : (p.type = "HELLO" /\ p.src = u /\ p.dst = l) \/ (p.type = "LEADER" /\ p.dst = u)
    BY <2>1 DEF ProbesAnswered
  <2>5. p \in net'
    BY <1>2, <2>1, <2>2, <2>4 DEF Mail
  <2> QED BY <1>2, <2>3, <2>4, <2>5
<1>3. CASE x # u
  <2>1. mode[x] = "probing" /\ l \in led[x]
    BY <1>3 DEF Moves, Bystander
  <2>2. mode[l] = "leader" /\ l \in User
    BY <2>1 DEF ProbesAnswered, Typed
  <2>3. mode'[l] = "leader"
    BY <1>3, <2>2 DEF Moves, Bystander
  <2>4. PICK p \in net : (p.type = "HELLO" /\ p.src = x /\ p.dst = l) \/ (p.type = "LEADER" /\ p.dst = x)
    BY <2>1 DEF ProbesAnswered
  <2>5. CASE p \in net'
    BY <2>3, <2>4, <2>5
  <2>6. CASE p \notin net'
    <3>1. p.dst = u /\ p.type = "HELLO" /\ l = u /\ p.src = x
      BY <1>3, <2>4, <2>6 DEF Mail
    <3> QED BY <2>2, <2>3, <2>6, <3>1 DEF Mail
  <2> QED BY <2>5, <2>6
<1> QED BY <1>1, <1>2, <1>3

LEMMA FirstHandKept ==
  ASSUME Typed, FirstHand, NEW u \in User, Moves(u), Mail(u)
  PROVE  FirstHand'
<1> SUFFICES ASSUME NEW p \in net'
             PROVE  p.src # p.dst /\ (mode'[p.dst] = "leader" => p.si = p.src /\ p.hops = 0)
  BY DEF FirstHand
<1>1. CASE p \in net
  <2>1. p.dst \in User
    BY <1>1 DEF Typed, Packet
  <2>2. mode'[p.dst] = "leader" => mode[p.dst] = "leader"
    <3>1. CASE p.dst = u
      BY <1>1, <3>1 DEF Moves, Goes, Idles, Begins, Leads, Tends, Quiet
    <3>2. CASE p.dst # u
      BY <2>1, <3>2 DEF Moves, Bystander
    <3> QED BY <3>1, <3>2
  <2> QED BY <1>1, <2>2 DEF FirstHand
<1>2. CASE p \notin net
  <2>1. Sent(u, p)
    BY <1>2 DEF Mail
  <2>2. p.dst \in User \ {u}
    BY <2>1 DEF Sent, Packet
  <2>3. mode'[p.dst] = mode[p.dst]
    BY <2>2 DEF Moves, Bystander
  <2> QED BY <2>1, <2>3 DEF Sent
<1> QED BY <1>1, <1>2

LEMMA NoEchoKept ==
  ASSUME NoEcho, NEW u \in User, Mail(u)
  PROVE  NoEcho'
BY DEF NoEcho, Mail, Sent

----------------------------------------------------------------------------
(* Every action is such a step. *)

\* The least of some users is one of them.
LEMMA LeastIsOne ==
  ASSUME NEW S \in SUBSET User, S # {}
  PROVE  Min(S) \in S
<1>1. PICK x \in S : \A y \in S : ~(<<y, x>> \in OpToRel(<, Nat))
  BY WFMin, NatLessThanWellFounded, Modes, Zenon
<1>2. ASSUME NEW y \in S PROVE x =< y
  <2>1. x \in Nat /\ y \in Nat /\ <<y, x>> \in Nat \X Nat
    BY Modes
  <2>2. ~(<<y, x>>[1] < <<y, x>>[2])
    BY <1>1, <2>1, Zenon DEF OpToRel
  <2> QED BY <2>1, <2>2
<1> QED BY <1>2 DEF Min

LEMMA ToAllPackets ==
  ASSUME NEW type \in {"HELLO", "LEADER", "VOICE", "PING", "PONG", "HANGUP", "ALIVE"},
         NEW u \in User, NEW D \in SUBSET User
  PROVE  /\ \A q \in ToAll(type, u, D) :
              q \in Packet /\ q.type = type /\ q.si = u /\ q.src = u /\ q.dst \in D /\ q.hops = 0
         /\ \A d \in D : \E q \in ToAll(type, u, D) : q.type = type /\ q.src = u /\ q.dst = d
<1>1. \A d \in D : Pkt(type, u, u, d) \in Packet
  BY DEF Pkt, Packet
<1>2. \A d : /\ Pkt(type, u, u, d).type = type /\ Pkt(type, u, u, d).si = u
            /\ Pkt(type, u, u, d).src = u /\ Pkt(type, u, u, d).dst = d
            /\ Pkt(type, u, u, d).hops = 0
  BY DEF Pkt
<1> QED BY <1>1, <1>2 DEF ToAll

\* To be registered is to be another user, and not to lead.
LEMMA PeersFollow ==
  ASSUME TablesHonest, Strangers, Typed, NEW u \in User, mode[u] = "leader"
  PROVE  \A d \in Peers(u) : d \in User /\ d # u /\ mode[d] # "leader" /\ conn[u][d] = d
<1> SUFFICES ASSUME NEW d \in Peers(u)
             PROVE  d \in User /\ d # u /\ mode[d] # "leader" /\ conn[u][d] = d
  OBVIOUS
<1>1. PICK m \in User : d = conn[u][m] /\ d # Nobody
  BY DEF Peers
<1>2. d = m /\ d # u
  BY <1>1 DEF TablesHonest
<1> QED BY <1>1, <1>2, Modes DEF Strangers, Unasked

\* Who sends to a leader does not lead.
LEMMA SendersFollow ==
  ASSUME Base, NEW u \in User, mode[u] = "leader", NEW p \in net, p.dst = u
  PROVE  p.src \in User /\ p.src # u /\ mode[p.src] # "leader" /\ p.si = p.src /\ p.hops = 0
<1>1. p.src \in User /\ p.src # u /\ p.si = p.src /\ p.hops = 0
  BY DEF Base, Typed, Packet, FirstHand
<1> QED BY <1>1 DEF Base, Strangers, Unasked

\* An engine that stops.
LEMMA OutStep ==
  ASSUME Base, NEW u \in User, NEW sent, Out(u, sent), mode[u] # "out",
         \A q \in sent :
           /\ q \in Packet /\ q.src = u /\ q.dst # u /\ q.si = u /\ q.hops = 0
           /\ mode[u] = "leader" => mode[q.dst] # "leader"
  PROVE  Moves(u) /\ Mail(u) /\ Typed' /\ Finding'
<1> USE DEF Base
<1>1. /\ mode' = [mode EXCEPT ![u] = "out"] /\ leader' = [leader EXCEPT ![u] = Nobody]
      /\ conn' = [conn EXCEPT ![u] = NoTable] /\ alive' = [alive EXCEPT ![u] = {}]
      /\ led' = [v \in User |-> IF v = u THEN {} ELSE led[v] \ {u}]
      /\ net' = net \cup sent /\ UNCHANGED <<starts, losses>>
  BY DEF Out
<1>2. "out" \in Mode /\ NoTable \in [User -> User \cup {Nobody}] /\ \A m \in User : NoTable[m] = Nobody
  BY DEF Mode, NoTable
<1>3. /\ mode'[u] = "out" /\ conn'[u] = NoTable
      /\ \A v \in User \ {u} : mode'[v] = mode[v] /\ conn'[v] = conn[v] /\ led'[v] = led[v] \ {u}
  BY <1>1 DEF Typed
<1>4. Moves(u)
  BY <1>2, <1>3 DEF Moves, Idles, Bystander
<1>5. Mail(u)
  BY <1>1, <1>3 DEF Mail, Sent
<1>6. /\ mode' \in [User -> Mode] /\ leader' \in [User -> User \cup {Nobody}]
      /\ conn' \in [User -> [User -> User \cup {Nobody}]] /\ alive' \in [User -> SUBSET User]
      /\ led' \in [User -> SUBSET User] /\ net' \subseteq Packet
  BY <1>1, <1>2 DEF Typed
<1>7. \A v \in User : mode'[v] \in {"member", "discovering", "testing"} <=> leader'[v] # Nobody
  BY <1>1 DEF Typed
<1>8. Finding'
  BY <1>1, Modes DEF Finding, Typed
<1> QED BY <1>1, <1>4, <1>5, <1>6, <1>7, <1>8 DEF Typed

\* An engine that goes on and sends.
LEMMA GoesStep ==
  ASSUME Base, NEW u \in User, UNCHANGED <<mode, conn, led>>,
         \A q \in net' : q \in net \/ Sent(u, q), net \subseteq net'
  PROVE  Moves(u) /\ Mail(u) /\ net' \subseteq Packet
BY DEF Base, Moves, Goes, Bystander, Mail, Sent, Typed

LEMMA StartStep ==
  ASSUME GroupCallAssumption, Base, NEW u \in User, Start(u)
  PROVE  Moves(u) /\ Mail(u) /\ Typed' /\ Finding'
<1> USE DEF Base
<1>1. /\ mode[u] = "out" /\ mode' = [mode EXCEPT ![u] = "probing"]
      /\ led' = [led EXCEPT ![u] = {v \in User : mode[v] = "leader"}]
      /\ net' = net \cup ToAll("HELLO", u, User \ {u})
      /\ starts' = starts + 1 /\ starts < MaxStarts /\ UNCHANGED <<leader, conn, alive, losses>>
  BY DEF Start
<1>2. /\ mode'[u] = "probing" /\ led'[u] = {v \in User : mode[v] = "leader"}
      /\ \A v \in User \ {u} : mode'[v] = mode[v] /\ led'[v] = led[v]
  BY <1>1 DEF Typed
<1>3. Moves(u)
  <2>1. \A v \in User \ {u} : \E q \in net' : q.type = "HELLO" /\ q.src = u /\ q.dst = v
    BY <1>1, ToAllPackets
  <2>2. Begins(u)
    BY <1>1, <1>2, <2>1 DEF Begins
  <2> QED BY <1>1, <1>2, <2>2 DEF Moves, Bystander
<1>4. Mail(u) /\ net' \subseteq Packet
  <2>1. \A q \in ToAll("HELLO", u, User \ {u}) : Sent(u, q)
    BY <1>1, ToAllPackets DEF Sent
  <2> QED BY <1>1, <2>1 DEF Mail, Sent, Typed
<1>5. /\ mode' \in [User -> Mode] /\ led' \in [User -> SUBSET User]
      /\ \A v \in User : mode'[v] \in {"member", "discovering", "testing"} <=> leader'[v] # Nobody
  <2>1. "probing" \in Mode
    BY DEF Mode
  <2> QED BY <1>1, <2>1 DEF Typed
<1>6. starts' \in Nat
  BY <1>1 DEF Typed, GroupCallAssumption
<1>7. Finding'
  BY <1>1, <1>2 DEF Finding
<1> QED BY <1>1, <1>3, <1>4, <1>5, <1>6, <1>7 DEF Typed

LEMMA ProbeTimeoutStep ==
  ASSUME Base, NEW u \in User, ProbeTimeout(u)
  PROVE  Moves(u) /\ Mail(u) /\ Typed' /\ Finding'
<1> USE DEF Base
<1>1. /\ mode[u] = "probing" /\ Quiet(u) /\ mode' = [mode EXCEPT ![u] = "leader"]
      /\ led' = [led EXCEPT ![u] = {}] /\ UNCHANGED <<leader, conn, alive, net, starts, losses>>
  BY DEF ProbeTimeout
<1>2. /\ mode'[u] = "leader" /\ \A v \in User \ {u} : mode'[v] = mode[v] /\ led'[v] = led[v]
  BY <1>1 DEF Typed
<1>3. Moves(u) /\ Mail(u)
  BY <1>1, <1>2 DEF Moves, Leads, Bystander, Mail
<1>4. /\ mode' \in [User -> Mode] /\ led' \in [User -> SUBSET User]
      /\ \A v \in User : mode'[v] \in {"member", "discovering", "testing"} <=> leader'[v] # Nobody
  <2>1. "leader" \in Mode
    BY DEF Mode
  <2> QED BY <1>1, <2>1 DEF Typed
<1>5. Finding'
  BY <1>1, <1>2 DEF Finding
<1> QED BY <1>1, <1>3, <1>4, <1>5 DEF Typed

\* The user hangs up, or the program ends.
LEMMA LeaveStep ==
  ASSUME Base, NEW u \in User, Leave(u) \/ Crash(u)
  PROVE  Moves(u) /\ Mail(u) /\ Typed' /\ Finding'
<1>1. CASE Crash(u)
  BY <1>1, OutStep DEF Crash
<1>2. CASE Leave(u) /\ mode[u] = "probing"
  <2>1. Out(u, {})
    BY <1>2 DEF Leave
  <2> QED BY <1>2, <2>1, OutStep
<1>3. CASE Leave(u) /\ mode[u] = "leader"
  <2>1. Out(u, ToAll("HANGUP", u, Peers(u)))
    BY <1>3 DEF Leave
  <2>2. \A d \in Peers(u) : d \in User /\ d # u /\ mode[d] # "leader"
    BY <1>3, PeersFollow DEF Base
  <2>3. \A q \in ToAll("HANGUP", u, Peers(u)) :
          /\ q \in Packet /\ q.src = u /\ q.dst # u /\ q.si = u /\ q.hops = 0
          /\ mode[q.dst] # "leader"
    BY <2>2, ToAllPackets
  <2> QED BY <1>3, <2>1, <2>3, OutStep
<1>4. CASE Leave(u) /\ mode[u] \notin {"probing", "leader"}
  <2>1. Out(u, ToAll("HANGUP", u, {leader[u]})) /\ mode[u] # "out"
    BY <1>4 DEF Leave
  <2>2. leader[u] \in User \ {u}
    BY <1>4, <2>1 DEF Base, Typed, Finding, Mode
  <2>3. \A q \in ToAll("HANGUP", u, {leader[u]}) :
          q \in Packet /\ q.src = u /\ q.dst # u /\ q.si = u /\ q.hops = 0
    BY <2>2, ToAllPackets
  <2> QED BY <1>4, <2>1, <2>3, OutStep
<1> QED BY <1>1, <1>2, <1>3, <1>4

\* Voice, PING, and the table of the leader.
LEMMA TalkStep ==
  ASSUME Base, NEW u \in User, Speak(u) \/ Ping(u)
  PROVE  Moves(u) /\ Mail(u) /\ Typed' /\ Finding'
<1> USE DEF Base
<1>1. UNCHANGED <<mode, leader, conn, alive, led, starts, losses>>
  BY DEF Speak, Ping
<1>2. PICK type \in {"VOICE", "PING"}, D \in SUBSET User :
        /\ net' = net \cup ToAll(type, u, D)
        /\ \A d \in D : d # u /\ (mode[u] = "leader" => mode[d] # "leader")
        /\ mode[u] # "probing"
  <2>1. CASE mode[u] = "leader"
    <3>1. /\ Peers(u) \in SUBSET User
          /\ \A d \in Peers(u) : d # u /\ mode[d] # "leader"
      BY <2>1, PeersFollow
    <3>2. net' = net \cup ToAll("VOICE", u, Peers(u)) \/ net' = net \cup ToAll("PING", u, Peers(u))
      BY <2>1 DEF Speak, Ping
    <3> QED BY <2>1, <3>1, <3>2
  <2>2. CASE mode[u] # "leader"
    <3>1. mode[u] = "member" /\ net' = net \cup ToAll("VOICE", u, {leader[u]})
      BY <2>2 DEF Speak, Ping
    <3>2. leader[u] \in User \ {u}
      BY <3>1 DEF Typed, Finding
    <3> QED BY <2>2, <3>1, <3>2
  <2> QED BY <2>1, <2>2
<1>3. \A q \in ToAll(type, u, D) : Sent(u, q)
  BY <1>2, ToAllPackets DEF Sent
<1>4. Moves(u) /\ Mail(u) /\ net' \subseteq Packet
  BY <1>1, <1>2, <1>3, GoesStep
<1> QED BY <1>1, <1>4 DEF Typed, Finding

LEMMA RemoveSilentStep ==
  ASSUME Base, NEW u \in User, NEW m \in User, RemoveSilent(u, m)
  PROVE  Moves(u) /\ Mail(u) /\ Typed' /\ Finding'
<1> USE DEF Base
<1>1. /\ mode[u] = "leader" /\ conn' = [conn EXCEPT ![u][m] = Nobody]
      /\ UNCHANGED <<mode, leader, alive, net, led, starts, losses>>
  BY DEF RemoveSilent
<1>2. /\ \A k \in User : conn'[u][k] \in {conn[u][k], Nobody}
      /\ \A v \in User \ {u} : conn'[v] = conn[v]
      /\ conn' \in [User -> [User -> User \cup {Nobody}]]
  BY <1>1 DEF Typed
<1>3. Moves(u) /\ Mail(u)
  BY <1>1, <1>2 DEF Moves, Tends, Bystander, Mail
<1> QED BY <1>1, <1>2, <1>3 DEF Typed, Finding

\* User u takes packet p.
LEMMA TakeMail ==
  ASSUME NEW u \in User, NEW p \in net, p.dst = u,
         \A q \in net' : q \in net \/ Sent(u, q), \A q \in net \ net' : q = p,
         p.type = "HELLO" /\ mode[u] = "leader" =>
           \E r \in net' : r.type = "LEADER" /\ r.dst = p.src,
         p.type = "LEADER" /\ mode[u] = "probing" => mode'[u] # "probing"
  PROVE  Mail(u)
BY DEF Mail

LEMMA OnePacket ==
  ASSUME NEW type \in {"HELLO", "LEADER", "VOICE", "PING", "PONG", "HANGUP", "ALIVE"},
         NEW u \in User, NEW d \in User
  PROVE  LET q == Pkt(type, u, u, d)
         IN  q \in Packet /\ q.type = type /\ q.si = u /\ q.src = u /\ q.dst = d /\ q.hops = 0
BY DEF Pkt, Packet

LEMMA ProbingStep ==
  ASSUME Base, NEW u \in User, NEW p \in net, p.dst = u, RecvProbing(u, p),
         UNCHANGED <<starts, losses>>
  PROVE  Moves(u) /\ Mail(u) /\ Typed' /\ Finding'
<1> USE DEF Base
<1>0. mode[u] = "probing" /\ UNCHANGED <<conn, alive>> /\ p.src \in User \ {u} /\ net \subseteq Packet
  BY DEF RecvProbing, Typed, Packet, FirstHand
<1>1. CASE p.type \in {"LEADER", "VOICE", "PING"}
  <2>1. PICK q \in Packet :
          /\ q.si = u /\ q.src = u /\ q.dst = p.src /\ q.hops = 0
          /\ mode' = [mode EXCEPT ![u] = "member"] /\ leader' = [leader EXCEPT ![u] = p.src]
          /\ led' = [led EXCEPT ![u] = {}] /\ net' = (net \ {p}) \cup {q}
    BY <1>0, <1>1, OnePacket DEF RecvProbing, Got
  <2>2. /\ mode'[u] = "member" /\ \A v \in User \ {u} : mode'[v] = mode[v] /\ led'[v] = led[v]
        /\ \A v \in User \ {u} : leader'[v] = leader[v] /\ leader'[u] = p.src
    BY <1>0, <2>1 DEF Typed
  <2>3. Moves(u)
    BY <1>0, <2>2 DEF Moves, Idles, Bystander, TablesHonest
  <2>4. Sent(u, q)
    BY <1>0, <2>1, <2>2 DEF Sent
  <2>5. Mail(u)
    <3>1. \A r \in net' : r \in net \/ Sent(u, r)
      BY <2>1, <2>4
    <3>2. \A r \in net \ net' : r = p
      BY <2>1
    <3> QED BY <1>0, <2>2, <3>1, <3>2, TakeMail
  <2>6. /\ mode' \in [User -> Mode] /\ led' \in [User -> SUBSET User]
        /\ leader' \in [User -> User \cup {Nobody}] /\ net' \subseteq Packet
        /\ \A v \in User : mode'[v] \in {"member", "discovering", "testing"} <=> leader'[v] # Nobody
    <3>1. "member" \in Mode /\ p.src # Nobody
      BY <1>0, Modes DEF Mode
    <3> QED BY <1>0, <2>1, <3>1 DEF Typed
  <2>7. Finding'
    BY <1>0, <2>1, <2>2 DEF Finding
  <2> QED BY <1>0, <2>3, <2>5, <2>6, <2>7 DEF Typed
<1>2. CASE p.type \notin {"LEADER", "VOICE", "PING"}
  <2>1. UNCHANGED <<mode, leader, led>> /\ net' = (net \ {p}) \cup {}
    BY <1>2 DEF RecvProbing, Got
  <2>2. Mail(u)
    BY <1>0, <1>2, <2>1, TakeMail
  <2> QED BY <1>0, <2>1, <2>2 DEF Moves, Goes, Bystander, Typed, Finding
<1> QED BY <1>1, <1>2

LEMMA HelloStep ==
  ASSUME Base, NEW u \in User, NEW p \in net, p.dst = u, RecvHello(u, p),
         UNCHANGED <<starts, losses>>
  PROVE  Moves(u) /\ Mail(u) /\ Typed' /\ Finding'
<1> USE DEF Base
<1>1. /\ mode[u] = "leader" /\ UNCHANGED <<mode, leader, alive, led>>
      /\ conn' = conn \/ conn' = [conn EXCEPT ![u][p.src] = p.src]
  BY DEF RecvHello
<1>2. p.src \in User /\ p.src # u /\ mode[p.src] # "leader"
  BY <1>1, SendersFollow
<1>3. PICK q \in Packet :
        /\ q.type = "LEADER" /\ q.si = u /\ q.src = u /\ q.dst = p.src /\ q.hops = 0
        /\ net' = (net \ {p}) \cup {q}
  BY <1>2, OnePacket DEF RecvHello, Got, AnswerHello
<1>4. Mail(u)
  <2>1. Sent(u, q)
    BY <1>1, <1>2, <1>3 DEF Sent
  <2>2. \A r \in net' : r \in net \/ Sent(u, r)
    BY <1>3, <2>1
  <2>3. \A r \in net \ net' : r = p
    BY <1>3
  <2>4. q \in net'
    BY <1>3
  <2> QED BY <1>1, <1>3, <2>2, <2>3, <2>4, TakeMail
<1>5. /\ \A m \in User : conn'[u][m] = conn[u][m] \/ (m = p.src /\ conn'[u][m] = m)
      /\ \A v \in User \ {u} : conn'[v] = conn[v]
      /\ conn' \in [User -> [User -> User \cup {Nobody}]]
  BY <1>1, <1>2 DEF Typed
<1>6. Moves(u)
  BY <1>1, <1>5 DEF Moves, Tends, Bystander
<1>7. net' \subseteq Packet
  BY <1>3 DEF Typed
<1> QED BY <1>1, <1>4, <1>5, <1>6, <1>7 DEF Typed, Finding

LEMMA LeadingStep ==
  ASSUME Base, NEW u \in User, NEW p \in net, p.dst = u, RecvLeading(u, p),
         UNCHANGED <<starts, losses>>
  PROVE  Moves(u) /\ Mail(u) /\ Typed' /\ Finding'
<1> USE DEF Base
<1> DEFINE c == [conn[u] EXCEPT ![p.si] = p.src]
           left == [c EXCEPT ![p.si] = Nobody]
<1>1. /\ mode[u] = "leader" /\ p.type # "HELLO" /\ UNCHANGED <<mode, leader, alive, led>>
      /\ \/ conn' = [conn EXCEPT ![u] = c] /\ net' = (net \ {p}) \cup Relayed(c, u, p)
         \/ conn' = [conn EXCEPT ![u] = left] /\ net' = (net \ {p}) \cup Relayed(left, u, p)
         \/ conn' = [conn EXCEPT ![u] = c] /\ net' = (net \ {p}) \cup {}
  BY DEF RecvLeading, Got
<1>2. /\ p.src \in User /\ p.src # u /\ p.si = p.src /\ p.hops = 0
      /\ p \in Packet /\ conn[u] \in [User -> User \cup {Nobody}]
  BY <1>1, SendersFollow DEF Typed
<1>3. PICK t \in [User -> User \cup {Nobody}] :
        /\ t = c \/ t = left
        /\ conn' = [conn EXCEPT ![u] = t]
        /\ net' = (net \ {p}) \cup Relayed(t, u, p) \/ net' = (net \ {p}) \cup {}
  <2>1. c \in [User -> User \cup {Nobody}] /\ left \in [User -> User \cup {Nobody}]
    BY <1>2
  <2> QED BY <1>1, <2>1
<1>4. \A m \in User : IF m = p.src THEN t[m] \in {m, Nobody} ELSE t[m] = conn[u][m]
  BY <1>2, <1>3
<1>5. ASSUME NEW d \in Others(t, p.si)
      PROVE  d \in User /\ d # u /\ d # p.si /\ mode[d] # "leader"
  <2>1. PICK m \in User : m # p.si /\ d = t[m] /\ d # Nobody
    BY DEF Others
  <2>2. d = conn[u][m] /\ d \in Peers(u)
    BY <1>2, <1>4, <2>1 DEF Peers
  <2>3. d \in User /\ d # u /\ mode[d] # "leader" /\ conn[u][d] = d
    BY <1>1, <2>2, PeersFollow
  <2>4. d = m
    BY <2>1, <2>2 DEF TablesHonest
  <2> QED BY <2>1, <2>3, <2>4
<1> HIDE DEF c, left
<1>6. ASSUME NEW q \in Relayed(t, u, p) PROVE Sent(u, q)
  <2>1. PICK d \in Others(t, p.si) : q = [p EXCEPT !.src = u, !.dst = d, !.hops = @ + 1]
    BY DEF Relayed
  <2>2. q \in Packet /\ q.src = u /\ q.dst = d /\ q.hops = 1 /\ q.si = p.si
    <3>1. /\ q.src = u /\ q.dst = d /\ q.hops = p.hops + 1 /\ q.si = p.si
          /\ q = [type |-> p.type, si |-> p.si, src |-> u, dst |-> d, hops |-> p.hops + 1]
      BY <1>2, <2>1 DEF Packet
    <3>2. p.hops + 1 = 1 /\ d \in User
      BY <1>2, <1>5
    <3> QED BY <1>2, <3>1, <3>2 DEF Packet
  <2> QED BY <1>1, <1>5, <2>2 DEF Sent
<1>7. Mail(u) /\ net' \subseteq Packet
  <2>1. \A q \in net' : q \in net \/ Sent(u, q)
    BY <1>3, <1>6
  <2>2. \A q \in net \ net' : q = p
    BY <1>3
  <2>3. net' \subseteq Packet
    BY <2>1 DEF Sent, Typed
  <2> QED BY <1>1, <2>1, <2>2, <2>3, TakeMail
<1>8. /\ conn'[u] = t /\ \A v \in User \ {u} : conn'[v] = conn[v]
      /\ conn' \in [User -> [User -> User \cup {Nobody}]]
  BY <1>3 DEF Typed
<1>9. Moves(u)
  <2>1. Tends(u)
    BY <1>1, <1>2, <1>4, <1>8 DEF Tends
  <2> QED BY <1>1, <1>8, <2>1 DEF Moves, Bystander
<1> QED BY <1>1, <1>7, <1>8, <1>9 DEF Typed, Finding

LEMMA MemberStep ==
  ASSUME Base, NEW u \in User, NEW p \in net, p.dst = u,
         RecvMember(u, p) \/ RecvDiscovering(u, p) \/ RecvNothing(u, p),
         UNCHANGED <<starts, losses>>
  PROVE  Moves(u) /\ Mail(u) /\ Typed' /\ Finding'
<1> USE DEF Base
<1>0. /\ UNCHANGED <<mode, conn, led>> /\ mode[u] \notin {"leader", "probing"}
      /\ p.src \in User \ {u} /\ p.src # Nobody /\ p.si \in User
  <2>1. p.src \in User \ {u} /\ p.si \in User
    BY DEF Typed, Packet, FirstHand
  <2> QED BY <2>1, Modes DEF RecvMember, RecvDiscovering, RecvNothing
<1>1. PICK S : /\ net' = (net \ {p}) \cup S
               /\ S = {} \/ S = {Pkt("PONG", u, u, p.src)} \/ S = {Pkt("ALIVE", u, u, p.src)}
  BY DEF RecvMember, RecvDiscovering, RecvNothing, Got
<1>2. \A q \in S : Sent(u, q)
  <2>1. \A q \in S : q \in Packet /\ q.si = u /\ q.src = u /\ q.dst = p.src /\ q.hops = 0
    BY <1>0, <1>1, OnePacket
  <2> QED BY <1>0, <2>1 DEF Sent
<1>3. Mail(u) /\ net' \subseteq Packet
  <2>1. \A q \in net' : q \in net \/ Sent(u, q)
    BY <1>1, <1>2
  <2>2. \A q \in net \ net' : q = p
    BY <1>1
  <2>3. net' \subseteq Packet
    BY <2>1 DEF Sent, Typed
  <2> QED BY <1>0, <2>1, <2>2, <2>3, TakeMail
<1>4. Moves(u)
  BY <1>0 DEF Moves, Goes, Bystander
<1>5. /\ leader' = leader \/ (mode[u] = "member" /\ leader' = [leader EXCEPT ![u] = p.src])
      /\ alive' = alive \/ alive' = [alive EXCEPT ![u] = @ \cup {p.si}]
  BY DEF RecvMember, RecvDiscovering, RecvNothing
<1>6. /\ leader' \in [User -> User \cup {Nobody}] /\ alive' \in [User -> SUBSET User]
      /\ \A v \in User : alive[v] \subseteq alive'[v] /\ leader'[v] # v
      /\ \A v \in User : mode'[v] \in {"member", "discovering", "testing"} <=> leader'[v] # Nobody
  <2>1. /\ leader' \in [User -> User \cup {Nobody}] /\ \A v \in User : leader'[v] # v
        /\ \A v \in User : mode'[v] \in {"member", "discovering", "testing"} <=> leader'[v] # Nobody
    <3>1. CASE leader' = leader
      BY <1>0, <3>1 DEF Typed, Finding
    <3>2. CASE mode[u] = "member" /\ leader' = [leader EXCEPT ![u] = p.src]
      BY <1>0, <3>2 DEF Typed, Finding
    <3> QED BY <1>5, <3>1, <3>2
  <2>2. alive' \in [User -> SUBSET User] /\ \A v \in User : alive[v] \subseteq alive'[v]
    <3>1. CASE alive' = alive
      BY <3>1 DEF Typed
    <3>2. CASE alive' = [alive EXCEPT ![u] = @ \cup {p.si}]
      BY <1>0, <3>2 DEF Typed
    <3> QED BY <1>5, <3>1, <3>2
  <2> QED BY <2>1, <2>2
<1>7. Finding'
  BY <1>0, <1>6 DEF Finding
<1> QED BY <1>0, <1>3, <1>4, <1>6, <1>7 DEF Typed

\* A member, or one that looks for survivors, goes on as another of the two.
LEMMA WaitsStep ==
  ASSUME Base, NEW u \in User, mode[u] \in {"member", "discovering", "testing"},
         NEW m \in {"member", "discovering", "testing"}, mode' = [mode EXCEPT ![u] = m],
         NEW w \in User \ {u}, leader' = [leader EXCEPT ![u] = w],
         NEW A \in SUBSET User, alive' = [alive EXCEPT ![u] = A], m # "member" => u \in A,
         NEW D \in SUBSET User, u \notin D, net' = net \cup ToAll("ALIVE", u, D),
         UNCHANGED <<conn, led, starts, losses>>
  PROVE  Moves(u) /\ Mail(u) /\ Typed' /\ Finding'
<1> USE DEF Base
<1>1. /\ mode'[u] = m /\ leader'[u] = w /\ alive'[u] = A
      /\ \A v \in User \ {u} : mode'[v] = mode[v] /\ leader'[v] = leader[v] /\ alive'[v] = alive[v]
  BY DEF Typed
<1>2. Moves(u)
  BY <1>1 DEF Moves, Idles, Bystander, TablesHonest
<1>3. \A q \in ToAll("ALIVE", u, D) : Sent(u, q)
  BY ToAllPackets DEF Sent
<1>4. Mail(u) /\ net' \subseteq Packet
  <2>1. net' \subseteq Packet
    BY <1>3 DEF Sent, Typed
  <2> QED BY <1>3, <2>1 DEF Mail
<1>5. /\ mode' \in [User -> Mode] /\ leader' \in [User -> User \cup {Nobody}]
      /\ alive' \in [User -> SUBSET User]
      /\ \A v \in User : mode'[v] \in {"member", "discovering", "testing"} <=> leader'[v] # Nobody
  <2>1. m \in Mode /\ w # Nobody
    BY Modes DEF Mode
  <2> QED BY <2>1 DEF Typed
<1>6. Finding'
  BY <1>1 DEF Finding
<1> QED BY <1>2, <1>4, <1>5, <1>6 DEF Typed

\* An engine that is elected stops.
LEMMA ElectedStep ==
  ASSUME Base, NEW u \in User, mode[u] \in {"discovering", "testing"},
         NEW D \in SUBSET User, u \notin D, NEW S, S = {} \/ S = ToAll("LEADER", u, D),
         StopsElected(u, S)
  PROVE  Moves(u) /\ Mail(u) /\ Typed' /\ Finding'
<1>1. PICK T : Out(u, S \cup T) /\ (T = {} \/ T = ToAll("HANGUP", u, {leader[u]}))
  BY DEF StopsElected
<1>2. leader[u] \in User \ {u}
  BY DEF Base, Typed, Finding
<1>3. \A q \in S \cup T : q \in Packet /\ q.src = u /\ q.dst # u /\ q.si = u /\ q.hops = 0
  BY <1>1, <1>2, ToAllPackets
<1> QED BY <1>1, <1>3, OutStep

LEMMA FailoverStep ==
  ASSUME Base, NEW u \in User, Timeout(u) \/ DiscoveryEnds(u) \/ Decide(u)
  PROVE  Moves(u) /\ Mail(u) /\ Typed' /\ Finding'
<1>0. /\ mode[u] \in {"member", "discovering", "testing"} /\ leader[u] \in User \ {u}
      /\ leader = [leader EXCEPT ![u] = leader[u]] /\ alive = [alive EXCEPT ![u] = alive[u]]
      /\ alive[u] \in SUBSET User
  BY DEF Base, Typed, Finding, Timeout, DiscoveryEnds, Decide
<1>n. net = net \cup ToAll("ALIVE", u, {})
  BY ToAllPackets
<1>1. CASE Timeout(u)
  BY <1>0, <1>1, WaitsStep DEF Timeout
<1>2. CASE DiscoveryEnds(u)
  <2>1. CASE alive[u] = {u}
    <3>1. mode[u] = "discovering" /\ StopsElected(u, {})
      BY <1>2, <2>1 DEF DiscoveryEnds, Alone
    <3> QED BY <3>1, ElectedStep
  <2>2. CASE alive[u] # {u}
    <3>1. /\ mode[u] = "discovering" /\ mode' = [mode EXCEPT ![u] = "testing"]
          /\ UNCHANGED <<leader, conn, alive, net, led, starts, losses>>
      BY <1>2, <2>2 DEF DiscoveryEnds
    <3>2. u \in alive[u]
      BY <3>1 DEF Base, Finding
    <3>3. /\ leader' = [leader EXCEPT ![u] = leader[u]] /\ alive' = [alive EXCEPT ![u] = alive[u]]
          /\ net' = net \cup ToAll("ALIVE", u, {})
      BY <1>0, <1>n, <3>1
    <3>4. {} \in SUBSET User /\ u \notin {}
      OBVIOUS
    <3> QED BY <1>0, <3>1, <3>2, <3>3, <3>4, WaitsStep
  <2> QED BY <2>1, <2>2
<1>3. CASE Decide(u)
  <2>1. mode[u] = "testing" /\ u \in alive[u]
    BY <1>3 DEF Decide, Base, Finding
  <2>2. PICK measured \in BOOLEAN :
          IF Elected(u, measured) = u THEN StopsElected(u, ToAll("LEADER", u, alive[u] \ {u}))
          ELSE /\ mode' = [mode EXCEPT ![u] = "member"]
               /\ leader' = [leader EXCEPT ![u] = Elected(u, measured)]
               /\ alive' = [alive EXCEPT ![u] = {}]
               /\ UNCHANGED <<conn, net, led, starts, losses>>
    BY <1>3 DEF Decide
  <2>3. Elected(u, measured) \in User
    BY <1>0, <2>1, LeastIsOne DEF Elected
  <2>4. CASE Elected(u, measured) = u
    BY <1>0, <2>1, <2>2, <2>4, ElectedStep
  <2>5. CASE Elected(u, measured) # u
    <3>1. PICK w \in User \ {u} :
            /\ mode' = [mode EXCEPT ![u] = "member"] /\ leader' = [leader EXCEPT ![u] = w]
            /\ alive' = [alive EXCEPT ![u] = {}]
            /\ UNCHANGED <<conn, net, led, starts, losses>>
      BY <2>2, <2>3, <2>5
    <3>2. {} \in SUBSET User /\ u \notin {} /\ net' = net \cup ToAll("ALIVE", u, {})
      BY <1>n, <3>1
    <3> QED BY <1>0, <3>1, <3>2, WaitsStep
  <2> QED BY <2>4, <2>5
<1> QED BY <1>1, <1>2, <1>3

----------------------------------------------------------------------------
(* The invariant *)

LEMMA RelayStep ==
  ASSUME GroupCallAssumption, MaxLosses = 0, Base, Next
  PROVE  \E u \in User : Moves(u) /\ Mail(u) /\ Typed' /\ Finding'
<1>1. \A p \in net : ~Lose(p)
  BY DEF Lose, Base, Typed
<1>2. PICK u \in User :
        \/ Start(u) \/ ProbeTimeout(u) \/ Leave(u) \/ Crash(u)
        \/ Speak(u) \/ Ping(u) \/ Receive(u)
        \/ Timeout(u) \/ DiscoveryEnds(u) \/ Decide(u)
        \/ \E m \in User : RemoveSilent(u, m)
  BY <1>1 DEF Next
<1>3. ASSUME Receive(u) PROVE Moves(u) /\ Mail(u) /\ Typed' /\ Finding'
  <2>1. PICK p \in net :
          /\ p.dst = u
          /\ \/ RecvProbing(u, p) \/ RecvHello(u, p) \/ RecvLeading(u, p)
             \/ RecvMember(u, p) \/ RecvDiscovering(u, p) \/ RecvNothing(u, p)
    BY <1>3 DEF Receive
  <2>2. UNCHANGED <<starts, losses>>
    BY <1>3 DEF Receive
  <2> QED BY <2>1, <2>2, ProbingStep, HelloStep, LeadingStep, MemberStep
<1> QED BY <1>2, <1>3, StartStep, ProbeTimeoutStep, LeaveStep, TalkStep, FailoverStep, RemoveSilentStep

\* From nothing, or from a call of some users that is up.
Begun == Init \/ \E U \in (SUBSET User) \ {{}}, s \in Nat : InitUp(U, s)

LEMMA BegunRight ==
  ASSUME GroupCallAssumption, Begun
  PROVE  RelayInv
<1>t. NoTable \in [User -> User \cup {Nobody}] /\ \A m \in User : NoTable[m] = Nobody
  BY DEF NoTable
<1>m. {"out", "leader", "member"} \subseteq Mode
  BY DEF Mode
<1>1. CASE Init
  <2>1. Typed
    BY <1>1, <1>t, <1>m, Modes DEF Init, Typed, GroupCallAssumption
  <2> QED BY <1>1, <1>t, <2>1, Modes DEF Init, RelayInv, Finding, TablesHonest, Strangers,
             ProbesAnswered, FirstHand, NoEcho
<1>2. ASSUME NEW U \in (SUBSET User) \ {{}}, NEW s \in Nat, InitUp(U, s) PROVE RelayInv
  <2>1. PICK l \in U :
          /\ mode = [u \in User |-> IF u = l THEN "leader" ELSE IF u \in U THEN "member" ELSE "out"]
          /\ leader = [u \in User |-> IF u \in U \ {l} THEN l ELSE Nobody]
          /\ conn = [u \in User |->
                       IF u = l THEN [m \in User |-> IF m \in U \ {l} THEN m ELSE Nobody] ELSE NoTable]
          /\ alive = [u \in User |-> {}] /\ net = {} /\ led = [u \in User |-> {}]
          /\ starts = s /\ losses = 0
    BY <1>2, LeastIsOne DEF InitUp
  <2>2. \A u, m \in User : conn[u][m] = IF u = l /\ m \in U \ {l} THEN m ELSE Nobody
    BY <1>t, <2>1
  <2>3. Typed
    <3>1. conn \in [User -> [User -> User \cup {Nobody}]]
      BY <1>t, <2>1
    <3>2. mode \in [User -> Mode] /\ leader \in [User -> User \cup {Nobody}]
      BY <1>m, <2>1
    <3>3. \A u \in User : mode[u] \in {"member", "discovering", "testing"} <=> leader[u] # Nobody
      BY <2>1, Modes
    <3> QED BY <2>1, <3>1, <3>2, <3>3 DEF Typed, GroupCallAssumption
  <2>4. Finding /\ TablesHonest
    BY <2>1, <2>2, Modes DEF Finding, TablesHonest
  <2>5. Strangers
    BY <2>1, <2>2 DEF Strangers, Unasked
  <2> QED BY <2>1, <2>3, <2>4, <2>5 DEF RelayInv, ProbesAnswered, FirstHand, NoEcho
<1> QED BY <1>1, <1>2 DEF Begun

LEMMA RelayInvStep ==
  ASSUME GroupCallAssumption, MaxLosses = 0, RelayInv, [Next]_vars
  PROVE  RelayInv'
<1>1. CASE UNCHANGED vars
  BY <1>1 DEF vars, RelayInv, Typed, Finding, TablesHonest, Strangers, Unasked, ProbesAnswered,
     FirstHand, NoEcho
<1>2. CASE Next
  <2>1. Base /\ Typed /\ Finding /\ TablesHonest /\ Strangers /\ ProbesAnswered /\ FirstHand /\ NoEcho
    BY DEF RelayInv, Base
  <2>2. PICK u \in User : Moves(u) /\ Mail(u) /\ Typed' /\ Finding'
    BY <1>2, <2>1, RelayStep
  <2> QED BY <2>1, <2>2, TablesHonestKept, StrangersKept, ProbesAnsweredKept, FirstHandKept,
             NoEchoKept DEF RelayInv
<1> QED BY <1>1, <1>2

LEMMA RelayInvHolds ==
  ASSUME GroupCallAssumption, MaxLosses = 0
  PROVE  Begun /\ [][Next]_vars => []RelayInv
<1>1. Begun => RelayInv
  BY BegunRight
<1>2. RelayInv /\ [Next]_vars => RelayInv'
  BY RelayInvStep
<1> QED BY <1>1, <1>2, PTL

\* Voice that is not lost passes one leader at most, and never comes back to who
\* spoke (NoEcho): a leader relays to members only, and none of these leads.
THEOREM NeverEchoes ==
  ASSUME GroupCallAssumption, MaxLosses = 0
  PROVE  Begun /\ [][Next]_vars => []NoEcho
<1>1. RelayInv => NoEcho
  BY DEF RelayInv
<1> QED BY <1>1, RelayInvHolds, PTL

\* Who begins to lead had nobody to ask (StartJoinsExisting): as long as one of
\* those that led when it began to probe still does, a HELLO or a LEADER is under
\* way, and its probe waits.
THEOREM StartAlwaysJoins ==
  ASSUME GroupCallAssumption, MaxLosses = 0
  PROVE  Begun /\ [][Next]_vars => StartJoinsExisting
<1>1. RelayInv /\ [Next]_vars =>
        [\A u \in User : mode[u] = "probing" /\ mode'[u] = "leader" => led[u] = {}]_vars
  <2> SUFFICES ASSUME RelayInv, Next, NEW u \in User, mode[u] = "probing", mode'[u] = "leader"
               PROVE  led[u] = {}
    OBVIOUS
  <2>1. Base /\ ProbesAnswered
    BY DEF RelayInv, Base
  <2>2. PICK v \in User : Moves(v)
    BY <2>1, RelayStep
  <2>3. v = u
    BY <2>2 DEF Moves, Bystander
  <2>4. Leads(u)
    BY <2>2, <2>3 DEF Moves, Goes, Idles, Begins, Tends
  <2> QED BY <2>1, <2>4, NobodyToAsk DEF Leads
<1> QED BY <1>1, RelayInvHolds, PTL DEF StartJoinsExisting

----------------------------------------------------------------------------
(* Types, with losses too *)

\* Only a leader has a table, and who looks for survivors is one.
OnlyLeadersServe == \A u, m \in User : conn[u][m] # Nobody => mode[u] = "leader"
Surviving == \A u \in User : mode[u] \in {"discovering", "testing"} => u \in alive[u]
TypesInv == Typed /\ OnlyLeadersServe /\ Surviving

\* The datagrams a user sends are packets.
LEMMA SentArePackets ==
  ASSUME Typed, NEW u \in User
  PROVE  /\ Peers(u) \in SUBSET User
         /\ \A D \in SUBSET User,
               type \in {"HELLO", "LEADER", "VOICE", "PING", "PONG", "HANGUP", "ALIVE"} :
              ToAll(type, u, D) \subseteq Packet
         /\ \A p \in net, type \in {"HELLO", "LEADER", "PONG", "ALIVE"} :
              {Pkt(type, u, u, p.src)} \subseteq Packet
<1>1. Peers(u) \in SUBSET User
  BY DEF Peers, Typed
<1>2. \A D \in SUBSET User,
         type \in {"HELLO", "LEADER", "VOICE", "PING", "PONG", "HANGUP", "ALIVE"} :
        ToAll(type, u, D) \subseteq Packet
  BY ToAllPackets
<1>3. \A p \in net : p.src \in User
  BY DEF Typed, Packet
<1>4. \A v \in User, type \in {"HELLO", "LEADER", "PONG", "ALIVE"} :
        {Pkt(type, u, u, v)} \subseteq Packet
  BY DEF Pkt, Packet
<1> QED BY <1>1, <1>2, <1>3, <1>4

LEMMA OutTypes ==
  ASSUME TypesInv, NEW u \in User, NEW sent \in SUBSET Packet, Out(u, sent)
  PROVE  TypesInv'
<1> USE DEF TypesInv
<1>1. /\ mode' = [mode EXCEPT ![u] = "out"] /\ leader' = [leader EXCEPT ![u] = Nobody]
      /\ conn' = [conn EXCEPT ![u] = NoTable] /\ alive' = [alive EXCEPT ![u] = {}]
      /\ led' = [v \in User |-> IF v = u THEN {} ELSE led[v] \ {u}]
      /\ net' = net \cup sent /\ UNCHANGED <<starts, losses>>
  BY DEF Out
<1>2. "out" \in Mode /\ NoTable \in [User -> User \cup {Nobody}] /\ \A m \in User : NoTable[m] = Nobody
  BY DEF Mode, NoTable
<1>3. /\ mode' \in [User -> Mode] /\ leader' \in [User -> User \cup {Nobody}]
      /\ conn' \in [User -> [User -> User \cup {Nobody}]] /\ alive' \in [User -> SUBSET User]
      /\ led' \in [User -> SUBSET User] /\ net' \subseteq Packet
  BY <1>1, <1>2 DEF Typed
<1>4. \A v \in User : mode'[v] \in {"member", "discovering", "testing"} <=> leader'[v] # Nobody
  BY <1>1 DEF Typed
<1>5. OnlyLeadersServe'
  BY <1>1, <1>2 DEF Typed, OnlyLeadersServe
<1>6. Surviving'
  BY <1>1 DEF Typed, Surviving
<1> QED BY <1>1, <1>3, <1>4, <1>5, <1>6 DEF Typed

\* An engine that goes on as another, with leader w and survivors A.
Becomes(u, m, w, A) ==
  /\ m \in Mode /\ w \in User \cup {Nobody} /\ A \in SUBSET User
  /\ mode' = [mode EXCEPT ![u] = m]
  /\ leader' = [leader EXCEPT ![u] = w]
  /\ alive' = [alive EXCEPT ![u] = A]
  /\ m \in {"member", "discovering", "testing"} <=> w # Nobody
  /\ m \in {"discovering", "testing"} => u \in A
  /\ led' \in [User -> SUBSET User] /\ net' \subseteq Packet /\ starts' \in Nat
  /\ UNCHANGED <<conn, losses>>

LEMMA BecomesTypes ==
  ASSUME TypesInv, NEW u \in User, mode[u] # "leader",
         NEW m, NEW w, NEW A, Becomes(u, m, w, A)
  PROVE  TypesInv'
<1> USE DEF TypesInv, Becomes
<1>1. /\ mode'[u] = m /\ leader'[u] = w /\ alive'[u] = A
      /\ \A v \in User \ {u} : mode'[v] = mode[v] /\ leader'[v] = leader[v] /\ alive'[v] = alive[v]
  BY DEF Typed
<1>2. /\ mode' \in [User -> Mode] /\ leader' \in [User -> User \cup {Nobody}]
      /\ alive' \in [User -> SUBSET User]
  BY DEF Typed
<1>3. \A v \in User : mode'[v] \in {"member", "discovering", "testing"} <=> leader'[v] # Nobody
  BY <1>1 DEF Typed
<1>4. OnlyLeadersServe'
  BY <1>1 DEF OnlyLeadersServe
<1>5. Surviving'
  BY <1>1 DEF Surviving
<1> QED BY <1>2, <1>3, <1>4, <1>5 DEF Typed

LEMMA StartTypes ==
  ASSUME GroupCallAssumption, TypesInv, NEW u \in User, Start(u) \/ ProbeTimeout(u)
  PROVE  TypesInv'
<1> USE DEF TypesInv
<1>0. /\ leader = [leader EXCEPT ![u] = leader[u]] /\ alive = [alive EXCEPT ![u] = alive[u]]
      /\ alive[u] \in SUBSET User /\ "probing" \in Mode /\ "leader" \in Mode
  BY DEF Typed, Mode
<1>1. CASE Start(u)
  <2>1. /\ mode[u] = "out" /\ mode' = [mode EXCEPT ![u] = "probing"]
        /\ led' = [led EXCEPT ![u] = {v \in User : mode[v] = "leader"}]
        /\ net' = net \cup ToAll("HELLO", u, User \ {u})
        /\ starts' = starts + 1 /\ UNCHANGED <<leader, conn, alive, losses>>
    BY <1>1 DEF Start
  <2>2. net' \subseteq Packet /\ starts' \in Nat /\ led' \in [User -> SUBSET User]
    BY <2>1, SentArePackets DEF Typed
  <2>3. leader[u] = Nobody
    BY <2>1 DEF Typed
  <2>4. Becomes(u, "probing", Nobody, alive[u])
    BY <1>0, <2>1, <2>2, <2>3 DEF Becomes
  <2> QED BY <2>1, <2>4, BecomesTypes
<1>2. CASE ProbeTimeout(u)
  <2>1. /\ mode[u] = "probing" /\ mode' = [mode EXCEPT ![u] = "leader"]
        /\ led' = [led EXCEPT ![u] = {}] /\ UNCHANGED <<leader, conn, alive, net, starts, losses>>
    BY <1>2 DEF ProbeTimeout
  <2>2. leader[u] = Nobody /\ led' \in [User -> SUBSET User] /\ net' \subseteq Packet /\ starts' \in Nat
    BY <2>1 DEF Typed
  <2>3. Becomes(u, "leader", Nobody, alive[u])
    BY <1>0, <2>1, <2>2 DEF Becomes
  <2> QED BY <2>1, <2>3, BecomesTypes
<1> QED BY <1>1, <1>2

LEMMA LeaveTypes ==
  ASSUME TypesInv, NEW u \in User, Leave(u) \/ Crash(u)
  PROVE  TypesInv'
<1>1. /\ ToAll("HANGUP", u, Peers(u)) \in SUBSET Packet /\ {} \in SUBSET Packet
      /\ leader[u] \in User => ToAll("HANGUP", u, {leader[u]}) \in SUBSET Packet
  BY SentArePackets DEF TypesInv
<1>2. CASE Crash(u)
  BY <1>1, <1>2, OutTypes DEF Crash
<1>3. CASE Leave(u)
  <2>1. CASE mode[u] = "probing"
    BY <1>1, <1>3, <2>1, OutTypes DEF Leave
  <2>2. CASE mode[u] = "leader"
    BY <1>1, <1>3, <2>2, OutTypes DEF Leave
  <2>3. CASE mode[u] \notin {"probing", "leader"}
    <3>1. Out(u, ToAll("HANGUP", u, {leader[u]})) /\ mode[u] # "out"
      BY <1>3, <2>3 DEF Leave
    <3>2. leader[u] \in User
      BY <2>3, <3>1 DEF TypesInv, Typed, Mode
    <3> QED BY <1>1, <3>1, <3>2, OutTypes
  <2> QED BY <2>1, <2>2, <2>3
<1> QED BY <1>2, <1>3

\* Voice and PING change no table; RemoveSilent only shortens one.
LEMMA TalkTypes ==
  ASSUME TypesInv, NEW u \in User, NEW m \in User, Speak(u) \/ Ping(u) \/ RemoveSilent(u, m)
  PROVE  TypesInv'
<1> USE DEF TypesInv
<1>0. Peers(u) \in SUBSET User
  BY SentArePackets
<1>1. UNCHANGED <<mode, leader, alive, led, starts, losses>>
  BY DEF Speak, Ping, RemoveSilent
<1>2. net' \subseteq Packet
  <2>1. CASE Speak(u)
    <3>1. PICK D \in SUBSET User : net' = net \cup ToAll("VOICE", u, D)
      <4>1. mode[u] = "member" => leader[u] \in User
        BY DEF Typed
      <4>2. mode[u] = "leader" \/ mode[u] = "member"
        BY <2>1 DEF Speak
      <4>3. mode[u] = "leader" => net' = net \cup ToAll("VOICE", u, Peers(u))
        BY <2>1 DEF Speak
      <4>4. mode[u] = "member" => net' = net \cup ToAll("VOICE", u, {leader[u]})
        BY <2>1 DEF Speak
      <4> QED BY <1>0, <4>1, <4>2, <4>3, <4>4
    <3> QED BY <3>1, SentArePackets DEF Typed
  <2>2. CASE Ping(u)
    <3>1. net' = net \cup ToAll("PING", u, Peers(u))
      BY <2>2 DEF Ping
    <3> QED BY <1>0, <3>1, SentArePackets DEF Typed
  <2>3. CASE RemoveSilent(u, m)
    BY <2>3 DEF RemoveSilent, Typed
  <2> QED BY <2>1, <2>2, <2>3
<1>3. /\ conn' \in [User -> [User -> User \cup {Nobody}]]
      /\ \A v, k \in User : conn'[v][k] \in {conn[v][k], Nobody}
  <2>1. CASE UNCHANGED conn
    BY <2>1 DEF Typed
  <2>2. CASE conn' = [conn EXCEPT ![u][m] = Nobody]
    BY <2>2 DEF Typed
  <2> QED BY <2>1, <2>2 DEF Speak, Ping, RemoveSilent
<1>4. OnlyLeadersServe'
  BY <1>1, <1>3 DEF OnlyLeadersServe
<1> QED BY <1>1, <1>2, <1>3, <1>4 DEF Typed, Surviving

LEMMA ProbingTypes ==
  ASSUME TypesInv, NEW u \in User, NEW p \in net, RecvProbing(u, p), UNCHANGED <<starts, losses>>
  PROVE  TypesInv'
<1> USE DEF TypesInv
<1>1. CASE p.type \in {"LEADER", "VOICE", "PING"}
  <2>1. /\ mode[u] = "probing" /\ mode' = [mode EXCEPT ![u] = "member"]
        /\ leader' = [leader EXCEPT ![u] = p.src] /\ led' = [led EXCEPT ![u] = {}]
        /\ net' = (net \ {p}) \cup {Pkt("HELLO", u, u, p.src)} /\ UNCHANGED <<conn, alive>>
    BY <1>1 DEF RecvProbing, Got
  <2>2. p.src \in User /\ p.src # Nobody /\ "member" \in Mode
    BY Modes DEF Typed, Packet, Mode
  <2>3. net' \subseteq Packet /\ led' \in [User -> SUBSET User] /\ starts' \in Nat
    BY <2>1, SentArePackets DEF Typed
  <2>4. alive' = [alive EXCEPT ![u] = alive[u]] /\ alive[u] \in SUBSET User
    BY <2>1 DEF Typed
  <2>5. Becomes(u, "member", p.src, alive[u])
    BY <2>1, <2>2, <2>3, <2>4 DEF Becomes
  <2> QED BY <2>1, <2>5, BecomesTypes
<1>2. CASE p.type \notin {"LEADER", "VOICE", "PING"}
  <2>1. net' = (net \ {p}) \cup {} /\ UNCHANGED <<mode, leader, led, conn, alive>>
    BY <1>2 DEF RecvProbing, Got
  <2> QED BY <2>1 DEF Typed, OnlyLeadersServe, Surviving
<1> QED BY <1>1, <1>2

\* A leader takes a packet: its own table changes, and nothing else.
LEMMA LeadingTypes ==
  ASSUME TypesInv, NEW u \in User, NEW p \in net, RecvHello(u, p) \/ RecvLeading(u, p),
         UNCHANGED <<starts, losses>>
  PROVE  TypesInv'
<1> USE DEF TypesInv
<1> DEFINE T == [User -> User \cup {Nobody}]
<1>0. /\ p \in Packet /\ p.src \in User /\ p.si \in User /\ p.hops \in Nat /\ conn[u] \in T
      /\ p.type \in {"HELLO", "LEADER", "VOICE", "PING", "PONG", "HANGUP", "ALIVE"}
  BY DEF Typed, Packet
<1>1. mode[u] = "leader" /\ UNCHANGED <<mode, leader, alive, led>>
  BY DEF RecvHello, RecvLeading
<1>2. ASSUME NEW t \in T PROVE Relayed(t, u, p) \subseteq Packet
  <2> SUFFICES ASSUME NEW r \in Relayed(t, u, p) PROVE r \in Packet
    OBVIOUS
  <2>1. PICK d \in Others(t, p.si) : r = [p EXCEPT !.src = u, !.dst = d, !.hops = @ + 1]
    BY DEF Relayed
  <2>2. d \in User /\ p.hops + 1 \in Nat
    BY <1>0, <1>2 DEF Others
  <2>3. r = [type |-> p.type, si |-> p.si, src |-> u, dst |-> d, hops |-> p.hops + 1]
    BY <1>0, <2>1 DEF Packet
  <2> QED BY <1>0, <2>2, <2>3 DEF Packet
<1>3. PICK t \in T : (conn' = [conn EXCEPT ![u] = t]) /\ net' \subseteq Packet
  <2>1. CASE RecvHello(u, p)
    <3>1. conn' = conn \/ conn' = [conn EXCEPT ![u] = [conn[u] EXCEPT ![p.src] = p.src]]
      BY <2>1 DEF RecvHello
    <3>2. net' = (net \ {p}) \cup {Pkt("LEADER", u, u, p.src)}
      BY <2>1 DEF RecvHello, Got, AnswerHello
    <3>3. net' \subseteq Packet
      BY <3>2, SentArePackets DEF Typed
    <3>4. conn = [conn EXCEPT ![u] = conn[u]] /\ [conn[u] EXCEPT ![p.src] = p.src] \in T
      BY <1>0 DEF Typed
    <3> QED BY <1>0, <3>1, <3>3, <3>4
  <2>2. CASE RecvLeading(u, p)
    <3> DEFINE c == [conn[u] EXCEPT ![p.si] = p.src]
               gone == [c EXCEPT ![p.si] = Nobody]
    <3>1. c \in T /\ gone \in T
      BY <1>0
    <3>2. \/ conn' = [conn EXCEPT ![u] = c] /\ net' = (net \ {p}) \cup Relayed(c, u, p)
          \/ conn' = [conn EXCEPT ![u] = gone] /\ net' = (net \ {p}) \cup Relayed(gone, u, p)
          \/ conn' = [conn EXCEPT ![u] = c] /\ net' = (net \ {p}) \cup {}
      BY <2>2 DEF RecvLeading, Got
    <3> HIDE DEF c, gone
    <3>3. net \subseteq Packet
      BY DEF Typed
    <3>4. Relayed(c, u, p) \subseteq Packet /\ Relayed(gone, u, p) \subseteq Packet
      BY <1>2, <3>1
    <3>5. net' \subseteq Packet
      BY <3>2, <3>3, <3>4
    <3> QED BY <3>1, <3>2, <3>5
  <2> QED BY <2>1, <2>2
<1>4. /\ conn' \in [User -> T]
      /\ \A v \in User \ {u} : conn'[v] = conn[v]
  BY <1>3 DEF Typed
<1>5. OnlyLeadersServe'
  BY <1>1, <1>4 DEF OnlyLeadersServe
<1> QED BY <1>1, <1>3, <1>4, <1>5 DEF Typed, Surviving

LEMMA WaitingTypes ==
  ASSUME TypesInv, NEW u \in User, NEW p \in net,
         RecvMember(u, p) \/ RecvDiscovering(u, p) \/ RecvNothing(u, p),
         UNCHANGED <<starts, losses>>
  PROVE  TypesInv'
<1> USE DEF TypesInv
<1>0. UNCHANGED <<mode, conn, led>> /\ p.src \in User /\ p.src # Nobody /\ p.si \in User
  BY Modes DEF RecvMember, RecvDiscovering, RecvNothing, Typed, Packet
<1>1. net' \subseteq Packet
  <2>1. PICK S : /\ net' = (net \ {p}) \cup S
                 /\ S = {} \/ S = {Pkt("PONG", u, u, p.src)} \/ S = {Pkt("ALIVE", u, u, p.src)}
    BY DEF RecvMember, RecvDiscovering, RecvNothing, Got
  <2> QED BY <2>1, SentArePackets DEF Typed
<1>2. /\ leader' = leader \/ (mode[u] = "member" /\ leader' = [leader EXCEPT ![u] = p.src])
      /\ alive' = alive \/ alive' = [alive EXCEPT ![u] = @ \cup {p.si}]
  BY DEF RecvMember, RecvDiscovering, RecvNothing
<1>3. /\ leader' \in [User -> User \cup {Nobody}]
      /\ \A v \in User : mode'[v] \in {"member", "discovering", "testing"} <=> leader'[v] # Nobody
  <2>1. CASE leader' = leader
    BY <1>0, <2>1 DEF Typed
  <2>2. CASE mode[u] = "member" /\ leader' = [leader EXCEPT ![u] = p.src]
    BY <1>0, <2>2 DEF Typed
  <2> QED BY <1>2, <2>1, <2>2
<1>4. alive' \in [User -> SUBSET User] /\ \A v \in User : alive[v] \subseteq alive'[v]
  <2>1. CASE alive' = alive
    BY <2>1 DEF Typed
  <2>2. CASE alive' = [alive EXCEPT ![u] = @ \cup {p.si}]
    BY <1>0, <2>2 DEF Typed
  <2> QED BY <1>2, <2>1, <2>2
<1> QED BY <1>0, <1>1, <1>3, <1>4 DEF Typed, OnlyLeadersServe, Surviving

LEMMA FailoverTypes ==
  ASSUME TypesInv, NEW u \in User, Timeout(u) \/ DiscoveryEnds(u) \/ Decide(u)
  PROVE  TypesInv'
<1> USE DEF TypesInv
<1>0. /\ mode[u] \in {"member", "discovering", "testing"} /\ leader[u] \in User
      /\ leader = [leader EXCEPT ![u] = leader[u]] /\ alive = [alive EXCEPT ![u] = alive[u]]
      /\ alive[u] \in SUBSET User /\ {"member", "discovering", "testing"} \subseteq Mode
      /\ led \in [User -> SUBSET User] /\ net \subseteq Packet /\ starts \in Nat
  BY DEF Typed, Mode, Timeout, DiscoveryEnds, Decide
<1>n. Nobody \notin User
  BY Modes
<1>e. ASSUME NEW D \in SUBSET User, NEW S, S = {} \/ S = ToAll("LEADER", u, D), StopsElected(u, S)
      PROVE  TypesInv'
  <2>1. PICK t \in BOOLEAN : Out(u, S \cup IF t THEN ToAll("HANGUP", u, {leader[u]}) ELSE {})
    BY <1>e DEF StopsElected
  <2>2. S \cup (IF t THEN ToAll("HANGUP", u, {leader[u]}) ELSE {}) \in SUBSET Packet
    BY <1>0, <1>e, SentArePackets
  <2> QED BY <2>1, <2>2, OutTypes
<1>1. CASE Timeout(u)
  <2>1. /\ mode' = [mode EXCEPT ![u] = "discovering"] /\ alive' = [alive EXCEPT ![u] = {u}]
        /\ net' = net \cup ToAll("ALIVE", u, User \ {u})
        /\ UNCHANGED <<leader, conn, led, starts, losses>>
    BY <1>1 DEF Timeout
  <2>2. net' \subseteq Packet
    BY <2>1, <1>0, SentArePackets
  <2>3. leader' = [leader EXCEPT ![u] = leader[u]] /\ led' \in [User -> SUBSET User]
        /\ starts' \in Nat /\ {u} \in SUBSET User /\ u \in {u}
    BY <2>1, <1>0
  <2>4. Becomes(u, "discovering", leader[u], {u})
    BY <1>0, <1>n, <2>1, <2>2, <2>3 DEF Becomes
  <2>5. mode[u] # "leader"
    BY <1>0
  <2> QED BY <2>4, <2>5, BecomesTypes
<1>2. CASE DiscoveryEnds(u)
  <2>1. CASE alive[u] = {u}
    <3>1. StopsElected(u, {})
      BY <1>2, <2>1 DEF DiscoveryEnds, Alone
    <3> QED BY <3>1, <1>e
  <2>2. CASE alive[u] # {u}
    <3>1. /\ mode[u] = "discovering" /\ mode' = [mode EXCEPT ![u] = "testing"]
          /\ UNCHANGED <<leader, conn, alive, net, led, starts, losses>>
      BY <1>2, <2>2 DEF DiscoveryEnds
    <3>2. u \in alive[u]
      BY <3>1 DEF Surviving
    <3>3. leader' = [leader EXCEPT ![u] = leader[u]] /\ alive' = [alive EXCEPT ![u] = alive[u]]
          /\ led' \in [User -> SUBSET User] /\ net' \subseteq Packet /\ starts' \in Nat
      BY <3>1, <1>0
    <3>4. Becomes(u, "testing", leader[u], alive[u])
      BY <1>0, <1>n, <3>1, <3>2, <3>3 DEF Becomes
    <3> QED BY <3>1, <3>4, BecomesTypes
  <2> QED BY <2>1, <2>2
<1>3. CASE Decide(u)
  <2>1. mode[u] = "testing" /\ u \in alive[u]
    BY <1>3 DEF Decide, Surviving
  <2>2. PICK measured \in BOOLEAN :
          IF Elected(u, measured) = u THEN StopsElected(u, ToAll("LEADER", u, alive[u] \ {u}))
          ELSE /\ mode' = [mode EXCEPT ![u] = "member"]
               /\ leader' = [leader EXCEPT ![u] = Elected(u, measured)]
               /\ alive' = [alive EXCEPT ![u] = {}]
               /\ UNCHANGED <<conn, net, led, starts, losses>>
    BY <1>3 DEF Decide
  <2>3. Elected(u, measured) \in User
    BY <1>0, <2>1, LeastIsOne DEF Elected
  <2>4. CASE Elected(u, measured) = u
    <3>1. StopsElected(u, ToAll("LEADER", u, alive[u] \ {u})) /\ alive[u] \ {u} \in SUBSET User
      BY <1>0, <2>2, <2>4
    <3> QED BY <3>1, <1>e
  <2>5. CASE Elected(u, measured) # u
    <3>1. PICK w \in User :
            /\ mode' = [mode EXCEPT ![u] = "member"] /\ leader' = [leader EXCEPT ![u] = w]
            /\ alive' = [alive EXCEPT ![u] = {}]
            /\ UNCHANGED <<conn, net, led, starts, losses>>
      BY <2>2, <2>3, <2>5
    <3>2. led' \in [User -> SUBSET User] /\ net' \subseteq Packet /\ starts' \in Nat /\ {} \in SUBSET User
      BY <1>0, <3>1
    <3>3. Becomes(u, "member", w, {})
      BY <1>0, <1>n, <3>1, <3>2 DEF Becomes
    <3> QED BY <2>1, <3>3, BecomesTypes
  <2> QED BY <2>4, <2>5
<1> QED BY <1>1, <1>2, <1>3

\* The calls that are up at the start are within the bound of starts.
BegunWithin == Begun /\ starts <= MaxStarts

LEMMA TypesStep ==
  ASSUME GroupCallAssumption, TypesInv, Next
  PROVE  TypesInv'
<1>1. CASE \E p \in net : Lose(p)
  BY <1>1 DEF Lose, TypesInv, Typed, OnlyLeadersServe, Surviving, GroupCallAssumption
<1>2. ASSUME NEW u \in User, Receive(u) PROVE TypesInv'
  <2>1. PICK p \in net :
          \/ RecvProbing(u, p) \/ RecvHello(u, p) \/ RecvLeading(u, p)
          \/ RecvMember(u, p) \/ RecvDiscovering(u, p) \/ RecvNothing(u, p)
    BY <1>2 DEF Receive
  <2>2. UNCHANGED <<starts, losses>>
    BY <1>2 DEF Receive
  <2> QED BY <2>1, <2>2, ProbingTypes, LeadingTypes, WaitingTypes
<1> QED BY <1>1, <1>2, StartTypes, LeaveTypes, TalkTypes, FailoverTypes DEF Next

\* The types hold in calls that lose packets too.
THEOREM RelayTypes ==
  ASSUME GroupCallAssumption
  PROVE  BegunWithin /\ [][Next]_vars => []TypeOK
<1>1. BegunWithin => TypesInv /\ starts <= MaxStarts
  <2> SUFFICES ASSUME Begun PROVE TypesInv
    BY DEF BegunWithin
  <2>1. RelayInv
    BY BegunRight
  <2> QED BY <2>1 DEF RelayInv, TypesInv, TablesHonest, OnlyLeadersServe, Finding, Surviving
<1>2. TypesInv /\ starts <= MaxStarts /\ [Next]_vars => (TypesInv /\ starts <= MaxStarts)'
  <2> SUFFICES ASSUME TypesInv, starts <= MaxStarts, [Next]_vars
               PROVE  TypesInv' /\ starts' <= MaxStarts
    OBVIOUS
  <2>1. CASE UNCHANGED vars
    BY <2>1 DEF vars, TypesInv, Typed, OnlyLeadersServe, Surviving
  <2>2. CASE Next
    <3>1. (starts' = starts + 1 /\ starts < MaxStarts) \/ UNCHANGED starts
      BY <2>2 DEF Next, Start, ProbeTimeout, Leave, Crash, Out, Speak, Ping, Receive, Timeout,
         DiscoveryEnds, Alone, StopsElected, Decide, RemoveSilent, Lose
    <3>2. starts' <= MaxStarts
      BY <3>1 DEF TypesInv, Typed, GroupCallAssumption
    <3> QED BY <2>2, <3>2, TypesStep
  <2> QED BY <2>1, <2>2
<1>3. TypesInv /\ starts <= MaxStarts => TypeOK
  <2> SUFFICES ASSUME TypesInv, starts <= MaxStarts PROVE TypeOK
    OBVIOUS
  <2>1. starts \in 0..MaxStarts
    BY DEF TypesInv, Typed, GroupCallAssumption
  <2>2. \A u \in User : Peers(u) # {} => mode[u] = "leader"
    BY DEF TypesInv, OnlyLeadersServe, Peers
  <2> QED BY <2>1, <2>2 DEF TypesInv, Typed, TypeOK
<1> QED BY <1>1, <1>2, <1>3, PTL
=============================================================================
