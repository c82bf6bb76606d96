----------------------------- MODULE GroupCall -----------------------------
(***************************************************************************)
(* A relayed group call: probing for a leader, the leader's table of       *)
(* connected members, the relaying of voice, and the failover that members *)
(* run when the leader falls silent.  A user is an address and a sender    *)
(* index at once; users are numbered in the order of their public keys,    *)
(* which breaks the ties of an election.                                   *)
(*                                                                         *)
(* Everybody knows everybody's address, and time is left out but for one   *)
(* assumption: a packet that is not lost arrives before the two seconds of *)
(* a probe or of a discovery are over, and of the voice frames that follow *)
(* each other every 20 ms one arrives within the ten seconds of a timeout. *)
(***************************************************************************)
EXTENDS Naturals, FiniteSets, FiniteSetsExt

CONSTANTS
  N,         \* users
  MaxStarts, \* bound: starts of the call by anyone
  MaxLosses  \* bound: packets lost

\* Assumed of the constants, where they are given.
GroupCallAssumption ==
  N \in Nat \ {0} /\ MaxStarts \in Nat /\ MaxLosses \in Nat

VARIABLES
  mode,   \* what the engine of each user is doing
  leader, \* leader_addr of a member
  conn,   \* connected, of a leader: conn[u][m] is the peer_addr of m
  alive,  \* the survivors a member in failover has found
  net,    \* datagrams under way
  led,    \* history: who has led ever since a user began to probe
  starts, \* calls started, and
  losses  \* packets lost so far

vars == <<mode, leader, conn, alive, net, led, starts, losses>>

User == 1..N
Nobody == 0

Mode == {"out", "probing", "member", "discovering", "testing", "leader"}

\* si is the index in the header; PING stands for PING and ROSTER.
Packet ==
  [type : {"HELLO", "LEADER", "VOICE", "PING", "PONG", "HANGUP", "ALIVE"},
   si : User, src : User, dst : User, hops : Nat]
Pkt(type, si, src, dst) == [type |-> type, si |-> si, src |-> src, dst |-> dst, hops |-> 0]

NoTable == [m \in User |-> Nobody]
Peers(u) == {conn[u][m] : m \in User} \ {Nobody}
ToAll(type, u, D) == {Pkt(type, u, u, d) : d \in D}


Init ==
  /\ mode = [u \in User |-> "out"] /\ leader = [u \in User |-> Nobody]
  /\ conn = [u \in User |-> NoTable] /\ alive = [u \in User |-> {}]
  /\ net = {} /\ led = [u \in User |-> {}]
  /\ starts = 0 /\ losses = 0

\* A call of the users U that is up after s starts: the first of them leads, the
\* others follow.
InitUp(U, s) ==
  LET l == Min(U)
  IN  /\ mode = [u \in User |-> IF u = l THEN "leader" ELSE IF u \in U THEN "member" ELSE "out"]
      /\ leader = [u \in User |-> IF u \in U \ {l} THEN l ELSE Nobody]
      /\ conn = [u \in User |->
                   IF u = l THEN [m \in User |-> IF m \in U \ {l} THEN m ELSE Nobody] ELSE NoTable]
      /\ alive = [u \in User |-> {}] /\ net = {} /\ led = [u \in User |-> {}]
      /\ starts = s /\ losses = 0

----------------------------------------------------------------------------
(* Starting and stopping *)

\* probe_for_leader: GRP_HELLO to every other member of the group.
Start(u) ==
  /\ mode[u] = "out" /\ starts < MaxStarts
  /\ mode' = [mode EXCEPT ![u] = "probing"]
  /\ led' = [led EXCEPT ![u] = {v \in User : mode[v] = "leader"}]
  /\ net' = net \cup ToAll("HELLO", u, User \ {u})
  /\ starts' = starts + 1
  /\ UNCHANGED <<leader, conn, alive, losses>>

\* The two seconds are over: nothing is on its way that could still answer.
Quiet(u) == \A p \in net : p.dst # u /\ ~(p.type = "HELLO" /\ p.src = u)

\* Fault: the socket is read once.
QuietImpatient(u) == \A p \in net : p.dst # u

ProbeTimeout(u) ==
  /\ mode[u] = "probing" /\ Quiet(u)
  /\ mode' = [mode EXCEPT ![u] = "leader"]
  /\ led' = [led EXCEPT ![u] = {}]
  /\ UNCHANGED <<leader, conn, alive, net, starts, losses>>

\* An engine that stops forgets everything but what it still sends.
Out(u, sent) ==
  /\ mode' = [mode EXCEPT ![u] = "out"]
  /\ leader' = [leader EXCEPT ![u] = Nobody]
  /\ conn' = [conn EXCEPT ![u] = NoTable]
  /\ alive' = [alive EXCEPT ![u] = {}]
  /\ led' = [v \in User |-> IF v = u THEN {} ELSE led[v] \ {u}]
  /\ net' = net \cup sent
  /\ UNCHANGED <<starts, losses>>

\* The user hangs up: HANGUP to the leader, or from the leader to everybody.
\* In the middle of a probe there is nobody to tell.
Leave(u) ==
  /\ mode[u] # "out"
  /\ Out(u, CASE mode[u] = "probing" -> {}
              [] mode[u] = "leader" -> ToAll("HANGUP", u, Peers(u))
              [] OTHER -> ToAll("HANGUP", u, {leader[u]}))

Crash(u) == mode[u] # "out" /\ Out(u, {})

----------------------------------------------------------------------------
(* Voice and housekeeping *)

\* Frames follow each other; one at a time is under way.
Speak(u) ==
  /\ mode[u] \in {"member", "leader"}
  /\ ~\E p \in net : p.type = "VOICE"
  /\ LET D == IF mode[u] = "leader" THEN Peers(u) ELSE {leader[u]}
     IN  D # {} /\ net' = net \cup ToAll("VOICE", u, D)
  /\ UNCHANGED <<mode, leader, conn, alive, led, starts, losses>>

Ping(u) ==
  /\ mode[u] = "leader" /\ Peers(u) # {}
  /\ ~\E p \in net : p.type \in {"PING", "PONG"}
  /\ net' = net \cup ToAll("PING", u, Peers(u))
  /\ UNCHANGED <<mode, leader, conn, alive, led, starts, losses>>

\* What keeps m in the table of u: its own voice, its answers to PING, and what
\* another leader sends here.
Heard(u, m) ==
  \/ mode[m] = "member" /\ (leader[m] = u \/ conn[u][m] = m)
  \/ \E v \in User : /\ mode[v] = "leader" /\ u \in Peers(v)
                     /\ m = v \/ (mode[m] = "member" /\ leader[m] = v)

RemoveSilent(u, m) ==
  /\ mode[u] = "leader" /\ conn[u][m] # Nobody
  /\ ~Heard(u, m) /\ ~\E p \in net : p.dst = u /\ p.si = m
  /\ conn' = [conn EXCEPT ![u][m] = Nobody]
  /\ UNCHANGED <<mode, leader, alive, net, led, starts, losses>>

----------------------------------------------------------------------------
(* Receiving *)

Got(p, sent) == net' = (net \ {p}) \cup sent

\* A probe takes the first sign of a leader: PKT_GRP_LEADER, or any voice,
\* roster or ping.
RecvProbing(u, p) ==
  /\ mode[u] = "probing"
  /\ IF p.type \in {"LEADER", "VOICE", "PING"}
     THEN /\ mode' = [mode EXCEPT ![u] = "member"]
          /\ leader' = [leader EXCEPT ![u] = p.src]
          /\ led' = [led EXCEPT ![u] = {}]
          /\ Got(p, {Pkt("HELLO", u, u, p.src)})
     ELSE Got(p, {}) /\ UNCHANGED <<mode, leader, led>>
  /\ UNCHANGED <<conn, alive>>

\* A HELLO registers its sender and is answered always.
\* Fault: only a newcomer is answered.
AnswerNew(u, p) == IF conn[u][p.src] = Nobody THEN {Pkt("LEADER", u, u, p.src)} ELSE {}
AnswerHello(u, p) == {Pkt("LEADER", u, u, p.src)}
RecvHello(u, p) ==
  /\ mode[u] = "leader" /\ p.type = "HELLO"
  /\ conn' = IF conn[u][p.src] = Nobody THEN [conn EXCEPT ![u][p.src] = p.src] ELSE conn
  /\ Got(p, AnswerHello(u, p))
  /\ UNCHANGED <<mode, leader, alive, led>>

\* Everything else registers the index in its header and takes the address it
\* came from for that member's; voice and hangups go on to all other indices.
\* Fault: everybody in the table gets the voice.
ToEverybody(c, si) == {c[m] : m \in User} \ {Nobody}
Others(c, si) == {c[m] : m \in User \ {si}} \ {Nobody}
Relayed(c, u, p) == {[p EXCEPT !.src = u, !.dst = d, !.hops = @ + 1] : d \in Others(c, p.si)}
RecvLeading(u, p) ==
  /\ mode[u] = "leader" /\ p.type # "HELLO"
  /\ LET c == [conn[u] EXCEPT ![p.si] = p.src]
         left == [c EXCEPT ![p.si] = Nobody]
     IN  \/ /\ p.type = "VOICE"
            /\ conn' = [conn EXCEPT ![u] = c] /\ Got(p, Relayed(c, u, p))
         \/ /\ p.type = "HANGUP"
            /\ conn' = [conn EXCEPT ![u] = left] /\ Got(p, Relayed(left, u, p))
         \/ /\ p.type \notin {"VOICE", "HANGUP"}
            /\ conn' = [conn EXCEPT ![u] = c] /\ Got(p, {})
  /\ UNCHANGED <<mode, leader, alive, led>>

\* A member answers PING, follows LEADER, plays voice, whoever they come from;
\* anything with a header restarts its timeout.
RecvMember(u, p) ==
  /\ mode[u] = "member"
  /\ leader' = IF p.type = "LEADER" THEN [leader EXCEPT ![u] = p.src] ELSE leader
  /\ Got(p, IF p.type = "PING" THEN {Pkt("PONG", u, u, p.src)} ELSE {})
  /\ UNCHANGED <<mode, conn, alive, led>>

\* In the discovery only ALIVE is looked at, and answered once.
RecvDiscovering(u, p) ==
  /\ mode[u] = "discovering"
  /\ IF p.type = "ALIVE" /\ p.si \notin alive[u]
     THEN alive' = [alive EXCEPT ![u] = @ \cup {p.si}] /\ Got(p, {Pkt("ALIVE", u, u, p.src)})
     ELSE Got(p, {}) /\ UNCHANGED alive
  /\ UNCHANGED <<mode, leader, conn, led>>

RecvNothing(u, p) ==
  /\ mode[u] \in {"out", "testing"}
  /\ Got(p, {}) /\ UNCHANGED <<mode, leader, conn, alive, led>>

Receive(u) ==
  /\ \E p \in {q \in net : q.dst = u} :
       \/ RecvProbing(u, p) \/ RecvHello(u, p) \/ RecvLeading(u, p)
       \/ RecvMember(u, p) \/ RecvDiscovering(u, p) \/ RecvNothing(u, p)
  /\ UNCHANGED <<starts, losses>>

Lose(p) ==
  /\ losses < MaxLosses /\ losses' = losses + 1
  /\ net' = net \ {p}
  /\ UNCHANGED <<mode, leader, conn, alive, led, starts>>

----------------------------------------------------------------------------
(* Failover *)

\* Someone whose voice reaches u: a leader that has its address, or a member
\* that takes it for the leader.
Talks(v, u) ==
  \/ mode[v] = "leader" /\ u \in Peers(v)
  \/ mode[v] = "member" /\ leader[v] = u
\* The leader that u follows leads: u's next frame registers it there.
Served(u) == mode[leader[u]] = "leader"

\* run_failover: ALIVE to everybody.  (Without Internet it returns at once and
\* the timeout starts afresh.)
Timeout(u) ==
  /\ mode[u] = "member" /\ ~Served(u)
  /\ \A v \in User : ~Talks(v, u)
  /\ \A p \in net : p.dst # u
  /\ mode' = [mode EXCEPT ![u] = "discovering"]
  /\ alive' = [alive EXCEPT ![u] = {u}]
  /\ net' = net \cup ToAll("ALIVE", u, User \ {u})
  /\ UNCHANGED <<leader, conn, led, starts, losses>>

\* BecomeLeader clears running, the window ends the call, and the user is out;
\* the window also sets local_hangup, in time for the sender thread or not.
StopsElected(u, sent) ==
  \E told \in BOOLEAN :
    Out(u, sent \cup IF told THEN ToAll("HANGUP", u, {leader[u]}) ELSE {})

\* Fault: who finds nobody goes back and waits for the leader.
AloneWaits(u) ==
  /\ mode' = [mode EXCEPT ![u] = "member"] /\ alive' = [alive EXCEPT ![u] = {}]
  /\ UNCHANGED <<leader, conn, net, led, starts, losses>>
Alone(u) == StopsElected(u, {})
DiscoveryEnds(u) ==
  /\ mode[u] = "discovering"
  /\ ~\E p \in net : p.type = "ALIVE" /\ (p.dst = u \/ p.src = u)
  /\ IF alive[u] = {u} THEN Alone(u)
     ELSE /\ mode' = [mode EXCEPT ![u] = "testing"]
          /\ UNCHANGED <<leader, conn, alive, net, led, starts, losses>>

\* Everyone knows a speed of its own at most, and rates the others at zero: with
\* a result other than zero a survivor elects itself, without one the first in
\* the order of keys.
Elected(u, measured) == IF measured THEN u ELSE Min(alive[u])

Decide(u) ==
  /\ mode[u] = "testing"
  /\ \E measured \in BOOLEAN :
       LET w == Elected(u, measured)
       IN  IF w = u THEN StopsElected(u, ToAll("LEADER", u, alive[u] \ {u}))
           ELSE /\ mode' = [mode EXCEPT ![u] = "member"]
                /\ leader' = [leader EXCEPT ![u] = w]
                /\ alive' = [alive EXCEPT ![u] = {}]
                /\ UNCHANGED <<conn, net, led, starts, losses>>

----------------------------------------------------------------------------
Next ==
  \/ \E u \in User :
       \/ Start(u) \/ ProbeTimeout(u) \/ Leave(u) \/ Crash(u)
       \/ Speak(u) \/ Ping(u) \/ Receive(u)
       \/ Timeout(u) \/ DiscoveryEnds(u) \/ Decide(u)
       \/ \E m \in User : RemoveSilent(u, m)
  \/ \E p \in net : Lose(p)

Spec == Init /\ [][Next]_vars

\* Threads and timers run, and what the network does not lose arrives.
Fairness ==
  \A u \in User :
    /\ WF_vars(Receive(u)) /\ WF_vars(ProbeTimeout(u))
    /\ SF_vars(Timeout(u)) /\ WF_vars(DiscoveryEnds(u)) /\ WF_vars(Decide(u))

\* A call that is up and that nobody starts again.
UpSpec == InitUp(User, MaxStarts) /\ [][Next]_vars /\ Fairness

----------------------------------------------------------------------------
(* Properties *)

\* Every variable has its type.
TypeOK ==
  /\ mode \in [User -> Mode]
  /\ leader \in [User -> User \cup {Nobody}]
  /\ \A u \in User : mode[u] \in {"member", "discovering", "testing"} <=> leader[u] # Nobody
  /\ conn \in [User -> [User -> User \cup {Nobody}]]
  /\ \A u \in User : Peers(u) # {} => mode[u] = "leader"
  /\ alive \in [User -> SUBSET User]
  /\ net \subseteq Packet
  /\ led \in [User -> SUBSET User]
  /\ starts \in 0..MaxStarts /\ losses \in 0..MaxLosses

\* Nobody becomes a second leader while one leads that was there to be asked:
\* two leaders come about only when two probes cross.
StartJoinsExisting ==
  [][\A u \in User : mode[u] = "probing" /\ mode'[u] = "leader" => led[u] = {}]_vars

\* Voice passes through one leader at most and never comes back to its speaker.
NoEcho == \A p \in net : p.type = "VOICE" => p.hops <= 1 /\ p.dst # p.si

\* No two members take each other for the leader: whoever a probe finds by its
\* voice leads, or has a leader of its own.
NotEachOther ==
  \A u, v \in User : ~(mode[u] = "member" /\ mode[v] = "member" /\ leader[u] = v /\ leader[v] = u)

\* A member to whom nobody talks any more does not wait for ever: it finds
\* someone or its call ends.
Deserted(u) ==
  /\ mode[u] \in {"member", "discovering", "testing"}
  /\ ~Served(u) /\ \A v \in User : ~Talks(v, u)
SilenceEnds == \A u \in User : []<>~Deserted(u)
=============================================================================
