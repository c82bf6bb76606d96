--------------------------- MODULE MessengerProofs ---------------------------
(***************************************************************************)
(* What the messenger promises for every value of the constants. First its *)
(* types, and, when no address is ever reused, the inductive invariant     *)
(* IInv: no message is lost, and each reaches its addressee. Then, under   *)
(* the same assumption, that it implements Mailbox: composing, showing and *)
(* settling a message are one step each, and all other steps are invisible *)
(* to the users. The two tables of a daemon agree, the two ends of a key   *)
(* exchange can read each other, no session shows a message twice, and,    *)
(* when nobody moves, nothing is shown after its ACK.                      *)
(***************************************************************************)
EXTENDS MessengerInv, WellFoundedInduction, FiniteSetTheorems, TLAPS

----------------------------------------------------------------------------
(* Types: TypeInv is inductive and implies TypeOK. *)

(* A bounded, nonempty set of naturals has the maximum that Max chooses: the
   least of its upper bounds exists, Nat being well founded, and is a member. *)
LEMMA MaxOfBounded ==
  ASSUME NEW S \in SUBSET Nat, S # {}, NEW b \in Nat, \A x \in S : x <= b
  PROVE  Max(S) \in S /\ \A x \in S : x <= Max(S)
<1> DEFINE Bounds == {k \in Nat : \A x \in S : x <= k}
<1>1. IsWellFoundedOn(OpToRel(<, Nat), Nat)
  BY NatLessThanWellFounded
<1>2. PICK k \in Bounds : \A y \in Bounds : ~(<<y, k>> \in OpToRel(<, Nat))
  <2>1. b \in Bounds /\ Bounds \subseteq Nat
    OBVIOUS
  <2> QED BY <1>1, <2>1, WFMin
<1>3. \A y \in Bounds : ~(y < k)
  BY <1>2 DEF OpToRel
<1>4. k \in S
  <2>1. SUFFICES ASSUME k \notin S PROVE FALSE
    OBVIOUS
  <2>2. PICK x \in S : TRUE
    OBVIOUS
  <2>3. k - 1 \in Bounds
    BY <2>1, <2>2
  <2> QED BY <2>3, <1>3
<1>5. \E x \in S : \A y \in S : x >= y
  BY <1>4
<1> QED BY <1>5 DEF Max

(* The counter of a loaded outbox is positive and above every number in it. *)
LEMMA LoadedSeqAbove ==
  ASSUME NEW box \in SUBSET Entry, NEW b \in Nat, \A o \in box : o.seq < b
  PROVE  /\ LoadedSeq(box) \in Nat /\ LoadedSeq(box) # 0
         /\ \A o \in box : o.seq < LoadedSeq(box)
<1> DEFINE S == {o.seq : o \in box} \cup {0}
<1>1. S \in SUBSET Nat /\ S # {} /\ \A x \in S : x <= b
  BY DEF Entry
<1>2. Max(S) \in S /\ \A x \in S : x <= Max(S)
  <2> HIDE DEF S
  <2> QED BY <1>1, MaxOfBounded
<1>3. \A o \in box : o.seq \in S
  OBVIOUS
<1>4. LoadedSeq(box) = Max(S) + 1
  BY DEF LoadedSeq
<1>5. Max(S) \in Nat
  BY <1>1, <1>2
<1>6. \A o \in box : o.seq \in Nat /\ o.seq <= Max(S)
  BY <1>1, <1>2, <1>3
<1> HIDE DEF S
<1> QED BY <1>4, <1>5, <1>6

----------------------------------------------------------------------------
(* Types of the operators the actions are built from. *)

LEMMA ConstantTypes ==
  /\ NoEph \in Eph /\ NoKey \in Key /\ NoSession \in Session
  /\ \A E \in SUBSET Eph : BaseKey(E) \in Key
  /\ \A E \in SUBSET Eph, n, c \in Node : UpgradedKey(E, n, c) \in Key
BY DEF NoEph, Eph, NoKey, Key, NoSession, Session, BaseKey, UpgradedKey

LEMMA KeyTypes ==
  ASSUME NEW s \in Session
  PROVE  /\ EncryptKey(s) \in Key
         /\ \A k \in Key : AfterDecrypt(s, k) \in Session
         /\ \A i \in Nat : Remember(s, i) \in Session
<1>1. EncryptKey(s) \in Key
  BY DEF EncryptKey, Session
<1>2. \A k \in Key : AfterDecrypt(s, k) \in Session
  BY ConstantTypes DEF AfterDecrypt, Session
<1>3. \A i \in Nat : Remember(s, i) \in Session
  BY DEF Remember, Session
<1> QED BY <1>1, <1>2, <1>3

LEMMA SessionTypes ==
  ASSUME ephs \in Nat, NEW n \in Node, NEW a \in Addr
  PROVE  /\ NewEph(n, a) \in Eph
         /\ \A c \in Node : Initiated(n, a, c) \in Session
         /\ \A e \in Eph : Answered(n, a, e) \in Session
         /\ \A s \in Session, e \in Eph : Completed(s, e) \in Session
         /\ \A s \in Session, c \in Node : Identified(n, s, c) \in Session
<1>1. NewEph(n, a) \in Eph
  BY DEF NewEph, Eph
<1>2. \A c \in Node : Initiated(n, a, c) \in Session
  BY <1>1, ConstantTypes DEF Initiated, NoSession, Session
<1>3. \A e \in Eph : Answered(n, a, e) \in Session
  <2> TAKE e \in Eph
  <2>1. BaseKey({NewEph(n, a), e}) \in Key
    BY <1>1, ConstantTypes
  <2> QED BY <1>1, <2>1, ConstantTypes DEF Answered, NoSession, Session
<1>4. \A s \in Session, e \in Eph : Completed(s, e) \in Session
  <2> TAKE s \in Session, e \in Eph
  <2>1. s.mine \in Eph
    BY DEF Session
  <2>2. BaseKey({s.mine, e}) \in Key
    BY <2>1, ConstantTypes
  <2> QED BY <2>1, <2>2, ConstantTypes DEF Completed, Session
<1>5. \A s \in Session, c \in Node : Identified(n, s, c) \in Session
  <2> TAKE s \in Session, c \in Node
  <2>1. UpgradedKey(s.shared, n, c) \in Key
    BY ConstantTypes DEF Session
  <2> QED BY <2>1 DEF Identified, Session
<1> QED BY <1>1, <1>2, <1>3, <1>4, <1>5

LEMMA PacketTypes ==
  ASSUME NEW a \in Addr, NEW b \in Addr
  PROVE  /\ \A e \in Eph : Hello(a, b, e) \in Packet
         /\ \A k \in Key, n \in Node : Ident(a, b, k, n) \in Packet
         /\ \A k \in Key : Confirm(a, b, k) \in Packet
         /\ \A k \in Key, o \in Entry : Chat(a, b, k, o) \in Packet
         /\ \A k \in Key, i \in Nat : Ack(a, b, k, i) \in Packet
         /\ Bye(a, b) \in Packet
BY DEF Packet, Hello, Ident, Confirm, Chat, Ack, Bye, Entry

(* What a received packet carries. *)
LEMMA ReceivedTypes ==
  ASSUME TypeOK, NEW p \in net
  PROVE  /\ p.src \in Addr /\ p.dst \in Addr
         /\ p.type = "HELLO" => p.eph \in Eph
         /\ p.type = "IDENTITY" => p.key \in Key /\ p.id \in Node
         /\ p.type = "CONFIRM" => p.key \in Key
         /\ p.type = "CHAT" => p.key \in Key /\ p.seq \in Nat /\ p.msg \in Text
         /\ p.type = "ACK" => p.key \in Key /\ p.seq \in Nat
BY DEF TypeOK, Packet

(* The messages of an outbox, encrypted for one session, are packets. *)
LEMMA FlushTypes ==
  ASSUME at \in [Node -> Addr], NEW n \in Node, NEW a \in Addr, NEW s \in Session,
         NEW box \in SUBSET Entry
  PROVE  Flush(n, a, s, box) \subseteq Packet
<1>1. EncryptKey(s) \in Key /\ at[n] \in Addr
  BY KeyTypes
<1>2. \A o \in box : Chat(at[n], a, EncryptKey(s), o) \in Packet
  BY <1>1, PacketTypes
<1> QED BY <1>2 DEF Flush

----------------------------------------------------------------------------
(* TypeInv is inductive: one lemma per group of actions. *)

LEMMA InitTypeInv == MessengerAssumption /\ Init => TypeInv
<1> SUFFICES ASSUME MessengerAssumption, Init PROVE TypeInv
  OBVIOUS
<1>1. at \in [Node -> Addr]
  BY DEF Init
<1>2. peers \in [Node -> [Addr -> Session]]
  BY ConstantTypes DEF Init
<1>3. SeqsBelowNext
  BY DEF Init, SeqsBelowNext
<1> QED BY <1>1, <1>2, <1>3, MessengerAssumption DEF Init, TypeInv, TypeOK

LEMMA LifecycleTypeInv ==
  ASSUME MessengerAssumption, TypeInv, NEW n \in Node,
         Start(n) \/ Crash(n) \/ Shutdown(n) \/ Move(n)
  PROVE  TypeInv'
<1> USE DEF TypeInv
<1>1. ASSUME Start(n) PROVE TypeInv'
  <2>1. \A c \in Node : LET q == LoadedSeq(outbox[n][c])
                        IN  q \in Nat /\ q # 0 /\ \A o \in outbox[n][c] : o.seq < q
    <3> TAKE c \in Node
    <3>1. outbox[n][c] \in SUBSET Entry /\ nextSeq[n][c] \in Nat
      BY DEF TypeOK
    <3>2. \A o \in outbox[n][c] : o.seq < nextSeq[n][c]
      BY DEF SeqsBelowNext
    <3> QED BY <3>1, <3>2, LoadedSeqAbove
  <2>2. nextSeq' \in [Node -> [Node -> Nat]]
    BY <1>1, <2>1 DEF Start, TypeOK
  <2>3. SeqsBelowNext'
    BY <1>1, <2>1 DEF Start, SeqsBelowNext, TypeOK
  <2>4. at' \in [Node -> Addr] /\ mode' \in [Node -> {"up", "yielded", "down"}]
    BY <1>1, MessengerAssumption DEF Start, TypeOK, MessengerAssumption
  <2> QED BY <1>1, <2>2, <2>3, <2>4 DEF Start, TypeOK, sessionVars
<1>2. ASSUME Stop(n), net' \subseteq Packet PROVE TypeInv'
  <2>1. peers' \in [Node -> [Addr -> Session]]
    BY <1>2, ConstantTypes DEF Stop, TypeOK
  <2> QED BY <1>2, <2>1 DEF Stop, TypeOK, SeqsBelowNext, chatVars
<1>3. ASSUME Crash(n) PROVE TypeInv'
  BY <1>2, <1>3 DEF Crash, TypeOK
<1>4. ASSUME Shutdown(n) PROVE TypeInv'
  <2>1. \A a \in Addr : Bye(at[n], a) \in Packet
    BY PacketTypes DEF TypeOK
  <2>2. net' \subseteq Packet
    BY <1>4, <2>1 DEF Shutdown, TypeOK
  <2> QED BY <1>2, <1>4, <2>2 DEF Shutdown
<1>5. ASSUME Move(n) PROVE TypeInv'
  <2>1. at' \in [Node -> Addr]
    BY <1>5, MessengerAssumption DEF Move, TypeOK, MessengerAssumption
  <2> QED BY <1>5, <2>1 DEF Move, TypeOK, SeqsBelowNext, sessionVars, chatVars
<1> QED BY <1>1, <1>3, <1>4, <1>5

LEMMA CallTypeInv ==
  ASSUME MessengerAssumption, TypeInv, NEW n \in Node, YieldSocket(n) \/ ReclaimSocket(n)
  PROVE  TypeInv'
<1> USE DEF TypeInv
<1>1. ASSUME YieldSocket(n) PROVE TypeInv'
  <2>1. peers' \in [Node -> [Addr -> Session]]
    BY <1>1, ConstantTypes DEF YieldSocket, TypeOK
  <2>2. \A a \in Addr : peers[n][a].cid # NoNode => peers[n][a].cid \in Node
    BY DEF TypeOK, Session
  <2>3. saved' \in [Node -> SUBSET (Node \X Addr)]
    BY <1>1, <2>2 DEF YieldSocket, TypeOK
  <2> QED BY <1>1, <2>1, <2>3 DEF YieldSocket, TypeOK, SeqsBelowNext, chatVars
<1>2. ASSUME ReclaimSocket(n) PROVE TypeInv'
  <2>1. PICK pick \in SUBSET saved[n] :
          /\ ephs' = IF pick = {} THEN ephs ELSE ephs + 1
          /\ peers' = [peers EXCEPT ![n] = [a \in Addr |->
                IF \E x \in pick : x[2] = a
                THEN Initiated(n, a, (CHOOSE x \in pick : x[2] = a)[1]) ELSE @[a]]]
          /\ addrs' = [addrs EXCEPT ![n] = [c \in Node |->
                IF \E x \in pick : x[1] = c
                THEN (CHOOSE x \in pick : x[1] = c)[2] ELSE @[c]]]
          /\ net' = net \cup {Hello(at[n], x[2], NewEph(n, x[2])) : x \in pick}
    BY <1>2 DEF ReclaimSocket
  <2>2. pick \subseteq Node \X Addr
    BY DEF TypeOK
  <2>3. \A a \in Addr : (\E x \in pick : x[2] = a) => (CHOOSE x \in pick : x[2] = a) \in pick
    OBVIOUS
  <2>4. \A c \in Node : (\E x \in pick : x[1] = c) => (CHOOSE x \in pick : x[1] = c) \in pick
    OBVIOUS
  <2>5. peers' \in [Node -> [Addr -> Session]]
    <3>1. \A a \in Addr, c \in Node : Initiated(n, a, c) \in Session
      BY SessionTypes DEF TypeOK
    <3> QED BY <2>1, <2>2, <2>3, <3>1 DEF TypeOK
  <2>6. addrs' \in [Node -> [Node -> Addr \cup {NoAddr}]]
    BY <2>1, <2>2, <2>4 DEF TypeOK
  <2>7. net' \subseteq Packet
    <3>1. \A x \in pick : Hello(at[n], x[2], NewEph(n, x[2])) \in Packet
      BY <2>2, SessionTypes, PacketTypes DEF TypeOK
    <3> QED BY <2>1, <3>1 DEF TypeOK
  <2>8. ephs' \in Nat
    BY <2>1 DEF TypeOK
  <2> QED BY <1>2, <2>5, <2>6, <2>7, <2>8 DEF ReclaimSocket, TypeOK, SeqsBelowNext, chatVars
<1> QED BY <1>1, <1>2

LEMMA InitiateTypes ==
  ASSUME TypeOK, NEW n \in Node, NEW a \in Addr, NEW c \in Node, Initiate(n, a, c)
  PROVE  /\ peers' \in [Node -> [Addr -> Session]]
         /\ addrs' \in [Node -> [Node -> Addr \cup {NoAddr}]]
         /\ net' \subseteq Packet /\ ephs' \in Nat /\ online' = online
<1>1. Initiated(n, a, c) \in Session /\ Hello(at[n], a, NewEph(n, a)) \in Packet
  BY SessionTypes, PacketTypes DEF TypeOK
<1> QED BY <1>1 DEF Initiate, TypeOK

LEMMA QueueTypes ==
  ASSUME TypeInv, NEW n \in Node, NEW c \in Node, NEW m \in Text, Queue(n, c, m)
  PROVE  /\ outbox' \in [Node -> [Node -> SUBSET Entry]]
         /\ nextSeq' \in [Node -> [Node -> Nat]]
         /\ sent' \subseteq Text /\ inbox' = inbox /\ repeated' = repeated
         /\ SeqsBelowNext'
<1> DEFINE o == [seq |-> nextSeq[n][c], msg |-> m]
<1>1. o \in Entry
  BY DEF TypeInv, TypeOK, Entry
<1>2. outbox' \in [Node -> [Node -> SUBSET Entry]]
  BY <1>1 DEF Queue, TypeInv, TypeOK
<1>3. nextSeq' \in [Node -> [Node -> Nat]]
  BY DEF Queue, TypeInv, TypeOK
<1>4. SeqsBelowNext'
  <2> SUFFICES ASSUME NEW k \in Node, NEW d \in Node
               PROVE  nextSeq'[k][d] # 0 /\ \A q \in outbox'[k][d] : q.seq < nextSeq'[k][d]
    BY DEF SeqsBelowNext
  <2>1. outbox[k][d] \in SUBSET Entry /\ nextSeq[k][d] \in Nat
    BY DEF TypeInv, TypeOK
  <2>2. nextSeq[k][d] # 0 /\ \A q \in outbox[k][d] : q.seq \in Nat /\ q.seq < nextSeq[k][d]
    BY <2>1 DEF TypeInv, SeqsBelowNext, Entry
  <2>3. CASE k = n /\ d = c
    <3>1. nextSeq'[k][d] = nextSeq[k][d] + 1 /\ outbox'[k][d] = outbox[k][d] \cup {o}
      BY <2>3 DEF Queue, TypeInv, TypeOK
    <3>2. o.seq = nextSeq[k][d]
      BY <2>3
    <3> HIDE DEF o
    <3> QED BY <2>1, <2>2, <3>1, <3>2
  <2>4. CASE ~(k = n /\ d = c)
    <3>1. nextSeq'[k][d] = nextSeq[k][d] /\ outbox'[k][d] = outbox[k][d]
      BY <2>4 DEF Queue, TypeInv, TypeOK
    <3> QED BY <2>2, <3>1
  <2> QED BY <2>3, <2>4
<1>5. sent' \subseteq Text /\ inbox' = inbox /\ repeated' = repeated
  BY DEF Queue, TypeInv, TypeOK
<1> QED BY <1>2, <1>3, <1>4, <1>5

LEMMA DropTypes ==
  ASSUME TypeOK, NEW n \in Node, NEW a \in Addr, Drop(n, a)
  PROVE  /\ peers' \in [Node -> [Addr -> Session]]
         /\ addrs' \in [Node -> [Node -> Addr \cup {NoAddr}]]
         /\ online' \in [Node -> SUBSET Node]
BY ConstantTypes DEF Drop, Forget, TypeOK

LEMMA CommandTypeInv ==
  ASSUME MessengerAssumption, TypeInv, NEW n \in Node,
         Connect(n) \/ SendMessage(n) \/ RetryOutbox(n) \/ Keepalive(n) \/ PeerTimeout(n)
  PROVE  TypeInv'
<1>0. TypeOK /\ SeqsBelowNext
  BY DEF TypeInv
<1>1. ASSUME Connect(n) PROVE TypeInv'
  <2>1. PICK c \in Contacts[n] : \E a \in AddrOf[c] : Initiate(n, a, c)
    BY <1>1 DEF Connect
  <2>2. PICK a \in AddrOf[c] : Initiate(n, a, c)
    BY <2>1
  <2>3. c \in Node /\ a \in Addr
    BY <2>2, MessengerAssumption DEF MessengerAssumption
  <2>4. /\ peers' \in [Node -> [Addr -> Session]]
        /\ addrs' \in [Node -> [Node -> Addr \cup {NoAddr}]]
        /\ net' \subseteq Packet /\ ephs' \in Nat /\ online' = online
    BY <1>0, <2>2, <2>3, InitiateTypes
  <2> QED BY <1>0, <1>1, <2>4 DEF Connect, TypeInv, TypeOK, SeqsBelowNext, chatVars, procVars
<1>2. ASSUME SendMessage(n) PROVE TypeInv'
  <2>1. PICK c \in Contacts[n], i \in 1..MaxText[n] :
          LET m == [from |-> n, to |-> c, id |-> i]
              b == addrs[n][c]
          IN  /\ Queue(n, c, m)
              /\ \/ \E a \in AddrOf[c] : Initiate(n, a, c)
                 \/ /\ net' = IF b # NoAddr /\ Connected(peers[n][b])
                              THEN net \cup Flush(n, b, peers[n][b],
                                                  {[seq |-> nextSeq[n][c], msg |-> m]})
                              ELSE net
                    /\ UNCHANGED <<sessionVars, ephs>>
    BY <1>2 DEF SendMessage
  <2> DEFINE m == [from |-> n, to |-> c, id |-> i]
             b == addrs[n][c]
             o == [seq |-> nextSeq[n][c], msg |-> m]
  <2>2. c \in Node /\ i \in Nat
    BY MessengerAssumption DEF MessengerAssumption
  <2>3. m \in Text
    BY <2>2 DEF Text
  <2>4. /\ outbox' \in [Node -> [Node -> SUBSET Entry]]
        /\ nextSeq' \in [Node -> [Node -> Nat]]
        /\ sent' \subseteq Text /\ inbox' = inbox /\ repeated' = repeated
        /\ SeqsBelowNext'
    <3> HIDE DEF m
    <3> QED BY <2>1, <2>2, <2>3, QueueTypes DEF m
  <2>5. /\ peers' \in [Node -> [Addr -> Session]]
        /\ addrs' \in [Node -> [Node -> Addr \cup {NoAddr}]]
        /\ net' \subseteq Packet /\ ephs' \in Nat /\ online' = online
    <3>1. CASE \E a \in AddrOf[c] : Initiate(n, a, c)
      <4>1. PICK a \in AddrOf[c] : Initiate(n, a, c)
        BY <3>1
      <4>2. a \in Addr
        BY <2>2, MessengerAssumption DEF MessengerAssumption
      <4> QED BY <1>0, <2>2, <4>1, <4>2, InitiateTypes
    <3>2. CASE /\ net' = IF b # NoAddr /\ Connected(peers[n][b])
                         THEN net \cup Flush(n, b, peers[n][b], {o}) ELSE net
               /\ UNCHANGED <<sessionVars, ephs>>
      <4>1. o \in Entry
        BY <1>0, <2>2, <2>3 DEF TypeOK, Entry
      <4>2. b # NoAddr => b \in Addr /\ peers[n][b] \in Session
        BY <1>0, <2>2 DEF TypeOK
      <4>3. {o} \in SUBSET Entry /\ at \in [Node -> Addr] /\ net \subseteq Packet
        BY <1>0, <4>1 DEF TypeOK
      <4> HIDE DEF o, b
      <4>4. b # NoAddr => Flush(n, b, peers[n][b], {o}) \subseteq Packet
        BY <4>2, <4>3, FlushTypes
      <4>5. net' \subseteq Packet
        BY <3>2, <4>3, <4>4
      <4> QED BY <1>0, <3>2, <4>5 DEF sessionVars, TypeOK
    <3> QED BY <2>1, <3>1, <3>2
  <2> HIDE DEF m, b, o
  <2> QED BY <1>0, <1>2, <2>4, <2>5 DEF SendMessage, TypeInv, TypeOK, procVars
<1>3. ASSUME RetryOutbox(n) PROVE TypeInv'
  <2>1. PICK c \in Node : /\ addrs[n][c] # NoAddr
                          /\ net' = net \cup Flush(n, addrs[n][c], peers[n][addrs[n][c]],
                                                   outbox[n][c])
    BY <1>3 DEF RetryOutbox
  <2>2. /\ addrs[n][c] \in Addr /\ peers[n][addrs[n][c]] \in Session
        /\ outbox[n][c] \in SUBSET Entry /\ at \in [Node -> Addr]
    BY <1>0, <2>1 DEF TypeOK
  <2>3. net' \subseteq Packet
    BY <1>0, <2>1, <2>2, FlushTypes DEF TypeOK
  <2> QED BY <1>0, <1>3, <2>3 DEF RetryOutbox, TypeInv, TypeOK, SeqsBelowNext,
                                  sessionVars, chatVars, procVars
<1>4. ASSUME Keepalive(n) PROVE TypeInv'
  <2>1. \A a \in Addr : Ack(at[n], a, EncryptKey(peers[n][a]), 0) \in Packet
    BY <1>0, PacketTypes, KeyTypes DEF TypeOK
  <2>2. net' \subseteq Packet
    BY <1>0, <1>4, <2>1 DEF Keepalive, TypeOK
  <2> QED BY <1>0, <1>4, <2>2 DEF Keepalive, TypeInv, TypeOK, SeqsBelowNext,
                                  sessionVars, chatVars, procVars
<1>5. ASSUME PeerTimeout(n) PROVE TypeInv'
  <2>1. PICK a \in Addr : Drop(n, a)
    BY <1>5 DEF PeerTimeout
  <2>2. /\ peers' \in [Node -> [Addr -> Session]]
        /\ addrs' \in [Node -> [Node -> Addr \cup {NoAddr}]]
        /\ online' \in [Node -> SUBSET Node]
    BY <1>0, <2>1, DropTypes
  <2> QED BY <1>0, <1>5, <2>2 DEF PeerTimeout, TypeInv, TypeOK, SeqsBelowNext, chatVars, procVars
<1> QED BY <1>1, <1>2, <1>3, <1>4, <1>5

LEMMA AnswerTypes ==
  ASSUME TypeOK, NEW n \in Node, NEW p \in net, p.type = "HELLO", Answer(n, p)
  PROVE  /\ peers' \in [Node -> [Addr -> Session]]
         /\ net' \subseteq Packet /\ ephs' \in Nat
<1> DEFINE s == Answered(n, p.src, p.eph)
<1>1. p.src \in Addr /\ p.eph \in Eph
  BY ReceivedTypes
<1>2. s \in Session
  BY <1>1, SessionTypes DEF TypeOK
<1>3. s.mine \in Eph /\ s.key \in Key /\ at[n] \in Addr
  BY <1>2 DEF Session, TypeOK
<1>4. Hello(at[n], p.src, s.mine) \in Packet /\ Ident(at[n], p.src, s.key, n) \in Packet
  BY <1>1, <1>3, PacketTypes
<1>5. peers' = [peers EXCEPT ![n][p.src] = s] /\ ephs' = ephs + 1
      /\ net' = net \cup {Hello(at[n], p.src, s.mine), Ident(at[n], p.src, s.key, n)}
  BY DEF Answer
<1> HIDE DEF s
<1> QED BY <1>1, <1>2, <1>4, <1>5 DEF TypeOK

LEMMA HandshakeTypeInv ==
  ASSUME MessengerAssumption, TypeInv, NEW n \in Node,
         RecvHello(n) \/ RecvIdentity(n) \/ RecvConfirm(n) \/ RecvBye(n)
  PROVE  TypeInv'
<1>0. TypeOK /\ SeqsBelowNext
  BY DEF TypeInv
<1>1. ASSUME RecvHello(n) PROVE TypeInv'
  <2>1. PICK p \in net : /\ Receives(n, p, "HELLO")
                         /\ HelloResponse(n, p) \/ HelloRestart(n, p) \/ HelloIncoming(n, p)
    BY <1>1 DEF RecvHello
  <2>2. p.type = "HELLO" /\ p.src \in Addr /\ p.eph \in Eph
    BY <1>0, <2>1, ReceivedTypes DEF Receives
  <2>3. /\ peers' \in [Node -> [Addr -> Session]]
        /\ addrs' \in [Node -> [Node -> Addr \cup {NoAddr}]]
        /\ online' \in [Node -> SUBSET Node]
        /\ net' \subseteq Packet /\ ephs' \in Nat
    <3>1. CASE HelloResponse(n, p)
      <4> DEFINE s == Completed(peers[n][p.src], p.eph)
      <4>1. s \in Session
        BY <1>0, <2>2, SessionTypes DEF TypeOK
      <4>2. Ident(at[n], p.src, s.key, n) \in Packet
        BY <1>0, <2>2, <4>1, PacketTypes DEF Session, TypeOK
      <4>3. /\ peers' = [peers EXCEPT ![n][p.src] = s]
            /\ net' = net \cup {Ident(at[n], p.src, s.key, n)}
            /\ UNCHANGED <<addrs, online, ephs>>
        BY <3>1 DEF HelloResponse
      <4> HIDE DEF s
      <4> QED BY <1>0, <2>2, <4>1, <4>2, <4>3 DEF TypeOK
    <3>2. CASE HelloRestart(n, p)
      <4>1. Answer(n, p)
        BY <3>2 DEF HelloRestart
      <4> QED BY <1>0, <2>2, <3>2, <4>1, AnswerTypes DEF HelloRestart, TypeOK
    <3>3. CASE HelloIncoming(n, p)
      <4>1. Answer(n, p)
        BY <3>3 DEF HelloIncoming
      <4> QED BY <1>0, <2>2, <3>3, <4>1, AnswerTypes DEF HelloIncoming, TypeOK
    <3> QED BY <2>1, <3>1, <3>2, <3>3
  <2> QED BY <1>0, <1>1, <2>3 DEF RecvHello, TypeInv, TypeOK, SeqsBelowNext, chatVars, procVars
<1>2. ASSUME RecvIdentity(n) PROVE TypeInv'
  <2>1. PICK p \in net :
          LET s == Identified(n, peers[n][p.src], p.id)
              old == addrs[n][p.id]
          IN  /\ Receives(n, p, "IDENTITY")
              /\ peers' = [peers EXCEPT ![n] = Rehome(@, old, p.src, s)]
              /\ addrs' = [addrs EXCEPT ![n][p.id] = p.src]
              /\ online' = [online EXCEPT ![n] = @ \cup {p.id}]
              /\ net' = net \cup Flush(n, p.src, s, outbox[n][p.id])
                            \cup (IF s.up = NoKey THEN {} ELSE {Confirm(at[n], p.src, s.up)})
    BY <1>2 DEF RecvIdentity
  <2> DEFINE s == Identified(n, peers[n][p.src], p.id)
  <2>2. p.src \in Addr /\ p.id \in Node
    BY <1>0, <2>1, ReceivedTypes DEF Receives
  <2>3. s \in Session
    <3>1. peers[n][p.src] \in Session /\ ephs \in Nat
      BY <1>0, <2>2 DEF TypeOK
    <3> QED BY <2>2, <3>1, SessionTypes
  <2>4. Flush(n, p.src, s, outbox[n][p.id]) \subseteq Packet
    <3>1. outbox[n][p.id] \in SUBSET Entry /\ at \in [Node -> Addr]
      BY <1>0, <2>2 DEF TypeOK
    <3> HIDE DEF s
    <3> QED BY <2>2, <2>3, <3>1, FlushTypes
  <2>5. Confirm(at[n], p.src, s.up) \in Packet
    BY <1>0, <2>2, <2>3, PacketTypes DEF Session, TypeOK
  <2>6. net' \subseteq Packet
    BY <1>0, <2>1, <2>4, <2>5 DEF TypeOK
  <2>7. peers' \in [Node -> [Addr -> Session]]
    <3>1. Rehome(peers[n], addrs[n][p.id], p.src, s) \in [Addr -> Session]
      BY <1>0, <2>3, ConstantTypes DEF Rehome, TypeOK
    <3> QED BY <1>0, <2>1, <3>1 DEF TypeOK
  <2>8. /\ addrs' \in [Node -> [Node -> Addr \cup {NoAddr}]]
        /\ online' \in [Node -> SUBSET Node]
    BY <1>0, <2>1, <2>2 DEF TypeOK
  <2> HIDE DEF s
  <2> QED BY <1>0, <1>2, <2>6, <2>7, <2>8 DEF RecvIdentity, TypeInv, TypeOK, SeqsBelowNext,
                                              chatVars, procVars
<1>3. ASSUME RecvConfirm(n) PROVE TypeInv'
  <2>1. PICK p \in net :
          /\ Receives(n, p, "CONFIRM")
          /\ peers' = [peers EXCEPT ![n][p.src] = AfterDecrypt(peers[n][p.src], p.key)]
    BY <1>3 DEF RecvConfirm
  <2>2. p.src \in Addr /\ p.key \in Key
    BY <1>0, <2>1, ReceivedTypes DEF Receives
  <2>3. AfterDecrypt(peers[n][p.src], p.key) \in Session
    <3>1. peers[n][p.src] \in Session
      BY <1>0, <2>2 DEF TypeOK
    <3> QED BY <2>2, <3>1, KeyTypes
  <2>4. peers' \in [Node -> [Addr -> Session]]
    BY <1>0, <2>1, <2>3 DEF TypeOK
  <2> QED BY <1>0, <1>3, <2>4 DEF RecvConfirm, TypeInv, TypeOK, SeqsBelowNext, chatVars, procVars
<1>4. ASSUME RecvBye(n) PROVE TypeInv'
  <2>1. PICK p \in net : Receives(n, p, "BYE") /\ Drop(n, p.src)
    BY <1>4 DEF RecvBye
  <2>2. /\ peers' \in [Node -> [Addr -> Session]]
        /\ addrs' \in [Node -> [Node -> Addr \cup {NoAddr}]]
        /\ online' \in [Node -> SUBSET Node]
    BY <1>0, <2>1, DropTypes, ReceivedTypes
  <2> QED BY <1>0, <1>4, <2>2 DEF RecvBye, TypeInv, TypeOK, SeqsBelowNext, chatVars, procVars
<1> QED BY <1>1, <1>2, <1>3, <1>4

LEMMA ChatTypeInv ==
  ASSUME MessengerAssumption, TypeInv, NEW n \in Node, RecvChat(n) \/ RecvAck(n)
  PROVE  TypeInv'
<1>0. TypeOK /\ SeqsBelowNext
  BY DEF TypeInv
<1>1. ASSUME RecvChat(n) PROVE TypeInv'
  <2>1. PICK p \in net :
          LET s == peers[n][p.src]
              t == AfterDecrypt(s, p.key)
              r == [msg |-> p.msg, cid |-> s.cid, eph |-> p.key.eph]
          IN  /\ Receives(n, p, "CHAT")
              /\ peers' = [peers EXCEPT ![n][p.src] = Remember(t, p.seq)]
              /\ net' = net \cup {Ack(at[n], p.src, EncryptKey(t), p.seq)}
              /\ IF p.seq \in s.seen
                 THEN UNCHANGED <<inbox, repeated>>
                 ELSE /\ inbox' = [inbox EXCEPT ![n] = @ \cup {r}]
                      /\ repeated' = IF r \in inbox[n] THEN repeated \cup {p.msg} ELSE repeated
    BY <1>1 DEF RecvChat
  <2> DEFINE s == peers[n][p.src]
             t == AfterDecrypt(s, p.key)
             r == [msg |-> p.msg, cid |-> s.cid, eph |-> p.key.eph]
  <2>2. p.src \in Addr /\ p.key \in Key /\ p.seq \in Nat /\ p.msg \in Text
    BY <1>0, <2>1, ReceivedTypes DEF Receives
  <2>3. s \in Session
    BY <1>0, <2>2 DEF TypeOK
  <2>4. t \in Session
    BY <2>2, <2>3, KeyTypes
  <2>5. Remember(t, p.seq) \in Session /\ EncryptKey(t) \in Key
    BY <2>2, <2>4, KeyTypes
  <2>6. r \in Receipt
    BY <2>2, <2>3 DEF Receipt, Session, Key
  <2>7. net' \subseteq Packet
    <3>1. Ack(at[n], p.src, EncryptKey(t), p.seq) \in Packet
      BY <1>0, <2>2, <2>5, PacketTypes DEF TypeOK
    <3> QED BY <1>0, <2>1, <3>1 DEF TypeOK
  <2>8. peers' \in [Node -> [Addr -> Session]]
    BY <1>0, <2>1, <2>5 DEF TypeOK
  <2>9. inbox' \in [Node -> SUBSET Receipt] /\ repeated' \subseteq Text
    <3>1. \/ inbox' = inbox
          \/ inbox' = [inbox EXCEPT ![n] = @ \cup {r}]
      BY <2>1
    <3>2. repeated' = repeated \cup {p.msg} \/ repeated' = repeated
      BY <2>1
    <3>3. inbox \in [Node -> SUBSET Receipt] /\ repeated \subseteq Text
      BY <1>0 DEF TypeOK
    <3> HIDE DEF r
    <3> QED BY <2>2, <2>6, <3>1, <3>2, <3>3
  <2> HIDE DEF s, t, r
  <2> QED BY <1>0, <1>1, <2>7, <2>8, <2>9 DEF RecvChat, TypeInv, TypeOK, SeqsBelowNext, procVars
<1>2. ASSUME RecvAck(n) PROVE TypeInv'
  <2>1. PICK p \in net :
          LET s == peers[n][p.src]
          IN  /\ Receives(n, p, "ACK")
              /\ peers' = [peers EXCEPT ![n][p.src] = AfterDecrypt(s, p.key)]
              /\ outbox' = IF p.seq = 0 \/ s.cid = NoNode THEN outbox
                           ELSE [outbox EXCEPT ![n][s.cid] = Unqueue(@, p.seq)]
    BY <1>2 DEF RecvAck
  <2>2. p.src \in Addr /\ p.key \in Key
    BY <1>0, <2>1, ReceivedTypes DEF Receives
  <2>3. AfterDecrypt(peers[n][p.src], p.key) \in Session
    <3>1. peers[n][p.src] \in Session
      BY <1>0, <2>2 DEF TypeOK
    <3> QED BY <2>2, <3>1, KeyTypes
  <2>4. peers' \in [Node -> [Addr -> Session]]
    BY <1>0, <2>1, <2>3 DEF TypeOK
  <2>5. /\ outbox' \in [Node -> [Node -> SUBSET Entry]]
        /\ \A k, c \in Node : outbox'[k][c] \subseteq outbox[k][c]
    <3>1. outbox \in [Node -> [Node -> SUBSET Entry]]
      BY <1>0 DEF TypeOK
    <3> DEFINE d == peers[n][p.src].cid
    <3>2. outbox' = outbox \/ outbox' = [outbox EXCEPT ![n][d] = Unqueue(@, p.seq)]
      BY <2>1
    <3>3. d \in Node => Unqueue(outbox[n][d], p.seq) \subseteq outbox[n][d]
      BY DEF Unqueue
    <3> HIDE DEF d
    <3>4. CASE outbox' = outbox
      BY <3>1, <3>4
    <3>5. CASE outbox' = [outbox EXCEPT ![n][d] = Unqueue(@, p.seq)] /\ d \in Node
      <4>1. Unqueue(outbox[n][d], p.seq) \in SUBSET Entry
        BY <3>1, <3>3, <3>5
      <4>2. outbox' \in [Node -> [Node -> SUBSET Entry]]
        BY <3>1, <3>5, <4>1
      <4>3. \A k, c \in Node :
              outbox'[k][c] = IF k = n /\ c = d THEN Unqueue(outbox[n][d], p.seq) ELSE outbox[k][c]
        BY <3>1, <3>5
      <4> QED BY <3>3, <3>5, <4>2, <4>3
    <3>6. CASE outbox' = [outbox EXCEPT ![n][d] = Unqueue(@, p.seq)] /\ d \notin Node
      <4>1. outbox' = outbox
        BY <3>1, <3>6
      <4> QED BY <3>1, <4>1
    <3> QED BY <3>2, <3>4, <3>5, <3>6
  <2>6. nextSeq' = nextSeq
    BY <1>2 DEF RecvAck
  <2>7. SeqsBelowNext'
    BY <1>0, <2>5, <2>6 DEF SeqsBelowNext
  <2> QED BY <1>0, <1>2, <2>4, <2>5, <2>7 DEF RecvAck, TypeInv, TypeOK, procVars
<1> QED BY <1>1, <1>2

LEMMA StepTypeInv == MessengerAssumption /\ TypeInv /\ [Next]_vars => TypeInv'
<1> SUFFICES ASSUME MessengerAssumption, TypeInv, [Next]_vars PROVE TypeInv'
  OBVIOUS
<1>1. CASE UNCHANGED vars
  BY <1>1 DEF vars, TypeInv, TypeOK, SeqsBelowNext
<1>2. CASE Next
  <2>1. PICK n \in Node :
           \/ Start(n) \/ Crash(n) \/ Shutdown(n) \/ Move(n)
           \/ YieldSocket(n) \/ ReclaimSocket(n)
           \/ Connect(n) \/ SendMessage(n) \/ RetryOutbox(n) \/ Keepalive(n) \/ PeerTimeout(n)
           \/ RecvHello(n) \/ RecvIdentity(n) \/ RecvConfirm(n)
           \/ RecvChat(n) \/ RecvAck(n) \/ RecvBye(n)
    BY <1>2 DEF Next
  <2> QED BY <2>1, LifecycleTypeInv, CallTypeInv, CommandTypeInv, HandshakeTypeInv, ChatTypeInv
<1> QED BY <1>1, <1>2

(* Type correctness, for any users, contacts, addresses (reused or not) and
   bounds: in particular no session is ever half-built, and the numbers a
   restarted daemon hands out are above all those still in its outboxes. *)
THEOREM TypeCorrect == Spec => []TypeOK
<1>1. Init => TypeInv
  BY InitTypeInv, MessengerAssumption
<1>2. TypeInv /\ [Next]_vars => TypeInv'
  BY StepTypeInv, MessengerAssumption
<1>3. TypeInv => TypeOK
  BY DEF TypeInv
<1> QED BY <1>1, <1>2, <1>3, PTL DEF Spec

----------------------------------------------------------------------------
(* Sessions: each transition of session.rs keeps SessionOK. *)

LEMMA HostUnique ==
  ASSUME AddressesNotReused, NEW m \in Node, NEW n \in Node, NEW a \in AddrOf[m], a \in AddrOf[n]
  PROVE  m = n
BY DEF AddressesNotReused

LEMMA NewSessionOK ==
  ASSUME ephs \in Nat, NEW n \in Node, NEW a \in Addr, a \notin AddrOf[n]
  PROVE  /\ \A c \in Node : a \in AddrOf[c] => SessionOK(n, a, Initiated(n, a, c), ephs + 1)
         /\ \A e \in Eph : e.node # n /\ e.no <= ephs =>
               SessionOK(n, a, Answered(n, a, e), ephs + 1)
<1> DEFINE e0 == NewEph(n, a)
<1>1. e0.node = n /\ e0.addr = a /\ e0.no = ephs + 1 /\ e0.no <= ephs + 1
  BY DEF NewEph
<1>2. ASSUME NEW c \in Node, a \in AddrOf[c]
      PROVE  SessionOK(n, a, Initiated(n, a, c), ephs + 1)
  <2> DEFINE s == Initiated(n, a, c)
  <2>1. /\ s.st = "hello" /\ s.cid = c /\ s.mine = e0 /\ s.key = NoKey /\ s.up = NoKey
        /\ s.seen = {} /\ s.conf = FALSE
    BY DEF Initiated, NoSession
  <2>2. s.key.ids = {}
    BY <2>1 DEF NoKey
  <2> HIDE DEF s, e0
  <2>3. SessionOK(n, a, s, ephs + 1)
    BY <1>1, <1>2, <2>1, <2>2 DEF SessionOK, Connected
  <2> QED BY <2>3 DEF s
<1>3. ASSUME NEW e \in Eph, e.node # n, e.no <= ephs
      PROVE  SessionOK(n, a, Answered(n, a, e), ephs + 1)
  <2> DEFINE s == Answered(n, a, e)
  <2>1. /\ s.st = "identity" /\ s.cid = NoNode /\ s.mine = e0 /\ s.key = BaseKey({e0, e})
        /\ s.up = NoKey /\ s.seen = {} /\ s.conf = FALSE /\ s.shared = {e0, e}
    BY DEF Answered, NoSession
  <2>2. s.key.ids = {} /\ s.key.eph = {e0, e}
    BY <2>1 DEF BaseKey
  <2>3. e.no <= ephs + 1
    BY <1>3 DEF Eph
  <2> HIDE DEF s, e0
  <2>4. SessionOK(n, a, s, ephs + 1)
    BY <1>1, <1>3, <2>1, <2>2, <2>3 DEF SessionOK, Connected
  <2> QED BY <2>4 DEF s
<1> QED BY <1>2, <1>3

LEMMA CompletedOK ==
  ASSUME NEW n \in Node, NEW a \in Addr, NEW k \in Nat, NEW s \in Session, SessionOK(n, a, s, k),
         s.st = "hello", NEW e \in Eph, e.node # n, e.no <= k
  PROVE  SessionOK(n, a, Completed(s, e), k)
<1> DEFINE t == Completed(s, e)
<1>1. /\ t.st = "identity" /\ t.cid = s.cid /\ t.mine = s.mine /\ t.key = BaseKey({s.mine, e})
      /\ t.shared = {s.mine, e} /\ t.up = NoKey /\ t.conf = FALSE /\ t.seen = s.seen
  BY DEF Completed, Session
<1>2. t.key.ids = {} /\ t.key.eph = {s.mine, e}
  BY <1>1 DEF BaseKey
<1> HIDE DEF t
<1>3. SessionOK(n, a, t, k)
  BY <1>1, <1>2 DEF SessionOK, Connected
<1> QED BY <1>3 DEF t

LEMMA IdentifiedOK ==
  ASSUME MessengerAssumption, NEW n \in Node, NEW a \in Addr, NEW k \in Nat, NEW s \in Session,
         SessionOK(n, a, s, k), s.st = "identity", NEW c \in Node, a \in AddrOf[c]
  PROVE  LET t == Identified(n, s, c)
         IN  /\ SessionOK(n, a, t, k)
             /\ Connected(t) /\ t.cid = c /\ t.mine = s.mine /\ t.key = s.key /\ t.seen = {}
<1> DEFINE t == Identified(n, s, c)
<1>1. /\ t.st = "connected" /\ t.cid = c /\ t.mine = s.mine /\ t.key = s.key
      /\ t.conf = s.conf /\ t.seen = s.seen
      /\ t.up = IF s.shared # {} /\ c \in Contacts[n]
                THEN UpgradedKey(s.shared, n, c) ELSE s.up
  BY DEF Identified, Session
<1>2. /\ s.conf = FALSE /\ s.seen = {} /\ s.up = NoKey /\ s.shared = s.key.eph /\ s.key.eph # {}
  BY DEF SessionOK, Connected, Session
<1>3. t.up # NoKey => t.up.eph = t.key.eph
  BY <1>1, <1>2 DEF UpgradedKey
<1>4. c \in Contacts[n] => EncryptKey(t).ids = {n, c}
  <2>1. ASSUME c \in Contacts[n] PROVE t.up = UpgradedKey(s.shared, n, c)
    BY <1>1, <1>2, <2>1
  <2>2. UpgradedKey(s.shared, n, c).ids = {n, c} /\ NoKey.ids = {}
    BY DEF UpgradedKey, NoKey
  <2>3. c \in Contacts[n] => t.up # NoKey
    BY <2>1, <2>2
  <2> HIDE DEF t
  <2> QED BY <1>1, <1>2, <2>1, <2>2, <2>3 DEF EncryptKey
<1>5. c # NoNode
  BY DEF MessengerAssumption
<1> HIDE DEF t
<1>6. SessionOK(n, a, t, k)
  BY <1>1, <1>2, <1>3, <1>4, <1>5 DEF SessionOK, Connected
<1> QED BY <1>1, <1>2, <1>6 DEF t, Connected

LEMMA DecryptedOK ==
  ASSUME NEW n \in Node, NEW a \in Addr, NEW k \in Nat, NEW s \in Session,
         SessionOK(n, a, s, k), NEW q \in Key
  PROVE  LET t == AfterDecrypt(s, q)
         IN  /\ SessionOK(n, a, t, k)
             /\ t.st = s.st /\ t.cid = s.cid /\ t.mine = s.mine /\ t.key.eph = s.key.eph
             /\ t.seen = s.seen
<1> DEFINE t == AfterDecrypt(s, q)
<1>1. CASE s.up # NoKey /\ q = s.up /\ ~s.conf
  <2>1. /\ t.st = s.st /\ t.cid = s.cid /\ t.mine = s.mine /\ t.seen = s.seen
        /\ t.shared = s.shared /\ t.key = s.up /\ t.up = NoKey /\ t.conf = TRUE
    BY <1>1 DEF AfterDecrypt, Session
  <2>2. t.key.eph = s.key.eph /\ Connected(s) /\ s.st = "connected"
    BY <1>1, <2>1 DEF SessionOK, Connected
  <2>3. EncryptKey(t) = EncryptKey(s)
    BY <1>1, <2>1 DEF EncryptKey
  <2> HIDE DEF t
  <2>4. SessionOK(n, a, t, k)
    BY <2>1, <2>2, <2>3 DEF SessionOK, Connected
  <2> QED BY <2>1, <2>2, <2>4 DEF t
<1>2. CASE ~(s.up # NoKey /\ q = s.up /\ ~s.conf)
  BY <1>2 DEF AfterDecrypt
<1> QED BY <1>1, <1>2

LEMMA RememberedOK ==
  ASSUME NEW n \in Node, NEW a \in Addr, NEW k \in Nat, NEW s \in Session,
         SessionOK(n, a, s, k), Connected(s), NEW i \in Nat
  PROVE  LET t == Remember(s, i)
         IN  /\ SessionOK(n, a, t, k)
             /\ t.st = s.st /\ t.cid = s.cid /\ t.mine = s.mine /\ t.key = s.key
             /\ t.seen = s.seen \cup {i}
<1> DEFINE t == Remember(s, i)
<1>1. /\ t.st = s.st /\ t.cid = s.cid /\ t.mine = s.mine /\ t.seen = s.seen \cup {i}
      /\ t.shared = s.shared /\ t.key = s.key /\ t.up = s.up /\ t.conf = s.conf
  BY DEF Remember, Session
<1>2. EncryptKey(t) = EncryptKey(s)
  BY <1>1 DEF EncryptKey
<1> HIDE DEF t
<1>3. SessionOK(n, a, t, k)
  BY <1>1, <1>2 DEF SessionOK, Connected
<1> QED BY <1>1, <1>3 DEF t

LEMMA SessionMonotone ==
  ASSUME NEW n \in Node, NEW a \in Addr, NEW k \in Nat, NEW l \in Nat, k <= l,
         NEW s \in Session, SessionOK(n, a, s, k)
  PROVE  SessionOK(n, a, s, l)
<1>1. s.mine.no \in Nat /\ \A f \in s.key.eph : f.no \in Nat
  BY DEF Session, Eph, Key
<1> QED BY <1>1 DEF SessionOK

(* A key the session can decrypt with, and the one it encrypts with, are of its
   own key exchange. *)
LEMMA KeysOfSession ==
  ASSUME NEW n \in Node, NEW a \in Addr, NEW k \in Nat, NEW s \in Session, SessionOK(n, a, s, k)
  PROVE  /\ EncryptKey(s).eph = s.key.eph
         /\ \A q \in Key : CanDecrypt(s, q) => q.eph = s.key.eph /\ s.mine \in q.eph
<1>1. s.st = "hello" => s.key = NoKey /\ s.up = NoKey
  BY DEF SessionOK, Connected
<1>2. s.st # "hello" => s.mine \in s.key.eph
  BY DEF SessionOK
<1> QED BY <1>1, <1>2 DEF SessionOK, EncryptKey, CanDecrypt

----------------------------------------------------------------------------
(* What every step does to sessions, outboxes and the network.  The history
   part of IInv follows from these facts alone. *)

\* A session is gone, newly begun, or the same one further on.
Continues(s, t) ==
  /\ s.st # "none" /\ t.st # "none" /\ t.mine = s.mine
  /\ Connected(s) => Connected(t) /\ t.cid = s.cid /\ t.key.eph = s.key.eph

PeersStep ==
  \A n \in Node, a \in Addr :
     \/ peers'[n][a] = NoSession
     \/ peers'[n][a].mine.no = ephs + 1
     \/ Continues(peers[n][a], peers'[n][a])

\* While a session lives, the outboxes only gain new numbers.
BoxStep ==
  \A n, c \in Node :
     \/ \A a \in Addr : peers'[n][a] = NoSession
     \/ /\ nextSeq[n][c] <= nextSeq'[n][c]
        /\ \A o \in outbox'[n][c] : o \in outbox[n][c] \/ o.seq = nextSeq[n][c]

\* A new CHAT takes an outbox entry to the contact of a connected session.
ChatStep ==
  \A p \in Chats' : p \in Chats \/
     \E n \in Node, a \in Addr :
        LET s == peers'[n][a]
        IN  /\ Connected(s) /\ s.cid \in Node
            /\ \E o \in outbox'[n][s.cid] : p = Chat(at[n], a, EncryptKey(s), o)

\* ShownAs after the step, for an exchange E given as it is after the step.
ShownNext(E, from, to, i) ==
  \E p \in Chats' : /\ p.key.eph = E /\ p.seq = i
                    /\ p.msg.from = from /\ p.msg.to = to
                    /\ \E r \in inbox'[to] : r.msg = p.msg /\ r.eph = E

\* A number newly seen, or acknowledged, is that of a message shown.
SeenStep ==
  \A n \in Node, a \in Addr : \A i \in peers'[n][a].seen :
     \/ i \in peers[n][a].seen /\ peers'[n][a].key.eph = peers[n][a].key.eph
     \/ \E m \in Node : a \in AddrOf[m] /\ ShownNext(peers'[n][a].key.eph, m, n, i)

AckStep ==
  \A p \in net' : p.type = "ACK" /\ p.seq # 0 =>
     \/ p \in net
     \/ \E m, n \in Node : p.dst \in AddrOf[m] /\ ShownNext(p.key.eph, m, n, p.seq)

Grows ==
  /\ net \subseteq net' /\ ephs <= ephs'
  /\ \A n \in Node : inbox[n] \subseteq inbox'[n]

LEMMA ChatPacket ==
  ASSUME TypeOK, NEW p \in Chats
  PROVE  /\ p \in net /\ p.type = "CHAT" /\ p.src \in Addr /\ p.dst \in Addr
         /\ p.key \in Key /\ p.key.eph \in SUBSET Eph /\ p.seq \in Nat
         /\ p.msg \in Text /\ p.msg.from \in Node /\ p.msg.to \in Node
<1>1. p \in net /\ p.type = "CHAT"
  BY DEF Chats
<1> QED BY <1>1, ReceivedTypes DEF Text, Key

LEMMA ShownMonotone ==
  ASSUME TypeOK, Grows, NEW E, NEW m, NEW n \in Node, NEW i, ShownAs(E, m, n, i)
  PROVE  ShownNext(E, m, n, i)
<1>1. PICK p \in Chats : /\ p.key.eph = E /\ p.seq = i
                         /\ p.msg.from = m /\ p.msg.to = n
                         /\ \E r \in inbox[n] : r.msg = p.msg /\ r.eph = E
  BY DEF ShownAs
<1>2. p \in Chats'
  BY DEF Chats, Grows
<1>3. \E r \in inbox'[n] : r.msg = p.msg /\ r.eph = E
  BY <1>1 DEF Grows
<1> QED BY <1>1, <1>2, <1>3 DEF ShownNext

(* The writer, session and outbox entry of a new CHAT. *)
LEMMA NewChat ==
  ASSUME HostsOK, TypeOK, TypeOK', SessionsOK', OutboxOK',
         NEW n \in Node, NEW a \in Addr, Connected(peers'[n][a]), peers'[n][a].cid \in Node,
         NEW o \in outbox'[n][peers'[n][a].cid], NEW p,
         p = Chat(at[n], a, EncryptKey(peers'[n][a]), o)
  PROVE  LET s == peers'[n][a]
         IN  /\ p.msg = o.msg /\ p.msg.from = n /\ p.msg.to = s.cid /\ p.seq = o.seq
             /\ p.key.eph = s.key.eph /\ p.key.ids # {}
             /\ p.src \in AddrOf[n] /\ p.dst = a /\ a \in AddrOf[s.cid]
             /\ s.mine \in p.key.eph /\ s.mine.node = n /\ s.mine.addr = a
             /\ \A f \in p.key.eph : f.no <= ephs' /\ (f = s.mine \/ f.node # n)
<1> DEFINE s == peers'[n][a]
<1>1. p.msg = o.msg /\ p.seq = o.seq /\ p.key = EncryptKey(s) /\ p.src = at[n] /\ p.dst = a
  BY DEF Chat
<1>2. o.msg.from = n /\ o.msg.to = s.cid /\ s.cid \in Contacts[n]
  BY DEF OutboxOK
<1>3. SessionOK(n, a, s, ephs') /\ s \in Session /\ ephs' \in Nat
  BY DEF SessionsOK, Connected, TypeOK
<1>4. EncryptKey(s).eph = s.key.eph
  BY <1>3, KeysOfSession
<1>5. Connected(s) /\ s.cid \in Node /\ at[n] \in AddrOf[n]
  BY DEF HostsOK
<1> HIDE DEF s
<1>6. EncryptKey(s).ids # {} /\ s.mine \in s.key.eph /\ s.mine.node = n /\ s.mine.addr = a
      /\ a \in AddrOf[s.cid]
  BY <1>2, <1>3, <1>5 DEF SessionOK, Connected
<1>7. \A f \in s.key.eph : f.no <= ephs' /\ (f = s.mine \/ f.node # n)
  BY <1>3, <1>5 DEF SessionOK, Connected
<1> QED BY <1>1, <1>2, <1>4, <1>5, <1>6, <1>7 DEF s

LEMMA ChatsStep ==
  ASSUME AddressesNotReused, IInv, TypeInv', SessionsOK', OutboxOK',
         PeersStep, BoxStep, ChatStep, Grows
  PROVE  ChatsOK' /\ ChatsAgree' /\ ChatsMatchOutbox'
<1>0. /\ TypeOK /\ TypeOK' /\ SeqsBelowNext' /\ HostsOK /\ SessionsOK
      /\ ChatsOK /\ ChatsAgree /\ ChatsMatchOutbox
  BY DEF IInv, TypeInv
<1>1. ASSUME NEW p \in Chats', p \notin Chats
      PROVE  \E n \in Node, a \in Addr :
                LET s == peers'[n][a]
                IN  /\ Connected(s) /\ s.cid \in Node
                    /\ \E o \in outbox'[n][s.cid] : p.msg = o.msg /\ p.seq = o.seq
                    /\ p.msg.from = n /\ p.msg.to = s.cid
                    /\ p.key.eph = s.key.eph /\ p.key.ids # {}
                    /\ p.src \in AddrOf[n] /\ p.dst = a /\ a \in AddrOf[s.cid]
                    /\ s.mine \in p.key.eph /\ s.mine.node = n /\ s.mine.addr = a
                    /\ \A f \in p.key.eph : f.no <= ephs' /\ (f = s.mine \/ f.node # n)
  <2>1. PICK n \in Node, a \in Addr :
           /\ Connected(peers'[n][a]) /\ peers'[n][a].cid \in Node
           /\ \E o \in outbox'[n][peers'[n][a].cid] :
                 p = Chat(at[n], a, EncryptKey(peers'[n][a]), o)
    BY <1>1 DEF ChatStep
  <2>2. PICK o \in outbox'[n][peers'[n][a].cid] :
                 p = Chat(at[n], a, EncryptKey(peers'[n][a]), o)
    BY <2>1
  <2>3. LET s == peers'[n][a]
         IN  /\ p.msg = o.msg /\ p.msg.from = n /\ p.msg.to = s.cid /\ p.seq = o.seq
             /\ p.key.eph = s.key.eph /\ p.key.ids # {}
             /\ p.src \in AddrOf[n] /\ p.dst = a /\ a \in AddrOf[s.cid]
             /\ s.mine \in p.key.eph /\ s.mine.node = n /\ s.mine.addr = a
             /\ \A f \in p.key.eph : f.no <= ephs' /\ (f = s.mine \/ f.node # n)
    BY <1>0, <2>1, <2>2, NewChat
  <2> QED BY <2>1, <2>2, <2>3
<1>2. ChatsOK'
  <2> SUFFICES ASSUME NEW p \in Chats' PROVE ChatOK(p)'
    BY DEF ChatsOK
  <2>1. CASE p \in Chats
    <3>1. ephs \in Nat /\ ephs' \in Nat /\ ephs <= ephs'
      BY <1>0 DEF TypeOK, Grows
    <3>2. \A e \in p.key.eph : e.no \in Nat
      BY <1>0, <2>1, ChatPacket DEF Eph
    <3> QED BY <1>0, <2>1, <3>1, <3>2 DEF ChatsOK, ChatOK
  <2>2. CASE p \notin Chats
    BY <1>1, <2>2 DEF ChatOK
  <2> QED BY <2>1, <2>2
<1>3. ChatsMatchOutbox'
  <2> SUFFICES ASSUME NEW p \in Chats', NEW a \in Addr, p.msg.from \in Node,
                      peers'[p.msg.from][a].st # "none", peers'[p.msg.from][a].mine \in p.key.eph
               PROVE  ChatMatches(p.msg.from, peers[p.msg.from][a], p)'
    <3>1. \A p \in Chats' : p.msg.from \in Node
      BY <1>0, <1>1, ChatPacket
    <3> QED BY <3>1 DEF ChatsMatchOutbox
  <2> DEFINE n == p.msg.from
             t == peers'[n][a]
             s == peers[n][a]
  <2>1. CASE p \in Chats
    <3>1. t # NoSession
      BY DEF NoSession
    <3>2. t.mine.no # ephs + 1
      <4>1. t.mine.no <= ephs /\ ephs \in Nat
        BY <1>0, <2>1 DEF ChatsOK, ChatOK, TypeOK
      <4> QED BY <4>1
    <3>3. Continues(s, t)
      BY <3>1, <3>2 DEF PeersStep
    <3>4. ChatMatches(n, s, p)
      BY <1>0, <2>1, <3>3 DEF ChatsMatchOutbox, Continues
    <3>5. Connected(t) /\ t.cid = p.msg.to /\ t.key.eph = p.key.eph /\ s.cid = p.msg.to
      BY <3>3, <3>4 DEF Continues, ChatMatches
    <3>6. p.msg.to \in Node /\ p.seq \in Nat
      BY <1>0, <2>1, ChatPacket
    <3>7. /\ nextSeq[n][p.msg.to] <= nextSeq'[n][p.msg.to]
          /\ \A o \in outbox'[n][p.msg.to] :
                o \in outbox[n][p.msg.to] \/ o.seq = nextSeq[n][p.msg.to]
      BY <3>1, <3>6 DEF BoxStep
    <3>8. p.seq < nextSeq[n][p.msg.to] /\ nextSeq[n][p.msg.to] \in Nat
          /\ nextSeq'[n][p.msg.to] \in Nat
      BY <1>0, <3>4, <3>5, <3>6 DEF ChatMatches, TypeOK
    <3>9. p.seq < nextSeq'[n][p.msg.to] /\ p.seq # nextSeq[n][p.msg.to]
      BY <3>6, <3>7, <3>8
    <3>10. \A o \in outbox'[n][p.msg.to] : o.seq = p.seq => o.msg = p.msg
      BY <3>4, <3>5, <3>7, <3>9 DEF ChatMatches
    <3> QED BY <3>5, <3>9, <3>10 DEF ChatMatches
  <2>2. CASE p \notin Chats
    <3>1. PICK b \in Addr :
             LET q == peers'[n][b]
             IN  /\ Connected(q) /\ q.cid \in Node
                 /\ \E o \in outbox'[n][q.cid] : p.msg = o.msg /\ p.seq = o.seq
                 /\ p.msg.to = q.cid /\ p.key.eph = q.key.eph
                 /\ q.mine.addr = b
                 /\ \A f \in p.key.eph : f = q.mine \/ f.node # n
      BY SMTT(60), <1>1, <2>2
    <3>2. t.mine.node = n /\ t.mine.addr = a
      BY SMTT(20), <1>0 DEF SessionsOK, SessionOK
    <3>3. a = b
      BY <3>1, <3>2
    <3>4. \A o, q \in outbox'[n][t.cid] : o.seq = q.seq => o = q
      BY SMTT(60), <3>1, <3>3 DEF OutboxOK
    <3>5. PICK o \in outbox'[n][t.cid] : p.msg = o.msg /\ p.seq = o.seq
      BY <3>1, <3>3
    <3>6. p.seq < nextSeq'[n][t.cid]
      BY <1>0, <3>1, <3>3, <3>5 DEF SeqsBelowNext
    <3> QED BY ZenonT(40), <3>1, <3>3, <3>4, <3>5, <3>6 DEF ChatMatches
  <2> QED BY <2>1, <2>2
<1>4. ChatsAgree'
  <2>1. ASSUME NEW p \in Chats', NEW q \in Chats', p \notin Chats,
               p.key.eph = q.key.eph, p.msg.from = q.msg.from, p.seq = q.seq
        PROVE  p.msg = q.msg
    <3>1. PICK n \in Node, a \in Addr :
             LET s == peers'[n][a]
             IN  /\ Connected(s)
                 /\ \E o \in outbox'[n][s.cid] : p.msg = o.msg /\ p.seq = o.seq
                 /\ p.msg.from = n /\ s.mine \in p.key.eph
      BY <1>1, <2>1
    <3>2. ChatMatches(n, peers[n][a], q)'
      BY <1>3, <2>1, <3>1 DEF ChatsMatchOutbox, Connected
    <3> QED BY <2>1, <3>1, <3>2 DEF ChatMatches
  <2> QED BY <1>0, <2>1 DEF ChatsAgree
<1> QED BY <1>2, <1>3, <1>4

LEMMA ShownStep ==
  ASSUME IInv, TypeInv', Grows, SeenStep, AckStep
  PROVE  SeenShown' /\ AckedShown'
<1>0. TypeOK /\ TypeOK' /\ SeenShown /\ AckedShown
  BY DEF IInv, TypeInv
<1>1. SeenShown'
  <2> SUFFICES ASSUME NEW n \in Node, NEW a \in Addr, NEW i \in peers'[n][a].seen
               PROVE  \E m \in Node : a \in AddrOf[m] /\ ShownNext(peers'[n][a].key.eph, m, n, i)
    BY DEF SeenShown, ShownAs, ShownNext
  <2>1. CASE i \in peers[n][a].seen /\ peers'[n][a].key.eph = peers[n][a].key.eph
    <3>1. PICK m \in Node : a \in AddrOf[m] /\ ShownAs(peers[n][a].key.eph, m, n, i)
      BY <1>0, <2>1 DEF SeenShown
    <3>2. ShownNext(peers[n][a].key.eph, m, n, i)
      BY <1>0, <3>1, ShownMonotone
    <3> QED BY <2>1, <3>1, <3>2
  <2> QED BY <2>1 DEF SeenStep
<1>2. AckedShown'
  <2> SUFFICES ASSUME NEW p \in net', p.type = "ACK", p.seq # 0
               PROVE  \E m, n \in Node : p.dst \in AddrOf[m] /\ ShownNext(p.key.eph, m, n, p.seq)
    BY DEF AckedShown, ShownAs, ShownNext
  <2>1. CASE p \in net
    <3>1. PICK m \in Node, n \in Node :
             p.dst \in AddrOf[m] /\ ShownAs(p.key.eph, m, n, p.seq)
      BY <1>0, <2>1 DEF AckedShown
    <3>2. ShownNext(p.key.eph, m, n, p.seq)
      BY <1>0, <3>1, ShownMonotone
    <3> QED BY <3>1, <3>2
  <2> QED BY <2>1 DEF AckStep
<1> QED BY <1>1, <1>2

----------------------------------------------------------------------------
(* From the sessions an action changes to SessionsOK and PeersStep. *)

SessionStep(n, a) ==
  LET t == peers'[n][a]
  IN  \/ t = peers[n][a]
      \/ t = NoSession
      \/ /\ SessionOK(n, a, t, ephs')
         /\ t.mine.no = ephs + 1 \/ Continues(peers[n][a], t)

\* A session keeps what it has seen, under the same key exchange, or forgets it.
SeenKept(n, a) ==
  LET t == peers'[n][a]
  IN  t.seen = {} \/ (t.seen = peers[n][a].seen /\ t.key.eph = peers[n][a].key.eph)

LEMMA SessionsStep ==
  ASSUME TypeOK, TypeOK', SessionsOK, ephs <= ephs',
         \A n \in Node, a \in Addr : SessionStep(n, a)
  PROVE  SessionsOK' /\ PeersStep
<1>1. SessionsOK'
  <2> SUFFICES ASSUME NEW n \in Node, NEW a \in Addr
               PROVE  IF peers'[n][a].st = "none" THEN peers'[n][a] = NoSession
                      ELSE SessionOK(n, a, peers'[n][a], ephs')
    BY DEF SessionsOK
  <2>1. CASE peers'[n][a] = peers[n][a]
    <3>1. ephs \in Nat /\ ephs' \in Nat /\ peers[n][a] \in Session
      BY DEF TypeOK
    <3> QED BY <2>1, <3>1, SessionMonotone DEF SessionsOK
  <2>2. CASE peers'[n][a] = NoSession
    BY <2>2 DEF NoSession
  <2>3. CASE SessionOK(n, a, peers'[n][a], ephs')
    BY <2>3 DEF SessionOK
  <2> QED BY <2>1, <2>2, <2>3 DEF SessionStep
<1>2. PeersStep
  <2> SUFFICES ASSUME NEW n \in Node, NEW a \in Addr
               PROVE  \/ peers'[n][a] = NoSession
                      \/ peers'[n][a].mine.no = ephs + 1
                      \/ Continues(peers[n][a], peers'[n][a])
    BY DEF PeersStep
  <2>1. CASE peers'[n][a] = peers[n][a]
    BY <2>1 DEF SessionsOK, Continues
  <2> QED BY <2>1 DEF SessionStep
<1> QED BY <1>1, <1>2

(* Steps that move no message: no CHAT, no ACK of one, no outbox changes. *)
QuietStep ==
  /\ UNCHANGED <<outbox, nextSeq, sent, inbox>>
  /\ net \subseteq net' /\ ephs <= ephs'
  /\ \A p \in net' : p \in net \/ (p.type # "CHAT" /\ (p.type = "ACK" => p.seq = 0))
  /\ \A n \in Node, a \in Addr : SessionStep(n, a) /\ SeenKept(n, a)

LEMMA QuietInv ==
  ASSUME AddressesNotReused, IInv, TypeInv', HostsOK', DownOK', HandshakeOK', QuietStep
  PROVE  IInv' /\ ChatStep
<1>0. /\ TypeOK /\ TypeOK' /\ SeqsBelowNext /\ SessionsOK /\ OutboxOK
      /\ DeliveredAsAddressed /\ NoMessageLost
  BY DEF IInv, TypeInv
<1>1. SessionsOK' /\ PeersStep
  <2>1. ephs <= ephs' /\ \A n \in Node, a \in Addr : SessionStep(n, a)
    BY DEF QuietStep
  <2> QED BY <1>0, <2>1, SessionsStep
<1>2. OutboxOK' /\ DeliveredAsAddressed' /\ NoMessageLost'
  BY <1>0 DEF QuietStep, OutboxOK, DeliveredAsAddressed, NoMessageLost, Queued, Shown
<1>3. BoxStep
  <2>1. \A n, c \in Node : nextSeq[n][c] \in Nat
    BY <1>0 DEF TypeOK
  <2> QED BY <2>1 DEF QuietStep, BoxStep
<1>4. ChatStep /\ AckStep /\ Grows
  BY DEF QuietStep, ChatStep, AckStep, Grows, Chats
<1>5. SeenStep
  BY DEF QuietStep, SeenStep, SeenKept
<1>6. ChatsOK' /\ ChatsAgree' /\ ChatsMatchOutbox'
  BY <1>1, <1>2, <1>3, <1>4, ChatsStep
<1>7. SeenShown' /\ AckedShown'
  BY <1>4, <1>5, ShownStep
<1> QED BY <1>1, <1>2, <1>4, <1>6, <1>7 DEF IInv

----------------------------------------------------------------------------
(* IInv is inductive: one lemma per group of actions. *)

LEMMA InitIInv == MessengerAssumption /\ Init => IInv
<1> SUFFICES ASSUME MessengerAssumption, Init PROVE IInv
  OBVIOUS
<1>1. TypeInv
  BY InitTypeInv
<1>2. /\ \A n \in Node, a \in Addr : peers[n][a] = NoSession
      /\ Chats = {} /\ net = {} /\ sent = {} /\ NoSession.st = "none" /\ NoSession.seen = {}
  BY DEF Init, Chats, NoSession
<1>3. HostsOK /\ OutboxOK /\ DeliveredAsAddressed
  BY DEF Init, HostsOK, OutboxOK, DeliveredAsAddressed
<1>4. SessionsOK /\ DownOK /\ HandshakeOK
  BY <1>2 DEF SessionsOK, DownOK, HandshakeOK
<1>5. ChatsOK /\ ChatsAgree /\ ChatsMatchOutbox /\ SeenShown /\ AckedShown /\ NoMessageLost
  BY <1>2 DEF ChatsOK, ChatsAgree, ChatsMatchOutbox, SeenShown, AckedShown, NoMessageLost
<1> QED BY <1>1, <1>3, <1>4, <1>5 DEF IInv

(* Stopping, moving, and lending the socket only end sessions. *)
LEMMA LifecycleIInv ==
  ASSUME MessengerAssumption, AddressesNotReused, IInv, TypeInv', NEW n \in Node,
         Crash(n) \/ Shutdown(n) \/ Move(n) \/ YieldSocket(n) \/ PeerTimeout(n)
  PROVE  IInv' /\ ChatStep
<1>0. /\ TypeOK /\ TypeOK' /\ HostsOK /\ SessionsOK /\ DownOK /\ HandshakeOK
  BY DEF IInv, TypeInv
<1>1. /\ UNCHANGED <<outbox, nextSeq, sent, inbox, ephs>> /\ net \subseteq net'
      /\ \A p \in net' : p \in net \/ p.type = "BYE"
  BY DEF Crash, Shutdown, Move, YieldSocket, PeerTimeout, Stop, chatVars, Bye
<1>2. \A k \in Node, a \in Addr : peers'[k][a] = peers[k][a] \/ peers'[k][a] = NoSession
  <2>1. peers \in [Node -> [Addr -> Session]]
    BY <1>0 DEF TypeOK
  <2>2. CASE Crash(n) \/ Shutdown(n) \/ YieldSocket(n)
    BY SMTT(20), <2>1, <2>2 DEF Crash, Shutdown, YieldSocket, Stop
  <2>3. CASE Move(n)
    BY <2>3 DEF Move, sessionVars
  <2>4. CASE PeerTimeout(n)
    BY <2>1, <2>4 DEF PeerTimeout, Drop
  <2> QED BY <2>2, <2>3, <2>4
<1>3. QuietStep
  <2>1. NoSession.seen = {} /\ ephs <= ephs'
    BY <1>0, <1>1 DEF NoSession, TypeOK
  <2>2. \A k \in Node, a \in Addr : SessionStep(k, a) /\ SeenKept(k, a)
    BY <1>2, <2>1 DEF SessionStep, SeenKept
  <2>3. \A p \in net' : p \in net \/ (p.type # "CHAT" /\ (p.type = "ACK" => p.seq = 0))
    BY <1>1
  <2> QED BY <1>1, <2>1, <2>2, <2>3 DEF QuietStep
<1>4. HandshakeOK'
  BY <1>0, <1>1 DEF HandshakeOK
<1>5. HostsOK'
  <2>1. CASE Crash(n) \/ Shutdown(n)
    <3>1. /\ addrs' = [addrs EXCEPT ![n] = [c \in Node |-> NoAddr]] /\ at' = at
          /\ saved' = [saved EXCEPT ![n] = {}]
      BY <2>1 DEF Crash, Shutdown, Stop
    <3> QED BY <1>0, <3>1 DEF HostsOK, TypeOK
  <2>2. CASE Move(n)
    BY <1>0, <2>2 DEF Move, sessionVars, HostsOK, TypeOK
  <2>3. CASE YieldSocket(n)
    <3>1. \A a \in Addr : peers[n][a].cid # NoNode =>
             a \in AddrOf[peers[n][a].cid] /\ a \notin AddrOf[n]
      BY <1>0 DEF SessionsOK, SessionOK, NoSession
    <3>2. /\ saved' = [saved EXCEPT ![n] = {<<peers[n][a].cid, a>> :
                                 a \in {b \in Addr : peers[n][b].cid # NoNode}}]
          /\ addrs' = [addrs EXCEPT ![n] = [c \in Node |-> NoAddr]] /\ at' = at
      BY <2>3 DEF YieldSocket
    <3>3. \A x \in saved'[n] : x[2] \in AddrOf[x[1]] /\ x[2] \notin AddrOf[n]
      BY <1>0, <3>1, <3>2 DEF TypeOK
    <3> QED BY <1>0, <3>2, <3>3 DEF HostsOK, TypeOK
  <2>4. CASE PeerTimeout(n)
    BY <1>0, <2>4 DEF PeerTimeout, Drop, Forget, procVars, HostsOK, TypeOK
  <2> QED BY <2>1, <2>2, <2>3, <2>4
<1>6. DownOK'
  <2>1. CASE Crash(n) \/ Shutdown(n)
    <3>1. /\ peers' = [peers EXCEPT ![n] = [a \in Addr |-> NoSession]]
          /\ mode' = [mode EXCEPT ![n] = "down"]
      BY <2>1 DEF Crash, Shutdown, Stop
    <3> QED BY <1>0, <3>1 DEF DownOK, TypeOK
  <2>2. CASE Move(n) \/ PeerTimeout(n) \/ YieldSocket(n)
    BY <1>0, <1>2, <2>2 DEF Move, PeerTimeout, YieldSocket, procVars, DownOK, TypeOK
  <2> QED BY <2>1, <2>2
<1> QED BY <1>3, <1>4, <1>5, <1>6, QuietInv

(* A HELLO of user n for an address that is not its own. *)
LEMMA HelloOK ==
  ASSUME ephs \in Nat, HostsOK, NEW n \in Node, NEW a \in Addr, a \notin AddrOf[n]
  PROVE  LET p == Hello(at[n], a, NewEph(n, a))
         IN  /\ p.type = "HELLO" /\ p.eph.node \in Node /\ p.eph.no <= ephs + 1
             /\ p.src \in AddrOf[p.eph.node] /\ p.dst \notin AddrOf[p.eph.node]
BY DEF Hello, NewEph, HostsOK

(* Starting a session with a contact, and what that leaves of the invariant. *)
LEMMA InitiateOK ==
  ASSUME MessengerAssumption, AddressesNotReused, TypeOK, HostsOK, HandshakeOK,
         NEW n \in Node, NEW c \in Contacts[n], NEW a \in AddrOf[c], Initiate(n, a, c), at' = at,
         saved' = saved
  PROVE  /\ HostsOK' /\ HandshakeOK' /\ ephs' = ephs + 1
         /\ net' = net \cup {Hello(at[n], a, NewEph(n, a))}
         /\ \A k \in Node, b \in Addr : SessionStep(k, b) /\ SeenKept(k, b)
<1>1. /\ c \in Node /\ c # n /\ a \in Addr /\ a \notin AddrOf[n] /\ ephs \in Nat
  BY HostUnique DEF MessengerAssumption, TypeOK
<1>2. /\ ephs' = ephs + 1 /\ peers' = [peers EXCEPT ![n][a] = Initiated(n, a, c)]
      /\ addrs' = [addrs EXCEPT ![n][c] = a]
      /\ net' = net \cup {Hello(at[n], a, NewEph(n, a))}
  BY DEF Initiate
<1>3. HostsOK'
  BY <1>1, <1>2 DEF HostsOK, TypeOK
<1>4. HandshakeOK'
  <2>1. \A p \in net : p.type = "HELLO" => p.eph.no \in Nat
    BY ReceivedTypes DEF Eph
  <2>2. LET p == Hello(at[n], a, NewEph(n, a))
        IN  /\ p.type = "HELLO" /\ p.eph.node \in Node /\ p.eph.no <= ephs + 1
            /\ p.src \in AddrOf[p.eph.node] /\ p.dst \notin AddrOf[p.eph.node]
    BY <1>1, HelloOK
  <2> QED BY <1>1, <1>2, <2>1, <2>2 DEF HandshakeOK
<1>5. \A k \in Node, b \in Addr : SessionStep(k, b) /\ SeenKept(k, b)
  <2> DEFINE t == Initiated(n, a, c)
  <2>1. SessionOK(n, a, t, ephs + 1) /\ t.mine.no = ephs + 1 /\ t.seen = {}
    BY <1>1, NewSessionOK DEF Initiated, NewEph, NoSession
  <2>2. peers \in [Node -> [Addr -> Session]]
    BY DEF TypeOK
  <2> HIDE DEF t
  <2>3. \A k \in Node, b \in Addr :
           IF k = n /\ b = a THEN peers'[k][b] = t ELSE peers'[k][b] = peers[k][b]
    BY <1>1, <1>2, <2>2 DEF t
  <2> QED BY <1>2, <2>1, <2>3 DEF SessionStep, SeenKept
<1> QED BY <1>2, <1>3, <1>4, <1>5

LEMMA ConnectIInv ==
  ASSUME MessengerAssumption, AddressesNotReused, IInv, TypeInv', NEW n \in Node,
         Connect(n) \/ Keepalive(n)
  PROVE  IInv' /\ ChatStep
<1>0. /\ TypeOK /\ TypeOK' /\ HostsOK /\ SessionsOK /\ DownOK /\ HandshakeOK
  BY DEF IInv, TypeInv
<1>1. CASE Connect(n)
  <2>1. PICK c \in Contacts[n] : \E a \in AddrOf[c] : Initiate(n, a, c)
    BY <1>1 DEF Connect
  <2>2. PICK a \in AddrOf[c] : Initiate(n, a, c)
    BY <2>1
  <2>3. UNCHANGED <<outbox, nextSeq, sent, inbox, mode, at, saved>> /\ mode[n] = "up"
    BY <1>1 DEF Connect, chatVars, procVars, Up
  <2>4. /\ HostsOK' /\ HandshakeOK' /\ ephs' = ephs + 1
        /\ net' = net \cup {Hello(at[n], a, NewEph(n, a))}
        /\ \A k \in Node, b \in Addr : SessionStep(k, b) /\ SeenKept(k, b)
    BY <1>0, <2>2, <2>3, InitiateOK
  <2>5. QuietStep
    <3>1. ephs <= ephs' /\ net \subseteq net'
      BY <1>0, <2>4 DEF TypeOK
    <3>2. Hello(at[n], a, NewEph(n, a)).type = "HELLO"
      BY DEF Hello
    <3> QED BY <2>3, <2>4, <3>1, <3>2 DEF QuietStep
  <2>6. DownOK'
    BY <1>0, <2>2, <2>3 DEF Initiate, DownOK, TypeOK
  <2> QED BY <2>4, <2>5, <2>6, QuietInv
<1>2. CASE Keepalive(n)
  <2>1. /\ UNCHANGED <<outbox, nextSeq, sent, inbox, mode, at, saved, peers, addrs, ephs>>
        /\ net \subseteq net'
        /\ \A p \in net' : p \in net \/ (p.type = "ACK" /\ p.seq = 0)
    BY <1>2 DEF Keepalive, sessionVars, chatVars, procVars, Ack
  <2>2. QuietStep
    <3>1. ephs <= ephs' /\ \A k \in Node, b \in Addr : SessionStep(k, b) /\ SeenKept(k, b)
      BY <1>0, <2>1 DEF SessionStep, SeenKept, TypeOK
    <3> QED BY <2>1, <3>1 DEF QuietStep
  <2>3. HostsOK' /\ DownOK' /\ HandshakeOK'
    BY <1>0, <2>1 DEF HostsOK, DownOK, HandshakeOK
  <2> QED BY <2>2, <2>3, QuietInv
<1> QED BY <1>1, <1>2

(* A fresh process keeps its outboxes and may choose another counter: no session
   of the earlier one is left that used the old numbers. *)
LEMMA StartIInv ==
  ASSUME MessengerAssumption, AddressesNotReused, IInv, TypeInv', NEW n \in Node, Start(n)
  PROVE  IInv' /\ ChatStep
<1>0. /\ TypeOK /\ TypeOK' /\ HostsOK /\ SessionsOK /\ DownOK /\ OutboxOK /\ HandshakeOK
      /\ DeliveredAsAddressed /\ NoMessageLost
  BY DEF IInv, TypeInv
<1>1. /\ UNCHANGED <<peers, addrs, outbox, sent, inbox, saved, net, ephs>>
      /\ \A k \in Node : k # n => mode'[k] = mode[k] /\ at'[k] = at[k] /\ nextSeq'[k] = nextSeq[k]
      /\ mode[n] = "down" /\ mode'[n] = "up" /\ at'[n] \in AddrOf[n]
  BY <1>0 DEF Start, sessionVars, TypeOK
<1>2. HostsOK' /\ DownOK' /\ SessionsOK' /\ OutboxOK' /\ HandshakeOK'
  <2>1. HostsOK'
    BY <1>0, <1>1 DEF HostsOK
  <2>2. DownOK'
    BY <1>0, <1>1 DEF DownOK
  <2>3. SessionsOK'
    BY <1>0, <1>1 DEF SessionsOK
  <2>4. OutboxOK' /\ HandshakeOK'
    BY <1>0, <1>1 DEF OutboxOK, HandshakeOK
  <2> QED BY <2>1, <2>2, <2>3, <2>4
<1>3. DeliveredAsAddressed' /\ NoMessageLost'
  BY <1>0, <1>1 DEF DeliveredAsAddressed, NoMessageLost, Queued, Shown
<1>4. PeersStep
  BY <1>0, <1>1 DEF PeersStep, SessionsOK, Continues
<1>5. BoxStep
  <2>1. \A k, c \in Node : nextSeq[k][c] \in Nat
    BY <1>0 DEF TypeOK
  <2> QED BY <1>0, <1>1, <2>1 DEF BoxStep, DownOK
<1>6. ChatStep /\ AckStep /\ SeenStep /\ Grows
  BY <1>0, <1>1 DEF ChatStep, AckStep, SeenStep, Grows, Chats, TypeOK
<1>7. ChatsOK' /\ ChatsAgree' /\ ChatsMatchOutbox'
  BY <1>2, <1>4, <1>5, <1>6, ChatsStep
<1>8. SeenShown' /\ AckedShown'
  BY <1>6, ShownStep
<1> QED BY <1>2, <1>3, <1>6, <1>7, <1>8 DEF IInv

LEMMA ReclaimIInv ==
  ASSUME MessengerAssumption, AddressesNotReused, IInv, TypeInv', NEW n \in Node,
         ReclaimSocket(n)
  PROVE  IInv' /\ ChatStep
<1>0. /\ TypeOK /\ TypeOK' /\ HostsOK /\ SessionsOK /\ DownOK /\ HandshakeOK
  BY DEF IInv, TypeInv
<1>1. PICK pick \in SUBSET saved[n] :
          /\ ephs' = IF pick = {} THEN ephs ELSE ephs + 1
          /\ peers' = [peers EXCEPT ![n] = [a \in Addr |->
                IF \E x \in pick : x[2] = a
                THEN Initiated(n, a, (CHOOSE x \in pick : x[2] = a)[1]) ELSE @[a]]]
          /\ addrs' = [addrs EXCEPT ![n] = [c \in Node |->
                IF \E x \in pick : x[1] = c
                THEN (CHOOSE x \in pick : x[1] = c)[2] ELSE @[c]]]
          /\ net' = net \cup {Hello(at[n], x[2], NewEph(n, x[2])) : x \in pick}
  BY DEF ReclaimSocket
<1>2. /\ UNCHANGED <<outbox, nextSeq, sent, inbox, at>>
      /\ mode' = [mode EXCEPT ![n] = "up"] /\ saved' = [saved EXCEPT ![n] = {}]
  BY DEF ReclaimSocket, chatVars
<1>3. \A x \in pick : /\ x[1] \in Node /\ x[2] \in Addr
                      /\ x[2] \in AddrOf[x[1]] /\ x[2] \notin AddrOf[n]
  BY <1>0 DEF HostsOK, TypeOK
<1>4. /\ peers \in [Node -> [Addr -> Session]] /\ ephs \in Nat
      /\ addrs \in [Node -> [Node -> Addr \cup {NoAddr}]]
      /\ mode \in [Node -> {"up", "yielded", "down"}] /\ saved \in [Node -> SUBSET (Node \X Addr)]
  BY <1>0 DEF TypeOK
<1>5. HostsOK'
  <2>1. ASSUME NEW c \in Node, NEW x \in pick, x[1] = c
        PROVE  (CHOOSE y \in pick : y[1] = c) \in pick /\ (CHOOSE y \in pick : y[1] = c)[1] = c
    BY <2>1
  <2>2. \A c \in Node : addrs'[n][c] # NoAddr => addrs'[n][c] \in AddrOf[c]
    <3> SUFFICES ASSUME NEW c \in Node, addrs'[n][c] # NoAddr PROVE addrs'[n][c] \in AddrOf[c]
      OBVIOUS
    <3> DEFINE y == CHOOSE x \in pick : x[1] = c
    <3>1. addrs'[n][c] = IF \E x \in pick : x[1] = c THEN y[2] ELSE addrs[n][c]
      BY <1>1, <1>4
    <3>2. (\E x \in pick : x[1] = c) => y \in pick /\ y[1] = c
      BY <2>1
    <3> HIDE DEF y
    <3> QED BY <1>0, <1>3, <3>1, <3>2 DEF HostsOK
  <2>3. \A k \in Node : k # n => addrs'[k] = addrs[k] /\ saved'[k] = saved[k]
    BY <1>1, <1>2, <1>4
  <2>4. saved'[n] = {} /\ at' = at
    BY <1>2, <1>4
  <2> QED BY <1>0, <2>2, <2>3, <2>4 DEF HostsOK
<1>6. DownOK'
  BY <1>0, <1>1, <1>2, <1>4 DEF DownOK
<1>7. HandshakeOK'
  <2>1. \A p \in net : p.type = "HELLO" => p.eph.no \in Nat
    BY <1>0, ReceivedTypes DEF Eph
  <2>2. \A x \in pick : LET p == Hello(at[n], x[2], NewEph(n, x[2]))
        IN  /\ p.type = "HELLO" /\ p.eph.node \in Node /\ p.eph.no <= ephs + 1
            /\ p.src \in AddrOf[p.eph.node] /\ p.dst \notin AddrOf[p.eph.node]
    BY <1>0, <1>3, <1>4, HelloOK
  <2> QED BY <1>0, <1>1, <1>4, <2>1, <2>2 DEF HandshakeOK
<1>8. \A k \in Node, a \in Addr : SessionStep(k, a) /\ SeenKept(k, a)
  <2> SUFFICES ASSUME NEW k \in Node, NEW a \in Addr PROVE SessionStep(k, a) /\ SeenKept(k, a)
    OBVIOUS
  <2>1. CASE k = n /\ \E x \in pick : x[2] = a
    <3> DEFINE x == CHOOSE y \in pick : y[2] = a
               t == Initiated(n, a, x[1])
    <3>1. x \in pick /\ x[2] = a
      BY <2>1
    <3>2. x[1] \in Node /\ a \in AddrOf[x[1]] /\ a \notin AddrOf[n]
      BY <1>3, <3>1
    <3>3. peers'[k][a] = t /\ ephs' = ephs + 1
      BY <1>1, <1>4, <2>1
    <3>4. t.mine.no = ephs + 1 /\ t.seen = {}
      BY DEF Initiated, NewEph, NoSession
    <3> HIDE DEF x
    <3>5. SessionOK(n, a, t, ephs + 1)
      BY <1>4, <3>2, NewSessionOK
    <3> QED BY <2>1, <3>3, <3>4, <3>5 DEF SessionStep, SeenKept
  <2>2. CASE ~(k = n /\ \E x \in pick : x[2] = a)
    <3>1. peers'[k][a] = peers[k][a]
      BY <1>1, <1>4, <2>2
    <3> QED BY <3>1 DEF SessionStep, SeenKept
  <2> QED BY <2>1, <2>2
<1>9. QuietStep
  <2>1. net \subseteq net' /\ ephs <= ephs'
    BY <1>1, <1>4
  <2>2. \A x \in pick : Hello(at[n], x[2], NewEph(n, x[2])).type = "HELLO"
    BY DEF Hello
  <2> QED BY <1>1, <1>2, <1>8, <2>1, <2>2 DEF QuietStep
<1> QED BY <1>5, <1>6, <1>7, <1>9, QuietInv

(* A HELLO comes from another user's address. *)
LEMMA ReceivedHello ==
  ASSUME AddressesNotReused, TypeOK, HostsOK, HandshakeOK, MessengerAssumption,
         NEW n \in Node, NEW p \in net, Receives(n, p, "HELLO")
  PROVE  /\ p.type = "HELLO" /\ p.src \in Addr /\ p.src \notin AddrOf[n]
         /\ p.eph \in Eph /\ p.eph.node # n /\ p.eph.no <= ephs
<1>1. p.type = "HELLO" /\ p.dst = at[n]
  BY DEF Receives
<1>2. p.src \in Addr /\ p.eph \in Eph
  BY <1>1, ReceivedTypes
<1>3. /\ p.eph.node \in Node /\ p.eph.no <= ephs
      /\ p.src \in AddrOf[p.eph.node] /\ p.dst \notin AddrOf[p.eph.node]
  BY <1>1 DEF HandshakeOK
<1>4. p.eph.node # n
  BY <1>1, <1>3 DEF HostsOK
<1> QED BY <1>1, <1>2, <1>3, <1>4, HostUnique

LEMMA AnswerOK ==
  ASSUME MessengerAssumption, AddressesNotReused, TypeOK, HostsOK, HandshakeOK,
         NEW n \in Node, NEW p \in net, Receives(n, p, "HELLO"), Answer(n, p)
  PROVE  /\ HandshakeOK' /\ ephs' = ephs + 1 /\ net \subseteq net'
         /\ \A q \in net' : q \in net \/ q.type \in {"HELLO", "IDENTITY"}
         /\ \A k \in Node, b \in Addr : SessionStep(k, b) /\ SeenKept(k, b)
<1> DEFINE t == Answered(n, p.src, p.eph)
<1>1. /\ p.src \in Addr /\ p.src \notin AddrOf[n] /\ ephs \in Nat
      /\ p.eph \in Eph /\ p.eph.node # n /\ p.eph.no <= ephs
  BY ReceivedHello DEF TypeOK
<1>2. /\ ephs' = ephs + 1 /\ peers' = [peers EXCEPT ![n][p.src] = t]
      /\ net' = net \cup {Hello(at[n], p.src, t.mine), Ident(at[n], p.src, t.key, n)}
  BY DEF Answer
<1>3. t.mine = NewEph(n, p.src) /\ t.seen = {} /\ t.mine.no = ephs + 1
  BY DEF Answered, NoSession, NewEph
<1>4. SessionOK(n, p.src, t, ephs + 1)
  BY <1>1, NewSessionOK
<1> HIDE DEF t
<1>5. HandshakeOK'
  <2>1. \A q \in net : q.type = "HELLO" => q.eph.no \in Nat
    BY ReceivedTypes DEF Eph
  <2>2. LET q == Hello(at[n], p.src, t.mine)
        IN  /\ q.type = "HELLO" /\ q.eph.node \in Node /\ q.eph.no <= ephs + 1
            /\ q.src \in AddrOf[q.eph.node] /\ q.dst \notin AddrOf[q.eph.node]
    BY <1>1, <1>3, HelloOK
  <2>3. LET q == Ident(at[n], p.src, t.key, n)
        IN  q.type = "IDENTITY" /\ q.src \in AddrOf[q.id]
    BY DEF Ident, HostsOK
  <2> QED BY <1>1, <1>2, <2>1, <2>2, <2>3 DEF HandshakeOK
<1>6. \A k \in Node, b \in Addr : SessionStep(k, b) /\ SeenKept(k, b)
  <2>1. peers \in [Node -> [Addr -> Session]]
    BY DEF TypeOK
  <2>2. \A k \in Node, b \in Addr :
           IF k = n /\ b = p.src THEN peers'[k][b] = t ELSE peers'[k][b] = peers[k][b]
    BY <1>1, <1>2, <2>1
  <2> QED BY <1>2, <1>3, <1>4, <2>2 DEF SessionStep, SeenKept
<1>7. \A q \in net' : q \in net \/ q.type \in {"HELLO", "IDENTITY"}
  BY <1>2 DEF Hello, Ident
<1> QED BY <1>2, <1>5, <1>6, <1>7

LEMMA HelloIInv ==
  ASSUME MessengerAssumption, AddressesNotReused, IInv, TypeInv', NEW n \in Node,
         RecvHello(n)
  PROVE  IInv' /\ ChatStep
<1>0. /\ TypeOK /\ TypeOK' /\ HostsOK /\ SessionsOK /\ DownOK /\ HandshakeOK
  BY DEF IInv, TypeInv
<1>1. PICK p \in net : /\ Receives(n, p, "HELLO")
                       /\ HelloResponse(n, p) \/ HelloRestart(n, p) \/ HelloIncoming(n, p)
  BY DEF RecvHello
<1>2. /\ UNCHANGED <<outbox, nextSeq, sent, inbox, mode, at, saved>> /\ mode[n] = "up"
  BY <1>1 DEF RecvHello, chatVars, procVars, Receives, Up
<1>3. /\ p.src \in Addr /\ p.src \notin AddrOf[n]
      /\ p.eph \in Eph /\ p.eph.node # n /\ p.eph.no <= ephs
  BY <1>0, <1>1, ReceivedHello
<1>4. HostsOK'
  <2>1. \A k, c \in Node : addrs'[k][c] = addrs[k][c] \/ addrs'[k][c] = NoAddr
    <3>1. addrs \in [Node -> [Node -> Addr \cup {NoAddr}]]
      BY <1>0 DEF TypeOK
    <3>2. CASE HelloRestart(n, p)
      BY <3>1, <3>2 DEF HelloRestart
    <3>3. CASE HelloResponse(n, p) \/ HelloIncoming(n, p)
      BY <3>3 DEF HelloResponse, HelloIncoming
    <3> QED BY <1>1, <3>2, <3>3
  <2> QED BY <1>0, <1>2, <2>1 DEF HostsOK
<1>5. DownOK'
  <2>1. \A k \in Node : k # n => peers'[k] = peers[k]
    BY <1>0, <1>1 DEF HelloResponse, HelloRestart, HelloIncoming, Answer, TypeOK
  <2> QED BY <1>0, <1>2, <2>1 DEF DownOK
<1>6. /\ HandshakeOK' /\ ephs <= ephs' /\ net \subseteq net'
      /\ \A q \in net' : q \in net \/ q.type \in {"HELLO", "IDENTITY"}
      /\ \A k \in Node, b \in Addr : SessionStep(k, b) /\ SeenKept(k, b)
  <2>1. CASE HelloResponse(n, p)
    <3> DEFINE s == peers[n][p.src]
               t == Completed(s, p.eph)
    <3>1. /\ s.st = "hello" /\ peers' = [peers EXCEPT ![n][p.src] = t] /\ ephs' = ephs
          /\ net' = net \cup {Ident(at[n], p.src, t.key, n)}
      BY <2>1 DEF HelloResponse
    <3>2. s \in Session /\ ephs \in Nat /\ peers \in [Node -> [Addr -> Session]]
      BY <1>0, <1>3 DEF TypeOK
    <3>3. SessionOK(n, p.src, s, ephs)
      BY <1>0, <1>3, <3>1 DEF SessionsOK
    <3>4. t.mine = s.mine /\ t.seen = s.seen /\ t.st = "identity"
      BY <3>2 DEF Completed, Session
    <3>5. SessionOK(n, p.src, t, ephs)
      BY <1>3, <3>1, <3>2, <3>3, CompletedOK
    <3> HIDE DEF t
    <3>6. Continues(s, t) /\ t.seen = {}
      BY <3>1, <3>3, <3>4 DEF Continues, Connected, SessionOK
    <3>7. \A k \in Node, b \in Addr :
             IF k = n /\ b = p.src THEN peers'[k][b] = t ELSE peers'[k][b] = peers[k][b]
      BY <1>3, <3>1, <3>2
    <3>8. \A k \in Node, b \in Addr : SessionStep(k, b) /\ SeenKept(k, b)
      BY <3>1, <3>5, <3>6, <3>7 DEF SessionStep, SeenKept
    <3>9. LET q == Ident(at[n], p.src, t.key, n)
          IN  q.type = "IDENTITY" /\ q.src \in AddrOf[q.id]
      BY <1>0 DEF Ident, HostsOK
    <3>10. HandshakeOK'
      BY <1>0, <3>1, <3>9 DEF HandshakeOK
    <3> QED BY <3>1, <3>2, <3>8, <3>9, <3>10
  <2>2. CASE Answer(n, p)
    <3>1. ephs \in Nat
      BY <1>0 DEF TypeOK
    <3> QED BY <1>0, <1>1, <2>2, <3>1, AnswerOK
  <2> QED BY <1>1, <2>1, <2>2 DEF HelloRestart, HelloIncoming
<1>7. QuietStep
  BY <1>2, <1>6 DEF QuietStep
<1> QED BY <1>4, <1>5, <1>6, <1>7, QuietInv

LEMMA ConfirmIInv ==
  ASSUME MessengerAssumption, AddressesNotReused, IInv, TypeInv', NEW n \in Node,
         RecvConfirm(n) \/ RecvBye(n)
  PROVE  IInv' /\ ChatStep
<1>0. /\ TypeOK /\ TypeOK' /\ HostsOK /\ SessionsOK /\ DownOK /\ HandshakeOK
  BY DEF IInv, TypeInv
<1>1. /\ UNCHANGED <<outbox, nextSeq, sent, inbox, mode, at, saved, net, ephs>> /\ mode[n] = "up"
      /\ ephs \in Nat /\ peers \in [Node -> [Addr -> Session]]
  BY <1>0 DEF RecvConfirm, RecvBye, chatVars, procVars, Receives, Up, TypeOK
<1>2. HandshakeOK'
  BY <1>0, <1>1 DEF HandshakeOK
<1>3. CASE RecvConfirm(n)
  <2>1. PICK p \in net :
          /\ Receives(n, p, "CONFIRM") /\ peers[n][p.src].up # NoKey
          /\ peers' = [peers EXCEPT ![n][p.src] = AfterDecrypt(peers[n][p.src], p.key)]
    BY <1>3 DEF RecvConfirm
  <2> DEFINE s == peers[n][p.src]
             t == AfterDecrypt(s, p.key)
  <2>2. p.src \in Addr /\ p.key \in Key /\ s \in Session
    BY <1>0, <1>1, <2>1, ReceivedTypes DEF Receives
  <2>3. SessionOK(n, p.src, s, ephs)
    <3>1. s # NoSession
      BY <2>1 DEF NoSession
    <3> HIDE DEF s
    <3> QED BY <1>0, <2>2, <3>1 DEF SessionsOK, s
  <2>4. /\ SessionOK(n, p.src, t, ephs) /\ t.st = s.st /\ t.cid = s.cid /\ t.mine = s.mine
        /\ t.key.eph = s.key.eph /\ t.seen = s.seen
    BY <1>1, <2>2, <2>3, DecryptedOK
  <2>5. peers' = [peers EXCEPT ![n][p.src] = t]
    BY <2>1
  <2> HIDE DEF t
  <2>6. Continues(s, t)
    BY <2>3, <2>4 DEF Continues, Connected, SessionOK
  <2>7. \A k \in Node, b \in Addr :
           IF k = n /\ b = p.src THEN peers'[k][b] = t ELSE peers'[k][b] = peers[k][b]
    BY <1>1, <2>2, <2>5
  <2>8. \A k \in Node, b \in Addr : SessionStep(k, b) /\ SeenKept(k, b)
    BY <1>1, <2>4, <2>6, <2>7 DEF SessionStep, SeenKept
  <2>9. QuietStep
    BY <1>1, <2>8 DEF QuietStep
  <2>10. HostsOK' /\ DownOK'
    <3>1. addrs' = addrs
      BY <1>3 DEF RecvConfirm
    <3>2. \A k \in Node : k # n => peers'[k] = peers[k]
      BY <1>1, <2>5
    <3> QED BY <1>0, <1>1, <3>1, <3>2 DEF HostsOK, DownOK
  <2> QED BY <1>2, <2>9, <2>10, QuietInv
<1>4. CASE RecvBye(n)
  <2>1. PICK p \in net : Drop(n, p.src)
    BY <1>4 DEF RecvBye
  <2>2. \A k \in Node, b \in Addr : peers'[k][b] = peers[k][b] \/ peers'[k][b] = NoSession
    BY <1>1, <2>1 DEF Drop
  <2>3. QuietStep
    <3>1. NoSession.seen = {}
      BY DEF NoSession
    <3>2. \A k \in Node, b \in Addr : SessionStep(k, b) /\ SeenKept(k, b)
      BY <2>2, <3>1 DEF SessionStep, SeenKept
    <3> QED BY <1>1, <3>2 DEF QuietStep
  <2>4. HostsOK'
    <3>1. \A k, c \in Node : addrs'[k][c] = addrs[k][c] \/ addrs'[k][c] = NoAddr
      BY <1>0, <2>1 DEF Drop, Forget, TypeOK
    <3> QED BY <1>0, <1>1, <3>1 DEF HostsOK
  <2>5. DownOK'
    <3>1. \A k \in Node : k # n => peers'[k] = peers[k]
      BY <1>1, <2>1 DEF Drop
    <3> QED BY <1>0, <1>1, <3>1 DEF DownOK
  <2> QED BY <1>2, <2>3, <2>4, <2>5, QuietInv
<1> QED BY <1>3, <1>4

(* The steps that move messages. *)
LEMMA MessageInv ==
  ASSUME AddressesNotReused, IInv, TypeInv', HostsOK', DownOK', HandshakeOK', OutboxOK',
         DeliveredAsAddressed', NoMessageLost', Grows, BoxStep, ChatStep, SeenStep, AckStep,
         \A n \in Node, a \in Addr : SessionStep(n, a)
  PROVE  IInv' /\ ChatStep
<1>1. TypeOK /\ TypeOK' /\ SessionsOK /\ ephs <= ephs'
  BY DEF IInv, TypeInv, Grows
<1>2. SessionsOK' /\ PeersStep
  BY <1>1, SessionsStep
<1>3. ChatsOK' /\ ChatsAgree' /\ ChatsMatchOutbox'
  BY <1>2, ChatsStep
<1>4. SeenShown' /\ AckedShown'
  BY ShownStep
<1> QED BY <1>2, <1>3, <1>4 DEF IInv

(* The connected session at a contact's address is the contact's. *)
LEMMA SessionOfContact ==
  ASSUME AddressesNotReused, TypeOK, HostsOK, SessionsOK, NEW n \in Node, NEW c \in Node,
         addrs[n][c] # NoAddr, Connected(peers[n][addrs[n][c]])
  PROVE  addrs[n][c] \in Addr /\ peers[n][addrs[n][c]].cid = c
<1> DEFINE a == addrs[n][c]
           s == peers[n][a]
<1>1. a \in Addr /\ a \in AddrOf[c]
  BY DEF HostsOK, TypeOK
<1>2. s \in Session
  BY <1>1 DEF TypeOK
<1>3. SessionOK(n, a, s, ephs)
  BY <1>1 DEF SessionsOK, Connected
<1> HIDE DEF s
<1>4. s.cid \in Node /\ a \in AddrOf[s.cid]
  BY <1>2, <1>3 DEF SessionOK, Session, s
<1> QED BY <1>1, <1>4, HostUnique DEF s

LEMMA RetryIInv ==
  ASSUME MessengerAssumption, AddressesNotReused, IInv, TypeInv', NEW n \in Node,
         RetryOutbox(n)
  PROVE  IInv' /\ ChatStep
<1>0. /\ TypeOK /\ TypeOK' /\ HostsOK /\ SessionsOK /\ DownOK /\ HandshakeOK /\ OutboxOK
      /\ DeliveredAsAddressed /\ NoMessageLost
  BY DEF IInv, TypeInv
<1>1. PICK c \in Node :
        /\ addrs[n][c] # NoAddr /\ Connected(peers[n][addrs[n][c]])
        /\ net' = net \cup Flush(n, addrs[n][c], peers[n][addrs[n][c]], outbox[n][c])
  BY DEF RetryOutbox
<1>2. UNCHANGED <<peers, addrs, online, outbox, nextSeq, sent, inbox, mode, at, saved, ephs>>
  BY DEF RetryOutbox, sessionVars, chatVars, procVars
<1>3. addrs[n][c] \in Addr /\ peers[n][addrs[n][c]].cid = c
  BY <1>0, <1>1, SessionOfContact
<1>4. \A p \in net' : p \in net \/ \E o \in outbox[n][c] :
         p = Chat(at[n], addrs[n][c], EncryptKey(peers[n][addrs[n][c]]), o)
  BY <1>1 DEF Flush
<1>5. \A p \in net' : p \in net \/ p.type = "CHAT"
  BY <1>4 DEF Chat
<1>6. ChatStep
  <2> DEFINE a == addrs[n][c]
             s == peers'[n][a]
  <2>1. a \in Addr /\ Connected(s) /\ s.cid = c
    BY <1>1, <1>2, <1>3
  <2>2. \A p \in Chats' : p \in Chats \/ \E o \in outbox'[n][c] : p = Chat(at[n], a, EncryptKey(s), o)
    BY <1>2, <1>4 DEF Chats
  <2> HIDE DEF a
  <2> QED BY <2>1, <2>2 DEF ChatStep
<1>7. AckStep /\ HandshakeOK'
  BY <1>0, <1>2, <1>5 DEF AckStep, HandshakeOK
<1>8. \A k, d \in Node : nextSeq[k][d] \in Nat /\ ephs \in Nat
  BY <1>0 DEF TypeOK
<1>9. BoxStep /\ SeenStep /\ Grows /\ \A k \in Node, b \in Addr : SessionStep(k, b)
  BY <1>1, <1>2, <1>8 DEF BoxStep, SeenStep, Grows, SessionStep
<1>10. HostsOK' /\ DownOK' /\ OutboxOK' /\ DeliveredAsAddressed' /\ NoMessageLost'
  BY <1>0, <1>2 DEF HostsOK, DownOK, OutboxOK, DeliveredAsAddressed, NoMessageLost, Queued, Shown
<1> QED BY <1>6, <1>7, <1>9, <1>10, MessageInv

(* Queueing a message adds it to the outbox under a number not yet used. *)
LEMMA QueueOK ==
  ASSUME MessengerAssumption, TypeOK, SeqsBelowNext, OutboxOK, NoMessageLost,
         NEW n \in Node, NEW c \in Contacts[n], NEW m \in Text, m.from = n, m.to = c, Queue(n, c, m)
  PROVE  /\ OutboxOK' /\ NoMessageLost' /\ BoxStep /\ inbox' = inbox
         /\ [seq |-> nextSeq[n][c], msg |-> m] \in outbox'[n][c]
<1> DEFINE o == [seq |-> nextSeq[n][c], msg |-> m]
<1>1. /\ c \in Node /\ o.seq = nextSeq[n][c] /\ o.msg = m
      /\ \A k, d \in Node : nextSeq[k][d] \in Nat
      /\ outbox \in [Node -> [Node -> SUBSET Entry]] /\ nextSeq \in [Node -> [Node -> Nat]]
  BY DEF TypeOK, MessengerAssumption
<1>2. /\ outbox' = [outbox EXCEPT ![n][c] = @ \cup {o}]
      /\ nextSeq' = [nextSeq EXCEPT ![n][c] = @ + 1]
      /\ sent' = sent \cup {m} /\ inbox' = inbox
  BY DEF Queue
<1> HIDE DEF o
<1>3. /\ outbox'[n][c] = outbox[n][c] \cup {o}
      /\ \A k, d \in Node : ~(k = n /\ d = c) => outbox'[k][d] = outbox[k][d]
  BY <1>1, <1>2
<1>4. \A q \in outbox[n][c] : q.seq # o.seq
  <2>1. \A q \in outbox[n][c] : q.seq \in Nat /\ q.seq < nextSeq[n][c]
    BY <1>1 DEF SeqsBelowNext, Entry
  <2> QED BY <1>1, <2>1
<1>5. OutboxOK'
  <2> SUFFICES ASSUME NEW k \in Node, NEW d \in Node, NEW q \in outbox'[k][d]
               PROVE  /\ q.msg.from = k /\ q.msg.to = d /\ d \in Contacts[k]
                      /\ \A r \in outbox'[k][d] : r.seq = q.seq => r = q
    BY DEF OutboxOK
  <2>1. ASSUME NEW x \in outbox'[k][d]
        PROVE  x \in outbox[k][d] \/ (k = n /\ d = c /\ x = o)
    <3>1. CASE k = n /\ d = c
      BY <1>3, <2>1, <3>1
    <3>2. CASE ~(k = n /\ d = c)
      BY <1>3, <2>1, <3>2
    <3> QED BY <3>1, <3>2
  <2>2. q.msg.from = k /\ q.msg.to = d /\ d \in Contacts[k]
    BY <1>1, <2>1 DEF OutboxOK
  <2>3. ASSUME NEW r \in outbox'[k][d], r.seq = q.seq PROVE r = q
    BY <1>4, <2>1, <2>3 DEF OutboxOK
  <2> QED BY <2>2, <2>3
<1>6. NoMessageLost'
  <2> SUFFICES ASSUME NEW x \in sent' PROVE Queued(x)' \/ Shown(x)'
    BY DEF NoMessageLost
  <2>1. CASE x = m
    BY <1>1, <1>3, <2>1 DEF Queued
  <2>2. CASE x \in sent
    <3>1. x.from \in Node /\ x.to \in Node
      BY <2>2 DEF TypeOK, Text
    <3>2. Queued(x) \/ Shown(x)
      BY <2>2 DEF NoMessageLost
    <3> QED BY <1>2, <1>3, <3>1, <3>2 DEF Queued, Shown
  <2> QED BY <1>2, <2>1, <2>2
<1>7. BoxStep
  <2>1. \A k, d \in Node : nextSeq[k][d] <= nextSeq'[k][d]
    BY <1>1, <1>2
  <2>2. ASSUME NEW k \in Node, NEW d \in Node, NEW q \in outbox'[k][d]
        PROVE  q \in outbox[k][d] \/ q.seq = nextSeq[k][d]
    <3>1. CASE k = n /\ d = c
      BY <1>1, <1>3, <2>2, <3>1
    <3>2. CASE ~(k = n /\ d = c)
      BY <1>3, <2>2, <3>2
    <3> QED BY <3>1, <3>2
  <2> QED BY <2>1, <2>2 DEF BoxStep
<1>8. o \in outbox'[n][c]
  BY <1>1, <1>3
<1> QED BY <1>2, <1>5, <1>6, <1>7, <1>8 DEF o

LEMMA SendIInv ==
  ASSUME MessengerAssumption, AddressesNotReused, IInv, TypeInv', NEW n \in Node,
         SendMessage(n)
  PROVE  IInv' /\ ChatStep
<1>0. /\ TypeOK /\ TypeOK' /\ SeqsBelowNext /\ HostsOK /\ SessionsOK /\ DownOK /\ HandshakeOK
      /\ OutboxOK /\ DeliveredAsAddressed /\ NoMessageLost
  BY DEF IInv, TypeInv
<1>1. PICK c \in Contacts[n], i \in 1..MaxText[n] :
        LET m == [from |-> n, to |-> c, id |-> i]
            b == addrs[n][c]
        IN  /\ Queue(n, c, m)
            /\ \/ \E a \in AddrOf[c] : Initiate(n, a, c)
               \/ /\ net' = IF b # NoAddr /\ Connected(peers[n][b])
                            THEN net \cup Flush(n, b, peers[n][b],
                                                {[seq |-> nextSeq[n][c], msg |-> m]})
                            ELSE net
                  /\ UNCHANGED <<sessionVars, ephs>>
  BY DEF SendMessage
<1> DEFINE m == [from |-> n, to |-> c, id |-> i]
           b == addrs[n][c]
           o == [seq |-> nextSeq[n][c], msg |-> m]
<1>2. c \in Node /\ i \in Nat /\ m \in Text /\ m.from = n /\ m.to = c
  BY DEF MessengerAssumption, Text
<1>3. OutboxOK' /\ NoMessageLost' /\ BoxStep /\ inbox' = inbox /\ o \in outbox'[n][c]
  <2>1. Queue(n, c, m)
    BY <1>1
  <2> HIDE DEF m
  <2> QED BY <1>0, <1>2, <2>1, QueueOK
<1>4. mode[n] # "down" /\ UNCHANGED <<mode, at, saved>>
  BY DEF SendMessage, procVars
<1>5. DeliveredAsAddressed'
  BY <1>0, <1>3 DEF DeliveredAsAddressed
<1>6. CASE \E a \in AddrOf[c] : Initiate(n, a, c)
  <2>1. PICK a \in AddrOf[c] : Initiate(n, a, c)
    BY <1>6
  <2>2. /\ HostsOK' /\ HandshakeOK' /\ ephs' = ephs + 1
        /\ net' = net \cup {Hello(at[n], a, NewEph(n, a))}
        /\ \A k \in Node, d \in Addr : SessionStep(k, d) /\ SeenKept(k, d)
    BY <1>0, <1>4, <2>1, InitiateOK
  <2>3. DownOK'
    BY <1>0, <1>4, <2>1 DEF Initiate, DownOK, TypeOK
  <2>4. \A p \in net' : p \in net \/ p.type = "HELLO"
    BY <2>2 DEF Hello
  <2>5. ChatStep /\ AckStep
    BY <2>4 DEF ChatStep, AckStep, Chats
  <2>6. SeenStep /\ Grows
    <3>1. ephs <= ephs'
      BY <1>0, <2>2 DEF TypeOK
    <3> QED BY <1>3, <2>2, <3>1 DEF SeenStep, SeenKept, Grows
  <2> QED BY <1>3, <1>5, <2>2, <2>3, <2>5, <2>6, MessageInv
<1>7. CASE /\ net' = IF b # NoAddr /\ Connected(peers[n][b])
                     THEN net \cup Flush(n, b, peers[n][b], {o}) ELSE net
           /\ UNCHANGED <<sessionVars, ephs>>
  <2>1. UNCHANGED <<peers, addrs, ephs>> /\ ephs \in Nat
    BY <1>0, <1>7 DEF sessionVars, TypeOK
  <2>2. \A p \in net' : \/ p \in net
                        \/ /\ b # NoAddr /\ Connected(peers[n][b])
                           /\ p = Chat(at[n], b, EncryptKey(peers[n][b]), o)
    BY <1>7 DEF Flush
  <2>3. b # NoAddr /\ Connected(peers[n][b]) => b \in Addr /\ peers[n][b].cid = c
    BY <1>0, <1>2, SessionOfContact
  <2>4. \A p \in net' : p \in net \/ p.type = "CHAT"
    BY <2>2 DEF Chat
  <2>5. net \subseteq net'
    BY <1>7
  <2> HIDE DEF o, b
  <2>6. ChatStep
    BY <1>2, <1>3, <2>1, <2>2, <2>3 DEF ChatStep, Chats
  <2>7. AckStep /\ HandshakeOK'
    BY <1>0, <2>1, <2>4 DEF AckStep, HandshakeOK
  <2>8. SeenStep /\ Grows /\ \A k \in Node, d \in Addr : SessionStep(k, d)
    BY <1>3, <2>1, <2>5 DEF SeenStep, Grows, SessionStep
  <2>9. HostsOK' /\ DownOK'
    BY <1>0, <1>4, <2>1 DEF HostsOK, DownOK
  <2> QED BY <1>3, <1>5, <2>6, <2>7, <2>8, <2>9, MessageInv
<1> QED BY <1>1, <1>6, <1>7

LEMMA IdentityIInv ==
  ASSUME MessengerAssumption, AddressesNotReused, IInv, TypeInv', NEW n \in Node,
         RecvIdentity(n)
  PROVE  IInv' /\ ChatStep
<1>0. /\ TypeOK /\ TypeOK' /\ HostsOK /\ SessionsOK /\ DownOK /\ HandshakeOK /\ OutboxOK
      /\ DeliveredAsAddressed /\ NoMessageLost
  BY DEF IInv, TypeInv
<1>1. PICK p \in net :
        LET s == Identified(n, peers[n][p.src], p.id)
            old == addrs[n][p.id]
        IN  /\ Receives(n, p, "IDENTITY")
            /\ peers[n][p.src].st = "identity"
            /\ peers' = [peers EXCEPT ![n] = Rehome(@, old, p.src, s)]
            /\ addrs' = [addrs EXCEPT ![n][p.id] = p.src]
            /\ net' = net \cup Flush(n, p.src, s, outbox[n][p.id])
                          \cup (IF s.up = NoKey THEN {} ELSE {Confirm(at[n], p.src, s.up)})
  BY DEF RecvIdentity
<1> DEFINE a == p.src
           c == p.id
           s == peers[n][a]
           t == Identified(n, s, c)
<1>2. /\ UNCHANGED <<outbox, nextSeq, sent, inbox, mode, at, saved, ephs>> /\ mode[n] = "up"
      /\ ephs \in Nat /\ peers \in [Node -> [Addr -> Session]]
      /\ addrs \in [Node -> [Node -> Addr \cup {NoAddr}]]
  BY <1>0, <1>1 DEF RecvIdentity, chatVars, procVars, Receives, Up, TypeOK
<1>3. a \in Addr /\ c \in Node /\ a \in AddrOf[c]
  <2>1. p.type = "IDENTITY"
    BY <1>1 DEF Receives
  <2> QED BY <1>0, <2>1, ReceivedTypes DEF HandshakeOK
<1>4. SessionOK(n, a, s, ephs) /\ s.st = "identity" /\ s \in Session
  BY <1>0, <1>1, <1>2, <1>3 DEF SessionsOK
<1>5. /\ SessionOK(n, a, t, ephs) /\ Connected(t) /\ t.cid = c /\ t.mine = s.mine /\ t.key = s.key
      /\ t.seen = {}
  BY <1>2, <1>3, <1>4, IdentifiedOK
<1>6. /\ peers'[n][a] = t
      /\ \A k \in Node, b \in Addr : \/ k = n /\ b = a
                                     \/ peers'[k][b] = peers[k][b] \/ peers'[k][b] = NoSession
  <2> HIDE DEF t
  <2>1. \E old : peers' = [peers EXCEPT ![n] = Rehome(@, old, a, t)]
    BY <1>1 DEF t
  <2> QED BY <1>2, <1>3, <2>1 DEF Rehome
<1>7. \A q \in net' : \/ q \in net \/ q.type = "CONFIRM"
                      \/ \E o \in outbox[n][c] : q = Chat(at[n], a, EncryptKey(t), o)
  BY <1>1 DEF Flush, Confirm
<1>8. addrs' = [addrs EXCEPT ![n][c] = a] /\ net \subseteq net'
  BY <1>1
<1> HIDE DEF t
<1>9. \A k \in Node, b \in Addr : SessionStep(k, b) /\ SeenKept(k, b)
  <2>1. Continues(s, t) /\ NoSession.seen = {}
    BY <1>4, <1>5 DEF Continues, Connected, NoSession
  <2> QED BY <1>2, <1>5, <1>6, <2>1 DEF SessionStep, SeenKept
<1>10. ChatStep
  <2>1. Connected(peers'[n][a]) /\ peers'[n][a].cid = c
    BY <1>5, <1>6
  <2>2. \A q \in Chats' : q \in Chats \/ \E o \in outbox'[n][c] :
                             q = Chat(at[n], a, EncryptKey(peers'[n][a]), o)
    <3>1. \A q \in Chats' : q \in net' /\ q.type = "CHAT" /\ q.type # "CONFIRM"
      BY DEF Chats
    <3> QED BY <1>2, <1>6, <1>7, <3>1 DEF Chats
  <2> QED BY <1>3, <2>1, <2>2 DEF ChatStep
<1>11. \A q \in net' : q \in net \/ q.type \in {"CONFIRM", "CHAT"}
  BY <1>7 DEF Chat
<1>12. AckStep /\ HandshakeOK'
  BY <1>0, <1>2, <1>11 DEF AckStep, HandshakeOK
<1>13. BoxStep /\ SeenStep /\ Grows
  <2>1. \A k, d \in Node : nextSeq[k][d] \in Nat
    BY <1>0 DEF TypeOK
  <2> QED BY <1>2, <1>8, <1>9, <2>1 DEF BoxStep, SeenStep, SeenKept, Grows
<1>14. HostsOK'
  BY <1>0, <1>2, <1>3, <1>8 DEF HostsOK
<1>15. DownOK' /\ OutboxOK' /\ DeliveredAsAddressed' /\ NoMessageLost'
  <2>1. \A k \in Node : k # n => peers'[k] = peers[k]
    BY <1>1, <1>2
  <2>2. DownOK'
    <3>1. mode' = mode /\ mode[n] = "up" /\ DownOK
      BY <1>0, <1>2
    <3> QED BY <2>1, <3>1 DEF DownOK
  <2> QED BY <1>0, <1>2, <2>2 DEF OutboxOK, DeliveredAsAddressed, NoMessageLost, Queued, Shown
<1> QED BY <1>9, <1>10, <1>12, <1>13, <1>14, <1>15, MessageInv

(* A CHAT or ACK that decrypts belongs to the key exchange of its session. *)
LEMMA Decrypts ==
  ASSUME TypeOK, SessionsOK, NEW n \in Node, NEW a \in Addr, NEW k \in Key,
         CanDecrypt(peers[n][a], k)
  PROVE  LET s == peers[n][a]
             t == AfterDecrypt(s, k)
         IN  /\ s \in Session /\ SessionOK(n, a, s, ephs) /\ k.eph = s.key.eph /\ s.mine \in k.eph
             /\ t \in Session /\ SessionOK(n, a, t, ephs)
             /\ t.st = s.st /\ t.cid = s.cid /\ t.mine = s.mine /\ t.key.eph = s.key.eph
             /\ t.seen = s.seen
             /\ k.ids # {} => Connected(s)
<1> DEFINE s == peers[n][a]
<1>1. s \in Session /\ ephs \in Nat
  BY DEF TypeOK
<1>2. s # NoSession
  BY DEF CanDecrypt, NoSession
<1>3. SessionOK(n, a, s, ephs)
  BY <1>2 DEF SessionsOK
<1>4. CanDecrypt(s, k)
  OBVIOUS
<1> HIDE DEF s
<1>5. k.eph = s.key.eph /\ s.mine \in k.eph
  BY <1>1, <1>3, <1>4, KeysOfSession
<1>6. k.ids # {} => Connected(s)
  BY <1>3, <1>4 DEF SessionOK, CanDecrypt
<1>7. LET t == AfterDecrypt(s, k)
      IN  /\ t \in Session /\ SessionOK(n, a, t, ephs)
          /\ t.st = s.st /\ t.cid = s.cid /\ t.mine = s.mine /\ t.key.eph = s.key.eph
          /\ t.seen = s.seen
  BY <1>1, <1>3, DecryptedOK, KeyTypes
<1> QED BY <1>1, <1>3, <1>5, <1>6, <1>7 DEF s

(* The message of a CHAT was, once received, shown by its addressee n: now, or
   earlier under the same number and exchange, and then it is the same message. *)
LEMMA ChatIInv ==
  ASSUME MessengerAssumption, AddressesNotReused, IInv, TypeInv', NEW n \in Node,
         RecvChat(n)
  PROVE  IInv' /\ ChatStep
<1>0. /\ TypeOK /\ TypeOK' /\ HostsOK /\ SessionsOK /\ DownOK /\ HandshakeOK /\ OutboxOK
      /\ DeliveredAsAddressed /\ NoMessageLost /\ ChatsOK /\ ChatsAgree /\ SeenShown
  BY DEF IInv, TypeInv
<1>1. PICK p \in net :
        LET s == peers[n][p.src]
            t == AfterDecrypt(s, p.key)
            r == [msg |-> p.msg, cid |-> s.cid, eph |-> p.key.eph]
        IN  /\ Receives(n, p, "CHAT")
            /\ CanDecrypt(s, p.key)
            /\ peers' = [peers EXCEPT ![n][p.src] = Remember(t, p.seq)]
            /\ net' = net \cup {Ack(at[n], p.src, EncryptKey(t), p.seq)}
            /\ IF p.seq \in s.seen THEN inbox' = inbox
               ELSE inbox' = [inbox EXCEPT ![n] = @ \cup {r}]
  BY DEF RecvChat
<1> DEFINE a == p.src
           s == peers[n][a]
           t == AfterDecrypt(s, p.key)
           u == Remember(t, p.seq)
           r == [msg |-> p.msg, cid |-> s.cid, eph |-> p.key.eph]
<1>2. /\ UNCHANGED <<addrs, outbox, nextSeq, sent, mode, at, saved, ephs>> /\ mode[n] = "up"
      /\ ephs \in Nat /\ peers \in [Node -> [Addr -> Session]]
      /\ inbox \in [Node -> SUBSET Receipt]
  BY <1>0, <1>1 DEF RecvChat, procVars, Receives, Up, TypeOK
<1>3. /\ p \in Chats /\ p.dst = at[n] /\ a \in Addr /\ p.key \in Key /\ p.seq \in Nat
      /\ p.msg.from \in Node /\ p.msg.to \in Node
      /\ a \in AddrOf[p.msg.from] /\ p.dst \in AddrOf[p.msg.to] /\ p.key.ids # {}
  <2>1. p \in Chats /\ p.dst = at[n]
    BY <1>1 DEF Receives, Chats
  <2> QED BY <1>0, <2>1, ChatPacket DEF ChatsOK, ChatOK
<1>4. p.msg.to = n
  BY <1>0, <1>3, HostUnique DEF HostsOK
<1>5. /\ s \in Session /\ SessionOK(n, a, s, ephs) /\ p.key.eph = s.key.eph /\ Connected(s)
      /\ t \in Session /\ SessionOK(n, a, t, ephs)
      /\ t.st = s.st /\ t.cid = s.cid /\ t.mine = s.mine /\ t.key.eph = s.key.eph
      /\ t.seen = s.seen
  BY <1>0, <1>1, <1>3, Decrypts
<1>6. s.cid = p.msg.from
  <2>1. s.cid \in Node /\ a \in AddrOf[s.cid]
    BY <1>5 DEF SessionOK, Session
  <2> QED BY <1>3, <2>1, HostUnique
<1>7. /\ SessionOK(n, a, u, ephs) /\ u.st = s.st /\ u.cid = s.cid /\ u.mine = s.mine
      /\ u.key.eph = s.key.eph /\ u.seen = s.seen \cup {p.seq}
  <2>1. Connected(t)
    BY <1>5 DEF Connected
  <2> HIDE DEF s, t
  <2> QED BY <1>2, <1>3, <1>5, <2>1, RememberedOK
<1>8. /\ peers' = [peers EXCEPT ![n][a] = u]
      /\ net' = net \cup {Ack(at[n], a, EncryptKey(t), p.seq)}
      /\ IF p.seq \in s.seen THEN inbox' = inbox ELSE inbox' = [inbox EXCEPT ![n] = @ \cup {r}]
  BY <1>1
<1>9. /\ Grows /\ Chats' = Chats
      /\ \A q \in net' : q \in net \/ q = Ack(at[n], a, EncryptKey(t), p.seq)
  <2>1. \A k \in Node : inbox[k] \subseteq inbox'[k]
    <3> HIDE DEF r, s
    <3> QED BY <1>2, <1>8
  <2> QED BY <1>2, <1>8, <2>1 DEF Grows, Chats, Ack
<1>10. \E x \in inbox'[n] : x.msg = p.msg /\ x.eph = p.key.eph
  <2>1. CASE p.seq \in s.seen
    <3>1. PICK m \in Node : a \in AddrOf[m] /\ ShownAs(s.key.eph, m, n, p.seq)
      BY <1>0, <1>3, <2>1 DEF SeenShown
    <3>2. m = p.msg.from
      BY <1>3, <3>1, HostUnique
    <3>3. PICK q \in Chats : /\ q.key.eph = s.key.eph /\ q.seq = p.seq
                             /\ q.msg.from = m
                             /\ \E x \in inbox[n] : x.msg = q.msg /\ x.eph = s.key.eph
      BY <3>1 DEF ShownAs
    <3>4. q.msg = p.msg
      BY <1>0, <1>3, <1>5, <3>2, <3>3 DEF ChatsAgree
    <3> QED BY <1>5, <1>9, <3>3, <3>4 DEF Grows
  <2>2. CASE p.seq \notin s.seen
    <3>1. r \in inbox'[n] /\ r.msg = p.msg /\ r.eph = p.key.eph
      BY <1>2, <1>8, <2>2
    <3> QED BY <3>1
  <2> QED BY <2>1, <2>2
<1>11. ShownNext(p.key.eph, p.msg.from, n, p.seq)
  BY <1>3, <1>4, <1>9, <1>10 DEF ShownNext
<1> HIDE DEF t, u
<1>12. \A k \in Node, b \in Addr : IF k = n /\ b = a THEN peers'[k][b] = u
                                   ELSE peers'[k][b] = peers[k][b]
  BY <1>2, <1>3, <1>8
<1>13. \A k \in Node, b \in Addr : SessionStep(k, b)
  <2>1. Continues(s, u)
    BY <1>5, <1>7 DEF Continues, Connected
  <2> QED BY <1>2, <1>7, <1>12, <2>1 DEF SessionStep
<1>14. SeenStep
  <2> SUFFICES ASSUME NEW k \in Node, NEW b \in Addr, NEW i \in peers'[k][b].seen
               PROVE  \/ i \in peers[k][b].seen /\ peers'[k][b].key.eph = peers[k][b].key.eph
                      \/ \E m \in Node : b \in AddrOf[m] /\ ShownNext(peers'[k][b].key.eph, m, k, i)
    BY DEF SeenStep
  <2>1. CASE k = n /\ b = a
    BY SMTT(60), <1>3, <1>5, <1>7, <1>11, <1>12, <2>1
  <2>2. CASE ~(k = n /\ b = a)
    BY <1>12, <2>2
  <2> QED BY <2>1, <2>2
<1>15. AckStep
  <2>1. EncryptKey(t).eph = p.key.eph
    BY <1>2, <1>3, <1>5, KeysOfSession
  <2>2. LET q == Ack(at[n], a, EncryptKey(t), p.seq)
        IN  q.key.eph = p.key.eph /\ q.seq = p.seq /\ q.dst = a
    BY <2>1 DEF Ack
  <2>3. ASSUME NEW q \in net', q \notin net
        PROVE  \E m, k \in Node : q.dst \in AddrOf[m] /\ ShownNext(q.key.eph, m, k, q.seq)
    BY <1>3, <1>9, <1>11, <2>2, <2>3
  <2> QED BY <2>3 DEF AckStep
<1>16. ChatStep /\ BoxStep
  <2>1. \A k, d \in Node : nextSeq[k][d] \in Nat
    BY <1>0 DEF TypeOK
  <2> QED BY <1>2, <1>9, <2>1 DEF ChatStep, BoxStep
<1>17. HostsOK' /\ DownOK' /\ OutboxOK'
  <2>1. \A k \in Node : k # n => peers'[k] = peers[k]
    BY <1>2, <1>8
  <2> QED BY <1>0, <1>2, <2>1 DEF HostsOK, DownOK, OutboxOK
<1>18. HandshakeOK'
  <2>1. Ack(at[n], a, EncryptKey(t), p.seq).type = "ACK"
    BY DEF Ack
  <2> QED BY <1>0, <1>2, <1>9, <2>1 DEF HandshakeOK
<1>19. DeliveredAsAddressed'
  <2>1. r.msg.to = n /\ r.cid = r.msg.from
    BY <1>4, <1>6
  <2> HIDE DEF r
  <2>2. \A k \in Node : \A x \in inbox'[k] : x \in inbox[k] \/ (k = n /\ x = r)
    BY <1>2, <1>8
  <2> QED BY <1>0, <2>1, <2>2 DEF DeliveredAsAddressed
<1>20. NoMessageLost'
  <2>1. \A m \in sent : m.to \in Node
    BY <1>0 DEF TypeOK, Text
  <2> QED BY <1>0, <1>2, <1>9, <2>1 DEF NoMessageLost, Queued, Shown, Grows
<1> QED BY <1>9, <1>13, <1>14, <1>15, <1>16, <1>17, <1>18, <1>19, <1>20, MessageInv

(* An ACK that decrypts takes off only what its sender has shown. *)
LEMMA AckIInv ==
  ASSUME MessengerAssumption, AddressesNotReused, IInv, TypeInv', NEW n \in Node,
         RecvAck(n)
  PROVE  IInv' /\ ChatStep
<1>0. /\ TypeOK /\ TypeOK' /\ HostsOK /\ SessionsOK /\ DownOK /\ HandshakeOK /\ OutboxOK
      /\ DeliveredAsAddressed /\ NoMessageLost /\ ChatsOK /\ ChatsMatchOutbox /\ AckedShown
  BY DEF IInv, TypeInv
<1>1. PICK p \in net :
        LET s == peers[n][p.src]
        IN  /\ Receives(n, p, "ACK")
            /\ CanDecrypt(s, p.key)
            /\ peers' = [peers EXCEPT ![n][p.src] = AfterDecrypt(s, p.key)]
            /\ outbox' = IF p.seq = 0 \/ s.cid = NoNode THEN outbox
                         ELSE [outbox EXCEPT ![n][s.cid] = Unqueue(@, p.seq)]
  BY DEF RecvAck
<1> DEFINE a == p.src
           s == peers[n][a]
           t == AfterDecrypt(s, p.key)
<1>2. /\ UNCHANGED <<addrs, nextSeq, sent, inbox, mode, at, saved, net, ephs>> /\ mode[n] = "up"
      /\ ephs \in Nat /\ peers \in [Node -> [Addr -> Session]]
      /\ outbox \in [Node -> [Node -> SUBSET Entry]]
  BY <1>0, <1>1 DEF RecvAck, procVars, Receives, Up, TypeOK
<1>3. p.type = "ACK" /\ p.dst = at[n] /\ a \in Addr /\ p.key \in Key /\ p.seq \in Nat
  BY <1>0, <1>1, ReceivedTypes DEF Receives
<1>4. /\ s \in Session /\ SessionOK(n, a, s, ephs) /\ p.key.eph = s.key.eph /\ s.mine \in p.key.eph
      /\ t \in Session /\ SessionOK(n, a, t, ephs)
      /\ t.st = s.st /\ t.cid = s.cid /\ t.mine = s.mine /\ t.key.eph = s.key.eph
      /\ t.seen = s.seen
  BY <1>0, <1>1, <1>3, Decrypts
<1>5. /\ peers' = [peers EXCEPT ![n][a] = t]
      /\ outbox' = IF p.seq = 0 \/ s.cid = NoNode THEN outbox
                   ELSE [outbox EXCEPT ![n][s.cid] = Unqueue(@, p.seq)]
  BY <1>1
<1>6. ASSUME p.seq # 0, NEW o \in outbox[n][s.cid], o.seq = p.seq, s.cid # NoNode
      PROVE  Shown(o.msg)
  <2>1. PICK m \in Node, k \in Node : p.dst \in AddrOf[m] /\ ShownAs(p.key.eph, m, k, p.seq)
    BY <1>0, <1>3, <1>6 DEF AckedShown
  <2>2. m = n
    BY <1>0, <1>3, <2>1, HostUnique DEF HostsOK
  <2>3. PICK q \in Chats : /\ q.key.eph = p.key.eph /\ q.seq = p.seq
                           /\ q.msg.from = n /\ Shown(q.msg)
    BY <2>1, <2>2 DEF ShownAs, Shown
  <2>4. s.st # "none"
    BY <1>4 DEF SessionOK
  <2>5. ChatMatches(n, s, q)
    BY <1>0, <1>3, <1>4, <2>3, <2>4 DEF ChatsMatchOutbox
  <2> QED BY <1>6, <2>3, <2>5 DEF ChatMatches
<1> HIDE DEF t, s
<1>7. s.cid # NoNode => s.cid \in Node
  BY <1>4 DEF Session
<1>8. \A k, d \in Node : /\ outbox'[k][d] \subseteq outbox[k][d]
                         /\ \A o \in outbox[k][d] : o \in outbox'[k][d] \/ Shown(o.msg)
  <2>1. CASE p.seq = 0 \/ s.cid = NoNode
    BY <1>5, <2>1
  <2>2. CASE ~(p.seq = 0 \/ s.cid = NoNode)
    <3>1. \A k, d \in Node : IF k = n /\ d = s.cid
                             THEN outbox'[k][d] = Unqueue(outbox[k][d], p.seq)
                             ELSE outbox'[k][d] = outbox[k][d]
      BY <1>2, <1>5, <1>7, <2>2
    <3>2. \A o \in outbox[n][s.cid] : o \in Unqueue(outbox[n][s.cid], p.seq) \/ Shown(o.msg)
      BY <1>6, <2>2 DEF Unqueue
    <3>3. \A k, d \in Node : Unqueue(outbox[k][d], p.seq) \subseteq outbox[k][d]
      BY DEF Unqueue
    <3> QED BY <3>1, <3>2, <3>3
  <2> QED BY <2>1, <2>2
<1>9. \A k \in Node, b \in Addr : IF k = n /\ b = a THEN peers'[k][b] = t
                                  ELSE peers'[k][b] = peers[k][b]
  BY <1>2, <1>3, <1>5
<1>10. \A k \in Node, b \in Addr : SessionStep(k, b) /\ SeenKept(k, b)
  <2>1. Continues(s, t) /\ s = peers[n][a]
    BY <1>4 DEF Continues, Connected, SessionOK, s
  <2> QED BY <1>2, <1>4, <1>9, <2>1 DEF SessionStep, SeenKept
<1>11. SeenStep /\ Grows /\ AckStep /\ ChatStep
  BY <1>2, <1>10 DEF SeenStep, SeenKept, Grows, AckStep, ChatStep, Chats
<1>12. BoxStep /\ OutboxOK'
  <2>1. \A k, d \in Node : nextSeq[k][d] \in Nat
    BY <1>0 DEF TypeOK
  <2> QED BY <1>0, <1>2, <1>8, <2>1 DEF BoxStep, OutboxOK
<1>13. HostsOK' /\ DownOK' /\ HandshakeOK' /\ DeliveredAsAddressed'
  <2>1. \A k \in Node : k # n => peers'[k] = peers[k]
    BY <1>2, <1>5
  <2> QED BY <1>0, <1>2, <2>1 DEF HostsOK, DownOK, HandshakeOK, DeliveredAsAddressed
<1>14. NoMessageLost'
  <2>1. \A m \in sent : m.from \in Node /\ m.to \in Node
    BY <1>0 DEF TypeOK, Text
  <2> SUFFICES ASSUME NEW m \in sent PROVE Queued(m)' \/ Shown(m)'
    BY <1>2 DEF NoMessageLost
  <2>2. CASE Shown(m)
    BY <1>2, <2>2 DEF Shown
  <2>3. CASE Queued(m)
    <3>1. PICK o \in outbox[m.from][m.to] : o.msg = m
      BY <2>3 DEF Queued
    <3>2. o \in outbox'[m.from][m.to] \/ Shown(o.msg)
      BY <1>8, <2>1, <3>1
    <3> QED BY <1>2, <3>1, <3>2 DEF Queued, Shown
  <2> QED BY <1>0, <2>2, <2>3 DEF NoMessageLost
<1> QED BY <1>10, <1>11, <1>12, <1>13, <1>14, MessageInv

----------------------------------------------------------------------------
LEMMA StepIInv ==
  MessengerAssumption /\ AddressesNotReused /\ IInv /\ [Next]_vars => IInv' /\ ChatStep
<1> SUFFICES ASSUME MessengerAssumption, AddressesNotReused, IInv, [Next]_vars
             PROVE  IInv' /\ ChatStep
  OBVIOUS
<1>1. TypeInv'
  BY StepTypeInv DEF IInv
<1>2. CASE UNCHANGED vars
  <2>1. /\ TypeOK /\ HostsOK /\ DownOK /\ HandshakeOK /\ ephs \in Nat
    BY DEF IInv, TypeInv, TypeOK
  <2>2. HostsOK' /\ DownOK' /\ HandshakeOK'
    BY <1>2, <2>1 DEF vars, HostsOK, DownOK, HandshakeOK
  <2>3. QuietStep
    BY <1>2, <2>1 DEF vars, QuietStep, SessionStep, SeenKept
  <2> QED BY <1>1, <2>2, <2>3, QuietInv
<1>3. CASE Next
  <2>1. PICK n \in Node :
           \/ Start(n) \/ Crash(n) \/ Shutdown(n) \/ Move(n)
           \/ YieldSocket(n) \/ ReclaimSocket(n)
           \/ Connect(n) \/ SendMessage(n) \/ RetryOutbox(n) \/ Keepalive(n) \/ PeerTimeout(n)
           \/ RecvHello(n) \/ RecvIdentity(n) \/ RecvConfirm(n)
           \/ RecvChat(n) \/ RecvAck(n) \/ RecvBye(n)
    BY <1>3 DEF Next
  <2> QED BY <1>1, <2>1, LifecycleIInv, StartIInv, ReclaimIInv, ConnectIInv, SendIInv, RetryIInv,
             HelloIInv, IdentityIInv, ConfirmIInv, ChatIInv, AckIInv
<1> QED BY <1>2, <1>3

(* The inductive invariant holds for any users, contacts, addresses and bounds,
   as long as no address changes hands between users. *)
THEOREM InvariantHolds ==
  ASSUME AddressesNotReused
  PROVE  Spec => []IInv
<1>1. Init => IInv
  BY InitIInv, MessengerAssumption
<1>2. IInv /\ [Next]_vars => IInv'
  BY StepIInv, MessengerAssumption
<1> QED BY <1>1, <1>2, PTL DEF Spec

(* No message is lost: through every restart, crash, move, call and replay, a
   message the user composed is queued at its sender until its addressee has it. *)
THEOREM NothingLost ==
  ASSUME AddressesNotReused
  PROVE  Spec => []NoMessageLost
<1>1. IInv => NoMessageLost
  BY DEF IInv
<1> QED BY <1>1, InvariantHolds, PTL

(* What a GUI shows was written to its user by the contact it is shown under. *)
THEOREM RightAddressee ==
  ASSUME AddressesNotReused
  PROVE  Spec => []DeliveredAsAddressed
<1>1. IInv => DeliveredAsAddressed
  BY DEF IInv
<1> QED BY <1>1, InvariantHolds, PTL

----------------------------------------------------------------------------
(* A user's next message is new: its number is above those of all before. *)

LEMMA WriteOK ==
  ASSUME MessengerAssumption, TypeOK, WrittenOK, NEW n \in Node, NEW c \in Contacts[n],
         NEW i \in 1..MaxText[n], i = 1 + Cardinality(Written(n)),
         NEW m, m = [from |-> n, to |-> c, id |-> i], sent' = sent \cup {m}
  PROVE  m \in Message /\ m \notin sent /\ WrittenOK'
<1>1. m.from = n /\ m.id = i /\ m \in Message /\ i \in Nat
  <2>1. m \in [from : {n}, to : Contacts[n], id : 1..MaxText[n]]
    OBVIOUS
  <2> QED BY <2>1 DEF MessengerAssumption, Message
<1>2. /\ IsFiniteSet(Written(n)) /\ Cardinality(Written(n)) \in Nat
      /\ \A x \in Written(n) : x \in Message /\ x.id <= Cardinality(Written(n))
  BY FS_CardinalityType DEF WrittenOK
<1>3. m \notin Written(n)
  <2> SUFFICES ASSUME m \in Written(n) PROVE FALSE
    OBVIOUS
  <2>1. i <= Cardinality(Written(n))
    BY <1>1, <1>2
  <2> QED BY <1>2, <2>1
<1>4. m \notin sent
  BY <1>1, <1>3 DEF Written
<1>5. /\ Written(n)' = Written(n) \cup {m}
      /\ \A k \in Node : k # n => Written(k)' = Written(k)
  BY <1>1 DEF Written
<1>6. /\ IsFiniteSet(Written(n)')
      /\ Cardinality(Written(n)') = Cardinality(Written(n)) + 1
  <2>1. /\ IsFiniteSet(Written(n) \cup {m})
        /\ Cardinality(Written(n) \cup {m}) = Cardinality(Written(n)) + 1
    BY <1>2, <1>3, FS_AddElement
  <2> QED BY <1>5, <2>1
<1>7. \A x \in Written(n)' : x \in Message /\ x.id <= Cardinality(Written(n)')
  <2> SUFFICES ASSUME NEW x \in Written(n)'
               PROVE  x \in Message /\ x.id <= Cardinality(Written(n)')
    OBVIOUS
  <2>1. CASE x = m
    BY <1>1, <1>2, <1>6, <2>1
  <2>2. CASE x \in Written(n)
    <3>1. x.id \in Nat
      BY <2>2 DEF Written, TypeOK, Text
    <3> QED BY <1>2, <1>6, <2>2, <3>1
  <2> QED BY <1>5, <2>1, <2>2
<1>8. WrittenOK'
  <2> SUFFICES ASSUME NEW k \in Node
               PROVE  /\ IsFiniteSet(Written(k)')
                      /\ \A x \in Written(k)' : x \in Message /\ x.id <= Cardinality(Written(k)')
    BY DEF WrittenOK, Message
  <2>1. CASE k = n
    BY <1>6, <1>7, <2>1
  <2>2. CASE k # n
    BY <1>5, <2>2 DEF WrittenOK
  <2> QED BY <2>1, <2>2
<1> QED BY <1>1, <1>4, <1>8

----------------------------------------------------------------------------
(* Every CHAT sent in a step carries a message of an outbox, under its number. *)

Carried ==
  \A q \in Chats' : q \in Chats \/
     \E k, d \in Node : \E o \in outbox'[k][d] : q.msg = o.msg /\ q.seq = o.seq

(* What a step queues is one message that nobody has written before. *)
Fresh ==
  \A k, d \in Node : \A o \in outbox'[k][d] :
     \/ o \in outbox[k][d]
     \/ o.msg \notin sent /\ \A q \in outbox'[k][d] : q \in outbox[k][d] \/ q = o

LEMMA FlushCarries ==
  ASSUME NEW n \in Node, NEW a, NEW s, NEW box, NEW q \in Flush(n, a, s, box)
  PROVE  \E o \in box : q.msg = o.msg /\ q.seq = o.seq
BY DEF Flush, Chat

\* Nothing about messages changes, in the outboxes, on the screens or in the network.
LEMMA QuietCarries ==
  ASSUME NEW n \in Node,
         \/ Start(n) \/ Crash(n) \/ Shutdown(n) \/ Move(n)
         \/ YieldSocket(n) \/ ReclaimSocket(n)
         \/ Connect(n) \/ Keepalive(n) \/ PeerTimeout(n)
         \/ RecvHello(n) \/ RecvConfirm(n) \/ RecvBye(n)
  PROVE  UNCHANGED <<sent, inbox, outbox>> /\ Carried
<1>1. ASSUME NEW N, net' = net \cup N, \A q \in N : q.type # "CHAT" PROVE Carried
  BY <1>1 DEF Carried, Chats
<1>2. net' = net => Carried
  BY DEF Carried, Chats
<1>3. CASE Start(n) \/ Crash(n) \/ Move(n) \/ YieldSocket(n) \/ PeerTimeout(n)
           \/ RecvConfirm(n) \/ RecvBye(n)
  BY <1>2, <1>3 DEF Start, Crash, Stop, Move, YieldSocket, PeerTimeout, RecvConfirm, RecvBye, chatVars
<1>4. CASE Shutdown(n)
  <2> DEFINE N == {Bye(at[n], a) : a \in {b \in Addr : peers[n][b].key # NoKey}}
  <2>1. \A q \in N : q.type # "CHAT"
    BY DEF Bye
  <2>2. net' = net \cup N /\ UNCHANGED <<sent, inbox, outbox>>
    BY <1>4 DEF Shutdown, Stop, chatVars
  <2> HIDE DEF N
  <2> QED BY <1>1, <2>1, <2>2
<1>5. CASE ReclaimSocket(n)
  <2>1. PICK pick \in SUBSET saved[n] :
             net' = net \cup {Hello(at[n], x[2], NewEph(n, x[2])) : x \in pick}
    BY <1>5 DEF ReclaimSocket
  <2> DEFINE N == {Hello(at[n], x[2], NewEph(n, x[2])) : x \in pick}
  <2>2. \A q \in N : q.type # "CHAT"
    BY DEF Hello
  <2>3. net' = net \cup N /\ UNCHANGED <<sent, inbox, outbox>>
    BY <1>5, <2>1 DEF ReclaimSocket, chatVars
  <2> HIDE DEF N
  <2> QED BY <1>1, <2>2, <2>3
<1>6. CASE Connect(n)
  <2>1. PICK c, a : Initiate(n, a, c)
    BY <1>6 DEF Connect
  <2> DEFINE N == {Hello(at[n], a, NewEph(n, a))}
  <2>2. net' = net \cup N /\ UNCHANGED <<sent, inbox, outbox>>
    BY <1>6, <2>1 DEF Initiate, Connect, chatVars
  <2>3. \A q \in N : q.type # "CHAT"
    BY DEF Hello
  <2> HIDE DEF N
  <2> QED BY <1>1, <2>2, <2>3
<1>7. CASE Keepalive(n)
  <2> DEFINE N == {Ack(at[n], a, EncryptKey(peers[n][a]), 0) :
                     a \in {b \in Addr : Connected(peers[n][b])}}
  <2>1. \A q \in N : q.type # "CHAT"
    BY DEF Ack
  <2>2. net' = net \cup N /\ UNCHANGED <<sent, inbox, outbox>>
    BY <1>7 DEF Keepalive, chatVars
  <2> HIDE DEF N
  <2> QED BY <1>1, <2>1, <2>2
<1>8. CASE RecvHello(n)
  <2>1. PICK p \in net : HelloResponse(n, p) \/ HelloRestart(n, p) \/ HelloIncoming(n, p)
    BY <1>8 DEF RecvHello
  <2>2. \E e, k : \/ net' = net \cup {Ident(at[n], p.src, k, n)}
                  \/ net' = net \cup {Hello(at[n], p.src, e), Ident(at[n], p.src, k, n)}
    BY <2>1 DEF HelloResponse, HelloRestart, HelloIncoming, Answer
  <2>3. \A e, k : /\ Ident(at[n], p.src, k, n).type = "IDENTITY"
                  /\ Hello(at[n], p.src, e).type = "HELLO"
    BY DEF Ident, Hello
  <2>4. Carried
    BY <2>2, <2>3 DEF Carried, Chats
  <2> QED BY <1>8, <2>4 DEF RecvHello, chatVars
<1> QED BY <1>3, <1>4, <1>5, <1>6, <1>7, <1>8

\* A flush, on a timer or at the end of a handshake, resends what is in an outbox.
LEMMA FlushingCarries ==
  ASSUME TypeOK, NEW n \in Node, RetryOutbox(n) \/ RecvIdentity(n)
  PROVE  UNCHANGED <<sent, inbox, outbox>> /\ Carried
<1>0. UNCHANGED <<sent, inbox, outbox>>
  BY DEF RetryOutbox, RecvIdentity, chatVars
<1>1. CASE RetryOutbox(n)
  <2>1. PICK c \in Node : net' = net \cup Flush(n, addrs[n][c], peers[n][addrs[n][c]], outbox[n][c])
    BY <1>1 DEF RetryOutbox
  <2> QED BY <1>0, <2>1, FlushCarries DEF Carried, Chats
<1>2. CASE RecvIdentity(n)
  <2>1. PICK p \in net :
          /\ p.type = "IDENTITY"
          /\ LET s == Identified(n, peers[n][p.src], p.id)
             IN  net' = net \cup Flush(n, p.src, s, outbox[n][p.id])
                            \cup (IF s.up = NoKey THEN {} ELSE {Confirm(at[n], p.src, s.up)})
    BY <1>2 DEF RecvIdentity, Receives
  <2> DEFINE s == Identified(n, peers[n][p.src], p.id)
  <2>2. p.id \in Node
    BY <2>1 DEF TypeOK, Packet
  <2>3. Confirm(at[n], p.src, s.up).type = "CONFIRM"
    BY DEF Confirm
  <2> HIDE DEF s
  <2>4. \A q \in Chats' : q \in Chats \/ q \in Flush(n, p.src, s, outbox[n][p.id])
    BY <2>1, <2>3 DEF Chats, s
  <2> QED BY <1>0, <2>2, <2>4, FlushCarries DEF Carried
<1> QED BY <1>1, <1>2

LEMMA GenuineStep ==
  ASSUME Genuine, Carried, sent \subseteq sent',
         \A k, d \in Node : \A o \in outbox'[k][d] : o \in outbox[k][d] \/ o.msg \in sent',
         \A k \in Node : \A r \in inbox'[k] : r \in inbox[k] \/ r.msg \in sent'
  PROVE  Genuine'
<1>1. \A k, d \in Node : \A o \in outbox'[k][d] : o.msg \in sent'
  BY DEF Genuine
<1>2. \A q \in Chats' : q.msg \in sent'
  BY <1>1 DEF Genuine, Carried
<1>3. \A k \in Node : \A r \in inbox'[k] : r.msg \in sent'
  BY DEF Genuine
<1> QED BY <1>1, <1>2, <1>3 DEF Genuine

----------------------------------------------------------------------------
(* Steps of the mailbox. *)

\* The users notice nothing.
LEMMA QuietBox ==
  ASSUME BoxInv, UNCHANGED <<sent, inbox, outbox>>, Carried
  PROVE  WrittenOK' /\ Genuine' /\ Fresh /\ UNCHANGED Box!vars
<1>1. Genuine'
  BY GenuineStep DEF BoxInv
<1>2. WrittenOK'
  BY DEF BoxInv, WrittenOK, Written, Message
<1>3. Fresh
  BY DEF Fresh
<1>4. UNCHANGED Box!vars
  BY DEF Box!vars, Queued, Shown
<1> QED BY <1>1, <1>2, <1>3, <1>4

\* SendMessage composes a message.
LEMMA SendBox ==
  ASSUME MessengerAssumption, BoxInv, NEW n \in Node, SendMessage(n)
  PROVE  WrittenOK' /\ Genuine' /\ Carried /\ Fresh /\ Box!Next
<1>0. TypeOK /\ WrittenOK /\ Genuine
  BY DEF BoxInv, IInv, TypeInv
<1>1. PICK c \in Contacts[n], i \in 1..MaxText[n] :
        LET m == [from |-> n, to |-> c, id |-> i]
            b == addrs[n][c]
        IN  /\ i = 1 + Cardinality({x \in sent : x.from = n})
            /\ Queue(n, c, m)
            /\ \/ \E a : Initiate(n, a, c)
               \/ net' = IF b # NoAddr /\ Connected(peers[n][b])
                         THEN net \cup Flush(n, b, peers[n][b],
                                             {[seq |-> nextSeq[n][c], msg |-> m]})
                         ELSE net
  BY DEF SendMessage
<1> DEFINE m == [from |-> n, to |-> c, id |-> i]
           b == addrs[n][c]
           o == [seq |-> nextSeq[n][c], msg |-> m]
<1>2. c \in Node /\ m.from = n /\ m.to = c /\ o.msg = m
  BY DEF MessengerAssumption
<1>3. /\ sent' = sent \cup {m} /\ inbox' = inbox
      /\ outbox' = [outbox EXCEPT ![n][c] = @ \cup {o}]
  BY <1>1 DEF Queue
<1>4. i = 1 + Cardinality(Written(n))
  BY <1>1 DEF Written
<1>5. m \in Message /\ m \notin sent /\ WrittenOK'
  BY <1>0, <1>3, <1>4, WriteOK
<1>6. \/ \E a : net' = net \cup {Hello(at[n], a, NewEph(n, a))}
      \/ net' = net
      \/ net' = net \cup Flush(n, b, peers[n][b], {o})
  BY <1>1 DEF Initiate
<1> HIDE DEF m, o
<1>7. /\ o \in outbox'[n][c] /\ outbox'[n][c] = outbox[n][c] \cup {o}
      /\ \A k, d \in Node : ~(k = n /\ d = c) => outbox'[k][d] = outbox[k][d]
  BY <1>0, <1>2, <1>3 DEF TypeOK
<1>8. Carried
  <2>1. CASE \E a : net' = net \cup {Hello(at[n], a, NewEph(n, a))}
    <3>1. PICK a : net' = net \cup {Hello(at[n], a, NewEph(n, a))}
      BY <2>1
    <3>2. Hello(at[n], a, NewEph(n, a)).type = "HELLO"
      BY DEF Hello
    <3>3. Chats' = Chats
      BY <3>1, <3>2 DEF Chats
    <3> QED BY <3>3 DEF Carried
  <2>2. CASE net' = net
    BY <2>2 DEF Carried, Chats
  <2>3. CASE net' = net \cup Flush(n, b, peers[n][b], {o})
    <3>1. \A q \in Flush(n, b, peers[n][b], {o}) : q.msg = o.msg /\ q.seq = o.seq
      BY FlushCarries
    <3>2. \A q \in Chats' : q \in Chats \/ q \in Flush(n, b, peers[n][b], {o})
      BY <2>3 DEF Chats
    <3>3. c \in Node /\ o \in outbox'[n][c]
      BY <1>2, <1>7
    <3> QED BY <3>1, <3>2, <3>3 DEF Carried
  <2> QED BY <1>6, <2>1, <2>2, <2>3
<1>9. Genuine'
  <2>1. \A k, d \in Node : \A q \in outbox'[k][d] : q \in outbox[k][d] \/ q.msg \in sent'
    <3> SUFFICES ASSUME NEW k \in Node, NEW d \in Node, NEW q \in outbox'[k][d]
                 PROVE  q \in outbox[k][d] \/ q.msg \in sent'
      OBVIOUS
    <3>1. CASE k = n /\ d = c
      BY <1>2, <1>3, <1>7, <3>1
    <3>2. CASE ~(k = n /\ d = c)
      BY <1>7, <3>2
    <3> QED BY <3>1, <3>2
  <2> QED BY <1>0, <1>3, <1>8, <2>1, GenuineStep
<1>10. {x \in sent' : Queued(x)'} = {x \in sent : Queued(x)} \cup {m}
  <2>1. Queued(m)'
    BY <1>2, <1>7 DEF Queued
  <2>2. ASSUME NEW x \in sent PROVE Queued(x)' <=> Queued(x)
    <3>1. x.from \in Node /\ x.to \in Node /\ x # m
      BY <1>0, <1>5 DEF TypeOK, Text
    <3>2. CASE x.from = n /\ x.to = c
      BY <1>2, <1>7, <3>1, <3>2 DEF Queued
    <3>3. CASE ~(x.from = n /\ x.to = c)
      BY <1>7, <3>1, <3>3 DEF Queued
    <3> QED BY <3>2, <3>3
  <2> QED BY <1>3, <2>1, <2>2
<1>11. {x \in sent' : Shown(x)'} = {x \in sent : Shown(x)}
  <2>1. ~Shown(m)
    BY <1>0, <1>2, <1>5 DEF Shown, Genuine
  <2> QED BY <1>3, <2>1 DEF Shown
<1>12. Box!Compose(m)
  BY <1>3, <1>5, <1>10, <1>11 DEF Box!Compose
<1>13. Fresh
  <2> SUFFICES ASSUME NEW k \in Node, NEW d \in Node, NEW x \in outbox'[k][d], x \notin outbox[k][d]
               PROVE  x.msg \notin sent /\ \A q \in outbox'[k][d] : q \in outbox[k][d] \/ q = x
    BY DEF Fresh
  <2>1. k = n /\ d = c
    BY <1>7
  <2> QED BY <1>2, <1>5, <1>7, <2>1
<1> QED BY <1>5, <1>8, <1>9, <1>12, <1>13 DEF Box!Next

\* A CHAT of a message that was not shown yet finds it still queued.
LEMMA ChatBox ==
  ASSUME BoxInv, NEW n \in Node, RecvChat(n)
  PROVE  WrittenOK' /\ Genuine' /\ Carried /\ Fresh /\ [Box!Next]_(Box!vars)
<1>0. TypeOK /\ WrittenOK /\ Genuine /\ NoMessageLost
  BY DEF BoxInv, IInv, TypeInv
<1>1. PICK p \in Chats :
        LET r == [msg |-> p.msg, cid |-> peers[n][p.src].cid, eph |-> p.key.eph]
        IN  /\ \E k, i : net' = net \cup {Ack(at[n], p.src, k, i)}
            /\ inbox' = inbox \/ inbox' = [inbox EXCEPT ![n] = @ \cup {r}]
            /\ UNCHANGED <<sent, outbox>>
  BY DEF RecvChat, Receives, Chats
<1> DEFINE r == [msg |-> p.msg, cid |-> peers[n][p.src].cid, eph |-> p.key.eph]
           m == p.msg
<1>2. m \in sent /\ r.msg = m
  BY <1>0 DEF Genuine
<1>3. Carried /\ Fresh
  BY <1>1 DEF Carried, Fresh, Chats, Ack
<1>4. /\ \A k \in Node : inbox[k] \subseteq inbox'[k]
      /\ \A k \in Node : \A x \in inbox'[k] : x \in inbox[k] \/ (k = n /\ x = r)
  <2>1. inbox' = inbox \/ inbox' = [inbox EXCEPT ![n] = @ \cup {r}]
    BY <1>1
  <2>2. inbox \in [Node -> SUBSET Receipt]
    BY <1>0 DEF TypeOK
  <2> HIDE DEF r
  <2>3. CASE inbox' = inbox
    BY <2>3
  <2>4. CASE inbox' = [inbox EXCEPT ![n] = @ \cup {r}]
    BY <2>2, <2>4
  <2> QED BY <2>1, <2>3, <2>4
<1> HIDE DEF r, m
<1>5. WrittenOK' /\ Genuine'
  <2>1. Genuine'
    BY <1>0, <1>1, <1>2, <1>3, <1>4, GenuineStep
  <2> QED BY <1>0, <1>1, <2>1 DEF WrittenOK, Written, Message
<1>6. {x \in sent' : Queued(x)'} = {x \in sent : Queued(x)}
  BY <1>1 DEF Queued
<1>7. \A x \in sent : /\ x.to \in Node
                      /\ Shown(x) => Shown(x)'
                      /\ Shown(x)' => Shown(x) \/ x = m
  <2> TAKE x \in sent
  <2>1. x.to \in Node
    BY <1>0 DEF TypeOK, Text
  <2>2. inbox[x.to] \subseteq inbox'[x.to]
    BY <1>4, <2>1
  <2> QED BY <1>2, <1>4, <2>1, <2>2 DEF Shown
<1>8. CASE \A x \in sent : Shown(x)' <=> Shown(x)
  BY <1>1, <1>3, <1>5, <1>6, <1>8 DEF Box!vars
<1>9. CASE ~Shown(m) /\ Shown(m)'
  <2>1. Queued(m)
    BY <1>0, <1>2, <1>9 DEF NoMessageLost
  <2>2. {x \in sent' : Shown(x)'} = {x \in sent : Shown(x)} \cup {m}
    BY <1>1, <1>2, <1>7, <1>9
  <2>3. Box!Show(m)
    BY <1>1, <1>2, <1>6, <2>1, <2>2 DEF Box!Show
  <2>4. m \in Message
    BY <1>0, <1>2 DEF WrittenOK, Written, TypeOK, Text
  <2> QED BY <1>3, <1>5, <2>3, <2>4 DEF Box!Next
<1> QED BY <1>2, <1>5, <1>7, <1>8, <1>9

\* An ACK settles the one message of its number, which has been shown.
LEMMA AckBox ==
  ASSUME BoxInv, IInv', NEW n \in Node, RecvAck(n)
  PROVE  WrittenOK' /\ Genuine' /\ Carried /\ Fresh /\ [Box!Next]_(Box!vars)
<1>0. TypeOK /\ WrittenOK /\ Genuine /\ OutboxOK /\ NoMessageLost'
  BY DEF BoxInv, IInv, TypeInv
<1>1. PICK p \in net :
        /\ UNCHANGED <<sent, inbox, net>>
        /\ \/ outbox' = outbox
           \/ /\ peers[n][p.src].cid # NoNode
              /\ outbox' = [outbox EXCEPT ![n][peers[n][p.src].cid] = Unqueue(@, p.seq)]
        /\ p \in Packet
  BY <1>0 DEF RecvAck, TypeOK
<1>2. Carried
  BY <1>1 DEF Carried, Chats
<1>3. CASE outbox' = outbox
  BY <1>1, <1>2, <1>3, QuietBox
<1>4. CASE outbox' # outbox
  <2> DEFINE c == peers[n][p.src].cid
  <2>1. p.src \in Addr
    BY <1>1 DEF Packet
  <2>2. c \in Node
    BY <1>0, <1>1, <1>4, <2>1 DEF TypeOK, Session
  <2>3. outbox' = [outbox EXCEPT ![n][c] = Unqueue(@, p.seq)]
    BY <1>1, <1>4
  <2> HIDE DEF c
  <2>4. /\ outbox'[n][c] = {o \in outbox[n][c] : o.seq # p.seq}
        /\ \A k, d \in Node : ~(k = n /\ d = c) => outbox'[k][d] = outbox[k][d]
    BY <1>0, <2>2, <2>3 DEF TypeOK, Unqueue
  <2>5. \A k, d \in Node : outbox'[k][d] \subseteq outbox[k][d]
    <3> SUFFICES ASSUME NEW k \in Node, NEW d \in Node PROVE outbox'[k][d] \subseteq outbox[k][d]
      OBVIOUS
    <3>1. CASE k = n /\ d = c
      BY <2>4, <3>1
    <3>2. CASE ~(k = n /\ d = c)
      BY <2>4, <3>2
    <3> QED BY <3>1, <3>2
  <2>6. WrittenOK' /\ Genuine'
    <3>1. Genuine'
      BY <1>0, <1>1, <1>2, <2>5, GenuineStep
    <3> QED BY <1>0, <1>1, <3>1 DEF WrittenOK, Written, Message
  <2> Fresh
    BY <2>5 DEF Fresh
  <2>7. {x \in sent' : Shown(x)'} = {x \in sent : Shown(x)}
    BY <1>1 DEF Shown
  <2>8. \A x \in sent : x.from \in Node /\ x.to \in Node /\ (Queued(x)' => Queued(x))
    <3> TAKE x \in sent
    <3>1. x.from \in Node /\ x.to \in Node
      BY <1>0 DEF TypeOK, Text
    <3> QED BY <2>5, <3>1 DEF Queued
  <2>9. CASE \A x \in sent : Queued(x)' <=> Queued(x)
    BY <1>1, <1>2, <2>6, <2>7, <2>9 DEF Box!vars
  <2>10. CASE \E x \in sent : Queued(x) /\ ~Queued(x)'
    <3>1. PICK m \in sent : Queued(m) /\ ~Queued(m)'
      BY <2>10
    <3>2. \A x \in sent : Queued(x) /\ ~Queued(x)' =>
             \E o \in outbox[n][c] : o.msg = x /\ o.seq = p.seq
      <4> SUFFICES ASSUME NEW x \in sent, Queued(x), ~Queued(x)'
                   PROVE  \E o \in outbox[n][c] : o.msg = x /\ o.seq = p.seq
        OBVIOUS
      <4>1. PICK o \in outbox[x.from][x.to] : o.msg = x
        BY DEF Queued
      <4>2. o \notin outbox'[x.from][x.to]
        BY <4>1 DEF Queued
      <4>3. x.from = n /\ x.to = c
        BY <2>4, <2>8, <4>1, <4>2
      <4> QED BY <2>4, <4>1, <4>2, <4>3
    <3>3. \A x \in sent : Queued(x) /\ ~Queued(x)' => x = m
      BY <1>0, <2>2, <3>1, <3>2 DEF OutboxOK
    <3>4. {x \in sent' : Queued(x)'} = {x \in sent : Queued(x)} \ {m}
      BY <1>1, <2>8, <3>1, <3>3
    <3>5. Shown(m)
      BY <1>0, <1>1, <2>7, <3>1 DEF NoMessageLost
    <3>6. Box!Settle(m)
      BY <1>1, <2>7, <3>1, <3>4, <3>5 DEF Box!Settle
    <3>7. m \in Message
      BY <1>0, <2>8 DEF WrittenOK, Written
    <3> QED BY <1>2, <2>6, <3>6, <3>7 DEF Box!Next
  <2> QED BY <2>8, <2>9, <2>10
<1> QED BY <1>3, <1>4

----------------------------------------------------------------------------
LEMMA StepBox ==
  ASSUME MessengerAssumption, AddressesNotReused, BoxInv, [Next]_vars
  PROVE  BoxInv' /\ Carried /\ Fresh /\ [Box!Next]_(Box!vars)
<1>1. IInv'
  BY StepIInv DEF BoxInv
<1>2. TypeOK
  BY DEF BoxInv, IInv, TypeInv
<1>3. CASE UNCHANGED vars
  <2>1. UNCHANGED <<sent, inbox, outbox>> /\ Carried
    BY <1>3 DEF vars, Carried, Chats
  <2> QED BY <1>1, <2>1, QuietBox DEF BoxInv
<1>4. CASE Next
  <2>1. PICK n \in Node :
           \/ Start(n) \/ Crash(n) \/ Shutdown(n) \/ Move(n)
           \/ YieldSocket(n) \/ ReclaimSocket(n)
           \/ Connect(n) \/ SendMessage(n) \/ RetryOutbox(n) \/ Keepalive(n) \/ PeerTimeout(n)
           \/ RecvHello(n) \/ RecvIdentity(n) \/ RecvConfirm(n)
           \/ RecvChat(n) \/ RecvAck(n) \/ RecvBye(n)
    BY <1>4 DEF Next
  <2>2. CASE SendMessage(n)
    BY <1>1, <2>2, SendBox DEF BoxInv
  <2>3. CASE RecvChat(n)
    BY <1>1, <2>3, ChatBox DEF BoxInv
  <2>4. CASE RecvAck(n)
    BY <1>1, <2>4, AckBox DEF BoxInv
  <2>5. CASE RetryOutbox(n) \/ RecvIdentity(n)
    BY <1>1, <1>2, <2>5, FlushingCarries, QuietBox DEF BoxInv
  <2>6. CASE \/ Start(n) \/ Crash(n) \/ Shutdown(n) \/ Move(n)
             \/ YieldSocket(n) \/ ReclaimSocket(n)
             \/ Connect(n) \/ Keepalive(n) \/ PeerTimeout(n)
             \/ RecvHello(n) \/ RecvConfirm(n) \/ RecvBye(n)
    <3>1. UNCHANGED <<sent, inbox, outbox>> /\ Carried
      BY <2>6, QuietCarries
    <3> QED BY <1>1, <3>1, QuietBox DEF BoxInv
  <2> QED BY <2>1, <2>2, <2>3, <2>4, <2>5, <2>6
<1> QED BY <1>3, <1>4

LEMMA InitBox == MessengerAssumption /\ Init => BoxInv /\ Box!Init
<1> SUFFICES ASSUME MessengerAssumption, Init PROVE BoxInv /\ Box!Init
  OBVIOUS
<1>1. IInv
  BY InitIInv
<1>2. sent = {} /\ net = {} /\ (\A n \in Node : inbox[n] = {})
      /\ \A n, c \in Node : outbox[n][c] = {}
  BY DEF Init
<1>3. WrittenOK
  BY <1>2, FS_EmptySet DEF WrittenOK, Written
<1>4. Genuine
  BY <1>2 DEF Genuine, Chats
<1>5. Box!Init
  BY <1>2 DEF Box!Init
<1> QED BY <1>1, <1>3, <1>4, <1>5 DEF BoxInv

(* The messenger implements the mailbox, for any users, contacts and bounds, as
   long as no address changes hands: whatever its sessions and packets go
   through, its users see messages composed, shown and settled. *)
THEOREM Refinement ==
  ASSUME AddressesNotReused
  PROVE  Spec => MailboxKept
<1>1. Init => BoxInv /\ Box!Init
  BY InitBox, MessengerAssumption
<1>2. BoxInv /\ [Next]_vars => BoxInv' /\ [Box!Next]_(Box!vars)
  BY StepBox, MessengerAssumption
<1> QED BY <1>1, <1>2, PTL DEF Spec, MailboxKept, Box!Spec

----------------------------------------------------------------------------
(* The transitions of session.rs that a step can make of the session that
   user n has at address a. *)
Moved(n, a) ==
  LET s == peers[n][a]
      t == peers'[n][a]
  IN  \/ t = s
      \/ t = NoSession
      \/ ephs' = ephs + 1 /\ \E c \in Node : t = Initiated(n, a, c)
      \/ \E e \in Eph :
           /\ e.node \in Node \ {n} /\ a \in AddrOf[e.node] /\ e.no <= ephs
           /\ \/ ephs' = ephs + 1 /\ t = Answered(n, a, e)
              \/ s.st = "hello" /\ t = Completed(s, e)
      \/ s.st = "identity" /\ \E c \in Node : t = Identified(n, s, c)
      \/ \E k \in Key : /\ CanDecrypt(s, k)
                        /\ \/ t = AfterDecrypt(s, k)
                           \/ \E i \in Nat : t = Remember(AfterDecrypt(s, k), i)

(* Lifecycle, timers and commands only end sessions or send a first HELLO. *)
LEMMA CommandMoves ==
  ASSUME MessengerAssumption, TypeOK, NEW n \in Node,
         \/ Start(n) \/ Crash(n) \/ Shutdown(n) \/ Move(n)
         \/ YieldSocket(n) \/ ReclaimSocket(n)
         \/ Connect(n) \/ SendMessage(n) \/ RetryOutbox(n) \/ Keepalive(n) \/ PeerTimeout(n)
         \/ RecvBye(n)
  PROVE  \A k \in Node, b \in Addr : Moved(k, b)
<1>0. peers \in [Node -> [Addr -> Session]] /\ ephs \in Nat
  BY DEF TypeOK
<1>1. peers' = peers => \A k \in Node, b \in Addr : Moved(k, b)
  BY DEF Moved
<1>2. (\A k \in Node, b \in Addr : peers'[k][b] = peers[k][b] \/ peers'[k][b] = NoSession)
        => \A k \in Node, b \in Addr : Moved(k, b)
  BY DEF Moved
<1>3. ASSUME NEW c \in Node, NEW a \in Addr, Initiate(n, a, c)
      PROVE  \A k \in Node, b \in Addr : Moved(k, b)
  <2>1. peers' = [peers EXCEPT ![n][a] = Initiated(n, a, c)] /\ ephs' = ephs + 1
    BY <1>3 DEF Initiate
  <2>2. \A k \in Node, b \in Addr :
           IF k = n /\ b = a THEN peers'[k][b] = Initiated(n, a, c)
                             ELSE peers'[k][b] = peers[k][b]
    BY <1>0, <2>1
  <2> QED BY <2>1, <2>2 DEF Moved
<1>4. CASE Start(n) \/ Move(n) \/ RetryOutbox(n) \/ Keepalive(n)
  BY <1>1, <1>4 DEF Start, Move, RetryOutbox, Keepalive, sessionVars
<1>5. CASE Crash(n) \/ Shutdown(n) \/ YieldSocket(n)
  <2>1. peers' = [peers EXCEPT ![n] = [a \in Addr |-> NoSession]]
    BY <1>5 DEF Crash, Shutdown, YieldSocket, Stop
  <2> QED BY <1>0, <1>2, <2>1
<1>6. CASE PeerTimeout(n) \/ RecvBye(n)
  <2>1. \E a : peers' = [peers EXCEPT ![n][a] = NoSession]
    BY <1>6 DEF PeerTimeout, RecvBye, Drop
  <2> QED BY <1>0, <1>2, <2>1
<1>7. CASE Connect(n)
  <2>1. PICK c \in Contacts[n] : \E a \in AddrOf[c] : Initiate(n, a, c)
    BY <1>7 DEF Connect
  <2> QED BY <1>3, <2>1 DEF MessengerAssumption
<1>8. CASE SendMessage(n)
  <2>1. PICK c \in Contacts[n] : (\E a \in AddrOf[c] : Initiate(n, a, c)) \/ peers' = peers
    BY <1>8 DEF SendMessage, sessionVars
  <2> QED BY <1>1, <1>3, <2>1 DEF MessengerAssumption
<1>9. CASE ReclaimSocket(n)
  <2>1. PICK pick \in SUBSET saved[n] :
          /\ ephs' = IF pick = {} THEN ephs ELSE ephs + 1
          /\ peers' = [peers EXCEPT ![n] = [a \in Addr |->
                IF \E x \in pick : x[2] = a
                THEN Initiated(n, a, (CHOOSE x \in pick : x[2] = a)[1]) ELSE @[a]]]
    BY <1>9 DEF ReclaimSocket
  <2> SUFFICES ASSUME NEW k \in Node, NEW b \in Addr PROVE Moved(k, b)
    OBVIOUS
  <2>2. CASE k = n /\ \E x \in pick : x[2] = b
    <3> DEFINE x == CHOOSE y \in pick : y[2] = b
    <3>1. x \in pick
      BY <2>2
    <3>2. peers'[k][b] = Initiated(n, b, x[1]) /\ ephs' = ephs + 1
      BY <1>0, <2>1, <2>2
    <3>3. x[1] \in Node
      BY <3>1 DEF TypeOK
    <3> HIDE DEF x
    <3> QED BY <2>2, <3>2, <3>3 DEF Moved
  <2>3. CASE ~(k = n /\ \E x \in pick : x[2] = b)
    <3>1. peers'[k][b] = peers[k][b]
      BY <1>0, <2>1, <2>3
    <3> QED BY <3>1 DEF Moved
  <2> QED BY <2>2, <2>3
<1> QED BY <1>4, <1>5, <1>6, <1>7, <1>8, <1>9

(* Packets move one session on, or begin it anew. *)
LEMMA PacketMoves ==
  ASSUME MessengerAssumption, AddressesNotReused, TypeOK, HostsOK, HandshakeOK, NEW n \in Node,
         RecvHello(n) \/ RecvIdentity(n) \/ RecvConfirm(n) \/ RecvChat(n) \/ RecvAck(n)
  PROVE  \A k \in Node, b \in Addr : Moved(k, b)
<1>0. peers \in [Node -> [Addr -> Session]] /\ ephs \in Nat
  BY DEF TypeOK
<1>1. ASSUME NEW a \in Addr, NEW t, Moved(n, a), peers' = [peers EXCEPT ![n][a] = t]
      PROVE  \A k \in Node, b \in Addr : Moved(k, b)
  <2>1. \A k \in Node, b \in Addr : ~(k = n /\ b = a) => peers'[k][b] = peers[k][b]
    BY <1>0, <1>1
  <2>2. \A k \in Node, b \in Addr : peers'[k][b] = peers[k][b] => Moved(k, b)
    BY DEF Moved
  <2> QED BY <1>1, <2>1, <2>2
<1>2. CASE RecvHello(n)
  <2>1. PICK p \in net : /\ Receives(n, p, "HELLO")
                         /\ HelloResponse(n, p) \/ HelloRestart(n, p) \/ HelloIncoming(n, p)
    BY <1>2 DEF RecvHello
  <2> DEFINE a == p.src
             s == peers[n][a]
             e == p.eph
  <2>2. a \in Addr /\ e \in Eph /\ e.node # n /\ e.no <= ephs
    BY <2>1, ReceivedHello
  <2>3. e.node \in Node /\ a \in AddrOf[e.node]
    BY <2>1 DEF Receives, HandshakeOK
  <2>4. CASE HelloResponse(n, p)
    <3> DEFINE t == Completed(s, e)
    <3>1. s.st = "hello" /\ peers' = [peers EXCEPT ![n][a] = t]
      BY <2>4 DEF HelloResponse
    <3> HIDE DEF a, s, e, t
    <3>2. peers'[n][a] = t
      BY <1>0, <2>2, <3>1
    <3>3. Moved(n, a)
      BY <2>2, <2>3, <3>1, <3>2 DEF Moved, s, t
    <3> QED BY <1>1, <2>2, <3>1, <3>3
  <2>5. CASE Answer(n, p)
    <3> DEFINE t == Answered(n, a, e)
    <3>1. ephs' = ephs + 1 /\ peers' = [peers EXCEPT ![n][a] = t]
      BY <2>5 DEF Answer
    <3> HIDE DEF a, s, e, t
    <3>2. peers'[n][a] = t
      BY <1>0, <2>2, <3>1
    <3>3. Moved(n, a)
      BY <2>2, <2>3, <3>1, <3>2 DEF Moved, t
    <3> QED BY <1>1, <2>2, <3>1, <3>3
  <2> QED BY <2>1, <2>4, <2>5 DEF HelloRestart, HelloIncoming
<1>3. CASE RecvIdentity(n)
  <2>1. PICK p \in net : /\ p.type = "IDENTITY"
                         /\ peers[n][p.src].st = "identity"
                         /\ \E old : peers' = [peers EXCEPT ![n] =
                              Rehome(@, old, p.src, Identified(n, peers[n][p.src], p.id))]
    BY <1>3 DEF RecvIdentity, Receives
  <2>2. p.src \in Addr /\ p.id \in Node
    BY <2>1, ReceivedTypes
  <2> DEFINE t == Identified(n, peers[n][p.src], p.id)
  <2>3. \E old : peers' = [peers EXCEPT ![n] = Rehome(@, old, p.src, t)]
    BY <2>1
  <2> HIDE DEF t
  <2>4. /\ peers'[n][p.src] = t
        /\ \A k \in Node, b \in Addr : \/ k = n /\ b = p.src
                                       \/ peers'[k][b] = peers[k][b] \/ peers'[k][b] = NoSession
    BY <1>0, <2>2, <2>3 DEF Rehome
  <2>5. Moved(n, p.src)
    BY <2>1, <2>2, <2>4 DEF Moved, t
  <2> QED BY <2>4, <2>5 DEF Moved
<1>4. CASE RecvConfirm(n) \/ RecvAck(n)
  <2>1. PICK p \in net : /\ p.type \in {"CONFIRM", "ACK"}
                         /\ CanDecrypt(peers[n][p.src], p.key)
                         /\ peers' = [peers EXCEPT ![n][p.src] = AfterDecrypt(peers[n][p.src], p.key)]
    BY <1>4 DEF RecvConfirm, RecvAck, Receives, CanDecrypt
  <2>2. p.src \in Addr /\ p.key \in Key
    BY <2>1, ReceivedTypes
  <2> DEFINE t == AfterDecrypt(peers[n][p.src], p.key)
  <2>3. peers' = [peers EXCEPT ![n][p.src] = t]
    BY <2>1
  <2> HIDE DEF t
  <2>4. peers'[n][p.src] = t
    BY <1>0, <2>2, <2>3
  <2>5. Moved(n, p.src)
    BY <2>1, <2>2, <2>4 DEF Moved, t
  <2> QED BY <1>1, <2>2, <2>3, <2>5
<1>5. CASE RecvChat(n)
  <2>1. PICK p \in net : /\ p.type = "CHAT"
                         /\ CanDecrypt(peers[n][p.src], p.key)
                         /\ peers' = [peers EXCEPT ![n][p.src] =
                               Remember(AfterDecrypt(peers[n][p.src], p.key), p.seq)]
    BY <1>5 DEF RecvChat, Receives
  <2>2. p.src \in Addr /\ p.key \in Key /\ p.seq \in Nat
    BY <2>1, ReceivedTypes
  <2> DEFINE t == Remember(AfterDecrypt(peers[n][p.src], p.key), p.seq)
  <2>3. peers' = [peers EXCEPT ![n][p.src] = t]
    BY <2>1
  <2> HIDE DEF t
  <2>4. peers'[n][p.src] = t
    BY <1>0, <2>2, <2>3
  <2>5. Moved(n, p.src)
    BY <2>1, <2>2, <2>4 DEF Moved, t
  <2> QED BY <1>1, <2>2, <2>3, <2>5
<1> QED BY <1>2, <1>3, <1>4, <1>5

LEMMA EveryMove ==
  ASSUME MessengerAssumption, AddressesNotReused, IInv, [Next]_vars
  PROVE  \A k \in Node, b \in Addr : Moved(k, b)
<1>1. TypeOK /\ HostsOK /\ HandshakeOK
  BY DEF IInv, TypeInv
<1>2. CASE UNCHANGED vars
  BY <1>2 DEF vars, Moved
<1>3. CASE Next
  BY <1>1, <1>3, CommandMoves, PacketMoves DEF Next
<1> QED BY <1>2, <1>3

----------------------------------------------------------------------------
(* A session gets the upgraded key of its two users when it is connected, and
   keeps it until a CONFIRM, CHAT or ACK under it makes it the only one. *)

LEMMA AnsweredKeyOK ==
  ASSUME NEW n \in Node, NEW a \in Addr, NEW e \in Eph, e.node \in Node \ {n}, a \in AddrOf[e.node]
  PROVE  /\ KeyOK(n, a, Answered(n, a, e))
         /\ \A s \in Session : KeyOK(n, a, Completed(s, e))
<1>1. ASSUME NEW t, NEW x, t.st = "identity", t.mine = x, t.key = BaseKey({x, e}),
             t.shared = {x, e}, t.up = NoKey, t.conf = FALSE
      PROVE  KeyOK(n, a, t)
  <2>1. t.key.eph = {x, e}
    BY <1>1 DEF BaseKey
  <2> QED BY <1>1, <2>1 DEF KeyOK, Connected
<1>2. KeyOK(n, a, Answered(n, a, e))
  <2> DEFINE t == Answered(n, a, e)
             x == NewEph(n, a)
  <2>1. /\ t.st = "identity" /\ t.mine = x /\ t.key = BaseKey({x, e})
        /\ t.shared = {x, e} /\ t.up = NoKey /\ t.conf = FALSE
    BY DEF Answered, NoSession
  <2> HIDE DEF t, x
  <2>2. KeyOK(n, a, t)
    BY <1>1, <2>1
  <2> QED BY <2>2 DEF t
<1>3. ASSUME NEW s \in Session PROVE KeyOK(n, a, Completed(s, e))
  <2> DEFINE t == Completed(s, e)
             x == s.mine
  <2>1. /\ t.st = "identity" /\ t.mine = x /\ t.key = BaseKey({x, e})
        /\ t.shared = {x, e} /\ t.up = NoKey /\ t.conf = FALSE
    BY DEF Completed, Session
  <2> HIDE DEF t, x
  <2>2. KeyOK(n, a, t)
    BY <1>1, <2>1
  <2> QED BY <2>2 DEF t
<1> QED BY <1>2, <1>3

LEMMA IdentifiedKeyOK ==
  ASSUME NEW n \in Node, NEW a \in Addr, NEW s \in Session, s.st = "identity", KeyOK(n, a, s),
         NEW c \in Node
  PROVE  KeyOK(n, a, Identified(n, s, c))
<1> DEFINE t == Identified(n, s, c)
<1>1. /\ t.st = "connected" /\ t.cid = c /\ t.mine = s.mine /\ t.key = s.key /\ t.conf = s.conf
      /\ s.shared # {} /\ c \in Contacts[n] => t.up = UpgradedKey(s.shared, n, c)
  BY DEF Identified, Session
<1>2. /\ s.shared = s.key.eph /\ ~s.conf /\ s.shared # {}
      /\ \E f \in s.key.eph : /\ f.node \in Node \ {n} /\ a \in AddrOf[f.node]
                             /\ s.key.eph = {s.mine, f}
  BY DEF KeyOK
<1> HIDE DEF t
<1>3. KeyOK(n, a, t)
  BY <1>1, <1>2 DEF KeyOK, Connected
<1> QED BY <1>3 DEF t

LEMMA DecryptedKeyOK ==
  ASSUME NEW n \in Node, NEW a \in Addr, NEW s \in Session, KeyOK(n, a, s),
         SessionOK(n, a, s, ephs), NEW k \in Key
  PROVE  /\ KeyOK(n, a, AfterDecrypt(s, k))
         /\ \A i \in Nat : KeyOK(n, a, Remember(AfterDecrypt(s, k), i))
<1> DEFINE t == AfterDecrypt(s, k)
<1>1. t \in Session /\ KeyOK(n, a, t)
  <2>1. CASE s.up # NoKey /\ k = s.up /\ ~s.conf
    <3>1. /\ t.st = s.st /\ t.cid = s.cid /\ t.mine = s.mine /\ t.key = s.up
          /\ t.conf = TRUE
      BY <2>1 DEF AfterDecrypt, Session
    <3>2. t \in Session
      BY <2>1, KeyTypes DEF AfterDecrypt, Session
    <3>3. Connected(s) /\ t.key.eph = s.key.eph
      BY <2>1, <3>1 DEF SessionOK, Connected
    <3> HIDE DEF t
    <3>4. s.cid \in Contacts[n] => s.up = UpgradedKey(s.key.eph, n, s.cid)
      BY <2>1, <3>3 DEF KeyOK
    <3> QED BY <3>1, <3>2, <3>3, <3>4 DEF KeyOK, Connected
  <2>2. CASE ~(s.up # NoKey /\ k = s.up /\ ~s.conf)
    BY <2>2 DEF AfterDecrypt
  <2> QED BY <2>1, <2>2
<1> HIDE DEF t
<1>2. ASSUME NEW i \in Nat PROVE KeyOK(n, a, Remember(t, i))
  <2> DEFINE u == Remember(t, i)
  <2>1. /\ u.st = t.st /\ u.cid = t.cid /\ u.mine = t.mine /\ u.key = t.key /\ u.up = t.up
        /\ u.conf = t.conf /\ u.shared = t.shared
    BY <1>1 DEF Remember, Session
  <2> HIDE DEF u
  <2>2. KeyOK(n, a, u)
    BY <1>1, <2>1 DEF KeyOK, Connected
  <2> QED BY <2>2 DEF u
<1> QED BY <1>1, <1>2 DEF t

LEMMA KeysStep ==
  ASSUME TypeOK, SessionsOK, KeysOK, \A k \in Node, b \in Addr : Moved(k, b)
  PROVE  KeysOK'
<1> SUFFICES ASSUME NEW n \in Node, NEW a \in Addr PROVE KeyOK(n, a, peers'[n][a])
  BY DEF KeysOK, KeyOK
<1> DEFINE s == peers[n][a]
           t == peers'[n][a]
<1>1. KeyOK(n, a, s) /\ s \in Session /\ Moved(n, a)
  BY DEF KeysOK, TypeOK
<1>2. KeyOK(n, a, NoSession)
  BY DEF KeyOK, NoSession, Connected
<1>3. \A c \in Node : KeyOK(n, a, Initiated(n, a, c))
  BY DEF KeyOK, NoSession, Initiated, Connected
<1>4. ASSUME NEW k \in Key, CanDecrypt(s, k) PROVE SessionOK(n, a, s, ephs)
  <2>1. s # NoSession
    BY <1>4 DEF CanDecrypt, NoSession
  <2> QED BY <2>1 DEF SessionsOK
<1> HIDE DEF s, t
<1> QED BY <1>1, <1>2, <1>3, <1>4, AnsweredKeyOK, IdentifiedKeyOK, DecryptedKeyOK DEF Moved, s, t

----------------------------------------------------------------------------
(* The two tables of one daemon, n. *)

TablesOf(n) ==
  /\ \A c \in Node : addrs[n][c] # NoAddr => peers[n][addrs[n][c]].st # "none"
  /\ \A a \in Addr : Connected(peers[n][a]) => addrs[n][peers[n][a].cid] = a
  /\ mode[n] # "up" => /\ \A a \in Addr : peers[n][a] = NoSession
                       /\ \A c \in Node : addrs[n][c] = NoAddr
  /\ calls = 0 =>
       /\ mode[n] # "yielded"
       /\ \A c \in online[n] : addrs[n][c] # NoAddr /\ Connected(peers[n][addrs[n][c]])

LEMMA TablesOfAll ==
  /\ TablesInv => \A n \in Node : TablesOf(n)
  /\ KeysOK' /\ (\A n \in Node : TablesOf(n)') => TablesInv'
BY DEF TablesInv, TablesAgree, LentOK, OnlineOK, TablesOf

(* An address holds at most one user's session, so two contacts of n are never on
   file under one address. *)
LEMMA OneAtAddress ==
  ASSUME AddressesNotReused, HostsOK, SessionsOK, TypeOK, NEW n \in Node, NEW a \in Addr
  PROVE  /\ \A c, d \in Node : addrs[n][c] = a /\ addrs[n][d] = a /\ a # NoAddr => c = d
         /\ Connected(peers[n][a]) => peers[n][a].cid \in Node /\ a \in AddrOf[peers[n][a].cid]
         /\ Connected(peers[n][a]) =>
               \A c \in Node : a \in AddrOf[c] => peers[n][a].cid = c
<1>1. \A c, d \in Node : addrs[n][c] = a /\ addrs[n][d] = a /\ a # NoAddr => c = d
  BY HostUnique DEF HostsOK
<1>2. ASSUME Connected(peers[n][a])
      PROVE  peers[n][a].cid \in Node /\ a \in AddrOf[peers[n][a].cid]
  <2> DEFINE s == peers[n][a]
  <2>1. s \in Session
    BY DEF TypeOK
  <2>2. SessionOK(n, a, s, ephs) /\ Connected(s)
    BY <1>2 DEF SessionsOK, Connected
  <2> HIDE DEF s
  <2>3. s.cid \in Node /\ a \in AddrOf[s.cid]
    BY <2>1, <2>2 DEF SessionOK, Session
  <2> QED BY <2>3 DEF s
<1> QED BY <1>1, <1>2, HostUnique

(* Stopping, starting, moving and lending the socket. *)
LEMMA LifecycleTables ==
  ASSUME TypeOK, NEW n \in Node, TablesOf(n),
         \/ Start(n) \/ Crash(n) \/ Shutdown(n) \/ Move(n) \/ YieldSocket(n)
         \/ RetryOutbox(n) \/ Keepalive(n)
  PROVE  TablesOf(n)'
<1>0. /\ peers \in [Node -> [Addr -> Session]] /\ calls \in Nat
      /\ addrs \in [Node -> [Node -> Addr \cup {NoAddr}]]
      /\ mode \in [Node -> {"up", "yielded", "down"}] /\ online \in [Node -> SUBSET Node]
  BY DEF TypeOK
<1>1. CASE Start(n) \/ Move(n) \/ RetryOutbox(n) \/ Keepalive(n)
  <2>1. UNCHANGED <<peers, addrs, online, calls>> /\ mode'[n] = "up"
    BY <1>0, <1>1 DEF Start, Move, RetryOutbox, Keepalive, sessionVars, procVars, Up
  <2> QED BY <2>1 DEF TablesOf
<1>2. CASE Crash(n) \/ Shutdown(n) \/ YieldSocket(n)
  <2>1. /\ \A a \in Addr : peers'[n][a] = NoSession
        /\ \A c \in Node : addrs'[n][c] = NoAddr
    BY <1>0, <1>2 DEF Crash, Shutdown, YieldSocket, Stop
  <2>2. \/ mode'[n] = "down" /\ online'[n] = {}
        \/ calls' # 0
    BY <1>0, <1>2 DEF Crash, Shutdown, YieldSocket, Stop
  <2>3. ~Connected(NoSession)
    BY DEF Connected, NoSession
  <2> QED BY <2>1, <2>2, <2>3 DEF TablesOf
<1> QED BY <1>1, <1>2

(* A dropped session takes its entries on file with it, and its user goes offline. *)
LEMMA DropTables ==
  ASSUME AddressesNotReused, TypeOK, HostsOK, SessionsOK, MessengerAssumption,
         NEW n \in Node, TablesOf(n), PeerTimeout(n) \/ RecvBye(n)
  PROVE  TablesOf(n)'
<1>0. /\ peers \in [Node -> [Addr -> Session]] /\ online \in [Node -> SUBSET Node]
      /\ addrs \in [Node -> [Node -> Addr \cup {NoAddr}]]
  BY DEF TypeOK
<1>1. PICK a \in Addr : Drop(n, a)
  BY ReceivedTypes DEF PeerTimeout, RecvBye, Receives
<1>2. mode[n] = "up" /\ UNCHANGED <<mode, calls>>
  BY DEF PeerTimeout, RecvBye, Receives, Up, procVars
<1>3. /\ peers'[n][a] = NoSession
      /\ \A b \in Addr : b # a => peers'[n][b] = peers[n][b]
      /\ \A c \in Node : addrs'[n][c] = IF addrs[n][c] = a THEN NoAddr ELSE addrs[n][c]
      /\ online'[n] = IF Connected(peers[n][a]) THEN online[n] \ {peers[n][a].cid} ELSE online[n]
  BY <1>0, <1>1 DEF Drop, Forget
<1>4. \A c \in Node : addrs[n][c] # NoAddr => addrs[n][c] \in Addr /\ addrs[n][c] \in AddrOf[c]
  BY <1>0 DEF HostsOK
<1>5. ~Connected(NoSession)
  BY DEF Connected, NoSession
<1>6. \A c \in Node : addrs'[n][c] # NoAddr => peers'[n][addrs'[n][c]].st # "none"
  BY <1>3, <1>4 DEF TablesOf
<1>7. \A b \in Addr : Connected(peers'[n][b]) => addrs'[n][peers'[n][b].cid] = b
  BY <1>3, <1>5, OneAtAddress DEF TablesOf
<1>8. ASSUME calls = 0, NEW c \in online'[n]
      PROVE  addrs'[n][c] # NoAddr /\ Connected(peers'[n][addrs'[n][c]])
  <2>1. c \in online[n] /\ c \in Node
    BY <1>0, <1>3
  <2>2. addrs[n][c] # NoAddr /\ Connected(peers[n][addrs[n][c]])
    BY <1>8, <2>1 DEF TablesOf
  <2>3. addrs[n][c] # a
    <3> SUFFICES ASSUME addrs[n][c] = a PROVE FALSE
      OBVIOUS
    <3>1. Connected(peers[n][a]) /\ a \in AddrOf[c]
      BY <1>4, <2>1, <2>2
    <3>2. peers[n][a].cid = c
      BY <2>1, <3>1, OneAtAddress
    <3> QED BY <1>3, <3>1, <3>2
  <2> QED BY <1>3, <1>4, <2>1, <2>2, <2>3
<1> QED BY <1>2, <1>6, <1>7, <1>8 DEF TablesOf

(* A handshake begins only with a contact that has no address on file. *)
LEMMA InitiateTables ==
  ASSUME AddressesNotReused, TypeOK, HostsOK, SessionsOK, MessengerAssumption,
         NEW n \in Node, TablesOf(n), Connect(n) \/ SendMessage(n)
  PROVE  TablesOf(n)'
<1>0. /\ peers \in [Node -> [Addr -> Session]] /\ online \in [Node -> SUBSET Node]
      /\ addrs \in [Node -> [Node -> Addr \cup {NoAddr}]]
  BY DEF TypeOK
<1>1. UNCHANGED <<mode, calls>>
  BY DEF Connect, SendMessage, procVars
<1>2. CASE UNCHANGED sessionVars
  BY <1>1, <1>2 DEF sessionVars, TablesOf
<1>3. ASSUME NEW c \in Contacts[n], Up(n), addrs[n][c] = NoAddr,
             NEW a \in AddrOf[c], Initiate(n, a, c)
      PROVE  TablesOf(n)'
  <2>1. c \in Node /\ a \in Addr /\ mode[n] = "up" /\ online' = online
    BY <1>3 DEF MessengerAssumption, Up, Initiate
  <2>2. /\ peers'[n][a] = Initiated(n, a, c)
        /\ \A b \in Addr : b # a => peers'[n][b] = peers[n][b]
        /\ addrs'[n][c] = a
        /\ \A d \in Node : d # c => addrs'[n][d] = addrs[n][d]
    BY <1>0, <1>3, <2>1 DEF Initiate
  <2>3. Initiated(n, a, c).st = "hello" /\ ~Connected(Initiated(n, a, c))
    BY DEF Initiated, NoSession, Connected
  <2>4. \A d \in Node : addrs[n][d] # NoAddr => addrs[n][d] \in Addr
    BY <1>0
  <2>5. ~Connected(peers[n][a])
    BY <1>3, <2>1, OneAtAddress DEF TablesOf, MessengerAssumption
  <2>6. \A d \in Node : addrs'[n][d] # NoAddr => peers'[n][addrs'[n][d]].st # "none"
    BY <2>1, <2>2, <2>3, <2>4 DEF TablesOf
  <2>7. \A b \in Addr : Connected(peers'[n][b]) => addrs'[n][peers'[n][b].cid] = b
    <3> SUFFICES ASSUME NEW b \in Addr, Connected(peers'[n][b])
                 PROVE  addrs'[n][peers'[n][b].cid] = b
      OBVIOUS
    <3>1. b # a /\ peers'[n][b] = peers[n][b]
      BY <2>2, <2>3
    <3>2. addrs[n][peers[n][b].cid] = b /\ peers[n][b].cid \in Node
      BY <3>1, OneAtAddress DEF TablesOf
    <3>3. peers[n][b].cid # c
      BY <1>3, <3>2 DEF MessengerAssumption
    <3> QED BY <2>2, <3>1, <3>2, <3>3
  <2>8. ASSUME calls = 0, NEW d \in online[n]
        PROVE  addrs'[n][d] # NoAddr /\ Connected(peers'[n][addrs'[n][d]])
    <3>1. d \in Node /\ addrs[n][d] # NoAddr /\ Connected(peers[n][addrs[n][d]])
      BY <1>0, <2>8 DEF TablesOf
    <3>2. d # c /\ addrs[n][d] # a
      BY <1>3, <2>5, <3>1
    <3> QED BY <2>2, <2>4, <3>1, <3>2
  <2> QED BY <1>1, <2>1, <2>6, <2>7, <2>8 DEF TablesOf
<1>4. CASE Connect(n)
  <2>1. PICK c \in Contacts[n] : addrs[n][c] = NoAddr /\ \E a \in AddrOf[c] : Initiate(n, a, c)
    BY <1>4 DEF Connect
  <2>2. Up(n)
    BY <1>4 DEF Connect
  <2> QED BY <1>3, <2>1, <2>2
<1>5. CASE SendMessage(n)
  <2>1. PICK c \in Contacts[n] : \/ /\ Up(n) /\ addrs[n][c] = NoAddr
                                    /\ \E a \in AddrOf[c] : Initiate(n, a, c)
                                 \/ UNCHANGED sessionVars
    BY <1>5 DEF SendMessage
  <2> QED BY <1>2, <1>3, <2>1
<1> QED BY <1>4, <1>5

(* After a call the saved contacts are asked to connect, each at one address. *)
LEMMA ReclaimTables ==
  ASSUME TypeOK, NEW n \in Node, TablesOf(n), ReclaimSocket(n)
  PROVE  TablesOf(n)'
<1>0. /\ peers \in [Node -> [Addr -> Session]] /\ saved[n] \subseteq Node \X Addr
      /\ addrs \in [Node -> [Node -> Addr \cup {NoAddr}]]
      /\ mode \in [Node -> {"up", "yielded", "down"}]
  BY DEF TypeOK
<1>1. PICK pick \in SUBSET saved[n] :
          /\ peers' = [peers EXCEPT ![n] = [a \in Addr |->
                IF \E x \in pick : x[2] = a
                THEN Initiated(n, a, (CHOOSE x \in pick : x[2] = a)[1]) ELSE @[a]]]
          /\ addrs' = [addrs EXCEPT ![n] = [c \in Node |->
                IF \E x \in pick : x[1] = c
                THEN (CHOOSE x \in pick : x[1] = c)[2] ELSE @[c]]]
  BY DEF ReclaimSocket
<1>2. mode[n] = "yielded" /\ mode'[n] = "up" /\ calls' = calls
  BY <1>0 DEF ReclaimSocket
<1>3. /\ \A a \in Addr : peers[n][a] = NoSession
      /\ \A c \in Node : addrs[n][c] = NoAddr
      /\ calls # 0
  BY <1>2 DEF TablesOf
<1>4. \A a, c : Initiated(n, a, c).st = "hello" /\ NoSession.st = "none"
  BY DEF Initiated, NoSession
<1>5. \A a \in Addr : ~Connected(peers'[n][a])
  <2> TAKE a \in Addr
  <2>1. peers'[n][a] = NoSession \/ \E c : peers'[n][a] = Initiated(n, a, c)
    BY <1>0, <1>1, <1>3
  <2> QED BY <1>4, <2>1 DEF Connected
<1>6. ASSUME NEW c \in Node, addrs'[n][c] # NoAddr PROVE peers'[n][addrs'[n][c]].st # "none"
  <2> DEFINE x == CHOOSE y \in pick : y[1] = c
  <2>1. (\E y \in pick : y[1] = c) /\ addrs'[n][c] = x[2]
    BY <1>0, <1>1, <1>3, <1>6
  <2>2. x \in pick
    BY <2>1
  <2> HIDE DEF x
  <2>3. x[2] \in Addr
    BY <1>0, <2>2
  <2>4. \E d : peers'[n][x[2]] = Initiated(n, x[2], d)
    BY <1>0, <1>1, <2>2, <2>3
  <2> QED BY <1>4, <2>1, <2>4
<1> QED BY <1>2, <1>3, <1>5, <1>6 DEF TablesOf

(* A connected peer that says HELLO is offline until it has identified itself. *)
LEMMA HelloTables ==
  ASSUME AddressesNotReused, TypeOK, HostsOK, SessionsOK, MessengerAssumption,
         NEW n \in Node, TablesOf(n), RecvHello(n)
  PROVE  TablesOf(n)'
<1>0. /\ peers \in [Node -> [Addr -> Session]] /\ online \in [Node -> SUBSET Node]
      /\ addrs \in [Node -> [Node -> Addr \cup {NoAddr}]]
  BY DEF TypeOK
<1>1. PICK p \in net : /\ Receives(n, p, "HELLO")
                       /\ HelloResponse(n, p) \/ HelloRestart(n, p) \/ HelloIncoming(n, p)
  BY DEF RecvHello
<1> DEFINE a == p.src
           s == peers[n][a]
<1>2. a \in Addr /\ s \in Session /\ mode[n] = "up" /\ UNCHANGED <<mode, calls>>
  BY <1>0, <1>1, ReceivedTypes DEF Receives, Up, RecvHello, procVars
<1> DEFINE t == peers'[n][a]
<1>3. /\ \A b \in Addr : b # a => peers'[n][b] = peers[n][b]
      /\ t.st = "identity"
  <2>1. CASE HelloResponse(n, p)
    <3>1. peers' = [peers EXCEPT ![n][a] = Completed(s, p.eph)]
      BY <2>1 DEF HelloResponse
    <3>2. Completed(s, p.eph).st = "identity"
      BY <1>2 DEF Completed, Session
    <3> QED BY <1>0, <1>2, <3>1, <3>2
  <2>2. CASE Answer(n, p)
    <3>1. peers' = [peers EXCEPT ![n][a] = Answered(n, a, p.eph)]
      BY <2>2 DEF Answer
    <3>2. Answered(n, a, p.eph).st = "identity"
      BY DEF Answered, NoSession
    <3> QED BY <1>0, <1>2, <3>1, <3>2
  <2> QED BY <1>1, <2>1, <2>2 DEF HelloRestart, HelloIncoming
<1>4. \/ ~Connected(s) /\ addrs' = addrs /\ online' = online
      \/ /\ Connected(s)
         /\ \A c \in Node : addrs'[n][c] = IF c = s.cid THEN NoAddr ELSE addrs[n][c]
         /\ online'[n] = online[n] \ {s.cid}
  <2>1. CASE HelloResponse(n, p) \/ HelloIncoming(n, p)
    BY <2>1 DEF HelloResponse, HelloIncoming, Connected
  <2>2. CASE HelloRestart(n, p)
    <3>1. /\ Connected(s)
          /\ addrs' = [addrs EXCEPT ![n] = [c \in Node |-> IF c = s.cid THEN NoAddr ELSE @[c]]]
          /\ online' = [online EXCEPT ![n] = @ \ {s.cid}]
      BY <2>2 DEF HelloRestart
    <3> QED BY <1>0, <3>1
  <2> QED BY <1>1, <2>1, <2>2
<1>5. ~Connected(t)
  BY <1>3 DEF Connected
<1>6. \A c \in Node : addrs[n][c] # NoAddr => addrs[n][c] \in Addr /\ addrs[n][c] \in AddrOf[c]
  BY <1>0 DEF HostsOK
<1> HIDE DEF a, t, s
<1>7. \A c \in Node : addrs'[n][c] # NoAddr => peers'[n][addrs'[n][c]].st # "none"
  BY <1>3, <1>4, <1>6 DEF TablesOf, t
<1>8. ASSUME NEW b \in Addr, Connected(peers'[n][b]) PROVE addrs'[n][peers'[n][b].cid] = b
  <2>1. b # a /\ peers'[n][b] = peers[n][b]
    BY <1>3, <1>5, <1>8 DEF t
  <2>2. addrs[n][peers[n][b].cid] = b /\ peers[n][b].cid \in Node
    BY <1>8, <2>1, OneAtAddress DEF TablesOf
  <2>3. Connected(s) => addrs[n][s.cid] = a
    BY <1>2 DEF TablesOf, s
  <2> QED BY <1>4, <2>1, <2>2, <2>3
<1>9. ASSUME calls = 0, NEW c \in online'[n]
      PROVE  addrs'[n][c] # NoAddr /\ Connected(peers'[n][addrs'[n][c]])
  <2>1. c \in online[n] /\ c \in Node /\ (Connected(s) => c # s.cid)
    BY <1>0, <1>4
  <2>2. addrs[n][c] # NoAddr /\ Connected(peers[n][addrs[n][c]])
    BY <1>9, <2>1 DEF TablesOf
  <2>3. addrs'[n][c] = addrs[n][c]
    BY <1>4, <2>1
  <2>4. addrs[n][c] # a
    <3> SUFFICES ASSUME addrs[n][c] = a PROVE FALSE
      OBVIOUS
    <3>1. Connected(s) /\ a \in AddrOf[c]
      BY <1>6, <2>1, <2>2 DEF s
    <3>2. s.cid = c
      BY <1>2, <2>1, <3>1, OneAtAddress DEF s
    <3> QED BY <2>1, <3>1, <3>2
  <2> QED BY <1>3, <1>6, <2>1, <2>2, <2>3, <2>4
<1> QED BY <1>2, <1>7, <1>8, <1>9 DEF TablesOf

(* IDENTITY puts the contact on file at the address it spoke from, and the session
   at its former address, which was nobody else's, is gone. *)
LEMMA IdentityTables ==
  ASSUME AddressesNotReused, TypeOK, HostsOK, SessionsOK, HandshakeOK, MessengerAssumption,
         NEW n \in Node, TablesOf(n), RecvIdentity(n)
  PROVE  TablesOf(n)'
<1>0. /\ peers \in [Node -> [Addr -> Session]] /\ online \in [Node -> SUBSET Node]
      /\ addrs \in [Node -> [Node -> Addr \cup {NoAddr}]]
  BY DEF TypeOK
<1>1. PICK p \in net :
        /\ Receives(n, p, "IDENTITY")
        /\ peers[n][p.src].st = "identity"
        /\ peers' = [peers EXCEPT ![n] = Rehome(@, addrs[n][p.id], p.src,
                                                Identified(n, peers[n][p.src], p.id))]
        /\ addrs' = [addrs EXCEPT ![n][p.id] = p.src]
        /\ online' = [online EXCEPT ![n] = @ \cup {p.id}]
  BY DEF RecvIdentity
<1> DEFINE a == p.src
           c == p.id
           old == addrs[n][c]
           t == Identified(n, peers[n][a], c)
<1>2. /\ a \in Addr /\ c \in Node /\ a \in AddrOf[c]
      /\ mode[n] = "up" /\ UNCHANGED <<mode, calls>>
  BY <1>1, ReceivedTypes DEF Receives, Up, RecvIdentity, procVars, HandshakeOK
<1>3. Connected(t) /\ t.cid = c
  BY <1>0, <1>2 DEF Identified, Session, Connected
<1>4. peers' = [peers EXCEPT ![n] = Rehome(@, old, a, t)]
  BY <1>1
<1> HIDE DEF t
<1>5. /\ peers'[n][a] = t
      /\ \A b \in Addr : b # a => peers'[n][b] = IF b = old THEN NoSession ELSE peers[n][b]
      /\ addrs'[n][c] = a
      /\ \A d \in Node : d # c => addrs'[n][d] = addrs[n][d]
      /\ online'[n] = online[n] \cup {c}
  BY <1>0, <1>1, <1>2, <1>4 DEF Rehome
<1>6. /\ NoSession.st = "none" /\ ~Connected(NoSession)
      /\ t.st # "none"
  BY <1>3 DEF NoSession, Connected
<1>7. \A d \in Node : addrs[n][d] # NoAddr => addrs[n][d] \in Addr /\ addrs[n][d] \in AddrOf[d]
  BY <1>0 DEF HostsOK
<1>8. \A d \in Node : d # c /\ addrs[n][d] # NoAddr => addrs[n][d] # old
  BY <1>2, <1>7, HostUnique
<1>9. \A d \in Node : addrs'[n][d] # NoAddr => peers'[n][addrs'[n][d]].st # "none"
  <2> TAKE d \in Node
  <2>1. CASE d = c
    BY <1>5, <1>6, <2>1
  <2>2. CASE d # c
    BY <1>5, <1>6, <1>7, <1>8, <2>2 DEF TablesOf
  <2> QED BY <2>1, <2>2
<1>10. ASSUME NEW b \in Addr, Connected(peers'[n][b]) PROVE addrs'[n][peers'[n][b].cid] = b
  <2>1. CASE b = a
    BY <1>3, <1>5, <2>1
  <2>2. CASE b # a
    <3>1. b # old /\ peers'[n][b] = peers[n][b]
      BY <1>5, <1>6, <1>10, <2>2
    <3>2. addrs[n][peers[n][b].cid] = b /\ peers[n][b].cid \in Node
      BY <1>10, <3>1, OneAtAddress DEF TablesOf
    <3> QED BY <1>5, <3>1, <3>2
  <2> QED BY <2>1, <2>2
<1>11. ASSUME calls = 0, NEW d \in online'[n]
       PROVE  addrs'[n][d] # NoAddr /\ Connected(peers'[n][addrs'[n][d]])
  <2>1. CASE d = c
    <3>1. a # NoAddr
      BY <1>2 DEF MessengerAssumption
    <3> QED BY <1>3, <1>5, <2>1, <3>1
  <2>2. CASE d # c
    <3>1. d \in online[n] /\ d \in Node
      BY <1>0, <1>5, <1>11, <2>2
    <3>2. addrs[n][d] # NoAddr /\ Connected(peers[n][addrs[n][d]])
      BY <1>11, <3>1 DEF TablesOf
    <3>3. addrs[n][d] # a
      BY <1>1, <3>2 DEF Connected
    <3> QED BY <1>5, <1>7, <1>8, <2>2, <3>1, <3>2, <3>3
  <2> QED BY <2>1, <2>2
<1> QED BY <1>2, <1>9, <1>10, <1>11 DEF TablesOf

(* What arrives in a session leaves its contact and its stage alone. *)
LEMMA SessionTables ==
  ASSUME TypeOK, SessionsOK, NEW n \in Node, TablesOf(n), RecvConfirm(n) \/ RecvChat(n) \/ RecvAck(n)
  PROVE  TablesOf(n)'
<1>0. /\ peers \in [Node -> [Addr -> Session]] /\ UNCHANGED <<addrs, online, mode, calls>>
  BY DEF TypeOK, RecvConfirm, RecvChat, RecvAck, procVars
<1>1. \A b \in Addr : /\ peers'[n][b].st = peers[n][b].st
                      /\ peers'[n][b].cid = peers[n][b].cid
                      /\ peers[n][b] = NoSession => peers'[n][b] = NoSession
  <2>1. PICK p \in net : /\ p.type \in {"CONFIRM", "CHAT", "ACK"}
                         /\ CanDecrypt(peers[n][p.src], p.key)
                         /\ LET t == AfterDecrypt(peers[n][p.src], p.key)
                            IN  \/ peers' = [peers EXCEPT ![n][p.src] = t]
                                \/ peers' = [peers EXCEPT ![n][p.src] = Remember(t, p.seq)]
    BY DEF RecvConfirm, RecvChat, RecvAck, Receives, CanDecrypt
  <2> DEFINE a == p.src
             s == peers[n][a]
             t == AfterDecrypt(s, p.key)
  <2>2. a \in Addr /\ p.key \in Key
    BY <2>1, ReceivedTypes
  <2>3. t \in Session /\ t.st = s.st /\ t.cid = s.cid
    BY <2>1, <2>2, Decrypts
  <2>4. Remember(t, p.seq).st = t.st /\ Remember(t, p.seq).cid = t.cid
    BY <2>3 DEF Remember, Session
  <2>5. s # NoSession
    BY <2>1 DEF CanDecrypt, NoSession
  <2> HIDE DEF s, t
  <2>6. /\ peers'[n][a].st = s.st /\ peers'[n][a].cid = s.cid
        /\ \A b \in Addr : b # a => peers'[n][b] = peers[n][b]
    BY <1>0, <2>1, <2>2, <2>3, <2>4 DEF s, t
  <2> QED BY <2>5, <2>6 DEF s
<1>2. \A b \in Addr : Connected(peers'[n][b]) <=> Connected(peers[n][b])
  BY <1>1 DEF Connected
<1>3. \A c \in Node : addrs[n][c] # NoAddr => addrs[n][c] \in Addr
  BY DEF TypeOK
<1>4. online[n] \subseteq Node
  BY DEF TypeOK
<1> QED BY <1>0, <1>1, <1>2, <1>3, <1>4 DEF TablesOf

(* A step of n leaves the tables of every other daemon alone. *)
LEMMA OthersTables ==
  ASSUME TypeOK, NEW n \in Node, NEW k \in Node, k # n, TablesOf(k),
         \/ Start(n) \/ Crash(n) \/ Shutdown(n) \/ Move(n)
         \/ YieldSocket(n) \/ ReclaimSocket(n)
         \/ Connect(n) \/ SendMessage(n) \/ RetryOutbox(n) \/ Keepalive(n) \/ PeerTimeout(n)
         \/ RecvHello(n) \/ RecvIdentity(n) \/ RecvConfirm(n)
         \/ RecvChat(n) \/ RecvAck(n) \/ RecvBye(n)
  PROVE  TablesOf(k)'
<1>0. /\ DOMAIN peers = Node /\ DOMAIN addrs = Node /\ DOMAIN online = Node /\ DOMAIN mode = Node
      /\ peers \in [Node -> [Addr -> Session]] /\ calls \in Nat
  BY DEF TypeOK
<1> SUFFICES /\ peers'[k] = peers[k] /\ addrs'[k] = addrs[k] /\ online'[k] = online[k]
             /\ mode'[k] = mode[k] /\ (calls' = 0 => calls = 0)
  BY DEF TablesOf
<1>1. CASE Start(n) \/ Crash(n) \/ Shutdown(n) \/ Move(n) \/ YieldSocket(n)
  BY <1>0, <1>1 DEF Start, Crash, Shutdown, Stop, Move, YieldSocket, sessionVars
<1>2. CASE ReclaimSocket(n)
  <2>1. /\ \E f : peers' = [peers EXCEPT ![n] = f]
        /\ \E f : addrs' = [addrs EXCEPT ![n] = f]
        /\ mode' = [mode EXCEPT ![n] = "up"] /\ UNCHANGED <<online, calls>>
    BY <1>2 DEF ReclaimSocket
  <2> QED BY <1>0, <2>1
<1>3. CASE Connect(n) \/ SendMessage(n)
  <2>1. /\ UNCHANGED <<mode, calls>>
        /\ \/ UNCHANGED <<peers, addrs, online>>
           \/ \E c, a : Initiate(n, a, c)
    BY <1>3 DEF Connect, SendMessage, procVars, sessionVars
  <2> QED BY <1>0, <2>1 DEF Initiate
<1>4. CASE RetryOutbox(n) \/ Keepalive(n) \/ RecvConfirm(n) \/ RecvChat(n) \/ RecvAck(n)
  BY <1>0, <1>4 DEF RetryOutbox, Keepalive, RecvConfirm, RecvChat, RecvAck, sessionVars, procVars
<1>5. CASE PeerTimeout(n) \/ RecvBye(n)
  BY <1>0, <1>5 DEF PeerTimeout, RecvBye, Drop, procVars
<1>6. CASE RecvHello(n)
  <2>1. PICK p \in net : HelloResponse(n, p) \/ HelloRestart(n, p) \/ HelloIncoming(n, p)
    BY <1>6 DEF RecvHello
  <2>2. UNCHANGED <<mode, calls>>
    BY <1>6 DEF RecvHello, procVars
  <2> QED BY <1>0, <2>1, <2>2 DEF HelloResponse, HelloRestart, HelloIncoming, Answer
<1>7. CASE RecvIdentity(n)
  <2>1. /\ \E f : peers' = [peers EXCEPT ![n] = f]
        /\ \E i, a : addrs' = [addrs EXCEPT ![n][i] = a]
        /\ \E i : online' = [online EXCEPT ![n] = @ \cup {i}]
        /\ UNCHANGED <<mode, calls>>
    BY <1>7 DEF RecvIdentity, procVars
  <2> QED BY <1>0, <2>1
<1> QED BY <1>1, <1>2, <1>3, <1>4, <1>5, <1>6, <1>7

LEMMA StepTables ==
  ASSUME MessengerAssumption, AddressesNotReused, IInv, TablesInv, [Next]_vars
  PROVE  TablesInv'
<1>0. TypeOK /\ HostsOK /\ SessionsOK /\ HandshakeOK /\ KeysOK
  BY DEF IInv, TypeInv, TablesInv
<1>1. KeysOK'
  BY <1>0, EveryMove, KeysStep
<1>2. \A n \in Node : TablesOf(n)
  BY TablesOfAll
<1>3. CASE UNCHANGED vars
  <2>1. \A n \in Node : TablesOf(n)'
    BY <1>2, <1>3 DEF vars, TablesOf
  <2> QED BY <1>1, <2>1, TablesOfAll
<1>4. CASE Next
  <2>1. PICK n \in Node :
           \/ Start(n) \/ Crash(n) \/ Shutdown(n) \/ Move(n)
           \/ YieldSocket(n) \/ ReclaimSocket(n)
           \/ Connect(n) \/ SendMessage(n) \/ RetryOutbox(n) \/ Keepalive(n) \/ PeerTimeout(n)
           \/ RecvHello(n) \/ RecvIdentity(n) \/ RecvConfirm(n)
           \/ RecvChat(n) \/ RecvAck(n) \/ RecvBye(n)
    BY <1>4 DEF Next
  <2>2. TablesOf(n)'
    BY <1>0, <1>2, <2>1, LifecycleTables, DropTables, InitiateTables, ReclaimTables, HelloTables,
       IdentityTables, SessionTables
  <2>3. \A k \in Node \ {n} : TablesOf(k)'
    BY <1>0, <1>2, <2>1, OthersTables
  <2> QED BY <1>1, <2>2, <2>3, TablesOfAll
<1> QED BY <1>3, <1>4

LEMMA InitTables == MessengerAssumption /\ Init => TablesInv
<1> SUFFICES ASSUME MessengerAssumption, Init PROVE TablesInv
  OBVIOUS
<1>1. /\ \A n \in Node, a \in Addr : peers[n][a] = NoSession
      /\ \A n, c \in Node : addrs[n][c] = NoAddr
      /\ \A n \in Node : mode[n] = "down" /\ online[n] = {}
  BY DEF Init
<1>2. ~Connected(NoSession) /\ NoSession.st = "none"
  BY DEF Connected, NoSession
<1> QED BY <1>1, <1>2 DEF TablesInv, TablesAgree, LentOK, KeysOK, KeyOK, OnlineOK

(* The address and session tables of a daemon agree through every restart, move,
   handshake and call, for any number of users and addresses. *)
THEOREM TablesAlwaysAgree ==
  ASSUME AddressesNotReused
  PROVE  Spec => []TablesAgree
<1>1. Init => TablesInv
  BY InitTables, MessengerAssumption
<1>2. IInv /\ TablesInv /\ [Next]_vars => TablesInv'
  BY StepTables, MessengerAssumption
<1>3. TablesInv => TablesAgree
  BY DEF TablesInv
<1> QED BY <1>1, <1>2, <1>3, InvariantHolds, PTL DEF Spec

(* Until the first call, which lends the socket and drops all sessions unseen, a
   contact shown as online has a session. *)
THEOREM OnlineUntilCall ==
  ASSUME AddressesNotReused
  PROVE  Spec => [](calls = 0 => OnlineHasSession)
<1>1. Init => TablesInv
  BY InitTables, MessengerAssumption
<1>2. IInv /\ TablesInv /\ [Next]_vars => TablesInv'
  BY StepTables, MessengerAssumption
<1>3. TablesInv => (calls = 0 => OnlineHasSession)
  BY DEF TablesInv, OnlineOK, OnlineHasSession
<1> QED BY <1>1, <1>2, <1>3, InvariantHolds, PTL DEF Spec

(* The key that a connected end encrypts with is the upgraded key of both users,
   which the other end of the same exchange has or uses. *)
LEMMA EndsAgree ==
  ASSUME MessengerAssumption, AddressesNotReused, IInv, TablesInv
  PROVE  EndsUnderstandEachOther
<1> SUFFICES ASSUME NEW m \in Node, NEW n \in Node, NEW a \in Addr, NEW b \in Addr, m # n,
                    Connected(peers[m][a]), Connected(peers[n][b]),
                    peers[m][a].key.eph = peers[n][b].key.eph,
                    n \in Contacts[m], m \in Contacts[n]
             PROVE  CanDecrypt(peers[n][b], EncryptKey(peers[m][a]))
  BY DEF EndsUnderstandEachOther
<1> DEFINE s == peers[m][a]
           t == peers[n][b]
           E == s.key.eph
<1>0. TypeOK /\ SessionsOK /\ HostsOK /\ KeysOK
  BY DEF IInv, TypeInv, TablesInv
<1>1. /\ s.cid \in Node /\ a \in AddrOf[s.cid] /\ s.mine.node = m
      /\ t.cid \in Node /\ b \in AddrOf[t.cid] /\ t.mine.node = n
  <2>1. \A k \in Node, d \in Addr : Connected(peers[k][d]) => peers[k][d].mine.node = k
    BY <1>0 DEF SessionsOK, SessionOK, Connected
  <2> QED BY <1>0, <2>1, OneAtAddress
<1>2. /\ \E f \in E : f.node \in Node \ {m} /\ a \in AddrOf[f.node] /\ E = {s.mine, f}
      /\ \E f \in E : f.node \in Node \ {n} /\ b \in AddrOf[f.node] /\ E = {t.mine, f}
  BY <1>0 DEF KeysOK, KeyOK, Connected
<1>3. s.cid = n /\ t.cid = m
  BY ZenonT(40), <1>1, <1>2, HostUnique
<1>4. LET K == UpgradedKey(E, m, n)
      IN  /\ IF s.conf THEN s.key = K ELSE s.up = K
          /\ IF t.conf THEN t.key = K ELSE t.up = K
  BY <1>0, <1>3 DEF KeysOK, KeyOK, UpgradedKey
<1>5. UpgradedKey(E, m, n) # NoKey
  BY DEF UpgradedKey, NoKey
<1> HIDE DEF s, t
<1>7. EncryptKey(s) = UpgradedKey(E, m, n)
  BY <1>4, <1>5 DEF EncryptKey
<1>8. CanDecrypt(t, UpgradedKey(E, m, n))
  BY <1>4, <1>5 DEF CanDecrypt
<1> QED BY <1>7, <1>8 DEF s, t

(* Two connected ends of one key exchange can read each other, however far each is
   with CONFIRM and whatever was lost or came twice. *)
THEOREM EndsAlwaysUnderstand ==
  ASSUME AddressesNotReused
  PROVE  Spec => []EndsUnderstandEachOther
<1>1. Init => TablesInv
  BY InitTables, MessengerAssumption
<1>2. IInv /\ TablesInv /\ [Next]_vars => TablesInv'
  BY StepTables, MessengerAssumption
<1>3. IInv /\ TablesInv => EndsUnderstandEachOther
  BY EndsAgree, MessengerAssumption
<1> QED BY <1>1, <1>2, <1>3, InvariantHolds, PTL DEF Spec

----------------------------------------------------------------------------
(* A message keeps its number: in the outbox, on the wire, and after a restart. *)

LEMMA NumberStep ==
  ASSUME BoxInv, NumberKept, OutboxOK', Genuine', Carried, Fresh
  PROVE  NumberKept'
<1>0. Genuine /\ OutboxOK
  BY DEF BoxInv, IInv
<1>1. ASSUME NEW n \in Node, NEW c \in Node, NEW o \in outbox'[n][c], NEW q \in outbox'[n][c],
             q.msg = o.msg
      PROVE  q = o
  <2>1. CASE o \in outbox[n][c] /\ q \in outbox[n][c]
    BY <1>1, <2>1 DEF NumberKept
  <2>2. CASE o \notin outbox[n][c]
    BY <1>0, <1>1, <2>2 DEF Fresh, Genuine
  <2>3. CASE q \notin outbox[n][c]
    BY <1>0, <1>1, <2>3 DEF Fresh, Genuine
  <2> QED BY <2>1, <2>2, <2>3
<1>2. ASSUME NEW n \in Node, NEW c \in Node, NEW o \in outbox'[n][c], NEW p \in Chats', p.msg = o.msg
      PROVE  p.seq = o.seq
  <2>1. CASE p \in Chats
    <3>1. p.msg \in sent
      BY <1>0, <2>1 DEF Genuine
    <3>2. o \in outbox[n][c]
      BY <1>2, <3>1 DEF Fresh
    <3> QED BY <1>2, <2>1, <3>2 DEF NumberKept
  <2>2. CASE p \notin Chats
    <3>1. PICK k \in Node, d \in Node : \E x \in outbox'[k][d] : p.msg = x.msg /\ p.seq = x.seq
      BY <2>2 DEF Carried
    <3>2. PICK x \in outbox'[k][d] : p.msg = x.msg /\ p.seq = x.seq
      BY <3>1
    <3>3. k = n /\ d = c
      <4>1. x.msg.from = k /\ x.msg.to = d
        BY DEF OutboxOK
      <4>2. o.msg.from = n /\ o.msg.to = c
        BY DEF OutboxOK
      <4> QED BY <1>2, <3>2, <4>1, <4>2
    <3> QED BY <1>1, <1>2, <3>2, <3>3
  <2> QED BY <2>1, <2>2
<1>3. ASSUME NEW p \in Chats', NEW q \in Chats', p.msg = q.msg PROVE p.seq = q.seq
  <2>1. ASSUME NEW x \in Chats', NEW y \in Chats', x \notin Chats, x.msg = y.msg PROVE x.seq = y.seq
    <3>1. PICK k \in Node, d \in Node : \E o \in outbox'[k][d] : x.msg = o.msg /\ x.seq = o.seq
      BY <2>1 DEF Carried
    <3> QED BY <1>2, <2>1, <3>1
  <2> QED BY <1>3, <2>1 DEF NumberKept
<1> QED BY <1>1, <1>2, <1>3 DEF NumberKept

----------------------------------------------------------------------------
(* A session that goes on remembers what it has shown. *)

Goes(n, a) ==
  LET s == peers[n][a]
      t == peers'[n][a]
  IN  \/ t = NoSession
      \/ t.mine.no = ephs + 1
      \/ Continues(s, t) /\ s.seen \subseteq t.seen

LEMMA MovedGoes ==
  ASSUME TypeOK, SessionsOK, NEW n \in Node, NEW a \in Addr, Moved(n, a)
  PROVE  Goes(n, a)
<1> DEFINE s == peers[n][a]
           t == peers'[n][a]
<1>0. s \in Session /\ ephs \in Nat /\ (s = NoSession \/ SessionOK(n, a, s, ephs))
  BY DEF TypeOK, SessionsOK
<1>1. SessionOK(n, a, s, ephs) => s.st # "none" /\ Continues(s, s)
  BY DEF SessionOK, Continues
<1>2. CASE t = s
  BY <1>0, <1>1, <1>2 DEF Goes
<1>3. CASE (\E c : t = Initiated(n, a, c)) \/ \E e : t = Answered(n, a, e)
  <2>1. \A c, e : /\ Initiated(n, a, c).mine = NewEph(n, a)
                  /\ Answered(n, a, e).mine = NewEph(n, a)
    BY DEF Initiated, Answered, NoSession
  <2>2. NewEph(n, a).no = ephs + 1
    BY DEF NewEph
  <2> QED BY <1>3, <2>1, <2>2 DEF Goes
<1>4. ASSUME NEW e, s.st = "hello", t = Completed(s, e)
      PROVE  Goes(n, a)
  <2>1. t.mine = s.mine /\ t.st = "identity" /\ t.seen = s.seen
    BY <1>0, <1>4 DEF Completed, Session
  <2>2. Continues(s, t)
    BY <1>4, <2>1 DEF Continues, Connected
  <2> QED BY <2>1, <2>2 DEF Goes
<1>5. ASSUME NEW c, s.st = "identity", t = Identified(n, s, c)
      PROVE  Goes(n, a)
  <2>1. t.mine = s.mine /\ t.st = "connected" /\ t.seen = s.seen
    BY <1>0, <1>5 DEF Identified, Session
  <2>2. Continues(s, t)
    BY <1>5, <2>1 DEF Continues, Connected
  <2> QED BY <2>1, <2>2 DEF Goes
<1>6. ASSUME NEW k \in Key, CanDecrypt(s, k)
      PROVE  LET u == AfterDecrypt(s, k)
             IN  u \in Session /\ Continues(s, u) /\ s.seen = u.seen
  <2> DEFINE u == AfterDecrypt(s, k)
  <2>1. /\ u \in Session /\ SessionOK(n, a, s, ephs)
        /\ u.st = s.st /\ u.cid = s.cid /\ u.mine = s.mine /\ u.key.eph = s.key.eph
        /\ u.seen = s.seen
    BY <1>6, Decrypts
  <2> HIDE DEF u, s
  <2>2. Continues(s, u)
    BY <2>1 DEF Continues, Connected, SessionOK
  <2> QED BY <2>1, <2>2 DEF u, s
<1>7. ASSUME NEW u \in Session, NEW i \in Nat, Continues(s, u), s.seen = u.seen, t = Remember(u, i)
      PROVE  Goes(n, a)
  <2>1. t.mine = u.mine /\ t.st = u.st /\ t.cid = u.cid /\ t.key = u.key /\ t.seen = u.seen \cup {i}
    BY <1>7 DEF Remember, Session
  <2>2. Continues(s, t)
    BY <1>7, <2>1 DEF Continues, Connected
  <2> QED BY <1>7, <2>1, <2>2 DEF Goes
<1>8. CASE \E k \in Key : /\ CanDecrypt(s, k)
                          /\ \/ t = AfterDecrypt(s, k)
                             \/ \E i \in Nat : t = Remember(AfterDecrypt(s, k), i)
  BY <1>6, <1>7, <1>8 DEF Goes
<1> QED BY <1>2, <1>3, <1>4, <1>5, <1>8 DEF Moved, Goes

LEMMA EverGrows == ASSUME TypeOK, [Next]_vars PROVE Grows
<1>0. ephs \in Nat /\ inbox \in [Node -> SUBSET Receipt]
  BY DEF TypeOK
<1>1. ASSUME NEW n \in Node,
             \/ Start(n) \/ Crash(n) \/ Shutdown(n) \/ Move(n) \/ YieldSocket(n) \/ ReclaimSocket(n)
             \/ RetryOutbox(n) \/ Keepalive(n) \/ PeerTimeout(n)
             \/ RecvIdentity(n) \/ RecvConfirm(n) \/ RecvAck(n) \/ RecvBye(n)
      PROVE  net \subseteq net' /\ ephs <= ephs' /\ inbox' = inbox
  <2>1. CASE Start(n) \/ Crash(n) \/ Move(n) \/ YieldSocket(n) \/ PeerTimeout(n)
             \/ RecvConfirm(n) \/ RecvAck(n) \/ RecvBye(n)
    <3>1. CASE Start(n) \/ Crash(n) \/ Move(n)
      BY <1>0, <3>1 DEF Start, Crash, Stop, Move, chatVars
    <3>2. CASE YieldSocket(n) \/ PeerTimeout(n)
      BY <1>0, <3>2 DEF YieldSocket, PeerTimeout, chatVars
    <3>3. CASE RecvConfirm(n)
      BY <1>0, <3>3 DEF RecvConfirm, chatVars
    <3>4. CASE RecvAck(n)
      BY <1>0, <3>4 DEF RecvAck, chatVars
    <3>5. CASE RecvBye(n)
      BY <1>0, <3>5 DEF RecvBye, chatVars
    <3> QED BY <2>1, <3>1, <3>2, <3>3, <3>4, <3>5
  <2>2. CASE Shutdown(n) \/ RetryOutbox(n) \/ Keepalive(n) \/ RecvIdentity(n)
    <3>1. ephs' = ephs /\ inbox' = inbox /\ \E N, M : net' = net \cup N \cup M
      BY <2>2 DEF Shutdown, Stop, RetryOutbox, Keepalive, RecvIdentity, chatVars
    <3> QED BY <1>0, <3>1
  <2>3. CASE ReclaimSocket(n)
    <3>1. (ephs' = ephs \/ ephs' = ephs + 1) /\ inbox' = inbox /\ \E N : net' = net \cup N
      BY <2>3 DEF ReclaimSocket, chatVars
    <3> QED BY <1>0, <3>1
  <2> QED BY <1>1, <2>1, <2>2, <2>3
<1>2. ASSUME NEW n \in Node, Connect(n) \/ SendMessage(n)
      PROVE  net \subseteq net' /\ ephs <= ephs' /\ inbox' = inbox
  <2>1. inbox' = inbox
    BY <1>2 DEF Connect, SendMessage, Queue, chatVars
  <2>2. \/ ephs' = ephs /\ (net' = net \/ \E N : net' = net \cup N)
        \/ \E c, a : Initiate(n, a, c)
    BY <1>2 DEF Connect, SendMessage
  <2> QED BY <1>0, <2>1, <2>2 DEF Initiate
<1>3. ASSUME NEW n \in Node, RecvHello(n)
      PROVE  net \subseteq net' /\ ephs <= ephs' /\ inbox' = inbox
  <2>1. \E p : HelloResponse(n, p) \/ HelloRestart(n, p) \/ HelloIncoming(n, p)
    BY <1>3 DEF RecvHello
  <2>2. inbox' = inbox
    BY <1>3 DEF RecvHello, chatVars
  <2>3. ASSUME NEW p, HelloResponse(n, p) PROVE net \subseteq net' /\ ephs <= ephs'
    BY <1>0, <2>3 DEF HelloResponse
  <2>4. ASSUME NEW p, HelloRestart(n, p) PROVE net \subseteq net' /\ ephs <= ephs'
    BY <1>0, <2>4 DEF HelloRestart, Answer
  <2>5. ASSUME NEW p, HelloIncoming(n, p) PROVE net \subseteq net' /\ ephs <= ephs'
    BY <1>0, <2>5 DEF HelloIncoming, Answer
  <2> QED BY <2>1, <2>2, <2>3, <2>4, <2>5
<1>4. ASSUME NEW n \in Node, RecvChat(n)
      PROVE  net \subseteq net' /\ ephs <= ephs' /\ \A k \in Node : inbox[k] \subseteq inbox'[k]
  <2>1. /\ ephs' = ephs /\ \E q : net' = net \cup {q}
        /\ inbox' = inbox \/ \E r : inbox' = [inbox EXCEPT ![n] = @ \cup {r}]
    BY <1>4 DEF RecvChat
  <2>2. ASSUME NEW r, inbox' = [inbox EXCEPT ![n] = @ \cup {r}], NEW k \in Node
        PROVE  inbox[k] \subseteq inbox'[k]
    BY <1>0, <2>2
  <2> QED BY <1>0, <2>1, <2>2
<1>5. CASE UNCHANGED vars
  BY <1>0, <1>5 DEF vars, Grows
<1> QED BY <1>1, <1>2, <1>3, <1>4, <1>5 DEF Next, Grows

----------------------------------------------------------------------------
(* A CHAT is received in the connected session with its writer, under the key
   exchange of that session, and shown unless its number was seen there. *)

ChatReceived(n, p) ==
  LET a == p.src
      s == peers[n][a]
      t == peers'[n][a]
      r == [msg |-> p.msg, cid |-> s.cid, eph |-> p.key.eph]
  IN  /\ a \in Addr /\ a \in AddrOf[p.msg.from] /\ p.msg.to = n
      /\ SessionOK(n, a, s, ephs) /\ Connected(s) /\ s.cid = p.msg.from
      /\ s.key.eph = p.key.eph /\ s.mine \in p.key.eph
      /\ Connected(t) /\ t.mine = s.mine /\ t.key.eph = s.key.eph
      /\ p.seq \in t.seen
      /\ \A k \in Node, b \in Addr : ~(k = n /\ b = a) => peers'[k][b] = peers[k][b]
      /\ \A k \in Node : \A x \in inbox'[k] :
            x \in inbox[k] \/ (k = n /\ x = r /\ p.seq \notin s.seen)
      /\ repeated' = repeated \/ (r \in inbox[n] /\ p.seq \notin s.seen /\ repeated' = repeated \cup {p.msg})
      /\ UNCHANGED <<outbox, sent, ephs>> /\ Chats' = Chats

LEMMA ReceivedChat ==
  ASSUME MessengerAssumption, AddressesNotReused, IInv, NEW n \in Node, RecvChat(n)
  PROVE  \E p \in Chats : ChatReceived(n, p)
<1>0. TypeOK /\ HostsOK /\ SessionsOK /\ ChatsOK
  BY DEF IInv, TypeInv
<1>1. PICK p \in net :
        LET s == peers[n][p.src]
            t == AfterDecrypt(s, p.key)
            r == [msg |-> p.msg, cid |-> s.cid, eph |-> p.key.eph]
        IN  /\ Receives(n, p, "CHAT")
            /\ CanDecrypt(s, p.key)
            /\ peers' = [peers EXCEPT ![n][p.src] = Remember(t, p.seq)]
            /\ net' = net \cup {Ack(at[n], p.src, EncryptKey(t), p.seq)}
            /\ IF p.seq \in s.seen
               THEN UNCHANGED <<inbox, repeated>>
               ELSE /\ inbox' = [inbox EXCEPT ![n] = @ \cup {r}]
                    /\ repeated' = IF r \in inbox[n] THEN repeated \cup {p.msg} ELSE repeated
  BY DEF RecvChat
<1> DEFINE a == p.src
           s == peers[n][a]
           t == AfterDecrypt(s, p.key)
           u == Remember(t, p.seq)
           r == [msg |-> p.msg, cid |-> s.cid, eph |-> p.key.eph]
<1>2. /\ UNCHANGED <<outbox, sent, ephs>> /\ ephs \in Nat
      /\ peers \in [Node -> [Addr -> Session]] /\ inbox \in [Node -> SUBSET Receipt]
  BY <1>0 DEF RecvChat, TypeOK
<1>3. /\ p \in Chats /\ p.dst = at[n] /\ a \in Addr /\ p.key \in Key /\ p.seq \in Nat
      /\ p.msg.from \in Node /\ p.msg.to \in Node
      /\ a \in AddrOf[p.msg.from] /\ p.dst \in AddrOf[p.msg.to] /\ p.key.ids # {}
  <2>1. p \in Chats /\ p.dst = at[n]
    BY <1>1 DEF Receives, Chats
  <2> QED BY <1>0, <2>1, ChatPacket DEF ChatsOK, ChatOK
<1>4. p.msg.to = n
  BY <1>0, <1>3, HostUnique DEF HostsOK
<1>5. /\ SessionOK(n, a, s, ephs) /\ p.key.eph = s.key.eph /\ s.mine \in p.key.eph /\ Connected(s)
      /\ t \in Session /\ SessionOK(n, a, t, ephs)
      /\ t.st = s.st /\ t.cid = s.cid /\ t.mine = s.mine /\ t.key.eph = s.key.eph
      /\ t.seen = s.seen
  BY <1>0, <1>1, <1>3, Decrypts
<1>6. s.cid = p.msg.from
  BY <1>0, <1>3, <1>5, OneAtAddress
<1>7. u.st = s.st /\ u.mine = s.mine /\ u.key.eph = s.key.eph /\ p.seq \in u.seen
  <2>1. u.st = t.st /\ u.mine = t.mine /\ u.key = t.key /\ u.seen = t.seen \cup {p.seq}
    BY <1>5 DEF Remember, Session
  <2> HIDE DEF t, u
  <2> QED BY <1>5, <2>1
<1>8. /\ peers' = [peers EXCEPT ![n][a] = u]
      /\ net' = net \cup {Ack(at[n], a, EncryptKey(t), p.seq)}
      /\ IF p.seq \in s.seen
         THEN UNCHANGED <<inbox, repeated>>
         ELSE /\ inbox' = [inbox EXCEPT ![n] = @ \cup {r}]
              /\ repeated' = IF r \in inbox[n] THEN repeated \cup {p.msg} ELSE repeated
  BY <1>1
<1> HIDE DEF u, t, r
<1>9. Chats' = Chats
  BY <1>8 DEF Chats, Ack
<1>10. \A k \in Node : \A x \in inbox'[k] :
          x \in inbox[k] \/ (k = n /\ x = r /\ p.seq \notin s.seen)
  <2> HIDE DEF s
  <2>1. CASE p.seq \in s.seen
    BY <1>8, <2>1
  <2>2. CASE p.seq \notin s.seen
    BY <1>2, <1>8, <2>2
  <2> QED BY <2>1, <2>2
<1>11. repeated' = repeated
       \/ (r \in inbox[n] /\ p.seq \notin s.seen /\ repeated' = repeated \cup {p.msg})
  BY <1>8
<1>12. /\ peers'[n][a] = u
       /\ \A k \in Node, b \in Addr : ~(k = n /\ b = a) => peers'[k][b] = peers[k][b]
  BY <1>2, <1>3, <1>8
<1>13. Connected(u)
  BY <1>5, <1>7 DEF Connected
<1> QED BY <1>2, <1>3, <1>4, <1>5, <1>6, <1>7, <1>9, <1>10, <1>11, <1>12, <1>13
        DEF ChatReceived, r

(* Nothing but a CHAT is ever shown. *)
LEMMA OnlyChatsShow ==
  ASSUME [Next]_vars, ~\E n \in Node : RecvChat(n)
  PROVE  UNCHANGED <<inbox, repeated>>
<1>1. CASE UNCHANGED vars
  BY <1>1 DEF vars
<1>2. CASE Next
  <2>1. PICK n \in Node :
           \/ Start(n) \/ Crash(n) \/ Shutdown(n) \/ Move(n)
           \/ YieldSocket(n) \/ ReclaimSocket(n)
           \/ Connect(n) \/ SendMessage(n) \/ RetryOutbox(n) \/ Keepalive(n) \/ PeerTimeout(n)
           \/ RecvHello(n) \/ RecvIdentity(n) \/ RecvConfirm(n)
           \/ RecvAck(n) \/ RecvBye(n)
    BY <1>2 DEF Next
  <2>2. CASE SendMessage(n)
    BY <2>2 DEF SendMessage, Queue
  <2>3. CASE ~SendMessage(n)
    BY <2>1, <2>3 DEF Start, Crash, Shutdown, Stop, Move, YieldSocket, ReclaimSocket, Connect,
       RetryOutbox, Keepalive, PeerTimeout, RecvHello, RecvIdentity, RecvConfirm, RecvAck, RecvBye,
       chatVars
  <2> QED BY <2>2, <2>3
<1> QED BY <1>1, <1>2

LEMMA OnceStep ==
  ASSUME MessengerAssumption, AddressesNotReused, BoxInv, OnceInv, [Next]_vars
  PROVE  OnceInv'
<1>0. /\ IInv /\ TypeOK /\ SessionsOK /\ ChatsOK /\ ReceiptsOK /\ NumberKept /\ ephs \in Nat
  BY DEF BoxInv, IInv, TypeInv, TypeOK, OnceInv
<1>1. BoxInv' /\ Carried /\ Fresh
  BY StepBox
<1>2. SessionsOK' /\ OutboxOK' /\ Genuine' /\ TypeOK'
  BY <1>1 DEF BoxInv, IInv, TypeInv
<1>3. NumberKept'
  BY <1>0, <1>1, <1>2, NumberStep
<1>4. Grows /\ Chats \subseteq Chats'
  BY <1>0, EverGrows DEF Grows, Chats
<1>5. ASSUME NEW n \in Node, NEW r \in inbox[n]
      PROVE  /\ \A e \in r.eph : e.no <= ephs'
             /\ \A a \in Addr : peers'[n][a].st # "none" /\ peers'[n][a].mine \in r.eph
                                => Remembers(peers[n][a], r)'
  <2>1. \A e \in r.eph : e.no <= ephs /\ e.no \in Nat
    BY <1>0 DEF ReceiptsOK, TypeOK, Receipt, Eph
  <2>2. ephs' \in Nat
    BY <1>2 DEF TypeOK
  <2>3. ASSUME NEW a \in Addr, peers'[n][a].st # "none", peers'[n][a].mine \in r.eph
        PROVE  Remembers(peers[n][a], r)'
    <3> DEFINE s == peers[n][a]
               t == peers'[n][a]
    <3>1. Goes(n, a)
      BY <1>0, EveryMove, MovedGoes
    <3>2. t # NoSession /\ t.mine.no # ephs + 1
      BY <1>0, <2>1, <2>3 DEF NoSession
    <3>3. Continues(s, t) /\ s.seen \subseteq t.seen
      BY <3>1, <3>2 DEF Goes
    <3>4. Remembers(s, r)
      BY <1>0, <2>3, <3>3 DEF ReceiptsOK, Continues
    <3> HIDE DEF s
    <3>5. Connected(t) /\ t.key.eph = r.eph /\ s.seen \subseteq t.seen
      BY <3>3, <3>4 DEF Continues, Remembers
    <3>6. \E p \in Chats' : p.key.eph = r.eph /\ p.msg = r.msg /\ p.seq \in t.seen
      BY <1>4, <3>4, <3>5 DEF Remembers
    <3> QED BY <3>5, <3>6 DEF Remembers
  <2>4. \A e \in r.eph : e.no <= ephs'
    BY <1>0, <1>4, <2>1, <2>2 DEF Grows
  <2> QED BY <2>3, <2>4
<1>6. CASE ~\E n \in Node : RecvChat(n)
  <2>1. UNCHANGED <<inbox, repeated>>
    BY <1>6, OnlyChatsShow
  <2>2. ReceiptsOK'
    BY <1>5, <2>1 DEF ReceiptsOK
  <2> QED BY <1>3, <2>1, <2>2 DEF OnceInv, ShownOncePerSession
<1>7. ASSUME NEW n \in Node, RecvChat(n) PROVE OnceInv'
  <2>1. PICK p \in Chats : ChatReceived(n, p)
    BY <1>0, <1>7, ReceivedChat
  <2> DEFINE a == p.src
             s == peers[n][a]
  <2>0. PICK r : r = [msg |-> p.msg, cid |-> s.cid, eph |-> p.key.eph]
    OBVIOUS
  <2>2. /\ \A e \in r.eph : e.no <= ephs'
        /\ \A b \in Addr : peers'[n][b].st # "none" /\ peers'[n][b].mine \in r.eph
                           => Remembers(peers[n][b], r)'
    <3>1. \A e \in r.eph : e.no <= ephs'
      BY <1>0, <2>1, <2>0 DEF ChatReceived, ChatsOK, ChatOK
    <3>2. ASSUME NEW b \in Addr, peers'[n][b].st # "none", peers'[n][b].mine \in r.eph
          PROVE  Remembers(peers[n][b], r)'
      <4>1. peers'[n][b].mine.node = n /\ peers'[n][b].mine.addr = b
        BY <1>2, <3>2 DEF SessionsOK, SessionOK
      <4>2. /\ s.mine.addr = a /\ p.key.eph = s.key.eph /\ s.st # "hello"
            /\ \E f \in s.key.eph : f.node # n /\ s.key.eph = {s.mine, f}
        BY <2>1 DEF ChatReceived, SessionOK, Connected
      <4>3. b = a
        BY <2>0, <3>2, <4>1, <4>2
      <4> QED BY <2>1, <2>0, <4>3 DEF ChatReceived, Remembers
    <3> QED BY <3>1, <3>2
  <2>3. ReceiptsOK'
    <3>1. \A k \in Node : \A x \in inbox'[k] : x \in inbox[k] \/ (k = n /\ x = r)
      BY <2>1, <2>0 DEF ChatReceived
    <3> QED BY <1>5, <2>2, <3>1 DEF ReceiptsOK
  <2>4. repeated' = repeated
    <3> SUFFICES ASSUME r \in inbox[n], p.seq \notin s.seen PROVE FALSE
      BY <2>1, <2>0 DEF ChatReceived
    <3>1. s.st # "none" /\ s.mine \in r.eph /\ a \in Addr /\ r.msg = p.msg
      BY <2>1, <2>0 DEF ChatReceived, Connected
    <3>2. Remembers(s, r)
      BY <1>0, <3>1 DEF ReceiptsOK
    <3>3. PICK q \in Chats : q.msg = p.msg /\ q.seq \in s.seen
      BY <3>1, <3>2 DEF Remembers
    <3> QED BY <1>0, <3>3 DEF NumberKept
  <2> QED BY <1>3, <2>3, <2>4 DEF OnceInv, ShownOncePerSession
<1> QED BY <1>6, <1>7

LEMMA InitOnce == Init => OnceInv
BY DEF Init, OnceInv, NumberKept, ReceiptsOK, ShownOncePerSession, Chats

(* No session shows a message twice, however often it is retried or repeated, for
   any number of users, messages, restarts and calls. *)
THEOREM NeverTwiceInSession ==
  ASSUME AddressesNotReused
  PROVE  Spec => []ShownOncePerSession
<1>1. Init => BoxInv /\ OnceInv
  BY InitBox, InitOnce, MessengerAssumption
<1>2. BoxInv /\ OnceInv /\ [Next]_vars => BoxInv' /\ OnceInv'
  BY StepBox, OnceStep, MessengerAssumption
<1>3. OnceInv => ShownOncePerSession
  BY DEF OnceInv
<1> QED BY <1>1, <1>2, <1>3, PTL DEF Spec

----------------------------------------------------------------------------
(* When nobody moves, the two users of a message have one session each with the
   other, one after the other, so their key exchanges have an order. *)

LEMMA NewerStep ==
  ASSUME TypeOK, NEW n \in Node, NEW a \in Addr, Goes(n, a), NEW E \in SUBSET Eph,
         \A e \in E : e.no <= ephs, NewerThan(peers[n][a], E)
  PROVE  NewerThan(peers'[n][a], E)
<1> DEFINE s == peers[n][a]
           t == peers'[n][a]
<1>1. ephs \in Nat /\ \A e \in E : e.no \in Nat
  BY DEF TypeOK, Eph
<1>2. CASE t = NoSession
  BY <1>2 DEF NewerThan, NoSession
<1>3. CASE t.mine.no = ephs + 1
  BY <1>1, <1>3 DEF NewerThan
<1>4. CASE Continues(s, t)
  BY <1>4 DEF NewerThan, Continues
<1> QED BY <1>2, <1>3, <1>4 DEF Goes

(* A user's new CHAT is under the key exchange of its one session with the addressee. *)
LEMMA SentInSession ==
  ASSUME AddressesNotReused, NobodyMoves, IInv, IInv', ChatStep, NEW p \in Chats', p \notin Chats,
         NEW a \in AddrOf[p.msg.to]
  PROVE  /\ p.msg.from \in Node /\ a \in Addr /\ p.msg.to \in Node
         /\ peers'[p.msg.from][a].mine \in p.key.eph
<1>0. /\ HostsOK /\ TypeOK /\ TypeOK' /\ SessionsOK' /\ OutboxOK'
  BY DEF IInv, TypeInv
<1>1. PICK n \in Node, b \in Addr :
         /\ Connected(peers'[n][b]) /\ peers'[n][b].cid \in Node
         /\ \E o \in outbox'[n][peers'[n][b].cid] : p = Chat(at[n], b, EncryptKey(peers'[n][b]), o)
  BY DEF ChatStep
<1>2. PICK o \in outbox'[n][peers'[n][b].cid] : p = Chat(at[n], b, EncryptKey(peers'[n][b]), o)
  BY <1>1
<1>3. /\ p.msg.from = n /\ p.msg.to = peers'[n][b].cid /\ b \in AddrOf[peers'[n][b].cid]
      /\ peers'[n][b].mine \in p.key.eph
  BY <1>0, <1>1, <1>2, NewChat
<1>4. a = b
  BY <1>1, <1>3 DEF NobodyMoves
<1> QED BY <1>1, <1>3, <1>4

LEMMA ExchangesStep ==
  ASSUME MessengerAssumption, AddressesNotReused, NobodyMoves, BoxInv, OnceInv, ExchangesInOrder,
         [Next]_vars
  PROVE  ExchangesInOrder'
<1>0. /\ IInv /\ TypeOK /\ SessionsOK /\ ChatsOK /\ ReceiptsOK /\ DeliveredAsAddressed
  BY DEF BoxInv, IInv, TypeInv, OnceInv
<1>1. IInv' /\ ChatStep
  BY <1>0, StepIInv
<1>2. \A n \in Node, a \in Addr : Goes(n, a)
  BY <1>0, EveryMove, MovedGoes
<1>3. \A n \in Node : AddrOf[n] \subseteq Addr
  BY DEF MessengerAssumption
<1>4. ASSUME NEW n \in Node, NEW r \in inbox[n], NEW a \in AddrOf[r.cid]
      PROVE  NewerThan(peers'[n][a], r.eph)
  <2>1. r.cid \in Node /\ r.eph \in SUBSET Eph
    BY <1>0 DEF DeliveredAsAddressed, TypeOK, Receipt, Text
  <2>2. \A e \in r.eph : e.no <= ephs
    BY <1>0 DEF ReceiptsOK
  <2>3. NewerThan(peers[n][a], r.eph) /\ a \in Addr
    BY <1>3, <2>1 DEF ExchangesInOrder
  <2> QED BY <1>0, <1>2, <2>1, <2>2, <2>3, NewerStep
<1>5. ASSUME NEW n \in Node, NEW r \in inbox'[n], r \notin inbox[n], NEW a \in AddrOf[r.cid]
      PROVE  NewerThan(peers'[n][a], r.eph)
  <2>1. PICK k \in Node : RecvChat(k)
    BY <1>5, OnlyChatsShow
  <2>2. PICK p \in Chats : ChatReceived(k, p)
    BY <1>0, <2>1, ReceivedChat
  <2>3. /\ k = n /\ r.cid = p.msg.from /\ r.eph = p.key.eph /\ p.src \in AddrOf[p.msg.from]
        /\ peers'[n][p.src].mine \in p.key.eph
    BY <1>5, <2>2 DEF ChatReceived
  <2>4. p.msg.from \in Node
    BY <1>0, ChatPacket
  <2>5. a = p.src
    BY <1>5, <2>3, <2>4 DEF NobodyMoves
  <2> QED BY <2>3, <2>5 DEF NewerThan
<1>6. ASSUME NEW p \in Chats, NEW a \in AddrOf[p.msg.to]
      PROVE  NewerThan(peers'[p.msg.from][a], p.key.eph)
  <2>1. p.msg.to \in Node /\ p.msg.from \in Node /\ p.key.eph \in SUBSET Eph
    BY <1>0, ChatPacket
  <2>2. \A e \in p.key.eph : e.no <= ephs
    BY <1>0 DEF ChatsOK, ChatOK
  <2>3. NewerThan(peers[p.msg.from][a], p.key.eph) /\ a \in Addr
    BY <1>3, <2>1 DEF ExchangesInOrder
  <2> QED BY <1>0, <1>2, <2>1, <2>2, <2>3, NewerStep
<1>7. ASSUME NEW p \in Chats', p \notin Chats, NEW a \in AddrOf[p.msg.to]
      PROVE  NewerThan(peers'[p.msg.from][a], p.key.eph)
  <2>1. peers'[p.msg.from][a].mine \in p.key.eph
    BY <1>0, <1>1, <1>7, SentInSession
  <2> QED BY <2>1 DEF NewerThan
<1>8. \A n \in Node : \A r \in inbox'[n] : \A a \in AddrOf[r.cid] : NewerThan(peers'[n][a], r.eph)
  BY <1>4, <1>5
<1>9. \A p \in Chats' : \A a \in AddrOf[p.msg.to] : NewerThan(peers'[p.msg.from][a], p.key.eph)
  BY <1>6, <1>7
<1> QED BY <1>8, <1>9 DEF ExchangesInOrder, NewerThan

(* The ACK that takes a message off its outbox came in the writer's present session,
   and every other exchange that the message was sent in is older. *)
LEMMA AckSettles ==
  ASSUME MessengerAssumption, AddressesNotReused, BoxInv, ExchangesInOrder,
         NEW n \in Node, RecvAck(n), NEW m \in sent, Queued(m), ~Queued(m)'
  PROVE  \E r \in inbox[m.to] :
            /\ r.msg = m
            /\ \E f \in r.eph : /\ f.node = m.from
                                /\ \A x \in Chats : x.msg = m =>
                                      x.key.eph = r.eph \/ \A e \in x.key.eph : e.no < f.no
<1>0. /\ TypeOK /\ HostsOK /\ SessionsOK /\ OutboxOK /\ ChatsMatchOutbox /\ AckedShown
      /\ outbox \in [Node -> [Node -> SUBSET Entry]]
  BY DEF BoxInv, IInv, TypeInv, TypeOK
<1>1. PICK p \in net :
        LET s == peers[n][p.src]
        IN  /\ Receives(n, p, "ACK")
            /\ CanDecrypt(s, p.key)
            /\ outbox' = IF p.seq = 0 \/ s.cid = NoNode THEN outbox
                         ELSE [outbox EXCEPT ![n][s.cid] = Unqueue(@, p.seq)]
  BY DEF RecvAck
<1> DEFINE a == p.src
           s == peers[n][a]
<1>2. p.type = "ACK" /\ p.dst = at[n] /\ a \in Addr /\ p.key \in Key /\ p.seq \in Nat
  BY <1>0, <1>1, ReceivedTypes DEF Receives
<1>3. s \in Session /\ SessionOK(n, a, s, ephs) /\ p.key.eph = s.key.eph /\ s.mine \in p.key.eph
  BY <1>0, <1>1, <1>2, Decrypts
<1>4. m.from \in Node /\ m.to \in Node
  BY <1>0 DEF TypeOK, Text
<1>5. PICK o \in outbox[m.from][m.to] : o.msg = m
  BY DEF Queued
<1>6. o \notin outbox'[m.from][m.to]
  BY <1>5 DEF Queued
<1>7. p.seq # 0 /\ s.cid # NoNode
  BY <1>1, <1>6
<1>8. s.cid \in Node
  BY <1>3, <1>7 DEF Session
<1>9. m.from = n /\ m.to = s.cid /\ o.seq = p.seq
  <2>1. outbox' = [outbox EXCEPT ![n][s.cid] = Unqueue(@, p.seq)]
    BY <1>1, <1>7
  <2> HIDE DEF s
  <2>2. /\ outbox'[n][s.cid] = {q \in outbox[n][s.cid] : q.seq # p.seq}
        /\ \A k, d \in Node : ~(k = n /\ d = s.cid) => outbox'[k][d] = outbox[k][d]
    BY <1>0, <1>8, <2>1 DEF Unqueue
  <2>3. m.from = n /\ m.to = s.cid
    BY <1>4, <1>5, <1>6, <2>2
  <2> QED BY <1>5, <1>6, <2>2, <2>3
<1>10. PICK k \in Node, d \in Node : p.dst \in AddrOf[k] /\ ShownAs(p.key.eph, k, d, p.seq)
  BY <1>0, <1>2, <1>7 DEF AckedShown
<1>11. k = n
  BY <1>0, <1>2, <1>10, HostUnique DEF HostsOK
<1>12. PICK q \in Chats : /\ q.key.eph = p.key.eph /\ q.seq = p.seq
                          /\ q.msg.from = n /\ q.msg.to = d
                          /\ \E r \in inbox[d] : r.msg = q.msg /\ r.eph = p.key.eph
  BY <1>10, <1>11 DEF ShownAs
<1>13. s.st # "none" /\ s.mine.node = n
  BY <1>3 DEF SessionOK
<1>14. q.msg = m
  <2>1. ChatMatches(n, s, q)
    BY <1>0, <1>2, <1>3, <1>12, <1>13 DEF ChatsMatchOutbox
  <2> QED BY <1>5, <1>9, <1>12, <2>1 DEF ChatMatches
<1>15. PICK r \in inbox[m.to] : r.msg = m /\ r.eph = p.key.eph
  BY <1>12, <1>14
<1>16. ASSUME NEW x \in Chats, x.msg = m
       PROVE  x.key.eph = r.eph \/ \A e \in x.key.eph : e.no < s.mine.no
  <2>1. a \in AddrOf[x.msg.to] /\ x.msg.from = n
    BY <1>3, <1>7, <1>9, <1>16 DEF SessionOK
  <2>2. NewerThan(s, x.key.eph)
    BY <2>1 DEF ExchangesInOrder
  <2>3. CASE s.mine \in x.key.eph
    <3>1. ChatMatches(n, s, x)
      BY <1>0, <1>2, <1>13, <2>1, <2>3 DEF ChatsMatchOutbox
    <3> QED BY <1>3, <1>15, <3>1 DEF ChatMatches
  <2> QED BY <1>13, <2>2, <2>3 DEF NewerThan
<1>17. s.mine \in r.eph /\ s.mine.node = m.from
  BY <1>3, <1>9, <1>13, <1>15
<1> HIDE DEF s
<1> QED BY <1>15, <1>16, <1>17

(* Only an ACK takes a message off an outbox. *)
LEMMA OnlyAcksUnqueue ==
  ASSUME TypeOK, [Next]_vars, ~\E n \in Node : RecvAck(n), NEW m \in sent, Queued(m)
  PROVE  Queued(m)'
<1>0. m.from \in Node /\ m.to \in Node /\ outbox \in [Node -> [Node -> SUBSET Entry]]
  BY DEF TypeOK, Text
<1>1. \A k, d \in Node : outbox[k][d] \subseteq outbox'[k][d]
  <2>1. CASE UNCHANGED vars
    BY <2>1 DEF vars
  <2>2. CASE Next
    <3>1. PICK n \in Node :
             \/ Start(n) \/ Crash(n) \/ Shutdown(n) \/ Move(n)
             \/ YieldSocket(n) \/ ReclaimSocket(n)
             \/ Connect(n) \/ SendMessage(n) \/ RetryOutbox(n) \/ Keepalive(n) \/ PeerTimeout(n)
             \/ RecvHello(n) \/ RecvIdentity(n) \/ RecvConfirm(n) \/ RecvChat(n) \/ RecvBye(n)
      BY <2>2 DEF Next
    <3>2. CASE SendMessage(n)
      <4>1. PICK c, x : Queue(n, c, x)
        BY <3>2 DEF SendMessage
      <4>2. outbox' = [outbox EXCEPT ![n][c] = @ \cup {[seq |-> nextSeq[n][c], msg |-> x]}]
        BY <4>1 DEF Queue
      <4> QED BY <1>0, <4>2
    <3>3. CASE ~SendMessage(n)
      <4>1. outbox' = outbox
        BY <3>1, <3>3 DEF Start, Crash, Shutdown, Stop, Move, YieldSocket, ReclaimSocket, Connect,
           RetryOutbox, Keepalive, PeerTimeout, RecvHello, RecvIdentity, RecvConfirm, RecvChat,
           RecvBye, chatVars
      <4> QED BY <4>1
    <3> QED BY <3>2, <3>3
  <2> QED BY <2>1, <2>2
<1> QED BY <1>0, <1>1 DEF Queued

LEMMA SettledStep ==
  ASSUME MessengerAssumption, AddressesNotReused, BoxInv, ExchangesInOrder, SettledLast,
         [Next]_vars
  PROVE  SettledLast'
<1>0. TypeOK /\ Genuine /\ IInv
  BY DEF BoxInv, IInv, TypeInv
<1>1. BoxInv' /\ Carried /\ Grows
  BY <1>0, StepBox, EverGrows
<1>2. OutboxOK' /\ NoMessageLost' /\ TypeOK'
  BY <1>1 DEF BoxInv, IInv, TypeInv
<1> SUFFICES ASSUME NEW m \in sent', ~Queued(m)'
             PROVE  \E r \in inbox'[m.to] :
                       /\ r.msg = m
                       /\ \E f \in r.eph : /\ f.node = m.from
                                           /\ \A p \in Chats' : p.msg = m =>
                                                 p.key.eph = r.eph \/ \A e \in p.key.eph : e.no < f.no
  BY DEF SettledLast
<1>3. m.to \in Node /\ m.from \in Node
  BY <1>2 DEF TypeOK, Text
<1>4. m \in sent
  <2>1. PICK r \in inbox'[m.to] : r.msg = m
    BY <1>2 DEF NoMessageLost, Shown
  <2>2. CASE r \in inbox[m.to]
    BY <1>0, <1>3, <2>1, <2>2 DEF Genuine
  <2>3. CASE r \notin inbox[m.to]
    <3>1. PICK k \in Node : RecvChat(k)
      BY <1>3, <2>3, OnlyChatsShow
    <3>2. PICK p \in Chats : ChatReceived(k, p)
      BY <1>0, <3>1, ReceivedChat
    <3>3. r.msg = p.msg
      BY <1>3, <2>3, <3>2 DEF ChatReceived
    <3> QED BY <1>0, <2>1, <3>3 DEF Genuine
  <2> QED BY <2>2, <2>3
<1>5. \A p \in Chats' : p.msg = m => p \in Chats
  <2> SUFFICES ASSUME NEW p \in Chats', p.msg = m, p \notin Chats PROVE FALSE
    OBVIOUS
  <2>1. PICK k \in Node, d \in Node : \E o \in outbox'[k][d] : p.msg = o.msg
    BY <1>1 DEF Carried
  <2>2. PICK o \in outbox'[k][d] : o.msg = m
    BY <2>1
  <2>3. o.msg.from = k /\ o.msg.to = d
    BY <1>2 DEF OutboxOK
  <2> QED BY <2>2, <2>3 DEF Queued
<1>6. \E r \in inbox[m.to] :
         /\ r.msg = m
         /\ \E f \in r.eph : /\ f.node = m.from
                             /\ \A p \in Chats : p.msg = m =>
                                   p.key.eph = r.eph \/ \A e \in p.key.eph : e.no < f.no
  <2>1. CASE Queued(m)
    <3>1. PICK n \in Node : RecvAck(n)
      BY <1>0, <1>4, <2>1, OnlyAcksUnqueue
    <3> QED BY <1>4, <2>1, <3>1, AckSettles
  <2>2. CASE ~Queued(m)
    BY <1>4, <2>2 DEF SettledLast
  <2> QED BY <2>1, <2>2
<1>7. inbox[m.to] \subseteq inbox'[m.to]
  BY <1>1, <1>3 DEF Grows
<1> QED BY <1>5, <1>6, <1>7

(* What is shown now was not acknowledged before. *)
LEMMA ShownWhileQueuedStep ==
  ASSUME MessengerAssumption, AddressesNotReused, BoxInv, OnceInv, OrderInv, [Next]_vars
  PROVE  /\ \A n \in Node : \A r \in inbox'[n] \ inbox[n] : Queued(r.msg)
         /\ \A m \in repeated' \ repeated : Queued(m)
<1>0. /\ IInv /\ TypeOK /\ Genuine /\ DeliveredAsAddressed /\ NumberKept /\ ReceiptsOK
      /\ ExchangesInOrder /\ SettledLast /\ repeated' = {}
  BY OnceStep DEF BoxInv, IInv, TypeInv, OnceInv, OrderInv, ShownOncePerSession
<1> SUFFICES ASSUME NEW n \in Node, NEW r \in inbox'[n], r \notin inbox[n], ~Queued(r.msg)
             PROVE  FALSE
  BY <1>0
<1>1. PICK k \in Node : RecvChat(k)
  BY OnlyChatsShow
<1>2. PICK p \in Chats : ChatReceived(k, p)
  BY <1>0, <1>1, ReceivedChat
<1> DEFINE a == p.src
           s == peers[n][a]
<1>3. /\ k = n /\ r.msg = p.msg /\ p.seq \notin s.seen /\ p.msg.to = n
      /\ a \in Addr /\ a \in AddrOf[p.msg.from] /\ s.st # "none" /\ s.mine \in p.key.eph
  BY <1>2 DEF ChatReceived, Connected
<1>4. p.msg \in sent /\ p.key.eph \in SUBSET Eph
  BY <1>0, ChatPacket DEF Genuine
<1>5. PICK q \in inbox[n] :
         /\ q.msg = p.msg
         /\ \E f \in q.eph : /\ f.node = p.msg.from
                             /\ p.key.eph = q.eph \/ \A e \in p.key.eph : e.no < f.no
  BY <1>0, <1>3, <1>4 DEF SettledLast
<1>6. PICK f \in q.eph : p.key.eph = q.eph \/ \A e \in p.key.eph : e.no < f.no
  BY <1>5
<1>7. q.eph \in SUBSET Eph /\ q.cid = p.msg.from
  BY <1>0, <1>5 DEF TypeOK, Receipt, DeliveredAsAddressed
<1> HIDE DEF s
<1>8. s.mine \notin q.eph
  <2> SUFFICES ASSUME s.mine \in q.eph PROVE FALSE
    OBVIOUS
  <2>1. Remembers(s, q)
    BY <1>0, <1>3 DEF ReceiptsOK, s
  <2>2. PICK x \in Chats : x.msg = p.msg /\ x.seq \in s.seen
    BY <1>5, <2>1 DEF Remembers
  <2> QED BY <1>0, <1>3, <2>2 DEF NumberKept
<1>9. s.mine.no < f.no
  BY <1>3, <1>6, <1>8
<1>10. f.no < s.mine.no
  <2>1. NewerThan(s, q.eph)
    BY <1>0, <1>3, <1>7 DEF ExchangesInOrder, s
  <2> QED BY <1>3, <1>6, <1>8, <2>1 DEF NewerThan
<1>11. s.mine.no \in Nat /\ f.no \in Nat
  BY <1>3, <1>4, <1>6, <1>7 DEF Eph
<1> QED BY <1>9, <1>10, <1>11

LEMMA InitOrder == Init => OrderInv
BY DEF Init, OrderInv, ExchangesInOrder, SettledLast, Chats

(* When each user keeps one address, an ACK is the end of a message: nothing is
   shown, for the first time or again, that its writer no longer has queued. *)
THEOREM NothingShownAfterAck ==
  ASSUME AddressesNotReused, NobodyMoves
  PROVE  Spec => ShownWhileQueued
<1>1. Init => BoxInv /\ OnceInv /\ OrderInv
  BY InitBox, InitOnce, InitOrder, MessengerAssumption
<1>2. BoxInv /\ OnceInv /\ OrderInv /\ [Next]_vars => BoxInv' /\ OnceInv' /\ OrderInv'
  <2> SUFFICES ASSUME BoxInv, OnceInv, OrderInv, [Next]_vars PROVE BoxInv' /\ OnceInv' /\ OrderInv'
    OBVIOUS
  <2>1. ExchangesInOrder /\ SettledLast
    BY DEF OrderInv
  <2>2. BoxInv' /\ OnceInv'
    BY MessengerAssumption, StepBox, OnceStep
  <2>3. ExchangesInOrder' /\ SettledLast'
    BY <2>1, MessengerAssumption, ExchangesStep, SettledStep
  <2> QED BY <2>2, <2>3 DEF OrderInv
<1>3. BoxInv /\ OnceInv /\ OrderInv /\ [Next]_vars =>
         [/\ \A n \in Node : \A r \in inbox'[n] \ inbox[n] : Queued(r.msg)
          /\ \A m \in repeated' \ repeated : Queued(m)]_vars
  BY ShownWhileQueuedStep, MessengerAssumption
<1> QED BY <1>1, <1>2, <1>3, PTL DEF Spec, ShownWhileQueued
=============================================================================
