----------------------------- MODULE Messenger -----------------------------
(***************************************************************************)
(* The messaging daemon of KoKoRoo: the per-address session state machine  *)
(* (HELLO / IDENTITY / CONFIRM handshake with its two session keys), the   *)
(* contact-to-address table, the persistent outbox with its ACKs and       *)
(* retries, and what each daemon hands to its GUI.                         *)
(*                                                                         *)
(* Every node runs one daemon; all its handlers run on one thread          *)
(* (daemon.rs run), so each command, packet and timer is one step.  The    *)
(* network is UDP: a datagram that was ever sent may reach whichever       *)
(* daemon is bound to its destination never, once or many times, and in    *)
(* any order, which is why net only grows and receiving leaves it alone.   *)
(* Retransmitting an identical datagram is therefore already possible.     *)
(* Elapsed time is abstracted: a timer of the code may fire whenever its   *)
(* other conditions hold.                                                  *)
(***************************************************************************)
EXTENDS Naturals, FiniteSets, FiniteSetsExt

CONSTANTS
  Node,       \* the users, each one identity keypair
  Addr,       \* socket addresses
  NoNode,     \* the empty contact_id
  NoAddr,     \* no entry in contact_addrs
  AddrOf,     \* AddrOf[n]: the addresses n is ever bound to
  Contacts,   \* Contacts[n]: the contact records on n's disk
  MaxEph,     \* bound: rounds of ephemeral key generation
  MaxText,    \* bound: MaxText[n] chat messages composed by n
  MaxCalls    \* bound: voice calls (socket yields)

ASSUME MessengerAssumption ==
  /\ NoNode \notin Node
  /\ NoAddr \notin Addr
  /\ AddrOf \in [Node -> SUBSET Addr]
  /\ Contacts \in [Node -> SUBSET Node]
  /\ \A n \in Node : n \notin Contacts[n]
  /\ MaxEph \in Nat /\ MaxCalls \in Nat /\ MaxText \in [Node -> Nat]

\* An address is never taken over by another user (DHCP lease, reinstalled machine).
AddressesNotReused ==
  \A m, n \in Node : m # n => AddrOf[m] \cap AddrOf[n] = {}

VARIABLES
  mode,       \* "up", "yielded" (socket lent to the voice engine) or "down"
  at,         \* the address a node's datagrams carry
  peers,      \* peers[n][a]: n's PeerSession for address a
  addrs,      \* addrs[n][c]: contact_addrs of n
  outbox,     \* outbox[n][c]: unacknowledged messages, on disk and in memory
  nextSeq,    \* nextSeq[n][c]: next_seq of that outbox
  online,     \* online[n]: contacts n's GUI was last told are online
  saved,      \* saved_peers: sessions to rebuild after a call
  net,        \* every datagram sent so far
  ephs,       \* rounds of ephemeral keys generated so far
  calls,      \* voice calls so far
  sent,       \* history: every message composed
  inbox,      \* history: every message handed to the GUI, with its session
  repeated    \* history: messages handed over twice in one session

vars == <<mode, at, peers, addrs, outbox, nextSeq, online, saved, net, ephs,
          calls, sent, inbox, repeated>>

sessionVars == <<peers, addrs, online>>
chatVars == <<outbox, nextSeq, sent, inbox, repeated>>
procVars == <<mode, at, saved, calls>>

----------------------------------------------------------------------------
(* Data *)

\* An ephemeral keypair, named by who made it, for which session, and when.
Eph == [node : Node \cup {NoNode}, addr : Addr \cup {NoAddr}, no : Nat]
NoEph == [node |-> NoNode, addr |-> NoAddr, no |-> 0]

\* A session key is determined by the two ephemerals and, once upgraded, by
\* the two identities as well.
Key == [eph : SUBSET Eph, ids : SUBSET Node]
NoKey == [eph |-> {}, ids |-> {}]
BaseKey(E) == [eph |-> E, ids |-> {}]
UpgradedKey(E, n, c) == [eph |-> E, ids |-> {n, c}]

Text == [from : Node, to : Node, id : Nat]
Entry == [seq : Nat, msg : Text]
Receipt == [msg : Text, cid : Node \cup {NoNode}, eph : SUBSET Eph]

Session == [st : {"none", "hello", "identity", "connected"},
            cid : Node \cup {NoNode},   \* contact_id
            mine : Eph,                 \* our ephemeral (our_secret, our_pubkey)
            key : Key,                  \* session
            shared : SUBSET Eph,        \* ephemeral_shared
            up : Key,                   \* upgraded_session
            conf : BOOLEAN,             \* identity_confirmed
            seen : SUBSET Nat]          \* seen_seqs

NoSession == [st |-> "none", cid |-> NoNode, mine |-> NoEph, key |-> NoKey,
              shared |-> {}, up |-> NoKey, conf |-> FALSE, seen |-> {}]

Connected(s) == s.st = "connected"

Hello(a, b, e) == [type |-> "HELLO", src |-> a, dst |-> b, eph |-> e]
Ident(a, b, k, n) == [type |-> "IDENTITY", src |-> a, dst |-> b, key |-> k, id |-> n]
Confirm(a, b, k) == [type |-> "CONFIRM", src |-> a, dst |-> b, key |-> k]
Chat(a, b, k, o) == [type |-> "CHAT", src |-> a, dst |-> b, key |-> k, seq |-> o.seq, msg |-> o.msg]
Ack(a, b, k, i) == [type |-> "ACK", src |-> a, dst |-> b, key |-> k, seq |-> i]
Bye(a, b) == [type |-> "BYE", src |-> a, dst |-> b]

Packet ==
       [type : {"HELLO"}, src : Addr, dst : Addr, eph : Eph]
  \cup [type : {"IDENTITY"}, src : Addr, dst : Addr, key : Key, id : Node]
  \cup [type : {"CONFIRM"}, src : Addr, dst : Addr, key : Key]
  \cup [type : {"CHAT"}, src : Addr, dst : Addr, key : Key, seq : Nat, msg : Text]
  \cup [type : {"ACK"}, src : Addr, dst : Addr, key : Key, seq : Nat]
  \cup [type : {"BYE"}, src : Addr, dst : Addr]

----------------------------------------------------------------------------
(* Sessions: session.rs and messaging/protocol.rs *)

\* decrypt_packet tries the upgraded session, then the base session.
CanDecrypt(s, k) == k # NoKey /\ (k = s.up \/ k = s.key)

\* The first packet under the upgraded key promotes it to the primary session.
AfterDecrypt(s, k) ==
  IF s.up # NoKey /\ k = s.up /\ ~s.conf
  THEN [s EXCEPT !.conf = TRUE, !.key = s.up, !.up = NoKey]
  ELSE s

\* Fault: the upgraded key is used only once the peer has been heard to use it.
EncryptPrimary(s) == s.key
EncryptKey(s) == IF ~s.conf /\ s.up # NoKey THEN s.up ELSE s.key

\* initiate_handshake: a session that has sent its HELLO to address a.
NewEph(n, a) == [node |-> n, addr |-> a, no |-> ephs + 1]
Initiated(n, a, c) == [NoSession EXCEPT !.st = "hello", !.cid = c, !.mine = NewEph(n, a)]

\* handle_incoming_hello: keys agreed with the sender of ephemeral e.
Answered(n, a, e) ==
  LET E == {NewEph(n, a), e}
  IN  [NoSession EXCEPT !.st = "identity", !.mine = NewEph(n, a),
                        !.key = BaseKey(E), !.shared = E]

\* handle_hello_response: our pending HELLO was answered with ephemeral e.
Completed(s, e) ==
  LET E == {s.mine, e}
  IN  [s EXCEPT !.st = "identity", !.key = BaseKey(E), !.shared = E,
                !.up = NoKey, !.conf = FALSE]

\* Fault: a session that began with the peer's HELLO keeps its empty contact_id.
IdentifiedUnnamed(n, s, c) ==
  [s EXCEPT !.st = "connected", !.shared = {},
            !.up = IF s.shared # {} /\ c \in Contacts[n]
                   THEN UpgradedKey(s.shared, n, c) ELSE @]

\* handle_identity: the peer proved to be contact c.
Identified(n, s, c) ==
  [s EXCEPT !.st = "connected", !.cid = c, !.shared = {},
            !.up = IF s.shared # {} /\ c \in Contacts[n]
                   THEN UpgradedKey(s.shared, n, c) ELSE @]

\* Every outbox message, encrypted for the session s that runs to address a.
Flush(n, a, s, box) == {Chat(at[n], a, EncryptKey(s), o) : o \in box}

\* Fault: the contacts of a dropped session stay in contact_addrs.
ForgetNothing(table, a) == table

\* contact_addrs.retain(|_, x| x != a)
Forget(table, a) == [c \in Node |-> IF table[c] = a THEN NoAddr ELSE table[c]]

\* Fault: the session at the former address is left behind.
RehomeKeepingOld(table, old, a, s) == [table EXCEPT ![a] = s]

\* A contact's session s is now at address a; the one at its old address goes.
Rehome(table, old, a, s) ==
  [b \in Addr |-> IF b = a THEN s ELSE IF b = old THEN NoSession ELSE table[b]]

\* Fault: an ACK is taken to cover the earlier messages too.
UnqueueUpTo(box, i) == {o \in box : o.seq > i}

\* remove_acked
Unqueue(box, i) == {o \in box : o.seq # i}

\* Fault: the number of a shown message is not recorded.
RememberNothing(s, i) == s

\* seen_seqs.insert(i)
Remember(s, i) == [s EXCEPT !.seen = @ \cup {i}]

\* Faults: the counter of a loaded outbox is one too low twice over, or starts afresh.
LoadedSeqTooLow(box) == Max({o.seq : o \in box} \cup {0}) - 1
LoadedSeqAfresh(box) == 1

\* next_seq of an outbox just loaded: one above every number in it.
LoadedSeq(box) == Max({o.seq : o \in box} \cup {0}) + 1

Up(n) == mode[n] = "up"
Receives(n, p, type) == Up(n) /\ p \in net /\ p.type = type /\ p.dst = at[n]

----------------------------------------------------------------------------
Init ==
  /\ mode = [n \in Node |-> "down"]
  /\ at \in {f \in [Node -> Addr] : \A n \in Node : f[n] \in AddrOf[n]}
  /\ peers = [n \in Node |-> [a \in Addr |-> NoSession]]
  /\ addrs = [n \in Node |-> [c \in Node |-> NoAddr]]
  /\ outbox = [n \in Node |-> [c \in Node |-> {}]]
  /\ nextSeq = [n \in Node |-> [c \in Node |-> 1]]
  /\ online = [n \in Node |-> {}]
  /\ saved = [n \in Node |-> {}]
  /\ net = {} /\ ephs = 0 /\ calls = 0
  /\ sent = {} /\ inbox = [n \in Node |-> {}] /\ repeated = {}

(* Process lifecycle *)

\* Two running processes never share an address; a lent socket still holds it.
Free(n, a) == \A m \in Node \ {n} : mode[m] # "down" => at[m] # a

\* Process start: nothing but the outboxes survives; their counters are
\* recomputed from what is left on disk.
Start(n) ==
  /\ mode[n] = "down"
  /\ \E a \in AddrOf[n] : Free(n, a) /\ at' = [at EXCEPT ![n] = a]
  /\ mode' = [mode EXCEPT ![n] = "up"]
  /\ nextSeq' = [nextSeq EXCEPT ![n] = [c \in Node |-> LoadedSeq(outbox[n][c])]]
  /\ UNCHANGED <<sessionVars, outbox, sent, inbox, repeated, saved, calls, net, ephs>>

Stop(n) ==
  /\ mode' = [mode EXCEPT ![n] = "down"]
  /\ peers' = [peers EXCEPT ![n] = [a \in Addr |-> NoSession]]
  /\ addrs' = [addrs EXCEPT ![n] = [c \in Node |-> NoAddr]]
  /\ online' = [online EXCEPT ![n] = {}]
  /\ saved' = [saved EXCEPT ![n] = {}]
  /\ UNCHANGED <<chatVars, at, calls, ephs>>

Crash(n) == mode[n] # "down" /\ Stop(n) /\ UNCHANGED net

\* The GUI closed the command channel: BYE to every peer with a session key.
Shutdown(n) ==
  /\ Up(n)
  /\ Stop(n)
  /\ net' = net \cup {Bye(at[n], a) : a \in {b \in Addr : peers[n][b].key # NoKey}}

\* The host's address changes under the running daemon, bound to [::].
Move(n) ==
  /\ Up(n)
  /\ \E a \in AddrOf[n] \ {at[n]} : Free(n, a) /\ at' = [at EXCEPT ![n] = a]
  /\ UNCHANGED <<sessionVars, chatVars, mode, saved, calls, net, ephs>>

YieldSocket(n) ==
  /\ Up(n) /\ calls < MaxCalls
  /\ calls' = calls + 1
  /\ mode' = [mode EXCEPT ![n] = "yielded"]
  /\ saved' = [saved EXCEPT ![n] =
        {<<peers[n][a].cid, a>> : a \in {b \in Addr : peers[n][b].cid # NoNode}}]
  /\ peers' = [peers EXCEPT ![n] = [a \in Addr |-> NoSession]]
  /\ addrs' = [addrs EXCEPT ![n] = [c \in Node |-> NoAddr]]
  /\ UNCHANGED <<chatVars, at, online, net, ephs>>

\* Reconnect to every saved peer; of two entries for one contact only the
\* first one met is used.
ReclaimSocket(n) ==
  /\ mode[n] = "yielded"
  /\ mode' = [mode EXCEPT ![n] = "up"]
  /\ saved' = [saved EXCEPT ![n] = {}]
  /\ \E pick \in SUBSET saved[n] :
       /\ \A x \in saved[n] : \E y \in pick : y[1] = x[1]
       /\ \A x, y \in pick : x[1] = y[1] => x = y
       /\ pick = {} \/ ephs < MaxEph
       /\ ephs' = IF pick = {} THEN ephs ELSE ephs + 1
       /\ peers' = [peers EXCEPT ![n] = [a \in Addr |->
              IF \E x \in pick : x[2] = a
              THEN Initiated(n, a, (CHOOSE x \in pick : x[2] = a)[1]) ELSE @[a]]]
       /\ addrs' = [addrs EXCEPT ![n] = [c \in Node |->
              IF \E x \in pick : x[1] = c
              THEN (CHOOSE x \in pick : x[1] = c)[2] ELSE @[c]]]
       /\ net' = net \cup {Hello(at[n], x[2], NewEph(n, x[2])) : x \in pick}
  /\ UNCHANGED <<chatVars, at, online, calls>>

----------------------------------------------------------------------------
(* Commands and timers *)

\* initiate_handshake with contact c, whose last known address is a: whatever
\* session that address had is replaced.
Initiate(n, a, c) ==
  /\ ephs < MaxEph
  /\ ephs' = ephs + 1
  /\ peers' = [peers EXCEPT ![n][a] = Initiated(n, a, c)]
  /\ addrs' = [addrs EXCEPT ![n][c] = a]
  /\ net' = net \cup {Hello(at[n], a, NewEph(n, a))}
  /\ UNCHANGED online

\* Connect, the ConnectAll queue and the beacon: only when c has no address yet.
Connect(n) ==
  /\ Up(n)
  /\ \E c \in Contacts[n] : /\ addrs[n][c] = NoAddr
                            /\ \E a \in AddrOf[c] : Initiate(n, a, c)
  /\ UNCHANGED <<chatVars, procVars>>

Queue(n, c, m) ==
  /\ outbox' = [outbox EXCEPT ![n][c] = @ \cup {[seq |-> nextSeq[n][c], msg |-> m]}]
  /\ nextSeq' = [nextSeq EXCEPT ![n][c] = @ + 1]
  /\ sent' = sent \cup {m}
  /\ UNCHANGED <<inbox, repeated>>

\* SendMessage: queue, then send at once, start connecting, or (when the
\* contact is connecting or the socket is lent) leave it to a later flush.
SendMessage(n) ==
  /\ mode[n] \in {"up", "yielded"}
  /\ \E c \in Contacts[n], i \in 1..MaxText[n] :
       LET m == [from |-> n, to |-> c, id |-> i]
           b == addrs[n][c]
       IN  /\ i = 1 + Cardinality({x \in sent : x.from = n})
           /\ Queue(n, c, m)
           /\ \/ /\ Up(n) /\ b = NoAddr
                 /\ \E a \in AddrOf[c] : Initiate(n, a, c)
              \/ /\ ~(Up(n) /\ b = NoAddr)
                 /\ net' = IF b # NoAddr /\ Connected(peers[n][b])
                           THEN net \cup Flush(n, b, peers[n][b],
                                               {[seq |-> nextSeq[n][c], msg |-> m]})
                           ELSE net
                 /\ UNCHANGED <<sessionVars, ephs>>
  /\ UNCHANGED procVars

\* The backoff of c's outbox expired: resend all of it.
RetryOutbox(n) ==
  /\ Up(n)
  /\ \E c \in Node :
       LET a == addrs[n][c]
       IN  /\ outbox[n][c] # {} /\ a # NoAddr /\ Connected(peers[n][a])
           /\ net' = net \cup Flush(n, a, peers[n][a], outbox[n][c])
  /\ UNCHANGED <<sessionVars, chatVars, procVars, ephs>>

\* A keepalive is an ACK of sequence number 0 to every connected peer.
Keepalive(n) ==
  /\ Up(n)
  /\ net' = net \cup {Ack(at[n], a, EncryptKey(peers[n][a]), 0) :
                        a \in {b \in Addr : Connected(peers[n][b])}}
  /\ UNCHANGED <<sessionVars, chatVars, procVars, ephs>>

\* Fault: the GUI is not told that the peer is gone.
DropSilently(n, a) ==
  /\ peers' = [peers EXCEPT ![n][a] = NoSession]
  /\ addrs' = [addrs EXCEPT ![n] = Forget(@, a)]
  /\ UNCHANGED online

\* Drop the session of address a and every contact_addrs entry pointing to it.
Drop(n, a) ==
  /\ online' = [online EXCEPT ![n] = IF Connected(peers[n][a])
                                     THEN @ \ {peers[n][a].cid} ELSE @]
  /\ peers' = [peers EXCEPT ![n][a] = NoSession]
  /\ addrs' = [addrs EXCEPT ![n] = Forget(@, a)]

\* PEER_TIMEOUT without a packet we could decrypt, or, for a HELLO nobody
\* answers, HELLO_MAX_RETRIES.
PeerTimeout(n) ==
  /\ Up(n)
  /\ \E a \in Addr : peers[n][a].st # "none" /\ Drop(n, a)
  /\ UNCHANGED <<chatVars, procVars, net, ephs>>

----------------------------------------------------------------------------
(* Packets: packets.rs receive_packets *)

\* handle_incoming_hello, and the table entry for the new session.
Answer(n, p) ==
  LET s == Answered(n, p.src, p.eph)
  IN  /\ ephs < MaxEph
      /\ ephs' = ephs + 1
      /\ peers' = [peers EXCEPT ![n][p.src] = s]
      /\ net' = net \cup {Hello(at[n], p.src, s.mine),
                          Ident(at[n], p.src, s.key, n)}

\* The answer to our own HELLO.
HelloResponse(n, p) ==
  LET s == Completed(peers[n][p.src], p.eph)
  IN  /\ peers[n][p.src].st = "hello"
      /\ peers' = [peers EXCEPT ![n][p.src] = s]
      /\ net' = net \cup {Ident(at[n], p.src, s.key, n)}
      /\ UNCHANGED <<addrs, online, ephs>>

\* A connected peer says HELLO: it restarted, so start over with it.
HelloRestart(n, p) ==
  LET s == peers[n][p.src]
  IN  /\ Connected(s)
      /\ online' = [online EXCEPT ![n] = @ \ {s.cid}]
      /\ addrs' = [addrs EXCEPT ![n] = [c \in Node |-> IF c = s.cid THEN NoAddr ELSE @[c]]]
      /\ Answer(n, p)

\* An unknown address, or a handshake that has waited for its IDENTITY for
\* more than the 5 to 10 seconds of jitter (a fresh one ignores the HELLO).
HelloIncoming(n, p) ==
  /\ peers[n][p.src].st \in {"none", "identity"}
  /\ Answer(n, p)
  /\ UNCHANGED <<addrs, online>>

RecvHello(n) ==
  /\ \E p \in net : /\ Receives(n, p, "HELLO")
                    /\ HelloResponse(n, p) \/ HelloRestart(n, p) \/ HelloIncoming(n, p)
  /\ UNCHANGED <<chatVars, procVars>>

\* IDENTITY completes the handshake: the contact moves to this address, the
\* session at its former address is dropped, and its outbox is flushed.
\* (For a connected peer it is a nickname update, which changes nothing here.)
RecvIdentity(n) ==
  /\ \E p \in net :
       LET s == Identified(n, peers[n][p.src], p.id)
           old == addrs[n][p.id]
       IN  /\ Receives(n, p, "IDENTITY")
           /\ peers[n][p.src].st = "identity"
           /\ p.key = peers[n][p.src].key
           /\ peers' = [peers EXCEPT ![n] = Rehome(@, old, p.src, s)]
           /\ addrs' = [addrs EXCEPT ![n][p.id] = p.src]
           /\ online' = [online EXCEPT ![n] = @ \cup {p.id}]
           /\ net' = net \cup Flush(n, p.src, s, outbox[n][p.id])
                         \cup (IF s.up = NoKey THEN {} ELSE {Confirm(at[n], p.src, s.up)})
  /\ UNCHANGED <<chatVars, procVars, ephs>>

RecvConfirm(n) ==
  /\ \E p \in net :
       LET s == peers[n][p.src]
       IN  /\ Receives(n, p, "CONFIRM")
           /\ s.up # NoKey /\ p.key = s.up
           /\ peers' = [peers EXCEPT ![n][p.src] = AfterDecrypt(s, p.key)]
  /\ UNCHANGED <<addrs, online, chatVars, procVars, net, ephs>>

\* CHAT is always acknowledged; it reaches the GUI once per session.
RecvChat(n) ==
  /\ \E p \in net :
       LET s == peers[n][p.src]
           t == AfterDecrypt(s, p.key)
           r == [msg |-> p.msg, cid |-> s.cid, eph |-> p.key.eph]
       IN  /\ Receives(n, p, "CHAT")
           /\ CanDecrypt(s, p.key)
           /\ peers' = [peers EXCEPT ![n][p.src] = Remember(t, p.seq)]
           /\ net' = net \cup {Ack(at[n], p.src, EncryptKey(t), p.seq)}
           /\ IF p.seq \in s.seen
              THEN UNCHANGED <<inbox, repeated>>
              ELSE /\ inbox' = [inbox EXCEPT ![n] = @ \cup {r}]
                   /\ repeated' = IF r \in inbox[n] THEN repeated \cup {p.msg} ELSE repeated
  /\ UNCHANGED <<addrs, online, outbox, nextSeq, sent, procVars, ephs>>

\* An ACK takes the message off the outbox of the session's contact; the
\* number 0 is a keepalive.
RecvAck(n) ==
  /\ \E p \in net :
       LET s == peers[n][p.src]
       IN  /\ Receives(n, p, "ACK")
           /\ CanDecrypt(s, p.key)
           /\ peers' = [peers EXCEPT ![n][p.src] = AfterDecrypt(s, p.key)]
           /\ outbox' = IF p.seq = 0 \/ s.cid = NoNode THEN outbox
                        ELSE [outbox EXCEPT ![n][s.cid] = Unqueue(@, p.seq)]
  /\ UNCHANGED <<addrs, online, nextSeq, sent, inbox, repeated, procVars, net, ephs>>

\* BYE is obeyed without being decrypted.
RecvBye(n) ==
  /\ \E p \in net : /\ Receives(n, p, "BYE")
                    /\ peers[n][p.src].st # "none"
                    /\ Drop(n, p.src)
  /\ UNCHANGED <<chatVars, procVars, net, ephs>>

Next ==
  \E n \in Node :
     \/ Start(n) \/ Crash(n) \/ Shutdown(n) \/ Move(n)
     \/ YieldSocket(n) \/ ReclaimSocket(n)
     \/ Connect(n) \/ SendMessage(n) \/ RetryOutbox(n) \/ Keepalive(n) \/ PeerTimeout(n)
     \/ RecvHello(n) \/ RecvIdentity(n) \/ RecvConfirm(n)
     \/ RecvChat(n) \/ RecvAck(n) \/ RecvBye(n)

Spec == Init /\ [][Next]_vars

----------------------------------------------------------------------------
(* Properties *)

\* Every variable keeps to the values the daemon's data structures can hold.
TypeOK ==
  /\ mode \in [Node -> {"up", "yielded", "down"}]
  /\ at \in [Node -> Addr]
  /\ peers \in [Node -> [Addr -> Session]]
  /\ addrs \in [Node -> [Node -> Addr \cup {NoAddr}]]
  /\ outbox \in [Node -> [Node -> SUBSET Entry]]
  /\ nextSeq \in [Node -> [Node -> Nat]]
  /\ online \in [Node -> SUBSET Node]
  /\ saved \in [Node -> SUBSET (Node \X Addr)]
  /\ net \subseteq Packet
  /\ ephs \in Nat /\ calls \in Nat
  /\ sent \subseteq Text
  /\ inbox \in [Node -> SUBSET Receipt]
  /\ repeated \subseteq Text

Queued(m) == \E o \in outbox[m.from][m.to] : o.msg = m
Shown(m) == \E r \in inbox[m.to] : r.msg = m

\* No message is lost: whatever restarts, moves, resets and replays happen,
\* a composed message is in its sender's outbox until its addressee's GUI has it.
NoMessageLost == \A m \in sent : Queued(m) \/ Shown(m)

\* A message is handed to the GUI of the contact it was written to, as a
\* message of the contact that wrote it.
DeliveredAsAddressed ==
  \A n \in Node : \A r \in inbox[n] : r.msg.to = n /\ r.cid = r.msg.from

\* Within one session no retry or duplicate of a message is shown again.
ShownOncePerSession == repeated = {}

\* A message is only ever shown, for the first time or again, while its sender
\* still has it queued: an ACK is the end of it.
ShownWhileQueued ==
  [][/\ \A n \in Node : \A r \in inbox'[n] \ inbox[n] : Queued(r.msg)
     /\ \A m \in repeated' \ repeated : Queued(m)]_vars

\* contact_addrs and peers agree: an address on file always has a session (which
\* can time out, so that the contact is not skipped by Connect for ever), and a
\* connected session is the one on file for its contact.
TablesAgree ==
  \A n \in Node :
     /\ \A c \in Node : addrs[n][c] # NoAddr => peers[n][addrs[n][c]].st # "none"
     /\ \A a \in Addr : Connected(peers[n][a]) => addrs[n][peers[n][a].cid] = a

\* Two connected ends of one key exchange, each in the other's contacts, can read
\* what the other would send now, however far each is with CONFIRM.
EndsUnderstandEachOther ==
  \A m, n \in Node : \A a, b \in Addr :
     LET s == peers[m][a]
         t == peers[n][b]
     IN  /\ m # n /\ Connected(s) /\ Connected(t)
         /\ s.key.eph = t.key.eph
         /\ n \in Contacts[m] /\ m \in Contacts[n]
         => CanDecrypt(t, EncryptKey(s))

\* A contact shown as online has a session, connected or being set up again.
OnlineHasSession ==
  \A n \in Node : Up(n) => \A c \in online[n] : addrs[n][c] # NoAddr

\* A message is shown once, whatever sessions it is retried in.
ShownOnce ==
  \A n \in Node : \A r1, r2 \in inbox[n] : r1.msg = r2.msg => r1 = r2
=============================================================================
