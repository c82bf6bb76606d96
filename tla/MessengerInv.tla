---------------------------- MODULE MessengerInv ----------------------------
(***************************************************************************)
(* The inductive invariant of Messenger, in named parts.  TypeInv is       *)
(* inductive whatever the addresses do.  Everything from HostsOK on        *)
(* relies on AddressesNotReused: an address then identifies its user, and  *)
(* what a session, a packet and an outbox say of one another cannot be     *)
(* mixed up between users.                                                 *)
(***************************************************************************)
EXTENDS Messenger

\* Sequence numbers handed out stay below the outbox's counter.
SeqsBelowNext ==
  \A n, c \in Node : /\ nextSeq[n][c] # 0
                     /\ \A o \in outbox[n][c] : o.seq < nextSeq[n][c]

\* The types, with what keeps the counter recomputed at start well defined.
TypeInv == TypeOK /\ SeqsBelowNext

\* Addresses on file, saved or bound to belong to the users they stand for.
HostsOK ==
  \A n \in Node :
     /\ at[n] \in AddrOf[n]
     /\ \A c \in Node : addrs[n][c] # NoAddr => addrs[n][c] \in AddrOf[c]
     /\ \A x \in saved[n] : x[2] \in AddrOf[x[1]] /\ x[2] \notin AddrOf[n]

\* The session s that user n keeps for address a, at any stage of its life, when
\* k rounds of ephemeral keys have been generated.
SessionOK(n, a, s, k) ==
  /\ s.st # "none" /\ a \notin AddrOf[n]
  /\ s.mine.node = n /\ s.mine.addr = a /\ s.mine.no <= k
  /\ s.cid # NoNode => a \in AddrOf[s.cid]
  /\ s.up # NoKey => s.up.eph = s.key.eph
  /\ s.st = "hello" => s.key = NoKey
  /\ s.st # "hello" => \E f \in s.key.eph : f.node # n /\ f.no <= k /\ s.key.eph = {s.mine, f}
  /\ s.st = "identity" => s.shared = s.key.eph
  /\ ~Connected(s) => s.up = NoKey /\ s.key.ids = {} /\ s.seen = {} /\ ~s.conf
  /\ Connected(s) => /\ s.cid # NoNode
                     /\ s.cid \in Contacts[n] => EncryptKey(s).ids # {}

SessionsOK ==
  \A n \in Node, a \in Addr :
     IF peers[n][a].st = "none" THEN peers[n][a] = NoSession
                                ELSE SessionOK(n, a, peers[n][a], ephs)

\* A stopped daemon has no session, so none outlives the counter a start recomputes.
DownOK ==
  \A n \in Node : mode[n] = "down" => \A a \in Addr : peers[n][a] = NoSession

\* An outbox holds what its owner wrote to that contact, once per number.
OutboxOK ==
  \A n, c \in Node : \A o \in outbox[n][c] :
     /\ o.msg.from = n /\ o.msg.to = c /\ c \in Contacts[n]
     /\ \A q \in outbox[n][c] : q.seq = o.seq => q = o

\* Where the packets of a handshake come from.
HandshakeOK ==
  \A p \in net :
     /\ p.type = "HELLO" => /\ p.eph.node \in Node /\ p.eph.no <= ephs
                            /\ p.src \in AddrOf[p.eph.node]
                            /\ p.dst \notin AddrOf[p.eph.node]
     /\ p.type = "IDENTITY" => p.src \in AddrOf[p.id]

\* A CHAT runs from its writer to its addressee, always under an upgraded key.
ChatOK(p) ==
  /\ p.src \in AddrOf[p.msg.from] /\ p.dst \in AddrOf[p.msg.to]
  /\ p.key.ids # {}
  /\ \A e \in p.key.eph : e.no <= ephs

Chats == {p \in net : p.type = "CHAT"}
ChatsOK == \A p \in Chats : ChatOK(p)

\* Under one key exchange a user gives a sequence number to one message.
ChatsAgree ==
  \A p, q \in Chats :
     p.key.eph = q.key.eph /\ p.msg.from = q.msg.from /\ p.seq = q.seq => p.msg = q.msg

\* What a session has sent is what its contact's outbox still says it is.
ChatMatches(n, s, p) ==
  /\ Connected(s) /\ s.cid = p.msg.to /\ s.key.eph = p.key.eph
  /\ p.seq < nextSeq[n][s.cid]
  /\ \A o \in outbox[n][s.cid] : o.seq = p.seq => o.msg = p.msg

ChatsMatchOutbox ==
  \A p \in Chats, a \in Addr :
     LET s == peers[p.msg.from][a]
     IN  s.st # "none" /\ s.mine \in p.key.eph => ChatMatches(p.msg.from, s, p)

\* A CHAT under key exchange E that gives number i to a message, which the
\* addressee's GUI was handed in that exchange.
ShownAs(E, from, to, i) ==
  \E p \in Chats : /\ p.key.eph = E /\ p.seq = i
                   /\ p.msg.from = from /\ p.msg.to = to
                   /\ \E r \in inbox[to] : r.msg = p.msg /\ r.eph = E

SeenShown ==
  \A n \in Node, a \in Addr : \A i \in peers[n][a].seen :
     \E m \in Node : a \in AddrOf[m] /\ ShownAs(peers[n][a].key.eph, m, n, i)

AckedShown ==
  \A p \in net : p.type = "ACK" /\ p.seq # 0 =>
     \E m, n \in Node : p.dst \in AddrOf[m] /\ ShownAs(p.key.eph, m, n, p.seq)

\* The sequence numbers, keys and addresses that sessions, packets on their way
\* and outboxes carry agree well enough that an ACK can only ever remove from an
\* outbox the message it was sent for, once its addressee's GUI has that message.
IInv ==
  /\ TypeInv
  /\ HostsOK /\ SessionsOK /\ DownOK /\ OutboxOK /\ HandshakeOK
  /\ ChatsOK /\ ChatsAgree /\ ChatsMatchOutbox /\ SeenShown /\ AckedShown
  /\ DeliveredAsAddressed /\ NoMessageLost

----------------------------------------------------------------------------
(* The messages that can be composed within the bounds. *)
Message == UNION {[from : {n}, to : Contacts[n], id : 1..MaxText[n]] : n \in Node}

Box == INSTANCE Mailbox WITH
  composed <- sent,
  queued <- {m \in sent : Queued(m)},
  shown <- {m \in sent : Shown(m)}

\* Sessions, keys, sequence numbers, retries, address changes, crashes and calls
\* implement the mailbox: each of their steps is one of its steps, or none.
MailboxKept == Box!Spec

\* What a user has written so far, numbered from 1.
Written(n) == {m \in sent : m.from = n}
WrittenOK ==
  \A n \in Node : /\ IsFiniteSet(Written(n))
                  /\ \A m \in Written(n) : m \in Message /\ m.id <= Cardinality(Written(n))

\* Outboxes, packets and screens show only messages that somebody wrote.
Genuine ==
  /\ \A n, c \in Node : \A o \in outbox[n][c] : o.msg \in sent
  /\ \A p \in Chats : p.msg \in sent
  /\ \A n \in Node : \A r \in inbox[n] : r.msg \in sent

\* The inductive invariant of the refinement.
BoxInv == IInv /\ WrittenOK /\ Genuine
----------------------------------------------------------------------------
(* Sessions, tables and keys beyond what the messages need. *)

\* A daemon that is stopped or has lent its socket has neither session nor address.
LentOK ==
  \A n \in Node : mode[n] # "up" => /\ \A a \in Addr : peers[n][a] = NoSession
                                   /\ \A c \in Node : addrs[n][c] = NoAddr

\* Session s of user n at address a was agreed with the user of that address, and
\* once it is connected to a contact its upgraded key is there or in use.
KeyOK(n, a, s) ==
  /\ s.st \in {"identity", "connected"} =>
        \E f \in s.key.eph : /\ f.node \in Node \ {n} /\ a \in AddrOf[f.node]
                            /\ s.key.eph = {s.mine, f}
  /\ s.st = "identity" => s.shared = s.key.eph /\ s.up = NoKey /\ ~s.conf
  /\ Connected(s) /\ s.cid \in Contacts[n] =>
        LET K == UpgradedKey(s.key.eph, n, s.cid)
        IN  IF s.conf THEN s.key = K ELSE s.up = K

KeysOK == \A n \in Node, a \in Addr : KeyOK(n, a, peers[n][a])

\* Before the first call an online contact is connected at its address on file.
OnlineOK ==
  calls = 0 =>
     \A n \in Node :
        /\ mode[n] # "yielded"
        /\ \A c \in online[n] : addrs[n][c] # NoAddr /\ Connected(peers[n][addrs[n][c]])

TablesInv == TablesAgree /\ LentOK /\ KeysOK /\ OnlineOK

----------------------------------------------------------------------------
(* Once per session, and never after its ACK. *)

\* A message keeps the number it was queued under.
NumberKept ==
  /\ \A p, q \in Chats : p.msg = q.msg => p.seq = q.seq
  /\ \A n, c \in Node : \A o \in outbox[n][c] :
        /\ \A q \in outbox[n][c] : q.msg = o.msg => q = o
        /\ \A p \in Chats : p.msg = o.msg => p.seq = o.seq

\* What was shown in a session that is still there, that session remembers.
Remembers(s, r) ==
  /\ Connected(s) /\ s.key.eph = r.eph
  /\ \E p \in Chats : p.key.eph = r.eph /\ p.msg = r.msg /\ p.seq \in s.seen

ReceiptsOK ==
  \A n \in Node : \A r \in inbox[n] :
     /\ \A e \in r.eph : e.no <= ephs
     /\ \A a \in Addr : peers[n][a].st # "none" /\ peers[n][a].mine \in r.eph
                          => Remembers(peers[n][a], r)

OnceInv == NumberKept /\ ReceiptsOK /\ ShownOncePerSession

\* Nobody moves: each user keeps one address.
NobodyMoves == \A n \in Node : \A a, b \in AddrOf[n] : a = b

\* Every key exchange that session s has not taken part in is older than it.
NewerThan(s, E) == s.st = "none" \/ s.mine \in E \/ \A e \in E : e.no < s.mine.no

\* The exchanges that a user has shown or sent messages in are those of the present
\* session with that contact, or older ones.
ExchangesInOrder ==
  /\ \A n \in Node : \A r \in inbox[n] : \A a \in AddrOf[r.cid] : NewerThan(peers[n][a], r.eph)
  /\ \A p \in Chats : \A a \in AddrOf[p.msg.to] : NewerThan(peers[p.msg.from][a], p.key.eph)

\* A message no longer queued was shown in an exchange that its writer began after
\* all others it was sent in.
SettledLast ==
  \A m \in sent : Queued(m) \/
     \E r \in inbox[m.to] :
        /\ r.msg = m
        /\ \E f \in r.eph : /\ f.node = m.from
                            /\ \A p \in Chats : p.msg = m =>
                                  p.key.eph = r.eph \/ \A e \in p.key.eph : e.no < f.no

OrderInv == ExchangesInOrder /\ SettledLast

\* All of the above.
SafetyInv == BoxInv /\ TablesInv /\ OnceInv /\ (NobodyMoves => OrderInv)
=============================================================================
