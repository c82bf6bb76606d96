------------------------------ MODULE Contacts ------------------------------
(***************************************************************************)
(* How two users become contacts and cease to be: the contact request (a   *)
(* handshake, REQUEST, the user's answer, REQUEST_ACK), the deletion (told *)
(* at once to a peer that is connected, kept in pending_deletes for one    *)
(* that is not), the block list, and the session each of them needs.  The  *)
(* session is what Messenger has in detail; here an address is its user,   *)
(* a session is the set of the two ephemeral keys, and what matters is     *)
(* which of its keys an end uses: the first one, or the one upgraded with  *)
(* the identities, which only a user who knows the peer computes.          *)
(***************************************************************************)
EXTENDS Naturals, FiniteSets

CONSTANTS
  User,
  MaxEph,     \* bound: key pairs made
  MaxCalls    \* bound: voice calls, each of which may save a contact

\* Assumed of the constants, where they are given.
ContactsAssumption == MaxEph \in Nat /\ MaxCalls \in Nat

VARIABLES
  contacts,   \* the contact files of each user
  deletes,    \* pending_deletes, on disk
  banned,     \* banned addresses and blocked keys, in the settings
  outgoing,   \* outgoing_requests: the session of a request under way
  peers,      \* the sessions
  pending,    \* pending_requests: whose request waits for the user
  net,        \* datagrams under way; a lost one stays for ever
  next,       \* next key pair
  calls,      \* voice calls so far
  said,       \* history: whom each user asked, accepted or called
  owed        \* history: deletions queued whose DELETE was not taken yet

disk == <<contacts, deletes, banned>>
tables == <<outgoing, peers, pending>>
vars == <<disk, tables, net, next, calls, said, owed>>

Eph == 1..MaxEph
NoSession == [st |-> "none", mine |-> 0, key |-> {}, up |-> "no"]
Session == [st : {"none", "hello", "identity", "connected"}, mine : 0..MaxEph,
            key : SUBSET Eph, up : {"no", "offered", "confirmed"}]
\* "level" is the key that sealed the packet.
Packet == [type : {"HELLO", "IDENTITY", "CONFIRM", "REQUEST", "REQUEST_ACK",
                   "BYE", "DELETE", "DELETE_ACK"},
           src : User, dst : User, key : SUBSET Eph, level : {"first", "upgraded"}]

Hello(u, v, e) ==
  [type |-> "HELLO", src |-> u, dst |-> v, key |-> {e}, level |-> "first"]
\* encrypt_packet: the upgraded key as soon as there is one.
Sealed(type, u, v, s) ==
  [type |-> type, src |-> u, dst |-> v, key |-> s.key,
   level |-> IF s.up = "no" THEN "first" ELSE "upgraded"]
\* Without a session nothing is sent.
Sends(type, u, v, s) == IF s.key = {} THEN {} ELSE {Sealed(type, u, v, s)}

\* decrypt_packet: the upgraded key if there is one, else the first.
CanRead(s, m) ==
  /\ s.key # {} /\ s.key = m.key
  /\ IF m.level = "upgraded" THEN s.up # "no" ELSE s.up # "confirmed"
\* A packet that the upgraded key opens promotes it.
Read(s, m) == IF m.level = "upgraded" THEN [s EXCEPT !.up = "confirmed"] ELSE s

Waiting(e) == [st |-> "hello", mine |-> e, key |-> {}, up |-> "no"]
\* Both keys are there: the peer's identity is awaited.
Agreed(mine, e) == [st |-> "identity", mine |-> 0, key |-> {mine, e}, up |-> "no"]
Connected(s) == [s EXCEPT !.st = "connected"]

Take(u, m) == m \in net /\ m.dst = u
Peers(u, v, s) == peers' = [peers EXCEPT ![u][v] = s]
Outgoing(u, v, s) == outgoing' = [outgoing EXCEPT ![u][v] = s]

Init ==
  /\ contacts = [u \in User |-> {}] /\ deletes = [u \in User |-> {}]
  /\ banned = [u \in User |-> {}]
  /\ outgoing = [u \in User |-> [v \in User |-> NoSession]]
  /\ peers = [u \in User |-> [v \in User |-> NoSession]]
  /\ pending = [u \in User |-> {}]
  /\ net = {} /\ next = 1 /\ calls = 0
  /\ said = [u \in User |-> {}] /\ owed = [u \in User |-> {}]

----------------------------------------------------------------------------
(* The user *)

\* SendRequest, not repeated while one is under way.
SendRequest(u, v) ==
  /\ u # v /\ outgoing[u][v] = NoSession /\ next <= MaxEph
  /\ Outgoing(u, v, Waiting(next))
  /\ net' = net \cup {Hello(u, v, next)} /\ next' = next + 1
  /\ said' = [said EXCEPT ![u] = @ \cup {v}]
  /\ UNCHANGED <<disk, peers, pending, calls, owed>>

\* A contact is saved, and no longer marked as deleted.
Saves(u, v) ==
  /\ contacts' = [contacts EXCEPT ![u] = @ \cup {v}]
  /\ deletes' = [deletes EXCEPT ![u] = @ \ {v}]
  /\ owed' = [owed EXCEPT ![u] = @ \ {v}]

\* AcceptRequest.  The session may have timed out by now: then nobody is told.
AcceptRequest(u, v) ==
  /\ v \in pending[u] /\ pending' = [pending EXCEPT ![u] = @ \ {v}]
  /\ net' = net \cup Sends("REQUEST_ACK", u, v, peers[u][v])
  /\ Saves(u, v)
  /\ IF peers[u][v] = NoSession THEN UNCHANGED peers
     ELSE Peers(u, v, Connected(peers[u][v]))
  /\ said' = [said EXCEPT ![u] = @ \cup {v}]
  /\ UNCHANGED <<banned, outgoing, next, calls>>

\* RejectRequest and BlockRequest, which bans as well.
RejectRequest(u, v) ==
  /\ v \in pending[u] /\ pending' = [pending EXCEPT ![u] = @ \ {v}]
  /\ net' = net \cup Sends("BYE", u, v, peers[u][v])
  /\ Peers(u, v, NoSession)
  /\ \/ UNCHANGED banned
     \/ banned' = [banned EXCEPT ![u] = @ \cup {v}]
  /\ UNCHANGED <<contacts, deletes, outgoing, next, calls, said, owed>>

\* cleanup_deleted_contact, as far as it goes here.
Forgets(u, v) ==
  /\ contacts' = [contacts EXCEPT ![u] = @ \ {v}]
  /\ Peers(u, v, NoSession)

\* DeleteContact: a peer that is connected is told, for another it is queued.
DeleteContact(u, v) ==
  /\ v \in contacts[u] /\ Forgets(u, v)
  /\ IF peers[u][v].st = "connected"
     THEN /\ net' = net \cup Sends("DELETE", u, v, peers[u][v])
          /\ UNCHANGED <<deletes, owed>>
     ELSE /\ deletes' = [deletes EXCEPT ![u] = @ \cup {v}]
          /\ owed' = [owed EXCEPT ![u] = @ \cup {v}]
          /\ UNCHANGED net
  /\ UNCHANGED <<banned, outgoing, pending, next, calls, said>>

\* A voice call saves its peer as a contact; each end does so by itself, and
\* the daemon is not asked.
CallSaves(u, v) ==
  /\ u # v /\ calls < MaxCalls /\ calls' = calls + 1
  /\ contacts' = [contacts EXCEPT ![u] = @ \cup {v}]
  /\ said' = [said EXCEPT ![u] = @ \cup {v}, ![v] = @ \cup {u}]
  /\ UNCHANGED <<deletes, banned, tables, net, next, owed>>

----------------------------------------------------------------------------
(* The daemon *)

\* initiate_handshake with a contact.
Connect(u, v) ==
  /\ v \in contacts[u] /\ peers[u][v] = NoSession /\ next <= MaxEph
  /\ Peers(u, v, Waiting(next))
  /\ net' = net \cup {Hello(u, v, next)} /\ next' = next + 1
  /\ UNCHANGED <<disk, outgoing, pending, calls, said, owed>>

\* handle_incoming_hello, unless the address is banned.
AcceptHello(u, m) ==
  IF m.src \in banned[u]
  THEN Peers(u, m.src, NoSession) /\ net' = net \ {m} /\ UNCHANGED next
  ELSE LET s == [st |-> "identity", mine |-> 0, key |-> m.key \cup {next}, up |-> "no"]
       IN  /\ next <= MaxEph /\ next' = next + 1
           /\ Peers(u, m.src, s)
           /\ net' = (net \ {m})
                 \cup {Hello(u, m.src, next), Sealed("IDENTITY", u, m.src, s)}

\* A HELLO answers a request before anything else, even when the peer sent it
\* for a request of its own.
RecvHello(u, m) ==
  /\ Take(u, m) /\ m.type = "HELLO"
  /\ LET v == m.src
         asked == outgoing[u][v]
         s == peers[u][v]
         with(t) == [st |-> "identity", mine |-> 0, key |-> m.key \cup {t.mine}, up |-> "no"]
     IN  \/ /\ asked.st = "hello" /\ Outgoing(u, v, with(asked))
            /\ net' = (net \ {m}) \cup {Sealed("REQUEST", u, v, with(asked))}
            /\ UNCHANGED <<peers, next>>
         \/ /\ asked = NoSession /\ s.st = "hello"
            /\ Peers(u, v, with(s))
            /\ net' = (net \ {m}) \cup {Sealed("IDENTITY", u, v, with(s))}
            /\ UNCHANGED <<outgoing, next>>
         \/ /\ asked = NoSession /\ s.st # "hello"
            /\ AcceptHello(u, m) /\ UNCHANGED outgoing
         \/ /\ asked.st = "identity" \/ (asked = NoSession /\ s.st = "identity")
            /\ net' = net \ {m} /\ UNCHANGED <<peers, outgoing, next>>
  /\ UNCHANGED <<disk, pending, calls, said, owed>>

\* A deletion that waited for the peer is sent in place of all else.
Answers(u, v, s) == IF v \in deletes[u] THEN {Sealed("DELETE", u, v, s)} ELSE {}

RecvIdentity(u, m) ==
  /\ Take(u, m) /\ m.type = "IDENTITY"
  /\ LET v == m.src
         s == peers[u][v]
         known == [Connected(s) EXCEPT !.up = IF v \in contacts[u] THEN "offered" ELSE "no"]
     IN  /\ s.st = "identity" /\ CanRead(s, m)
         /\ Peers(u, v, known)
         /\ net' = (net \ {m}) \cup Answers(u, v, known)
              \cup (IF known.up = "offered" THEN {Sealed("CONFIRM", u, v, known)} ELSE {})
  /\ UNCHANGED <<disk, outgoing, pending, next, calls, said, owed>>

RecvConfirm(u, m) ==
  /\ Take(u, m) /\ m.type = "CONFIRM"
  /\ CanRead(peers[u][m.src], m)
  /\ Peers(u, m.src, Read(peers[u][m.src], m)) /\ net' = net \ {m}
  /\ UNCHANGED <<disk, outgoing, pending, next, calls, said, owed>>

\* A contact's request is accepted at once, so that the other side has it too.
\* Fault: any request is.
KnowsAll(u, v) == v \notin banned[u]
Knows(u, v) == v \in contacts[u] \ banned[u]

RecvRequest(u, m) ==
  /\ Take(u, m) /\ m.type = "REQUEST" /\ CanRead(peers[u][m.src], m)
  /\ \/ /\ m.src \in banned[u]
        /\ net' = net \ {m} /\ UNCHANGED pending
     \/ /\ Knows(u, m.src)
        /\ net' = (net \ {m}) \cup Sends("REQUEST_ACK", u, m.src, peers[u][m.src])
        /\ UNCHANGED pending
     \/ /\ m.src \notin banned[u] /\ ~Knows(u, m.src)
        /\ pending' = [pending EXCEPT ![u] = @ \cup {m.src}] /\ net' = net \ {m}
  /\ Peers(u, m.src, Read(peers[u][m.src], m))
  /\ UNCHANGED <<disk, outgoing, next, calls, said, owed>>

RecvRequestAck(u, m) ==
  /\ Take(u, m) /\ m.type = "REQUEST_ACK" /\ CanRead(outgoing[u][m.src], m)
  /\ Saves(u, m.src)
  /\ Peers(u, m.src, Connected(Read(outgoing[u][m.src], m)))
  /\ Outgoing(u, m.src, NoSession) /\ net' = net \ {m}
  /\ UNCHANGED <<banned, pending, next, calls, said>>

\* BYE needs no session.
RecvBye(u, m) ==
  /\ Take(u, m) /\ m.type = "BYE"
  /\ Peers(u, m.src, NoSession) /\ Outgoing(u, m.src, NoSession) /\ net' = net \ {m}
  /\ UNCHANGED <<disk, pending, next, calls, said, owed>>

\* Acknowledged with the session, which the clean-up then removes.
RecvDelete(u, m) ==
  /\ Take(u, m) /\ m.type = "DELETE"
  /\ LET s == peers[u][m.src]
     IN  /\ s.st = "connected" /\ CanRead(s, m)
         /\ net' = (net \ {m}) \cup {Sealed("DELETE_ACK", u, m.src, Read(s, m))}
  /\ Forgets(u, m.src)
  /\ owed' = [owed EXCEPT ![m.src] = @ \ {u}]
  /\ UNCHANGED <<deletes, banned, outgoing, pending, next, calls, said>>

RecvDeleteAck(u, m) ==
  /\ Take(u, m) /\ m.type = "DELETE_ACK"
  /\ peers[u][m.src].st = "connected" /\ CanRead(peers[u][m.src], m)
  /\ deletes' = [deletes EXCEPT ![u] = @ \ {m.src}]
  /\ Peers(u, m.src, NoSession) /\ net' = net \ {m}
  /\ UNCHANGED <<contacts, banned, outgoing, pending, next, calls, said, owed>>

\* Silence ends a session, and a request that is not answered; a HELLO that
\* waits for an answer is repeated.
Timeout(u, v) ==
  /\ \/ peers[u][v] # NoSession /\ Peers(u, v, NoSession) /\ UNCHANGED outgoing
     \/ outgoing[u][v] # NoSession /\ Outgoing(u, v, NoSession) /\ UNCHANGED peers
  /\ UNCHANGED <<disk, pending, net, next, calls, said, owed>>

Repeat(u, v) ==
  /\ \E s \in {peers[u][v], outgoing[u][v]} :
       s.st = "hello" /\ net' = net \cup {Hello(u, v, s.mine)}
  /\ net' # net
  /\ UNCHANGED <<disk, tables, next, calls, said, owed>>

\* Only the files are left.
NoTables(u) ==
  /\ outgoing' = [outgoing EXCEPT ![u] = [v \in User |-> NoSession]]
  /\ peers' = [peers EXCEPT ![u] = [v \in User |-> NoSession]]
  /\ pending' = [pending EXCEPT ![u] = {}]
\* Fault: pending_deletes is one more table.
RestartUnsaved(u) ==
  /\ NoTables(u) /\ deletes' = [deletes EXCEPT ![u] = {}]
  /\ UNCHANGED <<contacts, banned, net, next, calls, said, owed>>
Restart(u) == NoTables(u) /\ UNCHANGED <<disk, net, next, calls, said, owed>>

Next == \E u \in User :
  \/ \E v \in User :
       \/ SendRequest(u, v) \/ AcceptRequest(u, v) \/ RejectRequest(u, v)
       \/ DeleteContact(u, v) \/ CallSaves(u, v) \/ Connect(u, v)
       \/ Timeout(u, v) \/ Repeat(u, v)
  \/ \E m \in net :
       \/ RecvHello(u, m) \/ RecvIdentity(u, m) \/ RecvConfirm(u, m)
       \/ RecvRequest(u, m) \/ RecvRequestAck(u, m) \/ RecvBye(u, m)
       \/ RecvDelete(u, m) \/ RecvDeleteAck(u, m)
  \/ Restart(u)

Spec == Init /\ [][Next]_vars

----------------------------------------------------------------------------
\* Every variable has its type.
TypeOK ==
  /\ contacts \in [User -> SUBSET User] /\ deletes \in [User -> SUBSET User]
  /\ banned \in [User -> SUBSET User] /\ pending \in [User -> SUBSET User]
  /\ outgoing \in [User -> [User -> Session]] /\ peers \in [User -> [User -> Session]]
  /\ net \subseteq Packet /\ next \in 1..MaxEph + 1 /\ calls \in 0..MaxCalls
  /\ said \in [User -> SUBSET User] /\ owed \in [User -> SUBSET User]

\* Nobody becomes a contact alone: when one user has another, both asked for it
\* or agreed to it, whatever was lost, repeated, deleted or restarted since.
NobodyAddedAlone ==
  \A u \in User : \A v \in contacts[u] : v \in said[u] /\ u \in said[v]

\* A deletion that was queued is not forgotten while the other user still has
\* the contact.
DeletionIsRemembered ==
  \A u \in User : \A v \in owed[u] : u \in contacts[v] => v \in deletes[u]

\* A contact is not marked as deleted: the next session would delete it at the
\* peer ("Clear any stale pending delete for this contact", packets.rs).
NoContactMarked == \A u \in User : contacts[u] \cap deletes[u] = {}

\* The one who deleted a contact can read its acknowledgement.
AckIsRead ==
  \A m \in net :
    LET s == peers[m.dst][m.src]
    IN  m.type = "DELETE_ACK" /\ s.st = "connected" /\ s.key = m.key => CanRead(s, m)
=============================================================================
