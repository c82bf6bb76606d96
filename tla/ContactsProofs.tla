--------------------------- MODULE ContactsProofs ---------------------------
(***************************************************************************)
(* For any users, sessions and calls: nobody becomes a contact of somebody *)
(* without a word of his own.                                              *)
(***************************************************************************)
EXTENDS Contacts, TLAPS

\* The tables and files are there for every user; what a session and a packet
\* hold does not matter here.
Tables ==
  /\ \E S : outgoing \in [User -> [User -> S]]
  /\ contacts \in [User -> SUBSET User] /\ pending \in [User -> SUBSET User]
  /\ said \in [User -> SUBSET User]
  /\ \A m \in net : m.src \in User /\ m.dst \in User

\* What a request and its answer have to do with the users' words: who waits
\* for an answer asked, whose request waits asked, and who sent either spoke.
Asked == \A u, v \in User : outgoing[u][v] # NoSession => v \in said[u]
Heard == \A u \in User : \A v \in pending[u] : u \in said[v]
Spoken == \A m \in net : m.type \in {"REQUEST", "REQUEST_ACK"} => m.dst \in said[m.src]

Inv == Tables /\ Asked /\ Heard /\ Spoken /\ NobodyAddedAlone

\* A step after which every word holds that held before.
SaidGrows == \A u \in User : said[u] \subseteq said'[u]
\* New packets are no requests and no answers to one.
OtherPackets(ms) ==
  \A m \in ms : m.src \in User /\ m.dst \in User /\ m.type \notin {"REQUEST", "REQUEST_ACK"}

----------------------------------------------------------------------------
\* What Sealed puts into the header.
LEMMA SealedHeader ==
  ASSUME NEW type, NEW u, NEW v, NEW s
  PROVE  /\ Sealed(type, u, v, s).type = type
         /\ Sealed(type, u, v, s).src = u /\ Sealed(type, u, v, s).dst = v
         /\ \A m \in Sends(type, u, v, s) : m.type = type /\ m.src = u /\ m.dst = v
BY DEF Sealed, Sends

\* A HELLO is no word of a request.
LEMMA HelloHeader ==
  ASSUME NEW u \in User, NEW v \in User, NEW e
  PROVE  OtherPackets({Hello(u, v, e)})
BY DEF Hello, OtherPackets

\* No session becomes one by waiting or by agreeing.
LEMMA SessionsDiffer ==
  \A e, f : Waiting(e) # NoSession /\ Agreed(e, f) # NoSession
BY DEF Waiting, Agreed, NoSession

\* A step that adds to the words, and neither contacts, requests nor answers.
LEMMA NothingSaid ==
  ASSUME Inv, SaidGrows, said' \in [User -> SUBSET User],
         contacts' \in [User -> SUBSET User], \A u \in User : contacts'[u] \subseteq contacts[u],
         pending' \in [User -> SUBSET User], \A u \in User : pending'[u] \subseteq pending[u],
         \E S : outgoing' \in [User -> [User -> S]],
         \A u, v \in User : outgoing'[u][v] # NoSession => outgoing[u][v] # NoSession,
         \A m \in net' : m \in net \/ OtherPackets({m})
  PROVE  Inv'
<1>1. Tables'
  BY DEF Inv, Tables, OtherPackets
<1>2. Asked'
  BY DEF Inv, Asked, SaidGrows
<1>3. Heard'
  BY DEF Inv, Heard, SaidGrows, Tables
<1>4. Spoken'
  BY DEF Inv, Spoken, SaidGrows, Tables, OtherPackets
<1>5. NobodyAddedAlone'
  BY DEF Inv, NobodyAddedAlone, SaidGrows, Tables
<1> QED BY <1>1, <1>2, <1>3, <1>4, <1>5 DEF Inv

\* Giving up a request that waits for its answer.
LEMMA OutgoingForgotten ==
  ASSUME Inv, NEW u \in User, NEW v \in User,
         UNCHANGED <<contacts, pending, said>>, net' \subseteq net,
         outgoing' = outgoing \/ outgoing' = [outgoing EXCEPT ![u][v] = NoSession]
  PROVE  Inv'
<1>s. PICK S : outgoing \in [User -> [User -> S]]
  BY DEF Inv, Tables
<1>1. outgoing' \in [User -> [User -> S \cup {NoSession}]]
  <2>1. outgoing \in [User -> [User -> S \cup {NoSession}]]
    BY <1>s
  <2>2. [outgoing EXCEPT ![u][v] = NoSession] \in [User -> [User -> S \cup {NoSession}]]
    BY <2>1
  <2> QED BY <2>1, <2>2
<1>2. \A w, x \in User : outgoing'[w][x] # NoSession => outgoing[w][x] # NoSession
  BY <1>s
<1>t. /\ contacts \in [User -> SUBSET User] /\ pending \in [User -> SUBSET User]
      /\ said \in [User -> SUBSET User]
  BY DEF Inv, Tables
<1> QED BY <1>1, <1>2, <1>t, NothingSaid DEF SaidGrows

\* The steps that are neither a word of a user's nor a request's.
LEMMA OtherSteps ==
  ASSUME Inv, NEW u \in User,
         \/ \E v \in User : \/ RejectRequest(u, v) \/ DeleteContact(u, v) \/ Connect(u, v)
                            \/ Timeout(u, v) \/ Repeat(u, v)
         \/ \E m \in net : \/ RecvIdentity(u, m) \/ RecvConfirm(u, m) \/ RecvBye(u, m)
                           \/ RecvDelete(u, m) \/ RecvDeleteAck(u, m)
         \/ Restart(u)
  PROVE  Inv'
<1>t. /\ contacts \in [User -> SUBSET User] /\ pending \in [User -> SUBSET User]
      /\ said \in [User -> SUBSET User]
      /\ \A m \in net : m.src \in User /\ m.dst \in User
  BY DEF Inv, Tables
<1>s. PICK S : outgoing \in [User -> [User -> S]]
  BY DEF Inv, Tables
<1>u. ASSUME UNCHANGED <<contacts, pending, outgoing, said>>,
             \A m \in net' : m \in net \/ OtherPackets({m})
      PROVE  Inv'
  BY <1>t, <1>s, <1>u, NothingSaid DEF SaidGrows
<1>1. ASSUME NEW v \in User, RejectRequest(u, v) PROVE Inv'
  <2>1. \A m \in net' : m \in net \/ OtherPackets({m})
    BY <1>1, SealedHeader DEF RejectRequest, OtherPackets
  <2>2. /\ pending' \in [User -> SUBSET User] /\ \A w \in User : pending'[w] \subseteq pending[w]
        /\ UNCHANGED <<contacts, outgoing, said>>
    BY <1>1, <1>t DEF RejectRequest
  <2> QED BY <1>t, <1>s, <2>1, <2>2, NothingSaid DEF SaidGrows
<1>2. ASSUME NEW v \in User, DeleteContact(u, v) PROVE Inv'
  <2>1. \A m \in net' : m \in net \/ OtherPackets({m})
    BY <1>2, SealedHeader DEF DeleteContact, OtherPackets
  <2>2. /\ contacts' \in [User -> SUBSET User]
        /\ \A w \in User : contacts'[w] \subseteq contacts[w]
        /\ UNCHANGED <<pending, outgoing, said>>
    BY <1>2, <1>t DEF DeleteContact, Forgets
  <2> QED BY <1>t, <1>s, <2>1, <2>2, NothingSaid DEF SaidGrows
<1>3. ASSUME NEW v \in User, Connect(u, v) \/ Repeat(u, v) PROVE Inv'
  <2>1. PICK e : net' = net \cup {Hello(u, v, e)}
    BY <1>3 DEF Connect, Repeat
  <2>2. \A m \in net' : m \in net \/ OtherPackets({m})
    BY <2>1, HelloHeader
  <2>3. UNCHANGED <<contacts, pending, outgoing, said>>
    BY <1>3 DEF Connect, Repeat, disk, tables
  <2> QED BY <1>u, <2>2, <2>3
<1>4. ASSUME NEW v \in User, Timeout(u, v) PROVE Inv'
  <2>1. UNCHANGED <<contacts, pending, said, net>>
    BY <1>4 DEF Timeout, disk
  <2>2. outgoing' = outgoing \/ outgoing' = [outgoing EXCEPT ![u][v] = NoSession]
    BY <1>4 DEF Timeout, Outgoing
  <2> QED BY <1>t, <1>s, <2>1, <2>2, OutgoingForgotten
<1>5. ASSUME NEW m \in net, RecvIdentity(u, m) PROVE Inv'
  <2>1. UNCHANGED <<contacts, pending, outgoing, said>>
    BY <1>5 DEF RecvIdentity, disk
  <2>2. m.src \in User
    BY <1>t
  <2>3. \A n \in net' : n \in net \/ OtherPackets({n})
    <3>1. PICK s : net' = (net \ {m}) \cup Answers(u, m.src, s)
                     \cup (IF s.up = "offered" THEN {Sealed("CONFIRM", u, m.src, s)} ELSE {})
      BY <1>5 DEF RecvIdentity
    <3> QED BY <2>2, <3>1, SealedHeader DEF Answers, OtherPackets
  <2> QED BY <1>u, <2>1, <2>3
<1>6. ASSUME NEW m \in net, RecvConfirm(u, m) PROVE Inv'
  <2>1. UNCHANGED <<contacts, pending, outgoing, said>> /\ net' \subseteq net
    BY <1>6 DEF RecvConfirm, disk
  <2> QED BY <1>u, <2>1
<1>7. ASSUME NEW m \in net, RecvBye(u, m) PROVE Inv'
  <2>1. UNCHANGED <<contacts, pending, said>> /\ net' \subseteq net /\ m.src \in User
    BY <1>7, <1>t DEF RecvBye, disk
  <2>2. outgoing' = [outgoing EXCEPT ![u][m.src] = NoSession]
    BY <1>7 DEF RecvBye, Outgoing
  <2> QED BY <1>t, <1>s, <2>1, <2>2, OutgoingForgotten
<1>8. ASSUME NEW m \in net, RecvDelete(u, m) PROVE Inv'
  <2>1. /\ UNCHANGED <<pending, outgoing, said>>
        /\ contacts' = [contacts EXCEPT ![u] = @ \ {m.src}]
        /\ m.src \in User
    BY <1>8, <1>t DEF RecvDelete, Forgets
  <2>2. \A n \in net' : n \in net \/ OtherPackets({n})
    <3>1. PICK s : net' = (net \ {m}) \cup {Sealed("DELETE_ACK", u, m.src, s)}
      BY <1>8 DEF RecvDelete
    <3> QED BY <2>1, <3>1, SealedHeader DEF OtherPackets
  <2>3. contacts' \in [User -> SUBSET User] /\ \A w \in User : contacts'[w] \subseteq contacts[w]
    BY <1>t, <2>1
  <2> QED BY <1>t, <1>s, <2>1, <2>2, <2>3, NothingSaid DEF SaidGrows
<1>9. ASSUME NEW m \in net, RecvDeleteAck(u, m) PROVE Inv'
  <2>1. UNCHANGED <<contacts, pending, outgoing, said>> /\ net' \subseteq net
    BY <1>9 DEF RecvDeleteAck
  <2> QED BY <1>u, <2>1
<1>10. CASE Restart(u)
  <2>1. UNCHANGED <<contacts, said, net>>
    BY <1>10 DEF Restart, disk
  <2>2. outgoing' = [outgoing EXCEPT ![u] = [v \in User |-> NoSession]]
    BY <1>10 DEF Restart, NoTables
  <2>3. pending' \in [User -> SUBSET User] /\ \A w \in User : pending'[w] \subseteq pending[w]
    BY <1>10, <1>t DEF Restart, NoTables
  <2>4. outgoing' \in [User -> [User -> S \cup {NoSession}]]
    BY <1>s, <2>2
  <2>5. \A w, v \in User : outgoing'[w][v] # NoSession => outgoing[w][v] # NoSession
    BY <1>s, <2>2
  <2> QED BY <1>t, <2>1, <2>3, <2>4, <2>5, NothingSaid DEF SaidGrows
<1> QED BY <1>1, <1>2, <1>3, <1>4, <1>5, <1>6, <1>7, <1>8, <1>9, <1>10

----------------------------------------------------------------------------
\* SendRequest: whoever waits for an answer asked.
LEMMA SendRequestStep ==
  ASSUME Inv, NEW u \in User, NEW v \in User, SendRequest(u, v)
  PROVE  Inv'
<1>t. /\ contacts \in [User -> SUBSET User] /\ pending \in [User -> SUBSET User]
      /\ said \in [User -> SUBSET User]
      /\ \A m \in net : m.src \in User /\ m.dst \in User
  BY DEF Inv, Tables
<1>s. PICK S : outgoing \in [User -> [User -> S]]
  BY DEF Inv, Tables
<1>1. /\ outgoing' = [outgoing EXCEPT ![u][v] = Waiting(next)]
      /\ net' = net \cup {Hello(u, v, next)}
      /\ said' = [said EXCEPT ![u] = @ \cup {v}]
      /\ UNCHANGED <<contacts, pending>>
  BY DEF SendRequest, Outgoing, disk
<1>2. said' \in [User -> SUBSET User] /\ SaidGrows /\ v \in said'[u]
  BY <1>1, <1>t DEF SaidGrows
<1>3. outgoing' \in [User -> [User -> S \cup {Waiting(next)}]]
  BY <1>s, <1>1
<1>4. Asked'
  BY <1>s, <1>1, <1>2 DEF Inv, Asked, SaidGrows
<1>5. Heard'
  BY <1>1, <1>2, <1>t DEF Inv, Heard, SaidGrows
<1>6. \A m \in net' : m \in net \/ OtherPackets({m})
  BY <1>1, HelloHeader
<1>7. Spoken'
  BY <1>2, <1>6, <1>t DEF Inv, Spoken, OtherPackets, SaidGrows
<1>8. NobodyAddedAlone'
  BY <1>1, <1>2, <1>t DEF Inv, NobodyAddedAlone, SaidGrows
<1>9. Tables'
  BY <1>1, <1>2, <1>3, <1>6, <1>t DEF Tables, OtherPackets
<1> QED BY <1>4, <1>5, <1>7, <1>8, <1>9 DEF Inv

\* AcceptRequest: the request that waits is of a user who asked.
LEMMA AcceptRequestStep ==
  ASSUME Inv, NEW u \in User, NEW v \in User, AcceptRequest(u, v)
  PROVE  Inv'
<1>t. /\ contacts \in [User -> SUBSET User] /\ pending \in [User -> SUBSET User]
      /\ said \in [User -> SUBSET User]
      /\ \A m \in net : m.src \in User /\ m.dst \in User
      /\ \E S : outgoing \in [User -> [User -> S]]
  BY DEF Inv, Tables
<1>1. /\ v \in pending[u] /\ pending' = [pending EXCEPT ![u] = @ \ {v}]
      /\ net' = net \cup Sends("REQUEST_ACK", u, v, peers[u][v])
      /\ contacts' = [contacts EXCEPT ![u] = @ \cup {v}]
      /\ said' = [said EXCEPT ![u] = @ \cup {v}]
      /\ UNCHANGED outgoing
  BY DEF AcceptRequest, Saves
<1>2. said' \in [User -> SUBSET User] /\ SaidGrows /\ v \in said'[u]
  BY <1>1, <1>t DEF SaidGrows
<1>3. u \in said'[v]
  BY <1>1, <1>2 DEF Inv, Heard, SaidGrows
<1>4. Asked'
  BY <1>1, <1>2 DEF Inv, Asked, SaidGrows
<1>5. Heard'
  BY <1>1, <1>2, <1>t DEF Inv, Heard, SaidGrows
<1>6. \A m \in net' : m \in net \/ (m.src = u /\ m.dst = v)
  BY <1>1, SealedHeader
<1>7. Spoken'
  BY <1>2, <1>6, <1>t DEF Inv, Spoken, SaidGrows
<1>8. NobodyAddedAlone'
  <2>1. \A w \in User : \A x \in contacts'[w] : x \in contacts[w] \/ (w = u /\ x = v)
    BY <1>1, <1>t
  <2> QED BY <1>2, <1>3, <1>t, <2>1 DEF Inv, NobodyAddedAlone, SaidGrows
<1>9. Tables'
  <2>1. contacts' \in [User -> SUBSET User] /\ pending' \in [User -> SUBSET User]
    BY <1>1, <1>t
  <2> QED BY <1>1, <1>2, <1>6, <1>t, <2>1 DEF Tables
<1> QED BY <1>4, <1>5, <1>7, <1>8, <1>9 DEF Inv

\* A voice call: both ends are in it of their own will.
LEMMA CallSavesStep ==
  ASSUME Inv, NEW u \in User, NEW v \in User, CallSaves(u, v)
  PROVE  Inv'
<1>t. /\ contacts \in [User -> SUBSET User] /\ pending \in [User -> SUBSET User]
      /\ said \in [User -> SUBSET User]
  BY DEF Inv, Tables
<1>1. /\ contacts' = [contacts EXCEPT ![u] = @ \cup {v}]
      /\ said' = [said EXCEPT ![u] = @ \cup {v}, ![v] = @ \cup {u}]
      /\ UNCHANGED <<outgoing, pending, net>> /\ u # v
  BY DEF CallSaves, tables
<1>2. said' \in [User -> SUBSET User] /\ SaidGrows /\ v \in said'[u] /\ u \in said'[v]
  BY <1>1, <1>t DEF SaidGrows
<1>3. \A w \in User : \A x \in contacts'[w] : x \in contacts[w] \/ (w = u /\ x = v)
  BY <1>1, <1>t
<1>4. NobodyAddedAlone'
  BY <1>2, <1>3, <1>t DEF Inv, NobodyAddedAlone, SaidGrows
<1>5. Tables'
  BY <1>1, <1>2, <1>t DEF Inv, Tables
<1> QED BY <1>1, <1>2, <1>4, <1>5, <1>t DEF Inv, Tables, Asked, Heard, Spoken, SaidGrows

\* RecvHello: a REQUEST goes to whom one has asked.
LEMMA RecvHelloStep ==
  ASSUME Inv, NEW u \in User, NEW m \in net, RecvHello(u, m)
  PROVE  Inv'
<1>t. /\ contacts \in [User -> SUBSET User] /\ pending \in [User -> SUBSET User]
      /\ said \in [User -> SUBSET User]
      /\ \A n \in net : n.src \in User /\ n.dst \in User
  BY DEF Inv, Tables
<1>s. PICK S : outgoing \in [User -> [User -> S]]
  BY DEF Inv, Tables
<1>v. m.src \in User
  BY <1>t
<1>1. UNCHANGED <<contacts, pending, said>>
  BY DEF RecvHello, disk
<1>2. CASE \E s : /\ outgoing[u][m.src] # NoSession
                  /\ outgoing' = [outgoing EXCEPT ![u][m.src] = s]
                  /\ net' = (net \ {m}) \cup {Sealed("REQUEST", u, m.src, s)}
  <2>1. PICK s : /\ outgoing[u][m.src] # NoSession
                 /\ outgoing' = [outgoing EXCEPT ![u][m.src] = s]
                 /\ net' = (net \ {m}) \cup {Sealed("REQUEST", u, m.src, s)}
    BY <1>2
  <2>2. m.src \in said[u]
    BY <1>v, <2>1 DEF Inv, Asked
  <2>3. outgoing' \in [User -> [User -> S \cup {s}]]
    BY <1>s, <1>v, <2>1
  <2>4. \A n \in net' : n \in net \/ (n.src = u /\ n.dst = m.src)
    BY <2>1, SealedHeader
  <2>5. Asked'
    BY <1>1, <1>s, <1>v, <2>1, <2>2 DEF Inv, Asked
  <2>6. Spoken'
    BY <1>1, <1>t, <2>2, <2>4 DEF Inv, Spoken
  <2>7. Tables'
    BY <1>1, <1>t, <1>v, <2>3, <2>4 DEF Tables
  <2> QED BY <1>1, <2>5, <2>6, <2>7 DEF Inv, Heard, NobodyAddedAlone
<1>3. CASE UNCHANGED outgoing /\ \A n \in net' : n \in net \/ OtherPackets({n})
  BY <1>1, <1>3, <1>s, <1>t, NothingSaid DEF SaidGrows
<1>4. \/ \E s : /\ outgoing[u][m.src] # NoSession
                /\ outgoing' = [outgoing EXCEPT ![u][m.src] = s]
                /\ net' = (net \ {m}) \cup {Sealed("REQUEST", u, m.src, s)}
      \/ UNCHANGED outgoing /\ \A n \in net' : n \in net \/ OtherPackets({n})
  <2> DEFINE v == m.src
             with(t) == [st |-> "identity", mine |-> 0, key |-> m.key \cup {t.mine}, up |-> "no"]
  <2>1. ASSUME NEW s PROVE OtherPackets({Sealed("IDENTITY", u, v, s)})
    BY <1>v, SealedHeader DEF OtherPackets
  <2>2. OtherPackets({Hello(u, v, next)})
    BY <1>v, HelloHeader
  <2>3. CASE /\ outgoing[u][v].st = "hello" /\ Outgoing(u, v, with(outgoing[u][v]))
             /\ net' = (net \ {m}) \cup {Sealed("REQUEST", u, v, with(outgoing[u][v]))}
    <3>1. outgoing[u][v] # NoSession
      BY <2>3 DEF NoSession
    <3> QED BY <2>3, <3>1 DEF Outgoing
  <2>4. CASE /\ net' = (net \ {m}) \cup {Sealed("IDENTITY", u, v, with(peers[u][v]))}
             /\ UNCHANGED outgoing
    BY <2>1, <2>4
  <2>5. CASE AcceptHello(u, m) /\ UNCHANGED outgoing
    <3>1. net' = net \ {m} \/ \E s : net' = (net \ {m}) \cup {Hello(u, v, next), Sealed("IDENTITY", u, v, s)}
      BY <2>5 DEF AcceptHello
    <3> QED BY <2>1, <2>2, <2>5, <3>1
  <2>6. CASE net' = net \ {m} /\ UNCHANGED outgoing
    BY <2>6
  <2> QED BY <2>3, <2>4, <2>5, <2>6 DEF RecvHello
<1> QED BY <1>2, <1>3, <1>4

\* RecvRequest: the request waits, or is answered by one who has the contact.
LEMMA RecvRequestStep ==
  ASSUME Inv, NEW u \in User, NEW m \in net, RecvRequest(u, m)
  PROVE  Inv'
<1>t. /\ contacts \in [User -> SUBSET User] /\ pending \in [User -> SUBSET User]
      /\ said \in [User -> SUBSET User]
      /\ \A n \in net : n.src \in User /\ n.dst \in User
      /\ \E S : outgoing \in [User -> [User -> S]]
  BY DEF Inv, Tables
<1>1. /\ m.src \in User /\ m.dst = u /\ m.type = "REQUEST"
      /\ UNCHANGED <<contacts, said, outgoing>>
  BY <1>t DEF RecvRequest, Take, disk
<1>2. u \in said[m.src]
  BY <1>1 DEF Inv, Spoken
<1>3. /\ \/ pending' = pending
         \/ pending' = [pending EXCEPT ![u] = @ \cup {m.src}]
      /\ \/ net' = net \ {m}
         \/ /\ m.src \in contacts[u]
            /\ net' = (net \ {m}) \cup Sends("REQUEST_ACK", u, m.src, peers[u][m.src])
  BY DEF RecvRequest, Knows
<1>4. Heard'
  <2>1. \A w \in User : \A x \in pending'[w] : x \in pending[w] \/ (w = u /\ x = m.src)
    BY <1>3, <1>t
  <2> QED BY <1>1, <1>2, <2>1 DEF Inv, Heard
<1>5. \A n \in net' : n \in net \/ (m.src \in contacts[u] /\ n.src = u /\ n.dst = m.src)
  BY <1>3, SealedHeader
<1>6. m.src \in contacts[u] => m.src \in said[u]
  BY DEF Inv, NobodyAddedAlone
<1>7. Spoken'
  BY <1>1, <1>5, <1>6, <1>t DEF Inv, Spoken
<1>8. Tables'
  <2>1. pending' \in [User -> SUBSET User]
    BY <1>1, <1>3, <1>t
  <2> QED BY <1>1, <1>5, <1>t, <2>1 DEF Tables
<1> QED BY <1>1, <1>4, <1>7, <1>8 DEF Inv, Asked, NobodyAddedAlone

\* RecvRequestAck: both have spoken, the one who asked and the one who answers.
LEMMA RecvRequestAckStep ==
  ASSUME Inv, NEW u \in User, NEW m \in net, RecvRequestAck(u, m)
  PROVE  Inv'
<1>t. /\ contacts \in [User -> SUBSET User] /\ pending \in [User -> SUBSET User]
      /\ said \in [User -> SUBSET User]
      /\ \A n \in net : n.src \in User /\ n.dst \in User
  BY DEF Inv, Tables
<1>s. PICK S : outgoing \in [User -> [User -> S]]
  BY DEF Inv, Tables
<1>1. /\ m.src \in User /\ m.dst = u /\ m.type = "REQUEST_ACK"
      /\ UNCHANGED <<pending, said>> /\ net' \subseteq net
      /\ contacts' = [contacts EXCEPT ![u] = @ \cup {m.src}]
      /\ outgoing' = [outgoing EXCEPT ![u][m.src] = NoSession]
      /\ outgoing[u][m.src] # NoSession
  BY <1>t DEF RecvRequestAck, Take, Saves, Outgoing, CanRead, NoSession
<1>2. u \in said[m.src] /\ m.src \in said[u]
  BY <1>1 DEF Inv, Spoken, Asked
<1>3. NobodyAddedAlone'
  <2>1. \A w \in User : \A x \in contacts'[w] : x \in contacts[w] \/ (w = u /\ x = m.src)
    BY <1>1, <1>t
  <2> QED BY <1>1, <1>2, <1>t, <2>1 DEF Inv, NobodyAddedAlone
<1>4. Asked'
  BY <1>1, <1>s DEF Inv, Asked
<1>5. Tables'
  <2>1. outgoing' \in [User -> [User -> S \cup {NoSession}]]
    BY <1>1, <1>s
  <2>2. contacts' \in [User -> SUBSET User]
    BY <1>1, <1>t
  <2> QED BY <1>1, <1>t, <2>1, <2>2 DEF Tables
<1> QED BY <1>1, <1>3, <1>4, <1>5 DEF Inv, Heard, Spoken

----------------------------------------------------------------------------
\* handle_incoming_request, handle_request_ack and the commands of the user:
\* whatever was lost, repeated, deleted or restarted, when one user has another
\* as a contact, both asked for it or agreed to it.
THEOREM NobodyIsAddedAlone == Spec => []NobodyAddedAlone
<1>1. Init => Inv
  <2>1. ASSUME Init PROVE Tables
    <3>1. outgoing \in [User -> [User -> {NoSession}]]
      BY <2>1 DEF Init
    <3> QED BY <2>1, <3>1 DEF Init, Tables
  <2> QED BY <2>1 DEF Init, Inv, Asked, Heard, Spoken, NobodyAddedAlone
<1>2. Inv /\ [Next]_vars => Inv'
  <2> SUFFICES ASSUME Inv, [Next]_vars PROVE Inv'
    OBVIOUS
  <2>1. CASE UNCHANGED vars
    BY <2>1 DEF vars, disk, tables, Inv, Tables, Asked, Heard, Spoken, NobodyAddedAlone
  <2>2. CASE Next
    BY <2>2, OtherSteps, SendRequestStep, AcceptRequestStep, CallSavesStep, RecvHelloStep,
       RecvRequestStep, RecvRequestAckStep DEF Next
  <2> QED BY <2>1, <2>2
<1>3. Inv => NobodyAddedAlone
  BY DEF Inv
<1> QED BY <1>1, <1>2, <1>3, PTL DEF Spec

----------------------------------------------------------------------------
(* Types *)

\* A session that waits for the answer to its HELLO has a key pair.
Good == {s \in Session : s.st = "hello" => s.mine # 0}

\* The types, with that.
Typed ==
  /\ contacts \in [User -> SUBSET User] /\ deletes \in [User -> SUBSET User]
  /\ banned \in [User -> SUBSET User] /\ pending \in [User -> SUBSET User]
  /\ outgoing \in [User -> [User -> Good]] /\ peers \in [User -> [User -> Good]]
  /\ net \subseteq Packet /\ next \in 1..MaxEph + 1 /\ calls \in 0..MaxCalls
  /\ said \in [User -> SUBSET User] /\ owed \in [User -> SUBSET User]

LEMMA TypedIsType == Typed => TypeOK
<1>1. \A T : T \in [User -> [User -> Good]] => T \in [User -> [User -> Session]]
  BY DEF Good
<1> QED BY <1>1 DEF Typed, TypeOK

\* What the steps put into sessions and packets.
LEMMA SessionTypes ==
  ASSUME ContactsAssumption, NEW s \in Good
  PROVE  /\ NoSession \in Good
         /\ \A e \in Eph : Waiting(e) \in Good
         /\ Connected(s) \in Good /\ [Connected(s) EXCEPT !.up = "offered"] \in Good
         /\ [Connected(s) EXCEPT !.up = "no"] \in Good
         /\ \A E \in SUBSET Eph :
              [st |-> "identity", mine |-> 0, key |-> E, up |-> "no"] \in Good
         /\ \A m : Read(s, m) \in Good
<1>1. 0 \in 0..MaxEph /\ \A e \in Eph : e \in 0..MaxEph /\ e # 0
  BY DEF ContactsAssumption, Eph
<1> QED BY <1>1 DEF Good, Session, NoSession, Waiting, Connected, Read

LEMMA NoSessionTyped ==
  ASSUME ContactsAssumption
  PROVE  MaxEph \in Nat /\ MaxCalls \in Nat /\ NoSession \in Good
<1>1. 0 \in 0..MaxEph /\ MaxEph \in Nat /\ MaxCalls \in Nat
  BY DEF ContactsAssumption
<1> QED BY <1>1 DEF Good, Session, NoSession

LEMMA PacketTypes ==
  ASSUME NEW u \in User, NEW v \in User
  PROVE  /\ \A e \in Eph : Hello(u, v, e) \in Packet
         /\ \A s \in Good, type \in {"IDENTITY", "CONFIRM", "REQUEST", "REQUEST_ACK",
                                        "BYE", "DELETE", "DELETE_ACK"} :
              Sealed(type, u, v, s) \in Packet /\ Sends(type, u, v, s) \subseteq Packet
BY DEF Hello, Sealed, Sends, Good, Session, Packet

\* A table with one session replaced.
LEMMA TableTypes ==
  ASSUME NEW T \in [User -> [User -> Good]], NEW u \in User, NEW v \in User, NEW s \in Good
  PROVE  /\ [T EXCEPT ![u][v] = s] \in [User -> [User -> Good]]
         /\ \A w, x \in User : [T EXCEPT ![u][v] = s][w][x] = IF w = u /\ x = v THEN s ELSE T[w][x]
OBVIOUS

\* The commands of the user.
LEMMA UserTypes ==
  ASSUME ContactsAssumption, Typed, NEW u \in User, NEW v \in User,
         \/ SendRequest(u, v) \/ AcceptRequest(u, v) \/ RejectRequest(u, v)
         \/ DeleteContact(u, v) \/ CallSaves(u, v)
  PROVE  Typed'
<1>m. MaxEph \in Nat /\ MaxCalls \in Nat /\ NoSession \in Good
  BY NoSessionTyped
<1>p. peers \in [User -> [User -> Good]] /\ outgoing \in [User -> [User -> Good]]
  BY DEF Typed
<1>s. peers[u][v] \in Good /\ outgoing[u][v] \in Good
  BY DEF Typed
<1>1. CASE SendRequest(u, v)
  <2>1. next \in Eph /\ next' \in 1..MaxEph + 1
    BY <1>1, <1>m DEF SendRequest, Eph, Typed
  <2>2. Waiting(next) \in Good /\ Hello(u, v, next) \in Packet
    BY <1>s, <2>1, SessionTypes, PacketTypes
  <2>3. outgoing' \in [User -> [User -> Good]]
    BY <1>1, <2>2, TableTypes DEF SendRequest, Outgoing, Typed
  <2>4. said' \in [User -> SUBSET User] /\ net' \subseteq Packet
    BY <1>1, <2>2 DEF SendRequest, Typed
  <2> QED BY <1>1, <2>1, <2>3, <2>4 DEF SendRequest, disk, Typed
<1>2. CASE AcceptRequest(u, v)
  <2>1. peers' \in [User -> [User -> Good]]
    <3>1. Connected(peers[u][v]) \in Good
      BY <1>s, SessionTypes
    <3>2. peers' = peers \/ peers' = [peers EXCEPT ![u][v] = Connected(peers[u][v])]
      BY <1>2 DEF AcceptRequest, Peers
    <3>3. [peers EXCEPT ![u][v] = Connected(peers[u][v])] \in [User -> [User -> Good]]
      BY <1>p, <3>1, TableTypes
    <3> QED BY <1>p, <3>2, <3>3
  <2>2. net' \subseteq Packet
    BY <1>2, <1>s, PacketTypes DEF AcceptRequest, Typed
  <2>3. /\ contacts' \in [User -> SUBSET User] /\ deletes' \in [User -> SUBSET User]
        /\ owed' \in [User -> SUBSET User]
    BY <1>2 DEF AcceptRequest, Saves, Typed
  <2>4. pending' \in [User -> SUBSET User] /\ said' \in [User -> SUBSET User]
    BY <1>2 DEF AcceptRequest, Typed
  <2> QED BY <1>2, <2>1, <2>2, <2>3, <2>4 DEF AcceptRequest, Typed
<1>3. CASE RejectRequest(u, v)
  <2>1. peers' \in [User -> [User -> Good]]
    BY <1>3, <1>m, TableTypes DEF RejectRequest, Peers, Typed
  <2>2. net' \subseteq Packet
    BY <1>3, <1>s, PacketTypes DEF RejectRequest, Typed
  <2>3. pending' \in [User -> SUBSET User] /\ banned' \in [User -> SUBSET User]
    BY SMTT(20), <1>3 DEF RejectRequest, Typed
  <2> QED BY <1>3, <2>1, <2>2, <2>3 DEF RejectRequest, Typed
<1>4. CASE DeleteContact(u, v)
  <2>1. peers' \in [User -> [User -> Good]]
    BY <1>4, <1>m, TableTypes DEF DeleteContact, Forgets, Peers, Typed
  <2>2. net' \subseteq Packet
    BY <1>4, <1>s, PacketTypes DEF DeleteContact, Typed
  <2>3. /\ contacts' \in [User -> SUBSET User] /\ deletes' \in [User -> SUBSET User]
        /\ owed' \in [User -> SUBSET User]
    <3>1. /\ contacts' = [contacts EXCEPT ![u] = @ \ {v}]
          /\ deletes' = deletes \/ deletes' = [deletes EXCEPT ![u] = @ \cup {v}]
          /\ owed' = owed \/ owed' = [owed EXCEPT ![u] = @ \cup {v}]
      BY <1>4 DEF DeleteContact, Forgets
    <3> QED BY SMTT(20), <3>1 DEF Typed
  <2> QED BY <1>4, <2>1, <2>2, <2>3 DEF DeleteContact, Typed
<1>5. CASE CallSaves(u, v)
  <2>1. contacts' \in [User -> SUBSET User] /\ said' \in [User -> SUBSET User]
    BY SMTT(20), <1>5 DEF CallSaves, Typed
  <2>2. calls' \in 0..MaxCalls
    BY <1>5, <1>m DEF CallSaves, Typed
  <2> QED BY <1>5, <2>1, <2>2 DEF CallSaves, tables, Typed
<1> QED BY <1>1, <1>2, <1>3, <1>4, <1>5

\* What the daemon does by itself.
LEMMA DaemonTypes ==
  ASSUME ContactsAssumption, Typed, NEW u \in User,
         \/ \E v \in User : Connect(u, v) \/ Timeout(u, v) \/ Repeat(u, v)
         \/ Restart(u)
  PROVE  Typed'
<1>m. MaxEph \in Nat /\ MaxCalls \in Nat /\ NoSession \in Good
  BY NoSessionTyped
<1>p. peers \in [User -> [User -> Good]] /\ outgoing \in [User -> [User -> Good]]
  BY DEF Typed
<1>1. ASSUME NEW v \in User, Connect(u, v) PROVE Typed'
  <2>1. next \in Eph /\ next' \in 1..MaxEph + 1
    BY <1>1, <1>m DEF Connect, Eph, Typed
  <2>2. Waiting(next) \in Good /\ Hello(u, v, next) \in Packet
    BY <2>1, SessionTypes, PacketTypes DEF Typed
  <2>3. peers' \in [User -> [User -> Good]] /\ net' \subseteq Packet
    BY <1>1, <2>2, TableTypes DEF Connect, Peers, Typed
  <2> QED BY <1>1, <2>1, <2>3 DEF Connect, disk, Typed
<1>2. ASSUME NEW v \in User, Timeout(u, v) PROVE Typed'
  <2>1. peers' \in [User -> [User -> Good]] /\ outgoing' \in [User -> [User -> Good]]
    <3>1. /\ peers' = peers \/ peers' = [peers EXCEPT ![u][v] = NoSession]
          /\ outgoing' = outgoing \/ outgoing' = [outgoing EXCEPT ![u][v] = NoSession]
      BY <1>2 DEF Timeout, Peers, Outgoing
    <3>2. /\ [peers EXCEPT ![u][v] = NoSession] \in [User -> [User -> Good]]
          /\ [outgoing EXCEPT ![u][v] = NoSession] \in [User -> [User -> Good]]
      BY <1>m, <1>p, TableTypes
    <3> QED BY <1>p, <3>1, <3>2
  <2> QED BY <1>2, <2>1 DEF Timeout, disk, Typed
<1>3. ASSUME NEW v \in User, Repeat(u, v) PROVE Typed'
  <2>1. PICK s \in {peers[u][v], outgoing[u][v]} :
          s.st = "hello" /\ net' = net \cup {Hello(u, v, s.mine)}
    BY <1>3 DEF Repeat
  <2>2. s \in Good
    BY DEF Typed
  <2>3. Hello(u, v, s.mine) \in Packet
    <3>1. s.mine \in Eph
      BY <1>m, <2>1, <2>2 DEF Good, Session, Eph
    <3> QED BY <3>1, PacketTypes
  <2> QED BY <1>3, <2>1, <2>3 DEF Repeat, disk, tables, Typed
<1>4. CASE Restart(u)
  <2>1. /\ peers' \in [User -> [User -> Good]] /\ outgoing' \in [User -> [User -> Good]]
        /\ pending' \in [User -> SUBSET User]
    BY <1>4, <1>m DEF Restart, NoTables, Typed
  <2> QED BY <1>4, <2>1 DEF Restart, disk, Typed
<1> QED BY <1>1, <1>2, <1>3, <1>4
\* What is received.
LEMMA ReceiveTypes ==
  ASSUME ContactsAssumption, Typed, NEW u \in User, NEW m \in net,
         \/ RecvHello(u, m) \/ RecvIdentity(u, m) \/ RecvConfirm(u, m) \/ RecvRequest(u, m)
         \/ RecvRequestAck(u, m) \/ RecvBye(u, m) \/ RecvDelete(u, m) \/ RecvDeleteAck(u, m)
  PROVE  Typed'
<1>m. MaxEph \in Nat /\ MaxCalls \in Nat /\ NoSession \in Good
  BY NoSessionTyped
<1>p. peers \in [User -> [User -> Good]] /\ outgoing \in [User -> [User -> Good]]
  BY DEF Typed
<1>v. m \in Packet /\ m.src \in User /\ m.key \in SUBSET Eph
  BY DEF Typed, Packet
<1> DEFINE v == m.src
<1>s. peers[u][v] \in Good /\ outgoing[u][v] \in Good
  BY <1>p, <1>v
<1>n. \A s \in Good : /\ [peers EXCEPT ![u][v] = s] \in [User -> [User -> Good]]
                      /\ [outgoing EXCEPT ![u][v] = s] \in [User -> [User -> Good]]
  BY <1>p, <1>v, TableTypes
<1>w. \A s \in Good, type \in {"IDENTITY", "CONFIRM", "REQUEST", "REQUEST_ACK",
                               "BYE", "DELETE", "DELETE_ACK"} :
        Sealed(type, u, v, s) \in Packet /\ Sends(type, u, v, s) \subseteq Packet
  BY <1>v, PacketTypes
<1>r. Read(peers[u][v], m) \in Good /\ Read(outgoing[u][v], m) \in Good
  BY <1>s, SessionTypes
<1>1. CASE RecvHello(u, m)
  <2> DEFINE with(t) == [st |-> "identity", mine |-> 0, key |-> m.key \cup {t.mine}, up |-> "no"]
  <2>1. \A E \in SUBSET Eph : [st |-> "identity", mine |-> 0, key |-> E, up |-> "no"] \in Good
    BY <1>s, SessionTypes
  <2>2. ASSUME NEW t \in Good, t.st = "hello" PROVE with(t) \in Good
    <3>1. t.mine \in Eph
      BY <1>m, <2>2 DEF Good, Session, Eph
    <3> QED BY <1>v, <2>1, <3>1
  <2>3. CASE /\ outgoing[u][v].st = "hello" /\ Outgoing(u, v, with(outgoing[u][v]))
             /\ net' = (net \ {m}) \cup {Sealed("REQUEST", u, v, with(outgoing[u][v]))}
             /\ UNCHANGED <<peers, next>>
    <3>1. with(outgoing[u][v]) \in Good
      BY <1>s, <2>2, <2>3
    <3> HIDE DEF with
    <3>2. outgoing' \in [User -> [User -> Good]] /\ net' \subseteq Packet
      BY <1>n, <1>w, <2>3, <3>1 DEF Outgoing, Typed
    <3> QED BY <1>1, <2>3, <3>2 DEF RecvHello, disk, Typed
  <2>4. CASE /\ peers[u][v].st = "hello" /\ Peers(u, v, with(peers[u][v]))
             /\ net' = (net \ {m}) \cup {Sealed("IDENTITY", u, v, with(peers[u][v]))}
             /\ UNCHANGED <<outgoing, next>>
    <3>1. with(peers[u][v]) \in Good
      BY <1>s, <2>2, <2>4
    <3> HIDE DEF with
    <3>2. peers' \in [User -> [User -> Good]] /\ net' \subseteq Packet
      BY <1>n, <1>w, <2>4, <3>1 DEF Peers, Typed
    <3> QED BY <1>1, <2>4, <3>2 DEF RecvHello, disk, Typed
  <2>5. CASE AcceptHello(u, m) /\ UNCHANGED outgoing
    <3>1. CASE v \in banned[u]
      <4>1. /\ peers' = [peers EXCEPT ![u][v] = NoSession]
            /\ net' = net \ {m} /\ UNCHANGED next
        BY <2>5, <3>1 DEF AcceptHello, Peers
      <4>2. peers' \in [User -> [User -> Good]]
        BY <1>m, <1>n, <4>1
      <4> QED BY <1>1, <2>5, <4>1, <4>2 DEF RecvHello, disk, Typed
    <3>2. CASE v \notin banned[u]
      <4> DEFINE s == [st |-> "identity", mine |-> 0, key |-> m.key \cup {next}, up |-> "no"]
      <4>1. /\ next <= MaxEph /\ next' = next + 1 /\ Peers(u, v, s)
            /\ net' = (net \ {m}) \cup {Hello(u, v, next), Sealed("IDENTITY", u, v, s)}
        BY <2>5, <3>2 DEF AcceptHello
      <4>2. next \in Eph /\ next' \in 1..MaxEph + 1
        BY <1>m, <4>1 DEF Typed, Eph
      <4>3. s \in Good
        BY <1>v, <2>1, <4>2
      <4> HIDE DEF s
      <4>4. peers' \in [User -> [User -> Good]]
        BY <1>n, <4>1, <4>3 DEF Peers
      <4>5. net' \subseteq Packet
        BY <1>v, <1>w, <4>1, <4>2, <4>3, PacketTypes DEF Typed
      <4> QED BY <1>1, <2>5, <4>2, <4>4, <4>5 DEF RecvHello, disk, Typed
    <3> QED BY <3>1, <3>2
  <2>6. CASE net' = net \ {m} /\ UNCHANGED <<peers, outgoing, next>>
    BY <1>1, <2>6 DEF RecvHello, disk, Typed
  <2> QED BY <1>1, <2>3, <2>4, <2>5, <2>6 DEF RecvHello
<1>2. CASE RecvIdentity(u, m)
  <2> DEFINE known == [Connected(peers[u][v]) EXCEPT !.up = IF v \in contacts[u] THEN "offered" ELSE "no"]
  <2>1. known \in Good
    BY <1>s, SessionTypes
  <2>2. /\ Peers(u, v, known)
        /\ net' = (net \ {m}) \cup Answers(u, v, known)
             \cup (IF known.up = "offered" THEN {Sealed("CONFIRM", u, v, known)} ELSE {})
    BY <1>2 DEF RecvIdentity
  <2> HIDE DEF known
  <2>3. peers' \in [User -> [User -> Good]]
    BY <1>n, <2>1, <2>2 DEF Peers
  <2>4. net' \subseteq Packet
    BY <1>w, <2>1, <2>2 DEF Answers, Typed
  <2> QED BY <1>2, <2>3, <2>4 DEF RecvIdentity, disk, Typed
<1>3. CASE RecvConfirm(u, m)
  <2>1. peers' \in [User -> [User -> Good]]
    BY <1>3, <1>n, <1>r DEF RecvConfirm, Peers
  <2> QED BY <1>3, <2>1 DEF RecvConfirm, disk, Typed
<1>4. CASE RecvRequest(u, m)
  <2>1. peers' \in [User -> [User -> Good]]
    BY <1>4, <1>n, <1>r DEF RecvRequest, Peers
  <2>2. net' \subseteq Packet
    BY <1>4, <1>s, <1>w DEF RecvRequest, Typed
  <2>3. pending' \in [User -> SUBSET User]
    <3>1. pending' = pending \/ pending' = [pending EXCEPT ![u] = @ \cup {v}]
      BY <1>4 DEF RecvRequest
    <3> QED BY SMTT(20), <1>v, <3>1 DEF Typed
  <2> QED BY <1>4, <2>1, <2>2, <2>3 DEF RecvRequest, disk, Typed
<1>5. CASE RecvRequestAck(u, m)
  <2>1. peers' \in [User -> [User -> Good]] /\ outgoing' \in [User -> [User -> Good]]
    <3>1. Connected(Read(outgoing[u][v], m)) \in Good
      BY <1>r, SessionTypes
    <3> QED BY <1>5, <1>m, <1>n, <3>1 DEF RecvRequestAck, Peers, Outgoing
  <2>2. /\ contacts' \in [User -> SUBSET User] /\ deletes' \in [User -> SUBSET User]
        /\ owed' \in [User -> SUBSET User]
    <3>1. /\ contacts' = [contacts EXCEPT ![u] = @ \cup {v}]
          /\ deletes' = [deletes EXCEPT ![u] = @ \ {v}]
          /\ owed' = [owed EXCEPT ![u] = @ \ {v}]
      BY <1>5 DEF RecvRequestAck, Saves
    <3> QED BY <1>v, <3>1 DEF Typed
  <2>3. net' \subseteq Packet
    BY <1>5 DEF RecvRequestAck, Typed
  <2> QED BY <1>5, <2>1, <2>2, <2>3 DEF RecvRequestAck, Typed
<1>6. CASE RecvBye(u, m)
  <2>1. peers' \in [User -> [User -> Good]] /\ outgoing' \in [User -> [User -> Good]]
    BY <1>6, <1>m, <1>n DEF RecvBye, Peers, Outgoing
  <2> QED BY <1>6, <2>1 DEF RecvBye, disk, Typed
<1>7. CASE RecvDelete(u, m)
  <2>1. peers' \in [User -> [User -> Good]]
    BY <1>7, <1>m, <1>n DEF RecvDelete, Forgets, Peers
  <2>2. contacts' \in [User -> SUBSET User] /\ owed' \in [User -> SUBSET User]
    <3>1. /\ contacts' = [contacts EXCEPT ![u] = @ \ {v}]
          /\ owed' = [owed EXCEPT ![v] = @ \ {u}]
      BY <1>7 DEF RecvDelete, Forgets
    <3> QED BY <3>1 DEF Typed
  <2>3. net' \subseteq Packet
    BY <1>7, <1>r, <1>w DEF RecvDelete, Typed
  <2> QED BY <1>7, <2>1, <2>2, <2>3 DEF RecvDelete, Typed
<1>8. CASE RecvDeleteAck(u, m)
  <2>1. peers' \in [User -> [User -> Good]] /\ deletes' \in [User -> SUBSET User]
    <3>1. deletes' = [deletes EXCEPT ![u] = @ \ {v}]
      BY <1>8 DEF RecvDeleteAck
    <3> QED BY <1>8, <1>m, <1>n, <3>1 DEF RecvDeleteAck, Peers, Typed
  <2> QED BY <1>8, <2>1 DEF RecvDeleteAck, Typed
<1> QED BY <1>1, <1>2, <1>3, <1>4, <1>5, <1>6, <1>7, <1>8

LEMMA TypedStep ==
  ASSUME ContactsAssumption, Typed, [Next]_vars
  PROVE  Typed'
<1>1. CASE UNCHANGED vars
  BY <1>1 DEF vars, disk, tables, Typed
<1>2. CASE Next
  BY <1>2, UserTypes, DaemonTypes, ReceiveTypes DEF Next
<1> QED BY <1>1, <1>2

LEMMA InitTyped == ContactsAssumption /\ Init => Typed
<1>1. ASSUME ContactsAssumption PROVE NoSession \in Good /\ 1 \in 1..MaxEph + 1 /\ 0 \in 0..MaxCalls
  BY <1>1, NoSessionTyped DEF ContactsAssumption
<1> QED BY <1>1 DEF Init, Typed

\* For any users, sessions and calls, every variable keeps its type.
THEOREM ContactTypes ==
  ASSUME ContactsAssumption
  PROVE  Spec => []TypeOK
<1>1. Init => Typed
  BY InitTyped
<1>2. Typed /\ [Next]_vars => Typed'
  BY TypedStep
<1> QED BY <1>1, <1>2, TypedIsType, PTL DEF Spec
----------------------------------------------------------------------------
(* Deletions *)

\* A session and a packet use key pairs that were made.
Made(s) == s.mine < next /\ \A e \in s.key : e < next
KeysMade ==
  /\ \A u, v \in User : Made(peers[u][v]) /\ Made(outgoing[u][v])
  /\ \A m \in net : \A e \in m.key : e < next

\* u does not get a session of the keys E with v, if not as a contact.
Spent(u, v, E) ==
  LET s == peers[u][v]
  IN  /\ s.st = "hello" => s.mine \notin E
      /\ s.st = "identity" => s.key # E

\* Whoever sent a DELETE, or is to receive its acknowledgement, was connected then.
DeletesSpent ==
  \A m \in net :
    /\ m.type = "DELETE" => Spent(m.src, m.dst, m.key)
    /\ m.type = "DELETE_ACK" => Spent(m.dst, m.src, m.key)

\* An acknowledgement that is read acknowledges all that is queued.
AcksHonest ==
  \A m \in net :
    LET s == peers[m.dst][m.src]
    IN  m.type = "DELETE_ACK" /\ s.st = "connected" /\ s.key = m.key => m.src \notin owed[m.dst]

\* What is owed is queued.
OwedIsQueued == \A u \in User : owed[u] \subseteq deletes[u]

DebtInv == Typed /\ KeysMade /\ DeletesSpent /\ AcksHonest /\ OwedIsQueued

\* What a step may make of the session that w has with x,
Became(w, x) ==
  LET s == peers[w][x]
      t == peers'[w][x]
  IN  \/ t = s \/ t = NoSession
      \/ t.st = "hello" /\ t.mine = next
      \/ t.st = "identity" /\ (next \in t.key \/ (s.st = "hello" /\ s.mine \in t.key))
      \/ t.st = "connected" /\ ((s.st = "identity" /\ t.key = s.key) \/ x \notin owed'[w])
      \/ t.st = s.st /\ t.mine = s.mine /\ t.key = s.key

\* which deletions and acknowledgements it sends,
Launched(n) ==
  /\ n.type = "DELETE" => peers'[n.src][n.dst].st \in {"none", "connected"}
  /\ n.type = "DELETE_ACK" =>
       /\ n.src \notin owed'[n.dst]
       /\ \E d \in net : d.type = "DELETE" /\ d.src = n.dst /\ d.dst = n.src /\ d.key = n.key

\* and what it makes of what is owed.
Owes(w, x) == x \in owed'[w] => x \in deletes'[w] /\ (x \in owed[w] \/ peers'[w][x] = NoSession)

Moves ==
  /\ \A w, x \in User : Became(w, x) /\ Owes(w, x)
  /\ \A n \in net' : n \in net \/ Launched(n)

\* A step like that keeps what is said of deletions.
LEMMA MovesKeep ==
  ASSUME DebtInv, Typed', KeysMade', Moves
  PROVE  DebtInv'
<1>t. \A n \in net' \cup net : n.src \in User /\ n.dst \in User
  BY DEF DebtInv, Typed, Packet
<1>k. next \in Nat /\ \A n \in net : next \notin n.key
  BY DEF DebtInv, KeysMade, Typed
<1>1. OwedIsQueued'
  BY DEF Moves, Owes, OwedIsQueued, Typed
<1>2. ASSUME NEW u \in User, NEW v \in User, NEW E, next \notin E, Spent(u, v, E)
      PROVE  Spent(u, v, E)'
  BY <1>2 DEF Moves, Became, Spent, NoSession
<1>3. ASSUME NEW n \in net'
      PROVE  /\ n.type = "DELETE" => Spent(n.src, n.dst, n.key)'
             /\ n.type = "DELETE_ACK" => Spent(n.dst, n.src, n.key)'
  <2>1. CASE n \in net
    BY <1>t, <1>k, <1>2, <2>1 DEF DebtInv, DeletesSpent
  <2>2. CASE n \notin net
    <3>1. Launched(n)
      BY <2>2 DEF Moves
    <3>2. CASE n.type = "DELETE"
      BY <3>1, <3>2 DEF Launched, Spent
    <3>3. CASE n.type = "DELETE_ACK"
      <4>1. PICK d \in net : d.type = "DELETE" /\ d.src = n.dst /\ d.dst = n.src /\ d.key = n.key
        BY <3>1, <3>3 DEF Launched
      <4>2. Spent(n.dst, n.src, n.key)
        BY <4>1 DEF DebtInv, DeletesSpent
      <4>3. next \notin n.key
        BY <1>k, <4>1
      <4> QED BY <1>t, <1>2, <3>3, <4>2, <4>3
    <3> QED BY <3>2, <3>3
  <2> QED BY <2>1, <2>2
<1>4. DeletesSpent'
  BY <1>3 DEF DeletesSpent
<1>5. ASSUME NEW n \in net', n.type = "DELETE_ACK",
             peers'[n.dst][n.src].st = "connected", peers'[n.dst][n.src].key = n.key
      PROVE  n.src \notin owed'[n.dst]
  <2>1. CASE n \in net
    <3>1. /\ Became(n.dst, n.src) /\ Owes(n.dst, n.src)
          /\ Spent(n.dst, n.src, n.key)
          /\ LET s == peers[n.dst][n.src]
             IN  s.st = "connected" /\ s.key = n.key => n.src \notin owed[n.dst]
      BY <1>t, <1>5, <2>1 DEF Moves, DebtInv, DeletesSpent, AcksHonest
    <3> QED BY <1>5, <3>1 DEF Became, Owes, Spent, NoSession
  <2>2. CASE n \notin net
    BY <1>5, <2>2 DEF Moves, Launched
  <2> QED BY <2>1, <2>2
<1>6. AcksHonest'
  BY <1>5 DEF AcksHonest
<1> QED BY <1>1, <1>4, <1>6 DEF DebtInv

\* Replacing one session of each table.
LEMMA SlotMoves ==
  ASSUME Typed, NEW u \in User, NEW v \in User, Became(u, v),
         peers' = peers \/ \E s : peers' = [peers EXCEPT ![u][v] = s]
  PROVE  \A w, x \in User : Became(w, x)
<1>1. \A w, x \in User : (w = u /\ x = v) \/ peers'[w][x] = peers[w][x]
  BY DEF Typed
<1> QED BY <1>1 DEF Became

LEMMA SlotKeys ==
  ASSUME DebtInv, NEW u \in User, NEW v \in User, next' = next \/ next' = next + 1,
         peers' = peers
           \/ \E s : peers' = [peers EXCEPT ![u][v] = s] /\ s.mine < next' /\ \A e \in s.key : e < next',
         outgoing' = outgoing
           \/ \E s : outgoing' = [outgoing EXCEPT ![u][v] = s] /\ s.mine < next' /\ \A e \in s.key : e < next',
         \A n \in net' : n \in net \/ \A e \in n.key : e < next'
  PROVE  KeysMade'
<1>1. next \in Nat /\ Eph \subseteq Nat
  BY DEF DebtInv, Typed, Eph
<1>7. peers \in [User -> [User -> Good]] /\ outgoing \in [User -> [User -> Good]]
  BY DEF DebtInv, Typed
<1>2. \A w, x \in User : /\ peers[w][x].mine \in Nat /\ peers[w][x].key \subseteq Nat
                         /\ outgoing[w][x].mine \in Nat /\ outgoing[w][x].key \subseteq Nat
  <2>1. \A s \in Good : s.mine \in Nat /\ s.key \subseteq Nat
    BY <1>1 DEF Good, Session
  <2> QED BY <2>1 DEF DebtInv, Typed
<1>3. \A n \in net : n.key \subseteq Nat
  BY <1>1 DEF DebtInv, Typed, Packet
<1>4. \A w, x \in User : peers'[w][x].mine < next' /\ \A e \in peers'[w][x].key : e < next'
  <2>1. \A w, x \in User : peers[w][x].mine < next' /\ \A e \in peers[w][x].key : e < next'
    BY <1>1, <1>2 DEF DebtInv, KeysMade, Made
  <2>2. CASE peers' = peers
    BY <2>1, <2>2
  <2>3. ASSUME NEW s, peers' = [peers EXCEPT ![u][v] = s], s.mine < next', \A e \in s.key : e < next'
        PROVE  \A w, x \in User : peers'[w][x].mine < next' /\ \A e \in peers'[w][x].key : e < next'
    <3>1. \A w, x \in User : peers'[w][x] = s \/ peers'[w][x] = peers[w][x]
      BY <1>7, <2>3
    <3> QED BY <2>1, <2>3, <3>1
  <2> QED BY <2>2, <2>3
<1>5. \A w, x \in User : outgoing'[w][x].mine < next' /\ \A e \in outgoing'[w][x].key : e < next'
  <2>1. \A w, x \in User : outgoing[w][x].mine < next' /\ \A e \in outgoing[w][x].key : e < next'
    BY <1>1, <1>2 DEF DebtInv, KeysMade, Made
  <2>2. CASE outgoing' = outgoing
    BY <2>1, <2>2
  <2>3. ASSUME NEW s, outgoing' = [outgoing EXCEPT ![u][v] = s], s.mine < next', \A e \in s.key : e < next'
        PROVE  \A w, x \in User : outgoing'[w][x].mine < next' /\ \A e \in outgoing'[w][x].key : e < next'
    <3>1. \A w, x \in User : outgoing'[w][x] = s \/ outgoing'[w][x] = outgoing[w][x]
      BY <1>7, <2>3
    <3> QED BY <2>1, <2>3, <3>1
  <2> QED BY <2>2, <2>3
<1>6. \A n \in net' : \A e \in n.key : e < next'
  BY <1>1, <1>3 DEF DebtInv, KeysMade
<1> QED BY <1>4, <1>5, <1>6 DEF KeysMade, Made

\* The keys in the packets that are sent.
LEMMA SentKeys ==
  ASSUME NEW u, NEW v, NEW s, NEW e
  PROVE  /\ \A type : /\ Sealed(type, u, v, s).key = s.key
                      /\ \A n \in Sends(type, u, v, s) : n.key = s.key
         /\ Hello(u, v, e).key = {e} /\ Hello(u, v, e).type = "HELLO"
BY DEF Sealed, Sends, Hello

\* Other packets promise nothing.
LEMMA OtherLaunched ==
  ASSUME NEW n, n.type \notin {"DELETE", "DELETE_ACK"}
  PROVE  Launched(n)
BY DEF Launched

\* Nothing is owed or paid.
LEMMA OwesSame ==
  ASSUME DebtInv, UNCHANGED <<owed, deletes>>
  PROVE  \A w, x \in User : Owes(w, x)
BY DEF DebtInv, OwedIsQueued, Owes

LEMMA NoSessionMade == DebtInv => NoSession.mine < next /\ NoSession.key = {} /\ NoSession.mine < next + 1
BY DEF DebtInv, Typed, NoSession

\* The commands of the user.
LEMMA UserMoves ==
  ASSUME DebtInv, NEW u \in User, NEW v \in User,
         \/ SendRequest(u, v) \/ AcceptRequest(u, v) \/ RejectRequest(u, v)
         \/ DeleteContact(u, v) \/ CallSaves(u, v)
  PROVE  KeysMade' /\ Moves
<1>t. Typed /\ next \in Nat
  BY DEF DebtInv, Typed
<1>k. /\ peers[u][v].mine < next /\ \A e \in peers[u][v].key : e < next
      /\ outgoing[u][v].mine < next /\ \A e \in outgoing[u][v].key : e < next
      /\ NoSession.mine < next /\ NoSession.key = {}
  BY NoSessionMade DEF DebtInv, KeysMade, Made
<1>1. CASE SendRequest(u, v)
  <2>1. /\ outgoing' = [outgoing EXCEPT ![u][v] = Waiting(next)]
        /\ net' = net \cup {Hello(u, v, next)} /\ next' = next + 1
        /\ UNCHANGED <<peers, deletes, owed>>
    BY <1>1 DEF SendRequest, Outgoing, disk
  <2>2. Waiting(next).mine < next' /\ Waiting(next).key = {}
    BY <1>t, <2>1 DEF Waiting
  <2>3. \A n \in net' : n \in net \/ (n.type = "HELLO" /\ \A e \in n.key : e < next')
    BY <1>t, <2>1, SentKeys
  <2>4. KeysMade'
    BY <2>1, <2>2, <2>3, SlotKeys
  <2>5. Became(u, v)
    BY <2>1 DEF Became
  <2> QED BY <1>t, <2>1, <2>3, <2>4, <2>5, SlotMoves, OtherLaunched, OwesSame DEF Moves
<1>2. CASE AcceptRequest(u, v)
  <2>1. /\ net' = net \cup Sends("REQUEST_ACK", u, v, peers[u][v])
        /\ \/ peers' = peers /\ peers[u][v] = NoSession
           \/ peers' = [peers EXCEPT ![u][v] = Connected(peers[u][v])]
        /\ UNCHANGED <<outgoing, next>>
        /\ deletes' = [deletes EXCEPT ![u] = @ \ {v}]
        /\ owed' = [owed EXCEPT ![u] = @ \ {v}]
    BY <1>2 DEF AcceptRequest, Peers, Saves
  <2>2. /\ Connected(peers[u][v]).mine = peers[u][v].mine
        /\ Connected(peers[u][v]).key = peers[u][v].key
        /\ Connected(peers[u][v]).st = "connected"
    <3>1. peers[u][v] \in Good
      BY <1>t DEF Typed
    <3> QED BY <3>1 DEF Connected, Good, Session
  <2>3. \A n \in net' : n \in net \/ (n.type = "REQUEST_ACK" /\ n.key = peers[u][v].key)
    BY <2>1 DEF Sends, Sealed
  <2>4. KeysMade'
    <3> DEFINE s == Connected(peers[u][v])
    <3>1. s.mine < next' /\ \A e \in s.key : e < next'
      BY <1>k, <2>1, <2>2
    <3>2. peers' = peers \/ peers' = [peers EXCEPT ![u][v] = s]
      BY <2>1
    <3>3. \A n \in net' : n \in net \/ \A e \in n.key : e < next'
      BY <1>k, <2>1, <2>3
    <3> HIDE DEF s
    <3> QED BY <2>1, <3>1, <3>2, <3>3, SlotKeys
  <2>5. v \notin owed'[u] /\ \A w, x \in User : x \in owed'[w] => x \in owed[w] /\ (w # u \/ x # v)
    BY <1>t, <2>1 DEF Typed
  <2>6. Became(u, v)
    <3>1. peers'[u][v] = peers[u][v] \/ peers'[u][v] = Connected(peers[u][v])
      BY <1>t, <2>1 DEF Typed
    <3> QED BY <2>2, <2>5, <3>1 DEF Became
  <2>7. \A w, x \in User : Owes(w, x)
    <3>1. \A w, x \in User : x \in deletes[w] /\ (w # u \/ x # v) => x \in deletes'[w]
      BY <1>t, <2>1 DEF Typed
    <3> QED BY <2>5, <3>1 DEF Owes, DebtInv, OwedIsQueued
  <2>8. \A w, x \in User : Became(w, x)
    BY <1>t, <2>1, <2>6, SlotMoves
  <2> QED BY <2>3, <2>4, <2>7, <2>8, OtherLaunched DEF Moves
<1>3. CASE RejectRequest(u, v)
  <2>1. /\ net' = net \cup Sends("BYE", u, v, peers[u][v])
        /\ peers' = [peers EXCEPT ![u][v] = NoSession]
        /\ UNCHANGED <<outgoing, next, deletes, owed>>
    BY <1>3 DEF RejectRequest, Peers
  <2>2. \A n \in net' : n \in net \/ (n.type = "BYE" /\ \A e \in n.key : e < next')
    BY <1>k, <2>1 DEF Sends, Sealed
  <2>3. KeysMade'
    BY <1>k, <2>1, <2>2, SlotKeys
  <2>4. Became(u, v)
    BY <1>t, <2>1 DEF Became, Typed
  <2> QED BY <1>t, <2>1, <2>2, <2>3, <2>4, SlotMoves, OtherLaunched, OwesSame DEF Moves
<1>4. CASE DeleteContact(u, v)
  <2>1. /\ peers' = [peers EXCEPT ![u][v] = NoSession]
        /\ UNCHANGED <<outgoing, next>>
        /\ \/ /\ net' = net \cup Sends("DELETE", u, v, peers[u][v])
              /\ UNCHANGED <<deletes, owed>>
           \/ /\ deletes' = [deletes EXCEPT ![u] = @ \cup {v}]
              /\ owed' = [owed EXCEPT ![u] = @ \cup {v}]
              /\ UNCHANGED net
    BY <1>4 DEF DeleteContact, Forgets, Peers
  <2>2. \A n \in net' : n \in net \/ (/\ n.type = "DELETE" /\ n.src = u /\ n.dst = v
                                      /\ \A e \in n.key : e < next')
    BY <1>k, <2>1 DEF Sends, Sealed
  <2>3. KeysMade'
    BY <1>k, <2>1, <2>2, SlotKeys
  <2>4. peers'[u][v] = NoSession
    BY <1>t, <2>1 DEF Typed
  <2>5. \A w, x \in User : Became(w, x)
    BY <1>t, <2>1, <2>4, SlotMoves DEF Became
  <2>6. \A n \in net' : n \in net \/ Launched(n)
    BY <2>2, <2>4 DEF Launched, NoSession
  <2>7. \A w, x \in User : Owes(w, x)
    <3>1. CASE UNCHANGED <<deletes, owed>>
      BY <3>1, OwesSame
    <3>2. CASE /\ deletes' = [deletes EXCEPT ![u] = @ \cup {v}]
               /\ owed' = [owed EXCEPT ![u] = @ \cup {v}]
      BY <1>t, <2>4, <3>2 DEF Owes, DebtInv, OwedIsQueued, Typed
    <3> QED BY <2>1, <3>1, <3>2
  <2> QED BY <2>3, <2>5, <2>6, <2>7 DEF Moves
<1>5. CASE CallSaves(u, v)
  <2>1. UNCHANGED <<peers, outgoing, next, net, owed, deletes>>
    BY <1>5 DEF CallSaves, tables
  <2>2. KeysMade'
    BY <2>1 DEF DebtInv, KeysMade, Made
  <2> QED BY <2>1, <2>2, OwesSame DEF Moves, Became
<1> QED BY <1>1, <1>2, <1>3, <1>4, <1>5

\* What the daemon does by itself.
LEMMA DaemonMoves ==
  ASSUME DebtInv, NEW u \in User,
         \/ \E v \in User : Connect(u, v) \/ Timeout(u, v) \/ Repeat(u, v)
         \/ Restart(u)
  PROVE  KeysMade' /\ Moves
<1>t. Typed /\ next \in Nat
  BY DEF DebtInv, Typed
<1>k. /\ \A v \in User : /\ peers[u][v].mine < next /\ \A e \in peers[u][v].key : e < next
                         /\ outgoing[u][v].mine < next /\ \A e \in outgoing[u][v].key : e < next
      /\ NoSession.mine < next /\ NoSession.key = {}
  BY NoSessionMade DEF DebtInv, KeysMade, Made
<1>1. ASSUME NEW v \in User, Connect(u, v) PROVE KeysMade' /\ Moves
  <2>1. /\ peers' = [peers EXCEPT ![u][v] = Waiting(next)]
        /\ net' = net \cup {Hello(u, v, next)} /\ next' = next + 1
        /\ UNCHANGED <<outgoing, deletes, owed>>
    BY <1>1 DEF Connect, Peers, disk
  <2>2. Waiting(next).mine = next /\ Waiting(next).key = {} /\ Waiting(next).st = "hello"
    BY DEF Waiting
  <2>3. \A n \in net' : n \in net \/ (n.type = "HELLO" /\ \A e \in n.key : e < next')
    BY <1>t, <2>1, SentKeys
  <2>4. KeysMade'
    <3>1. PICK s : s = Waiting(next)
      OBVIOUS
    <3>2. peers' = [peers EXCEPT ![u][v] = s] /\ s.mine < next' /\ \A e \in s.key : e < next'
      BY <1>t, <2>1, <2>2, <3>1
    <3> QED BY <2>1, <2>3, <3>2, SlotKeys
  <2>5. Became(u, v)
    BY <1>t, <2>1, <2>2 DEF Became, Typed
  <2> QED BY <1>t, <2>1, <2>3, <2>4, <2>5, SlotMoves, OtherLaunched, OwesSame DEF Moves
<1>2. ASSUME NEW v \in User, Timeout(u, v) PROVE KeysMade' /\ Moves
  <2>1. /\ peers' = peers \/ peers' = [peers EXCEPT ![u][v] = NoSession]
        /\ outgoing' = outgoing \/ outgoing' = [outgoing EXCEPT ![u][v] = NoSession]
        /\ UNCHANGED <<net, next, deletes, owed>>
    BY <1>2 DEF Timeout, Peers, Outgoing, disk
  <2>2. KeysMade'
    BY <1>k, <2>1, SlotKeys
  <2>3. Became(u, v)
    BY <1>t, <2>1 DEF Became, Typed
  <2> QED BY <1>t, <2>1, <2>2, <2>3, SlotMoves, OwesSame DEF Moves
<1>3. ASSUME NEW v \in User, Repeat(u, v) PROVE KeysMade' /\ Moves
  <2>1. PICK s \in {peers[u][v], outgoing[u][v]} : net' = net \cup {Hello(u, v, s.mine)}
    BY <1>3 DEF Repeat
  <2>2. UNCHANGED <<peers, outgoing, next, deletes, owed>>
    BY <1>3 DEF Repeat, disk, tables
  <2>3. \A n \in net' : n \in net \/ (n.type = "HELLO" /\ \A e \in n.key : e < next')
    BY <1>k, <2>1, <2>2, SentKeys
  <2>4. KeysMade'
    BY <2>2, <2>3, SlotKeys
  <2> QED BY <2>2, <2>3, <2>4, OtherLaunched, OwesSame DEF Moves, Became
<1>4. CASE Restart(u)
  <2>1. /\ outgoing' = [outgoing EXCEPT ![u] = [v \in User |-> NoSession]]
        /\ peers' = [peers EXCEPT ![u] = [v \in User |-> NoSession]]
        /\ UNCHANGED <<net, next, deletes, owed>>
    BY <1>4 DEF Restart, NoTables, disk
  <2>2. \A w, x \in User : /\ peers'[w][x] = peers[w][x] \/ peers'[w][x] = NoSession
                           /\ outgoing'[w][x] = outgoing[w][x] \/ outgoing'[w][x] = NoSession
    BY <1>t, <2>1 DEF Typed
  <2>3. KeysMade'
    BY <1>k, <2>1, <2>2 DEF DebtInv, KeysMade, Made
  <2> QED BY <2>1, <2>2, <2>3, OwesSame DEF Moves, Became
<1> QED BY <1>1, <1>2, <1>3, <1>4

\* What the daemon does with a HELLO.
LEMMA HelloMoves ==
  ASSUME DebtInv, NEW u \in User, NEW m \in net, RecvHello(u, m)
  PROVE  KeysMade' /\ Moves
<1> DEFINE v == m.src
           with(t) == [st |-> "identity", mine |-> 0, key |-> m.key \cup {t.mine}, up |-> "no"]
           fresh == [st |-> "identity", mine |-> 0, key |-> m.key \cup {next}, up |-> "no"]
<1>t. Typed /\ next \in Nat /\ v \in User /\ next > 0
  BY DEF DebtInv, Typed, Packet
<1>k. /\ \A e \in m.key : e < next
      /\ peers[u][v].mine < next /\ outgoing[u][v].mine < next
      /\ NoSession.mine < next /\ NoSession.key = {} /\ NoSession.mine < next + 1
  BY <1>t, NoSessionMade DEF DebtInv, KeysMade, Made
<1>n. m.key \subseteq Nat
  BY <1>t DEF Typed, Packet, Eph
<1>1. UNCHANGED <<deletes, owed>>
  BY DEF RecvHello, disk
<1>2. \/ /\ outgoing[u][v].st = "hello" /\ outgoing' = [outgoing EXCEPT ![u][v] = with(outgoing[u][v])]
         /\ net' = (net \ {m}) \cup {Sealed("REQUEST", u, v, with(outgoing[u][v]))}
         /\ UNCHANGED <<peers, next>>
      \/ /\ peers[u][v].st = "hello" /\ peers' = [peers EXCEPT ![u][v] = with(peers[u][v])]
         /\ net' = (net \ {m}) \cup {Sealed("IDENTITY", u, v, with(peers[u][v]))}
         /\ UNCHANGED <<outgoing, next>>
      \/ /\ peers' = [peers EXCEPT ![u][v] = NoSession]
         /\ net' = net \ {m} /\ UNCHANGED <<next, outgoing>>
      \/ /\ next' = next + 1 /\ peers' = [peers EXCEPT ![u][v] = fresh]
         /\ net' = (net \ {m}) \cup {Hello(u, v, next), Sealed("IDENTITY", u, v, fresh)}
         /\ UNCHANGED outgoing
      \/ net' = net \ {m} /\ UNCHANGED <<peers, outgoing, next>>
  BY DEF RecvHello, AcceptHello, Peers, Outgoing
<1>3. \A n \in net' : n \in net
         \/ (n.type \notin {"DELETE", "DELETE_ACK"} /\ \A e \in n.key : e < next')
  BY <1>2, <1>t, <1>k, <1>n DEF Sealed, Hello
<1>4. /\ with(peers[u][v]).mine = 0 /\ with(peers[u][v]).key = m.key \cup {peers[u][v].mine}
      /\ with(peers[u][v]).st = "identity"
      /\ with(outgoing[u][v]).mine = 0 /\ with(outgoing[u][v]).key = m.key \cup {outgoing[u][v].mine}
      /\ fresh.mine = 0 /\ fresh.key = m.key \cup {next} /\ fresh.st = "identity"
  OBVIOUS
<1> HIDE DEF with, fresh
<1>5. KeysMade'
  <2>1. /\ next' = next \/ next' = next + 1
        /\ peers' = peers
             \/ \E s : peers' = [peers EXCEPT ![u][v] = s] /\ s.mine < next' /\ \A e \in s.key : e < next'
        /\ outgoing' = outgoing
             \/ \E s : outgoing' = [outgoing EXCEPT ![u][v] = s] /\ s.mine < next' /\ \A e \in s.key : e < next'
    <3>1. CASE /\ outgoing' = [outgoing EXCEPT ![u][v] = with(outgoing[u][v])]
               /\ UNCHANGED <<peers, next>>
      BY <1>t, <1>k, <1>4, <3>1
    <3>2. CASE /\ peers' = [peers EXCEPT ![u][v] = with(peers[u][v])]
               /\ UNCHANGED <<outgoing, next>>
      BY <1>t, <1>k, <1>4, <3>2
    <3>3. CASE /\ peers' = [peers EXCEPT ![u][v] = NoSession] /\ UNCHANGED <<outgoing, next>>
      BY <1>t, <1>k, <3>3
    <3>4. CASE /\ next' = next + 1 /\ peers' = [peers EXCEPT ![u][v] = fresh]
               /\ UNCHANGED outgoing
      <4>1. fresh.mine < next' /\ \A e \in fresh.key : e < next'
        BY <1>t, <1>k, <1>n, <1>4, <3>4
      <4> QED BY <3>4, <4>1
    <3> QED BY <1>2, <3>1, <3>2, <3>3, <3>4
  <2> QED BY <1>3, <1>t, <2>1, SlotKeys
<1>6. Became(u, v)
  <2>1. \/ peers'[u][v] = peers[u][v] \/ peers'[u][v] = NoSession
        \/ peers[u][v].st = "hello" /\ peers'[u][v] = with(peers[u][v])
        \/ peers'[u][v] = fresh
    BY <1>2, <1>t DEF Typed
  <2> QED BY <1>4, <2>1 DEF Became
<1>7. \A w, x \in User : Became(w, x)
  <2>1. peers' = peers \/ \E s : peers' = [peers EXCEPT ![u][v] = s]
    BY <1>2
  <2> QED BY <1>t, <1>6, <2>1, SlotMoves
<1> QED BY <1>1, <1>3, <1>5, <1>7, OtherLaunched, OwesSame DEF Moves

\* What it does with a packet sealed with a session.
LEMMA SealedMoves ==
  ASSUME DebtInv, NEW u \in User, NEW m \in net,
         RecvIdentity(u, m) \/ RecvConfirm(u, m) \/ RecvRequest(u, m)
  PROVE  KeysMade' /\ Moves
<1> DEFINE v == m.src
<1>t. Typed /\ next \in Nat /\ v \in User
  BY DEF DebtInv, Typed, Packet
<1>k. peers[u][v].mine < next /\ \A e \in peers[u][v].key : e < next
  BY <1>t DEF DebtInv, KeysMade, Made
<1>g. peers[u][v] \in Good
  BY <1>t DEF Typed
<1>1. UNCHANGED <<deletes, owed, outgoing, next>>
  BY DEF RecvIdentity, RecvConfirm, RecvRequest, disk
<1>2. PICK t :
        /\ peers' = [peers EXCEPT ![u][v] = t]
        /\ t.mine = peers[u][v].mine /\ t.key = peers[u][v].key
        /\ \/ t.st = peers[u][v].st
           \/ t.st = "connected" /\ peers[u][v].st = "identity"
  <2>r. /\ Read(peers[u][v], m).mine = peers[u][v].mine /\ Read(peers[u][v], m).key = peers[u][v].key
        /\ Read(peers[u][v], m).st = peers[u][v].st
    BY <1>g DEF Read, Good, Session
  <2>1. CASE RecvIdentity(u, m)
    <3>1. PICK up : peers' = [peers EXCEPT ![u][v] = [Connected(peers[u][v]) EXCEPT !.up = up]]
      BY <2>1 DEF RecvIdentity, Peers
    <3>2. peers[u][v].st = "identity"
      BY <2>1 DEF RecvIdentity
    <3>3. PICK t : t = [Connected(peers[u][v]) EXCEPT !.up = up]
      OBVIOUS
    <3>4. t.mine = peers[u][v].mine /\ t.key = peers[u][v].key /\ t.st = "connected"
      BY <1>g, <3>3 DEF Connected, Good, Session
    <3> QED BY <3>1, <3>2, <3>3, <3>4
  <2>2. CASE RecvConfirm(u, m) \/ RecvRequest(u, m)
    BY <2>r, <2>2 DEF RecvConfirm, RecvRequest, Peers
  <2> QED BY <2>1, <2>2
<1>3. \A n \in net' : n \in net
         \/ /\ \A e \in n.key : e < next'
            /\ n.type \notin {"DELETE", "DELETE_ACK"}
                 \/ (n.type = "DELETE" /\ n.src = u /\ n.dst = v /\ t.st = "connected")
  <2>1. CASE RecvIdentity(u, m)
    <3>1. PICK up : /\ peers' = [peers EXCEPT ![u][v] = [Connected(peers[u][v]) EXCEPT !.up = up]]
                    /\ LET known == [Connected(peers[u][v]) EXCEPT !.up = up]
                       IN  net' = (net \ {m}) \cup Answers(u, v, known)
                             \cup (IF known.up = "offered" THEN {Sealed("CONFIRM", u, v, known)} ELSE {})
      BY <2>1 DEF RecvIdentity, Peers
    <3>2. PICK r : r = [Connected(peers[u][v]) EXCEPT !.up = up]
      OBVIOUS
    <3>3. r.key = peers[u][v].key /\ r.st = "connected"
      BY <1>g, <3>2 DEF Connected, Good, Session
    <3>4. t = r
      <4>1. peers'[u][v] = r
        BY <1>t, <3>1, <3>2 DEF Typed
      <4>2. peers'[u][v] = t
        BY <1>t, <1>2 DEF Typed
      <4> QED BY <4>1, <4>2
    <3>5. \A n \in net' : n \in net \/ n \in Answers(u, v, r) \/ n = Sealed("CONFIRM", u, v, r)
      BY <3>1, <3>2
    <3>6. \A n \in Answers(u, v, r) : n = Sealed("DELETE", u, v, r)
      BY DEF Answers
    <3> QED BY <1>k, <1>1, <3>3, <3>4, <3>5, <3>6 DEF Sealed
  <2>2. CASE RecvConfirm(u, m)
    BY <2>2 DEF RecvConfirm
  <2>3. CASE RecvRequest(u, m)
    <3>1. net' \subseteq net \cup Sends("REQUEST_ACK", u, v, peers[u][v])
      BY <2>3 DEF RecvRequest
    <3> QED BY <1>k, <1>1, <3>1 DEF Sends, Sealed
  <2> QED BY <2>1, <2>2, <2>3
<1>4. KeysMade'
  BY <1>k, <1>1, <1>2, <1>3, <1>t, SlotKeys
<1>5. peers'[u][v] = t
  BY <1>t, <1>2 DEF Typed
<1>6. Became(u, v)
  BY <1>2, <1>5 DEF Became
<1>7. \A n \in net' : n \in net \/ Launched(n)
  BY <1>3, <1>5 DEF Launched
<1> QED BY <1>t, <1>1, <1>2, <1>4, <1>6, <1>7, SlotMoves, OwesSame DEF Moves

\* What it does with an answer, or with the end of a session.
LEMMA EndMoves ==
  ASSUME DebtInv, NEW u \in User, NEW m \in net,
         RecvRequestAck(u, m) \/ RecvBye(u, m)
  PROVE  KeysMade' /\ Moves
<1> DEFINE v == m.src
<1>t. Typed /\ next \in Nat /\ v \in User
  BY DEF DebtInv, Typed, Packet
<1>k. /\ outgoing[u][v].mine < next /\ \A e \in outgoing[u][v].key : e < next
      /\ NoSession.mine < next /\ NoSession.key = {}
  BY <1>t, NoSessionMade DEF DebtInv, KeysMade, Made
<1>1. CASE RecvRequestAck(u, m)
  <2>1. PICK t : t = Connected(Read(outgoing[u][v], m))
    OBVIOUS
  <2>2. t.mine = outgoing[u][v].mine /\ t.key = outgoing[u][v].key /\ t.st = "connected"
    <3>1. outgoing[u][v] \in Good
      BY <1>t DEF Typed
    <3> QED BY <2>1, <3>1 DEF Connected, Read, Good, Session
  <2>3. /\ peers' = [peers EXCEPT ![u][v] = t]
        /\ outgoing' = [outgoing EXCEPT ![u][v] = NoSession]
        /\ net' = net \ {m} /\ UNCHANGED next
        /\ deletes' = [deletes EXCEPT ![u] = @ \ {v}]
        /\ owed' = [owed EXCEPT ![u] = @ \ {v}]
    BY <1>1, <2>1 DEF RecvRequestAck, Saves, Peers, Outgoing
  <2>4. KeysMade'
    BY <1>k, <1>t, <2>2, <2>3, SlotKeys
  <2>5. v \notin owed'[u] /\ \A w, x \in User : x \in owed'[w] => x \in owed[w] /\ (w # u \/ x # v)
    BY <1>t, <2>3 DEF Typed
  <2>6. peers'[u][v] = t
    BY <1>t, <2>3 DEF Typed
  <2>7. Became(u, v)
    BY <2>2, <2>5, <2>6 DEF Became
  <2>8. \A w, x \in User : Owes(w, x)
    <3>1. \A w, x \in User : x \in deletes[w] /\ (w # u \/ x # v) => x \in deletes'[w]
      BY <1>t, <2>3 DEF Typed
    <3> QED BY <2>5, <3>1 DEF Owes, DebtInv, OwedIsQueued
  <2> QED BY <1>t, <2>3, <2>4, <2>7, <2>8, SlotMoves DEF Moves
<1>2. CASE RecvBye(u, m)
  <2>1. /\ peers' = [peers EXCEPT ![u][v] = NoSession]
        /\ outgoing' = [outgoing EXCEPT ![u][v] = NoSession]
        /\ net' = net \ {m} /\ UNCHANGED <<next, deletes, owed>>
    BY <1>2 DEF RecvBye, Peers, Outgoing, disk
  <2>2. KeysMade'
    BY <1>k, <1>t, <2>1, SlotKeys
  <2>3. Became(u, v)
    BY <1>t, <2>1 DEF Became, Typed
  <2> QED BY <1>t, <2>1, <2>2, <2>3, SlotMoves, OwesSame DEF Moves
<1> QED BY <1>1, <1>2

\* What it does with a deletion and with its acknowledgement.
LEMMA DeleteMoves ==
  ASSUME DebtInv, NEW u \in User, NEW m \in net,
         RecvDelete(u, m) \/ RecvDeleteAck(u, m)
  PROVE  KeysMade' /\ Moves
<1> DEFINE v == m.src
<1>t. Typed /\ next \in Nat /\ v \in User
  BY DEF DebtInv, Typed, Packet
<1>k. /\ \A e \in peers[u][v].key : e < next
      /\ NoSession.mine < next /\ NoSession.key = {}
  BY <1>t, NoSessionMade DEF DebtInv, KeysMade, Made
<1>1. peers' = [peers EXCEPT ![u][v] = NoSession] /\ UNCHANGED <<outgoing, next>> /\ m.dst = u
  BY DEF RecvDelete, RecvDeleteAck, Forgets, Peers, Take
<1>2. Became(u, v) /\ peers'[u][v] = NoSession
  BY <1>t, <1>1 DEF Became, Typed
<1>3. \A w, x \in User : Became(w, x)
  BY <1>t, <1>1, <1>2, SlotMoves
<1>4. CASE RecvDelete(u, m)
  <2>1. PICK s : s = Read(peers[u][v], m)
    OBVIOUS
  <2>2. s.key = m.key /\ s.key = peers[u][v].key
    <3>1. peers[u][v] \in Good
      BY <1>t DEF Typed
    <3>2. CanRead(peers[u][v], m)
      BY <1>4 DEF RecvDelete
    <3> QED BY <2>1, <3>1, <3>2 DEF Read, CanRead, Good, Session
  <2>3. /\ net' = (net \ {m}) \cup {Sealed("DELETE_ACK", u, v, s)}
        /\ owed' = [owed EXCEPT ![v] = @ \ {u}] /\ UNCHANGED deletes
        /\ m.type = "DELETE"
    BY <1>4, <2>1 DEF RecvDelete
  <2>4. \A n \in net' : n \in net
           \/ (n.type = "DELETE_ACK" /\ n.src = u /\ n.dst = v /\ n.key = m.key)
    BY <2>2, <2>3 DEF Sealed
  <2>5. KeysMade'
    BY <1>k, <1>t, <1>1, <2>2, <2>4, SlotKeys
  <2>6. u \notin owed'[v] /\ \A w, x \in User : x \in owed'[w] => x \in owed[w]
    BY <1>t, <2>3 DEF Typed
  <2>7. \A n \in net' : n \in net \/ Launched(n)
    BY <1>1, <2>3, <2>4, <2>6 DEF Launched
  <2>8. \A w, x \in User : Owes(w, x)
    BY <2>3, <2>6 DEF Owes, DebtInv, OwedIsQueued
  <2> QED BY <1>3, <2>5, <2>7, <2>8 DEF Moves
<1>5. CASE RecvDeleteAck(u, m)
  <2>1. /\ deletes' = [deletes EXCEPT ![u] = @ \ {v}] /\ net' = net \ {m} /\ UNCHANGED owed
        /\ m.type = "DELETE_ACK" /\ peers[u][v].st = "connected" /\ peers[u][v].key = m.key
    BY <1>5 DEF RecvDeleteAck, CanRead
  <2>2. v \notin owed[u]
    BY <1>1, <2>1 DEF DebtInv, AcksHonest
  <2>3. KeysMade'
    BY <1>k, <1>t, <1>1, <2>1, SlotKeys
  <2>4. \A w, x \in User : Owes(w, x)
    <3>1. \A w, x \in User : x \in deletes[w] /\ (w # u \/ x # v) => x \in deletes'[w]
      BY <1>t, <2>1 DEF Typed
    <3> QED BY <2>1, <2>2, <3>1 DEF Owes, DebtInv, OwedIsQueued
  <2> QED BY <1>3, <2>1, <2>3, <2>4 DEF Moves
<1> QED BY <1>4, <1>5

\* Init establishes the invariant, and every step keeps it.
LEMMA DebtInit == ContactsAssumption /\ Init => DebtInv
<1> SUFFICES ASSUME ContactsAssumption, Init PROVE DebtInv
  OBVIOUS
<1>1. Typed
  BY InitTyped
<1>2. KeysMade
  BY DEF Init, KeysMade, Made, NoSession
<1>3. DeletesSpent /\ AcksHonest /\ OwedIsQueued
  BY DEF Init, DeletesSpent, AcksHonest, OwedIsQueued
<1> QED BY <1>1, <1>2, <1>3 DEF DebtInv

LEMMA DebtStep ==
  ASSUME ContactsAssumption, DebtInv, [Next]_vars
  PROVE  DebtInv'
<1>t. Typed'
  BY TypedStep DEF DebtInv
<1>1. CASE UNCHANGED vars
  BY <1>1, <1>t DEF vars, disk, tables, DebtInv, KeysMade, Made, DeletesSpent, Spent, AcksHonest,
     OwedIsQueued
<1>2. CASE Next
  <2>1. PICK u \in User :
          \/ \E v \in User :
               \/ SendRequest(u, v) \/ AcceptRequest(u, v) \/ RejectRequest(u, v)
               \/ DeleteContact(u, v) \/ CallSaves(u, v)
          \/ \/ \E v \in User : Connect(u, v) \/ Timeout(u, v) \/ Repeat(u, v)
             \/ Restart(u)
          \/ \E m \in net : RecvHello(u, m)
          \/ \E m \in net : RecvIdentity(u, m) \/ RecvConfirm(u, m) \/ RecvRequest(u, m)
          \/ \E m \in net : RecvRequestAck(u, m) \/ RecvBye(u, m)
          \/ \E m \in net : RecvDelete(u, m) \/ RecvDeleteAck(u, m)
    BY <1>2 DEF Next
  <2>2. KeysMade' /\ Moves
    BY <2>1, UserMoves, DaemonMoves, HelloMoves, SealedMoves, EndMoves, DeleteMoves
  <2> QED BY <1>t, <2>2, MovesKeep
<1> QED BY <1>1, <1>2

\* A deletion that was queued stays on disk for as long as the other user, who
\* has not taken a DELETE since, has the contact: no acknowledgement of an
\* earlier deletion removes it, however late it comes.
THEOREM DeletionStaysKnown ==
  ASSUME ContactsAssumption
  PROVE  Spec => []DeletionIsRemembered
<1>1. Spec => []DebtInv
  <2>1. Init => DebtInv
    BY DebtInit
  <2>2. DebtInv /\ [Next]_vars => DebtInv'
    BY DebtStep
  <2> QED BY <2>1, <2>2, PTL DEF Spec
<1>2. DebtInv => DeletionIsRemembered
  BY DEF DebtInv, OwedIsQueued, Typed, DeletionIsRemembered
<1> QED BY <1>1, <1>2, PTL
=============================================================================
