------------------------ MODULE FileTransferProofs ------------------------
(***************************************************************************)
(* File transfers for any users, files, losses and repetitions, through    *)
(* lost and renewed sessions, calls and restarts: a received file never    *)
(* mixes chunks of two files, and a sender is told that its file arrived   *)
(* only when the addressee has held all of it.  When a chat has one file,  *)
(* the card each end shows of it and the daemons' tables stay in step.     *)
(***************************************************************************)
EXTENDS FileTransfer, SequenceTheorems, FiniteSetTheorems, TLAPS

----------------------------------------------------------------------------
(* Types: every card stays in its chat, so that the files offered are at   *)
(* least as many as the ids that their user has given, and no id is out of *)
(* range.                                                                  *)

\* The ids that n has given number its offers on file.
IdsCounted == \A n \in User : nextId[n] <= 1 + Cardinality({f \in File : From[f] = n /\ Offered(n, f)})
TypeInv == TypeOK /\ IdsCounted

CardState == {"Offered", "Accepted", "Completed", "Failed", "Rejected", "Cancelled"}

\* The cards of g are still there in h, where there may be more.
Kept(g, h) ==
  /\ Len(g.cards) <= Len(h.cards)
  /\ \A i \in 1..Len(g.cards) : h.cards[i].file = g.cards[i].file
GuiKept ==
  /\ gui' \in [User -> [User -> Chat]]
  /\ \A n, c \in User : Kept(gui[n][c], gui'[n][c])

LEMMA ChatFields ==
  ASSUME NEW g \in Chat
  PROVE  /\ g.cards \in Seq(Card) /\ g.progress \in SUBSET TransferId
         /\ Len(g.cards) \in Nat /\ DOMAIN g.cards = 1..Len(g.cards)
         /\ \A i \in 1..Len(g.cards) : g.cards[i] \in Card
BY LenProperties, ElementOfSeq DEF Chat

LEMMA CardsOfChat ==
  ASSUME NEW q, NEW l \in Nat, DOMAIN q = 1..l, q = [i \in 1..l |-> q[i]],
         \A i \in 1..l : q[i] \in Card
  PROVE  q \in Seq(Card) /\ Len(q) = l
<1>1. q \in [1..l -> Card]
  OBVIOUS
<1>2. q \in Seq(Card)
  BY <1>1, SeqDef
<1>3. Len(q) \in Nat /\ DOMAIN q = 1..Len(q)
  BY <1>2, LenProperties
<1>4. Len(q) = l
  BY <1>3
<1> QED BY <1>2, <1>4

LEMMA KeptTrans ==
  ASSUME NEW f \in Chat, NEW g \in Chat, NEW h \in Chat, Kept(f, g), Kept(g, h)
  PROVE  Kept(f, h)
<1>1. Len(f.cards) \in Nat /\ Len(g.cards) \in Nat /\ Len(h.cards) \in Nat
  BY ChatFields
<1> QED BY <1>1 DEF Kept

(* Whatever an event does to the cards, they are the same cards. *)
LEMMA UpdatedKept ==
  ASSUME NEW g \in Chat, NEW t \in TransferId, NEW st \in CardState
  PROVE  /\ Updated(g.cards, t, st) \in Seq(Card)
         /\ Len(Updated(g.cards, t, st)) = Len(g.cards)
         /\ \A i \in 1..Len(g.cards) : Updated(g.cards, t, st)[i].file = g.cards[i].file
<1> DEFINE q == g.cards
           l == Len(q)
           r(i) == [q EXCEPT ![i].id = t, ![i].st = st]
<1>1. l \in Nat /\ DOMAIN q = 1..l /\ q \in Seq(Card) /\ \A i \in 1..l : q[i] \in Card
  BY ChatFields
<1>2. ASSUME NEW i
      PROVE  r(i) \in Seq(Card) /\ Len(r(i)) = l /\ \A j \in 1..l : r(i)[j].file = q[j].file
  <2>1. DOMAIN r(i) = 1..l /\ r(i) = [j \in 1..l |-> r(i)[j]]
    BY <1>1
  <2>2. \A j \in 1..l : r(i)[j] = IF j = i THEN [q[j] EXCEPT !.id = t, !.st = st] ELSE q[j]
    BY <1>1
  <2>3. \A j \in 1..l : r(i)[j] \in Card /\ r(i)[j].file = q[j].file
    BY <1>1, <2>2 DEF Card, CardState
  <2>4. r(i) \in Seq(Card) /\ Len(r(i)) = l
    <3> HIDE DEF r
    <3> QED BY <1>1, <2>1, <2>3, CardsOfChat
  <2> QED BY <2>3, <2>4
<1>3. PICK i : Updated(q, t, st) = r(i) \/ Updated(q, t, st) = q
  BY DEF Updated
<1> HIDE DEF r
<1> QED BY <1>1, <1>2, <1>3

LEMMA MarkedKept ==
  ASSUME NEW g \in Chat, NEW t \in TransferId, NEW st \in CardState
  PROVE  Marked(g, t, st) \in Chat /\ Kept(g, Marked(g, t, st))
<1>1. /\ Marked(g, t, st) = [cards |-> Updated(g.cards, t, st), progress |-> g.progress]
      /\ g.progress \in SUBSET TransferId /\ Len(g.cards) \in Nat
  BY ChatFields DEF Marked, Chat
<1> QED BY <1>1, UpdatedKept DEF Chat, Kept

LEMMA EndedKept ==
  ASSUME NEW g \in Chat, NEW t \in TransferId, NEW st \in CardState
  PROVE  Ended(g, t, st) \in Chat /\ Kept(g, Ended(g, t, st))
<1>1. Marked(g, t, st) \in Chat /\ Kept(g, Marked(g, t, st))
  BY MarkedKept
<1> QED BY <1>1 DEF Ended, Kept, Chat

LEMMA MovingKept ==
  ASSUME NEW g \in Chat, NEW t \in TransferId
  PROVE  Moving(g, t) \in Chat /\ Kept(g, Moving(g, t))
<1>1. Marked(g, t, "Accepted") \in Chat /\ Kept(g, Marked(g, t, "Accepted"))
  BY MarkedKept DEF CardState
<1>2. Kept(g, g)
  BY ChatFields DEF Kept
<1> QED BY <1>1, <1>2 DEF Moving, Kept, Chat

LEMMA WithCardKept ==
  ASSUME NEW g \in Chat, NEW f \in File, NEW mine \in BOOLEAN, NEW t \in TransferId
  PROVE  LET h == WithCard(g, f, mine, t)
         IN  /\ h \in Chat /\ Kept(g, h)
             /\ h.cards[Len(h.cards)].file = f /\ Len(h.cards) \in DOMAIN h.cards
<1> DEFINE k == [file |-> f, mine |-> mine, id |-> t, st |-> "Offered"]
           h == WithCard(g, f, mine, t)
<1>1. k \in Card
  BY DEF Card
<1>2. h.cards = Append(g.cards, k) /\ h = [cards |-> h.cards, progress |-> g.progress]
  <2>1. h = [g EXCEPT !.cards = Append(@, k)]
    BY DEF WithCard
  <2> HIDE DEF k, h
  <2> QED BY <2>1 DEF Chat
<1>3. /\ g.cards \in Seq(Card) /\ Len(g.cards) \in Nat /\ g.progress \in SUBSET TransferId
  BY ChatFields
<1>4. /\ Append(g.cards, k) \in Seq(Card) /\ Len(Append(g.cards, k)) = Len(g.cards) + 1
      /\ \A i \in 1..Len(g.cards) : Append(g.cards, k)[i] = g.cards[i]
      /\ Append(g.cards, k)[Len(g.cards) + 1] = k
  <2> HIDE DEF k
  <2> QED BY <1>1, <1>3
<1>5. h \in Chat /\ Kept(g, h)
  <2> HIDE DEF k, h
  <2>1. h \in Chat
    BY <1>2, <1>3, <1>4 DEF Chat
  <2>2. Kept(g, h)
    BY <1>2, <1>3, <1>4 DEF Kept
  <2> QED BY <2>1, <2>2
<1>6. DOMAIN h.cards = 1..Len(h.cards)
  <2> HIDE DEF k, h
  <2> QED BY <1>5, ChatFields
<1>7. h.cards[Len(h.cards)] = k /\ Len(h.cards) \in 1..Len(h.cards)
  <2> HIDE DEF k
  <2> QED BY <1>2, <1>3, <1>4
<1> QED BY <1>5, <1>6, <1>7

LEMMA ReloadedKept ==
  ASSUME NEW g \in Chat
  PROVE  Reloaded(g) \in Chat /\ Kept(g, Reloaded(g))
<1> DEFINE l == Len(g.cards)
           q == [i \in 1..l |-> IF Open(g.cards[i]) THEN [g.cards[i] EXCEPT !.st = "Failed"] ELSE g.cards[i]]
<1>1. l \in Nat /\ DOMAIN g.cards = 1..l /\ \A i \in 1..l : g.cards[i] \in Card
  BY ChatFields
<1>2. Reloaded(g) = [cards |-> q, progress |-> {}]
  BY <1>1 DEF Reloaded
<1>3. \A i \in 1..l : q[i] \in Card /\ q[i].file = g.cards[i].file
  BY <1>1 DEF Card
<1>4. q \in Seq(Card) /\ Len(q) = l
  <2>1. DOMAIN q = 1..l /\ q = [i \in 1..l |-> q[i]]
    OBVIOUS
  <2> HIDE DEF q
  <2> QED BY <1>1, <1>3, <2>1, CardsOfChat
<1> HIDE DEF q
<1> QED BY <1>1, <1>2, <1>3, <1>4 DEF Chat, Kept

LEMMA AllFailedKept ==
  ASSUME NEW g \in Chat, NEW T \in SUBSET TransferId, NEW h \in AllFailed(g, T)
  PROVE  h \in Chat /\ Kept(g, h)
<1> DEFINE cards == g.cards
           l == Len(cards)
           exact(t) == {i \in DOMAIN cards : cards[i].id = t /\ Open(cards[i])}
           unnamed == {i \in DOMAIN cards : cards[i].id = 0 /\ cards[i].mine /\ Open(cards[i])}
           cardless == {t \in T : exact(t) = {}}
           oldest == {i \in unnamed : Cardinality({j \in unnamed : j < i}) < Cardinality(cardless)}
           over == {Max(exact(t)) : t \in T \ cardless}
           Failed(name) ==
             [i \in DOMAIN cards |->
                IF i \in oldest THEN [cards[i] EXCEPT !.id = name[i], !.st = "Failed"]
                ELSE IF i \in over THEN [cards[i] EXCEPT !.st = "Failed"]
                ELSE cards[i]]
<1>1. /\ l \in Nat /\ DOMAIN cards = 1..l /\ \A i \in 1..l : cards[i] \in Card
      /\ g.progress \in SUBSET TransferId
  BY ChatFields
<1>2. PICK name \in Injection(oldest, cardless) :
        h = [cards |-> Failed(name), progress |-> g.progress \ T]
  BY DEF AllFailed
<1>3. \A i \in oldest : name[i] \in TransferId
  <2>1. name \in [oldest -> cardless]
    <3> HIDE DEF oldest, cardless
    <3> QED BY <1>2 DEF Injection, IsInjective
  <2>2. cardless \subseteq TransferId
    OBVIOUS
  <2> HIDE DEF oldest, cardless
  <2> QED BY <2>1, <2>2
<1> DEFINE q == Failed(name)
<1>4. DOMAIN q = 1..l /\ q = [i \in 1..l |-> q[i]]
  BY <1>1
<1>5. \A i \in 1..l : q[i] \in Card /\ q[i].file = cards[i].file
  <2> SUFFICES ASSUME NEW i \in 1..l PROVE q[i] \in Card /\ q[i].file = cards[i].file
    OBVIOUS
  <2>1. q[i] = IF i \in oldest THEN [cards[i] EXCEPT !.id = name[i], !.st = "Failed"]
               ELSE IF i \in over THEN [cards[i] EXCEPT !.st = "Failed"] ELSE cards[i]
    BY <1>1
  <2> HIDE DEF oldest, over, q
  <2> QED BY <1>1, <1>3, <2>1 DEF Card
<1>6. q \in Seq(Card) /\ Len(q) = l
  <2> HIDE DEF q
  <2> QED BY <1>1, <1>4, <1>5, CardsOfChat
<1>7. h = [cards |-> q, progress |-> g.progress \ T] /\ g.progress \ T \in SUBSET TransferId
  BY <1>1, <1>2
<1> HIDE DEF q, unnamed, cardless, oldest, over, Failed
<1> QED BY <1>1, <1>5, <1>6, <1>7 DEF Chat, Kept

----------------------------------------------------------------------------

LEMMA Ids ==
  /\ \A S \in SUBSET File : IsFiniteSet(S) /\ Cardinality(S) \in Nat /\ Cardinality(S) <= Cardinality(File)
  /\ Cardinality(File) \in Nat /\ TransferId = 0..Cardinality(File) /\ 0 \in TransferId
BY FileTransferAssumption, FS_Subset, FS_CardinalityType DEF TransferId

LEMMA OfferedKept ==
  ASSUME TypeOK, GuiKept, NEW n \in User, NEW f \in File, Offered(n, f)
  PROVE  Offered(n, f)'
<1> DEFINE g == gui[n][To[f]]
           h == gui'[n][To[f]]
<1>1. g \in Chat /\ h \in Chat /\ Kept(g, h)
  BY FileTransferAssumption DEF TypeOK, GuiKept
<1>2. PICK i \in DOMAIN g.cards : g.cards[i].file = f
  BY DEF Offered
<1>3. /\ Len(g.cards) \in Nat /\ DOMAIN g.cards = 1..Len(g.cards)
      /\ Len(h.cards) \in Nat /\ DOMAIN h.cards = 1..Len(h.cards)
  BY <1>1, ChatFields
<1>4. i \in DOMAIN h.cards /\ h.cards[i].file = f
  <2> HIDE DEF g, h
  <2> QED BY <1>1, <1>2, <1>3 DEF Kept
<1> QED BY <1>4 DEF Offered

LEMMA IdsCountedKept ==
  ASSUME TypeInv, GuiKept, NEW n \in User, nextId'[n] = nextId[n]
  PROVE  nextId'[n] <= 1 + Cardinality({f \in File : From[f] = n /\ Offered(n, f)'})
<1> DEFINE S == {f \in File : From[f] = n /\ Offered(n, f)}
           Z == {f \in File : From[f] = n /\ Offered(n, f)'}
<1>1. S \subseteq Z
  BY OfferedKept DEF TypeInv
<1>2. IsFiniteSet(Z) /\ Cardinality(S) \in Nat /\ Cardinality(Z) \in Nat
  BY Ids
<1>3. Cardinality(S) <= Cardinality(Z)
  <2> HIDE DEF S, Z
  <2> QED BY <1>1, <1>2, FS_Subset
<1>4. nextId[n] <= 1 + Cardinality(S) /\ nextId[n] \in Nat
  BY DEF TypeInv, TypeOK, IdsCounted
<1> HIDE DEF S
<1> QED BY <1>2, <1>3, <1>4

LEMMA Told ==
  ASSUME TypeOK, NEW n \in User, NEW c \in User, NEW g \in Chat, Kept(gui[n][c], g), Tell(n, c, g)
  PROVE  GuiKept
<1>1. /\ gui' \in [User -> [User -> Chat]]
      /\ \A a, b \in User : gui'[a][b] = IF a = n /\ b = c THEN g ELSE gui[a][b]
  BY DEF TypeOK, Tell
<1>2. \A a, b \in User : Kept(gui[a][b], gui[a][b])
  BY ChatFields DEF Kept, TypeOK
<1> QED BY <1>1, <1>2 DEF GuiKept

LEMMA Untold ==
  ASSUME TypeOK, gui' = gui
  PROVE  GuiKept
<1>1. \A a, b \in User : Kept(gui[a][b], gui[a][b])
  BY ChatFields DEF Kept, TypeOK
<1> QED BY <1>1 DEF GuiKept, TypeOK

LEMMA ShownChat ==
  ASSUME TypeOK, NEW n \in User, NEW c \in User
  PROVE  /\ gui[n][c] \in Chat /\ Kept(gui[n][c], gui[n][c])
         /\ \A i \in DOMAIN gui[n][c].cards :
              /\ gui[n][c].cards[i] \in Card
              /\ gui[n][c].cards[i].id \in TransferId /\ gui[n][c].cards[i].file \in File
<1>1. gui[n][c] \in Chat
  BY DEF TypeOK
<1> QED BY <1>1, ChatFields DEF Kept, Card

----------------------------------------------------------------------------
(* Entries, packets and threads *)

Tables == [User -> [User -> [TransferId -> Entry]]]

LEMMA BlankEntry ==
  /\ NoEntry \in Entry /\ NoEntry.st = "none" /\ NoEntry.got = Blank
  /\ \A st \in {"hashing", "offered", "sending", "incoming", "receiving"}, f \in File :
       /\ EntryOf(st, f) \in Entry /\ EntryOf(st, f).st = st
       /\ EntryOf(st, f).file = f /\ EntryOf(st, f).got = Blank
<1>1. Blank \in [Chunk -> File \cup {NoFile}]
  BY DEF Blank
<1> QED BY <1>1 DEF NoEntry, EntryOf, Entry

LEMMA EntryFields ==
  ASSUME NEW e \in Entry
  PROVE  /\ e.st \in {"none", "hashing", "offered", "sending", "incoming", "receiving"}
         /\ e.got \in [Chunk -> File \cup {NoFile}]
         /\ e.st # "none" => e.file \in File
         /\ e.st # "none" => \A b \in BOOLEAN :
              LET d == [e EXCEPT !.told = b]
              IN  d \in Entry /\ d.st = e.st /\ d.file = e.file /\ d.got = e.got
<1>1. CASE e = NoEntry
  BY <1>1, BlankEntry DEF NoEntry, Blank
<1>2. CASE e # NoEntry
  BY <1>2 DEF Entry
<1> QED BY <1>1, <1>2

LEMMA PutOne ==
  ASSUME table \in Tables, NEW n \in User, NEW c \in User, NEW t \in TransferId, NEW e \in Entry,
         Put(n, c, t, e)
  PROVE  /\ table' \in Tables
         /\ \A a, b \in User, s \in TransferId :
              table'[a][b][s] = IF a = n /\ b = c /\ s = t THEN e ELSE table[a][b][s]
BY DEF Put, Tables

LEMMA PacketFields ==
  ASSUME NEW p \in Packet
  PROVE  /\ p.from \in User /\ p.to \in User /\ p.link \in Nat /\ p.id \in TransferId
         /\ p.type \in {"OFFER", "ACCEPT", "REJECT", "CANCEL", "COMPLETE", "ACK", "CHUNK", "NACK"}
         /\ p.type \in {"OFFER", "CHUNK"} => p.file \in File
         /\ p.type = "CHUNK" => p.index \in Chunk
         /\ p.type = "NACK" => p.missing \in SUBSET Chunk
BY DEF Packet

LEMMA SignalFields ==
  ASSUME TypeOK, NEW n \in User, NEW c \in User, NEW t \in TransferId,
         NEW type \in {"ACCEPT", "REJECT", "CANCEL", "COMPLETE", "ACK"}
  PROVE  LET p == Signal(n, c, type, t)
         IN  /\ p \in Packet /\ p.type = type /\ p.from = n /\ p.to = c /\ p.id = t
             /\ p.link = link[n][c]
<1>1. link[n][c] \in Nat
  BY DEF TypeOK
<1> QED BY <1>1 DEF Signal, Packet

LEMMA NackFields ==
  ASSUME TypeOK, NEW n \in User, NEW c \in User, NEW t \in TransferId, NEW m \in SUBSET Chunk,
         NEW p \in Nacks(n, c, t, m)
  PROVE  p \in Packet /\ p.type = "NACK" /\ p.link = link[n][c]
<1>1. link[n][c] \in Nat
  BY DEF TypeOK
<1>2. PICK x \in Parts(m) : p = [type |-> "NACK", from |-> n, to |-> c, link |-> link[n][c],
                                 id |-> t, missing |-> x]
  BY DEF Nacks
<1>3. x \in SUBSET Chunk
  BY <1>2 DEF Parts
<1> QED BY <1>1, <1>2, <1>3 DEF Packet

LEMMA CommandTypes ==
  /\ CancelCmd \in Command /\ AckCmd \in Command /\ CancelCmd # AckCmd
  /\ \A m \in SUBSET Chunk : NackCmd(m) \in Command /\ NackCmd(m) # AckCmd
<1>1. CancelCmd # AckCmd
  <2>1. CancelCmd.type # AckCmd.type
    BY DEF CancelCmd, AckCmd
  <2> QED BY <2>1
<1>2. ASSUME NEW m \in SUBSET Chunk
      PROVE  NackCmd(m) \in Command /\ NackCmd(m) # AckCmd
  <2>1. NackCmd(m).type # AckCmd.type
    BY DEF NackCmd, AckCmd
  <2> QED BY <2>1 DEF NackCmd, Command
<1> QED BY <1>1, <1>2 DEF CancelCmd, AckCmd, Command

\* The daemon has told the thread that its file arrived.
AckIn(q) == \E i \in DOMAIN q : q[i] = AckCmd

LEMMA Appended ==
  ASSUME NEW h \in Thread, NEW x \in Command
  PROVE  LET d == [h EXCEPT !.cmds = Append(@, x)]
         IN  /\ d \in Thread /\ d.st = h.st /\ d.id = h.id /\ d.link = h.link
             /\ AckIn(d.cmds) => AckIn(h.cmds) \/ x = AckCmd
<1> DEFINE q == h.cmds
           d == [h EXCEPT !.cmds = Append(@, x)]
<1>1. q \in Seq(Command) /\ Len(q) \in Nat /\ DOMAIN q = 1..Len(q)
  BY LenProperties DEF Thread
<1>2. Append(q, x) \in Seq(Command)
  BY <1>1
<1>3. d \in Thread /\ d.st = h.st /\ d.id = h.id /\ d.link = h.link /\ d.cmds = Append(q, x)
  BY <1>2 DEF Thread
<1>4. AckIn(Append(q, x)) => AckIn(q) \/ x = AckCmd
  BY <1>1 DEF AckIn
<1> QED BY <1>3, <1>4

LEMMA OrderedOne ==
  ASSUME thread \in [File -> Thread], NEW e \in Entry, NEW x \in Command,
         thread' = Ordered(thread, e, x)
  PROVE  /\ thread' \in [File -> Thread]
         /\ \A f \in File :
              /\ thread'[f].st = thread[f].st /\ thread'[f].id = thread[f].id
              /\ thread'[f].link = thread[f].link
              /\ AckIn(thread'[f].cmds) =>
                   AckIn(thread[f].cmds) \/ (x = AckCmd /\ e.st = "sending" /\ e.file = f)
<1>1. CASE e.st = "sending" /\ thread[e.file].st # "none"
  <2>1. thread' = [thread EXCEPT ![e.file].cmds = Append(@, x)]
    BY <1>1 DEF Ordered
  <2>2. \A f \in File : thread'[f] = IF f = e.file THEN [thread[f] EXCEPT !.cmds = Append(@, x)]
                                     ELSE thread[f]
    BY <2>1
  <2>3. thread' = [f \in File |-> thread'[f]]
    BY <2>1
  <2>4. ASSUME NEW f \in File
        PROVE  /\ thread'[f] \in Thread
               /\ thread'[f].st = thread[f].st /\ thread'[f].id = thread[f].id
               /\ thread'[f].link = thread[f].link
               /\ AckIn(thread'[f].cmds) =>
                    AckIn(thread[f].cmds) \/ (x = AckCmd /\ e.st = "sending" /\ e.file = f)
    <3>1. CASE f = e.file
      <4>1. thread'[f] = [thread[f] EXCEPT !.cmds = Append(@, x)] /\ thread[f] \in Thread
        BY <2>2, <3>1
      <4> QED BY <1>1, <3>1, <4>1, Appended
    <3>2. CASE f # e.file
      BY <2>2, <3>2
    <3> QED BY <3>1, <3>2
  <2> QED BY <2>3, <2>4
<1>2. CASE ~(e.st = "sending" /\ thread[e.file].st # "none")
  BY <1>2 DEF Ordered
<1> QED BY <1>1, <1>2

(* A card, a packet and a job lead to entries and chats that are there. *)
LEMMA EntryThere ==
  ASSUME TypeOK, NEW n \in User, NEW c \in User, NEW t \in TransferId
  PROVE  table[n][c][t] \in Entry /\ table \in Tables
BY DEF TypeOK, Tables

LEMMA JobFields ==
  ASSUME TypeOK, NEW n \in User, NEW j \in jobs[n]
  PROVE  /\ j \in Work /\ j.with \in User /\ j.id \in TransferId /\ j.file \in File
         /\ j.type \in {"hash", "verify", "allSent", "done", "progress"}
         /\ jobs \in [User -> SUBSET Work]
BY DEF TypeOK, Work

----------------------------------------------------------------------------
(* What a process calls its transfers *)

\* The entries of what n offers, from the hashing on.
Own(n, c, t) == table[n][c][t].st \in {"hashing", "offered", "sending"}
Alive(x) == thread[x].st # "none"

\* n's process has given the id t to file f: its table, a sender thread, a hashing
\* or a chunk in a session that n still has says so.
Named(n, t, f) ==
  \/ \E c \in User : Own(n, c, t) /\ table[n][c][t].file = f
  \/ f \in File /\ From[f] = n /\ Alive(f) /\ thread[f].id = t
  \/ \E j \in jobs[n] : j.type = "hash" /\ j.id = t /\ j.file = f
  \/ \E p \in net : /\ p.type = "CHUNK" /\ p.from = n /\ p.link = link[n][p.to]
                    /\ p.id = t /\ p.file = f

\* No id is given twice by one process.
NamesOK ==
  \A n \in User, t \in TransferId, f \in File :
    Named(n, t, f) => t < nextId[n] /\ \A g \in File : Named(n, t, g) => g = f

\* What a user offers is a file of its own, to the user who is offered it.
Offering ==
  /\ \A n, c \in User, t \in TransferId :
       Own(n, c, t) => LET f == table[n][c][t].file IN f \in File /\ From[f] = n /\ To[f] = c
  /\ \A n \in User : \A j \in jobs[n] :
       j.type = "hash" => From[j.file] = n /\ To[j.file] = j.with

\* A session is numbered when both ends get it, and lost by each for itself.
LinksOK ==
  /\ \A n, c \in User : link[n][c] = link[c][n] \/ link[n][c] = 0 \/ link[c][n] = 0
  /\ \A p \in net : p.link \in 1..links
  /\ \A x \in File : Alive(x) => thread[x].link \in 1..links

----------------------------------------------------------------------------
(* Whose chunks are in a file *)

\* The files of which c holds chunks under the id t of n.
Got(c, n, t) == {f \in File : \E i \in Chunk : table[c][n][t].got[i] = f}
Readable(p) == p.link = link[p.to][p.from]

ChunksAgree ==
  \A p, q \in net :
    /\ p.type = "CHUNK" /\ q.type = "CHUNK"
    /\ p.from = q.from /\ p.to = q.to /\ p.id = q.id /\ p.link = q.link
    => p.file = q.file
ThreadsAgree ==
  \A x \in File : Alive(x) => \A p \in net :
    /\ p.type = "CHUNK" /\ p.from = From[x] /\ p.to = To[x]
    /\ p.id = thread[x].id /\ p.link = thread[x].link
    => p.file = x

\* Chunks that can be read, or that a thread may still send, are of the file that
\* the receiver has chunks of.
ReadableFits ==
  \A p \in net : p.type = "CHUNK" /\ Readable(p) => Got(p.to, p.from, p.id) \subseteq {p.file}
ThreadFits ==
  \A x \in File : Alive(x) /\ thread[x].link = link[To[x]][From[x]] =>
    Got(To[x], From[x], thread[x].id) \subseteq {x}

\* An acceptance that can be read was sent for an empty file; what has come since
\* is of the file that the sender gave that id to.
AcceptFits ==
  \A p \in net : p.type = "ACCEPT" /\ Readable(p) =>
    \A f \in Got(p.from, p.to, p.id) :
      p.id < nextId[p.to] /\ \A g \in File : Named(p.to, p.id, g) => g = f

SendingFits ==
  \A n, c \in User, t \in TransferId : table[n][c][t].st = "sending" =>
    /\ Got(c, n, t) \subseteq {table[n][c][t].file}
    /\ \A p \in net : /\ p.type = "CHUNK" /\ p.from = n /\ p.to = c /\ p.id = t /\ Readable(p)
                      => p.file = table[n][c][t].file

OneFile == \A n, c \in User, t \in TransferId : \A f, g \in Got(c, n, t) : f = g

----------------------------------------------------------------------------
(* What an acknowledgement is for *)

\* n has begun to send what it calls t to c, and will not begin again.
Begun(n, c, t) == t < nextId[n] /\ table[n][c][t].st \notin {"hashing", "offered"}
CompletesBegun ==
  \A p \in net : p.type = "COMPLETE" /\ p.link = link[p.from][p.to] => Begun(p.from, p.to, p.id)
AcksEarned ==
  \A p \in net : p.type = "ACK" /\ Readable(p) =>
    /\ Begun(p.to, p.from, p.id)
    /\ table[p.to][p.from][p.id].st = "sending" => table[p.to][p.from][p.id].file \in whole

PartsInv ==
  /\ NamesOK /\ Offering /\ LinksOK /\ ChunksAgree /\ ThreadsAgree
  /\ ReadableFits /\ ThreadFits /\ AcceptFits /\ SendingFits /\ OneFile
AckInv == PartsInv /\ CompletesBegun /\ AcksEarned /\ AckMeansWhole

Inv == TypeInv /\ AckInv

----------------------------------------------------------------------------
(* Quiet steps: no id is given, no chunk is sent or kept, nobody begins to *)
(* send or has received a file.                                            *)

EntryKept(e, d) ==
  /\ d.got = e.got \/ d.got = Blank
  /\ d.st \in {"hashing", "offered", "sending"} =>
       /\ e.st \in {"hashing", "offered", "sending"} /\ d.file = e.file
       /\ d.st = "sending" <=> e.st = "sending"
TablesStep ==
  /\ table' \in Tables
  /\ \A n, c \in User, t \in TransferId : EntryKept(table[n][c][t], table'[n][c][t])
ThreadsStep ==
  /\ thread' \in [File -> Thread]
  /\ \A x \in File :
       /\ thread'[x].st # "none" => Alive(x) /\ thread'[x].id = thread[x].id /\ thread'[x].link = thread[x].link
       /\ AckIn(thread'[x].cmds) => AckIn(thread[x].cmds) \/ x \in whole'
JobsStep ==
  /\ jobs' \in [User -> SUBSET Work]
  /\ \A n \in User : \A j \in jobs'[n] \ jobs[n] :
       j.type # "hash" /\ (j.type = "done" => AckIn(thread[j.file].cmds))
NewPacket(p) ==
  /\ p \in Packet /\ p.type \notin {"CHUNK", "ACK"} /\ p.link \in 1..links
  /\ p.type = "ACCEPT" => table'[p.from][p.to][p.id].got = Blank
  /\ p.type = "COMPLETE" => table'[p.from][p.to][p.id].st = "sending"
NetStep == \A p \in net' : p \in net \/ NewPacket(p)
HistoryStep == accepted' \subseteq File /\ whole' \subseteq File /\ whole \subseteq whole'
\* A session is kept, is lost, or is new at both ends.
LinksStep ==
  /\ links' \in links..MaxLink
  /\ lent' \in SUBSET User /\ link' \in [User -> [User -> 0..links']]
  /\ restarts' \in 0..MaxRestarts /\ calls' \in 0..MaxCalls
  /\ \A n, c \in User :
       \/ link'[n][c] \in {link[n][c], 0}
       \/ link'[n][c] > links /\ link'[c][n] = link'[n][c]
\* A process goes on with its ids, or is a new one.
Renewed(n) ==
  /\ nextId'[n] = 1
  /\ \A c \in User : link'[n][c] = 0 /\ \A t \in TransferId : table'[n][c][t] = NoEntry
  /\ jobs'[n] = {}
  /\ \A x \in File : From[x] = n => thread'[x].st = "none"
IdsStep ==
  /\ nextId' \in [User -> Nat \ {0}]
  /\ \A n \in User : nextId'[n] = nextId[n] \/ Renewed(n)
QuietStep ==
  /\ TablesStep /\ ThreadsStep /\ JobsStep /\ NetStep /\ GuiKept /\ HistoryStep
  /\ LinksStep /\ IdsStep

LEMMA Same ==
  ASSUME TypeOK
  PROVE  /\ UNCHANGED table => TablesStep
         /\ UNCHANGED thread => ThreadsStep
         /\ UNCHANGED jobs => JobsStep
         /\ net' \subseteq net => NetStep
         /\ UNCHANGED gui => GuiKept
         /\ UNCHANGED history => HistoryStep
         /\ UNCHANGED linkVars => LinksStep
         /\ UNCHANGED nextId => IdsStep
<1>1. UNCHANGED table => TablesStep
  BY DEF TypeOK, Tables, TablesStep, EntryKept
<1>2. UNCHANGED thread => ThreadsStep
  BY DEF TypeOK, ThreadsStep, Alive
<1>3. UNCHANGED jobs => JobsStep
  BY DEF TypeOK, JobsStep
<1>4. UNCHANGED linkVars => LinksStep
  BY FileTransferAssumption DEF TypeOK, LinksStep, linkVars
<1>5. UNCHANGED nextId => IdsStep
  BY DEF TypeOK, IdsStep
<1> QED BY <1>1, <1>2, <1>3, <1>4, <1>5, Untold DEF NetStep, HistoryStep, history, TypeOK

LEMMA PutStep ==
  ASSUME TypeOK, NEW n \in User, NEW c \in User, NEW t \in TransferId, NEW e \in Entry,
         EntryKept(table[n][c][t], e), Put(n, c, t, e)
  PROVE  TablesStep /\ table'[n][c][t] = e
<1>1. /\ table' \in Tables
      /\ \A a, b \in User, s \in TransferId :
           table'[a][b][s] = IF a = n /\ b = c /\ s = t THEN e ELSE table[a][b][s]
  BY PutOne, EntryThere
<1>2. \A a, b \in User, s \in TransferId : EntryKept(table[a][b][s], table[a][b][s])
  BY DEF EntryKept
<1> QED BY <1>1, <1>2 DEF TablesStep

(* An entry leaves the table, or is one of a file that is received. *)
LEMMA ClearStep ==
  ASSUME TypeOK, NEW n \in User, NEW c \in User, NEW t \in TransferId, Clear(n, c, t)
  PROVE  TablesStep
<1>1. NoEntry \in Entry /\ EntryKept(table[n][c][t], NoEntry)
  BY BlankEntry DEF EntryKept
<1> QED BY <1>1, PutStep DEF Clear

LEMMA IncomingStep ==
  ASSUME TypeOK, NEW n \in User, NEW c \in User, NEW t \in TransferId,
         NEW st \in {"incoming", "receiving"}, NEW f \in File,
         Put(n, c, t, EntryOf(st, f))
  PROVE  TablesStep /\ table'[n][c][t].got = Blank
<1>1. EntryOf(st, f) \in Entry /\ EntryOf(st, f).st = st /\ EntryOf(st, f).got = Blank
  BY BlankEntry
<1>2. EntryKept(table[n][c][t], EntryOf(st, f))
  BY <1>1 DEF EntryKept
<1> QED BY <1>1, <1>2, PutStep

LEMMA SignalStep ==
  ASSUME TypeOK, NEW n \in User, NEW c \in User, NEW t \in TransferId,
         NEW type \in {"ACCEPT", "REJECT", "CANCEL", "COMPLETE"},
         Send(n, c, {Signal(n, c, type, t)}),
         type = "ACCEPT" => table'[n][c][t].got = Blank,
         type = "COMPLETE" => table'[n][c][t].st = "sending"
  PROVE  NetStep
<1> DEFINE p == Signal(n, c, type, t)
<1>1. /\ p \in Packet /\ p.type = type /\ p.from = n /\ p.to = c /\ p.id = t /\ p.link = link[n][c]
  BY SignalFields
<1>2. link[n][c] \in 0..links /\ links \in Nat
  BY FileTransferAssumption DEF TypeOK
<1>3. link[n][c] # 0 => NewPacket(p)
  <2> HIDE DEF p
  <2> QED BY <1>1, <1>2 DEF NewPacket
<1>4. \A x \in net' : x \in net \/ (x = p /\ link[n][c] # 0)
  BY DEF Send, Outgoing
<1> QED BY <1>3, <1>4 DEF NetStep

LEMMA OrderedStep ==
  ASSUME TypeOK, NEW e \in Entry, NEW x \in Command, thread' = Ordered(thread, e, x),
         x = AckCmd /\ e.st = "sending" => e.file \in whole'
  PROVE  ThreadsStep
<1>1. thread \in [File -> Thread]
  BY DEF TypeOK
<1> QED BY <1>1, OrderedOne DEF ThreadsStep, Alive

LEMMA DoneStep ==
  ASSUME TypeOK, NEW n \in User, NEW j \in jobs[n], Done(n, j)
  PROVE  JobsStep
BY DEF TypeOK, Done, JobsStep

LEMMA EndedStep ==
  ASSUME TypeOK, NEW n \in User, NEW c \in User, NEW t \in TransferId,
         NEW st \in CardState, Tell(n, c, Ended(gui[n][c], t, st))
  PROVE  GuiKept
BY ShownChat, EndedKept, Told

LEMMA MovingStep ==
  ASSUME TypeOK, NEW n \in User, NEW c \in User, NEW t \in TransferId, Tell(n, c, Moving(gui[n][c], t))
  PROVE  GuiKept
BY ShownChat, MovingKept, Told


LEMMA QuietTypes ==
  ASSUME TypeInv, QuietStep
  PROVE  TypeInv'
<1>1. TypeOK'
  <2>1. \A p \in net' : p \in Packet
    BY DEF QuietStep, NetStep, NewPacket, TypeInv, TypeOK
  <2>2. links' \in 0..MaxLink
    BY FileTransferAssumption DEF QuietStep, LinksStep, TypeInv, TypeOK
  <2> QED BY <2>1, <2>2 DEF QuietStep, TablesStep, Tables, ThreadsStep, JobsStep, GuiKept,
             HistoryStep, LinksStep, IdsStep, TypeOK
<1>2. IdsCounted'
  <2> SUFFICES ASSUME NEW n \in User
               PROVE  nextId'[n] <= 1 + Cardinality({f \in File : From[f] = n /\ Offered(n, f)'})
    BY DEF IdsCounted
  <2>1. CASE nextId'[n] = nextId[n]
    BY <2>1, IdsCountedKept DEF QuietStep
  <2>2. CASE nextId'[n] = 1
    <3> DEFINE Z == {f \in File : From[f] = n /\ Offered(n, f)'}
    <3>1. Cardinality(Z) \in Nat
      BY Ids
    <3>2. nextId'[n] <= 1 + Cardinality(Z)
      <4> HIDE DEF Z
      <4> QED BY <2>2, <3>1
    <3> QED BY <3>2
  <2> QED BY <2>1, <2>2 DEF QuietStep, IdsStep, Renewed
<1> QED BY <1>1, <1>2 DEF TypeInv

(* In a quiet step nobody has more chunks of anything, and every packet with *)
(* chunks, a final ACK or an acceptance that matters was there before.       *)
LEMMA QuietFacts ==
  ASSUME TypeInv, LinksOK, QuietStep
  PROVE  /\ \A n, c \in User, t \in TransferId : Got(n, c, t)' \subseteq Got(n, c, t)
         /\ \A n, c \in User, t \in TransferId :
              Own(n, c, t)' => Own(n, c, t) /\ table'[n][c][t].file = table[n][c][t].file
         /\ \A p \in net' : p \in Packet /\ p.link \in 1..links
         /\ \A p \in net', n, c \in User : p.link = link'[n][c] => p.link = link[n][c]
         /\ \A n \in User, t \in TransferId, f \in File :
              Named(n, t, f)' => Named(n, t, f) /\ nextId'[n] = nextId[n]
         /\ \A n, c \in User :
              nextId'[n] = nextId[n] \/ (link'[n][c] = 0 /\ \A t \in TransferId : table'[n][c][t].st = "none")
<1>1. ASSUME NEW n \in User, NEW c \in User, NEW t \in TransferId
      PROVE  Got(n, c, t)' \subseteq Got(n, c, t)
  <2>1. \A i \in Chunk : Blank[i] \notin File
    BY FileTransferAssumption DEF Blank
  <2> QED BY <2>1 DEF QuietStep, TablesStep, EntryKept, Got
<1>2. ASSUME NEW n \in User, NEW c \in User, NEW t \in TransferId, Own(n, c, t)'
      PROVE  Own(n, c, t) /\ table'[n][c][t].file = table[n][c][t].file
  BY <1>2 DEF Own, QuietStep, TablesStep, EntryKept
<1>3. \A p \in net' : p \in Packet /\ p.link \in 1..links
  BY DEF QuietStep, NetStep, NewPacket, TypeInv, TypeOK, LinksOK
<1>4. ASSUME NEW p \in net', NEW n \in User, NEW c \in User, p.link = link'[n][c]
      PROVE  p.link = link[n][c]
  <2>1. p.link \in 1..links /\ links \in Nat
    BY <1>3, FileTransferAssumption DEF TypeInv, TypeOK
  <2>2. link'[n][c] \in {link[n][c], 0} \/ link'[n][c] > links
    BY DEF QuietStep, LinksStep
  <2> QED BY <1>4, <2>1, <2>2
<1>5. ASSUME NEW n \in User, NEW t \in TransferId, NEW f \in File, Named(n, t, f)'
      PROVE  Named(n, t, f) /\ ~Renewed(n)
  <2>1. CASE \E c \in User : Own(n, c, t)' /\ table'[n][c][t].file = f
    BY <1>2, <2>1, BlankEntry DEF Named, Renewed, Own
  <2>2. CASE From[f] = n /\ thread'[f].st # "none" /\ thread'[f].id = t
    BY <2>2 DEF Named, QuietStep, ThreadsStep, Alive, Renewed
  <2>3. CASE \E j \in jobs'[n] : j.type = "hash" /\ j.id = t /\ j.file = f
    BY <2>3 DEF Named, QuietStep, JobsStep, Renewed
  <2>4. CASE \E p \in net' : /\ p.type = "CHUNK" /\ p.from = n /\ p.link = link'[n][p.to]
                             /\ p.id = t /\ p.file = f
    <3>1. PICK p \in net' : /\ p.type = "CHUNK" /\ p.from = n /\ p.link = link'[n][p.to]
                            /\ p.id = t /\ p.file = f
      BY <2>4
    <3>2. p \in net
      BY <3>1 DEF QuietStep, NetStep, NewPacket
    <3>3. p.to \in User /\ p.link # 0
      BY <1>3, PacketFields
    <3> QED BY <1>4, <3>1, <3>2, <3>3 DEF Named, Renewed
  <2> QED BY <1>5, <2>1, <2>2, <2>3, <2>4 DEF Named, Own, Alive
<1>6. \A n \in User : nextId'[n] = nextId[n] \/ Renewed(n)
  BY DEF QuietStep, IdsStep
<1>7. \A n, c \in User :
        nextId'[n] = nextId[n] \/ (link'[n][c] = 0 /\ \A t \in TransferId : table'[n][c][t].st = "none")
  BY <1>6, BlankEntry DEF Renewed
<1> QED BY <1>1, <1>2, <1>3, <1>4, <1>5, <1>6, <1>7

LEMMA QuietParts ==
  ASSUME TypeInv, PartsInv, QuietStep
  PROVE  PartsInv'
<1>1. LinksOK
  BY DEF PartsInv
<1>2. /\ \A n, c \in User, t \in TransferId : Got(n, c, t)' \subseteq Got(n, c, t)
      /\ \A n, c \in User, t \in TransferId :
           Own(n, c, t)' => Own(n, c, t) /\ table'[n][c][t].file = table[n][c][t].file
      /\ \A p \in net' : p \in Packet /\ p.link \in 1..links
      /\ \A p \in net', n, c \in User : p.link = link'[n][c] => p.link = link[n][c]
      /\ \A n \in User, t \in TransferId, f \in File :
           Named(n, t, f)' => Named(n, t, f) /\ nextId'[n] = nextId[n]
      /\ \A n, c \in User :
           nextId'[n] = nextId[n] \/ (link'[n][c] = 0 /\ \A t \in TransferId : table'[n][c][t].st = "none")
  BY <1>1, QuietFacts
<1>3. \A p \in net' : p.type \in {"CHUNK", "ACK"} => p \in net
  BY DEF QuietStep, NetStep, NewPacket
<1>4. \A p \in net' : p.from \in User /\ p.to \in User /\ p.id \in TransferId
  BY <1>2, PacketFields
<1>5. \A x \in File : Alive(x)' => Alive(x) /\ thread'[x].id = thread[x].id /\ thread'[x].link = thread[x].link
  BY DEF QuietStep, ThreadsStep, Alive
<1>6. /\ \A x \in File : From[x] \in User /\ To[x] \in User
      /\ \A x \in File : thread[x].id \in TransferId
  BY FileTransferAssumption DEF TypeInv, TypeOK, Thread
<1>7. NamesOK'
  BY <1>2 DEF PartsInv, NamesOK
<1>8. Offering'
  <2>1. \A n \in User : \A j \in jobs'[n] : j.type = "hash" => j \in jobs[n]
    BY DEF QuietStep, JobsStep
  <2> QED BY <1>2, <2>1 DEF PartsInv, Offering
<1>9. LinksOK'
  <2>1. /\ links \in Nat /\ links' \in Nat /\ links <= links'
        /\ \A n, c \in User :
             \/ link'[n][c] \in {link[n][c], 0}
             \/ link'[n][c] > links /\ link'[c][n] = link'[n][c]
    BY FileTransferAssumption DEF QuietStep, LinksStep, TypeInv, TypeOK
  <2>2. \A n, c \in User : link'[n][c] = link'[c][n] \/ link'[n][c] = 0 \/ link'[c][n] = 0
    BY <1>1, <2>1 DEF LinksOK
  <2>3. \A x \in File : Alive(x)' => thread'[x].link \in 1..links
    BY <1>1, <1>5 DEF LinksOK
  <2> QED BY <1>2, <2>1, <2>2, <2>3 DEF LinksOK
<1>10. ChunksAgree' /\ ThreadsAgree'
  BY <1>3, <1>5 DEF PartsInv, ChunksAgree, ThreadsAgree
<1>11. ReadableFits'
  <2> SUFFICES ASSUME NEW p \in net', p.type = "CHUNK", p.link = link'[p.to][p.from]
               PROVE  Got(p.to, p.from, p.id)' \subseteq {p.file}
    BY DEF ReadableFits, Readable
  <2>1. p \in net /\ Readable(p)
    BY <1>2, <1>3, <1>4 DEF Readable
  <2> QED BY <1>2, <1>4, <2>1 DEF PartsInv, ReadableFits
<1>12. ThreadFits'
  <2> SUFFICES ASSUME NEW x \in File, Alive(x)', thread'[x].link = link'[To[x]][From[x]],
                      NEW t \in TransferId, t = thread'[x].id
               PROVE  Got(To[x], From[x], t)' \subseteq {x}
    BY <1>5, <1>6 DEF ThreadFits, Got
  <2>1. thread[x].link = link[To[x]][From[x]]
    <3>1. thread[x].link \in 1..links
      BY <1>1, <1>5 DEF LinksOK
    <3>2. links \in Nat
      BY FileTransferAssumption DEF TypeInv, TypeOK
    <3> QED BY <1>5, <1>6, <3>1, <3>2 DEF QuietStep, LinksStep
  <2>2. Got(To[x], From[x], t) \subseteq {x}
    BY <1>5, <2>1 DEF PartsInv, ThreadFits
  <2> QED BY <1>2, <1>6, <2>2
<1>13. AcceptFits'
  <2> SUFFICES ASSUME NEW p \in net', p.type = "ACCEPT", p.link = link'[p.to][p.from],
                      NEW f \in File, f \in Got(p.from, p.to, p.id)'
               PROVE  p.id < nextId'[p.to] /\ \A g \in File : Named(p.to, p.id, g)' => g = f
    BY DEF AcceptFits, Readable, Got
  <2>1. p \in net
    <3>1. \A i \in Chunk : Blank[i] \notin File
      BY FileTransferAssumption DEF Blank
    <3> QED BY <1>4, <3>1 DEF Got, QuietStep, NetStep, NewPacket
  <2>2. Readable(p) /\ f \in Got(p.from, p.to, p.id)
    BY <1>2, <1>4 DEF Readable
  <2>3. nextId'[p.to] = nextId[p.to]
    <3>1. p.link # 0
      BY <1>2
    <3> QED BY <1>2, <1>4, <3>1
  <2> QED BY <1>2, <1>4, <2>1, <2>2, <2>3 DEF PartsInv, AcceptFits
<1>14. SendingFits'
  <2> SUFFICES ASSUME NEW n \in User, NEW c \in User, NEW t \in TransferId,
                      table'[n][c][t].st = "sending"
               PROVE  /\ Got(c, n, t)' \subseteq {table'[n][c][t].file}
                      /\ \A p \in net' :
                           /\ p.type = "CHUNK" /\ p.from = n /\ p.to = c /\ p.id = t
                           /\ p.link = link'[p.to][p.from]
                           => p.file = table'[n][c][t].file
    BY DEF SendingFits, Readable
  <2>1. table[n][c][t].st = "sending" /\ table'[n][c][t].file = table[n][c][t].file
    BY DEF QuietStep, TablesStep, EntryKept
  <2>2. \A p \in net' : p.type = "CHUNK" /\ p.link = link'[p.to][p.from] => p \in net /\ Readable(p)
    BY <1>2, <1>3, <1>4 DEF Readable
  <2> QED BY <1>2, <2>1, <2>2 DEF PartsInv, SendingFits
<1>15. OneFile'
  BY <1>2 DEF PartsInv, OneFile
<1> QED BY <1>7, <1>8, <1>9, <1>10, <1>11, <1>12, <1>13, <1>14, <1>15 DEF PartsInv

LEMMA QuietAck ==
  ASSUME TypeInv, AckInv, QuietStep
  PROVE  CompletesBegun' /\ AcksEarned' /\ AckMeansWhole'
<1>1. LinksOK
  BY DEF AckInv, PartsInv
<1>2. /\ \A p \in net' : p \in Packet /\ p.link \in 1..links
      /\ \A p \in net', n, c \in User : p.link = link'[n][c] => p.link = link[n][c]
      /\ \A n, c \in User :
           nextId'[n] = nextId[n] \/ (link'[n][c] = 0 /\ \A t \in TransferId : table'[n][c][t].st = "none")
  BY <1>1, QuietFacts
<1>3. \A p \in net' : p.from \in User /\ p.to \in User /\ p.id \in TransferId
  BY <1>2, PacketFields
<1>4. ASSUME NEW n \in User, NEW c \in User, NEW t \in TransferId, Begun(n, c, t), link'[n][c] # 0
      PROVE  Begun(n, c, t)'
  BY <1>2, <1>4 DEF Begun, QuietStep, TablesStep, EntryKept
<1>5. CompletesBegun'
  <2> SUFFICES ASSUME NEW p \in net', p.type = "COMPLETE", p.link = link'[p.from][p.to]
               PROVE  Begun(p.from, p.to, p.id)'
    BY DEF CompletesBegun
  <2>1. CASE p \in net
    <3>1. p.link = link[p.from][p.to] /\ link'[p.from][p.to] # 0
      BY <1>2, <1>3
    <3> QED BY <1>3, <1>4, <2>1, <3>1 DEF AckInv, CompletesBegun
  <2>2. CASE p \notin net
    <3>1. table'[p.from][p.to][p.id].st = "sending"
      BY <2>2 DEF QuietStep, NetStep, NewPacket
    <3>2. Own(p.from, p.to, p.id) /\ table[p.from][p.to][p.id].file \in File
      BY <1>3, <3>1 DEF QuietStep, TablesStep, EntryKept, Own, AckInv, PartsInv, Offering
    <3>3. p.id < nextId[p.from]
      BY <1>3, <3>2 DEF Named, NamesOK, AckInv, PartsInv
    <3>4. nextId'[p.from] = nextId[p.from]
      BY <1>2, <1>3, <3>1
    <3> QED BY <3>1, <3>3, <3>4 DEF Begun
  <2> QED BY <2>1, <2>2
<1>6. AcksEarned'
  <2> SUFFICES ASSUME NEW p \in net', p.type = "ACK", p.link = link'[p.to][p.from]
               PROVE  /\ Begun(p.to, p.from, p.id)'
                      /\ table'[p.to][p.from][p.id].st = "sending" =>
                           table'[p.to][p.from][p.id].file \in whole'
    BY DEF AcksEarned, Readable
  <2>1. p \in net /\ Readable(p)
    BY <1>2, <1>3 DEF QuietStep, NetStep, NewPacket, Readable
  <2>2. /\ Begun(p.to, p.from, p.id)
        /\ table[p.to][p.from][p.id].st = "sending" => table[p.to][p.from][p.id].file \in whole
    BY <2>1 DEF AckInv, AcksEarned
  <2>3. link'[p.to][p.from] # 0
    BY <1>2
  <2> QED BY <1>3, <1>4, <2>2, <2>3 DEF QuietStep, TablesStep, EntryKept, HistoryStep
<1>7. AckMeansWhole'
  <2> SUFFICES ASSUME NEW x \in File
               PROVE  /\ AckIn(thread'[x].cmds) => x \in whole'
                      /\ \A j \in jobs'[From[x]] : j.type = "done" /\ j.file = x => x \in whole'
    BY DEF AckMeansWhole, AckIn
  <2>1. AckIn(thread[x].cmds) => x \in whole
    BY DEF AckInv, AckMeansWhole, AckIn
  <2>2. AckIn(thread[x].cmds) => x \in whole'
    BY <2>1 DEF QuietStep, HistoryStep
  <2>3. AckIn(thread'[x].cmds) => x \in whole'
    BY <2>2 DEF QuietStep, ThreadsStep
  <2>4. ASSUME NEW j \in jobs'[From[x]], j.type = "done", j.file = x
        PROVE  x \in whole'
    <3>1. CASE j \in jobs[From[x]]
      BY <2>4, <3>1 DEF AckInv, AckMeansWhole, QuietStep, HistoryStep
    <3>2. CASE j \notin jobs[From[x]]
      BY <2>2, <2>4, <3>2, FileTransferAssumption DEF QuietStep, JobsStep
    <3> QED BY <3>1, <3>2
  <2> QED BY <2>3, <2>4
<1> QED BY <1>5, <1>6, <1>7

LEMMA QuietInv ==
  ASSUME Inv, QuietStep
  PROVE  Inv'
BY QuietTypes, QuietParts, QuietAck DEF Inv, AckInv


----------------------------------------------------------------------------
(* The user's answers and the packets that end a transfer or go on with it *)

LEMMA AcceptStep ==
  ASSUME TypeOK, NEW n \in User, AcceptFileTransfer(n)
  PROVE  QuietStep
<1>1. PICK c \in User : \E i \in DOMAIN gui[n][c].cards :
        LET k == gui[n][c].cards[i]
            e == table[n][c][k.id]
        IN  /\ Tell(n, c, Marked(gui[n][c], k.id, "Accepted"))
            /\ accepted' = accepted \cup {k.file}
            /\ IF e.st = "incoming"
               THEN /\ Put(n, c, k.id, EntryOf("receiving", e.file))
                    /\ Send(n, c, {Signal(n, c, "ACCEPT", k.id)})
               ELSE Clear(n, c, k.id) /\ UNCHANGED net
  BY DEF AcceptFileTransfer
<1>2. PICK i \in DOMAIN gui[n][c].cards :
        LET k == gui[n][c].cards[i]
            e == table[n][c][k.id]
        IN  /\ Tell(n, c, Marked(gui[n][c], k.id, "Accepted"))
            /\ accepted' = accepted \cup {k.file}
            /\ IF e.st = "incoming"
               THEN /\ Put(n, c, k.id, EntryOf("receiving", e.file))
                    /\ Send(n, c, {Signal(n, c, "ACCEPT", k.id)})
               ELSE Clear(n, c, k.id) /\ UNCHANGED net
  BY <1>1
<1> DEFINE t == gui[n][c].cards[i].id
<1>3. t \in TransferId /\ gui[n][c].cards[i].file \in File
  BY ShownChat
<1>4. GuiKept
  BY <1>2, <1>3, ShownChat, MarkedKept, Told DEF CardState
<1>5. TablesStep /\ NetStep
  <2>1. CASE table[n][c][t].st = "incoming"
    <3>1. table[n][c][t].file \in File
      BY <1>3, <2>1, EntryThere, EntryFields
    <3>2. /\ Put(n, c, t, EntryOf("receiving", table[n][c][t].file))
          /\ Send(n, c, {Signal(n, c, "ACCEPT", t)})
      BY <1>2, <2>1
    <3>3. TablesStep /\ table'[n][c][t].got = Blank
      BY <1>3, <3>1, <3>2, IncomingStep
    <3> QED BY <1>3, <3>2, <3>3, SignalStep
  <2>2. CASE table[n][c][t].st # "incoming"
    BY <1>2, <1>3, <2>2, ClearStep, Same
  <2> QED BY <2>1, <2>2
<1>6. HistoryStep
  BY <1>2, <1>3 DEF AcceptFileTransfer, HistoryStep, TypeOK
<1> QED BY <1>4, <1>5, <1>6, Same DEF AcceptFileTransfer, QuietStep

LEMMA RejectStep ==
  ASSUME TypeOK, NEW n \in User, RejectFileTransfer(n)
  PROVE  QuietStep
<1>1. PICK c \in User : \E i \in DOMAIN gui[n][c].cards :
        LET k == gui[n][c].cards[i]
        IN  /\ Tell(n, c, Marked(gui[n][c], k.id, "Rejected"))
            /\ Clear(n, c, k.id)
            /\ Send(n, c, IF table[n][c][k.id].st = "incoming"
                          THEN {Signal(n, c, "REJECT", k.id)} ELSE {})
  BY DEF RejectFileTransfer
<1>2. PICK i \in DOMAIN gui[n][c].cards :
        LET k == gui[n][c].cards[i]
        IN  /\ Tell(n, c, Marked(gui[n][c], k.id, "Rejected"))
            /\ Clear(n, c, k.id)
            /\ Send(n, c, IF table[n][c][k.id].st = "incoming"
                          THEN {Signal(n, c, "REJECT", k.id)} ELSE {})
  BY <1>1
<1> DEFINE t == gui[n][c].cards[i].id
<1>3. t \in TransferId
  BY ShownChat
<1>4. GuiKept
  BY <1>2, <1>3, ShownChat, MarkedKept, Told DEF CardState
<1>5. TablesStep
  BY <1>2, <1>3, ClearStep
<1>6. NetStep
  <2>1. CASE table[n][c][t].st = "incoming"
    <3>1. Send(n, c, {Signal(n, c, "REJECT", t)})
      BY <1>2, <2>1
    <3> QED BY <1>3, <3>1, SignalStep
  <2>2. CASE table[n][c][t].st # "incoming"
    <3>1. net' \subseteq net
      BY <1>2, <2>2 DEF Send, Outgoing
    <3> QED BY <3>1, Same
  <2> QED BY <2>1, <2>2
<1> QED BY <1>4, <1>5, <1>6, Same DEF RejectFileTransfer, QuietStep

LEMMA CancelStep ==
  ASSUME TypeOK, NEW n \in User, CancelFileTransfer(n)
  PROVE  QuietStep
<1>1. PICK c \in User : \E i \in DOMAIN gui[n][c].cards :
        LET k == gui[n][c].cards[i]
            e == table[n][c][k.id]
            g == [Marked(gui[n][c], k.id, "Cancelled") EXCEPT !.progress = @ \ {k.id}]
        IN  /\ Clear(n, c, k.id)
            /\ thread' = Ordered(thread, e, CancelCmd)
            /\ IF e.st = "none" THEN Tell(n, c, g) /\ UNCHANGED net
               ELSE /\ Tell(n, c, Ended(g, k.id, "Failed"))
                    /\ Send(n, c, {Signal(n, c, "CANCEL", k.id)})
  BY DEF CancelFileTransfer
<1>2. PICK i \in DOMAIN gui[n][c].cards :
        LET k == gui[n][c].cards[i]
            e == table[n][c][k.id]
            g == [Marked(gui[n][c], k.id, "Cancelled") EXCEPT !.progress = @ \ {k.id}]
        IN  /\ Clear(n, c, k.id)
            /\ thread' = Ordered(thread, e, CancelCmd)
            /\ IF e.st = "none" THEN Tell(n, c, g) /\ UNCHANGED net
               ELSE /\ Tell(n, c, Ended(g, k.id, "Failed"))
                    /\ Send(n, c, {Signal(n, c, "CANCEL", k.id)})
  BY <1>1
<1> DEFINE t == gui[n][c].cards[i].id
           e == table[n][c][t]
           g == Ended(gui[n][c], t, "Cancelled")
<1>3. t \in TransferId /\ e \in Entry
  BY ShownChat, EntryThere
<1>4. /\ g = [Marked(gui[n][c], t, "Cancelled") EXCEPT !.progress = @ \ {t}]
      /\ g \in Chat /\ Kept(gui[n][c], g) /\ gui[n][c] \in Chat
  BY <1>3, ShownChat, EndedKept DEF Ended, CardState
<1>5. Ended(g, t, "Failed") \in Chat /\ Kept(gui[n][c], Ended(g, t, "Failed"))
  <2>1. Ended(g, t, "Failed") \in Chat /\ Kept(g, Ended(g, t, "Failed"))
    <3> HIDE DEF g, t
    <3> QED BY <1>3, <1>4, EndedKept DEF CardState
  <2> HIDE DEF g, t
  <2> QED BY <1>4, <2>1, KeptTrans
<1>6. TablesStep
  BY <1>2, <1>3, ClearStep
<1>7. ThreadsStep
  <2>1. thread' = Ordered(thread, e, CancelCmd)
    BY <1>2
  <2> HIDE DEF e
  <2> QED BY <1>3, <2>1, CommandTypes, OrderedStep
<1>8. GuiKept /\ NetStep
  <2>1. CASE e.st = "none"
    <3>1. Tell(n, c, g) /\ UNCHANGED net
      BY <1>2, <1>4, <2>1
    <3> HIDE DEF g, t, e
    <3> QED BY <1>4, <3>1, Told, Same
  <2>2. CASE e.st # "none"
    <3>1. /\ Tell(n, c, Ended(g, t, "Failed"))
          /\ Send(n, c, {Signal(n, c, "CANCEL", t)})
      BY <1>2, <1>4, <2>2
    <3> HIDE DEF g, t, e
    <3> QED BY <1>3, <1>5, <3>1, Told, SignalStep
  <2> QED BY <2>1, <2>2
<1> QED BY <1>6, <1>7, <1>8, Same DEF CancelFileTransfer, QuietStep

(* What is read was sent in the session that its reader has. *)
LEMMA ReadPacket ==
  ASSUME TypeOK, NEW n \in User, NEW p, NEW type, Arrives(n, p, type)
  PROVE  /\ p \in net /\ p \in Packet /\ p.type = type /\ p.to = n
         /\ p.from \in User /\ p.id \in TransferId /\ gui[n][p.from] \in Chat
         /\ p.link = link[n][p.from] /\ p.link \in 1..links
         /\ Rest(p) \subseteq net /\ table[n][p.from][p.id] \in Entry
<1>1. p \in net /\ p \in Packet /\ p.type = type /\ p.to = n
  BY DEF Arrives, TypeOK
<1>2. p.from \in User /\ p.id \in TransferId
  BY <1>1, PacketFields
<1>3. p.link = link[n][p.from] /\ p.link # 0 /\ link[n][p.from] \in 0..links /\ links \in Nat
  BY <1>2, FileTransferAssumption DEF Arrives, TypeOK
<1> QED BY <1>1, <1>2, <1>3, EntryThere DEF Rest, TypeOK

LEMMA RecvOfferStep ==
  ASSUME TypeOK, NEW n \in User, RecvOffer(n)
  PROVE  QuietStep
<1>1. PICK p \in net :
        /\ Arrives(n, p, "OFFER")
        /\ Put(n, p.from, p.id, EntryOf("incoming", p.file))
        /\ Tell(n, p.from, WithCard(gui[n][p.from], p.file, FALSE, p.id))
        /\ Taken(p)
  BY DEF RecvOffer
<1>2. /\ p.from \in User /\ p.id \in TransferId /\ p.file \in File /\ gui[n][p.from] \in Chat
      /\ Rest(p) \subseteq net
  BY <1>1, ReadPacket, PacketFields
<1>3. GuiKept
  <2>1. /\ WithCard(gui[n][p.from], p.file, FALSE, p.id) \in Chat
        /\ Kept(gui[n][p.from], WithCard(gui[n][p.from], p.file, FALSE, p.id))
    BY <1>2, WithCardKept
  <2> QED BY <1>1, <1>2, <2>1, Told
<1>4. TablesStep
  BY <1>1, <1>2, IncomingStep
<1>5. NetStep
  BY <1>1, <1>2, Same DEF Taken
<1> QED BY <1>3, <1>4, <1>5, Same DEF RecvOffer, QuietStep

(* An acceptance of what is not on offer only takes the entry away. *)
LEMMA RecvAcceptStep ==
  ASSUME TypeOK, NEW n \in User, RecvAccept(n),
         NEW p \in net, Arrives(n, p, "ACCEPT"), Taken(p), Clear(n, p.from, p.id),
         UNCHANGED <<thread, gui>>
  PROVE  QuietStep
<1>1. p.from \in User /\ p.id \in TransferId /\ Rest(p) \subseteq net
  BY ReadPacket
<1>2. TablesStep /\ NetStep
  BY <1>1, ClearStep, Same DEF Taken
<1> QED BY <1>2, Same DEF RecvAccept, QuietStep

LEMMA RecvRejectStep ==
  ASSUME TypeOK, NEW n \in User, RecvReject(n)
  PROVE  QuietStep
<1>1. PICK p \in net :
        /\ Arrives(n, p, "REJECT") /\ Taken(p)
        /\ Clear(n, p.from, p.id)
        /\ Tell(n, p.from, Ended(gui[n][p.from], p.id, "Failed"))
  BY DEF RecvReject
<1>2. p.from \in User /\ p.id \in TransferId /\ Rest(p) \subseteq net
  BY <1>1, ReadPacket
<1>3. TablesStep /\ NetStep /\ GuiKept
  BY <1>1, <1>2, ClearStep, Same, EndedStep DEF Taken, CardState
<1> QED BY <1>3, Same DEF RecvReject, QuietStep

LEMMA RecvNackStep ==
  ASSUME TypeOK, NEW n \in User, RecvNack(n)
  PROVE  QuietStep
<1> DEFINE e(p) == table[n][p.from][p.id]
<1>1. PICK p \in net :
        /\ Arrives(n, p, "NACK") /\ Taken(p)
        /\ IF e(p).st = "sending"
           THEN /\ Put(n, p.from, p.id, [e(p) EXCEPT !.told = FALSE])
                /\ thread' = Ordered(thread, e(p), NackCmd(p.missing))
           ELSE UNCHANGED <<table, thread>>
  BY DEF RecvNack
<1>2. /\ p.from \in User /\ p.id \in TransferId /\ p.missing \in SUBSET Chunk
      /\ Rest(p) \subseteq net /\ e(p) \in Entry
  BY <1>1, ReadPacket, PacketFields
<1>3. NetStep
  BY <1>1, <1>2, Same DEF Taken
<1>4. TablesStep /\ ThreadsStep
  <2>1. CASE e(p).st = "sending"
    <3>1. PICK d : d = [e(p) EXCEPT !.told = FALSE]
      OBVIOUS
    <3>2. d \in Entry /\ EntryKept(e(p), d)
      <4>1. d \in Entry /\ d.st = e(p).st /\ d.file = e(p).file /\ d.got = e(p).got
        <5> HIDE DEF e
        <5> QED BY <1>2, <2>1, <3>1, EntryFields
      <4> QED BY <4>1 DEF EntryKept
    <3>3. Put(n, p.from, p.id, d) /\ thread' = Ordered(thread, e(p), NackCmd(p.missing))
      BY <1>1, <2>1, <3>1
    <3>4. TablesStep
      BY <1>2, <3>2, <3>3, PutStep
    <3>5. ThreadsStep
      <4> HIDE DEF e
      <4> QED BY <1>2, <3>3, CommandTypes, OrderedStep
    <3> QED BY <3>4, <3>5
  <2>2. CASE e(p).st # "sending"
    BY <1>1, <2>2, Same
  <2> QED BY <2>1, <2>2
<1> QED BY <1>3, <1>4, Same DEF RecvNack, QuietStep

LEMMA RecvAckStep ==
  ASSUME TypeOK, AcksEarned, NEW n \in User, RecvAck(n)
  PROVE  QuietStep
<1>1. PICK p \in net :
        /\ Arrives(n, p, "ACK") /\ Taken(p)
        /\ thread' = Ordered(thread, table[n][p.from][p.id], AckCmd)
        /\ Clear(n, p.from, p.id)
        /\ Tell(n, p.from, Ended(gui[n][p.from], p.id, "Completed"))
  BY DEF RecvAck
<1>2. /\ p.type = "ACK" /\ p.to = n /\ p.from \in User /\ p.id \in TransferId
      /\ p.link = link[n][p.from] /\ Rest(p) \subseteq net /\ table[n][p.from][p.id] \in Entry
  BY <1>1, ReadPacket
<1>3. TablesStep /\ NetStep /\ GuiKept
  BY <1>1, <1>2, ClearStep, Same, EndedStep DEF Taken, CardState
<1>4. HistoryStep /\ whole' = whole
  BY Same DEF RecvAck, history
<1>5. ThreadsStep
  <2>1. table[n][p.from][p.id].st = "sending" => table[n][p.from][p.id].file \in whole'
    BY <1>2, <1>4 DEF AcksEarned, Readable
  <2> QED BY <1>1, <1>2, <2>1, CommandTypes, OrderedStep
<1> QED BY <1>3, <1>4, <1>5, Same DEF RecvAck, QuietStep

LEMMA RecvCancelStep ==
  ASSUME TypeOK, NEW n \in User, RecvCancel(n)
  PROVE  QuietStep
<1>1. PICK p \in net :
        /\ Arrives(n, p, "CANCEL") /\ Taken(p)
        /\ thread' = Ordered(thread, table[n][p.from][p.id], CancelCmd)
        /\ Clear(n, p.from, p.id)
        /\ IF table[n][p.from][p.id].st = "none" THEN UNCHANGED gui
           ELSE Tell(n, p.from, Ended(gui[n][p.from], p.id, "Failed"))
  BY DEF RecvCancel
<1>2. /\ p.from \in User /\ p.id \in TransferId
      /\ Rest(p) \subseteq net /\ table[n][p.from][p.id] \in Entry
  BY <1>1, ReadPacket
<1>3. TablesStep /\ NetStep /\ GuiKept
  BY <1>1, <1>2, ClearStep, Same, EndedStep DEF Taken, CardState
<1>4. ThreadsStep
  BY <1>1, <1>2, CommandTypes, OrderedStep
<1> QED BY <1>3, <1>4, Same DEF RecvCancel, QuietStep

LEMMA LoseStep ==
  ASSUME TypeOK, Lose
  PROVE  QuietStep
<1>1. net' \subseteq net
  BY DEF Lose
<1> QED BY <1>1, Same DEF Lose, QuietStep


----------------------------------------------------------------------------
(* Sender threads, results that are drained, and timers *)

LEMMA NextCommandStep ==
  ASSUME TypeOK, NEW f \in File, NextCommand(f)
  PROVE  QuietStep
<1> DEFINE h == thread[f]
           q == h.cmds
<1>1. /\ thread \in [File -> Thread] /\ h \in Thread /\ q \in Seq(Command)
      /\ h.st \in {"none", "sending", "waiting"} /\ h.id \in TransferId
  BY DEF TypeOK, Thread
<1>2. /\ h.st = "waiting"
      /\ thread' = [thread EXCEPT ![f] =
            IF q # <<>> /\ Head(q).type = "Nack"
            THEN [@ EXCEPT !.st = "sending", !.todo = Head(q).missing, !.cmds = Tail(q)]
            ELSE NoThread]
      /\ jobs' = IF q # <<>> /\ Head(q).type = "Ack"
                 THEN [jobs EXCEPT ![From[f]] = @ \cup {Job("done", To[f], h.id, f, TRUE)}]
                 ELSE jobs
  BY DEF NextCommand
<1>3. PICK d : /\ d = thread'[f] /\ thread' = [thread EXCEPT ![f] = d]
               /\ d = IF q # <<>> /\ Head(q).type = "Nack"
                      THEN [h EXCEPT !.st = "sending", !.todo = Head(q).missing, !.cmds = Tail(q)]
                      ELSE NoThread
  BY <1>1, <1>2
<1>4. /\ d \in Thread
      /\ d.st # "none" => d.id = h.id /\ d.link = h.link
      /\ AckIn(d.cmds) => AckIn(q)
  <2>1. CASE q # <<>> /\ Head(q).type = "Nack"
    <3>1. /\ Head(q) \in Command /\ Tail(q) \in Seq(Command)
          /\ Len(Tail(q)) = Len(q) - 1 /\ Len(q) \in Nat /\ DOMAIN q = 1..Len(q)
          /\ DOMAIN Tail(q) = 1..Len(Tail(q))
          /\ \A i \in 1..Len(Tail(q)) : Tail(q)[i] = q[i + 1]
      <4> HIDE DEF q
      <4> QED BY <1>1, <2>1, HeadTailProperties, LenProperties
    <3>2. Head(q).missing \in SUBSET Chunk
      BY <2>1, <3>1 DEF Command
    <3>3. d = [h EXCEPT !.st = "sending", !.todo = Head(q).missing, !.cmds = Tail(q)]
      BY <1>3, <2>1
    <3>4. d \in Thread /\ d.id = h.id /\ d.link = h.link /\ d.cmds = Tail(q)
      BY <1>1, <3>1, <3>2, <3>3 DEF Thread
    <3>5. AckIn(Tail(q)) => AckIn(q)
      <4> HIDE DEF q
      <4> QED BY <3>1 DEF AckIn
    <3> QED BY <3>4, <3>5
  <2>2. CASE ~(q # <<>> /\ Head(q).type = "Nack")
    <3>1. d = NoThread
      BY <1>3, <2>2
    <3>2. NoThread \in Thread /\ NoThread.st = "none" /\ ~AckIn(NoThread.cmds)
      <4>1. <<>> \in Seq(Command) /\ DOMAIN <<>> = {}
        BY EmptySeq, LenProperties
      <4> QED BY <4>1, Ids DEF NoThread, Thread, AckIn
    <3> QED BY <3>1, <3>2
  <2> QED BY <2>1, <2>2
<1>5. ThreadsStep
  <2>1. \A x \in File : thread'[x] = IF x = f THEN d ELSE thread[x]
    BY <1>1, <1>3
  <2>2. thread' \in [File -> Thread]
    BY <1>1, <1>3, <1>4
  <2> HIDE DEF h, q
  <2>3. h.st = "waiting" /\ h = thread[f] /\ q = thread[f].cmds
    BY <1>2 DEF h, q
  <2> QED BY <1>4, <2>1, <2>2, <2>3 DEF ThreadsStep, Alive
<1>6. JobsStep
  <2>1. CASE q # <<>> /\ Head(q).type = "Ack"
    <3>1. AckIn(q)
      <4>1. Len(q) \in Nat /\ DOMAIN q = 1..Len(q) /\ Len(q) # 0 /\ Head(q) = q[1]
        <5> HIDE DEF q
        <5>1. q \in Seq(Command) /\ q # <<>>
          BY <1>1, <2>1
        <5>2. Len(q) \in Nat /\ DOMAIN q = 1..Len(q) /\ Len(q) # 0
          BY <5>1, LenProperties, EmptySeq
        <5>3. Head(q) = q[1]
          BY <5>1, SMTT(30) DEF Head
        <5> QED BY <5>2, <5>3
      <4>2. q[1] = AckCmd
        <5>1. q[1] \in Command /\ q[1].type = "Ack"
          BY <1>1, <2>1, <4>1
        <5>2. q[1] \in [type : {"Ack", "Cancel"}]
          BY <5>1 DEF Command
        <5> QED BY <5>1, <5>2 DEF AckCmd
      <4> QED BY <4>1, <4>2 DEF AckIn
    <3> DEFINE j == Job("done", To[f], h.id, f, TRUE)
    <3>2. j \in Work /\ j.type = "done" /\ j.file = f
      BY <1>1, FileTransferAssumption DEF Job, Work
    <3>3. jobs' = [jobs EXCEPT ![From[f]] = @ \cup {j}]
      BY <1>2, <2>1
    <3> HIDE DEF j
    <3> QED BY <3>1, <3>2, <3>3, FileTransferAssumption DEF JobsStep, TypeOK
  <2>2. CASE ~(q # <<>> /\ Head(q).type = "Ack")
    BY <1>2, <2>2, Same
  <2> QED BY <2>1, <2>2
<1> QED BY <1>5, <1>6, Same DEF NextCommand, QuietStep

LEMMA DrainHashStep ==
  ASSUME TypeOK, PartsInv, NEW n \in User, DrainHash(n)
  PROVE  QuietStep
<1>1. PICK j \in Drained(n, "hash") :
        /\ Done(n, j)
        /\ \/ /\ table[n][j.with][j.id].st = "hashing"
              /\ Put(n, j.with, j.id, EntryOf("offered", j.file))
              /\ Send(n, j.with, {Offer(n, j.with, j.id, j.file)})
              /\ UNCHANGED gui
           \/ UNCHANGED <<table, net, gui>>
           \/ /\ Clear(n, j.with, j.id)
              /\ Tell(n, j.with, Ended(gui[n][j.with], j.id, "Failed"))
              /\ UNCHANGED net
  BY DEF DrainHash
<1>2. /\ j \in jobs[n] /\ j.type = "hash"
      /\ j.with \in User /\ j.id \in TransferId /\ j.file \in File
  BY <1>1, JobFields DEF Drained
<1>3. JobsStep
  BY <1>1, <1>2, DoneStep
<1>4. TablesStep /\ NetStep /\ GuiKept
  <2>1. CASE /\ table[n][j.with][j.id].st = "hashing"
             /\ Put(n, j.with, j.id, EntryOf("offered", j.file))
             /\ Send(n, j.with, {Offer(n, j.with, j.id, j.file)})
             /\ UNCHANGED gui
    <3>1. table[n][j.with][j.id].file = j.file
      <4>1. Own(n, j.with, j.id) /\ table[n][j.with][j.id].file \in File
        BY <1>2, <2>1 DEF Own, PartsInv, Offering
      <4>2. /\ Named(n, j.id, table[n][j.with][j.id].file)
            /\ Named(n, j.id, j.file)
        BY <1>2, <4>1 DEF Named
      <4> QED BY <1>2, <4>1, <4>2 DEF PartsInv, NamesOK
    <3>2. /\ EntryOf("offered", j.file) \in Entry
          /\ EntryKept(table[n][j.with][j.id], EntryOf("offered", j.file))
      BY <1>2, <2>1, <3>1, BlankEntry DEF EntryKept
    <3>3. TablesStep
      BY <1>2, <2>1, <3>2, PutStep
    <3>4. NetStep
      <4> DEFINE p == Offer(n, j.with, j.id, j.file)
      <4>1. link[n][j.with] \in 0..links /\ links \in Nat
        BY <1>2, FileTransferAssumption DEF TypeOK
      <4>2. link[n][j.with] # 0 => NewPacket(p)
        BY <1>2, <4>1 DEF NewPacket, Offer, Packet
      <4>3. \A x \in net' : x \in net \/ (x = p /\ link[n][j.with] # 0)
        BY <2>1 DEF Send, Outgoing
      <4> QED BY <4>2, <4>3 DEF NetStep
    <3> QED BY <2>1, <3>3, <3>4, Same
  <2>2. CASE UNCHANGED <<table, net, gui>>
    BY <2>2, Same
  <2>3. CASE /\ Clear(n, j.with, j.id)
             /\ Tell(n, j.with, Ended(gui[n][j.with], j.id, "Failed"))
             /\ UNCHANGED net
    BY <1>2, <2>3, ClearStep, EndedStep, Same DEF CardState
  <2> QED BY <1>1, <2>1, <2>2, <2>3
<1> QED BY <1>3, <1>4, Same DEF DrainHash, QuietStep

LEMMA DrainVerifyStep ==
  ASSUME TypeOK, NEW n \in User, DrainVerify(n)
  PROVE  QuietStep
<1>1. PICK j \in Drained(n, "verify") : \E st \in {"Completed", "Failed"} :
        Done(n, j) /\ Tell(n, j.with, Ended(gui[n][j.with], j.id, st))
  BY DEF DrainVerify
<1>2. j \in jobs[n] /\ j.with \in User /\ j.id \in TransferId
  BY <1>1, JobFields DEF Drained
<1>3. JobsStep /\ GuiKept
  BY <1>1, <1>2, DoneStep, EndedStep DEF CardState
<1> QED BY <1>3, Same DEF DrainVerify, QuietStep

(* COMPLETE goes out, first or again, for an entry that stays "sending". *)
LEMMA CompleteStep ==
  ASSUME TypeOK, NEW n \in User, NEW c \in User, NEW t \in TransferId,
         table'[n][c][t].st = "sending", Send(n, c, {Signal(n, c, "COMPLETE", t)})
  PROVE  NetStep
BY SignalStep

LEMMA DrainAllSentStep ==
  ASSUME TypeOK, NEW n \in User, DrainAllSent(n)
  PROVE  QuietStep
<1> DEFINE e(j) == table[n][j.with][j.id]
<1>1. PICK j \in Drained(n, "allSent") :
        /\ Done(n, j)
        /\ IF e(j).st = "sending" /\ ~e(j).told
           THEN /\ Put(n, j.with, j.id, [e(j) EXCEPT !.told = TRUE])
                /\ Send(n, j.with, {Signal(n, j.with, "COMPLETE", j.id)})
           ELSE UNCHANGED <<table, net>>
  BY DEF DrainAllSent
<1>2. /\ j \in jobs[n] /\ j.with \in User /\ j.id \in TransferId /\ e(j) \in Entry
  BY <1>1, JobFields, EntryThere DEF Drained
<1>3. JobsStep
  BY <1>1, <1>2, DoneStep
<1>4. TablesStep /\ NetStep
  <2>1. CASE e(j).st = "sending" /\ ~e(j).told
    <3>1. PICK d : d = [e(j) EXCEPT !.told = TRUE]
      OBVIOUS
    <3>2. d \in Entry /\ d.st = e(j).st /\ d.file = e(j).file /\ d.got = e(j).got
      <4> HIDE DEF e
      <4> QED BY <1>2, <2>1, <3>1, EntryFields
    <3>3. Put(n, j.with, j.id, d) /\ Send(n, j.with, {Signal(n, j.with, "COMPLETE", j.id)})
      BY <1>1, <2>1, <3>1
    <3>4. TablesStep /\ table'[n][j.with][j.id] = d
      BY <1>2, <3>2, <3>3, PutStep DEF EntryKept
    <3> QED BY <1>2, <2>1, <3>2, <3>3, <3>4, CompleteStep
  <2>2. CASE ~(e(j).st = "sending" /\ ~e(j).told)
    BY <1>1, <2>2, Same
  <2> QED BY <2>1, <2>2
<1> QED BY <1>3, <1>4, Same DEF DrainAllSent, QuietStep

LEMMA DrainDoneStep ==
  ASSUME TypeOK, NEW n \in User, DrainDone(n)
  PROVE  QuietStep
<1>1. PICK j \in Drained(n, "done") :
        /\ Done(n, j)
        /\ Clear(n, j.with, j.id)
        /\ Tell(n, j.with, Ended(gui[n][j.with], j.id, "Completed"))
  BY DEF DrainDone
<1>2. j \in jobs[n] /\ j.with \in User /\ j.id \in TransferId
  BY <1>1, JobFields DEF Drained
<1>3. JobsStep /\ TablesStep /\ GuiKept
  BY <1>1, <1>2, DoneStep, ClearStep, EndedStep DEF CardState
<1> QED BY <1>3, Same DEF DrainDone, QuietStep

LEMMA DrainProgressStep ==
  ASSUME TypeOK, NEW n \in User, DrainProgress(n)
  PROVE  QuietStep
<1>1. PICK j \in Drained(n, "progress") :
        Done(n, j) /\ Tell(n, j.with, Moving(gui[n][j.with], j.id))
  BY DEF DrainProgress
<1>2. j \in jobs[n] /\ j.with \in User /\ j.id \in TransferId
  BY <1>1, JobFields DEF Drained
<1>3. JobsStep /\ GuiKept
  BY <1>1, <1>2, DoneStep, MovingStep
<1> QED BY <1>3, Same DEF DrainProgress, QuietStep

LEMMA TimerStep ==
  ASSUME TypeOK, NEW n \in User,
         ResendComplete(n) \/ ShowProgress(n) \/ TransferTimeout(n)
  PROVE  QuietStep
<1>1. CASE ResendComplete(n)
  <2>1. PICK c \in User, t \in TransferId :
          table[n][c][t].st = "sending" /\ Send(n, c, {Signal(n, c, "COMPLETE", t)})
    BY <1>1 DEF ResendComplete
  <2>2. table' = table
    BY <1>1 DEF ResendComplete
  <2>3. NetStep
    BY <2>1, <2>2, CompleteStep
  <2> QED BY <1>1, <2>3, Same DEF ResendComplete, QuietStep
<1>2. CASE ShowProgress(n)
  <2>1. PICK c \in User, t \in TransferId : Tell(n, c, Moving(gui[n][c], t))
    BY <1>2 DEF ShowProgress
  <2> QED BY <1>2, <2>1, MovingStep, Same DEF ShowProgress, QuietStep
<1>3. CASE TransferTimeout(n)
  <2>1. PICK c \in User, t \in TransferId :
          Clear(n, c, t) /\ Tell(n, c, Ended(gui[n][c], t, "Failed"))
    BY <1>3 DEF TransferTimeout
  <2> QED BY <1>3, <2>1, ClearStep, EndedStep, Same DEF TransferTimeout, QuietStep, CardState
<1> QED BY <1>1, <1>2, <1>3

----------------------------------------------------------------------------
(* Sessions are lost, and transfers fail with them. *)

LEMMA UnlinkedStep ==
  ASSUME TypeOK, NEW n \in User, NEW C, Relink(Unlinked(n, C))
  PROVE  /\ link' \in [User -> [User -> 0..links]]
         /\ \A a, b \in User : link'[a][b] \in {link[a][b], 0}
         /\ NetStep
<1>1. links \in Nat /\ link \in [User -> [User -> 0..links]] /\ 0 \in 0..links
  BY FileTransferAssumption DEF TypeOK
<1>2. \A a, b \in User : link'[a][b] = IF a = n /\ b \in C THEN 0 ELSE link[a][b]
  BY <1>1 DEF Relink, Unlinked
<1>3. link' \in [User -> [User -> 0..links]]
  <2>1. link' = [link EXCEPT ![n] = [c \in User |-> IF c \in C THEN 0 ELSE link[n][c]]]
    BY <1>1 DEF Relink, Unlinked
  <2>2. [c \in User |-> IF c \in C THEN 0 ELSE link[n][c]] \in [User -> 0..links]
    BY <1>1
  <2> QED BY <1>1, <2>1, <2>2
<1>4. NetStep
  BY DEF Relink, NetStep
<1> QED BY <1>2, <1>3, <1>4

LEMMA FailAllStep ==
  ASSUME TypeOK, NEW n \in User, NEW K, FailAll(n, K)
  PROVE  TablesStep /\ ThreadsStep /\ GuiKept
<1>1. TablesStep
  <2>1. table' = [table EXCEPT ![n] = [c \in User |-> [t \in TransferId |->
                    IF <<c, t>> \in K THEN NoEntry ELSE table[n][c][t]]]]
    BY DEF FailAll, TypeOK
  <2>2. \A a, b \in User, t \in TransferId :
          table'[a][b][t] = IF a = n /\ <<b, t>> \in K THEN NoEntry ELSE table[a][b][t]
    BY <2>1 DEF TypeOK
  <2>3. table' \in Tables
    <3>1. [c \in User |-> [t \in TransferId |->
             IF <<c, t>> \in K THEN NoEntry ELSE table[n][c][t]]] \in [User -> [TransferId -> Entry]]
      BY BlankEntry DEF TypeOK
    <3> QED BY <2>1, <3>1 DEF TypeOK, Tables
  <2>4. /\ \A a, b \in User, t \in TransferId : EntryKept(table[a][b][t], table[a][b][t])
        /\ \A a, b \in User, t \in TransferId : EntryKept(table[a][b][t], NoEntry)
    BY BlankEntry DEF EntryKept
  <2>5. ASSUME NEW a \in User, NEW b \in User, NEW t \in TransferId
        PROVE  EntryKept(table[a][b][t], table'[a][b][t])
    <3>1. CASE a = n /\ <<b, t>> \in K
      <4>1. table'[a][b][t] = NoEntry
        BY <2>2, <3>1
      <4> QED BY <2>4, <4>1
    <3>2. CASE ~(a = n /\ <<b, t>> \in K)
      <4>1. table'[a][b][t] = table[a][b][t]
        BY <2>2, <3>2
      <4> QED BY <2>4, <4>1
    <3> QED BY <3>1, <3>2
  <2> QED BY <2>3, <2>5 DEF TablesStep
<1>2. ThreadsStep
  <2>1. \A x \in File :
          \/ thread'[x] = thread[x]
          \/ thread'[x] = [thread[x] EXCEPT !.cmds = Append(@, CancelCmd)]
    BY DEF FailAll
  <2>2. \A x \in File :
          /\ thread'[x] \in Thread /\ thread'[x].st = thread[x].st
          /\ thread'[x].id = thread[x].id /\ thread'[x].link = thread[x].link
          /\ AckIn(thread'[x].cmds) => AckIn(thread[x].cmds)
    <3> SUFFICES ASSUME NEW x \in File
                 PROVE  /\ thread'[x] \in Thread /\ thread'[x].st = thread[x].st
                        /\ thread'[x].id = thread[x].id /\ thread'[x].link = thread[x].link
                        /\ AckIn(thread'[x].cmds) => AckIn(thread[x].cmds)
      OBVIOUS
    <3>1. thread[x] \in Thread
      BY DEF TypeOK
    <3>2. CASE thread'[x] = thread[x]
      BY <3>1, <3>2
    <3>3. CASE thread'[x] = [thread[x] EXCEPT !.cmds = Append(@, CancelCmd)]
      BY <3>1, <3>3, CommandTypes, Appended
    <3> QED BY <2>1, <3>2, <3>3
  <2>3. thread' \in [File -> Thread]
    <3>1. thread' = [x \in File |-> thread'[x]]
      BY DEF FailAll
    <3> QED BY <2>2, <3>1
  <2> QED BY <2>2, <2>3 DEF ThreadsStep, Alive
<1>3. GuiKept
  <2> DEFINE T(c) == {t \in TransferId : <<c, t>> \in K}
  <2>1. PICK chats \in [User -> UNION {AllFailed(gui[n][c], T(c)) : c \in User}] :
          /\ \A c \in User : chats[c] \in AllFailed(gui[n][c], T(c))
          /\ gui' = [gui EXCEPT ![n] = chats]
    BY DEF FailAll
  <2>2. \A c \in User : chats[c] \in Chat /\ Kept(gui[n][c], chats[c])
    <3> SUFFICES ASSUME NEW c \in User PROVE chats[c] \in Chat /\ Kept(gui[n][c], chats[c])
      OBVIOUS
    <3>1. T(c) \in SUBSET TransferId /\ gui[n][c] \in Chat /\ chats[c] \in AllFailed(gui[n][c], T(c))
      BY <2>1, ShownChat
    <3> HIDE DEF T
    <3> QED BY <3>1, AllFailedKept
  <2>3. chats \in [User -> Chat]
    <3> HIDE DEF T
    <3> QED BY <2>1, <2>2
  <2>4. /\ gui' \in [User -> [User -> Chat]]
        /\ \A a, b \in User : gui'[a][b] = IF a = n THEN chats[b] ELSE gui[a][b]
    <3> HIDE DEF T
    <3> QED BY <2>1, <2>3 DEF TypeOK
  <2> QED BY <2>2, <2>4, ShownChat DEF GuiKept
<1> QED BY <1>1, <1>2, <1>3

LEMMA SessionLostStep ==
  ASSUME TypeOK, NEW n \in User, SessionLost(n)
  PROVE  QuietStep
<1>1. PICK c \in User : Relink(Unlinked(n, {c}))
  BY DEF SessionLost
<1>2. LinksStep /\ NetStep
  BY <1>1, UnlinkedStep DEF SessionLost, LinksStep, TypeOK
<1> QED BY <1>2, Same DEF SessionLost, QuietStep

LEMMA PeerTimeoutStep ==
  ASSUME TypeOK, NEW n \in User, PeerTimeout(n)
  PROVE  QuietStep
<1>1. PICK c \in User :
        /\ Relink(Unlinked(n, {c}))
        /\ FailAll(n, {k \in Entries(n, {"sending"}) : k[1] = c})
  BY DEF PeerTimeout
<1>2. TablesStep /\ ThreadsStep /\ GuiKept
  BY <1>1, FailAllStep
<1>3. LinksStep /\ NetStep
  BY <1>1, UnlinkedStep DEF PeerTimeout, LinksStep, TypeOK
<1> QED BY <1>2, <1>3, Same DEF PeerTimeout, QuietStep

LEMMA YieldSocketStep ==
  ASSUME TypeOK, NEW n \in User, YieldSocket(n)
  PROVE  QuietStep
<1>1. /\ Relink(Unlinked(n, User))
      /\ FailAll(n, Entries(n, {"hashing", "offered", "sending", "incoming", "receiving"}))
  BY DEF YieldSocket
<1>2. TablesStep /\ ThreadsStep /\ GuiKept
  BY <1>1, FailAllStep
<1>3. LinksStep /\ NetStep
  <2>1. /\ lent' \in SUBSET User /\ calls' \in 0..MaxCalls /\ restarts' \in 0..MaxRestarts
        /\ links' = links /\ links' \in links..MaxLink
    BY FileTransferAssumption DEF YieldSocket, TypeOK
  <2> QED BY <1>1, <2>1, UnlinkedStep DEF YieldSocket, LinksStep
<1> QED BY <1>2, <1>3, Same DEF YieldSocket, QuietStep

LEMMA ReclaimSocketStep ==
  ASSUME TypeOK, NEW n \in User, ReclaimSocket(n)
  PROVE  QuietStep
<1>1. LinksStep
  BY DEF ReclaimSocket, LinksStep, TypeOK
<1> QED BY <1>1, Same DEF ReclaimSocket, QuietStep


LEMMA HandshakeStep ==
  ASSUME TypeOK, NEW n \in User, Handshake(n)
  PROVE  QuietStep
<1>1. PICK c \in User : /\ c # n
                        /\ Relink([link EXCEPT ![n][c] = links + 1, ![c][n] = links + 1])
  BY DEF Handshake
<1>2. /\ links \in Nat /\ MaxLink \in Nat /\ links < MaxLink /\ links' = links + 1
      /\ link \in [User -> [User -> 0..links]]
  BY FileTransferAssumption DEF Handshake, TypeOK
<1>3. \A a, b \in User :
        link'[a][b] = IF (a = n /\ b = c) \/ (a = c /\ b = n) THEN links + 1 ELSE link[a][b]
  BY <1>1, <1>2 DEF Relink
<1>4. link' \in [User -> [User -> 0..links']]
  <2>1. link \in [User -> [User -> 0..links']] /\ links + 1 \in 0..links'
    BY <1>2
  <2>2. PICK l : l = [link EXCEPT ![n][c] = links + 1]
    OBVIOUS
  <2>3. l \in [User -> [User -> 0..links']]
    BY <2>1, <2>2
  <2>4. link' = [l EXCEPT ![c][n] = links + 1]
    BY <1>1, <2>2 DEF Relink
  <2> QED BY <2>1, <2>3, <2>4
<1>5. \A a, b \in User :
        \/ link'[a][b] \in {link[a][b], 0}
        \/ link'[a][b] > links /\ link'[b][a] = link'[a][b]
  BY <1>2, <1>3
<1>6. LinksStep
  <2>1. links' \in links..MaxLink
    BY <1>2
  <2>2. /\ lent' \in SUBSET User
        /\ restarts' \in 0..MaxRestarts /\ calls' \in 0..MaxCalls
    BY DEF Handshake, TypeOK
  <2> QED BY <1>4, <1>5, <2>1, <2>2 DEF LinksStep
<1>7. NetStep
  BY <1>1 DEF Relink, NetStep
<1> QED BY <1>6, <1>7, Same DEF Handshake, QuietStep

(* What a new process does not know of, it does not send or answer. *)
LEMMA RestartStep ==
  ASSUME TypeOK, NEW n \in User, Restart(n)
  PROVE  QuietStep
<1>1. Relink(Unlinked(n, User))
  BY DEF Restart
<1>2. /\ link' \in [User -> [User -> 0..links]]
      /\ \A a, b \in User : link'[a][b] \in {link[a][b], 0}
      /\ NetStep
  BY <1>1, UnlinkedStep
<1>3. LinksStep
  <2>1. /\ lent' \in SUBSET User /\ calls' \in 0..MaxCalls /\ restarts' \in 0..MaxRestarts
        /\ links' = links /\ links' \in links..MaxLink
    BY FileTransferAssumption DEF Restart, TypeOK
  <2> QED BY <1>2, <2>1 DEF LinksStep
<1>4. /\ \A a, b \in User, t \in TransferId :
           table'[a][b][t] = IF a = n THEN NoEntry ELSE table[a][b][t]
      /\ table' \in Tables
  <2>1. [c \in User |-> [t \in TransferId |-> NoEntry]] \in [User -> [TransferId -> Entry]]
    BY BlankEntry
  <2> QED BY <2>1 DEF Restart, TypeOK, Tables
<1>5. TablesStep
  <2>1. ASSUME NEW a \in User, NEW b \in User, NEW t \in TransferId
        PROVE  EntryKept(table[a][b][t], table'[a][b][t])
    <3>1. CASE a = n
      BY <1>4, <3>1, BlankEntry DEF EntryKept
    <3>2. CASE a # n
      BY <1>4, <3>2 DEF EntryKept
    <3> QED BY <3>1, <3>2
  <2> QED BY <1>4, <2>1 DEF TablesStep
<1>6. /\ \A x \in File : thread'[x] = IF From[x] = n THEN NoThread ELSE thread[x]
      /\ thread' = [x \in File |-> thread'[x]]
  BY DEF Restart
<1>7. NoThread \in Thread /\ NoThread.st = "none" /\ ~AckIn(NoThread.cmds)
  <2>1. <<>> \in Seq(Command) /\ DOMAIN <<>> = {}
    BY EmptySeq, LenProperties
  <2> QED BY <2>1, Ids DEF NoThread, Thread, AckIn
<1>8. ThreadsStep
  <2>1. \A x \in File : thread[x] \in Thread
    BY DEF TypeOK
  <2>2. thread' \in [File -> Thread]
    BY <1>6, <1>7, <2>1
  <2> QED BY <1>6, <1>7, <2>2 DEF ThreadsStep, Alive
<1>9. JobsStep /\ jobs'[n] = {}
  BY DEF Restart, JobsStep, TypeOK
<1>10. GuiKept
  <2>1. gui' = [gui EXCEPT ![n] = [c \in User |-> Reloaded(gui[n][c])]]
    BY DEF Restart, TypeOK
  <2>2. \A c \in User : Reloaded(gui[n][c]) \in Chat /\ Kept(gui[n][c], Reloaded(gui[n][c]))
    BY ShownChat, ReloadedKept
  <2>3. /\ gui' \in [User -> [User -> Chat]]
        /\ \A a, b \in User : gui'[a][b] = IF a = n THEN Reloaded(gui[n][b]) ELSE gui[a][b]
    BY <2>1, <2>2 DEF TypeOK
  <2> QED BY <2>2, <2>3, ShownChat DEF GuiKept
<1>11. IdsStep
  <2>1. /\ nextId' \in [User -> Nat \ {0}]
        /\ \A m \in User : nextId'[m] = IF m = n THEN 1 ELSE nextId[m]
    BY DEF Restart, TypeOK
  <2>2. \A c \in User : link'[n][c] = 0
    BY <1>1 DEF Relink, Unlinked, TypeOK
  <2>3. Renewed(n)
    BY <1>4, <1>6, <1>7, <1>9, <2>1, <2>2 DEF Renewed
  <2> QED BY <2>1, <2>3 DEF IdsStep
<1> QED BY <1>2, <1>3, <1>5, <1>8, <1>9, <1>10, <1>11, Same DEF Restart, QuietStep


----------------------------------------------------------------------------
(* A file is offered under an id that nothing has. *)

LEMMA NewId ==
  ASSUME TypeInv, NEW n \in User, NEW f \in File, From[f] = n, ~Offered(n, f),
         GuiKept, Offered(n, f)', nextId' = [nextId EXCEPT ![n] = @ + 1]
  PROVE  nextId[n] \in TransferId /\ IdsCounted'
<1> DEFINE S(k) == {g \in File : From[g] = k /\ Offered(k, g)}
           Z(k) == {g \in File : From[g] = k /\ Offered(k, g)'}
<1>1. /\ nextId \in [User -> Nat \ {0}] /\ nextId[n] <= 1 + Cardinality(S(n))
      /\ \A k \in User : nextId'[k] = IF k = n THEN nextId[n] + 1 ELSE nextId[k]
  BY DEF TypeInv, TypeOK, IdsCounted
<1>2. IsFiniteSet(S(n)) /\ Cardinality(S(n)) \in Nat /\ Cardinality(Z(n)) \in Nat /\ IsFiniteSet(Z(n))
  BY Ids
<1>3. f \notin S(n) /\ S(n) \cup {f} \subseteq File /\ S(n) \cup {f} \subseteq Z(n)
  BY OfferedKept DEF TypeInv
<1>4. Cardinality(S(n) \cup {f}) = Cardinality(S(n)) + 1
  <2> HIDE DEF S
  <2> QED BY <1>2, <1>3, FS_AddElement
<1>5. Cardinality(S(n)) + 1 <= Cardinality(File) /\ Cardinality(S(n)) + 1 <= Cardinality(Z(n))
  <2> HIDE DEF S, Z
  <2> QED BY <1>2, <1>3, <1>4, Ids, FS_Subset
<1>6. nextId[n] \in TransferId
  <2> HIDE DEF S
  <2> QED BY <1>1, <1>2, <1>5, Ids
<1>7. IdsCounted'
  <2> SUFFICES ASSUME NEW k \in User PROVE nextId'[k] <= 1 + Cardinality(Z(k))
    BY DEF IdsCounted
  <2>1. CASE k = n
    <3> HIDE DEF S, Z
    <3> QED BY <1>1, <1>2, <1>5, <2>1
  <2>2. CASE k # n
    BY <1>1, <2>2, IdsCountedKept
  <2> QED BY <2>1, <2>2
<1> QED BY <1>6, <1>7

LEMMA OfferInv ==
  ASSUME Inv, NEW n \in User, SendFileOffer(n)
  PROVE  Inv'
<1>1. TypeInv /\ TypeOK /\ PartsInv
  BY DEF Inv, TypeInv, AckInv
<1>2. PICK f \in File :
        /\ From[f] = n /\ ~Offered(n, f)
        /\ \/ /\ Put(n, To[f], nextId[n], EntryOf("hashing", f))
              /\ nextId' = [nextId EXCEPT ![n] = nextId[n] + 1]
              /\ jobs' = [jobs EXCEPT ![n] = @ \cup {Job("hash", To[f], nextId[n], f, TRUE)}]
              /\ Tell(n, To[f], WithCard(gui[n][To[f]], f, TRUE, 0))
           \/ /\ Tell(n, To[f], Ended(WithCard(gui[n][To[f]], f, TRUE, 0), 0, "Failed"))
              /\ UNCHANGED <<table, nextId, jobs>>
  BY DEF SendFileOffer
<1> DEFINE c == To[f]
           t == nextId[n]
           g == WithCard(gui[n][c], f, TRUE, 0)
           j == Job("hash", c, t, f, TRUE)
<1>3. UNCHANGED linkVars /\ UNCHANGED thread /\ UNCHANGED net /\ UNCHANGED history
  BY DEF SendFileOffer
<1>4. /\ c \in User /\ gui[n][c] \in Chat
      /\ g \in Chat /\ Kept(gui[n][c], g)
      /\ g.cards[Len(g.cards)].file = f /\ Len(g.cards) \in DOMAIN g.cards
  <2>1. c \in User /\ 0 \in TransferId /\ TRUE \in BOOLEAN
    BY FileTransferAssumption, Ids
  <2>2. gui[n][c] \in Chat
    <3> HIDE DEF c
    <3> QED BY <1>1, <2>1, ShownChat
  <2> HIDE DEF c
  <2>3. /\ WithCard(gui[n][c], f, TRUE, 0) \in Chat
        /\ Kept(gui[n][c], WithCard(gui[n][c], f, TRUE, 0))
        /\ LET h == WithCard(gui[n][c], f, TRUE, 0)
           IN  h.cards[Len(h.cards)].file = f /\ Len(h.cards) \in DOMAIN h.cards
    BY <2>1, <2>2, WithCardKept
  <2> QED BY <2>1, <2>2, <2>3
<1>5. CASE /\ Tell(n, c, Ended(g, 0, "Failed"))
           /\ UNCHANGED <<table, nextId, jobs>>
  <2>1. Ended(g, 0, "Failed") \in Chat /\ Kept(gui[n][c], Ended(g, 0, "Failed"))
    <3>1. Ended(g, 0, "Failed") \in Chat /\ Kept(g, Ended(g, 0, "Failed"))
      <4> HIDE DEF g
      <4> QED BY <1>4, Ids, EndedKept DEF CardState
    <3> HIDE DEF g, c
    <3> QED BY <1>4, <3>1, KeptTrans
  <2>2. GuiKept
    <3> HIDE DEF g, c
    <3> QED BY <1>1, <1>4, <1>5, <2>1, Told
  <2>3. QuietStep
    BY <1>1, <1>3, <1>5, <2>2, Same DEF QuietStep
  <2> QED BY <2>3, QuietInv
<1>6. CASE /\ Put(n, c, t, EntryOf("hashing", f))
           /\ nextId' = [nextId EXCEPT ![n] = t + 1]
           /\ jobs' = [jobs EXCEPT ![n] = @ \cup {j}]
           /\ Tell(n, c, g)
  <2>1. GuiKept /\ Offered(n, f)'
    <3>1. GuiKept
      <4> HIDE DEF g, c
      <4> QED BY <1>1, <1>4, <1>6, Told
    <3>2. gui'[n][c] = g
      BY <1>1, <1>4, <1>6 DEF Tell, TypeOK
    <3>3. \E i \in DOMAIN gui'[n][To[f]].cards : gui'[n][To[f]].cards[i].file = f
      <4> HIDE DEF g
      <4> QED BY <1>4, <3>2
    <3> QED BY <3>1, <3>3 DEF Offered
  <2>2. t \in TransferId /\ IdsCounted'
    BY <1>1, <1>2, <1>6, <2>1, NewId
  <2>3. /\ table' \in Tables
        /\ \A a, b \in User, s \in TransferId :
             table'[a][b][s] = IF a = n /\ b = c /\ s = t THEN EntryOf("hashing", f) ELSE table[a][b][s]
        /\ EntryOf("hashing", f).st = "hashing" /\ EntryOf("hashing", f).file = f
        /\ EntryOf("hashing", f).got = Blank
    <3>1. /\ EntryOf("hashing", f) \in Entry /\ EntryOf("hashing", f).st = "hashing"
          /\ EntryOf("hashing", f).file = f /\ EntryOf("hashing", f).got = Blank
      BY BlankEntry
    <3> HIDE DEF t, c
    <3> QED BY <1>1, <1>4, <1>6, <2>2, <3>1, PutOne, EntryThere
  <2>4. j \in Work /\ j.type = "hash" /\ j.with = c /\ j.id = t /\ j.file = f
    BY <1>4, <2>2 DEF Job, Work
  <2>5. /\ nextId' \in [User -> Nat \ {0}] /\ t \in Nat
        /\ \A m \in User : nextId'[m] = IF m = n THEN t + 1 ELSE nextId[m]
    BY <1>1, <1>6 DEF TypeOK
  <2>6. TypeInv'
    <3>1. jobs' \in [User -> SUBSET Work]
      <4> HIDE DEF j
      <4> QED BY <1>1, <1>6, <2>4 DEF TypeOK
    <3>2. TypeOK'
      BY <1>1, <1>3, <2>1, <2>3, <2>5, <3>1 DEF TypeOK, GuiKept, Tables, linkVars, history
    <3> QED BY <2>2, <3>2 DEF TypeInv
  <2> HIDE DEF c, t, g, j
  <2>7. /\ \A a, b \in User, s \in TransferId : Got(a, b, s)' \subseteq Got(a, b, s)
        /\ \A a, b \in User, s \in TransferId :
             Own(a, b, s)' => \/ a = n /\ b = c /\ s = t /\ table'[a][b][s].file = f
                              \/ Own(a, b, s) /\ table'[a][b][s] = table[a][b][s]
        /\ \A a, b \in User, s \in TransferId :
             table'[a][b][s].st = "sending" => table'[a][b][s] = table[a][b][s]
    <3>1. \A i \in Chunk : Blank[i] \notin File
      BY FileTransferAssumption DEF Blank
    <3> QED BY <2>3, <3>1 DEF Got, Own
  <2>8. /\ link' = link /\ links' = links /\ thread' = thread /\ net' = net /\ whole' = whole
        /\ \A x \in File : Alive(x)' <=> Alive(x)
    BY <1>3 DEF linkVars, history, Alive
  <2>9. \A m \in User : \A k \in jobs'[m] : k \in jobs[m] \/ (m = n /\ k = j)
    BY <1>1, <1>6 DEF TypeOK
  <2>10. \A m \in User, s \in TransferId, x \in File :
           Named(m, s, x)' => Named(m, s, x) \/ (m = n /\ s = t /\ x = f)
    BY <2>4, <2>7, <2>8, <2>9 DEF Named
  <2>11. \A x \in File : ~Named(n, t, x)
    <3>1. ~(t < nextId[n])
      BY <2>5 DEF t
    <3> QED BY <2>2, <3>1 DEF PartsInv, NamesOK, Inv, AckInv
  <2>12. \A p \in net : p \in Packet /\ p.from \in User /\ p.to \in User /\ p.id \in TransferId
    BY <1>1, PacketFields DEF TypeOK
  <2>13. NamesOK'
    <3> SUFFICES ASSUME NEW m \in User, NEW s \in TransferId, NEW x \in File, Named(m, s, x)'
                 PROVE  s < nextId'[m] /\ \A y \in File : Named(m, s, y)' => y = x
      BY DEF NamesOK
    <3>1. CASE m = n /\ s = t
      BY <2>5, <2>10, <2>11, <3>1
    <3>2. CASE ~(m = n /\ s = t)
      <4>1. s < nextId[m] /\ \A y \in File : Named(m, s, y) => y = x
        BY <1>1, <2>10, <3>2 DEF PartsInv, NamesOK
      <4>2. nextId[m] \in Nat /\ s \in Nat /\ (m = n => nextId'[m] = nextId[m] + 1)
            /\ (m # n => nextId'[m] = nextId[m])
        BY <1>1, <2>5, Ids DEF TypeOK, t
      <4> QED BY <2>10, <3>2, <4>1, <4>2
    <3> QED BY <3>1, <3>2
  <2>14. Offering'
    <3>1. /\ \A a, b \in User, s \in TransferId :
               Own(a, b, s) => /\ table[a][b][s].file \in File
                               /\ From[table[a][b][s].file] = a /\ To[table[a][b][s].file] = b
          /\ \A m \in User : \A k \in jobs[m] : k.type = "hash" => From[k.file] = m /\ To[k.file] = k.with
      BY <1>1 DEF PartsInv, Offering
    <3>2. \A a, b \in User, s \in TransferId :
            Own(a, b, s)' => /\ table'[a][b][s].file \in File
                             /\ From[table'[a][b][s].file] = a /\ To[table'[a][b][s].file] = b
      BY <1>2, <2>7, <3>1 DEF c
    <3>3. \A m \in User : \A k \in jobs'[m] : k.type = "hash" => From[k.file] = m /\ To[k.file] = k.with
      BY <1>2, <2>4, <2>9, <3>1 DEF c
    <3> QED BY <3>2, <3>3 DEF Offering
  <2>15. LinksOK' /\ ChunksAgree' /\ ThreadsAgree'
    BY <1>1, <2>8 DEF PartsInv, LinksOK, ChunksAgree, ThreadsAgree, Alive
  <2>16. ReadableFits'
    BY <1>1, <2>7, <2>8, <2>12 DEF PartsInv, ReadableFits, Readable
  <2>17. ThreadFits'
    <3> SUFFICES ASSUME NEW x \in File, Alive(x), thread[x].link = link[To[x]][From[x]],
                        NEW s \in TransferId, s = thread[x].id
                 PROVE  Got(To[x], From[x], s)' \subseteq {x}
      BY <1>1, <2>8 DEF ThreadFits, Got, TypeOK, Thread
    <3>1. Got(To[x], From[x], s) \subseteq {x} /\ To[x] \in User /\ From[x] \in User
      BY <1>1, FileTransferAssumption DEF PartsInv, ThreadFits
    <3> QED BY <2>7, <3>1
  <2>18. AcceptFits'
    <3> SUFFICES ASSUME NEW p \in net, p.type = "ACCEPT", Readable(p),
                        NEW x \in File, x \in Got(p.from, p.to, p.id)'
                 PROVE  p.id < nextId'[p.to] /\ \A y \in File : Named(p.to, p.id, y)' => y = x
      BY <2>8 DEF AcceptFits, Readable, Got
    <3>1. p.id < nextId[p.to] /\ \A y \in File : Named(p.to, p.id, y) => y = x
      BY <1>1, <2>7, <2>12 DEF PartsInv, AcceptFits
    <3>2. ~(p.to = n /\ p.id = t)
      BY <2>5, <3>1 DEF t
    <3>3. p.id < nextId'[p.to]
      <4>1. nextId[p.to] \in Nat /\ p.id \in Nat
        BY <1>1, <2>12, Ids DEF TypeOK
      <4> QED BY <2>5, <2>12, <3>1, <4>1 DEF t
    <3> QED BY <2>10, <2>12, <3>1, <3>2, <3>3
  <2>19. SendingFits'
    <3> SUFFICES ASSUME NEW a \in User, NEW b \in User, NEW s \in TransferId,
                        table'[a][b][s].st = "sending"
                 PROVE  /\ Got(b, a, s)' \subseteq {table'[a][b][s].file}
                        /\ \A p \in net : /\ p.type = "CHUNK" /\ p.from = a /\ p.to = b /\ p.id = s
                                          /\ Readable(p)
                                          => p.file = table'[a][b][s].file
      BY <2>8 DEF SendingFits, Readable
    <3>1. table'[a][b][s] = table[a][b][s]
      BY <2>7
    <3> QED BY <1>1, <2>7, <3>1 DEF PartsInv, SendingFits
  <2>20. OneFile'
    BY <1>1, <2>7 DEF PartsInv, OneFile
  <2>21. \A a, b \in User, s \in TransferId : Begun(a, b, s) => Begun(a, b, s)' /\ ~(a = n /\ s = t)
    <3> SUFFICES ASSUME NEW a \in User, NEW b \in User, NEW s \in TransferId, Begun(a, b, s)
                 PROVE  Begun(a, b, s)' /\ ~(a = n /\ s = t)
      OBVIOUS
    <3>1. s < nextId[a] /\ nextId[a] \in Nat /\ s \in Nat
      BY <1>1, Ids DEF Begun, TypeOK
    <3>2. ~(a = n /\ s = t)
      BY <3>1 DEF t
    <3>3. s < nextId'[a]
      BY <2>5, <3>1 DEF t
    <3>4. table'[a][b][s] = table[a][b][s]
      BY <2>3, <3>2
    <3> QED BY <3>2, <3>3, <3>4 DEF Begun
  <2>22. CompletesBegun'
    BY <2>8, <2>12, <2>21 DEF Inv, AckInv, CompletesBegun
  <2>23. AcksEarned'
    <3> SUFFICES ASSUME NEW p \in net, p.type = "ACK", Readable(p)
                 PROVE  /\ Begun(p.to, p.from, p.id)'
                        /\ table'[p.to][p.from][p.id].st = "sending" =>
                             table'[p.to][p.from][p.id].file \in whole
      BY <2>8 DEF AcksEarned, Readable
    <3>1. /\ Begun(p.to, p.from, p.id)
          /\ table[p.to][p.from][p.id].st = "sending" => table[p.to][p.from][p.id].file \in whole
      BY DEF Inv, AckInv, AcksEarned
    <3> QED BY <2>7, <2>12, <2>21, <3>1
  <2>24. AckMeansWhole'
    BY <2>4, <2>8, <2>9, FileTransferAssumption DEF Inv, AckInv, AckMeansWhole
  <2> QED BY <2>6, <2>13, <2>14, <2>15, <2>16, <2>17, <2>18, <2>19, <2>20, <2>22, <2>23, <2>24
          DEF Inv, AckInv, PartsInv
<1> QED BY <1>2, <1>5, <1>6


----------------------------------------------------------------------------
(* A sender thread starts, chunks travel, and a file is received. *)

LEMMA StepTypes ==
  ASSUME TypeInv, table' \in Tables, thread' \in [File -> Thread], jobs' \in [User -> SUBSET Work],
         net' \subseteq Packet, GuiKept, HistoryStep, UNCHANGED <<linkVars, nextId>>
  PROVE  TypeInv'
<1>1. TypeOK'
  BY DEF TypeInv, TypeOK, Tables, GuiKept, HistoryStep, linkVars
<1>2. IdsCounted'
  BY IdsCountedKept DEF IdsCounted
<1> QED BY <1>1, <1>2 DEF TypeInv

LEMMA RecvAcceptInv ==
  ASSUME Inv, NEW n \in User, RecvAccept(n)
  PROVE  Inv'
<1>1. TypeInv /\ TypeOK /\ PartsInv
  BY DEF Inv, TypeInv, AckInv
<1>2. PICK p \in net :
        /\ Arrives(n, p, "ACCEPT") /\ Taken(p)
        /\ IF table[n][p.from][p.id].st = "offered"
           THEN /\ Put(n, p.from, p.id, EntryOf("sending", table[n][p.from][p.id].file))
                /\ thread' = [thread EXCEPT ![table[n][p.from][p.id].file] =
                      [st |-> "sending", id |-> p.id, link |-> p.link, todo |-> Chunk, cmds |-> <<>>]]
                /\ Tell(n, p.from, Moving(gui[n][p.from], p.id))
           ELSE Clear(n, p.from, p.id) /\ UNCHANGED <<thread, gui>>
  BY DEF RecvAccept
<1>3. /\ p \in Packet /\ p.type = "ACCEPT" /\ p.to = n /\ p.from \in User /\ p.id \in TransferId
      /\ p.link = link[n][p.from] /\ p.link \in 1..links /\ Rest(p) \subseteq net
  BY <1>1, <1>2, ReadPacket
<1> DEFINE c == p.from
           t == p.id
           l == p.link
           f == table[n][c][t].file
           h == [st |-> "sending", id |-> t, link |-> l, todo |-> Chunk, cmds |-> <<>>]
<1>4. CASE table[n][c][t].st # "offered"
  <2>1. Clear(n, p.from, p.id) /\ UNCHANGED <<thread, gui>>
    BY <1>2, <1>4
  <2> QED BY <1>1, <1>2, <2>1, RecvAcceptStep, QuietInv
<1>5. CASE table[n][c][t].st = "offered"
  <2>1. /\ Put(n, c, t, EntryOf("sending", f))
        /\ thread' = [thread EXCEPT ![f] = h]
        /\ Tell(n, c, Moving(gui[n][c], t))
    BY <1>2, <1>5
  <2>2. f \in File /\ From[f] = n /\ To[f] = c /\ Named(n, t, f) /\ n # c
    <3>1. Own(n, c, t)
      BY <1>5 DEF Own
    <3>2. f \in File /\ From[f] = n /\ To[f] = c
      BY <1>1, <1>3, <3>1 DEF PartsInv, Offering
    <3> QED BY <1>3, <3>1, <3>2, FileTransferAssumption DEF Named
  <2>3. h \in Thread /\ h.st = "sending" /\ h.id = t /\ h.link = l /\ ~AckIn(h.cmds)
    <3>1. <<>> \in Seq(Command) /\ DOMAIN <<>> = {}
      BY EmptySeq, LenProperties
    <3>2. l \in Nat
      BY <1>3, PacketFields
    <3> QED BY <1>3, <3>1, <3>2 DEF Thread, AckIn
  <2>4. /\ table' \in Tables
        /\ \A a, b \in User, s \in TransferId :
             table'[a][b][s] = IF a = n /\ b = c /\ s = t THEN EntryOf("sending", f) ELSE table[a][b][s]
        /\ EntryOf("sending", f).st = "sending" /\ EntryOf("sending", f).file = f
        /\ EntryOf("sending", f).got = Blank
    <3>1. /\ EntryOf("sending", f) \in Entry /\ EntryOf("sending", f).st = "sending"
          /\ EntryOf("sending", f).file = f /\ EntryOf("sending", f).got = Blank
      BY <2>2, BlankEntry
    <3> HIDE DEF f
    <3> QED BY <1>1, <1>3, <2>1, <3>1, PutOne, EntryThere
  <2>5. /\ GuiKept /\ HistoryStep /\ net' \subseteq net
        /\ link' = link /\ links' = links /\ nextId' = nextId /\ jobs' = jobs /\ whole' = whole
    <3>1. GuiKept
      BY <1>1, <1>3, <2>1, MovingStep
    <3>2. HistoryStep
      BY <1>1, Same DEF RecvAccept
    <3> QED BY <1>2, <1>3, <3>1, <3>2 DEF RecvAccept, Taken, linkVars, history
  <2> HIDE DEF f, h
  <2>6. /\ \A x \in File : thread'[x] = IF x = f THEN h ELSE thread[x]
        /\ thread' \in [File -> Thread]
    BY <1>1, <2>1, <2>3 DEF TypeOK
  <2>7. TypeInv'
    <3>1. jobs' \in [User -> SUBSET Work] /\ net' \subseteq Packet /\ UNCHANGED <<linkVars, nextId>>
      BY <1>1, <2>5 DEF TypeOK, RecvAccept
    <3> QED BY <1>1, <2>4, <2>5, <2>6, <3>1, StepTypes
  <2>8. /\ \A a, b \in User, s \in TransferId : Got(a, b, s)' \subseteq Got(a, b, s)
        /\ \A a, b \in User, s \in TransferId :
             Own(a, b, s)' => Own(a, b, s) /\ table'[a][b][s].file = table[a][b][s].file
        /\ \A a, b \in User, s \in TransferId :
             table'[a][b][s].st = "sending" => table[a][b][s].st = "sending" \/ (a = n /\ b = c /\ s = t)
    <3>1. \A i \in Chunk : Blank[i] \notin File
      BY FileTransferAssumption DEF Blank
    <3>2. \A a, b \in User, s \in TransferId : Got(a, b, s)' \subseteq Got(a, b, s)
      BY <2>4, <3>1 DEF Got
    <3>3. \A a, b \in User, s \in TransferId :
            Own(a, b, s)' => Own(a, b, s) /\ table'[a][b][s].file = table[a][b][s].file
      BY <1>5, <2>4 DEF Own, f
    <3>4. \A a, b \in User, s \in TransferId :
            table'[a][b][s].st = "sending" => table[a][b][s].st = "sending" \/ (a = n /\ b = c /\ s = t)
      BY <2>4
    <3> QED BY <3>2, <3>3, <3>4
  <2>9. \A x \in File : Alive(x)' =>
          \/ x = f /\ thread'[x].id = t /\ thread'[x].link = l
          \/ Alive(x) /\ thread'[x] = thread[x]
    BY <2>3, <2>6 DEF Alive
  <2>10. \A m \in User, s \in TransferId, x \in File : Named(m, s, x)' => Named(m, s, x)
    BY <2>2, <2>5, <2>8, <2>9 DEF Named
  <2>11. \A q \in net : /\ q \in Packet /\ q.from \in User /\ q.to \in User /\ q.id \in TransferId
                        /\ q.link \in 1..links
                        /\ q.type = "CHUNK" => q.file \in File
    BY <1>1, PacketFields DEF TypeOK, PartsInv, LinksOK
  <2>12. ASSUME NEW q \in net, q.type = "CHUNK", q.from = n, q.to = c, q.id = t, q.link = l
         PROVE  q.file = f
    <3>1. Named(n, t, q.file)
      BY <1>3, <2>12 DEF Named
    <3> QED BY <1>1, <1>3, <2>2, <2>11, <2>12, <3>1 DEF PartsInv, NamesOK
  <2>13. Got(c, n, t) \subseteq {f}
    BY <1>1, <1>2, <1>3, <2>2 DEF PartsInv, AcceptFits, Readable, Got
  <2>14. NamesOK' /\ Offering'
    BY <1>1, <2>5, <2>8, <2>10 DEF PartsInv, NamesOK, Offering
  <2>15. LinksOK' /\ ChunksAgree' /\ OneFile'
    <3>1. \A x \in File : Alive(x)' => thread'[x].link \in 1..links
      BY <1>1, <1>3, <2>9 DEF PartsInv, LinksOK
    <3> QED BY <1>1, <2>5, <2>8, <3>1 DEF PartsInv, LinksOK, ChunksAgree, OneFile
  <2>16. ThreadsAgree'
    <3> SUFFICES ASSUME NEW x \in File, Alive(x)', NEW q \in net', q.type = "CHUNK",
                        q.from = From[x], q.to = To[x], q.id = thread'[x].id, q.link = thread'[x].link
                 PROVE  q.file = x
      BY DEF ThreadsAgree
    <3>1. CASE x = f /\ thread'[x].id = t /\ thread'[x].link = l
      BY <2>2, <2>5, <2>12, <3>1
    <3>2. CASE Alive(x) /\ thread'[x] = thread[x]
      BY <1>1, <2>5, <3>2 DEF PartsInv, ThreadsAgree
    <3> QED BY <2>9, <3>1, <3>2
  <2>17. ReadableFits'
    BY <1>1, <2>5, <2>8, <2>11 DEF PartsInv, ReadableFits, Readable
  <2>18. ThreadFits'
    <3> SUFFICES ASSUME NEW x \in File, Alive(x)', thread'[x].link = link[To[x]][From[x]],
                        NEW s \in TransferId, s = thread'[x].id
                 PROVE  Got(To[x], From[x], s)' \subseteq {x}
      BY <2>5, <2>6 DEF ThreadFits, Got, Thread
    <3>0. From[x] \in User /\ To[x] \in User
      BY FileTransferAssumption
    <3>1. CASE x = f /\ thread'[x].id = t /\ thread'[x].link = l
      BY <2>2, <2>8, <2>13, <3>0, <3>1
    <3>2. CASE Alive(x) /\ thread'[x] = thread[x]
      <4>1. Got(To[x], From[x], s) \subseteq {x}
        BY <1>1, <3>2 DEF PartsInv, ThreadFits
      <4> QED BY <2>8, <3>0, <4>1
    <3> QED BY <2>9, <3>1, <3>2
  <2>19. AcceptFits'
    BY <1>1, <2>5, <2>8, <2>10, <2>11 DEF PartsInv, AcceptFits, Readable
  <2>20. SendingFits'
    <3> SUFFICES ASSUME NEW a \in User, NEW b \in User, NEW s \in TransferId,
                        table'[a][b][s].st = "sending"
                 PROVE  /\ Got(b, a, s)' \subseteq {table'[a][b][s].file}
                        /\ \A q \in net' : /\ q.type = "CHUNK" /\ q.from = a /\ q.to = b /\ q.id = s
                                           /\ Readable(q)
                                           => q.file = table'[a][b][s].file
      BY <2>5 DEF SendingFits, Readable
    <3>1. CASE a = n /\ b = c /\ s = t
      <4>1. table'[a][b][s].file = f
        BY <2>4, <3>1
      <4>2. ASSUME NEW q \in net, q.type = "CHUNK", q.from = n, q.to = c, q.id = t, Readable(q)
            PROVE  q.file = f
        <5>1. q.link = link[c][n] /\ q.link # 0
          BY <2>11, <4>2 DEF Readable
        <5>2. link[n][c] = link[c][n]
          BY <1>1, <1>3, <5>1 DEF PartsInv, LinksOK
        <5> QED BY <1>3, <2>12, <4>2, <5>1, <5>2
      <4> QED BY <1>3, <2>5, <2>8, <2>13, <3>1, <4>1, <4>2
    <3>2. CASE ~(a = n /\ b = c /\ s = t)
      <4>1. table'[a][b][s] = table[a][b][s]
        BY <2>4, <3>2
      <4> QED BY <1>1, <2>5, <2>8, <3>2, <4>1 DEF PartsInv, SendingFits
    <3> QED BY <3>1, <3>2
  <2>21. \A a, b \in User, s \in TransferId : Begun(a, b, s) => Begun(a, b, s)' /\ ~(a = n /\ b = c /\ s = t)
    BY <1>5, <2>4, <2>5 DEF Begun
  <2>22. CompletesBegun'
    BY <2>5, <2>11, <2>21 DEF Inv, AckInv, CompletesBegun
  <2>23. AcksEarned'
    <3> SUFFICES ASSUME NEW q \in net, q.type = "ACK", Readable(q)
                 PROVE  /\ Begun(q.to, q.from, q.id)'
                        /\ table'[q.to][q.from][q.id].st = "sending" =>
                             table'[q.to][q.from][q.id].file \in whole
      BY <2>5 DEF AcksEarned, Readable
    <3>1. /\ Begun(q.to, q.from, q.id)
          /\ table[q.to][q.from][q.id].st = "sending" => table[q.to][q.from][q.id].file \in whole
      BY DEF Inv, AckInv, AcksEarned
    <3>2. Begun(q.to, q.from, q.id)' /\ ~(q.to = n /\ q.from = c /\ q.id = t)
      BY <2>11, <2>21, <3>1
    <3> QED BY <2>4, <2>11, <3>1, <3>2
  <2>24. AckMeansWhole'
    <3> SUFFICES ASSUME NEW x \in File
                 PROVE  /\ AckIn(thread'[x].cmds) => x \in whole
                        /\ \A j \in jobs[From[x]] : j.type = "done" /\ j.file = x => x \in whole
      BY <2>5 DEF AckMeansWhole, AckIn
    <3>1. /\ AckIn(thread[x].cmds) => x \in whole
          /\ \A j \in jobs[From[x]] : j.type = "done" /\ j.file = x => x \in whole
      BY DEF Inv, AckInv, AckMeansWhole, AckIn
    <3> QED BY <2>3, <2>6, <3>1
  <2> QED BY <2>7, <2>14, <2>15, <2>16, <2>17, <2>18, <2>19, <2>20, <2>22, <2>23, <2>24
          DEF Inv, AckInv, PartsInv
<1> QED BY <1>4, <1>5

LEMMA RecvChunkInv ==
  ASSUME Inv, NEW n \in User, RecvChunk(n)
  PROVE  Inv'
<1>1. TypeInv /\ TypeOK /\ PartsInv
  BY DEF Inv, TypeInv, AckInv
<1>2. PICK p \in net :
        /\ Arrives(n, p, "CHUNK") /\ Taken(p)
        /\ IF table[n][p.from][p.id].st = "receiving"
           THEN table' = [table EXCEPT ![n][p.from][p.id].got[p.index] = p.file]
           ELSE UNCHANGED table
  BY DEF RecvChunk
<1> DEFINE c == p.from
           t == p.id
           f == p.file
           e == table[n][c][t]
<1>3. /\ p \in Packet /\ p.type = "CHUNK" /\ p.to = n /\ c \in User /\ t \in TransferId
      /\ p.link = link[n][c] /\ p.link \in 1..links /\ Rest(p) \subseteq net
      /\ f \in File /\ p.index \in Chunk /\ e \in Entry
  BY <1>1, <1>2, ReadPacket, PacketFields
<1>4. /\ net' \subseteq net
      /\ UNCHANGED linkVars /\ UNCHANGED nextId /\ UNCHANGED thread /\ UNCHANGED jobs
      /\ UNCHANGED gui /\ UNCHANGED history
  BY <1>2, <1>3 DEF RecvChunk, Taken
<1>5. CASE e.st # "receiving"
  <2>1. QuietStep
    BY <1>1, <1>2, <1>4, <1>5, Same DEF QuietStep
  <2> QED BY <2>1, QuietInv
<1>6. CASE e.st = "receiving"
  <2>1. PICK d : d = [e EXCEPT !.got[p.index] = f]
    OBVIOUS
  <2>2. /\ d \in Entry /\ d.st = e.st /\ d.file = e.file
        /\ \A i \in Chunk : d.got[i] \in {e.got[i], f}
    <3>1. e # NoEntry
      BY <1>6, BlankEntry
    <3> HIDE DEF e, f
    <3> QED BY <1>3, <2>1, <3>1 DEF Entry
  <2>3. Put(n, c, t, d)
    BY <1>2, <1>6, <2>1 DEF Put
  <2> HIDE DEF c, t, f, e
  <2>4. /\ table' \in Tables
        /\ \A a, b \in User, s \in TransferId :
             table'[a][b][s] = IF a = n /\ b = c /\ s = t THEN d ELSE table[a][b][s]
    BY <1>1, <1>3, <2>2, <2>3, PutOne, EntryThere
  <2>5. /\ \A a, b \in User, s \in TransferId :
             /\ table'[a][b][s].st = table[a][b][s].st
             /\ table'[a][b][s].file = table[a][b][s].file
             /\ ~(a = n /\ b = c /\ s = t) => Got(a, b, s)' = Got(a, b, s)
        /\ Got(n, c, t)' \subseteq {f}
    <3>1. Got(n, c, t) \subseteq {f}
      BY <1>1, <1>3 DEF PartsInv, ReadableFits, Readable, c, t, f
    <3>2. Got(n, c, t)' \subseteq Got(n, c, t) \cup {f}
      BY <1>3, <2>2, <2>4 DEF Got, e
    <3> QED BY <1>3, <2>2, <2>4, <3>1, <3>2 DEF Got, e
  <2>6. /\ link' = link /\ links' = links /\ nextId' = nextId /\ thread' = thread /\ jobs' = jobs
        /\ whole' = whole /\ \A x \in File : Alive(x)' <=> Alive(x)
    BY <1>4 DEF linkVars, history, Alive
  <2>7. TypeInv'
    <3>1. /\ thread' \in [File -> Thread] /\ jobs' \in [User -> SUBSET Work] /\ net' \subseteq Packet
          /\ GuiKept /\ HistoryStep
      BY <1>1, <1>4, Same DEF TypeOK
    <3> QED BY <1>1, <1>4, <2>4, <3>1, StepTypes
  <2>8. \A q \in net : /\ q \in Packet /\ q.from \in User /\ q.to \in User /\ q.id \in TransferId
                       /\ q.link \in 1..links
    BY <1>1, PacketFields DEF TypeOK, PartsInv, LinksOK
  <2>9. \A m \in User, s \in TransferId, x \in File : Named(m, s, x)' => Named(m, s, x)
    BY <1>4, <2>5, <2>6 DEF Named, Own
  <2>10. NamesOK' /\ Offering' /\ LinksOK' /\ ChunksAgree' /\ ThreadsAgree'
    <3>1. NamesOK'
      BY <1>1, <2>6, <2>9 DEF PartsInv, NamesOK
    <3>2. Offering'
      BY <1>1, <2>5, <2>6 DEF PartsInv, Offering, Own
    <3>3. LinksOK' /\ ChunksAgree' /\ ThreadsAgree'
      BY <1>1, <1>4, <2>6 DEF PartsInv, LinksOK, ChunksAgree, ThreadsAgree
    <3> QED BY <3>1, <3>2, <3>3
  <2>11. ReadableFits'
    <3> SUFFICES ASSUME NEW q \in net, q.type = "CHUNK", Readable(q)
                 PROVE  Got(q.to, q.from, q.id)' \subseteq {q.file}
      BY <1>4, <2>6 DEF ReadableFits, Readable
    <3>1. CASE q.to = n /\ q.from = c /\ q.id = t
      <4>1. q.file = f
        BY <1>1, <1>3, <3>1 DEF PartsInv, ChunksAgree, Readable, c, t, f
      <4> QED BY <2>5, <3>1, <4>1
    <3>2. CASE ~(q.to = n /\ q.from = c /\ q.id = t)
      <4>1. Got(q.to, q.from, q.id)' = Got(q.to, q.from, q.id)
        BY <2>5, <2>8, <3>2
      <4> QED BY <1>1, <4>1 DEF PartsInv, ReadableFits
    <3> QED BY <3>1, <3>2
  <2>12. ThreadFits'
    <3> SUFFICES ASSUME NEW x \in File, Alive(x), thread[x].link = link[To[x]][From[x]],
                        NEW s \in TransferId, s = thread[x].id
                 PROVE  Got(To[x], From[x], s)' \subseteq {x}
      BY <1>1, <2>6 DEF ThreadFits, Got, TypeOK, Thread
    <3>0. From[x] \in User /\ To[x] \in User
      BY FileTransferAssumption
    <3>1. CASE To[x] = n /\ From[x] = c /\ s = t
      <4>1. p.from = From[x] /\ p.to = To[x] /\ p.id = thread[x].id /\ p.link = thread[x].link
        BY <1>3, <3>1 DEF c, t
      <4>2. f = x
        BY <1>1, <1>3, <4>1 DEF PartsInv, ThreadsAgree, f
      <4> QED BY <2>5, <3>1, <4>2
    <3>2. CASE ~(To[x] = n /\ From[x] = c /\ s = t)
      <4>1. Got(To[x], From[x], s) \subseteq {x}
        BY <1>1 DEF PartsInv, ThreadFits
      <4> QED BY <2>5, <3>0, <3>2, <4>1
    <3> QED BY <3>1, <3>2
  <2>13. AcceptFits'
    <3> SUFFICES ASSUME NEW q \in net, q.type = "ACCEPT", Readable(q),
                        NEW x \in File, x \in Got(q.from, q.to, q.id)'
                 PROVE  q.id < nextId[q.to] /\ \A y \in File : Named(q.to, q.id, y) => y = x
      BY <1>4, <2>6, <2>8, <2>9 DEF AcceptFits, Readable, Got
    <3>1. CASE q.from = n /\ q.to = c /\ q.id = t
      <4>1. x = f
        BY <2>5, <3>1
      <4>2. p.link = link[c][n]
        <5>1. q.link = link[c][n] /\ q.link # 0
          BY <2>8, <3>1 DEF Readable
        <5> QED BY <1>1, <1>3, <5>1 DEF PartsInv, LinksOK
      <4>3. Named(c, t, f)
        BY <1>3, <4>2 DEF Named, c, t, f
      <4> QED BY <1>1, <1>3, <3>1, <4>1, <4>3 DEF PartsInv, NamesOK
    <3>2. CASE ~(q.from = n /\ q.to = c /\ q.id = t)
      <4>1. Got(q.from, q.to, q.id)' = Got(q.from, q.to, q.id)
        BY <2>5, <2>8, <3>2
      <4> QED BY <1>1, <4>1 DEF PartsInv, AcceptFits
    <3> QED BY <3>1, <3>2
  <2>14. SendingFits'
    <3> SUFFICES ASSUME NEW a \in User, NEW b \in User, NEW s \in TransferId,
                        table[a][b][s].st = "sending"
                 PROVE  /\ Got(b, a, s)' \subseteq {table[a][b][s].file}
                        /\ \A q \in net : /\ q.type = "CHUNK" /\ q.from = a /\ q.to = b /\ q.id = s
                                          /\ Readable(q)
                                          => q.file = table[a][b][s].file
      BY <1>4, <2>5, <2>6 DEF SendingFits, Readable
    <3>1. /\ Got(b, a, s) \subseteq {table[a][b][s].file}
          /\ \A q \in net : /\ q.type = "CHUNK" /\ q.from = a /\ q.to = b /\ q.id = s
                            /\ Readable(q)
                            => q.file = table[a][b][s].file
      BY <1>1 DEF PartsInv, SendingFits
    <3>2. CASE b = n /\ a = c /\ s = t
      <4>1. f = table[a][b][s].file
        BY <1>3, <3>1, <3>2 DEF Readable, c, t, f
      <4> QED BY <2>5, <3>1, <3>2, <4>1
    <3>3. CASE ~(b = n /\ a = c /\ s = t)
      BY <2>5, <3>1, <3>3
    <3> QED BY <3>2, <3>3
  <2>15. OneFile'
    BY <1>1, <2>5 DEF PartsInv, OneFile
  <2>16. CompletesBegun' /\ AcksEarned' /\ AckMeansWhole'
    <3>1. \A a, b \in User, s \in TransferId : Begun(a, b, s) => Begun(a, b, s)'
      BY <2>5, <2>6 DEF Begun
    <3>2. CompletesBegun'
      BY <1>4, <2>6, <2>8, <3>1 DEF Inv, AckInv, CompletesBegun
    <3>3. AcksEarned'
      <4> SUFFICES ASSUME NEW q \in net, q.type = "ACK", Readable(q)
                   PROVE  /\ Begun(q.to, q.from, q.id)'
                          /\ table'[q.to][q.from][q.id].st = "sending" =>
                               table'[q.to][q.from][q.id].file \in whole
        BY <1>4, <2>6 DEF AcksEarned, Readable
      <4>1. /\ Begun(q.to, q.from, q.id)
            /\ table[q.to][q.from][q.id].st = "sending" => table[q.to][q.from][q.id].file \in whole
        BY DEF Inv, AckInv, AcksEarned
      <4>2. q.to \in User /\ q.from \in User /\ q.id \in TransferId
        BY <2>8
      <4>3. Begun(q.to, q.from, q.id)'
        BY <3>1, <4>1, <4>2
      <4>4. /\ table'[q.to][q.from][q.id].st = table[q.to][q.from][q.id].st
            /\ table'[q.to][q.from][q.id].file = table[q.to][q.from][q.id].file
        BY <2>5, <4>2
      <4> QED BY <4>1, <4>3, <4>4
    <3> QED BY <2>6, <3>2, <3>3 DEF Inv, AckInv, AckMeansWhole
  <2> QED BY <2>7, <2>10, <2>11, <2>12, <2>13, <2>14, <2>15, <2>16 DEF Inv, AckInv, PartsInv
<1> QED BY <1>5, <1>6


LEMMA RecvCompleteInv ==
  ASSUME Inv, NEW n \in User, RecvComplete(n)
  PROVE  Inv'
<1>1. TypeInv /\ TypeOK /\ PartsInv
  BY DEF Inv, TypeInv, AckInv
<1> DEFINE e(p) == table[n][p.from][p.id]
           good(p) == \A i \in Chunk : e(p).got[i] = e(p).file
           job(p) == Job("verify", p.from, p.id, e(p).file, good(p))
<1>2. PICK p \in net :
        /\ Arrives(n, p, "COMPLETE")
        /\ net' = Rest(p) \cup Answer(n, p.from, p.id)
        /\ IF e(p).st = "receiving" /\ Missing(e(p)) = {}
           THEN /\ Clear(n, p.from, p.id)
                /\ jobs' = [jobs EXCEPT ![n] = @ \cup {job(p)}]
                /\ whole' = whole \cup {f \in File : \A i \in Chunk : e(p).got[i] = f}
           ELSE UNCHANGED <<table, jobs, whole>>
  BY DEF RecvComplete
<1> DEFINE c == p.from
           t == p.id
<1>3. /\ p \in Packet /\ p.type = "COMPLETE" /\ p.to = n /\ c \in User /\ t \in TransferId
      /\ p.link = link[n][c] /\ p.link \in 1..links /\ Rest(p) \subseteq net /\ e(p) \in Entry
  BY <1>1, <1>2, ReadPacket
<1>4. /\ UNCHANGED linkVars /\ UNCHANGED nextId /\ UNCHANGED thread /\ UNCHANGED gui
      /\ accepted' = accepted
  BY DEF RecvComplete
<1>5. CASE ~(e(p).st = "receiving" /\ Missing(e(p)) = {})
  <2>1. UNCHANGED <<table, jobs, whole>>
    BY <1>2, <1>5
  <2>2. NetStep
    <3>1. CASE e(p).st # "receiving"
      <4>1. table[n][c][t].st # "receiving"
        BY <3>1
      <4>2. Answer(n, c, t) = {}
        BY <4>1 DEF Answer
      <4>3. net' \subseteq net
        BY <1>2, <1>3, <4>2
      <4> QED BY <1>1, <4>3, Same
    <3>2. CASE e(p).st = "receiving" /\ Missing(e(p)) # {}
      <4>1. Answer(n, c, t) = Nacks(n, c, t, Missing(e(p))) /\ Missing(e(p)) \in SUBSET Chunk
        BY <3>2 DEF Answer, Missing
      <4>2. \A q \in Nacks(n, c, t, Missing(e(p))) : NewPacket(q)
        <5> HIDE DEF e, c, t
        <5> SUFFICES ASSUME NEW q \in Nacks(n, c, t, Missing(e(p))) PROVE NewPacket(q)
          OBVIOUS
        <5>1. q \in Packet /\ q.type = "NACK" /\ q.link = link[n][c]
          BY <1>1, <1>3, <4>1, NackFields
        <5> QED BY <1>3, <5>1 DEF NewPacket
      <4> HIDE DEF e
      <4> QED BY <1>2, <1>3, <4>1, <4>2 DEF NetStep
    <3> QED BY <1>5, <3>1, <3>2
  <2>3. QuietStep
    BY <1>1, <1>4, <2>1, <2>2, Same DEF QuietStep, history
  <2> QED BY <2>3, QuietInv
<1>6. CASE e(p).st = "receiving" /\ Missing(e(p)) = {}
  <2> DEFINE ack == Signal(n, c, "ACK", t)
             F == {f \in File : \A i \in Chunk : e(p).got[i] = f}
  <2>1. /\ Clear(n, c, t)
        /\ jobs' = [jobs EXCEPT ![n] = @ \cup {job(p)}]
        /\ whole' = whole \cup F
        /\ net' \subseteq net \cup {ack}
    BY <1>2, <1>3, <1>6 DEF Answer
  <2>2. /\ ack \in Packet /\ ack.type = "ACK" /\ ack.from = n /\ ack.to = c /\ ack.id = t
        /\ ack.link = link[n][c]
    BY <1>1, <1>3, SignalFields
  <2>3. \A i \in Chunk : e(p).got[i] \in File
    <3>1. e(p).got \in [Chunk -> File \cup {NoFile}]
      BY <1>3, EntryFields
    <3>2. \A i \in Chunk : e(p).got[i] # NoFile
      BY <1>6 DEF Missing
    <3> QED BY <3>1, <3>2
  <2>4. job(p) \in Work /\ job(p).type = "verify"
    <3>1. e(p).file \in File
      BY <1>3, <1>6, EntryFields
    <3>2. good(p) \in BOOLEAN
      OBVIOUS
    <3> HIDE DEF good, e
    <3> QED BY <1>3, <3>1, <3>2 DEF Job, Work
  <2>5. /\ table' \in Tables
        /\ \A a, b \in User, s \in TransferId :
             table'[a][b][s] = IF a = n /\ b = c /\ s = t THEN NoEntry ELSE table[a][b][s]
        /\ TablesStep
    <3>1. Put(n, c, t, NoEntry)
      BY <2>1 DEF Clear
    <3> HIDE DEF c, t
    <3> QED BY <1>1, <1>3, <2>1, <3>1, BlankEntry, PutOne, EntryThere, ClearStep
  <2>6. /\ link' = link /\ links' = links /\ nextId' = nextId /\ thread' = thread
        /\ \A x \in File : Alive(x)' <=> Alive(x)
        /\ \A m \in User : \A j \in jobs'[m] : j \in jobs[m] \/ j.type = "verify"
        /\ jobs' \in [User -> SUBSET Work]
    <3> HIDE DEF job
    <3> QED BY <1>1, <1>4, <2>1, <2>4 DEF linkVars, Alive, TypeOK
  <2>7. GuiKept /\ HistoryStep /\ net' \subseteq Packet
    <3>1. F \subseteq File
      OBVIOUS
    <3> HIDE DEF F, ack
    <3> QED BY <1>1, <1>4, <2>1, <2>2, <3>1, Untold DEF HistoryStep, TypeOK
  <2>8. TypeInv'
    <3>1. thread' \in [File -> Thread] /\ UNCHANGED <<linkVars, nextId>>
      BY <1>1, <1>4 DEF TypeOK
    <3> QED BY <1>1, <2>5, <2>6, <2>7, <3>1, StepTypes
  \* But for the acknowledgement, the packets left are those of a quiet step.
  <2>9. ASSUME NEW x \in File, Got(n, c, t) \subseteq {x}
        PROVE  x \in whole'
    <3>1. \A i \in Chunk : e(p).got[i] = x
      BY <1>3, <2>3, <2>9 DEF Got
    <3> QED BY <2>1, <3>1
  <2> HIDE DEF c, t, e, ack, F, job
  <2>10. /\ \A a, b \in User, s \in TransferId : Got(a, b, s)' \subseteq Got(a, b, s)
         /\ \A a, b \in User, s \in TransferId :
              Own(a, b, s)' => Own(a, b, s) /\ table'[a][b][s] = table[a][b][s]
         /\ \A a, b \in User, s \in TransferId :
              table'[a][b][s].st = "none" \/ table'[a][b][s] = table[a][b][s]
    <3>1. \A i \in Chunk : Blank[i] \notin File
      BY FileTransferAssumption DEF Blank
    <3> QED BY <2>5, <3>1, BlankEntry DEF Got, Own
  <2>11. \A q \in net : /\ q \in Packet /\ q.from \in User /\ q.to \in User /\ q.id \in TransferId
                        /\ q.link \in 1..links
    BY <1>1, PacketFields DEF TypeOK, PartsInv, LinksOK
  <2>12. \A q \in net' : q \in net \/ (q = ack /\ q.type = "ACK")
    BY <2>1, <2>2
  <2>13. \A m \in User, s \in TransferId, x \in File : Named(m, s, x)' => Named(m, s, x)
    BY <2>6, <2>10, <2>12 DEF Named
  <2>14. NamesOK' /\ Offering' /\ LinksOK'
    <3>1. NamesOK'
      BY <1>1, <2>6, <2>13 DEF PartsInv, NamesOK
    <3>2. Offering'
      BY <1>1, <2>6, <2>10 DEF PartsInv, Offering
    <3>3. ack.link \in 1..links
      BY <1>3, <2>2 DEF c
    <3>4. LinksOK'
      BY <1>1, <2>6, <2>12, <3>3 DEF PartsInv, LinksOK
    <3> QED BY <3>1, <3>2, <3>4
  <2>15. ChunksAgree' /\ ThreadsAgree' /\ OneFile'
    BY <1>1, <2>6, <2>10, <2>12 DEF PartsInv, ChunksAgree, ThreadsAgree, OneFile
  <2>16. ReadableFits'
    <3> SUFFICES ASSUME NEW q \in net, q.type = "CHUNK", Readable(q)
                 PROVE  Got(q.to, q.from, q.id)' \subseteq {q.file}
      BY <2>6, <2>12 DEF ReadableFits, Readable
    <3>1. Got(q.to, q.from, q.id) \subseteq {q.file}
      BY <1>1 DEF PartsInv, ReadableFits
    <3> QED BY <2>10, <2>11, <3>1
  <2>17. ThreadFits'
    <3> SUFFICES ASSUME NEW x \in File, Alive(x), thread[x].link = link[To[x]][From[x]],
                        NEW s \in TransferId, s = thread[x].id
                 PROVE  Got(To[x], From[x], s)' \subseteq {x}
      BY <1>1, <2>6 DEF ThreadFits, Got, TypeOK, Thread
    <3>1. Got(To[x], From[x], s) \subseteq {x} /\ To[x] \in User /\ From[x] \in User
      BY <1>1, FileTransferAssumption DEF PartsInv, ThreadFits
    <3> QED BY <2>10, <3>1
  <2>18. AcceptFits'
    <3> SUFFICES ASSUME NEW q \in net, q.type = "ACCEPT", Readable(q),
                        NEW x \in File, x \in Got(q.from, q.to, q.id)'
                 PROVE  q.id < nextId[q.to] /\ \A y \in File : Named(q.to, q.id, y) => y = x
      BY <2>6, <2>11, <2>12, <2>13 DEF AcceptFits, Readable, Got
    <3>1. x \in Got(q.from, q.to, q.id)
      BY <2>10, <2>11
    <3> QED BY <1>1, <3>1 DEF PartsInv, AcceptFits
  <2>19. SendingFits'
    <3> SUFFICES ASSUME NEW a \in User, NEW b \in User, NEW s \in TransferId,
                        table'[a][b][s].st = "sending"
                 PROVE  /\ Got(b, a, s)' \subseteq {table'[a][b][s].file}
                        /\ \A q \in net : /\ q.type = "CHUNK" /\ q.from = a /\ q.to = b /\ q.id = s
                                          /\ Readable(q)
                                          => q.file = table'[a][b][s].file
      BY <2>6, <2>12 DEF SendingFits, Readable
    <3>1. table'[a][b][s] = table[a][b][s]
      BY <2>10
    <3> QED BY <1>1, <2>10, <3>1 DEF PartsInv, SendingFits
  <2>20. \A a, b \in User, s \in TransferId : Begun(a, b, s) => Begun(a, b, s)'
    BY <2>6, <2>10 DEF Begun
  <2>21. CompletesBegun'
    BY <2>6, <2>11, <2>12, <2>20 DEF Inv, AckInv, CompletesBegun
  <2>22. AcksEarned'
    <3> SUFFICES ASSUME NEW q \in net', q.type = "ACK", Readable(q)
                 PROVE  /\ Begun(q.to, q.from, q.id)'
                        /\ table'[q.to][q.from][q.id].st = "sending" =>
                             table'[q.to][q.from][q.id].file \in whole'
      BY <2>6 DEF AcksEarned, Readable
    <3>1. CASE q \in net
      <4>1. /\ Begun(q.to, q.from, q.id)
            /\ table[q.to][q.from][q.id].st = "sending" => table[q.to][q.from][q.id].file \in whole
        BY <3>1 DEF Inv, AckInv, AcksEarned
      <4> QED BY <2>1, <2>10, <2>11, <2>20, <3>1, <4>1
    <3>2. CASE q = ack
      <4>1. q.to = c /\ q.from = n /\ q.id = t /\ link[n][c] = link[c][n]
        BY <2>2, <3>2 DEF Readable
      <4>2. Begun(c, n, t)
        BY <1>3, <4>1 DEF Inv, AckInv, CompletesBegun, c, t
      <4>3. table'[c][n][t].st = "sending" => table'[c][n][t].file \in whole'
        <5>1. SUFFICES ASSUME table'[c][n][t].st = "sending"
                       PROVE  table'[c][n][t].file \in whole'
          OBVIOUS
        <5>2. table'[c][n][t] = table[c][n][t] /\ table[c][n][t].st = "sending"
          BY <1>3, <2>10, <5>1 DEF c, t
        <5>3. /\ Got(n, c, t) \subseteq {table[c][n][t].file}
              /\ table[c][n][t].file \in File
          BY <1>1, <1>3, <5>2 DEF PartsInv, SendingFits, Offering, Own, c, t
        <5> QED BY <2>9, <5>2, <5>3
      <4> QED BY <1>3, <2>20, <4>1, <4>2, <4>3 DEF c, t
    <3> QED BY <2>12, <3>1, <3>2
  <2>23. AckMeansWhole'
    <3> SUFFICES ASSUME NEW x \in File
                 PROVE  /\ AckIn(thread[x].cmds) => x \in whole'
                        /\ \A j \in jobs'[From[x]] : j.type = "done" /\ j.file = x => x \in whole'
      BY <2>6 DEF AckMeansWhole, AckIn
    <3>1. /\ AckIn(thread[x].cmds) => x \in whole
          /\ \A j \in jobs[From[x]] : j.type = "done" /\ j.file = x => x \in whole
      BY DEF Inv, AckInv, AckMeansWhole, AckIn
    <3> QED BY <2>1, <2>6, <3>1, FileTransferAssumption
  <2> QED BY <2>8, <2>14, <2>15, <2>16, <2>17, <2>18, <2>19, <2>21, <2>22, <2>23
          DEF Inv, AckInv, PartsInv
<1> QED BY <1>5, <1>6


(* The chunks of a round are under the name that the sender's process gave   *)
(* the file, in the session that its thread took along.                      *)
LEMMA SendRoundInv ==
  ASSUME Inv, NEW f \in File, SendRound(f)
  PROVE  Inv'
<1>1. TypeInv /\ TypeOK /\ PartsInv
  BY DEF Inv, TypeInv, AckInv
<1> DEFINE n == From[f]
           c == To[f]
           t == thread[f].id
           l == thread[f].link
<1>2. /\ Alive(f) /\ n \in User /\ c \in User /\ t \in TransferId /\ l \in 1..links
      /\ thread[f] \in Thread /\ thread[f].todo \subseteq Chunk /\ links \in Nat
  <2>1. Alive(f) /\ n \in User /\ c \in User
    BY FileTransferAssumption DEF SendRound, Alive
  <2>2. thread[f] \in Thread
    BY <1>1 DEF TypeOK
  <2>3. t \in TransferId /\ thread[f].todo \subseteq Chunk
    BY <2>2 DEF Thread
  <2>4. l \in 1..links /\ links \in Nat
    BY <1>1, <2>1, FileTransferAssumption DEF PartsInv, LinksOK, TypeOK
  <2> QED BY <2>1, <2>2, <2>3, <2>4
<1>3. /\ table' = table /\ link' = link /\ links' = links /\ nextId' = nextId /\ whole' = whole
      /\ UNCHANGED linkVars /\ UNCHANGED gui /\ UNCHANGED history
  BY DEF SendRound, linkVars, history
<1>4. \A q \in net' :
        \/ q \in net
        \/ /\ q \in Packet /\ q.type = "CHUNK" /\ q.from = n /\ q.to = c /\ q.id = t /\ q.link = l
           /\ q.file = f
  <2>1. \A i \in thread[f].todo :
          LET q == ChunkOf(f, l, t, i)
          IN  /\ q \in Packet /\ q.type = "CHUNK" /\ q.from = n /\ q.to = c /\ q.id = t /\ q.link = l
              /\ q.file = f
    BY <1>2 DEF ChunkOf, Packet
  <2> QED BY <2>1 DEF SendRound
<1>5. /\ thread' \in [File -> Thread]
      /\ \A x \in File : /\ Alive(x)' <=> Alive(x)
                         /\ thread'[x].id = thread[x].id /\ thread'[x].link = thread[x].link
                         /\ thread'[x].cmds = thread[x].cmds
  <2>1. thread \in [File -> Thread]
    BY <1>1 DEF TypeOK
  <2>2. PICK d : d = [thread[f] EXCEPT !.st = "waiting", !.todo = {}]
    OBVIOUS
  <2>3. /\ d \in Thread /\ d.st = "waiting"
        /\ d.id = thread[f].id /\ d.link = thread[f].link /\ d.cmds = thread[f].cmds
    BY <1>2, <2>2 DEF Thread
  <2>4. thread' = [thread EXCEPT ![f] = d]
    BY <2>1, <2>2 DEF SendRound
  <2> QED BY <1>2, <2>1, <2>3, <2>4 DEF Alive
<1>6. /\ jobs' \in [User -> SUBSET Work]
      /\ \A m \in User : \A j \in jobs'[m] : j \in jobs[m] \/ j.type \in {"allSent", "progress"}
  <2>1. PICK types \in {{"allSent"}, {"allSent", "progress"}} :
          jobs' = [jobs EXCEPT ![n] = @ \cup {Job(x, c, t, f, TRUE) : x \in types}]
    BY DEF SendRound
  <2>2. TRUE \in BOOLEAN
    OBVIOUS
  <2> DEFINE job(x) == Job(x, c, t, f, TRUE)
             J == {job(x) : x \in types}
  <2>3. \A x \in types : job(x) \in Work /\ job(x).type \in {"allSent", "progress"}
    BY <1>2, <2>2 DEF Job, Work
  <2>4. jobs \in [User -> SUBSET Work]
    BY <1>1 DEF TypeOK
  <2>5. J \subseteq Work /\ \A j \in J : j.type \in {"allSent", "progress"}
    <3> HIDE DEF job
    <3> QED BY <2>3
  <2>6. jobs' = [jobs EXCEPT ![n] = jobs[n] \cup J]
    BY <2>1, Zenon
  <2>7. n \in User
    BY <1>2
  <2> HIDE DEF n, c, t, J
  <2> QED BY <2>4, <2>5, <2>6, <2>7
<1> HIDE DEF n, c, t, l
<1>7. TypeInv'
  <2>1. GuiKept /\ HistoryStep
    BY <1>1, <1>3, Same
  <2>2. net' \subseteq Packet /\ table' \in Tables
    BY <1>1, <1>3, <1>4 DEF TypeOK, Tables
  <2>3. UNCHANGED <<linkVars, nextId>>
    BY <1>3
  <2> QED BY <1>1, <1>5, <1>6, <2>1, <2>2, <2>3, StepTypes
<1>8. Named(n, t, f)
  BY <1>2 DEF Named, n, t
<1>9. \A m \in User, s \in TransferId, x \in File : Named(m, s, x)' => Named(m, s, x)
  <2> SUFFICES ASSUME NEW m \in User, NEW s \in TransferId, NEW x \in File, Named(m, s, x)'
               PROVE  Named(m, s, x)
    OBVIOUS
  <2>1. CASE \E a \in User : Own(m, a, s)' /\ table'[m][a][s].file = x
    BY <1>3, <2>1 DEF Named, Own
  <2>2. CASE From[x] = m /\ Alive(x)' /\ thread'[x].id = s
    BY <1>5, <2>2 DEF Named
  <2>3. CASE \E j \in jobs'[m] : j.type = "hash" /\ j.id = s /\ j.file = x
    BY <1>6, <2>3 DEF Named
  <2>4. CASE \E p \in net' : /\ p.type = "CHUNK" /\ p.from = m /\ p.link = link'[m][p.to]
                             /\ p.id = s /\ p.file = x
    BY <1>3, <1>4, <1>8, <2>4 DEF Named
  <2> QED BY <2>1, <2>2, <2>3, <2>4 DEF Named
<1>10. NamesOK' /\ Offering' /\ LinksOK'
  <2>1. NamesOK'
    BY <1>1, <1>3, <1>9 DEF PartsInv, NamesOK
  <2>2. Offering'
    BY <1>1, <1>3, <1>6 DEF PartsInv, Offering, Own
  <2>3. LinksOK'
    BY <1>1, <1>2, <1>3, <1>4, <1>5 DEF PartsInv, LinksOK
  <2> QED BY <2>1, <2>2, <2>3
<1>11. \A p \in net : p.type = "CHUNK" /\ p.from = n /\ p.to = c /\ p.id = t /\ p.link = l => p.file = f
  BY <1>1, <1>2 DEF PartsInv, ThreadsAgree, n, c, t, l
<1>12. ChunksAgree'
  BY <1>1, <1>4, <1>11 DEF PartsInv, ChunksAgree
<1>13. ThreadsAgree'
  <2> SUFFICES ASSUME NEW x \in File, Alive(x), NEW p \in net', p.type = "CHUNK",
                      p.from = From[x], p.to = To[x], p.id = thread[x].id, p.link = thread[x].link
               PROVE  p.file = x
    BY <1>5 DEF ThreadsAgree
  <2>1. CASE p \in net
    BY <1>1, <2>1 DEF PartsInv, ThreadsAgree
  <2>2. CASE p.from = n /\ p.id = t /\ p.file = f
    <3>1. Named(n, t, x)
      BY <2>2 DEF Named
    <3> QED BY <1>1, <1>2, <1>8, <2>2, <3>1 DEF PartsInv, NamesOK
  <2> QED BY <1>4, <2>1, <2>2
<1>14. ReadableFits'
  <2> SUFFICES ASSUME NEW p \in net', p.type = "CHUNK", Readable(p)
               PROVE  Got(p.to, p.from, p.id) \subseteq {p.file}
    BY <1>3 DEF ReadableFits, Readable, Got
  <2>1. CASE p \in net
    BY <1>1, <2>1 DEF PartsInv, ReadableFits
  <2>2. CASE p.from = n /\ p.to = c /\ p.id = t /\ p.link = l /\ p.file = f
    <3>1. l = link[c][n]
      BY <2>2 DEF Readable
    <3>2. Got(c, n, t) \subseteq {f}
      BY <1>1, <1>2, <3>1 DEF PartsInv, ThreadFits, n, c, t, l
    <3> QED BY <2>2, <3>2
  <2> QED BY <1>4, <2>1, <2>2
<1>15. ThreadFits' /\ OneFile'
  <2>1. ThreadFits'
    BY <1>1, <1>3, <1>5 DEF PartsInv, ThreadFits, Got
  <2>2. OneFile'
    BY <1>1, <1>3 DEF PartsInv, OneFile, Got
  <2> QED BY <2>1, <2>2
<1>16. AcceptFits'
  <2>1. \A p \in net' : p.type = "ACCEPT" => p \in net
    BY <1>4
  <2>2. \A p \in net : p.from \in User /\ p.to \in User /\ p.id \in TransferId
    BY <1>1, PacketFields DEF TypeOK
  <2> QED BY <1>1, <1>3, <1>9, <2>1, <2>2 DEF PartsInv, AcceptFits, Readable, Got
<1>17. SendingFits'
  <2> SUFFICES ASSUME NEW a \in User, NEW b \in User, NEW s \in TransferId, table[a][b][s].st = "sending"
               PROVE  /\ Got(b, a, s) \subseteq {table[a][b][s].file}
                      /\ \A q \in net' : /\ q.type = "CHUNK" /\ q.from = a /\ q.to = b /\ q.id = s
                                         /\ Readable(q)
                                         => q.file = table[a][b][s].file
    BY <1>3 DEF SendingFits, Readable, Got
  <2>1. /\ Got(b, a, s) \subseteq {table[a][b][s].file}
        /\ \A q \in net : /\ q.type = "CHUNK" /\ q.from = a /\ q.to = b /\ q.id = s
                          /\ Readable(q)
                          => q.file = table[a][b][s].file
    BY <1>1 DEF PartsInv, SendingFits
  <2>2. CASE a = n /\ s = t
    <3>1. table[a][b][s].file \in File /\ Named(n, t, table[a][b][s].file)
      BY <1>1, <2>2 DEF PartsInv, Offering, Own, Named
    <3>2. table[a][b][s].file = f
      BY <1>1, <1>2, <1>8, <3>1 DEF PartsInv, NamesOK
    <3> QED BY <1>4, <2>1, <3>2
  <2>3. CASE ~(a = n /\ s = t)
    BY <1>4, <2>1, <2>3
  <2> QED BY <2>2, <2>3
<1>18. CompletesBegun' /\ AcksEarned'
  <2>1. \A p \in net' : p.type \in {"COMPLETE", "ACK"} => p \in net
    BY <1>4
  <2> QED BY <1>3, <2>1 DEF Inv, AckInv, CompletesBegun, AcksEarned, Readable, Begun
<1>19. AckMeansWhole'
  BY <1>3, <1>5, <1>6, FileTransferAssumption DEF Inv, AckInv, AckMeansWhole
<1> QED BY <1>7, <1>10, <1>12, <1>13, <1>14, <1>15, <1>16, <1>17, <1>18, <1>19 DEF Inv, AckInv, PartsInv


----------------------------------------------------------------------------
(* The invariant holds. *)

LEMMA InitInv == Init => Inv
<1> SUFFICES ASSUME Init PROVE Inv
  OBVIOUS
<1>1. TypeOK
  <2>1. NoChat \in Chat
    <3>1. <<>> \in Seq(Card)
      OBVIOUS
    <3> QED BY <3>1 DEF NoChat, Chat
  <2>2. NoThread \in Thread
    <3>1. <<>> \in Seq(Command)
      OBVIOUS
    <3> QED BY <3>1, Ids DEF NoThread, Thread
  <2>3. NoEntry \in Entry
    BY BlankEntry
  <2>4. 0 \in 0..0 /\ 0 \in 0..MaxLink /\ 0 \in 0..MaxRestarts /\ 0 \in 0..MaxCalls
    BY FileTransferAssumption
  <2> QED BY <2>1, <2>2, <2>3, <2>4 DEF Init, TypeOK
<1>2. IdsCounted
  <2> SUFFICES ASSUME NEW n \in User
               PROVE  nextId[n] <= 1 + Cardinality({f \in File : From[f] = n /\ Offered(n, f)})
    BY DEF IdsCounted
  <2> DEFINE S == {f \in File : From[f] = n /\ Offered(n, f)}
  <2>1. Cardinality(S) \in Nat
    BY Ids
  <2>2. nextId[n] = 1
    BY DEF Init
  <2> HIDE DEF S
  <2>3. nextId[n] <= 1 + Cardinality(S)
    BY <2>1, <2>2
  <2> QED BY <2>3 DEF S
<1>3. /\ \A n, c \in User, t \in TransferId : table[n][c][t].st = "none" /\ Got(n, c, t) = {}
      /\ \A x \in File : ~Alive(x) /\ ~AckIn(thread[x].cmds)
      /\ \A n \in User : jobs[n] = {}
      /\ net = {}
  <2>1. \A i \in Chunk : Blank[i] \notin File
    BY FileTransferAssumption DEF Blank
  <2>2. \A n, c \in User, t \in TransferId : table[n][c][t] = NoEntry
    BY DEF Init
  <2>3. \A n, c \in User, t \in TransferId : Got(n, c, t) = {}
    BY <2>1, <2>2, BlankEntry DEF Got
  <2>4. \A x \in File : ~Alive(x) /\ ~AckIn(thread[x].cmds)
    BY DEF Init, NoThread, Alive, AckIn
  <2> QED BY <2>2, <2>3, <2>4, BlankEntry DEF Init
<1>4. NamesOK /\ Offering
  <2>1. \A n \in User, t \in TransferId, f \in File : ~Named(n, t, f)
    BY <1>3 DEF Named, Own
  <2> QED BY <1>3, <2>1 DEF NamesOK, Offering, Own
<1>5. LinksOK
  BY <1>3 DEF Init, LinksOK
<1>6. ChunksAgree /\ ThreadsAgree /\ ReadableFits /\ AcceptFits /\ CompletesBegun /\ AcksEarned
  BY <1>3 DEF ChunksAgree, ThreadsAgree, ReadableFits, AcceptFits, CompletesBegun, AcksEarned
<1>7. ThreadFits /\ SendingFits /\ OneFile
  BY <1>3 DEF ThreadFits, SendingFits, OneFile
<1>8. AckMeansWhole
  BY <1>3, FileTransferAssumption DEF AckMeansWhole, AckIn
<1> QED BY <1>1, <1>2, <1>4, <1>5, <1>6, <1>7, <1>8 DEF Inv, TypeInv, AckInv, PartsInv

LEMMA StepInv == Inv /\ [Next]_vars => Inv'
<1> SUFFICES ASSUME Inv, [Next]_vars PROVE Inv'
  OBVIOUS
<1>1. TypeOK /\ PartsInv /\ AcksEarned
  BY DEF Inv, TypeInv, AckInv
<1>2. CASE UNCHANGED vars
  <2>1. QuietStep
    BY <1>1, <1>2, Same DEF vars, linkVars, history, QuietStep
  <2> QED BY <2>1, QuietInv
<1>3. ASSUME NEW n \in User,
             \/ AcceptFileTransfer(n) \/ RejectFileTransfer(n) \/ CancelFileTransfer(n)
             \/ RecvOffer(n) \/ RecvReject(n) \/ RecvNack(n) \/ RecvAck(n) \/ RecvCancel(n)
             \/ DrainHash(n) \/ DrainVerify(n) \/ DrainAllSent(n) \/ DrainDone(n) \/ DrainProgress(n)
             \/ ResendComplete(n) \/ ShowProgress(n) \/ TransferTimeout(n)
             \/ Handshake(n) \/ SessionLost(n) \/ PeerTimeout(n)
             \/ YieldSocket(n) \/ ReclaimSocket(n) \/ Restart(n)
      PROVE  Inv'
  <2>1. QuietStep
    BY <1>1, <1>3, AcceptStep, RejectStep, CancelStep, RecvOfferStep, RecvRejectStep, RecvNackStep,
       RecvAckStep, RecvCancelStep, DrainHashStep, DrainVerifyStep, DrainAllSentStep, DrainDoneStep,
       DrainProgressStep, TimerStep, HandshakeStep, SessionLostStep, PeerTimeoutStep,
       YieldSocketStep, ReclaimSocketStep, RestartStep
  <2> QED BY <2>1, QuietInv
<1>4. ASSUME NEW n \in User, SendFileOffer(n) \/ RecvAccept(n) \/ RecvChunk(n) \/ RecvComplete(n)
      PROVE  Inv'
  BY <1>4, OfferInv, RecvAcceptInv, RecvChunkInv, RecvCompleteInv
<1>5. ASSUME NEW f \in File, SendRound(f) \/ NextCommand(f)
      PROVE  Inv'
  BY <1>1, <1>5, SendRoundInv, NextCommandStep, QuietInv
<1>6. CASE Lose
  BY <1>1, <1>6, LoseStep, QuietInv
<1> QED BY <1>2, <1>3, <1>4, <1>5, <1>6 DEF Next

LEMMA Invariance == Spec => []Inv
<1>1. Init => Inv
  BY InitInv
<1>2. Inv /\ [Next]_vars => Inv'
  BY StepInv
<1> QED BY <1>1, <1>2, PTL DEF Spec

\* Every variable keeps its type, for any files and users: no process runs out of
\* ids, since each id that SendFileOffer takes from next_transfer_id has a file
\* card of its own, and cards stay, through every restart and every call.
THEOREM TransferTypes == Spec => []TypeOK
<1>1. Inv => TypeOK
  BY DEF Inv, TypeInv
<1> QED BY <1>1, Invariance, PTL

\* What a receiver writes into the .part file of a transfer is of one file only,
\* whatever was lost, repeated or reordered, although the sender's ids start
\* again at 1 with every restart while the receiver's entries stay: a chunk is
\* read in the session it was sent in only, and there its id names one file.
THEOREM OneFileEver == Spec => []OneFilePerPart
<1>1. ASSUME Inv PROVE OneFilePerPart
  <2> SUFFICES ASSUME NEW n \in User, NEW c \in User, NEW t \in TransferId
               PROVE  Cardinality({table[n][c][t].got[i] : i \in Chunk} \ {NoFile}) <= 1
    BY DEF OneFilePerPart
  <2> DEFINE F == {table[n][c][t].got[i] : i \in Chunk} \ {NoFile}
  <2>1. F \subseteq Got(n, c, t)
    <3>1. table[n][c][t].got \in [Chunk -> File \cup {NoFile}]
      BY <1>1, EntryFields DEF Inv, TypeInv, TypeOK
    <3> QED BY <3>1 DEF Got
  <2>2. \A f, g \in F : f = g
    BY <1>1, <2>1 DEF Inv, AckInv, PartsInv, OneFile
  <2>3. F = {} \/ \E f \in F : F = {f}
    <3> HIDE DEF F
    <3> QED BY <2>2
  <2>4. Cardinality(F) \in {0, 1}
    <3> HIDE DEF F
    <3> QED BY <2>3, FS_EmptySet, FS_Singleton
  <2> HIDE DEF F
  <2>5. Cardinality(F) <= 1
    BY <2>4
  <2> QED BY <2>5 DEF F
<1> QED BY <1>1, Invariance, PTL

\* A sender thread is told that its file has arrived, and reports so to the
\* daemon, only when the addressee has held every chunk of that very file: an ACK
\* that the sender can still read answers a FILE_COMPLETE of the session, so that
\* its id is still that of the file the receiver had the chunks of.
THEOREM AckAlwaysMeansWhole == Spec => []AckMeansWhole
<1>1. Inv => AckMeansWhole
  BY DEF Inv, AckInv
<1> QED BY <1>1, Invariance, PTL

----------------------------------------------------------------------------
(* Cards: what the window shows of a file, when a chat has one             *)

\* No two files are between the same two users.
OneFilePerChat ==
  \A f, g \in File :
    (From[f] = From[g] /\ To[f] = To[g]) \/ (From[f] = To[g] /\ To[f] = From[g]) => f = g
\* The network delivers an offer, and its acceptance, once.
OfferedOnce == "OFFER" \notin Repeated /\ "ACCEPT" \notin Repeated

Ours(f) == gui[From[f]][To[f]].cards
Theirs(f) == gui[To[f]][From[f]].cards
SendEntry(f, t) == table[From[f]][To[f]][t]
RecvEntry(f, t) == table[To[f]][From[f]][t]
Forth(f, p) == p.from = From[f] /\ p.to = To[f]
Back(f, p) == p.from = To[f] /\ p.to = From[f]
SendJobs(f) == {j \in jobs[From[f]] : j.with = To[f]}
RecvJobs(f) == {j \in jobs[To[f]] : j.with = From[f]}

\* Everything about f has the id t.
EntriesNumbered(f, t) ==
  /\ \A x \in TransferId : SendEntry(f, x).st # "none" =>
       x = t /\ SendEntry(f, x).st \in {"hashing", "offered", "sending"} /\ SendEntry(f, x).file = f
  /\ \A x \in TransferId : RecvEntry(f, x).st # "none" =>
       /\ x = t /\ RecvEntry(f, x).st \in {"incoming", "receiving"} /\ RecvEntry(f, x).file = f
       /\ \A i \in Chunk : RecvEntry(f, x).got[i] \in {NoFile, f}
PacketsNumbered(f, t) ==
  /\ \A p \in net : Forth(f, p) =>
       /\ p.id = t /\ p.type \in {"OFFER", "CHUNK", "COMPLETE", "CANCEL"}
       /\ p.type \in {"OFFER", "CHUNK"} => p.file = f
  /\ \A p \in net : Back(f, p) =>
       p.id = t /\ p.type \in {"ACCEPT", "REJECT", "NACK", "ACK", "CANCEL"}
JobsNumbered(f, t) ==
  /\ \A j \in SendJobs(f) :
       j.id = t /\ j.file = f /\ j.type # "verify" /\ (j.type = "hash" => j.good = TRUE)
  /\ \A j \in RecvJobs(f) : j.id = t /\ j.file = f /\ j.type = "verify"
  /\ Alive(f) => thread[f].id = t
CardsNumbered(f, t) ==
  /\ \A i \in DOMAIN Ours(f) :
       /\ i = 1 /\ Ours(f)[i].file = f /\ Ours(f)[i].mine /\ Ours(f)[i].id \in {0, t}
       /\ Ours(f)[i].st = "Accepted" => Ours(f)[i].id = t
  /\ \A i \in DOMAIN Theirs(f) :
       i = 1 /\ Theirs(f)[i].file = f /\ ~Theirs(f)[i].mine /\ Theirs(f)[i].id = t
Numbered(f, t) ==
  /\ t \in TransferId \ {0}
  /\ EntriesNumbered(f, t) /\ PacketsNumbered(f, t) /\ JobsNumbered(f, t) /\ CardsNumbered(f, t)

\* An offer is made once, comes once, and is accepted once.
Says(q, states) == \E i \in DOMAIN q : q[i].st \in states
OpenStates == {"Offered", "Accepted"}
Hashes(f) == \E j \in SendJobs(f) : j.type = "hash"
OfferOut(f) == \E p \in net : Forth(f, p) /\ p.type = "OFFER"
AcceptOut(f) == \E p \in net : Back(f, p) /\ p.type = "ACCEPT"
Unoffered(f) ==
  /\ SendJobs(f) = {} /\ RecvJobs(f) = {} /\ Theirs(f) = <<>>
  /\ ~Alive(f) /\ \A p \in net : ~Forth(f, p) /\ ~Back(f, p)
InTurn(f, s, r) ==
  /\ Ours(f) = <<>> => s = "none" /\ r = "none" /\ Unoffered(f)
  /\ Hashes(f) \/ s = "hashing" =>
       s \in {"none", "hashing"} /\ ~OfferOut(f) /\ Theirs(f) = <<>>
  /\ OfferOut(f) => s \in {"none", "offered"} /\ Theirs(f) = <<>>
  /\ Theirs(f) = <<>> => r = "none" /\ RecvJobs(f) = {} /\ ~AcceptOut(f)
  /\ r = "incoming" => ~AcceptOut(f)
  /\ r = "incoming" \/ AcceptOut(f) => s \in {"none", "offered"}
  /\ \A p, q \in net : Forth(f, p) /\ Forth(f, q) /\ p.type = "OFFER" /\ q.type = "OFFER" => p = q
  /\ \A p, q \in net : Back(f, p) /\ Back(f, q) /\ p.type = "ACCEPT" /\ q.type = "ACCEPT" => p = q

\* A card is open while there is something to decide or to wait for.
CardsOpen(f, s, r) ==
  /\ s # "none" <=> Says(Ours(f), OpenStates)
  /\ r # "none" => Says(Theirs(f), OpenStates) /\ RecvJobs(f) = {}
  /\ Says(Theirs(f), OpenStates) => r # "none" \/ RecvJobs(f) # {}
  /\ Says(Theirs(f), {"Offered"}) => r = "incoming"
Earned(f) ==
  /\ Says(Ours(f), {"Completed"}) \/ Says(Theirs(f), {"Completed"}) => f \in whole
  /\ \A p \in net : Back(f, p) /\ p.type = "ACK" => f \in whole
  /\ \A j \in RecvJobs(f) : j.good = TRUE => f \in whole

OnCard(f, t) ==
  LET s == SendEntry(f, t).st  r == RecvEntry(f, t).st
  IN  Numbered(f, t) /\ InTurn(f, s, r) /\ CardsOpen(f, s, r) /\ Earned(f)

\* Users with no file between them have nothing to do with each other.
Silent(n, c) ==
  /\ \A t \in TransferId : table[n][c][t].st = "none"
  /\ gui[n][c].cards = <<>>
  /\ \A p \in net : ~(p.from = n /\ p.to = c)
  /\ \A j \in jobs[n] : j.with # c
Between(f, n, c) == (From[f] = n /\ To[f] = c) \/ (From[f] = c /\ To[f] = n)

CardsInv ==
  /\ \A f \in File : \E t \in TransferId : OnCard(f, t)
  /\ \A n, c \in User : Silent(n, c) \/ \E f \in File : Between(f, n, c)

----------------------------------------------------------------------------
(* The one card of a chat *)

\* q goes on as h: the same cards; an open one may have been marked, under t.
Follow(q, h, t) ==
  /\ DOMAIN h = DOMAIN q
  /\ \A i \in DOMAIN q :
       /\ h[i].file = q[i].file /\ h[i].mine = q[i].mine /\ h[i].id \in {q[i].id, t}
       /\ (h[i].st = q[i].st /\ h[i].id = q[i].id)
          \/ (q[i].st \in OpenStates /\ h[i].st # "Offered" /\ (h[i].st = "Accepted" => h[i].id = t))
\* The open card of q is marked with st.
Marks(q, h, t, st) ==
  /\ Follow(q, h, t)
  /\ \A i \in DOMAIN q : h[i].st = IF q[i].st \in OpenStates THEN st ELSE q[i].st

\* A chat of one card, which an event of the transfer t finds.
Meets(q, t) == \A i \in DOMAIN q : i = 1 /\ (q[i].id = t \/ (q[i].id = 0 /\ q[i].mine))

LEMMA OneMax ==
  /\ Max({1}) = 1 /\ Min({1}) = 1
BY DEF Max, Min

LEMMA UpdatedMarks ==
  ASSUME NEW g \in Chat, NEW t \in TransferId, NEW st \in CardState \ {"Offered"}, Meets(g.cards, t)
  PROVE  Marks(g.cards, Updated(g.cards, t, st), t, st)
<1> DEFINE q == g.cards
           exact == {i \in DOMAIN q : q[i].id = t /\ Open(q[i])}
           unnamed == {i \in DOMAIN q : q[i].id = 0 /\ q[i].mine /\ Open(q[i])}
           h == [q EXCEPT ![1].id = t, ![1].st = st]
<1>1. \A i \in DOMAIN q : i = 1 /\ q[i] \in Card
  BY ChatFields DEF Meets
<1>2. CASE \A i \in DOMAIN q : ~Open(q[i])
  <2>1. exact = {} /\ unnamed = {}
    BY <1>2
  <2>2. Updated(q, t, st) = q
    BY <2>1 DEF Updated
  <2> QED BY <1>2, <2>2 DEF Marks, Follow, Open, OpenStates
<1>3. CASE \E i \in DOMAIN q : Open(q[i])
  <2>1. 1 \in DOMAIN q /\ Open(q[1]) /\ \A i \in DOMAIN q : i = 1
    BY <1>1, <1>3
  <2>2. exact = {1} \/ (exact = {} /\ unnamed = {1})
    BY <2>1 DEF Meets
  <2>3. Updated(q, t, st) = h
    BY <2>2, OneMax DEF Updated
  <2>4. PICK x \in Card : x = q[1]
    BY <1>1, <2>1
  <2>5. PICK y : y = [x EXCEPT !.id = t, !.st = st]
    OBVIOUS
  <2>6. y.id = t /\ y.st = st /\ y.file = x.file /\ y.mine = x.mine
    BY <2>5 DEF Card
  <2>7. PICK z : z = [q EXCEPT ![1] = y]
    OBVIOUS
  <2>8. q \in Seq(Card) /\ DOMAIN z = DOMAIN q /\ z[1] = y
    BY <2>1, <2>7, ChatFields
  <2>9. z = h
    BY <2>1, <2>4, <2>5, <2>7, <2>8
  <2>10. Marks(q, z, t, st)
    BY <2>1, <2>4, <2>6, <2>8 DEF Marks, Follow, Open, OpenStates
  <2> QED BY <2>3, <2>9, <2>10
<1> QED BY <1>2, <1>3

LEMMA MarkedMarks ==
  ASSUME NEW g \in Chat, NEW t \in TransferId, NEW st \in CardState \ {"Offered"}, Meets(g.cards, t)
  PROVE  /\ Marks(g.cards, Marked(g, t, st).cards, t, st)
         /\ Marks(g.cards, Ended(g, t, st).cards, t, st)
<1>1. Marked(g, t, st).cards = Updated(g.cards, t, st)
  BY DEF Marked, Chat
<1>2. Ended(g, t, st).cards = Marked(g, t, st).cards
  BY MarkedKept DEF Ended, Chat
<1> QED BY <1>1, <1>2, UpdatedMarks

LEMMA MarksMeets ==
  ASSUME NEW q, NEW h, NEW t, NEW st, Meets(q, t), Marks(q, h, t, st)
  PROVE  Meets(h, t)
BY DEF Marks, Follow, Meets

\* Progress marks it as accepted, or shows nothing new.
LEMMA MovingMarks ==
  ASSUME NEW g \in Chat, NEW t \in TransferId, Meets(g.cards, t)
  PROVE  \/ Moving(g, t).cards = g.cards
         \/ Marks(g.cards, Moving(g, t).cards, t, "Accepted")
<1>1. Marked(g, t, "Accepted") \in Chat /\ Marks(g.cards, Marked(g, t, "Accepted").cards, t, "Accepted")
  BY MarkedKept, MarkedMarks DEF CardState
<1> QED BY <1>1 DEF Moving, Chat

\* What ends a card, and then ends it again, ends it once.
LEMMA MarkedTwice ==
  ASSUME NEW q, NEW h, NEW z, NEW t, NEW st, NEW tt, st \notin OpenStates, Marks(q, h, t, st), Marks(h, z, t, tt)
  PROVE  Marks(q, z, t, st)
<1>1. \A i \in DOMAIN h : h[i].st \notin OpenStates
  BY DEF Marks, Follow
<1>2. \A i \in DOMAIN h : z[i].st = h[i].st /\ z[i].id = h[i].id /\ z[i].file = h[i].file /\ z[i].mine = h[i].mine
  BY <1>1 DEF Marks, Follow
<1> QED BY <1>2 DEF Marks, Follow

LEMMA ReloadedMarks ==
  ASSUME NEW g \in Chat, NEW t
  PROVE  Marks(g.cards, Reloaded(g).cards, t, "Failed")
<1>1. \A i \in DOMAIN g.cards : g.cards[i] \in Card
  BY ChatFields
<1> DEFINE h == [i \in DOMAIN g.cards |->
                   IF Open(g.cards[i]) THEN [g.cards[i] EXCEPT !.st = "Failed"] ELSE g.cards[i]]
<1>2. Reloaded(g).cards = h
  BY DEF Reloaded
<1>3. \A x \in Card : LET y == [x EXCEPT !.st = "Failed"]
                      IN  y.st = "Failed" /\ y.id = x.id /\ y.file = x.file /\ y.mine = x.mine
  BY DEF Card
<1>4. \A i \in DOMAIN g.cards :
        /\ h[i].file = g.cards[i].file /\ h[i].mine = g.cards[i].mine /\ h[i].id = g.cards[i].id
        /\ h[i].st = IF g.cards[i].st \in OpenStates THEN "Failed" ELSE g.cards[i].st
  BY <1>1, <1>3 DEF Open, OpenStates
<1>5. DOMAIN h = DOMAIN g.cards
  OBVIOUS
<1> HIDE DEF h
<1>6. Marks(g.cards, h, t, "Failed")
  BY <1>4, <1>5 DEF Marks, Follow, OpenStates
<1> QED BY <1>2, <1>6

LEMMA MarkedSays ==
  ASSUME NEW q, NEW h, NEW t, NEW st, Marks(q, h, t, st)
  PROVE  /\ st \in OpenStates => (Says(h, OpenStates) <=> Says(q, OpenStates))
         /\ st \notin OpenStates => ~Says(h, OpenStates)
         /\ st # "Completed" => (Says(h, {"Completed"}) <=> Says(q, {"Completed"}))
         /\ st # "Offered" => ~Says(h, {"Offered"})
BY DEF Marks, Follow, Says, OpenStates

LEMMA FollowSelf ==
  ASSUME NEW q, NEW t
  PROVE  Follow(q, q, t)
BY DEF Follow

\* A hash table's order does not matter to one card.
LEMMA AllFailedMarks ==
  ASSUME NEW g \in Chat, NEW t \in TransferId, NEW T, T = {} \/ T = {t}, Meets(g.cards, t),
         NEW h \in AllFailed(g, T)
  PROVE  /\ T = {} => h.cards = g.cards
         /\ T # {} => Marks(g.cards, h.cards, t, "Failed")
<1> DEFINE cards == g.cards
           exact(x) == {i \in DOMAIN cards : cards[i].id = x /\ Open(cards[i])}
           unnamed == {i \in DOMAIN cards : cards[i].id = 0 /\ cards[i].mine /\ Open(cards[i])}
           cardless == {x \in T : exact(x) = {}}
           before(i) == {j \in unnamed : j < i}
           oldest == {i \in unnamed : Cardinality(before(i)) < Cardinality(cardless)}
           over == {Max(exact(x)) : x \in T \ cardless}
           Failed(name) ==
             [i \in DOMAIN cards |->
                IF i \in oldest THEN [cards[i] EXCEPT !.id = name[i], !.st = "Failed"]
                ELSE IF i \in over THEN [cards[i] EXCEPT !.st = "Failed"]
                ELSE cards[i]]
<1>1. PICK name \in Injection(oldest, cardless) :
        h = [cards |-> Failed(name), progress |-> g.progress \ T]
  BY DEF AllFailed
<1>2. h.cards = Failed(name)
  BY <1>1
<1>3. \A i \in DOMAIN cards : i = 1 /\ cards[i] \in Card
  BY ChatFields DEF Meets
<1>4. cards = [i \in DOMAIN cards |-> cards[i]]
  BY ChatFields
<1>5. name \in [oldest -> cardless]
  <2> HIDE DEF oldest, cardless
  <2> QED BY <1>1 DEF Injection, IsInjective
<1>6. T = {} => oldest = {} /\ over = {}
  <2>1. SUFFICES ASSUME T = {} PROVE oldest = {} /\ over = {}
    OBVIOUS
  <2>2. cardless = {} /\ over = {}
    BY <2>1
  <2>3. \A i \in unnamed : i = 1
    BY <1>3
  <2>4. \A i \in unnamed : before(i) = {}
    BY <2>3
  <2> HIDE DEF unnamed, cardless, before, over
  <2> QED BY <2>2, <2>4, FS_EmptySet
<1>7. T = {} => h.cards = g.cards
  <2> HIDE DEF oldest, over
  <2> QED BY <1>2, <1>4, <1>6
<1>8. ASSUME T = {t}
      PROVE  Marks(g.cards, h.cards, t, "Failed")
  <2>1. \A i \in DOMAIN cards : Open(cards[i]) =>
          (i \in oldest /\ name[i] = t) \/ (i \notin oldest /\ i \in over /\ cards[i].id = t)
    <3> SUFFICES ASSUME NEW i \in DOMAIN cards, Open(cards[i])
                 PROVE  (i \in oldest /\ name[i] = t) \/ (i \notin oldest /\ i \in over /\ cards[i].id = t)
      OBVIOUS
    <3>1. i = 1 /\ \A j \in DOMAIN cards : j = 1
      BY <1>3
    <3>2. CASE cards[i].id = t
      <4>1. exact(t) = {1}
        BY <3>1, <3>2
      <4>2. cardless = {} /\ over = {1}
        <5>1. cardless = {}
          BY <1>8, <4>1
        <5>2. T \ cardless = {t}
          BY <1>8, <5>1
        <5>3. over = {Max(exact(t))}
          <6> HIDE DEF exact, cardless
          <6> QED BY <5>2
        <5>4. over = {1}
          <6> HIDE DEF exact, over
          <6> QED BY <4>1, <5>3, OneMax
        <5> QED BY <5>1, <5>4
      <4>3. oldest = {}
        <5>1. \A k \in unnamed : before(k) = {}
          BY <3>1
        <5> HIDE DEF unnamed, cardless, before, over
        <5>2. Cardinality(cardless) = 0 /\ \A k \in unnamed : Cardinality(before(k)) = 0
          BY <4>2, <5>1, FS_EmptySet
        <5>3. \A k \in unnamed : ~(Cardinality(before(k)) < Cardinality(cardless))
          BY <5>2
        <5> QED BY <5>3
      <4>4. i \in over /\ i \notin oldest
        <5> HIDE DEF oldest, over
        <5> QED BY <3>1, <4>2, <4>3
      <4> HIDE DEF oldest, over, exact, unnamed, cardless, before
      <4> QED BY <3>2, <4>4
    <3>3. CASE cards[i].id # t
      <4>1. cards[i].id = 0 /\ cards[i].mine
        BY <3>3 DEF Meets
      <4>2. exact(t) = {} /\ unnamed = {1}
        BY <3>1, <3>3, <4>1
      <4>3. cardless = {t}
        BY <1>8, <4>2
      <4>4. before(1) = {}
        BY <4>2
      <4>5. oldest = {1}
        <5>1. Cardinality({}) = 0 /\ Cardinality({t}) = 1
          BY FS_EmptySet, FS_Singleton
        <5>2. Cardinality(before(1)) < Cardinality(cardless)
          <6> HIDE DEF before, cardless
          <6> QED BY <4>3, <4>4, <5>1
        <5> HIDE DEF unnamed, cardless, before, over
        <5> QED BY <4>2, <5>2
      <4> HIDE DEF oldest, cardless, over
      <4> QED BY <1>5, <3>1, <4>3, <4>5
    <3> QED BY <3>2, <3>3
  <2>2. \A i \in DOMAIN cards : ~Open(cards[i]) => i \notin oldest /\ i \notin over
    <3> SUFFICES ASSUME NEW i \in DOMAIN cards, ~Open(cards[i])
                 PROVE  i \notin oldest /\ i \notin over
      OBVIOUS
    <3>1. i = 1 /\ \A j \in DOMAIN cards : ~Open(cards[j])
      BY <1>3
    <3>2. \A x \in T : exact(x) = {}
      BY <3>1
    <3>3. over = {}
      BY <3>2
    <3> HIDE DEF over
    <3> QED BY <3>1, <3>3
  <2>3. \A i \in DOMAIN cards :
          LET d == Failed(name)[i]
          IN  /\ d.file = cards[i].file /\ d.mine = cards[i].mine
              /\ Open(cards[i]) => d.id = t /\ d.st = "Failed"
              /\ ~Open(cards[i]) => d = cards[i]
    <3> SUFFICES ASSUME NEW i \in DOMAIN cards
                 PROVE  LET d == Failed(name)[i]
                        IN  /\ d.file = cards[i].file /\ d.mine = cards[i].mine
                            /\ Open(cards[i]) => d.id = t /\ d.st = "Failed"
                            /\ ~Open(cards[i]) => d = cards[i]
      OBVIOUS
    <3>1. Failed(name)[i] = IF i \in oldest THEN [cards[i] EXCEPT !.id = name[i], !.st = "Failed"]
                            ELSE IF i \in over THEN [cards[i] EXCEPT !.st = "Failed"] ELSE cards[i]
      OBVIOUS
    <3> HIDE DEF oldest, over, Failed
    <3>2. CASE i \in oldest
      BY <1>3, <2>1, <2>2, <3>1, <3>2 DEF Card
    <3>3. CASE i \notin oldest /\ i \in over
      BY <1>3, <2>1, <2>2, <3>1, <3>3 DEF Card
    <3>4. CASE i \notin oldest /\ i \notin over
      BY <2>1, <3>1, <3>4
    <3> QED BY <3>2, <3>3, <3>4
  <2>4. DOMAIN Failed(name) = DOMAIN cards
    OBVIOUS
  <2> HIDE DEF Failed, oldest, over
  <2> QED BY <1>2, <2>3, <2>4 DEF Marks, Follow, Open, OpenStates
<1> QED BY <1>7, <1>8

----------------------------------------------------------------------------
(* One side of a transfer takes a step; the other is as it was.            *)

\* An entry ends, or goes on about the same file.
GoesOn(e, d) == d.st = "none" \/ (d.st = e.st /\ d.file = e.file)

SenderStep(f, t) ==
  /\ \A x \in TransferId :
       RecvEntry(f, x)' = RecvEntry(f, x) /\ GoesOn(SendEntry(f, x), SendEntry(f, x)')
  /\ Follow(Ours(f), Ours(f)', t) /\ Theirs(f)' = Theirs(f)
  /\ \A p \in net' : Back(f, p) => p \in net
  /\ \A p \in net' : Forth(f, p) =>
       \/ p \in net
       \/ /\ Ours(f) # <<>> /\ p.id = t /\ p.type \in {"CHUNK", "COMPLETE", "CANCEL"}
          /\ p.type = "CHUNK" => p.file = f
  /\ RecvJobs(f)' = RecvJobs(f)
  /\ \A j \in SendJobs(f)' :
       j \in SendJobs(f) \/ (Ours(f) # <<>> /\ j.id = t /\ j.file = f /\ j.type \in {"allSent", "progress", "done"})
  /\ Alive(f)' => Alive(f) /\ thread'[f].id = thread[f].id
  /\ whole \subseteq whole'

ReceiverStep(f, t) ==
  /\ \A x \in TransferId :
       /\ SendEntry(f, x)' = SendEntry(f, x) /\ GoesOn(RecvEntry(f, x), RecvEntry(f, x)')
       /\ RecvEntry(f, x)'.st # "none" =>
            \A i \in Chunk : RecvEntry(f, x)'.got[i] \in {RecvEntry(f, x).got[i], f}
  /\ Ours(f)' = Ours(f) /\ Follow(Theirs(f), Theirs(f)', t)
  /\ \A p \in net' : Forth(f, p) => p \in net
  /\ \A p \in net' : Back(f, p) =>
       \/ p \in net
       \/ /\ Theirs(f) # <<>> /\ p.id = t /\ p.type \in {"REJECT", "NACK", "ACK", "CANCEL"}
          /\ p.type = "ACK" => f \in whole'
  /\ SendJobs(f)' = SendJobs(f)
  /\ \A j \in RecvJobs(f)' :
       \/ j \in RecvJobs(f)
       \/ /\ Theirs(f) # <<>> /\ j.id = t /\ j.file = f /\ j.type = "verify"
          /\ j.good = TRUE => f \in whole'
  /\ Alive(f)' => Alive(f) /\ thread'[f].id = thread[f].id
  /\ whole \subseteq whole'

LEMMA Ends ==
  ASSUME NEW f \in File, TypeOK
  PROVE  /\ From[f] \in User /\ To[f] \in User /\ From[f] # To[f]
         /\ \A p : ~(Forth(f, p) /\ Back(f, p))
         /\ \A x \in TransferId : SendEntry(f, x) \in Entry /\ RecvEntry(f, x) \in Entry
         /\ gui[From[f]][To[f]] \in Chat /\ gui[To[f]][From[f]] \in Chat
         /\ net \subseteq Packet /\ SendJobs(f) \subseteq Work /\ RecvJobs(f) \subseteq Work
<1>1. From[f] \in User /\ To[f] \in User /\ From[f] # To[f]
  BY FileTransferAssumption
<1> QED BY <1>1 DEF TypeOK, Forth, Back, SendEntry, RecvEntry, SendJobs, RecvJobs

LEMMA FollowNone ==
  ASSUME NEW q, NEW h, NEW t, q \in Seq(Card), h \in Seq(Card), Follow(q, h, t)
  PROVE  q = <<>> <=> h = <<>>
<1>1. DOMAIN q = 1..Len(q) /\ DOMAIN h = 1..Len(h) /\ Len(q) \in Nat /\ Len(h) \in Nat
  BY LenProperties
<1>2. q = <<>> <=> Len(q) = 0
  BY EmptySeq
<1>3. h = <<>> <=> Len(h) = 0
  BY EmptySeq
<1> QED BY <1>1, <1>2, <1>3 DEF Follow

LEMMA CardLists ==
  ASSUME NEW f \in File, TypeOK
  PROVE  /\ Ours(f) \in Seq(Card) /\ Theirs(f) \in Seq(Card)
         /\ TypeOK' => Ours(f)' \in Seq(Card) /\ Theirs(f)' \in Seq(Card)
<1>1. Ours(f) \in Seq(Card) /\ Theirs(f) \in Seq(Card)
  BY Ends, ChatFields DEF Ours, Theirs
<1>2. TypeOK' => gui'[From[f]][To[f]] \in Chat /\ gui'[To[f]][From[f]] \in Chat
  <2>1. TypeOK' => gui' \in [User -> [User -> Chat]]
    BY DEF TypeOK
  <2>2. From[f] \in User /\ To[f] \in User
    BY Ends
  <2> QED BY <2>1, <2>2
<1> QED BY <1>1, <1>2, ChatFields DEF Ours, Theirs

LEMMA SenderTurn ==
  ASSUME TypeOK, TypeOK', NEW f \in File, NEW t \in TransferId, OnCard(f, t), SenderStep(f, t)
  PROVE  Numbered(f, t)' /\ InTurn(f, SendEntry(f, t).st, RecvEntry(f, t).st)'
<1>1. EntriesNumbered(f, t)'
  BY DEF OnCard, Numbered, EntriesNumbered, SenderStep, GoesOn
<1>2. PacketsNumbered(f, t)'
  BY Ends DEF OnCard, Numbered, PacketsNumbered, SenderStep, Forth, Back
<1>3. JobsNumbered(f, t)'
  BY DEF OnCard, Numbered, JobsNumbered, SenderStep
<1>4. CardsNumbered(f, t)'
  BY DEF OnCard, Numbered, CardsNumbered, SenderStep, Follow
<1>5. Ours(f)' = <<>> => Ours(f) = <<>>
  <2>1. Ours(f) \in Seq(Card) /\ Ours(f)' \in Seq(Card)
    BY CardLists
  <2>2. Follow(Ours(f), Ours(f)', t)
    BY DEF SenderStep
  <2> QED BY <2>1, <2>2, FollowNone
<1>6. InTurn(f, SendEntry(f, t).st, RecvEntry(f, t).st)'
  BY <1>5 DEF OnCard, InTurn, Unoffered, Hashes, OfferOut, AcceptOut, SenderStep, GoesOn
<1> QED BY <1>1, <1>2, <1>3, <1>4, <1>6 DEF Numbered, OnCard

LEMMA ReceiverTurn ==
  ASSUME TypeOK, TypeOK', NEW f \in File, NEW t \in TransferId, OnCard(f, t), ReceiverStep(f, t)
  PROVE  Numbered(f, t)' /\ InTurn(f, SendEntry(f, t).st, RecvEntry(f, t).st)'
<1>1. EntriesNumbered(f, t)'
  BY DEF OnCard, Numbered, EntriesNumbered, ReceiverStep, GoesOn
<1>2. PacketsNumbered(f, t)'
  BY Ends DEF OnCard, Numbered, PacketsNumbered, ReceiverStep, Forth, Back
<1>3. JobsNumbered(f, t)'
  BY DEF OnCard, Numbered, JobsNumbered, ReceiverStep
<1>4. CardsNumbered(f, t)'
  BY DEF OnCard, Numbered, CardsNumbered, ReceiverStep, Follow
<1>5. Theirs(f)' = <<>> <=> Theirs(f) = <<>>
  <2>1. Theirs(f) \in Seq(Card) /\ Theirs(f)' \in Seq(Card)
    BY CardLists
  <2>2. Follow(Theirs(f), Theirs(f)', t)
    BY DEF ReceiverStep
  <2> QED BY <2>1, <2>2, FollowNone
<1>6. InTurn(f, SendEntry(f, t).st, RecvEntry(f, t).st)'
  BY <1>5 DEF OnCard, InTurn, Unoffered, Hashes, OfferOut, AcceptOut, ReceiverStep, GoesOn
<1> QED BY <1>1, <1>2, <1>3, <1>4, <1>6 DEF Numbered, OnCard

\* What is left to say of a step: that it closes the card with the transfer.
LEMMA SenderOnCard ==
  ASSUME TypeOK, TypeOK', NEW f \in File, NEW t \in TransferId, OnCard(f, t), SenderStep(f, t),
         SendEntry(f, t)'.st # "none" <=> Says(Ours(f)', OpenStates),
         Says(Ours(f)', {"Completed"}) => Says(Ours(f), {"Completed"}) \/ f \in whole
  PROVE  OnCard(f, t)'
<1>1. Numbered(f, t)' /\ InTurn(f, SendEntry(f, t).st, RecvEntry(f, t).st)'
  BY SenderTurn
<1>2. CardsOpen(f, SendEntry(f, t).st, RecvEntry(f, t).st)'
  BY DEF OnCard, CardsOpen, SenderStep
<1>3. Earned(f)'
  BY DEF OnCard, Earned, SenderStep
<1> QED BY <1>1, <1>2, <1>3 DEF OnCard

LEMMA ReceiverOnCard ==
  ASSUME TypeOK, TypeOK', NEW f \in File, NEW t \in TransferId, OnCard(f, t), ReceiverStep(f, t),
         RecvEntry(f, t)'.st # "none" => Says(Theirs(f)', OpenStates) /\ RecvJobs(f)' = {},
         Says(Theirs(f)', OpenStates) => RecvEntry(f, t)'.st # "none" \/ RecvJobs(f)' # {},
         Says(Theirs(f)', {"Offered"}) => RecvEntry(f, t)'.st = "incoming",
         Says(Theirs(f)', {"Completed"}) => Says(Theirs(f), {"Completed"}) \/ f \in whole
  PROVE  OnCard(f, t)'
<1>1. Numbered(f, t)' /\ InTurn(f, SendEntry(f, t).st, RecvEntry(f, t).st)'
  BY ReceiverTurn
<1>2. CardsOpen(f, SendEntry(f, t).st, RecvEntry(f, t).st)'
  BY DEF OnCard, CardsOpen, ReceiverStep
<1>3. Earned(f)'
  BY DEF OnCard, Earned, ReceiverStep
<1> QED BY <1>1, <1>2, <1>3 DEF OnCard

----------------------------------------------------------------------------
(* A step at m about d changes nothing between other users.                *)

JobsWith(n, c) == {j \in jobs[n] : j.with = c}
Elsewhere(m, d, n, c) == n # m \/ c # d
TableAt(m, d) ==
  \A n, c \in User : Elsewhere(m, d, n, c) => \A x \in TransferId : table'[n][c][x] = table[n][c][x]
CardsAt(m, d) ==
  \A n, c \in User : Elsewhere(m, d, n, c) => gui'[n][c].cards = gui[n][c].cards
JobsAt(m, d) ==
  \A n, c \in User : Elsewhere(m, d, n, c) => JobsWith(n, c)' = JobsWith(n, c)
NetAt(m, d) == \A p \in net' : p \in net \/ (p.from = m /\ p.to = d)
ThreadsAt(m, d) ==
  \A f \in File : Elsewhere(m, d, From[f], To[f]) =>
     (Alive(f)' => Alive(f) /\ thread'[f].id = thread[f].id)
Beside(m, d) ==
  TableAt(m, d) /\ CardsAt(m, d) /\ JobsAt(m, d) /\ NetAt(m, d) /\ ThreadsAt(m, d) /\ whole \subseteq whole'

LEMMA Untouched ==
  ASSUME TypeOK, TypeOK', NEW f \in File, NEW t \in TransferId, OnCard(f, t),
         NEW m \in User, NEW d \in User, Beside(m, d), ~Between(f, m, d)
  PROVE  OnCard(f, t)'
<1>1. /\ From[f] \in User /\ To[f] \in User
      /\ Elsewhere(m, d, From[f], To[f]) /\ Elsewhere(m, d, To[f], From[f])
  BY Ends DEF Elsewhere, Between
<1>2. \A x \in TransferId : SendEntry(f, x)' = SendEntry(f, x) /\ RecvEntry(f, x)' = RecvEntry(f, x)
  BY <1>1 DEF Beside, TableAt, SendEntry, RecvEntry
<1>3. Ours(f)' = Ours(f) /\ Theirs(f)' = Theirs(f)
  BY <1>1 DEF Beside, CardsAt, Ours, Theirs
<1>4. SendJobs(f)' = SendJobs(f) /\ RecvJobs(f)' = RecvJobs(f)
  BY <1>1 DEF Beside, JobsAt, JobsWith, SendJobs, RecvJobs
<1>5. \A p \in net' : Forth(f, p) \/ Back(f, p) => p \in net
  BY DEF Beside, NetAt, Between, Forth, Back
<1>6. (Alive(f)' => Alive(f) /\ thread'[f].id = thread[f].id) /\ whole \subseteq whole'
  BY <1>1 DEF Beside, ThreadsAt
<1>7. SenderStep(f, t)
  BY <1>2, <1>3, <1>4, <1>5, <1>6, FollowSelf DEF SenderStep, GoesOn
<1> QED BY <1>2, <1>3, <1>7, SenderOnCard DEF OnCard, CardsOpen

\* Whoever has an entry, a card, a packet or a job about someone shares a file.
LEMMA ChatOf ==
  ASSUME CardsInv, NEW m \in User, NEW d \in User,
         ~Silent(m, d) \/ \E p \in net : p.from = d /\ p.to = m
  PROVE  \E f \in File, t \in TransferId : Between(f, m, d) /\ OnCard(f, t)
<1>1. \E f \in File : Between(f, m, d) \/ Between(f, d, m)
  BY DEF CardsInv, Silent
<1>2. PICK f \in File : Between(f, m, d)
  BY <1>1 DEF Between
<1> QED BY <1>2 DEF CardsInv

LEMMA OneChat ==
  ASSUME CardsInv, TypeOK, TypeOK', OneFilePerChat, NEW m \in User, NEW d \in User, Beside(m, d),
         NEW f \in File, Between(f, m, d), NEW t \in TransferId, OnCard(f, t)'
  PROVE  CardsInv'
<1>1. ASSUME NEW g \in File
      PROVE  \E x \in TransferId : OnCard(g, x)'
  <2>1. CASE g = f
    BY <2>1
  <2>2. CASE g # f
    <3>1. ~Between(g, m, d)
      BY <2>2 DEF OneFilePerChat, Between
    <3>2. PICK x \in TransferId : OnCard(g, x)
      BY DEF CardsInv
    <3> QED BY <3>1, <3>2, Untouched
  <2> QED BY <2>1, <2>2
<1>2. ASSUME NEW n \in User, NEW c \in User
      PROVE  Silent(n, c)' \/ \E g \in File : Between(g, n, c)'
  <2>1. CASE n = m /\ c = d
    BY <2>1 DEF Between
  <2>2. CASE n # m \/ c # d
    <3>1. Silent(n, c) => Silent(n, c)'
      BY <2>2 DEF Beside, TableAt, CardsAt, JobsAt, NetAt, ThreadsAt, Elsewhere, Silent, JobsWith
    <3>2. \A g \in File : Between(g, n, c)' <=> Between(g, n, c)
      BY DEF Between
    <3> QED BY <3>1, <3>2 DEF CardsInv
  <2> QED BY <2>1, <2>2
<1>3. TransferId' = TransferId
  BY DEF TransferId
<1> QED BY <1>1, <1>2, <1>3 DEF CardsInv

----------------------------------------------------------------------------
(* The steps that end an entry, and those that leave it.                   *)

ThreadsQuiet == \A f \in File : Alive(f)' => Alive(f) /\ thread'[f].id = thread[f].id

LEMMA EndsHere ==
  ASSUME TypeOK, TypeOK', CardsInv, OneFilePerChat, NEW n \in User, NEW c \in User,
         NEW f \in File, NEW t \in TransferId, Between(f, n, c), OnCard(f, t),
         TableAt(n, c), table'[n][c][t].st = "none",
         \A x \in TransferId : GoesOn(table[n][c][x], table'[n][c][x])
                               /\ (table'[n][c][x].st # "none" => table'[n][c][x].got = table[n][c][x].got),
         NEW st \in {"Failed", "Cancelled", "Rejected", "Completed"}, st = "Completed" => f \in whole,
         CardsAt(n, c), Marks(gui[n][c].cards, gui'[n][c].cards, t, st),
         JobsAt(n, c), jobs'[n] \subseteq jobs[n],
         \A p \in net' :
           \/ p \in net
           \/ /\ p.from = n /\ p.to = c /\ p.id = t /\ gui[n][c].cards # <<>>
              /\ p.type = "CANCEL" \/ (p.type = "REJECT" /\ n = To[f]),
         ThreadsQuiet, whole' = whole
  PROVE  CardsInv'
<1>1. Beside(n, c)
  BY DEF Beside, NetAt, ThreadsAt, ThreadsQuiet
<1>2. CASE n = From[f] /\ c = To[f]
  <2>1. SenderStep(f, t)
    <3>1. From[f] \in User /\ To[f] \in User /\ Elsewhere(n, c, To[f], From[f])
      BY <1>2, Ends DEF Elsewhere
    <3>2. \A x \in TransferId :
            RecvEntry(f, x)' = RecvEntry(f, x) /\ GoesOn(SendEntry(f, x), SendEntry(f, x)')
      BY <1>2, <3>1 DEF TableAt, SendEntry, RecvEntry
    <3>3. Theirs(f)' = Theirs(f) /\ Follow(Ours(f), Ours(f)', t)
      BY <1>2, <3>1 DEF CardsAt, Ours, Theirs, Marks
    <3>4. \A p \in net' : Back(f, p) => p \in net
      BY <1>2, <3>1, Ends DEF Back
    <3>5. \A p \in net' : Forth(f, p) =>
            p \in net \/ (Ours(f) # <<>> /\ p.id = t /\ p.type = "CANCEL")
      BY <1>2, Ends DEF Forth, Ours
    <3>6. RecvJobs(f)' = RecvJobs(f) /\ SendJobs(f)' \subseteq SendJobs(f)
      BY <1>2, <3>1 DEF JobsAt, JobsWith, SendJobs, RecvJobs
    <3>7. Alive(f)' => Alive(f) /\ thread'[f].id = thread[f].id
      BY DEF ThreadsQuiet
    <3> QED BY <3>2, <3>3, <3>4, <3>5, <3>6, <3>7 DEF SenderStep
  <2>2. Marks(Ours(f), Ours(f)', t, st)
    BY <1>2 DEF Ours
  <2>3. ~Says(Ours(f)', OpenStates) /\ (st # "Completed" => (Says(Ours(f)', {"Completed"}) <=> Says(Ours(f), {"Completed"})))
    BY <2>2, MarkedSays DEF OpenStates
  <2>4. SendEntry(f, t)'.st = "none"
    BY <1>2 DEF SendEntry
  <2>5. OnCard(f, t)'
    BY <2>1, <2>3, <2>4, SenderOnCard
  <2> QED BY <1>1, <2>5, OneChat
<1>3. CASE n = To[f] /\ c = From[f]
  <2>1. ReceiverStep(f, t)
    <3>1. From[f] \in User /\ To[f] \in User /\ Elsewhere(n, c, From[f], To[f])
      BY <1>3, Ends DEF Elsewhere
    <3>2. \A x \in TransferId :
            /\ SendEntry(f, x)' = SendEntry(f, x) /\ GoesOn(RecvEntry(f, x), RecvEntry(f, x)')
            /\ RecvEntry(f, x)'.st # "none" =>
                 \A i \in Chunk : RecvEntry(f, x)'.got[i] \in {RecvEntry(f, x).got[i], f}
      BY <1>3, <3>1 DEF TableAt, SendEntry, RecvEntry
    <3>3. Ours(f)' = Ours(f) /\ Follow(Theirs(f), Theirs(f)', t)
      BY <1>3, <3>1 DEF CardsAt, Ours, Theirs, Marks
    <3>4. \A p \in net' : Forth(f, p) => p \in net
      BY <1>3, <3>1, Ends DEF Forth
    <3>5. \A p \in net' : Back(f, p) =>
            \/ p \in net
            \/ /\ Theirs(f) # <<>> /\ p.id = t /\ p.type \in {"REJECT", "NACK", "ACK", "CANCEL"}
               /\ p.type # "ACK"
      BY <1>3, Ends DEF Back, Theirs
    <3>6. SendJobs(f)' = SendJobs(f) /\ RecvJobs(f)' \subseteq RecvJobs(f)
      BY <1>3, <3>1 DEF JobsAt, JobsWith, SendJobs, RecvJobs
    <3>7. Alive(f)' => Alive(f) /\ thread'[f].id = thread[f].id
      BY DEF ThreadsQuiet
    <3> QED BY <3>2, <3>3, <3>4, <3>5, <3>6, <3>7 DEF ReceiverStep
  <2>2. Marks(Theirs(f), Theirs(f)', t, st)
    BY <1>3 DEF Theirs
  <2>3. /\ ~Says(Theirs(f)', OpenStates) /\ ~Says(Theirs(f)', {"Offered"})
        /\ st # "Completed" => (Says(Theirs(f)', {"Completed"}) <=> Says(Theirs(f), {"Completed"}))
    BY <2>2, MarkedSays DEF OpenStates
  <2>4. RecvEntry(f, t)'.st = "none"
    BY <1>3 DEF RecvEntry
  <2>5. OnCard(f, t)'
    BY <2>1, <2>3, <2>4, ReceiverOnCard
  <2> QED BY <1>1, <2>5, OneChat
<1> QED BY <1>2, <1>3 DEF Between

\* What is at n about f, which is shared with c, goes on under the id t.
EntriesGoOn(n, c, f) ==
  \A x \in TransferId :
    /\ table'[n][c][x].st = table[n][c][x].st
    /\ table[n][c][x].st # "none" =>
         /\ table'[n][c][x].file = table[n][c][x].file
         /\ \A i \in Chunk : table'[n][c][x].got[i] \in {table[n][c][x].got[i], f}
CardsGoOn(n, c, f, t) ==
  \/ gui'[n][c].cards = gui[n][c].cards
  \/ /\ table[n][c][t].st \notin {"none", "incoming"} \/ n = From[f]
     /\ Marks(gui[n][c].cards, gui'[n][c].cards, t, "Accepted")
JobsGoOn(n, c, f, t) ==
  /\ n = To[f] => JobsWith(n, c)' = JobsWith(n, c)
  /\ \A j \in JobsWith(n, c)' :
       j \in jobs[n] \/ (gui[n][c].cards # <<>> /\ j.id = t /\ j.file = f /\ j.type \in {"allSent", "progress", "done"})
PacketsGoOn(n, c, f, t) ==
  \A p \in net' :
    \/ p \in net
    \/ /\ p.from = n /\ p.to = c /\ p.id = t /\ gui[n][c].cards # <<>>
       /\ \/ n = From[f] /\ (p.type = "COMPLETE" \/ (p.type = "CHUNK" /\ p.file = f))
          \/ n = To[f] /\ p.type = "NACK"

LEMMA GoesOnHere ==
  ASSUME TypeOK, TypeOK', CardsInv, OneFilePerChat, NEW n \in User, NEW c \in User,
         NEW f \in File, NEW t \in TransferId, Between(f, n, c), OnCard(f, t),
         TableAt(n, c), EntriesGoOn(n, c, f), CardsAt(n, c), CardsGoOn(n, c, f, t),
         JobsAt(n, c), JobsGoOn(n, c, f, t), PacketsGoOn(n, c, f, t), ThreadsQuiet, whole' = whole
  PROVE  CardsInv'
<1>1. Beside(n, c)
  BY DEF Beside, NetAt, ThreadsAt, ThreadsQuiet, PacketsGoOn
<1>2. Follow(gui[n][c].cards, gui'[n][c].cards, t)
  BY FollowSelf DEF Marks, CardsGoOn
<1>3. CASE n = From[f] /\ c = To[f]
  <2>1. SenderStep(f, t)
    <3>1. From[f] \in User /\ To[f] \in User /\ Elsewhere(n, c, To[f], From[f])
      BY <1>3, Ends DEF Elsewhere
    <3>2. \A x \in TransferId :
            RecvEntry(f, x)' = RecvEntry(f, x) /\ GoesOn(SendEntry(f, x), SendEntry(f, x)')
      <4>1. \A x \in TransferId : RecvEntry(f, x)' = RecvEntry(f, x)
        BY <1>3, <3>1 DEF TableAt, RecvEntry
      <4>2. \A x \in TransferId : GoesOn(table[n][c][x], table'[n][c][x])
        BY DEF GoesOn, EntriesGoOn
      <4> QED BY <1>3, <4>1, <4>2 DEF SendEntry
    <3>3. Theirs(f)' = Theirs(f) /\ Follow(Ours(f), Ours(f)', t)
      BY <1>2, <1>3, <3>1 DEF CardsAt, Ours, Theirs
    <3>4. \A p \in net' : Back(f, p) => p \in net
      BY <1>3, <3>1, Ends DEF Back, PacketsGoOn
    <3>5. \A p \in net' : Forth(f, p) =>
            \/ p \in net
            \/ /\ Ours(f) # <<>> /\ p.id = t /\ p.type \in {"CHUNK", "COMPLETE", "CANCEL"}
               /\ p.type = "CHUNK" => p.file = f
      BY <1>3, Ends DEF Forth, Ours, PacketsGoOn
    <3>6. /\ RecvJobs(f)' = RecvJobs(f)
          /\ \A j \in SendJobs(f)' :
               j \in SendJobs(f) \/ (Ours(f) # <<>> /\ j.id = t /\ j.file = f /\ j.type \in {"allSent", "progress", "done"})
      BY <1>3, <3>1 DEF JobsAt, JobsGoOn, JobsWith, SendJobs, RecvJobs, Ours
    <3>7. Alive(f)' => Alive(f) /\ thread'[f].id = thread[f].id
      BY DEF ThreadsQuiet
    <3> QED BY <3>2, <3>3, <3>4, <3>5, <3>6, <3>7 DEF SenderStep
  <2>2. Ours(f)' = Ours(f) \/ Marks(Ours(f), Ours(f)', t, "Accepted")
    BY <1>3 DEF Ours, CardsGoOn
  <2>3. /\ Says(Ours(f)', OpenStates) <=> Says(Ours(f), OpenStates)
        /\ Says(Ours(f)', {"Completed"}) <=> Says(Ours(f), {"Completed"})
    <3>1. CASE Ours(f)' = Ours(f)
      BY <3>1 DEF Says
    <3>2. CASE Marks(Ours(f), Ours(f)', t, "Accepted")
      BY <3>2, MarkedSays DEF OpenStates
    <3> QED BY <2>2, <3>1, <3>2
  <2>4. SendEntry(f, t)'.st = SendEntry(f, t).st
    BY <1>3 DEF SendEntry, EntriesGoOn
  <2>5. OnCard(f, t)'
    BY <2>1, <2>3, <2>4, SenderOnCard DEF OnCard, CardsOpen
  <2> QED BY <1>1, <2>5, OneChat
<1>4. CASE n = To[f] /\ c = From[f]
  <2>1. ReceiverStep(f, t)
    <3>1. From[f] \in User /\ To[f] \in User /\ Elsewhere(n, c, From[f], To[f])
      BY <1>4, Ends DEF Elsewhere
    <3>2. \A x \in TransferId :
            /\ SendEntry(f, x)' = SendEntry(f, x) /\ GoesOn(RecvEntry(f, x), RecvEntry(f, x)')
            /\ RecvEntry(f, x)'.st # "none" =>
                 \A i \in Chunk : RecvEntry(f, x)'.got[i] \in {RecvEntry(f, x).got[i], f}
      <4>1. \A x \in TransferId : SendEntry(f, x)' = SendEntry(f, x)
        BY <1>4, <3>1 DEF TableAt, SendEntry
      <4>2. \A x \in TransferId :
              /\ GoesOn(table[n][c][x], table'[n][c][x])
              /\ table'[n][c][x].st # "none" =>
                   \A i \in Chunk : table'[n][c][x].got[i] \in {table[n][c][x].got[i], f}
        BY DEF GoesOn, EntriesGoOn
      <4> QED BY <1>4, <4>1, <4>2 DEF RecvEntry
    <3>3. Ours(f)' = Ours(f) /\ Follow(Theirs(f), Theirs(f)', t)
      BY <1>2, <1>4, <3>1 DEF CardsAt, Ours, Theirs, Marks
    <3>4. \A p \in net' : Forth(f, p) => p \in net
      BY <1>4, <3>1, Ends DEF Forth, PacketsGoOn
    <3>5. \A p \in net' : Back(f, p) =>
            \/ p \in net
            \/ /\ Theirs(f) # <<>> /\ p.id = t /\ p.type \in {"REJECT", "NACK", "ACK", "CANCEL"}
               /\ p.type # "ACK"
      BY <1>4, Ends DEF Back, Theirs, PacketsGoOn
    <3>6. SendJobs(f)' = SendJobs(f) /\ RecvJobs(f)' \subseteq RecvJobs(f)
      BY <1>4, <3>1 DEF JobsAt, JobsGoOn, JobsWith, SendJobs, RecvJobs
    <3>7. Alive(f)' => Alive(f) /\ thread'[f].id = thread[f].id
      BY DEF ThreadsQuiet
    <3> QED BY <3>2, <3>3, <3>4, <3>5, <3>6, <3>7 DEF ReceiverStep
  <2>2. /\ \/ Theirs(f)' = Theirs(f)
           \/ RecvEntry(f, t).st \notin {"none", "incoming"} /\ Marks(Theirs(f), Theirs(f)', t, "Accepted")
        /\ RecvEntry(f, t)'.st = RecvEntry(f, t).st /\ RecvJobs(f)' = RecvJobs(f)
    BY <1>4, Ends DEF Theirs, RecvEntry, RecvJobs, JobsWith, CardsGoOn, EntriesGoOn, JobsGoOn
  <2>3. /\ Says(Theirs(f)', OpenStates) <=> Says(Theirs(f), OpenStates)
        /\ Says(Theirs(f)', {"Completed"}) <=> Says(Theirs(f), {"Completed"})
        /\ Says(Theirs(f)', {"Offered"}) => Says(Theirs(f), {"Offered"})
    <3>1. CASE Theirs(f)' = Theirs(f)
      BY <3>1 DEF Says
    <3>2. CASE Marks(Theirs(f), Theirs(f)', t, "Accepted")
      BY <3>2, MarkedSays DEF OpenStates
    <3> QED BY <2>2, <3>1, <3>2
  <2>4. OnCard(f, t)'
    BY <2>1, <2>2, <2>3, ReceiverOnCard DEF OnCard, CardsOpen
  <2> QED BY <1>1, <2>4, OneChat
<1> QED BY <1>3, <1>4 DEF Between

----------------------------------------------------------------------------
(* What actions do to entries, cards and jobs                              *)

LEMMA PutAt ==
  ASSUME TypeOK, NEW n \in User, NEW c \in User, NEW t \in TransferId, NEW e, Put(n, c, t, e)
  PROVE  /\ TableAt(n, c) /\ table'[n][c][t] = e
         /\ \A x \in TransferId : x # t => table'[n][c][x] = table[n][c][x]
BY DEF TypeOK, Put, TableAt, Elsewhere

LEMMA ClearAt ==
  ASSUME TypeOK, NEW n \in User, NEW c \in User, NEW t \in TransferId, Clear(n, c, t)
  PROVE  /\ TableAt(n, c) /\ table'[n][c][t].st = "none"
         /\ \A x \in TransferId : GoesOn(table[n][c][x], table'[n][c][x])
                                  /\ (table'[n][c][x].st # "none" => table'[n][c][x].got = table[n][c][x].got)
<1>1. /\ TableAt(n, c) /\ table'[n][c][t] = NoEntry
      /\ \A x \in TransferId : x # t => table'[n][c][x] = table[n][c][x]
  BY PutAt DEF Clear
<1> QED BY <1>1, BlankEntry DEF GoesOn

\* Where there is no entry, there is nothing to take away.
LEMMA ClearNothing ==
  ASSUME TypeOK, NEW n \in User, NEW c \in User, NEW t \in TransferId, Clear(n, c, t),
         table[n][c][t].st = "none", NEW f
  PROVE  TableAt(n, c) /\ EntriesGoOn(n, c, f)
<1>1. /\ TableAt(n, c) /\ table'[n][c][t] = NoEntry
      /\ \A x \in TransferId : x # t => table'[n][c][x] = table[n][c][x]
  BY PutAt DEF Clear
<1>2. \A x \in TransferId :
        /\ table'[n][c][x].st = table[n][c][x].st
        /\ table[n][c][x].st # "none" => table'[n][c][x] = table[n][c][x]
  BY <1>1, BlankEntry
<1>3. EntriesGoOn(n, c, f)
  BY <1>2 DEF EntriesGoOn
<1> QED BY <1>1, <1>3

LEMMA TellAt ==
  ASSUME TypeOK, NEW n \in User, NEW c \in User, NEW g, Tell(n, c, g)
  PROVE  CardsAt(n, c) /\ gui'[n][c] = g
BY DEF TypeOK, Tell, CardsAt, Elsewhere

LEMMA DoneAt ==
  ASSUME TypeOK, NEW n \in User, NEW j \in jobs[n], Done(n, j)
  PROVE  JobsAt(n, j.with) /\ jobs'[n] = jobs[n] \ {j}
<1>1. jobs \in [User -> SUBSET Work]
  BY DEF TypeOK
<1>2. \A m \in User : jobs'[m] = IF m = n THEN jobs[n] \ {j} ELSE jobs[m]
  BY <1>1 DEF Done
<1> QED BY <1>2 DEF JobsAt, JobsWith, Elsewhere

LEMMA SameAt ==
  ASSUME NEW n, NEW c
  PROVE  /\ table' = table => TableAt(n, c)
         /\ gui' = gui => CardsAt(n, c)
         /\ jobs' = jobs => JobsAt(n, c)
         /\ thread' = thread => ThreadsQuiet
BY DEF TableAt, CardsAt, JobsAt, ThreadsQuiet, JobsWith, Alive

LEMMA SameGoOn ==
  ASSUME NEW n, NEW c, NEW f, NEW t
  PROVE  /\ table' = table => TableAt(n, c) /\ EntriesGoOn(n, c, f)
         /\ gui' = gui => CardsAt(n, c) /\ CardsGoOn(n, c, f, t)
         /\ jobs' = jobs => JobsAt(n, c) /\ JobsGoOn(n, c, f, t)
         /\ net' \subseteq net => PacketsGoOn(n, c, f, t)
BY SameAt DEF EntriesGoOn, CardsGoOn, JobsGoOn, PacketsGoOn, JobsWith

LEMMA OrderedQuiet ==
  ASSUME TypeOK, NEW e \in Entry, NEW x \in Command, thread' = Ordered(thread, e, x)
  PROVE  ThreadsQuiet
<1>1. thread \in [File -> Thread]
  BY DEF TypeOK
<1> QED BY <1>1, OrderedOne DEF ThreadsQuiet, Alive

LEMMA SignalSent ==
  ASSUME NEW n, NEW c, NEW t, NEW type, Send(n, c, {Signal(n, c, type, t)})
  PROVE  \A p \in net' : p \in net \/ (p.from = n /\ p.to = c /\ p.id = t /\ p.type = type)
<1> DEFINE q == Signal(n, c, type, t)
<1>1. q.from = n /\ q.to = c /\ q.id = t /\ q.type = type
  BY DEF Signal
<1>2. \A p \in net' : p \in net \/ p = q
  BY DEF Send, Outgoing
<1> HIDE DEF q
<1> QED BY <1>1, <1>2

\* What n has to do with c is about the file between them, under its id.
LEMMA Numbers ==
  ASSUME TypeOK, NEW f \in File, NEW t \in TransferId, OnCard(f, t),
         NEW n \in User, NEW c \in User, Between(f, n, c)
  PROVE  /\ Meets(gui[n][c].cards, t)
         /\ \A i \in DOMAIN gui[n][c].cards :
              /\ gui[n][c].cards[i].file = f /\ (gui[n][c].cards[i].mine <=> n = From[f])
              /\ ~gui[n][c].cards[i].mine \/ gui[n][c].cards[i].st = "Accepted" => gui[n][c].cards[i].id = t
         /\ \A x \in TransferId : table[n][c][x].st # "none" =>
              /\ x = t /\ table[n][c][x].file = f /\ gui[n][c].cards # <<>>
              /\ n = From[f] => table[n][c][x].st \in {"hashing", "offered", "sending"}
              /\ n = To[f] => /\ table[n][c][x].st \in {"incoming", "receiving"}
                              /\ \A i \in Chunk : table[n][c][x].got[i] \in {NoFile, f}
         /\ \A j \in jobs[n] : j.with = c =>
              /\ j.id = t /\ j.file = f /\ gui[n][c].cards # <<>>
              /\ j.type = "verify" <=> n = To[f]
<1>1. CASE n = From[f] /\ c = To[f]
  <2>1. Meets(Ours(f), t)
    BY DEF OnCard, Numbered, CardsNumbered, Meets
  <2>2. \A i \in DOMAIN Ours(f) : Ours(f)[i].file = f /\ Ours(f)[i].mine /\ (Ours(f)[i].st = "Accepted" => Ours(f)[i].id = t)
    BY DEF OnCard, Numbered, CardsNumbered
  <2>3. \A x \in TransferId : SendEntry(f, x).st # "none" =>
          /\ x = t /\ SendEntry(f, x).file = f /\ Ours(f) # <<>>
          /\ SendEntry(f, x).st \in {"hashing", "offered", "sending"}
    BY DEF OnCard, Numbered, EntriesNumbered, InTurn
  <2>4. \A j \in SendJobs(f) : j.id = t /\ j.file = f /\ Ours(f) # <<>> /\ j.type # "verify"
    BY DEF OnCard, Numbered, JobsNumbered, InTurn, Unoffered
  <2> QED BY <1>1, <2>1, <2>2, <2>3, <2>4, Ends DEF Ours, SendEntry, SendJobs
<1>2. CASE n = To[f] /\ c = From[f]
  <2>1. Meets(Theirs(f), t)
    BY DEF OnCard, Numbered, CardsNumbered, Meets
  <2>2. \A i \in DOMAIN Theirs(f) : Theirs(f)[i].file = f /\ ~Theirs(f)[i].mine /\ Theirs(f)[i].id = t
    BY DEF OnCard, Numbered, CardsNumbered
  <2>3. \A x \in TransferId : RecvEntry(f, x).st # "none" =>
          /\ x = t /\ RecvEntry(f, x).file = f /\ Theirs(f) # <<>>
          /\ RecvEntry(f, x).st \in {"incoming", "receiving"}
          /\ \A i \in Chunk : RecvEntry(f, x).got[i] \in {NoFile, f}
    BY DEF OnCard, Numbered, EntriesNumbered, InTurn
  <2>4. \A j \in RecvJobs(f) : j.id = t /\ j.file = f /\ Theirs(f) # <<>> /\ j.type = "verify"
    BY DEF OnCard, Numbered, JobsNumbered, InTurn
  <2> QED BY <1>2, <2>1, <2>2, <2>3, <2>4, Ends DEF Theirs, RecvEntry, RecvJobs
<1> QED BY <1>1, <1>2 DEF Between

LEMMA PacketNumbers ==
  ASSUME TypeOK, NEW f \in File, NEW t \in TransferId, OnCard(f, t),
         NEW n \in User, NEW c \in User, Between(f, n, c), NEW p \in net, p.from = c, p.to = n
  PROVE  /\ p.id = t
         /\ n = From[f] /\ c = To[f] => p.type \in {"ACCEPT", "REJECT", "NACK", "ACK", "CANCEL"}
         /\ n = To[f] /\ c = From[f] => /\ p.type \in {"OFFER", "CHUNK", "COMPLETE", "CANCEL"}
                                        /\ p.type \in {"OFFER", "CHUNK"} => p.file = f
         /\ p.type = "ACK" => f \in whole
BY Ends DEF OnCard, Numbered, PacketsNumbered, Earned, Between, Forth, Back

LEMMA ClearEnds ==
  ASSUME TypeOK, TypeOK', CardsInv, OneFilePerChat, NEW n \in User, NEW c \in User,
         NEW f \in File, NEW t \in TransferId, Between(f, n, c), OnCard(f, t), Clear(n, c, t),
         NEW st \in {"Failed", "Cancelled", "Rejected", "Completed"}, st = "Completed" => f \in whole,
         NEW h, Tell(n, c, h), Marks(gui[n][c].cards, h.cards, t, st),
         JobsAt(n, c), jobs'[n] \subseteq jobs[n],
         \A p \in net' :
           \/ p \in net
           \/ /\ p.from = n /\ p.to = c /\ p.id = t /\ gui[n][c].cards # <<>>
              /\ p.type = "CANCEL" \/ (p.type = "REJECT" /\ n = To[f]),
         ThreadsQuiet, whole' = whole
  PROVE  CardsInv'
<1>1. /\ TableAt(n, c) /\ table'[n][c][t].st = "none"
      /\ \A x \in TransferId : GoesOn(table[n][c][x], table'[n][c][x])
                               /\ (table'[n][c][x].st # "none" => table'[n][c][x].got = table[n][c][x].got)
  BY ClearAt
<1>2. CardsAt(n, c) /\ Marks(gui[n][c].cards, gui'[n][c].cards, t, st)
  BY TellAt
<1> QED BY <1>1, <1>2, EndsHere

----------------------------------------------------------------------------
(* Steps that end an entry *)

LEMMA RejectCards ==
  ASSUME TypeOK, TypeOK', CardsInv, OneFilePerChat, NEW n \in User, RejectFileTransfer(n)
  PROVE  CardsInv'
<1>1. PICK c \in User : \E i \in DOMAIN gui[n][c].cards :
        LET k == gui[n][c].cards[i]
        IN  /\ ~k.mine /\ k.st = "Offered"
            /\ Tell(n, c, Marked(gui[n][c], k.id, "Rejected"))
            /\ Clear(n, c, k.id)
            /\ Send(n, c, IF table[n][c][k.id].st = "incoming" THEN {Signal(n, c, "REJECT", k.id)} ELSE {})
  BY DEF RejectFileTransfer
<1>2. PICK i \in DOMAIN gui[n][c].cards :
        LET k == gui[n][c].cards[i]
        IN  /\ ~k.mine /\ k.st = "Offered"
            /\ Tell(n, c, Marked(gui[n][c], k.id, "Rejected"))
            /\ Clear(n, c, k.id)
            /\ Send(n, c, IF table[n][c][k.id].st = "incoming" THEN {Signal(n, c, "REJECT", k.id)} ELSE {})
  BY <1>1
<1>3. gui[n][c] \in Chat /\ gui[n][c].cards # <<>>
  BY ShownChat
<1>4. PICK f \in File, t \in TransferId : Between(f, n, c) /\ OnCard(f, t)
  BY <1>3, ChatOf DEF Silent
<1>5. Meets(gui[n][c].cards, t) /\ gui[n][c].cards[i].id = t /\ n = To[f]
  <2>1. i \in DOMAIN gui[n][c].cards /\ ~gui[n][c].cards[i].mine
    BY <1>2
  <2>2. n = To[f] \/ n = From[f]
    BY <1>4 DEF Between
  <2> QED BY <1>4, <2>1, <2>2, Numbers
<1>6. Marks(gui[n][c].cards, Marked(gui[n][c], t, "Rejected").cards, t, "Rejected")
  BY <1>3, <1>5, MarkedMarks DEF CardState
<1>7. \A p \in net' : p \in net \/ (p.from = n /\ p.to = c /\ p.id = t /\ p.type = "REJECT")
  <2>1. CASE table[n][c][t].st = "incoming"
    <3>1. Send(n, c, {Signal(n, c, "REJECT", t)})
      BY <1>2, <1>5, <2>1
    <3> QED BY <3>1, SignalSent
  <2>2. CASE table[n][c][t].st # "incoming"
    BY <1>2, <1>5, <2>2 DEF Send, Outgoing
  <2> QED BY <2>1, <2>2
<1>8. JobsAt(n, c) /\ jobs' = jobs /\ ThreadsQuiet /\ whole' = whole
  BY SameAt DEF RejectFileTransfer, history
<1>9. Clear(n, c, t) /\ Tell(n, c, Marked(gui[n][c], t, "Rejected"))
  BY <1>2, <1>5
<1> QED BY <1>3, <1>4, <1>5, <1>6, <1>7, <1>8, <1>9, ClearEnds

LEMMA CancelCards ==
  ASSUME TypeOK, TypeOK', CardsInv, OneFilePerChat, NEW n \in User, CancelFileTransfer(n)
  PROVE  CardsInv'
<1>1. PICK c \in User : \E i \in DOMAIN gui[n][c].cards :
        LET k == gui[n][c].cards[i]
            e == table[n][c][k.id]
            g == [Marked(gui[n][c], k.id, "Cancelled") EXCEPT !.progress = @ \ {k.id}]
        IN  /\ k.st = "Accepted"
            /\ Clear(n, c, k.id)
            /\ thread' = Ordered(thread, e, CancelCmd)
            /\ IF e.st = "none" THEN Tell(n, c, g) /\ UNCHANGED net
               ELSE /\ Tell(n, c, Ended(g, k.id, "Failed"))
                    /\ Send(n, c, {Signal(n, c, "CANCEL", k.id)})
  BY DEF CancelFileTransfer
<1>2. PICK i \in DOMAIN gui[n][c].cards :
        LET k == gui[n][c].cards[i]
            e == table[n][c][k.id]
            g == [Marked(gui[n][c], k.id, "Cancelled") EXCEPT !.progress = @ \ {k.id}]
        IN  /\ k.st = "Accepted"
            /\ Clear(n, c, k.id)
            /\ thread' = Ordered(thread, e, CancelCmd)
            /\ IF e.st = "none" THEN Tell(n, c, g) /\ UNCHANGED net
               ELSE /\ Tell(n, c, Ended(g, k.id, "Failed"))
                    /\ Send(n, c, {Signal(n, c, "CANCEL", k.id)})
  BY <1>1
<1>3. gui[n][c] \in Chat /\ gui[n][c].cards # <<>>
  BY ShownChat
<1>4. PICK f \in File, t \in TransferId : Between(f, n, c) /\ OnCard(f, t)
  BY <1>3, ChatOf DEF Silent
<1>5. Meets(gui[n][c].cards, t) /\ gui[n][c].cards[i].id = t
  <2>1. i \in DOMAIN gui[n][c].cards /\ gui[n][c].cards[i].st = "Accepted"
    BY <1>2
  <2> QED BY <1>4, <2>1, Numbers
<1> DEFINE g == Ended(gui[n][c], t, "Cancelled")
           h == Ended(g, t, "Failed")
<1>6. /\ Clear(n, c, t) /\ thread' = Ordered(thread, table[n][c][t], CancelCmd)
      /\ \/ Tell(n, c, g) /\ net' = net
         \/ Tell(n, c, h) /\ Send(n, c, {Signal(n, c, "CANCEL", t)})
  BY <1>2, <1>5 DEF Ended
<1>7. g \in Chat /\ Marks(gui[n][c].cards, g.cards, t, "Cancelled")
  BY <1>3, <1>5, EndedKept, MarkedMarks DEF CardState
<1>8. Marks(gui[n][c].cards, h.cards, t, "Cancelled")
  <2> HIDE DEF g
  <2>1. Marks(g.cards, h.cards, t, "Failed")
    BY <1>5, <1>7, MarksMeets, MarkedMarks DEF CardState
  <2> HIDE DEF h
  <2> QED BY <1>7, <2>1, MarkedTwice DEF OpenStates
<1>9. \A p \in net' : p \in net \/ (p.from = n /\ p.to = c /\ p.id = t /\ p.type = "CANCEL")
  <2> HIDE DEF g, h
  <2>1. CASE net' = net
    BY <2>1
  <2>2. CASE Send(n, c, {Signal(n, c, "CANCEL", t)})
    BY <2>2, SignalSent
  <2> QED BY <1>6, <2>1, <2>2
<1>10. PICK d \in {g, h} : Tell(n, c, d)
  <2> HIDE DEF g, h
  <2> QED BY <1>6, Zenon
<1>11. Marks(gui[n][c].cards, d.cards, t, "Cancelled")
  <2> HIDE DEF g, h
  <2> QED BY <1>7, <1>8
<1>12. JobsAt(n, c) /\ jobs' = jobs /\ ThreadsQuiet /\ whole' = whole
  BY <1>6, SameAt, OrderedQuiet, EntryThere, CommandTypes DEF CancelFileTransfer, history
<1> HIDE DEF g, h
<1> QED BY <1>3, <1>4, <1>6, <1>9, <1>10, <1>11, <1>12, ClearEnds

\* A packet that ends its transfer.
LEMMA EndedByPacket ==
  ASSUME TypeOK, TypeOK', CardsInv, OneFilePerChat, NEW n \in User, NEW p, NEW type,
         Arrives(n, p, type), Taken(p), Clear(n, p.from, p.id),
         NEW st \in {"Failed", "Completed"}, st = "Completed" => type = "ACK",
         Tell(n, p.from, Ended(gui[n][p.from], p.id, st)),
         jobs' = jobs, ThreadsQuiet, whole' = whole
  PROVE  CardsInv'
<1>1. /\ p \in net /\ p.type = type /\ p.to = n /\ p.from \in User /\ p.id \in TransferId
      /\ gui[n][p.from] \in Chat /\ Rest(p) \subseteq net
  BY ReadPacket
<1>2. PICK f \in File, t \in TransferId : Between(f, n, p.from) /\ OnCard(f, t)
  BY <1>1, ChatOf
<1>3. p.id = t /\ Meets(gui[n][p.from].cards, t) /\ (st = "Completed" => f \in whole)
  BY <1>1, <1>2, Numbers, PacketNumbers
<1>4. Marks(gui[n][p.from].cards, Ended(gui[n][p.from], t, st).cards, t, st)
  BY <1>1, <1>3, MarkedMarks DEF CardState
<1>5. /\ \A q \in net' : q \in net
      /\ Clear(n, p.from, t) /\ Tell(n, p.from, Ended(gui[n][p.from], t, st))
      /\ JobsAt(n, p.from) /\ jobs'[n] \subseteq jobs[n]
  BY <1>1, <1>3, SameAt DEF Taken
<1> QED BY <1>1, <1>2, <1>3, <1>4, <1>5, ClearEnds

LEMMA RecvRejectCards ==
  ASSUME TypeOK, TypeOK', CardsInv, OneFilePerChat, NEW n \in User, RecvReject(n)
  PROVE  CardsInv'
<1>1. jobs' = jobs /\ thread' = thread /\ whole' = whole
  BY DEF RecvReject, history
<1> QED BY <1>1, SameAt, EndedByPacket DEF RecvReject

LEMMA RecvAckCards ==
  ASSUME TypeOK, TypeOK', CardsInv, OneFilePerChat, NEW n \in User, RecvAck(n)
  PROVE  CardsInv'
<1>1. PICK p \in net :
        /\ Arrives(n, p, "ACK") /\ Taken(p)
        /\ thread' = Ordered(thread, table[n][p.from][p.id], AckCmd)
        /\ Clear(n, p.from, p.id)
        /\ Tell(n, p.from, Ended(gui[n][p.from], p.id, "Completed"))
  BY DEF RecvAck
<1>2. table[n][p.from][p.id] \in Entry
  BY <1>1, ReadPacket
<1>3. jobs' = jobs /\ ThreadsQuiet /\ whole' = whole
  BY <1>1, <1>2, OrderedQuiet, CommandTypes DEF RecvAck, history
<1> QED BY <1>1, <1>3, EndedByPacket

\* A result of background work, or a timer, that ends a transfer.
LEMMA EndedHere ==
  ASSUME TypeOK, TypeOK', CardsInv, OneFilePerChat, NEW n \in User, NEW c \in User, NEW x \in TransferId,
         table[n][c][x].st # "none" \/ \E j \in jobs[n] : j.with = c /\ j.id = x,
         Clear(n, c, x), NEW st \in {"Failed", "Completed"},
         st = "Completed" => \A f \in File : Between(f, n, c) => f \in whole,
         Tell(n, c, Ended(gui[n][c], x, st)),
         JobsAt(n, c), jobs'[n] \subseteq jobs[n], net' = net, ThreadsQuiet, whole' = whole
  PROVE  CardsInv'
<1>1. gui[n][c] \in Chat
  BY ShownChat
<1>2. PICK f \in File, t \in TransferId : Between(f, n, c) /\ OnCard(f, t)
  BY ChatOf DEF Silent
<1>3. x = t /\ Meets(gui[n][c].cards, t)
  BY <1>2, Numbers
<1>4. Marks(gui[n][c].cards, Ended(gui[n][c], t, st).cards, t, st)
  BY <1>1, <1>3, MarkedMarks DEF CardState
<1>5. Clear(n, c, t) /\ Tell(n, c, Ended(gui[n][c], t, st)) /\ \A q \in net' : q \in net
  BY <1>3
<1> QED BY <1>2, <1>4, <1>5, ClearEnds

LEMMA TimeoutCards ==
  ASSUME TypeOK, TypeOK', CardsInv, OneFilePerChat, NEW n \in User, TransferTimeout(n)
  PROVE  CardsInv'
<1>1. PICK c \in User, x \in TransferId :
        /\ table[n][c][x].st # "none"
        /\ Clear(n, c, x) /\ Tell(n, c, Ended(gui[n][c], x, "Failed"))
  BY DEF TransferTimeout
<1>2. JobsAt(n, c) /\ jobs' = jobs /\ net' = net /\ ThreadsQuiet /\ whole' = whole
  BY SameAt DEF TransferTimeout, history
<1> QED BY <1>1, <1>2, EndedHere

\* The sender's thread was told that the file arrived.
LEMMA DrainDoneCards ==
  ASSUME TypeOK, TypeOK', CardsInv, OneFilePerChat, AckMeansWhole, NEW n \in User, DrainDone(n)
  PROVE  CardsInv'
<1>1. PICK j \in jobs[n] : /\ j.type = "done" /\ Done(n, j) /\ Clear(n, j.with, j.id)
                           /\ Tell(n, j.with, Ended(gui[n][j.with], j.id, "Completed"))
  BY DEF DrainDone, Drained
<1>2. j.with \in User /\ j.id \in TransferId
  BY JobFields
<1>3. PICK f \in File, t \in TransferId : Between(f, n, j.with) /\ OnCard(f, t)
  BY <1>2, ChatOf DEF Silent
<1>4. n = From[f] /\ j.file = f
  BY <1>1, <1>2, <1>3, Numbers, Ends DEF Between
<1>5. f \in whole
  BY <1>1, <1>4 DEF AckMeansWhole
<1>6. \A g \in File : Between(g, n, j.with) => g \in whole
  BY <1>3, <1>5 DEF OneFilePerChat, Between
<1>7. JobsAt(n, j.with) /\ jobs'[n] \subseteq jobs[n]
  BY <1>1, DoneAt
<1>8. net' = net /\ ThreadsQuiet /\ whole' = whole
  BY SameAt DEF DrainDone, history
<1> QED BY <1>1, <1>2, <1>6, <1>7, <1>8, EndedHere

----------------------------------------------------------------------------
(* Steps that leave a transfer as it is, or take it a step further *)

\* Nothing of the table, the cards, the jobs or the threads, and no packet more.
NothingNew ==
  table' = table /\ gui' = gui /\ jobs' = jobs /\ thread' = thread /\ net' \subseteq net /\ whole' = whole

LEMMA NothingNewCards ==
  ASSUME TypeOK, TypeOK', CardsInv, NothingNew
  PROVE  CardsInv'
<1>1. ASSUME NEW f \in File, NEW t \in TransferId, OnCard(f, t)
      PROVE  OnCard(f, t)'
  <2>1. SendEntry(f, t)' = SendEntry(f, t) /\ Ours(f)' = Ours(f)
    BY DEF NothingNew, SendEntry, Ours
  <2>2. SenderStep(f, t)
    BY FollowSelf DEF NothingNew, SenderStep, GoesOn, SendEntry, RecvEntry, Ours, Theirs, SendJobs, RecvJobs, Alive
  <2> QED BY <1>1, <2>1, <2>2, SenderOnCard DEF OnCard, CardsOpen
<1>2. \A n, c \in User : Silent(n, c) => Silent(n, c)'
  BY DEF NothingNew, Silent
<1>3. TransferId' = TransferId /\ \A f \in File, n, c \in User : Between(f, n, c)' <=> Between(f, n, c)
  BY DEF TransferId, Between
<1> QED BY <1>1, <1>2, <1>3 DEF CardsInv

LEMMA RecvCancelCards ==
  ASSUME TypeOK, TypeOK', CardsInv, OneFilePerChat, NEW n \in User, RecvCancel(n)
  PROVE  CardsInv'
<1>1. PICK p \in net :
        /\ Arrives(n, p, "CANCEL") /\ Taken(p)
        /\ thread' = Ordered(thread, table[n][p.from][p.id], CancelCmd)
        /\ Clear(n, p.from, p.id)
        /\ IF table[n][p.from][p.id].st = "none" THEN UNCHANGED gui
           ELSE Tell(n, p.from, Ended(gui[n][p.from], p.id, "Failed"))
  BY DEF RecvCancel
<1>2. /\ table[n][p.from][p.id] \in Entry /\ p.from \in User /\ p.id \in TransferId
      /\ p \in net /\ p.to = n /\ Rest(p) \subseteq net
  BY <1>1, ReadPacket
<1>3. jobs' = jobs /\ ThreadsQuiet /\ whole' = whole
  BY <1>1, <1>2, OrderedQuiet, CommandTypes DEF RecvCancel, history
<1>4. CASE table[n][p.from][p.id].st = "none"
  <2>1. PICK f \in File, t \in TransferId : Between(f, n, p.from) /\ OnCard(f, t)
    BY <1>2, ChatOf
  <2>2. TableAt(n, p.from) /\ EntriesGoOn(n, p.from, f)
    BY <1>1, <1>2, <1>4, ClearNothing
  <2>3. gui' = gui /\ net' \subseteq net
    BY <1>1, <1>2, <1>4 DEF Taken
  <2>4. /\ CardsAt(n, p.from) /\ CardsGoOn(n, p.from, f, t)
        /\ JobsAt(n, p.from) /\ JobsGoOn(n, p.from, f, t) /\ PacketsGoOn(n, p.from, f, t)
    BY <1>3, <2>3, SameGoOn
  <2> QED BY <1>2, <1>3, <2>1, <2>2, <2>4, GoesOnHere
<1>5. CASE table[n][p.from][p.id].st # "none"
  <2>1. Tell(n, p.from, Ended(gui[n][p.from], p.id, "Failed"))
    BY <1>1, <1>5
  <2> QED BY <1>1, <1>3, <2>1, EndedByPacket
<1> QED BY <1>4, <1>5

\* An entry whose only change is told.
LEMMA ToldAt ==
  ASSUME TypeOK, NEW n \in User, NEW c \in User, NEW t \in TransferId, NEW b \in BOOLEAN,
         table[n][c][t].st # "none", Put(n, c, t, [table[n][c][t] EXCEPT !.told = b])
  PROVE  /\ TableAt(n, c)
         /\ \A x \in TransferId :
              /\ table'[n][c][x].st = table[n][c][x].st
              /\ table'[n][c][x].file = table[n][c][x].file /\ table'[n][c][x].got = table[n][c][x].got
<1>1. PICK d : d = [table[n][c][t] EXCEPT !.told = b]
  OBVIOUS
<1>2. d.st = table[n][c][t].st /\ d.file = table[n][c][t].file /\ d.got = table[n][c][t].got
  BY <1>1, EntryThere, EntryFields
<1>3. /\ TableAt(n, c) /\ table'[n][c][t] = d
      /\ \A x \in TransferId : x # t => table'[n][c][x] = table[n][c][x]
  BY <1>1, PutAt
<1> QED BY <1>2, <1>3

LEMMA RecvChunkCards ==
  ASSUME TypeOK, TypeOK', CardsInv, OneFilePerChat, NEW n \in User, RecvChunk(n)
  PROVE  CardsInv'
<1>1. PICK p \in net :
        /\ Arrives(n, p, "CHUNK") /\ Taken(p)
        /\ IF table[n][p.from][p.id].st = "receiving"
           THEN table' = [table EXCEPT ![n][p.from][p.id].got[p.index] = p.file]
           ELSE UNCHANGED table
  BY DEF RecvChunk
<1> DEFINE c == p.from
           x == p.id
<1>2. /\ c \in User /\ x \in TransferId /\ p.to = n /\ p.type = "CHUNK" /\ p.index \in Chunk
      /\ Rest(p) \subseteq net /\ table[n][c][x] \in Entry
  BY <1>1, ReadPacket, PacketFields
<1>3. net' \subseteq net /\ gui' = gui /\ jobs' = jobs /\ thread' = thread /\ whole' = whole
  BY <1>1, <1>2 DEF RecvChunk, Taken, history
<1>4. CASE table' = table
  BY <1>3, <1>4, NothingNewCards DEF NothingNew
<1>5. CASE table[n][c][x].st = "receiving" /\ table' = [table EXCEPT ![n][c][x].got[p.index] = p.file]
  <2>1. PICK f \in File, t \in TransferId : Between(f, n, c) /\ OnCard(f, t)
    BY <1>2, ChatOf
  <2>2. p.file = f
    <3>1. n = To[f] /\ c = From[f]
      BY <1>2, <2>1, PacketNumbers DEF Between
    <3> QED BY <1>2, <2>1, <3>1, PacketNumbers
  <2>3. PICK g : g = [table[n][c][x].got EXCEPT ![p.index] = p.file]
    OBVIOUS
  <2>4. \A i \in Chunk : g[i] \in {table[n][c][x].got[i], f}
    BY <1>2, <2>2, <2>3, EntryFields
  <2>5. PICK e : e = [table[n][c][x] EXCEPT !.got = g]
    OBVIOUS
  <2>6. e.st = table[n][c][x].st /\ e.file = table[n][c][x].file /\ e.got = g
    <3>1. table[n][c][x] \in Entry \ {NoEntry}
      BY <1>2, <1>5, BlankEntry
    <3> QED BY <2>5, <3>1 DEF Entry
  <2>7. Put(n, c, x, e)
    BY <1>5, <2>3, <2>5, Zenon DEF Put
  <2>8. /\ TableAt(n, c) /\ table'[n][c][x] = e
        /\ \A y \in TransferId : y # x => table'[n][c][y] = table[n][c][y]
    BY <1>2, <2>7, PutAt
  <2>9. EntriesGoOn(n, c, f)
    BY <2>4, <2>6, <2>8 DEF EntriesGoOn
  <2> HIDE DEF c, x
  <2>10. /\ CardsAt(n, c) /\ CardsGoOn(n, c, f, t) /\ JobsAt(n, c) /\ JobsGoOn(n, c, f, t)
         /\ PacketsGoOn(n, c, f, t) /\ ThreadsQuiet
    BY <1>3, SameGoOn, SameAt
  <2> QED BY <1>2, <1>3, <2>1, <2>8, <2>9, <2>10, GoesOnHere
<1> QED BY <1>1, <1>4, <1>5

LEMMA RecvNackCards ==
  ASSUME TypeOK, TypeOK', CardsInv, OneFilePerChat, NEW n \in User, RecvNack(n)
  PROVE  CardsInv'
<1>1. PICK p \in net :
        /\ Arrives(n, p, "NACK") /\ Taken(p)
        /\ IF table[n][p.from][p.id].st = "sending"
           THEN /\ Put(n, p.from, p.id, [table[n][p.from][p.id] EXCEPT !.told = FALSE])
                /\ thread' = Ordered(thread, table[n][p.from][p.id], NackCmd(p.missing))
           ELSE UNCHANGED <<table, thread>>
  BY DEF RecvNack
<1> DEFINE c == p.from
           x == p.id
<1>2. /\ c \in User /\ x \in TransferId /\ p.to = n /\ p.missing \in SUBSET Chunk
      /\ Rest(p) \subseteq net /\ table[n][c][x] \in Entry
  BY <1>1, ReadPacket, PacketFields
<1>3. net' \subseteq net /\ gui' = gui /\ jobs' = jobs /\ whole' = whole
  BY <1>1, <1>2 DEF RecvNack, Taken, history
<1>4. CASE table' = table /\ thread' = thread
  BY <1>3, <1>4, NothingNewCards DEF NothingNew
<1>5. CASE /\ table[n][c][x].st = "sending"
           /\ Put(n, c, x, [table[n][c][x] EXCEPT !.told = FALSE])
           /\ thread' = Ordered(thread, table[n][c][x], NackCmd(p.missing))
  <2>1. PICK f \in File, t \in TransferId : Between(f, n, c) /\ OnCard(f, t)
    BY <1>2, ChatOf
  <2>2. /\ TableAt(n, c)
        /\ \A y \in TransferId :
             /\ table'[n][c][y].st = table[n][c][y].st
             /\ table'[n][c][y].file = table[n][c][y].file /\ table'[n][c][y].got = table[n][c][y].got
    BY <1>2, <1>5, ToldAt
  <2>3. EntriesGoOn(n, c, f)
    BY <2>2 DEF EntriesGoOn
  <2>4. ThreadsQuiet
    BY <1>2, <1>5, OrderedQuiet, CommandTypes
  <2> HIDE DEF c, x
  <2>5. /\ CardsAt(n, c) /\ CardsGoOn(n, c, f, t) /\ JobsAt(n, c) /\ JobsGoOn(n, c, f, t)
        /\ PacketsGoOn(n, c, f, t)
    BY <1>3, SameGoOn
  <2> QED BY <1>2, <1>3, <2>1, <2>2, <2>3, <2>4, <2>5, GoesOnHere
<1> QED BY <1>1, <1>4, <1>5

\* The results that end nothing; a job that is done is no longer waited for.
LEMMA DrainedHere ==
  ASSUME TypeOK, TypeOK', CardsInv, OneFilePerChat, NEW n \in User, NEW j \in jobs[n], j.type # "verify",
         Done(n, j), TableAt(n, j.with),
         \A x \in TransferId :
           /\ table'[n][j.with][x].st = table[n][j.with][x].st
           /\ table'[n][j.with][x].file = table[n][j.with][x].file
           /\ table'[n][j.with][x].got = table[n][j.with][x].got,
         CardsAt(n, j.with),
         gui'[n][j.with].cards = gui[n][j.with].cards \/ gui'[n][j.with] = Moving(gui[n][j.with], j.id),
         \A p \in net' : p \in net \/ (p.from = n /\ p.to = j.with /\ p.id = j.id /\ p.type = "COMPLETE"),
         thread' = thread, whole' = whole
  PROVE  CardsInv'
<1> DEFINE c == j.with
<1>1. c \in User /\ j.id \in TransferId /\ gui[n][c] \in Chat
  BY JobFields, ShownChat
<1>2. PICK f \in File, t \in TransferId : Between(f, n, c) /\ OnCard(f, t)
  BY <1>1, ChatOf DEF Silent
<1>3. /\ Meets(gui[n][c].cards, t) /\ j.id = t /\ gui[n][c].cards # <<>>
      /\ n = From[f] /\ n # To[f]
  <2>1. /\ Meets(gui[n][c].cards, t) /\ j.id = t /\ gui[n][c].cards # <<>>
        /\ j.type = "verify" <=> n = To[f]
    BY <1>1, <1>2, Numbers
  <2> QED BY <1>2, <2>1, Ends DEF Between
<1>4. CardsGoOn(n, c, f, t)
  <2>1. \/ Moving(gui[n][c], t).cards = gui[n][c].cards
        \/ Marks(gui[n][c].cards, Moving(gui[n][c], t).cards, t, "Accepted")
    BY <1>1, <1>3, MovingMarks
  <2>2. gui'[n][c].cards = gui[n][c].cards \/ gui'[n][c] = Moving(gui[n][c], t)
    BY <1>3
  <2> QED BY <1>3, <2>1, <2>2 DEF CardsGoOn
<1>5. JobsAt(n, c) /\ jobs'[n] \subseteq jobs[n] /\ ThreadsQuiet
  BY DoneAt, SameAt
<1>6. JobsGoOn(n, c, f, t) /\ PacketsGoOn(n, c, f, t) /\ EntriesGoOn(n, c, f)
  BY <1>3, <1>5 DEF JobsGoOn, PacketsGoOn, EntriesGoOn, JobsWith
<1> QED BY <1>1, <1>2, <1>4, <1>5, <1>6, GoesOnHere

LEMMA DrainAllSentCards ==
  ASSUME TypeOK, TypeOK', CardsInv, OneFilePerChat, NEW n \in User, DrainAllSent(n)
  PROVE  CardsInv'
<1>1. PICK j \in jobs[n] :
        /\ j.type = "allSent" /\ Done(n, j)
        /\ IF table[n][j.with][j.id].st = "sending" /\ ~table[n][j.with][j.id].told
           THEN /\ Put(n, j.with, j.id, [table[n][j.with][j.id] EXCEPT !.told = TRUE])
                /\ Send(n, j.with, {Signal(n, j.with, "COMPLETE", j.id)})
           ELSE UNCHANGED <<table, net>>
  BY DEF DrainAllSent, Drained
<1>2. j.with \in User /\ j.id \in TransferId
  BY JobFields
<1>3. gui' = gui /\ thread' = thread /\ whole' = whole /\ CardsAt(n, j.with)
  BY SameAt DEF DrainAllSent, history
<1>4. CASE table' = table /\ net' = net
  BY <1>1, <1>3, <1>4, SameAt, DrainedHere
<1>5. CASE /\ table[n][j.with][j.id].st = "sending"
           /\ Put(n, j.with, j.id, [table[n][j.with][j.id] EXCEPT !.told = TRUE])
           /\ Send(n, j.with, {Signal(n, j.with, "COMPLETE", j.id)})
  <2>1. /\ TableAt(n, j.with)
        /\ \A x \in TransferId :
             /\ table'[n][j.with][x].st = table[n][j.with][x].st
             /\ table'[n][j.with][x].file = table[n][j.with][x].file
             /\ table'[n][j.with][x].got = table[n][j.with][x].got
    BY <1>2, <1>5, ToldAt
  <2>2. \A p \in net' : p \in net \/ (p.from = n /\ p.to = j.with /\ p.id = j.id /\ p.type = "COMPLETE")
    BY <1>5, SignalSent
  <2> QED BY <1>1, <1>3, <2>1, <2>2, DrainedHere
<1> QED BY <1>1, <1>4, <1>5

LEMMA DrainProgressCards ==
  ASSUME TypeOK, TypeOK', CardsInv, OneFilePerChat, NEW n \in User, DrainProgress(n)
  PROVE  CardsInv'
<1>1. PICK j \in jobs[n] : j.type = "progress" /\ Done(n, j) /\ Tell(n, j.with, Moving(gui[n][j.with], j.id))
  BY DEF DrainProgress, Drained
<1>2. j.with \in User
  BY JobFields
<1>3. table' = table /\ net' = net /\ thread' = thread /\ whole' = whole /\ TableAt(n, j.with)
  BY SameAt DEF DrainProgress, history
<1>4. CardsAt(n, j.with) /\ gui'[n][j.with] = Moving(gui[n][j.with], j.id)
  BY <1>1, <1>2, TellAt
<1> QED BY <1>1, <1>3, <1>4, DrainedHere

LEMMA ResendCards ==
  ASSUME TypeOK, TypeOK', CardsInv, OneFilePerChat, NEW n \in User, ResendComplete(n)
  PROVE  CardsInv'
<1>1. PICK c \in User, x \in TransferId :
        table[n][c][x].st = "sending" /\ Send(n, c, {Signal(n, c, "COMPLETE", x)})
  BY DEF ResendComplete
<1>2. table' = table /\ gui' = gui /\ jobs' = jobs /\ thread' = thread /\ whole' = whole
  BY DEF ResendComplete, history
<1>3. PICK f \in File, t \in TransferId : Between(f, n, c) /\ OnCard(f, t)
  BY <1>1, ChatOf DEF Silent
<1>4. x = t /\ gui[n][c].cards # <<>> /\ n = From[f]
  BY <1>1, <1>3, Numbers DEF Between
<1>5. PacketsGoOn(n, c, f, t)
  BY <1>1, <1>4, SignalSent DEF PacketsGoOn
<1>6. /\ TableAt(n, c) /\ EntriesGoOn(n, c, f) /\ CardsAt(n, c) /\ CardsGoOn(n, c, f, t)
      /\ JobsAt(n, c) /\ JobsGoOn(n, c, f, t) /\ ThreadsQuiet
  BY <1>2, SameGoOn, SameAt
<1> QED BY <1>2, <1>3, <1>5, <1>6, GoesOnHere

LEMMA ShowProgressCards ==
  ASSUME TypeOK, TypeOK', CardsInv, OneFilePerChat, NEW n \in User, ShowProgress(n)
  PROVE  CardsInv'
<1>1. PICK c \in User, x \in TransferId :
        table[n][c][x].st = "receiving" /\ Tell(n, c, Moving(gui[n][c], x))
  BY DEF ShowProgress
<1>2. table' = table /\ net' = net /\ jobs' = jobs /\ thread' = thread /\ whole' = whole
  BY DEF ShowProgress, history
<1>3. PICK f \in File, t \in TransferId : Between(f, n, c) /\ OnCard(f, t)
  BY <1>1, ChatOf DEF Silent
<1>4. x = t /\ Meets(gui[n][c].cards, t) /\ gui[n][c] \in Chat
  BY <1>1, <1>3, Numbers, ShownChat
<1>5. CardsAt(n, c) /\ gui'[n][c] = Moving(gui[n][c], t)
  BY <1>1, <1>4, TellAt
<1>6. CardsGoOn(n, c, f, t)
  BY <1>1, <1>4, <1>5, MovingMarks DEF CardsGoOn
<1>7. /\ TableAt(n, c) /\ EntriesGoOn(n, c, f) /\ JobsAt(n, c) /\ JobsGoOn(n, c, f, t)
      /\ PacketsGoOn(n, c, f, t) /\ ThreadsQuiet
  BY <1>2, SameGoOn, SameAt
<1> QED BY <1>2, <1>3, <1>5, <1>6, <1>7, GoesOnHere

\* A sender thread works for a file that has its card.
LEMMA ThreadNumbers ==
  ASSUME TypeOK, CardsInv, NEW f \in File, Alive(f)
  PROVE  \E t \in TransferId : OnCard(f, t) /\ thread[f].id = t /\ Ours(f) # <<>>
BY DEF CardsInv, OnCard, Numbered, JobsNumbered, InTurn, Unoffered

\* What a thread sends and reports.
LEMMA ThreadCards ==
  ASSUME TypeOK, TypeOK', CardsInv, OneFilePerChat, NEW f \in File, Alive(f), NEW types,
         types \subseteq {"allSent", "progress", "done"},
         jobs' = [jobs EXCEPT ![From[f]] = @ \cup {Job(x, To[f], thread[f].id, f, TRUE) : x \in types}],
         \A p \in net' :
           \/ p \in net
           \/ p.from = From[f] /\ p.to = To[f] /\ p.id = thread[f].id /\ p.type = "CHUNK" /\ p.file = f,
         ThreadsQuiet, table' = table, gui' = gui, whole' = whole
  PROVE  CardsInv'
<1> DEFINE n == From[f]
           c == To[f]
           J == {Job(x, c, thread[f].id, f, TRUE) : x \in types}
<1>1. n \in User /\ c \in User /\ n # c /\ Between(f, n, c)
  BY Ends DEF Between
<1>2. PICK t \in TransferId : OnCard(f, t) /\ thread[f].id = t /\ gui[n][c].cards # <<>>
  BY ThreadNumbers DEF Ours
<1>3. \A j \in J : j.with = c /\ j.id = t /\ j.file = f /\ j.type \in {"allSent", "progress", "done"}
  BY <1>2 DEF Job
<1>4. \A m \in User : jobs'[m] = IF m = n THEN jobs[n] \cup J ELSE jobs[m]
  <2>1. jobs \in [User -> SUBSET Work]
    BY DEF TypeOK
  <2>2. jobs' = [jobs EXCEPT ![n] = jobs[n] \cup J]
    BY Zenon
  <2> HIDE DEF n, J
  <2> QED BY <1>1, <2>1, <2>2
<1> HIDE DEF n, c, J
<1>5. JobsAt(n, c) /\ JobsGoOn(n, c, f, t)
  <2>1. JobsAt(n, c)
    <3> SUFFICES ASSUME NEW m \in User, NEW b \in User, Elsewhere(n, c, m, b)
                 PROVE  JobsWith(m, b)' = JobsWith(m, b)
      BY DEF JobsAt
    <3>1. CASE m # n
      BY <1>4, <3>1 DEF JobsWith
    <3>2. CASE m = n /\ b # c
      <4>1. jobs'[n] = jobs[n] \cup J
        BY <1>1, <1>4
      <4>2. \A j : j \in jobs'[n] /\ j.with = b <=> j \in jobs[n] /\ j.with = b
        BY <1>3, <3>2, <4>1
      <4> QED BY <3>2, <4>2 DEF JobsWith
    <3> QED BY <3>1, <3>2 DEF Elsewhere
  <2>2. JobsGoOn(n, c, f, t)
    <3>1. jobs'[n] = jobs[n] \cup J /\ n # To[f]
      BY <1>1, <1>4 DEF c
    <3>2. \A j \in JobsWith(n, c)' : j \in jobs'[n]
      BY DEF JobsWith
    <3> QED BY <1>2, <1>3, <3>1, <3>2 DEF JobsGoOn
  <2> QED BY <2>1, <2>2
<1>6. PacketsGoOn(n, c, f, t)
  BY <1>2 DEF PacketsGoOn, n, c
<1>7. TableAt(n, c) /\ EntriesGoOn(n, c, f) /\ CardsAt(n, c) /\ CardsGoOn(n, c, f, t)
  BY SameGoOn
<1> QED BY <1>1, <1>2, <1>5, <1>6, <1>7, GoesOnHere

LEMMA SendRoundCards ==
  ASSUME TypeOK, TypeOK', CardsInv, OneFilePerChat, NEW f \in File, SendRound(f)
  PROVE  CardsInv'
<1>1. Alive(f) /\ table' = table /\ gui' = gui /\ whole' = whole
  BY DEF SendRound, Alive, history
<1>2. PICK types \in {{"allSent"}, {"allSent", "progress"}} :
        jobs' = [jobs EXCEPT ![From[f]] = @ \cup {Job(x, To[f], thread[f].id, f, TRUE) : x \in types}]
  BY DEF SendRound
<1>3. \A p \in net' :
        \/ p \in net
        \/ p.from = From[f] /\ p.to = To[f] /\ p.id = thread[f].id /\ p.type = "CHUNK" /\ p.file = f
  BY DEF SendRound, ChunkOf
<1>4. ThreadsQuiet
  <2>1. thread \in [File -> Thread]
    BY DEF TypeOK
  <2>2. PICK d : d = [thread[f] EXCEPT !.st = "waiting", !.todo = {}]
    OBVIOUS
  <2>3. thread' = [thread EXCEPT ![f] = d]
    BY <2>1, <2>2 DEF SendRound
  <2>4. d.id = thread[f].id
    BY <2>1, <2>2 DEF Thread
  <2> QED BY <1>1, <2>1, <2>3, <2>4 DEF ThreadsQuiet, Alive
<1>5. types \subseteq {"allSent", "progress", "done"}
  BY <1>2
<1> QED BY <1>1, <1>2, <1>3, <1>4, <1>5, ThreadCards

LEMMA NextCommandCards ==
  ASSUME TypeOK, TypeOK', CardsInv, OneFilePerChat, NEW f \in File, NextCommand(f)
  PROVE  CardsInv'
<1> DEFINE q == thread[f].cmds
           d == IF q # <<>> /\ Head(q).type = "Nack"
                THEN [thread[f] EXCEPT !.st = "sending", !.todo = Head(q).missing, !.cmds = Tail(q)]
                ELSE NoThread
<1>1. Alive(f) /\ table' = table /\ gui' = gui /\ whole' = whole /\ net' = net
  BY DEF NextCommand, Alive, history
<1>2. ThreadsQuiet
  <2>1. thread \in [File -> Thread] /\ thread' = [thread EXCEPT ![f] = d]
    BY DEF TypeOK, NextCommand
  <2>2. d.st = "none" \/ d.id = thread[f].id
    BY <2>1 DEF Thread, NoThread
  <2> HIDE DEF d
  <2> QED BY <1>1, <2>1, <2>2 DEF ThreadsQuiet, Alive
<1>3. PICK types \in {{}, {"done"}} :
        jobs' = [jobs EXCEPT ![From[f]] = @ \cup {Job(x, To[f], thread[f].id, f, TRUE) : x \in types}]
  <2>1. CASE q # <<>> /\ Head(q).type = "Ack"
    <3>1. jobs' = [jobs EXCEPT ![From[f]] = @ \cup {Job("done", To[f], thread[f].id, f, TRUE)}]
      BY <2>1 DEF NextCommand
    <3>2. {Job("done", To[f], thread[f].id, f, TRUE)} = {Job(x, To[f], thread[f].id, f, TRUE) : x \in {"done"}}
      OBVIOUS
    <3> QED BY <3>1, <3>2, Zenon
  <2>2. CASE ~(q # <<>> /\ Head(q).type = "Ack")
    <3>1. jobs' = jobs
      BY <2>2 DEF NextCommand
    <3>2. {Job(x, To[f], thread[f].id, f, TRUE) : x \in {}} = {}
      OBVIOUS
    <3>3. jobs = [jobs EXCEPT ![From[f]] = @ \cup {}]
      BY DEF TypeOK
    <3> QED BY <3>1, <3>2, <3>3, Zenon
  <2> QED BY <2>1, <2>2
<1>4. types \subseteq {"allSent", "progress", "done"}
  BY <1>3
<1> QED BY <1>1, <1>2, <1>3, <1>4, ThreadCards

----------------------------------------------------------------------------
(* The end of a transfer at the receiver *)

LEMMA DrainVerifyCards ==
  ASSUME TypeOK, TypeOK', CardsInv, OneFilePerChat, NEW n \in User, DrainVerify(n)
  PROVE  CardsInv'
<1>1. PICK j \in jobs[n], st \in {"Completed", "Failed"} :
        /\ j.type = "verify" /\ Done(n, j) /\ (st = "Completed" => j.good)
        /\ Tell(n, j.with, Ended(gui[n][j.with], j.id, st))
  BY DEF DrainVerify, Drained
<1> DEFINE c == j.with
<1>2. c \in User /\ j.id \in TransferId /\ j.good \in BOOLEAN /\ gui[n][c] \in Chat
  BY JobFields, ShownChat DEF Work
<1>3. table' = table /\ net' = net /\ thread' = thread /\ whole' = whole
  BY DEF DrainVerify, history
<1>4. PICK f \in File, t \in TransferId : Between(f, n, c) /\ OnCard(f, t)
  BY <1>2, ChatOf DEF Silent
<1>5. Meets(gui[n][c].cards, t) /\ j.id = t /\ n = To[f] /\ c = From[f]
  BY <1>1, <1>2, <1>4, Numbers, Ends DEF Between
<1>6. j \in RecvJobs(f)
  BY <1>5 DEF RecvJobs
<1>7. table'[n][c][t].st = "none" /\ (st = "Completed" => f \in whole)
  <2>1. table[n][c][t].st = "none"
    BY <1>4, <1>5, <1>6 DEF OnCard, CardsOpen, RecvEntry
  <2>2. st = "Completed" => j.good = TRUE
    BY <1>1, <1>2
  <2> QED BY <1>3, <1>4, <1>6, <2>1, <2>2 DEF OnCard, Earned
<1> HIDE DEF c
<1>8. /\ TableAt(n, c) /\ ThreadsQuiet
      /\ \A x \in TransferId : GoesOn(table[n][c][x], table'[n][c][x]) /\ table'[n][c][x].got = table[n][c][x].got
  BY <1>3, SameAt DEF GoesOn
<1>9. CardsAt(n, c) /\ Marks(gui[n][c].cards, gui'[n][c].cards, t, st)
  <2>1. CardsAt(n, c) /\ gui'[n][c] = Ended(gui[n][c], t, st)
    BY <1>1, <1>2, <1>5, TellAt DEF c
  <2>2. Marks(gui[n][c].cards, Ended(gui[n][c], t, st).cards, t, st)
    BY <1>2, <1>5, MarkedMarks DEF CardState
  <2> QED BY <2>1, <2>2
<1>10. JobsAt(n, c) /\ jobs'[n] \subseteq jobs[n]
  BY <1>1, DoneAt DEF c
<1> QED BY <1>2, <1>3, <1>4, <1>7, <1>8, <1>9, <1>10, EndsHere

LEMMA RecvCompleteCards ==
  ASSUME TypeOK, TypeOK', CardsInv, OneFilePerChat, NEW n \in User, RecvComplete(n)
  PROVE  CardsInv'
<1> DEFINE e(p) == table[n][p.from][p.id]
           good(p) == \A i \in Chunk : e(p).got[i] = e(p).file
           job(p) == Job("verify", p.from, p.id, e(p).file, good(p))
<1>1. PICK p \in net :
        /\ Arrives(n, p, "COMPLETE")
        /\ net' = Rest(p) \cup Answer(n, p.from, p.id)
        /\ IF e(p).st = "receiving" /\ Missing(e(p)) = {}
           THEN /\ Clear(n, p.from, p.id)
                /\ jobs' = [jobs EXCEPT ![n] = @ \cup {job(p)}]
                /\ whole' = whole \cup {f \in File : \A i \in Chunk : e(p).got[i] = f}
           ELSE UNCHANGED <<table, jobs, whole>>
  BY DEF RecvComplete
<1> DEFINE c == p.from
           x == p.id
<1>2. /\ c \in User /\ x \in TransferId /\ p.to = n /\ p.type = "COMPLETE"
      /\ Rest(p) \subseteq net /\ table[n][c][x] \in Entry
  BY <1>1, ReadPacket
<1>3. gui' = gui /\ thread' = thread
  BY DEF RecvComplete
<1>4. PICK f \in File, t \in TransferId : Between(f, n, c) /\ OnCard(f, t)
  BY <1>2, ChatOf
<1>5. n = To[f] /\ c = From[f] /\ x = t
  BY <1>2, <1>4, PacketNumbers DEF Between
<1>6. CASE e(p).st # "receiving"
  <2>1. Answer(n, c, x) = {}
    BY <1>6 DEF Answer
  <2>2. net' \subseteq net /\ UNCHANGED <<table, jobs, whole>>
    BY <1>1, <1>2, <1>6, <2>1
  <2> QED BY <1>3, <2>2, NothingNewCards DEF NothingNew
<1>7. CASE e(p).st = "receiving" /\ Missing(e(p)) # {}
  <2>1. Answer(n, c, x) = Nacks(n, c, x, Missing(e(p)))
    BY <1>7 DEF Answer
  <2>2. \A q \in Nacks(n, c, x, Missing(e(p))) : q.from = n /\ q.to = c /\ q.id = x /\ q.type = "NACK"
    BY DEF Nacks
  <2>3. table[n][c][t].st # "none"
    BY <1>5, <1>7
  <2>4. gui[n][c].cards # <<>>
    BY <1>2, <1>4, <2>3, Numbers
  <2> HIDE DEF e, c, x
  <2>5. PacketsGoOn(n, c, f, t)
    BY <1>1, <1>2, <1>5, <2>1, <2>2, <2>4 DEF PacketsGoOn, c, x
  <2>6. table' = table /\ jobs' = jobs /\ whole' = whole
    BY <1>1, <1>7
  <2>7. /\ TableAt(n, c) /\ EntriesGoOn(n, c, f) /\ CardsAt(n, c) /\ CardsGoOn(n, c, f, t)
        /\ JobsAt(n, c) /\ JobsGoOn(n, c, f, t) /\ ThreadsQuiet
    BY <1>3, <2>6, SameGoOn, SameAt
  <2> QED BY <1>2, <1>4, <2>5, <2>6, <2>7, GoesOnHere
<1>8. CASE e(p).st = "receiving" /\ Missing(e(p)) = {}
  <2>1. /\ Clear(n, c, t) /\ jobs' = [jobs EXCEPT ![n] = @ \cup {job(p)}]
        /\ whole' = whole \cup {g \in File : \A i \in Chunk : e(p).got[i] = g}
        /\ Answer(n, c, x) = {Signal(n, c, "ACK", t)}
    BY <1>1, <1>5, <1>8 DEF Answer
  <2>2. /\ table[n][c][t].file = f /\ gui[n][c].cards # <<>>
        /\ \A i \in Chunk : table[n][c][t].got[i] = f
    <3>1. table[n][c][t].st = "receiving"
      BY <1>5, <1>8
    <3>2. /\ table[n][c][t].file = f /\ gui[n][c].cards # <<>>
          /\ \A i \in Chunk : table[n][c][t].got[i] \in {NoFile, f}
      BY <1>2, <1>4, <1>5, <3>1, Numbers
    <3>3. \A i \in Chunk : table[n][c][t].got[i] # NoFile
      BY <1>5, <1>8 DEF Missing
    <3> QED BY <3>2, <3>3
  <2>3. f \in whole' /\ whole \subseteq whole'
    BY <1>5, <2>1, <2>2
  <2>4. job(p).with = c /\ job(p).id = t /\ job(p).file = f /\ job(p).type = "verify"
    BY <1>5, <2>2 DEF Job
  <2>5. /\ TableAt(n, c) /\ table'[n][c][t].st = "none"
        /\ \A y \in TransferId : GoesOn(table[n][c][y], table'[n][c][y])
                                 /\ (table'[n][c][y].st # "none" => table'[n][c][y].got = table[n][c][y].got)
    BY <1>2, <1>5, <2>1, ClearAt
  <2> DEFINE d == job(p)
  <2>6. \A m \in User : jobs'[m] = IF m = n THEN jobs[n] \cup {d} ELSE jobs[m]
    <3>1. jobs \in [User -> SUBSET Work] /\ jobs' = [jobs EXCEPT ![n] = jobs[n] \cup {d}]
      BY <2>1 DEF TypeOK
    <3> HIDE DEF d
    <3> QED BY <3>1
  <2>7. \A q \in net' : q \in net \/ (q.from = n /\ q.to = c /\ q.id = t /\ q.type = "ACK")
    <3> DEFINE a == Signal(n, c, "ACK", t)
    <3>1. a.from = n /\ a.to = c /\ a.id = t /\ a.type = "ACK"
      BY DEF Signal
    <3>2. net' = Rest(p) \cup {a}
      BY <1>1, <2>1
    <3> HIDE DEF a, c
    <3> QED BY <1>2, <3>1, <3>2
  <2> HIDE DEF c, x, e, d, job, good
  <2>8. n \in User /\ c \in User /\ n # c
    BY <1>5, Ends
  <2>9. JobsAt(n, c) /\ RecvJobs(f)' = RecvJobs(f) \cup {d} /\ SendJobs(f)' = SendJobs(f)
    <3>1. jobs'[n] = jobs[n] \cup {d} /\ \A m \in User \ {n} : jobs'[m] = jobs[m]
      BY <2>6
    <3>2. d.with = c
      BY <2>4 DEF d
    <3>3. ASSUME NEW b \in User
          PROVE  JobsWith(n, b)' = IF b = c THEN JobsWith(n, c) \cup {d} ELSE JobsWith(n, b)
      BY <3>1, <3>2 DEF JobsWith
    <3>4. \A m, b \in User : m # n => JobsWith(m, b)' = JobsWith(m, b)
      BY <3>1 DEF JobsWith
    <3>5. RecvJobs(f) = JobsWith(n, c) /\ RecvJobs(f)' = JobsWith(n, c)'
      BY <1>5 DEF RecvJobs, JobsWith
    <3>6. SendJobs(f) = JobsWith(c, n) /\ SendJobs(f)' = JobsWith(c, n)'
      BY <1>5 DEF SendJobs, JobsWith
    <3> QED BY <2>8, <3>3, <3>4, <3>5, <3>6 DEF JobsAt, Elsewhere
  <2>10. ReceiverStep(f, t)
    <3>1. \A y \in TransferId :
            /\ SendEntry(f, y)' = SendEntry(f, y) /\ GoesOn(RecvEntry(f, y), RecvEntry(f, y)')
            /\ RecvEntry(f, y)'.st # "none" =>
                 \A i \in Chunk : RecvEntry(f, y)'.got[i] \in {RecvEntry(f, y).got[i], f}
      BY <1>5, <2>5, <2>8 DEF TableAt, Elsewhere, SendEntry, RecvEntry
    <3>2. Ours(f)' = Ours(f) /\ Follow(Theirs(f), Theirs(f)', t)
      BY <1>3, FollowSelf DEF Ours, Theirs
    <3>3. \A q \in net' : Forth(f, q) => q \in net
      BY <1>5, <2>7, <2>8 DEF Forth
    <3>4. \A q \in net' : Back(f, q) =>
            \/ q \in net
            \/ Theirs(f) # <<>> /\ q.id = t /\ q.type = "ACK" /\ f \in whole'
      BY <1>5, <2>2, <2>3, <2>7 DEF Theirs
    <3>5. Theirs(f) # <<>> /\ d.id = t /\ d.file = f /\ d.type = "verify"
      BY <1>5, <2>2, <2>4 DEF Theirs, d
    <3>6. Alive(f)' => Alive(f) /\ thread'[f].id = thread[f].id
      BY <1>3 DEF Alive
    <3> QED BY <2>3, <2>9, <3>1, <3>2, <3>3, <3>4, <3>5, <3>6 DEF ReceiverStep
  <2>11. OnCard(f, t)'
    <3>1. RecvEntry(f, t)'.st = "none" /\ RecvEntry(f, t).st = "receiving"
      BY <1>5, <1>8, <2>5 DEF RecvEntry, e, c, x
    <3>2. RecvJobs(f)' # {} /\ Theirs(f)' = Theirs(f)
      BY <1>3, <2>9 DEF Theirs
    <3>3. ~Says(Theirs(f)', {"Offered"}) /\ (Says(Theirs(f)', {"Completed"}) => Says(Theirs(f), {"Completed"}))
      BY <1>4, <3>1, <3>2 DEF OnCard, CardsOpen
    <3> QED BY <1>4, <2>10, <3>1, <3>2, <3>3, ReceiverOnCard
  <2>12. Beside(n, c)
    BY <1>3, <2>3, <2>5, <2>7, <2>9, SameAt DEF Beside, NetAt, ThreadsAt, ThreadsQuiet
  <2> QED BY <1>2, <1>4, <2>11, <2>12, OneChat DEF c
<1> QED BY <1>6, <1>7, <1>8

----------------------------------------------------------------------------
(* The offer, and its acceptance *)

\* What the entries between f's users are after a step, when one of them is put.
LEMMA SenderPut ==
  ASSUME TypeOK, NEW f \in File, NEW t \in TransferId, NEW e, Put(From[f], To[f], t, e)
  PROVE  /\ SendEntry(f, t)' = e /\ TableAt(From[f], To[f])
         /\ \A x \in TransferId : /\ x # t => SendEntry(f, x)' = SendEntry(f, x)
                                  /\ RecvEntry(f, x)' = RecvEntry(f, x)
BY Ends, PutAt DEF SendEntry, RecvEntry, TableAt, Elsewhere

LEMMA ReceiverPut ==
  ASSUME TypeOK, NEW f \in File, NEW t \in TransferId, NEW e, Put(To[f], From[f], t, e)
  PROVE  /\ RecvEntry(f, t)' = e /\ TableAt(To[f], From[f])
         /\ \A x \in TransferId : /\ x # t => RecvEntry(f, x)' = RecvEntry(f, x)
                                  /\ SendEntry(f, x)' = SendEntry(f, x)
BY Ends, PutAt DEF SendEntry, RecvEntry, TableAt, Elsewhere

LEMMA SenderTold ==
  ASSUME TypeOK, NEW f \in File, NEW g, Tell(From[f], To[f], g)
  PROVE  Ours(f)' = g.cards /\ Theirs(f)' = Theirs(f) /\ CardsAt(From[f], To[f])
BY Ends, TellAt DEF Ours, Theirs, CardsAt, Elsewhere

LEMMA ReceiverTold ==
  ASSUME TypeOK, NEW f \in File, NEW g, Tell(To[f], From[f], g)
  PROVE  Theirs(f)' = g.cards /\ Ours(f)' = Ours(f) /\ CardsAt(To[f], From[f])
BY Ends, TellAt DEF Ours, Theirs, CardsAt, Elsewhere

\* The file has been hashed: its offer leaves.
LEMMA OfferSentCards ==
  ASSUME TypeOK, TypeOK', CardsInv, OneFilePerChat, NEW n \in User, NEW j \in jobs[n], j.type = "hash",
         Done(n, j), table[n][j.with][j.id].st = "hashing",
         Put(n, j.with, j.id, EntryOf("offered", j.file)),
         Send(n, j.with, {Offer(n, j.with, j.id, j.file)}),
         gui' = gui, thread' = thread, whole' = whole
  PROVE  CardsInv'
<1> DEFINE c == j.with
<1>1. c \in User /\ j.id \in TransferId /\ j.file \in File /\ j \in Work
  BY JobFields
<1>2. PICK f \in File, t \in TransferId : Between(f, n, c) /\ OnCard(f, t)
  BY <1>1, ChatOf DEF Silent
<1>3. j.id = t /\ j.file = f /\ n = From[f] /\ c = To[f]
  BY <1>1, <1>2, Numbers, Ends DEF Between
<1>4. j \in SendJobs(f) /\ Ours(f) # <<>> /\ SendEntry(f, t).st = "hashing"
  <2>1. j \in SendJobs(f) /\ SendEntry(f, t).st = "hashing"
    BY <1>3 DEF SendJobs, SendEntry
  <2> QED BY <1>2, <2>1 DEF OnCard, InTurn
<1>5. /\ Theirs(f) = <<>> /\ RecvEntry(f, t).st = "none" /\ RecvJobs(f) = {}
      /\ ~OfferOut(f) /\ ~AcceptOut(f)
  BY <1>2, <1>4 DEF OnCard, InTurn
<1>6. /\ SendEntry(f, t)'.st = "offered" /\ SendEntry(f, t)'.file = f /\ TableAt(n, c)
      /\ \A x \in TransferId : /\ x # t => SendEntry(f, x)' = SendEntry(f, x)
                               /\ RecvEntry(f, x)' = RecvEntry(f, x)
  <2>1. Put(From[f], To[f], t, EntryOf("offered", f))
    BY <1>3
  <2>2. EntryOf("offered", f).st = "offered" /\ EntryOf("offered", f).file = f
    BY BlankEntry
  <2>3. PICK e : e = EntryOf("offered", f)
    OBVIOUS
  <2>4. /\ SendEntry(f, t)' = e /\ TableAt(From[f], To[f])
        /\ \A x \in TransferId : /\ x # t => SendEntry(f, x)' = SendEntry(f, x)
                                 /\ RecvEntry(f, x)' = RecvEntry(f, x)
    BY <2>1, <2>3, SenderPut
  <2> QED BY <1>3, <2>2, <2>3, <2>4
<1>7. Ours(f)' = Ours(f) /\ Theirs(f)' = Theirs(f) /\ Alive(f)' = Alive(f)
  BY DEF Ours, Theirs, Alive
<1>8. /\ JobsAt(n, c) /\ SendJobs(f)' \subseteq SendJobs(f) /\ RecvJobs(f)' = RecvJobs(f)
      /\ j \notin SendJobs(f)'
  <2>1. JobsAt(n, c) /\ jobs'[n] = jobs[n] \ {j}
    BY DoneAt
  <2> QED BY <1>3, <2>1, Ends DEF JobsAt, JobsWith, Elsewhere, SendJobs, RecvJobs
<1>9. ~Hashes(f)'
  <2>1. \A k \in SendJobs(f) : k.type = "hash" => k = j
    <3>1. \A k \in SendJobs(f) : k.type = "hash" =>
            k.with = c /\ k.id = t /\ k.file = f /\ k.good = TRUE /\ k \in Work
      BY <1>2, <1>3, Ends DEF OnCard, Numbered, JobsNumbered, SendJobs
    <3>2. j.good = TRUE
      BY <1>4, <3>1
    <3> QED BY <1>1, <1>3, <3>1, <3>2 DEF Work
  <2> QED BY <1>8, <2>1 DEF Hashes
<1> DEFINE o == Offer(n, c, j.id, j.file)
<1>10. /\ \A p \in net' : p \in net \/ p = o
       /\ o.from = n /\ o.to = c /\ o.id = t /\ o.type = "OFFER" /\ o.file = f
  BY <1>3 DEF Send, Outgoing, Offer
<1> HIDE DEF c, o
<1>11. Numbered(f, t)'
  <2>1. EntriesNumbered(f, t)'
    BY <1>2, <1>6 DEF OnCard, Numbered, EntriesNumbered
  <2>2. PacketsNumbered(f, t)'
    BY <1>2, <1>3, <1>10, Ends DEF OnCard, Numbered, PacketsNumbered, Forth, Back
  <2>3. JobsNumbered(f, t)'
    BY <1>2, <1>7, <1>8 DEF OnCard, Numbered, JobsNumbered, Alive
  <2>4. CardsNumbered(f, t)'
    BY <1>2, <1>7 DEF OnCard, Numbered, CardsNumbered
  <2> QED BY <1>2, <2>1, <2>2, <2>3, <2>4 DEF OnCard, Numbered
<1>12. /\ \A p \in net' : Back(f, p) => p \in net
       /\ \A p \in net' : Forth(f, p) /\ p.type = "OFFER" => p = o
  BY <1>3, <1>5, <1>10, Ends DEF Forth, Back, OfferOut
<1>13. InTurn(f, SendEntry(f, t).st, RecvEntry(f, t).st)'
  BY <1>2, <1>4, <1>5, <1>6, <1>7, <1>8, <1>9, <1>12 DEF OnCard, InTurn, OfferOut, AcceptOut
<1>14. CardsOpen(f, SendEntry(f, t).st, RecvEntry(f, t).st)'
  BY <1>2, <1>4, <1>6, <1>7, <1>8 DEF OnCard, CardsOpen
<1>15. Earned(f)'
  BY <1>2, <1>7, <1>8, <1>12 DEF OnCard, Earned
<1>16. Beside(n, c)
  BY <1>6, <1>8, <1>10, SameAt DEF Beside, NetAt, ThreadsAt, ThreadsQuiet
<1> QED BY <1>1, <1>2, <1>11, <1>13, <1>14, <1>15, <1>16, OneChat DEF OnCard, c

LEMMA DrainHashCards ==
  ASSUME TypeOK, TypeOK', CardsInv, OneFilePerChat, NEW n \in User, DrainHash(n)
  PROVE  CardsInv'
<1>1. PICK j \in jobs[n] :
        /\ j.type = "hash" /\ Done(n, j)
        /\ \/ /\ table[n][j.with][j.id].st = "hashing"
              /\ Put(n, j.with, j.id, EntryOf("offered", j.file))
              /\ Send(n, j.with, {Offer(n, j.with, j.id, j.file)})
              /\ UNCHANGED gui
           \/ UNCHANGED <<table, net, gui>>
           \/ /\ Clear(n, j.with, j.id)
              /\ Tell(n, j.with, Ended(gui[n][j.with], j.id, "Failed"))
              /\ UNCHANGED net
  BY DEF DrainHash, Drained
<1>2. thread' = thread /\ whole' = whole /\ ThreadsQuiet /\ j.with \in User /\ j.id \in TransferId
  BY JobFields, SameAt DEF DrainHash, history
<1>3. CASE /\ table[n][j.with][j.id].st = "hashing"
           /\ Put(n, j.with, j.id, EntryOf("offered", j.file))
           /\ Send(n, j.with, {Offer(n, j.with, j.id, j.file)})
           /\ UNCHANGED gui
  BY <1>1, <1>2, <1>3, OfferSentCards
<1>4. CASE UNCHANGED <<table, net, gui>>
  BY <1>1, <1>2, <1>4, SameAt, DrainedHere
<1>5. CASE /\ Clear(n, j.with, j.id)
           /\ Tell(n, j.with, Ended(gui[n][j.with], j.id, "Failed"))
           /\ UNCHANGED net
  <2>1. JobsAt(n, j.with) /\ jobs'[n] \subseteq jobs[n]
    BY <1>1, DoneAt
  <2> QED BY <1>2, <1>5, <2>1, EndedHere
<1> QED BY <1>1, <1>3, <1>4, <1>5

LEMMA AcceptCards ==
  ASSUME TypeOK, TypeOK', CardsInv, OneFilePerChat, NEW n \in User, AcceptFileTransfer(n)
  PROVE  CardsInv'
<1>1. PICK c \in User : \E i \in DOMAIN gui[n][c].cards :
        LET k == gui[n][c].cards[i]
            e == table[n][c][k.id]
        IN  /\ ~k.mine /\ k.st = "Offered"
            /\ Tell(n, c, Marked(gui[n][c], k.id, "Accepted"))
            /\ IF e.st = "incoming"
               THEN /\ Put(n, c, k.id, EntryOf("receiving", e.file))
                    /\ Send(n, c, {Signal(n, c, "ACCEPT", k.id)})
               ELSE Clear(n, c, k.id) /\ UNCHANGED net
  BY DEF AcceptFileTransfer
<1>2. PICK i \in DOMAIN gui[n][c].cards :
        LET k == gui[n][c].cards[i]
            e == table[n][c][k.id]
        IN  /\ ~k.mine /\ k.st = "Offered"
            /\ Tell(n, c, Marked(gui[n][c], k.id, "Accepted"))
            /\ IF e.st = "incoming"
               THEN /\ Put(n, c, k.id, EntryOf("receiving", e.file))
                    /\ Send(n, c, {Signal(n, c, "ACCEPT", k.id)})
               ELSE Clear(n, c, k.id) /\ UNCHANGED net
  BY <1>1
<1>3. gui[n][c] \in Chat /\ gui[n][c].cards # <<>>
  BY ShownChat
<1>4. PICK f \in File, t \in TransferId : Between(f, n, c) /\ OnCard(f, t)
  BY <1>3, ChatOf DEF Silent
<1>5. Meets(gui[n][c].cards, t) /\ gui[n][c].cards[i].id = t /\ n = To[f] /\ c = From[f]
  <2>1. i \in DOMAIN gui[n][c].cards /\ ~gui[n][c].cards[i].mine
    BY <1>2
  <2>2. Between(f, n, c) => (n = To[f] /\ c = From[f]) \/ (n = From[f] /\ c = To[f])
    BY DEF Between
  <2> QED BY <1>4, <2>1, <2>2, Numbers
<1>6. /\ RecvEntry(f, t).st = "incoming" /\ RecvEntry(f, t).file = f /\ RecvJobs(f) = {}
      /\ Says(Theirs(f), OpenStates) /\ Theirs(f) # <<>>
  <2>1. Says(Theirs(f), {"Offered"}) /\ Theirs(f) # <<>>
    <3>1. gui[n][c].cards[i].st = "Offered" /\ i \in DOMAIN gui[n][c].cards
      BY <1>2
    <3> QED BY <1>3, <1>5, <3>1 DEF Says, Theirs
  <2>2. RecvEntry(f, t).st = "incoming"
    BY <1>4, <2>1 DEF OnCard, CardsOpen
  <2> QED BY <1>4, <2>1, <2>2 DEF OnCard, CardsOpen, Numbered, EntriesNumbered
<1>7. SendEntry(f, t).st \in {"none", "offered"} /\ ~AcceptOut(f) /\ Ours(f) # <<>>
  BY <1>4, <1>6 DEF OnCard, InTurn
<1>8. /\ Put(n, c, t, EntryOf("receiving", f)) /\ Send(n, c, {Signal(n, c, "ACCEPT", t)})
      /\ Tell(n, c, Marked(gui[n][c], t, "Accepted"))
  <2>1. table[n][c][t].st = "incoming" /\ table[n][c][t].file = f
    BY <1>5, <1>6 DEF RecvEntry
  <2> QED BY <1>2, <1>5, <2>1
<1>9. /\ RecvEntry(f, t)'.st = "receiving" /\ RecvEntry(f, t)'.file = f /\ RecvEntry(f, t)'.got = Blank
      /\ TableAt(n, c)
      /\ \A x \in TransferId : /\ x # t => RecvEntry(f, x)' = RecvEntry(f, x)
                               /\ SendEntry(f, x)' = SendEntry(f, x)
  <2>1. EntryOf("receiving", f).st = "receiving" /\ EntryOf("receiving", f).file = f /\ EntryOf("receiving", f).got = Blank
    BY BlankEntry
  <2>2. PICK e : e = EntryOf("receiving", f)
    OBVIOUS
  <2>3. Put(To[f], From[f], t, e)
    BY <1>5, <1>8, <2>2
  <2> QED BY <1>5, <2>1, <2>2, <2>3, ReceiverPut
<1>10. /\ CardsAt(n, c) /\ Ours(f)' = Ours(f) /\ Marks(Theirs(f), Theirs(f)', t, "Accepted")
  <2>1. Marks(gui[n][c].cards, Marked(gui[n][c], t, "Accepted").cards, t, "Accepted")
    BY <1>3, <1>5, MarkedMarks DEF CardState
  <2>2. Tell(To[f], From[f], Marked(gui[n][c], t, "Accepted"))
    BY <1>5, <1>8
  <2>3. Theirs(f)' = Marked(gui[n][c], t, "Accepted").cards /\ Ours(f)' = Ours(f) /\ CardsAt(To[f], From[f])
    BY <2>2, ReceiverTold
  <2> QED BY <1>5, <2>1, <2>3 DEF Theirs
<1>11. jobs' = jobs /\ thread' = thread /\ whole' = whole
  BY DEF AcceptFileTransfer
<1>12. SendJobs(f)' = SendJobs(f) /\ RecvJobs(f)' = RecvJobs(f) /\ Alive(f)' = Alive(f) /\ thread'[f].id = thread[f].id
  BY <1>11 DEF SendJobs, RecvJobs, Alive
<1> DEFINE o == Signal(n, c, "ACCEPT", t)
<1>13. /\ \A p \in net' : p \in net \/ p = o
       /\ o.from = n /\ o.to = c /\ o.id = t /\ o.type = "ACCEPT"
  BY <1>8 DEF Send, Outgoing, Signal
<1> HIDE DEF o
<1>14. /\ \A p \in net' : Forth(f, p) => p \in net
       /\ \A p \in net' : Back(f, p) => p \in net \/ p = o
       /\ \A p \in net' : Back(f, p) /\ p.type = "ACCEPT" => p = o
  BY <1>5, <1>7, <1>13, Ends DEF Forth, Back, AcceptOut
<1>15. Numbered(f, t)'
  <2>1. EntriesNumbered(f, t)'
    <3>1. \A y \in Chunk : Blank[y] = NoFile
      BY DEF Blank
    <3> QED BY <1>4, <1>9, <3>1 DEF OnCard, Numbered, EntriesNumbered
  <2>2. PacketsNumbered(f, t)'
    BY <1>4, <1>13, <1>14 DEF OnCard, Numbered, PacketsNumbered
  <2>3. JobsNumbered(f, t)'
    BY <1>4, <1>12 DEF OnCard, Numbered, JobsNumbered
  <2>4. CardsNumbered(f, t)'
    BY <1>4, <1>10 DEF OnCard, Numbered, CardsNumbered, Marks, Follow
  <2> QED BY <1>4, <2>1, <2>2, <2>3, <2>4 DEF OnCard, Numbered
<1>16. Theirs(f)' # <<>>
  <2>1. Theirs(f) \in Seq(Card) /\ Theirs(f)' \in Seq(Card)
    BY CardLists
  <2> QED BY <1>6, <1>10, <2>1, FollowNone DEF Marks
<1>17. InTurn(f, SendEntry(f, t).st, RecvEntry(f, t).st)'
  <2>1. Theirs(f) # <<>> /\ ~Hashes(f) /\ SendEntry(f, t).st # "hashing" /\ ~OfferOut(f)
    BY <1>4, <1>6 DEF OnCard, InTurn
  <2>2. ~Hashes(f)' /\ ~OfferOut(f)' /\ SendEntry(f, t)' = SendEntry(f, t)
    BY <1>9, <1>12, <1>14, <2>1 DEF Hashes, OfferOut
  <2> QED BY <1>7, <1>9, <1>10, <1>14, <1>16, <2>1, <2>2 DEF InTurn, OfferOut
<1>18. CardsOpen(f, SendEntry(f, t).st, RecvEntry(f, t).st)'
  <2>1. Says(Theirs(f)', OpenStates) /\ ~Says(Theirs(f)', {"Offered"})
    BY <1>6, <1>10, MarkedSays DEF OpenStates
  <2> QED BY <1>4, <1>6, <1>9, <1>10, <1>12, <2>1 DEF OnCard, CardsOpen
<1>19. Earned(f)'
  <2>1. Says(Theirs(f)', {"Completed"}) => Says(Theirs(f), {"Completed"})
    BY <1>10, MarkedSays
  <2> QED BY <1>4, <1>10, <1>11, <1>12, <1>13, <1>14, <2>1 DEF OnCard, Earned
<1>20. Beside(n, c)
  BY <1>9, <1>10, <1>11, <1>13, SameAt DEF Beside, NetAt, ThreadsAt, ThreadsQuiet
<1>21. OnCard(f, t)'
  BY <1>15, <1>17, <1>18, <1>19 DEF OnCard
<1> QED BY <1>4, <1>20, <1>21, OneChat

LEMMA RecvAcceptCards ==
  ASSUME TypeOK, TypeOK', CardsInv, OneFilePerChat, OfferedOnce, NEW n \in User, RecvAccept(n)
  PROVE  CardsInv'
<1> DEFINE d(p) == [st |-> "sending", id |-> p.id, link |-> p.link, todo |-> Chunk, cmds |-> <<>>]
<1>1. PICK p \in net :
        /\ Arrives(n, p, "ACCEPT") /\ Taken(p)
        /\ IF table[n][p.from][p.id].st = "offered"
           THEN /\ Put(n, p.from, p.id, EntryOf("sending", table[n][p.from][p.id].file))
                /\ thread' = [thread EXCEPT ![table[n][p.from][p.id].file] = d(p)]
                /\ Tell(n, p.from, Moving(gui[n][p.from], p.id))
           ELSE Clear(n, p.from, p.id) /\ UNCHANGED <<thread, gui>>
  BY DEF RecvAccept
<1> DEFINE c == p.from
<1>2. /\ c \in User /\ p.id \in TransferId /\ p.to = n /\ p.type = "ACCEPT" /\ gui[n][c] \in Chat
      /\ Rest(p) \subseteq net /\ net' = Rest(p)
  BY <1>1, ReadPacket DEF Taken
<1>3. jobs' = jobs /\ whole' = whole
  BY DEF RecvAccept, history
<1>4. PICK f \in File, t \in TransferId : Between(f, n, c) /\ OnCard(f, t)
  BY <1>2, ChatOf
<1>5. /\ p.id = t /\ n = From[f] /\ c = To[f] /\ Back(f, p)
  <2>1. Between(f, n, c) => (n = To[f] /\ c = From[f]) \/ (n = From[f] /\ c = To[f])
    BY DEF Between
  <2> QED BY <1>2, <1>4, <2>1, PacketNumbers DEF Back
<1>6. /\ AcceptOut(f) /\ SendEntry(f, t).st \in {"none", "offered"} /\ RecvEntry(f, t).st # "incoming"
      /\ Theirs(f) # <<>> /\ ~Hashes(f) /\ ~OfferOut(f) /\ Ours(f) # <<>>
  <2>1. AcceptOut(f)
    BY <1>2, <1>5 DEF AcceptOut
  <2>2. Ours(f) # <<>>
    BY <1>2, <1>4, <1>5 DEF OnCard, InTurn, Unoffered
  <2> QED BY <1>4, <2>1, <2>2 DEF OnCard, InTurn
<1>7. CASE table[n][c][t].st # "offered"
  <2>1. table[n][c][t].st = "none"
    BY <1>5, <1>6, <1>7 DEF SendEntry
  <2>2. Clear(n, c, t) /\ UNCHANGED <<thread, gui>>
    BY <1>1, <1>5, <1>7
  <2> HIDE DEF c
  <2>3. TableAt(n, c) /\ EntriesGoOn(n, c, f)
    BY <1>2, <2>1, <2>2, ClearNothing
  <2>4. /\ CardsAt(n, c) /\ CardsGoOn(n, c, f, t) /\ JobsAt(n, c) /\ JobsGoOn(n, c, f, t)
        /\ PacketsGoOn(n, c, f, t) /\ ThreadsQuiet
    BY <1>2, <1>3, <2>2, SameGoOn, SameAt
  <2> QED BY <1>2, <1>3, <1>4, <2>3, <2>4, GoesOnHere
<1>8. CASE table[n][c][t].st = "offered"
  <2>1. table[n][c][t].file = f
    BY <1>2, <1>4, <1>8, Numbers
  <2>2. /\ Put(n, c, t, EntryOf("sending", f))
        /\ thread' = [thread EXCEPT ![f] = d(p)]
        /\ Tell(n, c, Moving(gui[n][c], t))
    BY <1>1, <1>5, <1>8, <2>1
  <2>3. /\ SendEntry(f, t)'.st = "sending" /\ SendEntry(f, t)'.file = f /\ TableAt(n, c)
        /\ \A x \in TransferId : /\ x # t => SendEntry(f, x)' = SendEntry(f, x)
                                 /\ RecvEntry(f, x)' = RecvEntry(f, x)
    <3>1. EntryOf("sending", f).st = "sending" /\ EntryOf("sending", f).file = f
      BY BlankEntry
    <3>2. PICK e : e = EntryOf("sending", f)
      OBVIOUS
    <3>3. Put(From[f], To[f], t, e)
      BY <1>5, <2>2, <3>2
    <3> QED BY <1>5, <3>1, <3>2, <3>3, SenderPut
  <2>4. /\ CardsAt(n, c) /\ Theirs(f)' = Theirs(f)
        /\ Ours(f)' = Ours(f) \/ Marks(Ours(f), Ours(f)', t, "Accepted")
    <3>1. Meets(gui[n][c].cards, t)
      BY <1>2, <1>4, Numbers
    <3>2. \/ Moving(gui[n][c], t).cards = gui[n][c].cards
          \/ Marks(gui[n][c].cards, Moving(gui[n][c], t).cards, t, "Accepted")
      BY <1>2, <3>1, MovingMarks
    <3>3. Tell(From[f], To[f], Moving(gui[n][c], t))
      BY <1>5, <2>2
    <3>4. Ours(f)' = Moving(gui[n][c], t).cards /\ Theirs(f)' = Theirs(f) /\ CardsAt(From[f], To[f])
      BY <3>3, SenderTold
    <3> QED BY <1>5, <3>2, <3>4 DEF Ours
  <2>5. /\ Follow(Ours(f), Ours(f)', t)
        /\ Says(Ours(f)', OpenStates) <=> Says(Ours(f), OpenStates)
        /\ Says(Ours(f)', {"Completed"}) <=> Says(Ours(f), {"Completed"})
    <3>1. CASE Ours(f)' = Ours(f)
      BY <3>1, FollowSelf
    <3>2. CASE Marks(Ours(f), Ours(f)', t, "Accepted")
      BY <3>2, MarkedSays DEF OpenStates, Marks
    <3> QED BY <2>4, <3>1, <3>2
  <2>6. /\ thread'[f].id = t /\ SendJobs(f)' = SendJobs(f) /\ RecvJobs(f)' = RecvJobs(f)
        /\ \A g \in File : g # f => thread'[g] = thread[g]
    <3>1. thread \in [File -> Thread] /\ d(p).id = t
      BY <1>5 DEF TypeOK
    <3> HIDE DEF d
    <3> QED BY <1>3, <2>2, <3>1 DEF SendJobs, RecvJobs
  <2>7. net' \subseteq net /\ ~AcceptOut(f)'
    <3>1. net' = net \ {p}
      BY <1>2 DEF Rest, OfferedOnce
    <3>2. \A q \in net : Back(f, q) /\ q.type = "ACCEPT" => q = p
      BY <1>2, <1>4, <1>5 DEF OnCard, InTurn
    <3> QED BY <3>1, <3>2 DEF AcceptOut, Back
  <2> HIDE DEF c, d
  <2>8. Numbered(f, t)'
    <3>1. EntriesNumbered(f, t)'
      BY <1>4, <2>3 DEF OnCard, Numbered, EntriesNumbered
    <3>2. PacketsNumbered(f, t)'
      BY <1>4, <2>7 DEF OnCard, Numbered, PacketsNumbered, Forth, Back
    <3>3. JobsNumbered(f, t)'
      BY <1>4, <2>6 DEF OnCard, Numbered, JobsNumbered
    <3>4. CardsNumbered(f, t)'
      BY <1>4, <2>4, <2>5 DEF OnCard, Numbered, CardsNumbered, Follow
    <3> QED BY <1>4, <3>1, <3>2, <3>3, <3>4 DEF OnCard, Numbered
  <2>9. InTurn(f, SendEntry(f, t).st, RecvEntry(f, t).st)'
    <3>1. Ours(f)' # <<>>
      <4>1. Ours(f) \in Seq(Card) /\ Ours(f)' \in Seq(Card)
        BY CardLists
      <4> QED BY <1>6, <2>5, <4>1, FollowNone
    <3>2. ~Hashes(f)' /\ ~OfferOut(f)'
      BY <1>6, <2>6, <2>7 DEF Hashes, OfferOut, Forth
    <3>3. \A q, r \in net' : ~(Forth(f, q) /\ q.type = "OFFER") /\ ~(Back(f, r) /\ r.type = "ACCEPT")
      BY <2>7, <3>2 DEF OfferOut, AcceptOut, Forth, Back
    <3> QED BY <1>6, <2>3, <2>4, <2>7, <3>1, <3>2, <3>3 DEF InTurn
  <2>10. CardsOpen(f, SendEntry(f, t).st, RecvEntry(f, t).st)'
    <3>1. SendEntry(f, t).st # "none"
      BY <1>5, <1>8 DEF SendEntry
    <3> QED BY <1>4, <2>3, <2>4, <2>5, <2>6, <3>1 DEF OnCard, CardsOpen
  <2>11. Earned(f)'
    BY <1>3, <1>4, <2>4, <2>5, <2>6, <2>7 DEF OnCard, Earned, Back
  <2>12. Beside(n, c)
    <3>1. ThreadsAt(n, c)
      BY <1>5, <2>6 DEF ThreadsAt, Elsewhere, Alive, c
    <3> QED BY <1>3, <2>3, <2>4, <2>7, <3>1, SameAt DEF Beside, NetAt
  <2>13. OnCard(f, t)'
    BY <2>8, <2>9, <2>10, <2>11 DEF OnCard
  <2> QED BY <1>2, <1>4, <2>12, <2>13, OneChat
<1> QED BY <1>7, <1>8

\* The first card of a chat.
FirstIs(q, f, mine, t) ==
  /\ DOMAIN q = {1} /\ q # <<>>
  /\ q[1].file = f /\ q[1].mine = mine /\ q[1].id = t /\ q[1].st = "Offered"

LEMMA FirstCard ==
  ASSUME NEW g \in Chat, g.cards = <<>>, NEW f, NEW mine, NEW t
  PROVE  FirstIs(WithCard(g, f, mine, t).cards, f, mine, t)
<1>1. PICK k : k = [file |-> f, mine |-> mine, id |-> t, st |-> "Offered"]
  OBVIOUS
<1>2. WithCard(g, f, mine, t) = [g EXCEPT !.cards = Append(@, k)]
  BY <1>1 DEF WithCard
<1>3. WithCard(g, f, mine, t).cards = Append(g.cards, k)
  BY <1>2 DEF Chat
<1>4. Append(<<>>, k) = <<k>> /\ DOMAIN <<k>> = {1} /\ <<k>>[1] = k /\ <<k>> # <<>>
  OBVIOUS
<1>5. k.file = f /\ k.mine = mine /\ k.id = t /\ k.st = "Offered"
  BY <1>1
<1> QED BY <1>3, <1>4, <1>5 DEF FirstIs

LEMMA RecvOfferCards ==
  ASSUME TypeOK, TypeOK', CardsInv, OneFilePerChat, OfferedOnce, NEW n \in User, RecvOffer(n)
  PROVE  CardsInv'
<1>1. PICK p \in net :
        /\ Arrives(n, p, "OFFER") /\ Taken(p)
        /\ Put(n, p.from, p.id, EntryOf("incoming", p.file))
        /\ Tell(n, p.from, WithCard(gui[n][p.from], p.file, FALSE, p.id))
  BY DEF RecvOffer
<1> DEFINE c == p.from
<1>2. /\ c \in User /\ p.id \in TransferId /\ p.to = n /\ p.type = "OFFER" /\ gui[n][c] \in Chat
      /\ net' = Rest(p)
  BY <1>1, ReadPacket DEF Taken
<1>3. jobs' = jobs /\ thread' = thread /\ whole' = whole
  BY DEF RecvOffer, history
<1>4. PICK f \in File, t \in TransferId : Between(f, n, c) /\ OnCard(f, t)
  BY <1>2, ChatOf
<1>5. /\ p.id = t /\ p.file = f /\ n = To[f] /\ c = From[f] /\ Forth(f, p)
  <2>1. Between(f, n, c) => (n = To[f] /\ c = From[f]) \/ (n = From[f] /\ c = To[f])
    BY DEF Between
  <2> QED BY <1>2, <1>4, <2>1, PacketNumbers DEF Forth
<1>6. /\ OfferOut(f) /\ SendEntry(f, t).st \in {"none", "offered"} /\ RecvEntry(f, t).st = "none"
      /\ Theirs(f) = <<>> /\ ~Hashes(f) /\ ~AcceptOut(f) /\ Ours(f) # <<>> /\ RecvJobs(f) = {}
  <2>1. OfferOut(f)
    BY <1>2, <1>5 DEF OfferOut
  <2>2. Ours(f) # <<>>
    BY <1>2, <1>4, <1>5 DEF OnCard, InTurn, Unoffered
  <2> QED BY <1>4, <2>1, <2>2 DEF OnCard, InTurn
<1>7. /\ RecvEntry(f, t)'.st = "incoming" /\ RecvEntry(f, t)'.file = f /\ RecvEntry(f, t)'.got = Blank
      /\ TableAt(n, c)
      /\ \A x \in TransferId : /\ x # t => RecvEntry(f, x)' = RecvEntry(f, x)
                               /\ SendEntry(f, x)' = SendEntry(f, x)
  <2>1. EntryOf("incoming", f).st = "incoming" /\ EntryOf("incoming", f).file = f /\ EntryOf("incoming", f).got = Blank
    BY BlankEntry
  <2>2. PICK e : e = EntryOf("incoming", f)
    OBVIOUS
  <2>3. Put(To[f], From[f], t, e)
    BY <1>1, <1>5, <2>2
  <2> QED BY <1>5, <2>1, <2>2, <2>3, ReceiverPut
<1>8. /\ CardsAt(n, c) /\ Ours(f)' = Ours(f)
      /\ DOMAIN Theirs(f)' = {1} /\ Theirs(f)' # <<>>
      /\ Theirs(f)'[1].file = f /\ ~Theirs(f)'[1].mine /\ Theirs(f)'[1].id = t
      /\ Theirs(f)'[1].st = "Offered"
  <2>1. gui[n][c].cards = <<>>
    BY <1>5, <1>6 DEF Theirs
  <2>2. PICK g : g = WithCard(gui[n][c], f, FALSE, t)
    OBVIOUS
  <2>3. FirstIs(g.cards, f, FALSE, t)
    BY <1>2, <2>1, <2>2, FirstCard
  <2>4. Tell(To[f], From[f], g)
    BY <1>1, <1>5, <2>2
  <2>5. Theirs(f)' = g.cards /\ Ours(f)' = Ours(f) /\ CardsAt(To[f], From[f])
    BY <2>4, ReceiverTold
  <2> QED BY <1>5, <2>3, <2>5 DEF FirstIs
<1>9. /\ SendJobs(f)' = SendJobs(f) /\ RecvJobs(f)' = RecvJobs(f)
      /\ Alive(f)' = Alive(f) /\ thread'[f].id = thread[f].id
  BY <1>3 DEF SendJobs, RecvJobs, Alive
<1>10. net' \subseteq net /\ ~OfferOut(f)'
  <2>1. net' = net \ {p}
    BY <1>2 DEF Rest, OfferedOnce
  <2>2. \A q \in net : Forth(f, q) /\ q.type = "OFFER" => q = p
    BY <1>2, <1>4, <1>5 DEF OnCard, InTurn
  <2> QED BY <2>1, <2>2 DEF OfferOut, Forth
<1> HIDE DEF c
<1>11. Numbered(f, t)'
  <2>1. EntriesNumbered(f, t)'
    <3>1. \A y \in Chunk : Blank[y] = NoFile
      BY DEF Blank
    <3> QED BY <1>4, <1>7, <3>1 DEF OnCard, Numbered, EntriesNumbered
  <2>2. PacketsNumbered(f, t)'
    BY <1>4, <1>10 DEF OnCard, Numbered, PacketsNumbered, Forth, Back
  <2>3. JobsNumbered(f, t)'
    BY <1>4, <1>9 DEF OnCard, Numbered, JobsNumbered
  <2>4. CardsNumbered(f, t)'
    BY <1>4, <1>8 DEF OnCard, Numbered, CardsNumbered
  <2> QED BY <1>4, <2>1, <2>2, <2>3, <2>4 DEF OnCard, Numbered
<1>12. InTurn(f, SendEntry(f, t).st, RecvEntry(f, t).st)'
  <2>1. ~Hashes(f)' /\ ~AcceptOut(f)' /\ SendEntry(f, t)' = SendEntry(f, t)
    BY <1>6, <1>7, <1>9, <1>10 DEF Hashes, AcceptOut, Back
  <2>2. \A q, r \in net' : ~(Forth(f, q) /\ q.type = "OFFER") /\ ~(Back(f, r) /\ r.type = "ACCEPT")
    BY <1>10, <2>1 DEF OfferOut, AcceptOut, Forth, Back
  <2> QED BY <1>6, <1>7, <1>8, <1>10, <2>1, <2>2 DEF InTurn
<1>13. CardsOpen(f, SendEntry(f, t).st, RecvEntry(f, t).st)'
  <2>1. Says(Theirs(f)', OpenStates)
    BY <1>8 DEF Says, OpenStates
  <2> QED BY <1>4, <1>6, <1>7, <1>8, <1>9, <2>1 DEF OnCard, CardsOpen
<1>14. Earned(f)'
  <2>1. ~Says(Theirs(f)', {"Completed"})
    BY <1>8 DEF Says
  <2> QED BY <1>3, <1>4, <1>8, <1>9, <1>10, <2>1 DEF OnCard, Earned, Back
<1>15. Beside(n, c)
  BY <1>3, <1>7, <1>8, <1>10, SameAt DEF Beside, NetAt, ThreadsAt, ThreadsQuiet
<1>16. OnCard(f, t)'
  BY <1>11, <1>12, <1>13, <1>14 DEF OnCard
<1> QED BY <1>2, <1>4, <1>15, <1>16, OneChat

\* A file that n has not offered before is nowhere yet.
LEMMA NothingYet ==
  ASSUME TypeOK, CardsInv, NEW f \in File, ~Offered(From[f], f)
  PROVE  /\ Ours(f) = <<>> /\ Unoffered(f)
         /\ \A x \in TransferId : SendEntry(f, x).st = "none" /\ RecvEntry(f, x).st = "none"
<1>1. PICK t \in TransferId : OnCard(f, t)
  BY DEF CardsInv
<1>2. DOMAIN Ours(f) = {}
  BY <1>1 DEF OnCard, Numbered, CardsNumbered, Offered, Ours
<1>3. Ours(f) = <<>>
  <2>1. Ours(f) \in Seq(Card) /\ DOMAIN Ours(f) = 1..Len(Ours(f)) /\ Len(Ours(f)) \in Nat
    BY CardLists, LenProperties
  <2>2. Len(Ours(f)) = 0
    BY <1>2, <2>1
  <2> QED BY <2>1, <2>2, EmptySeq
<1> QED BY <1>1, <1>3 DEF OnCard, InTurn, Numbered, EntriesNumbered

\* The card of an offer has no id; its transfer has a new one.
LEMMA HashingCards ==
  ASSUME TypeOK, TypeOK', CardsInv, OneFilePerChat, NEW f \in File, ~Offered(From[f], f),
         NEW t \in TransferId \ {0},
         Put(From[f], To[f], t, EntryOf("hashing", f)),
         jobs' = [jobs EXCEPT ![From[f]] = @ \cup {Job("hash", To[f], t, f, TRUE)}],
         NEW g, FirstIs(g.cards, f, TRUE, 0), Tell(From[f], To[f], g),
         net' = net, thread' = thread, whole' = whole
  PROVE  CardsInv'
<1>1. From[f] \in User /\ To[f] \in User /\ From[f] # To[f]
  BY Ends
<1>2. /\ Ours(f) = <<>> /\ Unoffered(f)
      /\ \A x \in TransferId : SendEntry(f, x).st = "none" /\ RecvEntry(f, x).st = "none"
  BY NothingYet
<1>3. /\ SendEntry(f, t)'.st = "hashing" /\ SendEntry(f, t)'.file = f /\ TableAt(From[f], To[f])
      /\ \A x \in TransferId : /\ x # t => SendEntry(f, x)' = SendEntry(f, x)
                               /\ RecvEntry(f, x)' = RecvEntry(f, x)
  <2>1. EntryOf("hashing", f).st = "hashing" /\ EntryOf("hashing", f).file = f
    BY BlankEntry
  <2>2. PICK e : e = EntryOf("hashing", f)
    OBVIOUS
  <2>3. Put(From[f], To[f], t, e)
    BY <2>2
  <2> QED BY <2>1, <2>2, <2>3, SenderPut
<1>4. Ours(f)' = g.cards /\ Theirs(f)' = Theirs(f) /\ CardsAt(From[f], To[f])
  BY SenderTold
<1>5. PICK j : j = Job("hash", To[f], t, f, TRUE)
  OBVIOUS
<1>6. j.type = "hash" /\ j.with = To[f] /\ j.id = t /\ j.file = f /\ j.good = TRUE
  BY <1>5 DEF Job
<1>7. /\ SendJobs(f)' = {j} /\ RecvJobs(f)' = {} /\ JobsAt(From[f], To[f])
  <2>1. jobs \in [User -> SUBSET Work]
    BY DEF TypeOK
  <2>2. \A m \in User : jobs'[m] = IF m = From[f] THEN jobs[m] \cup {j} ELSE jobs[m]
    BY <1>5, <2>1
  <2>3. \A k \in jobs[From[f]] : k.with # To[f]
    BY <1>2 DEF Unoffered, SendJobs
  <2>4. SendJobs(f)' = {j}
    <3>1. PICK a \in User : a = From[f]
      BY <1>1
    <3>2. jobs'[a] = jobs[a] \cup {j}
      BY <2>2, <3>1
    <3> QED BY <1>6, <2>3, <3>1, <3>2 DEF SendJobs
  <2>5. RecvJobs(f)' = {}
    BY <1>1, <1>2, <2>2 DEF RecvJobs, Unoffered
  <2>6. JobsAt(From[f], To[f])
    <3> SUFFICES ASSUME NEW a \in User, NEW d \in User, a # From[f] \/ d # To[f]
                 PROVE  JobsWith(a, d)' = JobsWith(a, d)
      BY DEF JobsAt, Elsewhere
    <3>1. CASE a # From[f]
      BY <2>2, <3>1 DEF JobsWith
    <3>2. CASE a = From[f]
      <4>1. jobs'[a] = jobs[a] \cup {j} /\ j.with # d
        BY <1>6, <2>2, <3>2
      <4> QED BY <4>1 DEF JobsWith
    <3> QED BY <3>1, <3>2
  <2> QED BY <2>4, <2>5, <2>6
<1>8. Alive(f)' = Alive(f)
  BY DEF Alive
<1>9. /\ \A p \in net' : ~Forth(f, p) /\ ~Back(f, p)
      /\ Theirs(f)' = <<>> /\ ~Alive(f)'
  BY <1>2, <1>4, <1>8 DEF Unoffered
<1>10. Numbered(f, t)'
  <2>1. EntriesNumbered(f, t)'
    BY <1>2, <1>3 DEF EntriesNumbered
  <2>2. PacketsNumbered(f, t)'
    BY <1>9 DEF PacketsNumbered, Forth, Back
  <2>3. JobsNumbered(f, t)'
    BY <1>6, <1>7, <1>9 DEF JobsNumbered
  <2>4. CardsNumbered(f, t)'
    BY <1>4, <1>9 DEF CardsNumbered, FirstIs
  <2>5. TransferId' = TransferId
    BY DEF TransferId
  <2> QED BY <2>1, <2>2, <2>3, <2>4, <2>5 DEF Numbered
<1>11. InTurn(f, SendEntry(f, t).st, RecvEntry(f, t).st)'
  <2>1. Ours(f)' # <<>>
    BY <1>4 DEF FirstIs
  <2>2. ~OfferOut(f)' /\ ~AcceptOut(f)'
    BY <1>9 DEF OfferOut, AcceptOut, Forth, Back
  <2> QED BY <1>2, <1>3, <1>7, <1>9, <2>1, <2>2 DEF InTurn, Forth, Back
<1>12. CardsOpen(f, SendEntry(f, t).st, RecvEntry(f, t).st)'
  <2>1. Says(Ours(f)', OpenStates)
    BY <1>4 DEF Says, OpenStates, FirstIs
  <2>2. ~Says(Theirs(f)', OpenStates) /\ ~Says(Theirs(f)', {"Offered"})
    BY <1>9 DEF Says
  <2> QED BY <1>2, <1>3, <2>1, <2>2 DEF CardsOpen
<1>13. Earned(f)'
  <2>1. ~Says(Ours(f)', {"Completed"}) /\ ~Says(Theirs(f)', {"Completed"})
    BY <1>4, <1>9 DEF Says, FirstIs
  <2> QED BY <1>7, <1>9, <2>1 DEF Earned, Back
<1>14. Beside(From[f], To[f])
  BY <1>3, <1>4, <1>7, SameAt DEF Beside, NetAt, ThreadsAt, ThreadsQuiet
<1>15. OnCard(f, t)' /\ Between(f, From[f], To[f])
  BY <1>10, <1>11, <1>12, <1>13 DEF OnCard, Between
<1> QED BY <1>1, <1>14, <1>15, OneChat

\* A file that cannot be read has a card that has failed, and nothing else.
LEMMA UnreadableCards ==
  ASSUME TypeOK, TypeOK', CardsInv, OneFilePerChat, NEW f \in File, ~Offered(From[f], f),
         NEW g \in Chat, FirstIs(g.cards, f, TRUE, 0), Tell(From[f], To[f], Ended(g, 0, "Failed")),
         table' = table, jobs' = jobs, net' = net, thread' = thread, whole' = whole
  PROVE  CardsInv'
<1>1. From[f] \in User /\ To[f] \in User /\ 0 \in TransferId
  BY Ends, Ids
<1>2. /\ Ours(f) = <<>> /\ Unoffered(f)
      /\ \A x \in TransferId : SendEntry(f, x).st = "none" /\ RecvEntry(f, x).st = "none"
  BY NothingYet
<1>3. PICK t \in TransferId : OnCard(f, t)
  BY DEF CardsInv
<1>4. Ours(f)' = Ended(g, 0, "Failed").cards /\ Theirs(f)' = Theirs(f) /\ CardsAt(From[f], To[f])
  BY SenderTold
<1>5. /\ DOMAIN Ours(f)' = {1} /\ Ours(f)' # <<>>
      /\ Ours(f)'[1].file = f /\ Ours(f)'[1].mine /\ Ours(f)'[1].id = 0 /\ Ours(f)'[1].st = "Failed"
  <2>1. Meets(g.cards, 0)
    BY DEF FirstIs, Meets
  <2>2. Marks(g.cards, Ended(g, 0, "Failed").cards, 0, "Failed")
    BY <1>1, <2>1, MarkedMarks DEF CardState
  <2>3. Marks(g.cards, Ours(f)', 0, "Failed")
    BY <1>4, <2>2
  <2>4. Ours(f)' # <<>>
    <3>1. g.cards \in Seq(Card) /\ Ours(f)' \in Seq(Card) /\ g.cards # <<>>
      BY CardLists, ChatFields DEF FirstIs
    <3>2. Follow(g.cards, Ours(f)', 0)
      BY <2>3 DEF Marks
    <3> QED BY <3>1, <3>2, FollowNone
  <2> QED BY <2>3, <2>4 DEF Marks, Follow, FirstIs, OpenStates
<1>6. /\ \A x \in TransferId : SendEntry(f, x)' = SendEntry(f, x) /\ RecvEntry(f, x)' = RecvEntry(f, x)
      /\ SendJobs(f)' = SendJobs(f) /\ RecvJobs(f)' = RecvJobs(f) /\ Alive(f)' = Alive(f)
  BY DEF SendEntry, RecvEntry, SendJobs, RecvJobs, Alive
<1>7. Numbered(f, t)'
  <2>1. EntriesNumbered(f, t)' /\ PacketsNumbered(f, t)' /\ JobsNumbered(f, t)'
    BY <1>2, <1>6 DEF EntriesNumbered, PacketsNumbered, JobsNumbered, Unoffered, Forth, Back
  <2>2. CardsNumbered(f, t)'
    BY <1>2, <1>4, <1>5 DEF CardsNumbered, Unoffered
  <2> QED BY <1>3, <2>1, <2>2 DEF OnCard, Numbered
<1>8. InTurn(f, SendEntry(f, t).st, RecvEntry(f, t).st)'
  <2>1. ~OfferOut(f)' /\ ~AcceptOut(f)' /\ ~Hashes(f)' /\ RecvJobs(f)' = {}
    BY <1>2, <1>6 DEF OfferOut, AcceptOut, Hashes, Unoffered, Forth, Back
  <2> QED BY <1>2, <1>5, <1>6, <2>1 DEF InTurn, Unoffered, Forth, Back
<1>9. CardsOpen(f, SendEntry(f, t).st, RecvEntry(f, t).st)' /\ Earned(f)'
  <2>1. ~Says(Ours(f)', OpenStates) /\ ~Says(Ours(f)', {"Completed"})
    BY <1>5 DEF Says, OpenStates
  <2>2. Theirs(f)' = <<>>
    BY <1>2, <1>4 DEF Unoffered
  <2>3. \A states : ~Says(Theirs(f)', states)
    BY <2>2 DEF Says
  <2> QED BY <1>2, <1>6, <2>1, <2>3 DEF CardsOpen, Earned, Unoffered, Back
<1>10. Beside(From[f], To[f])
  BY <1>4, SameAt DEF Beside, NetAt, ThreadsAt, ThreadsQuiet
<1>11. OnCard(f, t)' /\ Between(f, From[f], To[f])
  BY <1>7, <1>8, <1>9 DEF OnCard, Between
<1> QED BY <1>1, <1>3, <1>10, <1>11, OneChat

LEMMA SendFileOfferCards ==
  ASSUME Inv, TypeOK', CardsInv, OneFilePerChat, NEW n \in User, SendFileOffer(n)
  PROVE  CardsInv'
<1>1. TypeInv /\ TypeOK
  BY DEF Inv, TypeInv, AckInv
<1>2. PICK f \in File :
        /\ From[f] = n /\ ~Offered(n, f)
        /\ \/ /\ Put(n, To[f], nextId[n], EntryOf("hashing", f))
              /\ nextId' = [nextId EXCEPT ![n] = nextId[n] + 1]
              /\ jobs' = [jobs EXCEPT ![n] = @ \cup {Job("hash", To[f], nextId[n], f, TRUE)}]
              /\ Tell(n, To[f], WithCard(gui[n][To[f]], f, TRUE, 0))
           \/ /\ Tell(n, To[f], Ended(WithCard(gui[n][To[f]], f, TRUE, 0), 0, "Failed"))
              /\ UNCHANGED <<table, nextId, jobs>>
  BY DEF SendFileOffer
<1>3. net' = net /\ thread' = thread /\ whole' = whole
  BY DEF SendFileOffer, history
<1>4. PICK g : g = WithCard(gui[n][To[f]], f, TRUE, 0)
  OBVIOUS
<1>5. /\ To[f] \in User /\ gui[n][To[f]] \in Chat /\ FirstIs(g.cards, f, TRUE, 0)
      /\ g \in Chat /\ Kept(gui[n][To[f]], g)
  <2>1. To[f] \in User /\ gui[n][To[f]] \in Chat /\ 0 \in TransferId
    BY <1>1, <1>2, Ends, Ids
  <2>2. gui[n][To[f]].cards = <<>>
    BY <1>1, <1>2, NothingYet DEF Ours
  <2>3. PICK k \in Chat : k = gui[n][To[f]]
    BY <2>1
  <2>4. WithCard(k, f, TRUE, 0) \in Chat /\ Kept(k, WithCard(k, f, TRUE, 0))
    BY <2>1, WithCardKept
  <2> QED BY <1>4, <2>1, <2>2, <2>3, <2>4, FirstCard
<1>6. CASE /\ Put(n, To[f], nextId[n], EntryOf("hashing", f))
           /\ nextId' = [nextId EXCEPT ![n] = nextId[n] + 1]
           /\ jobs' = [jobs EXCEPT ![n] = @ \cup {Job("hash", To[f], nextId[n], f, TRUE)}]
           /\ Tell(n, To[f], g)
  <2>1. GuiKept
    BY <1>1, <1>5, <1>6, Told
  <2>2. gui'[n][To[f]] = g
    BY <1>1, <1>5, <1>6, TellAt
  <2>3. Offered(n, f)'
    BY <1>5, <2>2 DEF Offered, FirstIs
  <2>4. nextId[n] \in TransferId /\ nextId[n] # 0
    <3>1. nextId' = [nextId EXCEPT ![n] = @ + 1] /\ From[f] = n /\ ~Offered(n, f)
      BY <1>2, <1>6
    <3>2. nextId[n] \in TransferId
      BY <1>1, <2>1, <2>3, <3>1, NewId
    <3> QED BY <1>1, <3>2 DEF TypeOK
  <2>5. Put(From[f], To[f], nextId[n], EntryOf("hashing", f)) /\ Tell(From[f], To[f], g)
        /\ jobs' = [jobs EXCEPT ![From[f]] = @ \cup {Job("hash", To[f], nextId[n], f, TRUE)}]
    BY <1>2, <1>6
  <2> QED BY <1>1, <1>2, <1>3, <1>5, <2>4, <2>5, HashingCards
<1>7. CASE Tell(n, To[f], Ended(g, 0, "Failed")) /\ UNCHANGED <<table, nextId, jobs>>
  BY <1>1, <1>2, <1>3, <1>5, <1>7, UnreadableCards
<1> QED BY <1>2, <1>4, <1>6, <1>7

----------------------------------------------------------------------------
(* What fails, or restarts, with all its transfers *)

\* The ids of K under c.
IdsIn(K, c) == {t \in TransferId : <<c, t>> \in K}

\* What is not in K stays.
LEMMA FailedEntries ==
  ASSUME TypeOK, NEW n \in User, NEW K, FailAll(n, K)
  PROVE  /\ \A b \in User, x \in TransferId : <<b, x>> \in K => table'[n][b][x] = NoEntry
         /\ \A a, b \in User, x \in TransferId :
              a # n \/ <<b, x>> \notin K => table'[a][b][x] = table[a][b][x]
         /\ ThreadsQuiet
<1>1. table' = [table EXCEPT ![n] = [c \in User |-> [t \in TransferId |->
                  IF <<c, t>> \in K THEN NoEntry ELSE table[n][c][t]]]]
  BY DEF FailAll, TypeOK
<1>2. \A a, b \in User, x \in TransferId :
        table'[a][b][x] = IF a = n /\ <<b, x>> \in K THEN NoEntry ELSE table[a][b][x]
  BY <1>1 DEF TypeOK
<1>3. ASSUME NEW f \in File
      PROVE  thread'[f].st = thread[f].st /\ thread'[f].id = thread[f].id
  <2>1. \/ thread'[f] = thread[f]
        \/ thread'[f] = [thread[f] EXCEPT !.cmds = Append(@, CancelCmd)]
    BY DEF FailAll
  <2>2. PICK q : q = Append(thread[f].cmds, CancelCmd)
    OBVIOUS
  <2>3. thread[f] \in Thread
    BY DEF TypeOK
  <2>4. [thread[f] EXCEPT !.cmds = q].st = thread[f].st /\ [thread[f] EXCEPT !.cmds = q].id = thread[f].id
    BY <2>3 DEF Thread
  <2> QED BY <2>1, <2>2, <2>4
<1> QED BY <1>2, <1>3 DEF ThreadsQuiet, Alive

LEMMA FailedCards ==
  ASSUME TypeOK, NEW n \in User, NEW K, FailAll(n, K), NEW a \in User, NEW c \in User
  PROVE  /\ a = n => gui'[a][c] \in AllFailed(gui[n][c], IdsIn(K, c))
         /\ a # n => gui'[a][c] = gui[a][c]
<1> DEFINE T(d) == {t \in TransferId : <<d, t>> \in K}
<1>1. PICK chats \in [User -> UNION {AllFailed(gui[n][d], T(d)) : d \in User}] :
        /\ \A d \in User : chats[d] \in AllFailed(gui[n][d], T(d))
        /\ gui' = [gui EXCEPT ![n] = chats]
  BY DEF FailAll
<1>2. chats[c] \in AllFailed(gui[n][c], T(c))
  BY <1>1
<1>3. gui'[a][c] = IF a = n THEN chats[c] ELSE gui[a][c]
  <2> HIDE DEF T
  <2> QED BY <1>1 DEF TypeOK
<1> QED BY <1>2, <1>3 DEF IdsIn

\* The entries in K fail: a chat has one of them, which ends its card, or none.
LEMMA FailedOnCard ==
  ASSUME TypeOK, NEW f \in File, NEW t \in TransferId, OnCard(f, t),
         NEW n \in User, NEW c \in User, Between(f, n, c), NEW K, FailAll(n, K),
         \A x \in TransferId : <<c, x>> \in K => table[n][c][x].st # "none"
  PROVE  \/ /\ gui'[n][c].cards = gui[n][c].cards
            /\ \A x \in TransferId : table'[n][c][x] = table[n][c][x]
         \/ /\ Marks(gui[n][c].cards, gui'[n][c].cards, t, "Failed")
            /\ \A x \in TransferId : table'[n][c][x].st = "none"
<1> DEFINE T == IdsIn(K, c)
<1>1. /\ \A x \in TransferId : table[n][c][x].st # "none" => x = t
      /\ Meets(gui[n][c].cards, t)
  BY Numbers
<1>2. T = {} \/ T = {t}
  BY <1>1 DEF IdsIn
<1>3. gui[n][c] \in Chat /\ gui'[n][c] \in AllFailed(gui[n][c], T)
  BY FailedCards DEF TypeOK
<1>4. \A x \in TransferId : table'[n][c][x] = IF x \in T THEN NoEntry ELSE table[n][c][x]
  BY FailedEntries DEF IdsIn
<1> HIDE DEF T
<1>5. /\ T = {} => gui'[n][c].cards = gui[n][c].cards
      /\ T # {} => Marks(gui[n][c].cards, gui'[n][c].cards, t, "Failed")
  BY <1>1, <1>2, <1>3, AllFailedMarks
<1> QED BY <1>1, <1>2, <1>4, <1>5, BlankEntry

\* A step of one end of f that takes away, or leaves, what is there.
LEMMA SenderFails ==
  ASSUME TypeOK, TypeOK', NEW f \in File, NEW t \in TransferId, OnCard(f, t),
         \/ /\ Ours(f)' = Ours(f)
            /\ \A x \in TransferId : SendEntry(f, x)' = SendEntry(f, x)
         \/ /\ Marks(Ours(f), Ours(f)', t, "Failed")
            /\ \A x \in TransferId : SendEntry(f, x)'.st = "none",
         Theirs(f)' = Theirs(f),
         \A x \in TransferId : RecvEntry(f, x)' = RecvEntry(f, x),
         SendJobs(f)' \subseteq SendJobs(f), RecvJobs(f)' = RecvJobs(f),
         net' \subseteq net, Alive(f)' => Alive(f) /\ thread'[f].id = thread[f].id, whole' = whole
  PROVE  OnCard(f, t)'
<1>1. SenderStep(f, t)
  BY FollowSelf DEF SenderStep, GoesOn, Marks
<1>2. /\ Marks(Ours(f), Ours(f)', t, "Failed") =>
           /\ ~Says(Ours(f)', OpenStates)
           /\ Says(Ours(f)', {"Completed"}) <=> Says(Ours(f), {"Completed"})
  BY MarkedSays DEF OpenStates
<1>3. /\ SendEntry(f, t)'.st # "none" <=> Says(Ours(f)', OpenStates)
      /\ Says(Ours(f)', {"Completed"}) => Says(Ours(f), {"Completed"})
  BY <1>2 DEF OnCard, CardsOpen
<1> QED BY <1>1, <1>3, SenderOnCard

LEMMA ReceiverFails ==
  ASSUME TypeOK, TypeOK', NEW f \in File, NEW t \in TransferId, OnCard(f, t),
         \/ /\ Theirs(f)' = Theirs(f) /\ RecvJobs(f)' = RecvJobs(f)
            /\ \A x \in TransferId : RecvEntry(f, x)' = RecvEntry(f, x)
         \/ /\ Marks(Theirs(f), Theirs(f)', t, "Failed")
            /\ \A x \in TransferId : RecvEntry(f, x)'.st = "none",
         Ours(f)' = Ours(f),
         \A x \in TransferId : SendEntry(f, x)' = SendEntry(f, x),
         RecvJobs(f)' \subseteq RecvJobs(f), SendJobs(f)' = SendJobs(f),
         net' \subseteq net, Alive(f)' => Alive(f) /\ thread'[f].id = thread[f].id, whole' = whole
  PROVE  OnCard(f, t)'
<1>1. ReceiverStep(f, t)
  BY FollowSelf DEF ReceiverStep, GoesOn, Marks
<1>2. /\ Marks(Theirs(f), Theirs(f)', t, "Failed") =>
           /\ ~Says(Theirs(f)', OpenStates) /\ ~Says(Theirs(f)', {"Offered"})
           /\ Says(Theirs(f)', {"Completed"}) <=> Says(Theirs(f), {"Completed"})
  BY MarkedSays DEF OpenStates
<1>3. /\ RecvEntry(f, t)'.st # "none" => Says(Theirs(f)', OpenStates) /\ RecvJobs(f)' = {}
      /\ Says(Theirs(f)', OpenStates) => RecvEntry(f, t)'.st # "none" \/ RecvJobs(f)' # {}
      /\ Says(Theirs(f)', {"Offered"}) => RecvEntry(f, t)'.st = "incoming"
      /\ Says(Theirs(f)', {"Completed"}) => Says(Theirs(f), {"Completed"})
  BY <1>2 DEF OnCard, CardsOpen
<1> QED BY <1>1, <1>3, ReceiverOnCard

LEMMA NeitherMoves ==
  ASSUME TypeOK, TypeOK', NEW f \in File, NEW t \in TransferId, OnCard(f, t),
         Ours(f)' = Ours(f), Theirs(f)' = Theirs(f),
         \A x \in TransferId : SendEntry(f, x)' = SendEntry(f, x) /\ RecvEntry(f, x)' = RecvEntry(f, x),
         SendJobs(f)' = SendJobs(f), RecvJobs(f)' = RecvJobs(f),
         net' \subseteq net, Alive(f)' => Alive(f) /\ thread'[f].id = thread[f].id, whole' = whole
  PROVE  OnCard(f, t)'
BY SenderFails

\* A step of n that takes the transfers in K, or leaves what there is.
LEMMA FailAllCards ==
  ASSUME TypeOK, TypeOK', CardsInv, NEW n \in User, NEW K, FailAll(n, K),
         \A c \in User, x \in TransferId : <<c, x>> \in K => table[n][c][x].st # "none",
         jobs' = jobs, net' \subseteq net, whole' = whole
  PROVE  CardsInv'
<1>1. /\ ThreadsQuiet
      /\ \A b \in User, x \in TransferId : <<b, x>> \in K => table'[n][b][x] = NoEntry
      /\ \A a, b \in User, x \in TransferId :
           a # n \/ <<b, x>> \notin K => table'[a][b][x] = table[a][b][x]
  BY FailedEntries
<1>2. ASSUME NEW f \in File, NEW t \in TransferId, OnCard(f, t)
      PROVE  OnCard(f, t)'
  <2>1. From[f] \in User /\ To[f] \in User /\ From[f] # To[f]
    BY Ends
  <2>2. /\ SendJobs(f)' = SendJobs(f) /\ RecvJobs(f)' = RecvJobs(f)
        /\ Alive(f)' => Alive(f) /\ thread'[f].id = thread[f].id
    BY <1>1 DEF SendJobs, RecvJobs, ThreadsQuiet
  <2>3. From[f] # n => Ours(f)' = Ours(f) /\ \A x \in TransferId : SendEntry(f, x)' = SendEntry(f, x)
    <3>1. From[f] # n => gui'[From[f]][To[f]] = gui[From[f]][To[f]]
      BY <2>1, FailedCards
    <3> QED BY <1>1, <2>1, <3>1 DEF Ours, SendEntry
  <2>4. To[f] # n => Theirs(f)' = Theirs(f) /\ \A x \in TransferId : RecvEntry(f, x)' = RecvEntry(f, x)
    <3>1. To[f] # n => gui'[To[f]][From[f]] = gui[To[f]][From[f]]
      BY <2>1, FailedCards
    <3> QED BY <1>1, <2>1, <3>1 DEF Theirs, RecvEntry
  <2>5. CASE From[f] = n
    <3>1. Between(f, n, To[f])
      BY <2>5 DEF Between
    <3>2. \/ /\ gui'[n][To[f]].cards = gui[n][To[f]].cards
             /\ \A x \in TransferId : table'[n][To[f]][x] = table[n][To[f]][x]
          \/ /\ Marks(gui[n][To[f]].cards, gui'[n][To[f]].cards, t, "Failed")
             /\ \A x \in TransferId : table'[n][To[f]][x].st = "none"
      BY <1>2, <2>1, <3>1, FailedOnCard
    <3>3. \/ /\ Ours(f)' = Ours(f)
             /\ \A x \in TransferId : SendEntry(f, x)' = SendEntry(f, x)
          \/ /\ Marks(Ours(f), Ours(f)', t, "Failed")
             /\ \A x \in TransferId : SendEntry(f, x)'.st = "none"
      BY <2>5, <3>2 DEF Ours, SendEntry
    <3> QED BY <1>2, <2>1, <2>2, <2>4, <2>5, <3>3, SenderFails
  <2>6. CASE To[f] = n
    <3>1. Between(f, n, From[f])
      BY <2>6 DEF Between
    <3>2. \/ /\ gui'[n][From[f]].cards = gui[n][From[f]].cards
             /\ \A x \in TransferId : table'[n][From[f]][x] = table[n][From[f]][x]
          \/ /\ Marks(gui[n][From[f]].cards, gui'[n][From[f]].cards, t, "Failed")
             /\ \A x \in TransferId : table'[n][From[f]][x].st = "none"
      BY <1>2, <2>1, <3>1, FailedOnCard
    <3>3. \/ /\ Theirs(f)' = Theirs(f)
             /\ \A x \in TransferId : RecvEntry(f, x)' = RecvEntry(f, x)
          \/ /\ Marks(Theirs(f), Theirs(f)', t, "Failed")
             /\ \A x \in TransferId : RecvEntry(f, x)'.st = "none"
      BY <2>6, <3>2 DEF Theirs, RecvEntry
    <3> QED BY <1>2, <2>1, <2>2, <2>3, <2>6, <3>3, ReceiverFails
  <2>7. CASE From[f] # n /\ To[f] # n
    BY <1>2, <2>2, <2>3, <2>4, <2>7, NeitherMoves
  <2> QED BY <2>5, <2>6, <2>7
<1>3. ASSUME NEW a \in User, NEW c \in User, Silent(a, c)
      PROVE  Silent(a, c)'
  <2>1. \A x \in TransferId : table'[a][c][x].st = "none"
    <3>1. ASSUME NEW x \in TransferId PROVE table'[a][c][x].st = "none"
      <4>1. CASE a = n /\ <<c, x>> \in K
        BY <1>1, <4>1, BlankEntry
      <4>2. CASE a # n \/ <<c, x>> \notin K
        BY <1>1, <1>3, <4>2 DEF Silent
      <4> QED BY <4>1, <4>2
    <3> QED BY <3>1
  <2>2. gui'[a][c].cards = <<>>
    <3>1. CASE a # n
      BY <1>3, <3>1, FailedCards DEF Silent
    <3>2. CASE a = n
      <4>1. IdsIn(K, c) = {}
        BY <1>3, <3>2 DEF IdsIn, Silent
      <4>2. gui'[n][c] \in AllFailed(gui[n][c], {}) /\ gui[n][c] \in Chat
        <5>1. gui'[n][c] \in AllFailed(gui[n][c], IdsIn(K, c))
          BY FailedCards
        <5> QED BY <4>1, <5>1 DEF TypeOK
      <4>3. Meets(gui[n][c].cards, 0) /\ 0 \in TransferId
        <5>1. gui[n][c].cards = <<>> /\ DOMAIN <<>> = {}
          BY <1>3, <3>2, EmptySeq, LenProperties DEF Silent
        <5> QED BY <5>1, Ids DEF Meets
      <4>4. gui'[n][c].cards = gui[n][c].cards
        BY <4>2, <4>3, AllFailedMarks
      <4> QED BY <1>3, <3>2, <4>4 DEF Silent
    <3> QED BY <3>1, <3>2
  <2> QED BY <1>3, <2>1, <2>2 DEF Silent
<1>4. TransferId' = TransferId /\ \A f \in File, a, c \in User : Between(f, a, c)' <=> Between(f, a, c)
  BY DEF TransferId, Between
<1> QED BY <1>2, <1>3, <1>4 DEF CardsInv

LEMMA PeerTimeoutCards ==
  ASSUME TypeOK, TypeOK', CardsInv, NEW n \in User, PeerTimeout(n) \/ YieldSocket(n)
  PROVE  CardsInv'
<1>1. jobs' = jobs /\ whole' = whole /\ net' \subseteq net
  BY DEF PeerTimeout, YieldSocket, Relink, history
<1>2. PICK K : /\ FailAll(n, K)
               /\ \A c \in User, x \in TransferId : <<c, x>> \in K => table[n][c][x].st # "none"
  <2>1. CASE PeerTimeout(n)
    <3>1. PICK c \in User : FailAll(n, {k \in Entries(n, {"sending"}) : k[1] = c})
      BY <2>1 DEF PeerTimeout
    <3>2. \A b \in User, x \in TransferId :
            <<b, x>> \in {k \in Entries(n, {"sending"}) : k[1] = c} => table[n][b][x].st # "none"
      BY DEF Entries
    <3> QED BY <3>1, <3>2
  <2>2. CASE YieldSocket(n)
    <3> DEFINE K == Entries(n, {"hashing", "offered", "sending", "incoming", "receiving"})
    <3>1. FailAll(n, K)
      BY <2>2 DEF YieldSocket
    <3>2. \A b \in User, x \in TransferId : <<b, x>> \in K => table[n][b][x].st # "none"
      BY DEF Entries
    <3> QED BY <3>1, <3>2
  <2> QED BY <2>1, <2>2
<1> QED BY <1>1, <1>2, FailAllCards

LEMMA RestartCards ==
  ASSUME TypeOK, TypeOK', CardsInv, NEW n \in User, Restart(n)
  PROVE  CardsInv'
<1>1. \A a, b \in User, x \in TransferId : table'[a][b][x] = IF a = n THEN NoEntry ELSE table[a][b][x]
  BY DEF Restart, TypeOK
<1>2. /\ \A a \in User : jobs'[a] = IF a = n THEN {} ELSE jobs[a]
      /\ net' \subseteq net /\ whole' = whole
  BY DEF Restart, TypeOK, Relink, history
<1>3. ThreadsQuiet
  <2>1. \A f \in File : thread'[f] = IF From[f] = n THEN NoThread ELSE thread[f]
    BY DEF Restart
  <2>2. NoThread.st = "none"
    BY DEF NoThread
  <2> QED BY <2>1, <2>2 DEF ThreadsQuiet, Alive
<1>4. \A a, b \in User : gui'[a][b] = IF a = n THEN Reloaded(gui[a][b]) ELSE gui[a][b]
  BY DEF Restart, TypeOK
<1>5. ASSUME NEW f \in File, NEW t \in TransferId, OnCard(f, t)
      PROVE  OnCard(f, t)'
  <2>1. From[f] \in User /\ To[f] \in User /\ From[f] # To[f]
    BY Ends
  <2>2. Alive(f)' => Alive(f) /\ thread'[f].id = thread[f].id
    BY <1>3 DEF ThreadsQuiet
  <2>3. From[f] # n => /\ Ours(f)' = Ours(f) /\ SendJobs(f)' = SendJobs(f)
                       /\ \A x \in TransferId : SendEntry(f, x)' = SendEntry(f, x)
    BY <1>1, <1>2, <1>4, <2>1 DEF Ours, SendEntry, SendJobs
  <2>4. To[f] # n => /\ Theirs(f)' = Theirs(f) /\ RecvJobs(f)' = RecvJobs(f)
                     /\ \A x \in TransferId : RecvEntry(f, x)' = RecvEntry(f, x)
    BY <1>1, <1>2, <1>4, <2>1 DEF Theirs, RecvEntry, RecvJobs
  <2>5. CASE From[f] = n
    <3>1. Marks(Ours(f), Ours(f)', t, "Failed")
      <4>1. gui[n][To[f]] \in Chat /\ gui'[n][To[f]] = Reloaded(gui[n][To[f]])
        BY <1>4, <2>1 DEF TypeOK
      <4>2. Marks(gui[n][To[f]].cards, Reloaded(gui[n][To[f]]).cards, t, "Failed")
        BY <4>1, ReloadedMarks
      <4> QED BY <2>5, <4>1, <4>2 DEF Ours
    <3>2. SendJobs(f)' = {} /\ \A x \in TransferId : SendEntry(f, x)'.st = "none"
      BY <1>1, <1>2, <2>1, <2>5, BlankEntry DEF SendJobs, SendEntry
    <3> QED BY <1>2, <1>5, <2>1, <2>2, <2>4, <2>5, <3>1, <3>2, SenderFails
  <2>6. CASE To[f] = n
    <3>1. Marks(Theirs(f), Theirs(f)', t, "Failed")
      <4>1. gui[n][From[f]] \in Chat /\ gui'[n][From[f]] = Reloaded(gui[n][From[f]])
        BY <1>4, <2>1 DEF TypeOK
      <4>2. Marks(gui[n][From[f]].cards, Reloaded(gui[n][From[f]]).cards, t, "Failed")
        BY <4>1, ReloadedMarks
      <4> QED BY <2>6, <4>1, <4>2 DEF Theirs
    <3>2. RecvJobs(f)' = {} /\ \A x \in TransferId : RecvEntry(f, x)'.st = "none"
      BY <1>1, <1>2, <2>1, <2>6, BlankEntry DEF RecvJobs, RecvEntry
    <3> QED BY <1>2, <1>5, <2>1, <2>2, <2>3, <2>6, <3>1, <3>2, ReceiverFails
  <2>7. CASE From[f] # n /\ To[f] # n
    BY <1>2, <1>5, <2>2, <2>3, <2>4, <2>7, NeitherMoves
  <2> QED BY <2>5, <2>6, <2>7
<1>6. ASSUME NEW a \in User, NEW c \in User, Silent(a, c)
      PROVE  Silent(a, c)'
  <2>1. \A x \in TransferId : table'[a][c][x].st = "none"
    BY <1>1, <1>6, BlankEntry DEF Silent
  <2>2. gui'[a][c].cards = <<>>
    <3>1. gui[a][c].cards = <<>> /\ DOMAIN <<>> = {}
      BY <1>6, EmptySeq, LenProperties DEF Silent
    <3>2. CASE a # n
      BY <1>4, <3>1, <3>2
    <3>3. CASE a = n
      <4>1. gui[a][c] \in Chat /\ gui'[a][c] = Reloaded(gui[a][c]) /\ gui'[a][c] \in Chat
        BY <1>4, <3>3 DEF TypeOK
      <4>2. Follow(gui[a][c].cards, gui'[a][c].cards, 0)
        BY <4>1, ReloadedMarks DEF Marks
      <4>3. gui[a][c].cards \in Seq(Card) /\ gui'[a][c].cards \in Seq(Card)
        BY <4>1, ChatFields
      <4>4. gui[a][c].cards = <<>> <=> gui'[a][c].cards = <<>>
        BY <4>2, <4>3, FollowNone
      <4> QED BY <3>1, <4>4
    <3> QED BY <3>2, <3>3
  <2> QED BY <1>2, <1>6, <2>1, <2>2 DEF Silent
<1>7. TransferId' = TransferId /\ \A f \in File, a, c \in User : Between(f, a, c)' <=> Between(f, a, c)
  BY DEF TransferId, Between
<1> QED BY <1>5, <1>6, <1>7 DEF CardsInv

LEMMA CardsInit ==
  ASSUME Init
  PROVE  CardsInv
<1>1. /\ \A n, c \in User, x \in TransferId : table[n][c][x].st = "none"
      /\ \A n, c \in User : gui[n][c].cards = <<>>
      /\ \A n \in User : jobs[n] = {}
      /\ \A f \in File : ~Alive(f)
      /\ net = {}
  <2>1. \A n, c \in User, x \in TransferId : table[n][c][x] = NoEntry
    BY DEF Init
  <2>2. \A n, c \in User : gui[n][c] = NoChat
    BY DEF Init
  <2> QED BY <2>1, <2>2, BlankEntry DEF Init, NoChat, NoThread, Alive
<1>2. ASSUME NEW f \in File PROVE OnCard(f, 1)
  <2>1. From[f] \in User /\ To[f] \in User
    BY FileTransferAssumption
  <2>2. 1 \in TransferId \ {0}
    <3>1. IsFiniteSet({f}) /\ Cardinality({f}) = 1
      BY FS_Singleton
    <3>2. Cardinality({f}) <= Cardinality(File)
      BY Ids
    <3>3. Cardinality(File) \in Nat /\ TransferId = 0..Cardinality(File)
      BY Ids
    <3> HIDE DEF TransferId
    <3> QED BY <3>1, <3>2, <3>3
  <2>3. /\ Ours(f) = <<>> /\ Theirs(f) = <<>> /\ SendJobs(f) = {} /\ RecvJobs(f) = {}
        /\ \A x \in TransferId : SendEntry(f, x).st = "none" /\ RecvEntry(f, x).st = "none"
    BY <1>1, <2>1 DEF Ours, Theirs, SendJobs, RecvJobs, SendEntry, RecvEntry
  <2>4. Numbered(f, 1)
    <3>1. EntriesNumbered(f, 1) /\ PacketsNumbered(f, 1) /\ JobsNumbered(f, 1)
      BY <1>1, <2>3 DEF EntriesNumbered, PacketsNumbered, JobsNumbered
    <3>2. DOMAIN <<>> = {}
      BY EmptySeq, LenProperties
    <3>3. CardsNumbered(f, 1)
      BY <2>3, <3>2 DEF CardsNumbered
    <3> QED BY <2>2, <3>1, <3>3 DEF Numbered
  <2>5. InTurn(f, SendEntry(f, 1).st, RecvEntry(f, 1).st)
    BY <1>1, <2>2, <2>3 DEF InTurn, Unoffered, Hashes, OfferOut, AcceptOut
  <2>6. CardsOpen(f, SendEntry(f, 1).st, RecvEntry(f, 1).st) /\ Earned(f)
    <3>1. \A states : ~Says(<<>>, states)
      BY DEF Says
    <3> QED BY <1>1, <2>2, <2>3, <3>1 DEF CardsOpen, Earned
  <2> QED BY <2>4, <2>5, <2>6 DEF OnCard
<1>3. \A n, c \in User : Silent(n, c)
  BY <1>1 DEF Silent
<1>4. \A f \in File : \E t \in TransferId : OnCard(f, t)
  BY <1>2 DEF OnCard, Numbered
<1> QED BY <1>3, <1>4 DEF CardsInv

LEMMA CardsStep ==
  ASSUME Inv, TypeOK', CardsInv, OneFilePerChat, OfferedOnce, [Next]_vars
  PROVE  CardsInv'
<1>1. TypeOK /\ AckMeansWhole
  BY DEF Inv, TypeInv, AckInv
<1>2. CASE UNCHANGED vars
  BY <1>1, <1>2, NothingNewCards DEF vars, NothingNew
<1>3. CASE Lose
  BY <1>1, <1>3, NothingNewCards DEF Lose, NothingNew, history
<1>4. ASSUME NEW f \in File, SendRound(f) \/ NextCommand(f)
      PROVE  CardsInv'
  BY <1>1, <1>4, SendRoundCards, NextCommandCards
<1>5. ASSUME NEW n \in User, Handshake(n) \/ SessionLost(n) \/ ReclaimSocket(n)
      PROVE  CardsInv'
  <2>1. NothingNew
    BY <1>5 DEF Handshake, SessionLost, ReclaimSocket, Relink, NothingNew, history
  <2> QED BY <1>1, <2>1, NothingNewCards
<1>6. ASSUME NEW n \in User,
             SendFileOffer(n) \/ AcceptFileTransfer(n) \/ RejectFileTransfer(n) \/ CancelFileTransfer(n)
      PROVE  CardsInv'
  BY <1>1, <1>6, SendFileOfferCards, AcceptCards, RejectCards, CancelCards
<1>7. ASSUME NEW n \in User,
             \/ RecvOffer(n) \/ RecvAccept(n) \/ RecvReject(n) \/ RecvChunk(n) \/ RecvComplete(n)
             \/ RecvNack(n) \/ RecvAck(n) \/ RecvCancel(n)
      PROVE  CardsInv'
  BY <1>1, <1>7, RecvOfferCards, RecvAcceptCards, RecvRejectCards, RecvChunkCards,
     RecvCompleteCards, RecvNackCards, RecvAckCards, RecvCancelCards
<1>8. ASSUME NEW n \in User,
             \/ DrainHash(n) \/ DrainVerify(n) \/ DrainAllSent(n) \/ DrainDone(n) \/ DrainProgress(n)
             \/ ResendComplete(n) \/ ShowProgress(n) \/ TransferTimeout(n)
      PROVE  CardsInv'
  BY <1>1, <1>8, DrainHashCards, DrainVerifyCards, DrainAllSentCards, DrainDoneCards,
     DrainProgressCards, ResendCards, ShowProgressCards, TimeoutCards
<1>9. ASSUME NEW n \in User, PeerTimeout(n) \/ YieldSocket(n) \/ Restart(n)
      PROVE  CardsInv'
  BY <1>1, <1>9, PeerTimeoutCards, RestartCards
<1> QED BY <1>2, <1>3, <1>4, <1>5, <1>6, <1>7, <1>8, <1>9 DEF Next

LEMMA CardsInvariance ==
  ASSUME OneFilePerChat, OfferedOnce
  PROVE  Spec => [](TypeOK /\ CardsInv)
<1>1. Init => CardsInv
  BY CardsInit
<1>2. Inv => TypeOK
  BY DEF Inv, TypeInv
<1>3. Inv /\ TypeOK' /\ CardsInv /\ [Next]_vars => CardsInv'
  BY CardsStep
<1> QED BY <1>1, <1>2, <1>3, Invariance, PTL DEF Spec

\* What a card shows is about the file of its chat.
LEMMA CardOf ==
  ASSUME TypeOK, CardsInv, NEW n \in User, NEW c \in User, NEW i \in DOMAIN gui[n][c].cards
  PROVE  \E f \in File, t \in TransferId :
            /\ Between(f, n, c) /\ OnCard(f, t)
            /\ gui[n][c].cards[i].file = f /\ gui[n][c].cards[i].id \in {0, t}
<1>1. ~Silent(n, c)
  <2>1. DOMAIN <<>> = {}
    BY EmptySeq, LenProperties
  <2> QED BY <2>1 DEF Silent
<1>2. PICK f \in File, t \in TransferId : Between(f, n, c) /\ OnCard(f, t)
  BY <1>1, ChatOf
<1>3. gui[n][c].cards[i].file = f /\ Meets(gui[n][c].cards, t)
  BY <1>2, Numbers
<1> QED BY <1>2, <1>3 DEF Meets

\* A card says Completed only when its file has arrived whole, at either end,
\* through lost and reordered packets, timeouts, calls, cancellations and
\* restarts: with one file to a chat, whose offer and acceptance do not come
\* twice, no event of the daemon reaches the card of another transfer.
THEOREM CompletedOnceWhole ==
  ASSUME OneFilePerChat, OfferedOnce
  PROVE  Spec => []CompletedMeansWhole
<1>1. ASSUME TypeOK, CardsInv PROVE CompletedMeansWhole
  <2> SUFFICES ASSUME NEW n \in User, NEW c \in User, NEW i \in DOMAIN gui[n][c].cards,
                      gui[n][c].cards[i].st = "Completed"
               PROVE  gui[n][c].cards[i].file \in whole
    BY DEF CompletedMeansWhole, Shown
  <2>1. PICK f \in File, t \in TransferId :
          Between(f, n, c) /\ OnCard(f, t) /\ gui[n][c].cards[i].file = f
    BY <1>1, CardOf
  <2>2. Says(gui[n][c].cards, {"Completed"})
    BY DEF Says
  <2>3. Says(Ours(f), {"Completed"}) \/ Says(Theirs(f), {"Completed"})
    BY <2>1, <2>2 DEF Between, Ours, Theirs
  <2> QED BY <2>1, <2>3 DEF OnCard, Earned
<1> QED BY <1>1, CardsInvariance, PTL

\* Whatever the daemon still works on has an open card of its own, from which the
\* user can answer or cancel it: whichever event closes the card first, a timeout,
\* a call or a cancellation, also takes the transfer out of the table.
THEOREM TransferKeepsCard ==
  ASSUME OneFilePerChat, OfferedOnce
  PROVE  Spec => []EntryHasCard
<1>1. ASSUME TypeOK, CardsInv PROVE EntryHasCard
  <2> SUFFICES ASSUME NEW n \in User, NEW c \in User, NEW t \in TransferId, table[n][c][t].st # "none"
               PROVE  \E i \in DOMAIN gui[n][c].cards :
                        /\ gui[n][c].cards[i].file = table[n][c][t].file
                        /\ Open(gui[n][c].cards[i]) /\ gui[n][c].cards[i].id \in {0, t}
    BY DEF EntryHasCard, Shown
  <2>1. PICK f \in File, x \in TransferId : Between(f, n, c) /\ OnCard(f, x)
    BY <1>1, ChatOf DEF Silent
  <2>2. /\ t = x /\ table[n][c][t].file = f /\ Meets(gui[n][c].cards, x)
        /\ \A i \in DOMAIN gui[n][c].cards : gui[n][c].cards[i].file = f
    BY <1>1, <2>1, Numbers
  <2>3. Says(gui[n][c].cards, OpenStates)
    <3>1. CASE n = From[f] /\ c = To[f]
      BY <2>1, <2>2, <3>1 DEF OnCard, CardsOpen, SendEntry, Ours
    <3>2. CASE n = To[f] /\ c = From[f]
      BY <2>1, <2>2, <3>2 DEF OnCard, CardsOpen, RecvEntry, Theirs
    <3> QED BY <2>1, <3>1, <3>2 DEF Between
  <2> QED BY <2>2, <2>3 DEF Says, OpenStates, Open, Meets
<1> QED BY <1>1, CardsInvariance, PTL

\* A card is open only while the daemon has the transfer or still checks the
\* file: none stays at "Transferring" after a timeout, a call, a cancellation or
\* a restart, whatever the other end does.
THEOREM NoCardLeftOpen ==
  ASSUME OneFilePerChat, OfferedOnce
  PROVE  Spec => []OpenCardHasTransfer
<1>1. ASSUME TypeOK, CardsInv PROVE OpenCardHasTransfer
  <2> SUFFICES ASSUME NEW n \in User, NEW c \in User, NEW i \in DOMAIN gui[n][c].cards,
                      Open(gui[n][c].cards[i])
               PROVE  \/ \E t \in TransferId : table[n][c][t].file = gui[n][c].cards[i].file
                      \/ \E j \in jobs[n] : j.type = "verify" /\ j.file = gui[n][c].cards[i].file
    BY DEF OpenCardHasTransfer, Shown
  <2>1. PICK f \in File, t \in TransferId :
          Between(f, n, c) /\ OnCard(f, t) /\ gui[n][c].cards[i].file = f
    BY <1>1, CardOf
  <2>2. Says(gui[n][c].cards, OpenStates)
    BY DEF Says, OpenStates, Open
  <2>3. table[n][c][t].st # "none" => table[n][c][t].file = f
    BY <1>1, <2>1, Numbers
  <2>4. CASE n = From[f] /\ c = To[f]
    <3>1. table[n][c][t].st # "none"
      BY <2>1, <2>2, <2>4 DEF OnCard, CardsOpen, SendEntry, Ours
    <3> QED BY <2>1, <2>3, <3>1
  <2>5. CASE n = To[f] /\ c = From[f]
    <3>1. table[n][c][t].st # "none" \/ RecvJobs(f) # {}
      BY <2>1, <2>2, <2>5 DEF OnCard, CardsOpen, RecvEntry, Theirs
    <3>2. \A j \in RecvJobs(f) : j \in jobs[n] /\ j.type = "verify" /\ j.file = f
      BY <2>1, <2>5 DEF OnCard, Numbered, JobsNumbered, RecvJobs
    <3> QED BY <2>1, <2>3, <3>1, <3>2
  <2> QED BY <2>1, <2>4, <2>5 DEF Between
<1> QED BY <1>1, CardsInvariance, PTL
=============================================================================
