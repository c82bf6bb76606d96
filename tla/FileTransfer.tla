---------------------------- MODULE FileTransfer ----------------------------
(***************************************************************************)
(* Sending files between users: offer, accept or reject, chunks sent by a  *)
(* thread of their own, FILE_COMPLETE answered by a FILE_NACK that lists   *)
(* what is missing or by one final FILE_ACK, cancellation and timeouts;    *)
(* the daemons' tables of transfers, which number them per process, and    *)
(* the cards of the chat history on which the GUI shows how each one went. *)
(*                                                                         *)
(* Sessions are those of Messenger, reduced to what a transfer can tell: a *)
(* packet is read while its reader has the session it was sent in.  The    *)
(* network reorders freely; packet types in Lossy may get lost, those in   *)
(* Repeated may arrive again.                                              *)
(***************************************************************************)
EXTENDS FileCards

CONSTANTS
  User,       \* the users, in each other's contacts
  File,       \* files offered, each one once
  NoFile,
  From, To,   \* From[f] offers f to To[f]
  Chunks,     \* chunks of a file
  NackSize,   \* chunk indices that fit into one FILE_NACK
  Lossy,      \* packet types the network may lose
  Repeated,   \* packet types the network may deliver again
  MaxLink,    \* bound: sessions
  MaxCmds,    \* bound: FILE_NACKs waiting for a sender thread
  MaxCards,   \* bound: file cards in a chat
  MaxRestarts,\* bound: restarts
  MaxCalls    \* bound: voice calls

ASSUME FileTransferAssumption ==
  /\ IsFiniteSet(File) /\ NoFile \notin File
  /\ From \in [File -> User] /\ To \in [File -> User]
  /\ \A f \in File : From[f] # To[f]
  /\ Chunks \in Nat \ {0} /\ NackSize \in Nat \ {0}
  /\ MaxLink \in Nat /\ MaxCmds \in Nat /\ MaxCards \in Nat
  /\ MaxRestarts \in Nat /\ MaxCalls \in Nat

VARIABLES
  table,      \* table[n][c][t]: file_transfers of n, by contact and transfer_id
  nextId,     \* next_transfer_id
  lent,       \* whose socket is lent to the voice engine
  link,       \* link[n][c]: the session n has with c, 0 for none
  links,      \* sessions so far
  thread,     \* thread[f]: the sender thread of f
  jobs,       \* jobs[n]: background work of n whose result is not drained yet
  net,        \* datagrams under way
  gui,        \* gui[n][c]: file cards of the chat with c, and progress on show
  restarts,   \* so far
  calls,      \* so far
  accepted,   \* history: files whose cards their addressees accepted
  whole       \* history: files of which an addressee has held every chunk

vars == <<table, nextId, lent, link, links, thread, jobs, net, gui,
          restarts, calls, accepted, whole>>

----------------------------------------------------------------------------
(* Data *)

Chunk == 0..Chunks - 1
TransferId == 0..Cardinality(File)
Blank == [i \in Chunk |-> NoFile]

NoEntry == [st |-> "none", file |-> NoFile, told |-> FALSE, got |-> Blank]
Entry == {NoEntry} \cup
         [st : {"hashing", "offered", "sending", "incoming", "receiving"},
          file : File,
          told : BOOLEAN,                            \* complete_sent
          got : [Chunk -> File \cup {NoFile}]]       \* received, with whose data
EntryOf(st, f) == [NoEntry EXCEPT !.st = st, !.file = f]
\* Fault: the loop over the chunks ends one short.
MissingButLast(e) == {i \in 0..Chunks - 2 : e.got[i] = NoFile}
Missing(e) == {i \in Chunk : e.got[i] = NoFile}

\* A sender thread, with the session it took along and its command channel.
Command == [type : {"Nack"}, missing : SUBSET Chunk] \cup [type : {"Ack", "Cancel"}]
Thread == [st : {"none", "sending", "waiting"}, id : TransferId, link : Nat,
           todo : SUBSET Chunk, cmds : Seq(Command)]
NoThread == [st |-> "none", id |-> 0, link |-> 0, todo |-> {}, cmds |-> <<>>]

Card == [file : File, mine : BOOLEAN, id : TransferId,
         st : {"Offered", "Accepted", "Completed", "Failed", "Rejected", "Cancelled"}]
Chat == [cards : Seq(Card), progress : SUBSET TransferId]
Tell(n, c, g) == gui' = [gui EXCEPT ![n][c] = g]

----------------------------------------------------------------------------
(* Tables, threads and packets *)

Put(n, c, t, e) == table' = [table EXCEPT ![n][c][t] = e]
Clear(n, c, t) == Put(n, c, t, NoEntry)

Packet ==
       [type : {"OFFER"}, from : User, to : User, link : Nat, id : TransferId, file : File]
  \cup [type : {"ACCEPT", "REJECT", "CANCEL", "COMPLETE", "ACK"},
        from : User, to : User, link : Nat, id : TransferId]
  \cup [type : {"CHUNK"}, from : User, to : User, link : Nat, id : TransferId,
        index : Chunk, file : File]
  \cup [type : {"NACK"}, from : User, to : User, link : Nat, id : TransferId,
        missing : SUBSET Chunk]

Signal(n, c, type, t) == [type |-> type, from |-> n, to |-> c, link |-> link[n][c], id |-> t]
Offer(n, c, t, f) ==
  [type |-> "OFFER", from |-> n, to |-> c, link |-> link[n][c], id |-> t, file |-> f]
ChunkOf(f, l, t, i) ==
  [type |-> "CHUNK", from |-> From[f], to |-> To[f], link |-> l, id |-> t, index |-> i, file |-> f]

\* send_file_nack: the indices in order, NackSize to a packet.
Parts(m) ==
  LET Part(i) == Cardinality({j \in m : j < i}) \div NackSize
  IN  {{i \in m : Part(i) = Part(j)} : j \in m}
Nacks(n, c, t, m) ==
  {[type |-> "NACK", from |-> n, to |-> c, link |-> link[n][c], id |-> t, missing |-> x] : x \in Parts(m)}

\* Nothing is encrypted, and so nothing sent, without a session.
Outgoing(n, c, ps) == IF link[n][c] = 0 THEN {} ELSE ps
Send(n, c, ps) == net' = net \cup Outgoing(n, c, ps)

Arrives(n, p, type) ==
  /\ p \in net /\ p.type = type /\ p.to = n /\ n \notin lent
  /\ p.link # 0 /\ p.link = link[n][p.from]
Rest(p) == IF p.type \in Repeated THEN net ELSE net \ {p}
Taken(p) == net' = Rest(p)

\* A command for the thread of entry e, if it is one that is being sent.
Ordered(th, e, x) ==
  IF e.st = "sending" /\ th[e.file].st # "none"
  THEN [th EXCEPT ![e.file].cmds = Append(@, x)] ELSE th
CancelCmd == [type |-> "Cancel"]
AckCmd == [type |-> "Ack"]
\* Fault: the indices are taken to count from 1.
NackCmdFromOne(m) == [type |-> "Nack", missing |-> {i + 1 : i \in m}]
NackCmd(m) == [type |-> "Nack", missing |-> m]

\* Background work: hashing a file, checking one received, events of sender threads.
Work == [type : {"hash", "verify", "allSent", "done", "progress"}, with : User,
         id : TransferId, file : File, good : BOOLEAN]
Job(type, c, t, f, good) == [type |-> type, with |-> c, id |-> t, file |-> f, good |-> good]

linkVars == <<lent, link, links, restarts, calls>>
history == <<accepted, whole>>

----------------------------------------------------------------------------
Init ==
  /\ table = [n \in User |-> [c \in User |-> [t \in TransferId |-> NoEntry]]]
  /\ nextId = [n \in User |-> 1]
  /\ lent = {} /\ links = 0
  /\ link = [n \in User |-> [c \in User |-> 0]]
  /\ thread = [f \in File |-> NoThread]
  /\ jobs = [n \in User |-> {}]
  /\ net = {}
  /\ gui = [n \in User |-> [c \in User |-> NoChat]]
  /\ restarts = 0 /\ calls = 0
  /\ accepted = {} /\ whole = {}

(* Commands of the user *)

Offered(n, f) == \E i \in DOMAIN gui[n][To[f]].cards : gui[n][To[f]].cards[i].file = f

\* A card without an id, then, if the file can be read, a new id and its hashing.
SendFileOffer(n) ==
  /\ \E f \in File :
       LET c == To[f]
           t == nextId[n]
           g == WithCard(gui[n][c], f, TRUE, 0)
       IN  /\ From[f] = n /\ ~Offered(n, f) /\ Len(gui[n][c].cards) < MaxCards
           /\ \/ /\ Put(n, c, t, EntryOf("hashing", f))
                 /\ nextId' = [nextId EXCEPT ![n] = t + 1]
                 /\ jobs' = [jobs EXCEPT ![n] = @ \cup {Job("hash", c, t, f, TRUE)}]
                 /\ Tell(n, c, g)
              \/ /\ Tell(n, c, Ended(g, 0, "Failed"))
                 /\ UNCHANGED <<table, nextId, jobs>>
  /\ UNCHANGED <<linkVars, thread, net, history>>

\* The user answers an incoming card; whatever has its id leaves the table.
AcceptFileTransfer(n) ==
  /\ \E c \in User : \E i \in DOMAIN gui[n][c].cards :
       LET k == gui[n][c].cards[i]
           e == table[n][c][k.id]
       IN  /\ ~k.mine /\ k.st = "Offered"
           /\ Tell(n, c, Marked(gui[n][c], k.id, "Accepted"))
           /\ accepted' = accepted \cup {k.file}
           /\ IF e.st = "incoming"
              THEN /\ Put(n, c, k.id, EntryOf("receiving", e.file))
                   /\ Send(n, c, {Signal(n, c, "ACCEPT", k.id)})
              ELSE Clear(n, c, k.id) /\ UNCHANGED net
  /\ UNCHANGED <<linkVars, nextId, thread, jobs, whole>>

RejectFileTransfer(n) ==
  /\ \E c \in User : \E i \in DOMAIN gui[n][c].cards :
       LET k == gui[n][c].cards[i]
       IN  /\ ~k.mine /\ k.st = "Offered"
           /\ Tell(n, c, Marked(gui[n][c], k.id, "Rejected"))
           /\ Clear(n, c, k.id)
           /\ Send(n, c, IF table[n][c][k.id].st = "incoming"
                         THEN {Signal(n, c, "REJECT", k.id)} ELSE {})
  /\ UNCHANGED <<linkVars, nextId, thread, jobs, history>>

CancelFileTransfer(n) ==
  /\ \E c \in User : \E i \in DOMAIN gui[n][c].cards :
       LET k == gui[n][c].cards[i]
           e == table[n][c][k.id]
           g == [Marked(gui[n][c], k.id, "Cancelled") EXCEPT !.progress = @ \ {k.id}]
       IN  /\ k.st = "Accepted"
           /\ Clear(n, c, k.id)
           /\ thread' = Ordered(thread, e, CancelCmd)
           /\ IF e.st = "none" THEN Tell(n, c, g) /\ UNCHANGED net
              ELSE /\ Tell(n, c, Ended(g, k.id, "Failed"))
                   /\ Send(n, c, {Signal(n, c, "CANCEL", k.id)})
  /\ UNCHANGED <<linkVars, nextId, jobs, history>>

----------------------------------------------------------------------------
(* Packets *)

\* Fault: an offer of a transfer already under way resumes it, whatever the file.
RecvOfferResuming(n) ==
  /\ \E p \in net :
       /\ Arrives(n, p, "OFFER") /\ Len(gui[n][p.from].cards) < MaxCards
       /\ IF table[n][p.from][p.id].st = "receiving"
          THEN /\ net' = Rest(p) \cup {Signal(n, p.from, "ACCEPT", p.id)}
               /\ UNCHANGED <<table, gui>>
          ELSE /\ Put(n, p.from, p.id, EntryOf("incoming", p.file))
               /\ Tell(n, p.from, WithCard(gui[n][p.from], p.file, FALSE, p.id))
               /\ Taken(p)
  /\ UNCHANGED <<linkVars, nextId, thread, jobs, history>>
RecvOffer(n) ==
  /\ \E p \in net :
       /\ Arrives(n, p, "OFFER") /\ Len(gui[n][p.from].cards) < MaxCards
       /\ Put(n, p.from, p.id, EntryOf("incoming", p.file))
       /\ Tell(n, p.from, WithCard(gui[n][p.from], p.file, FALSE, p.id))
       /\ Taken(p)
  /\ UNCHANGED <<linkVars, nextId, thread, jobs, history>>

\* A sender thread is started for an offered file; any other entry is lost.
RecvAccept(n) ==
  /\ \E p \in net :
       LET e == table[n][p.from][p.id]
       IN  /\ Arrives(n, p, "ACCEPT")
           /\ Taken(p)
           /\ IF e.st = "offered"
              THEN /\ Put(n, p.from, p.id, EntryOf("sending", e.file))
                   /\ thread' = [thread EXCEPT ![e.file] =
                         [st |-> "sending", id |-> p.id, link |-> p.link, todo |-> Chunk, cmds |-> <<>>]]
                   /\ Tell(n, p.from, Moving(gui[n][p.from], p.id))
              ELSE Clear(n, p.from, p.id) /\ UNCHANGED <<thread, gui>>
  /\ UNCHANGED <<linkVars, nextId, jobs, history>>

\* Fault: a rejected transfer stays in the table.
RecvRejectKeeping(n) ==
  /\ \E p \in net :
       /\ Arrives(n, p, "REJECT")
       /\ Taken(p)
       /\ Tell(n, p.from, Ended(gui[n][p.from], p.id, "Failed"))
  /\ UNCHANGED <<linkVars, table, nextId, thread, jobs, history>>
RecvReject(n) ==
  /\ \E p \in net :
       /\ Arrives(n, p, "REJECT")
       /\ Taken(p)
       /\ Clear(n, p.from, p.id)
       /\ Tell(n, p.from, Ended(gui[n][p.from], p.id, "Failed"))
  /\ UNCHANGED <<linkVars, nextId, thread, jobs, history>>

\* on_chunk
RecvChunk(n) ==
  /\ \E p \in net :
       /\ Arrives(n, p, "CHUNK")
       /\ Taken(p)
       /\ IF table[n][p.from][p.id].st = "receiving"
          THEN table' = [table EXCEPT ![n][p.from][p.id].got[p.index] = p.file]
          ELSE UNCHANGED table
  /\ UNCHANGED <<linkVars, nextId, thread, jobs, gui, history>>

\* What is missing is asked for; otherwise the one ACK leaves, before the check.
\* Fault: a COMPLETE of a transfer that is over is acknowledged, to stop it.
AnswerAlways(n, c, t) ==
  IF table[n][c][t].st = "receiving" /\ Missing(table[n][c][t]) # {}
  THEN Nacks(n, c, t, Missing(table[n][c][t]))
  ELSE {Signal(n, c, "ACK", t)}
Answer(n, c, t) ==
  IF table[n][c][t].st # "receiving" THEN {}
  ELSE IF Missing(table[n][c][t]) # {} THEN Nacks(n, c, t, Missing(table[n][c][t]))
  ELSE {Signal(n, c, "ACK", t)}

RecvComplete(n) ==
  /\ \E p \in net :
       LET e == table[n][p.from][p.id]
           good == \A i \in Chunk : e.got[i] = e.file
       IN  /\ Arrives(n, p, "COMPLETE")
           /\ net' = Rest(p) \cup Answer(n, p.from, p.id)
           /\ IF e.st = "receiving" /\ Missing(e) = {}
              THEN /\ Clear(n, p.from, p.id)
                   /\ jobs' = [jobs EXCEPT ![n] = @ \cup {Job("verify", p.from, p.id, e.file, good)}]
                   /\ whole' = whole \cup {f \in File : \A i \in Chunk : e.got[i] = f}
              ELSE UNCHANGED <<table, jobs, whole>>
  /\ UNCHANGED <<linkVars, nextId, thread, gui, accepted>>

RecvNack(n) ==
  /\ \E p \in net :
       LET e == table[n][p.from][p.id]
       IN  /\ Arrives(n, p, "NACK")
           /\ Taken(p)
           /\ IF e.st = "sending"
              THEN /\ Len(thread[e.file].cmds) < MaxCmds
                   /\ Put(n, p.from, p.id, [e EXCEPT !.told = FALSE])
                   /\ thread' = Ordered(thread, e, NackCmd(p.missing))
              ELSE UNCHANGED <<table, thread>>
  /\ UNCHANGED <<linkVars, nextId, jobs, gui, history>>

RecvAck(n) ==
  /\ \E p \in net :
       /\ Arrives(n, p, "ACK")
       /\ Taken(p)
       /\ thread' = Ordered(thread, table[n][p.from][p.id], AckCmd)
       /\ Clear(n, p.from, p.id)
       /\ Tell(n, p.from, Ended(gui[n][p.from], p.id, "Completed"))
  /\ UNCHANGED <<linkVars, nextId, jobs, history>>

RecvCancel(n) ==
  /\ \E p \in net :
       LET e == table[n][p.from][p.id]
       IN  /\ Arrives(n, p, "CANCEL")
           /\ Taken(p)
           /\ thread' = Ordered(thread, e, CancelCmd)
           /\ Clear(n, p.from, p.id)
           /\ IF e.st = "none" THEN UNCHANGED gui
              ELSE Tell(n, p.from, Ended(gui[n][p.from], p.id, "Failed"))
  /\ UNCHANGED <<linkVars, nextId, jobs, history>>

Lose ==
  /\ \E p \in net : p.type \in Lossy /\ net' = net \ {p}
  /\ UNCHANGED <<linkVars, table, nextId, thread, jobs, gui, history>>

----------------------------------------------------------------------------
(* The sender thread *)

\* The entry that holds the sending end of f's command channel.
Channel(f) == {k \in User \X TransferId : table[From[f]][k[1]][k[2]].st = "sending"
                                       /\ table[From[f]][k[1]][k[2]].file = f}

\* A round: every chunk queued, and the news of it; a long one reports progress too.
SendRound(f) ==
  /\ thread[f].st = "sending"
  /\ net' = net \cup {ChunkOf(f, thread[f].link, thread[f].id, i) : i \in thread[f].todo}
  /\ \E types \in {{"allSent"}, {"allSent", "progress"}} :
       jobs' = [jobs EXCEPT ![From[f]] = @ \cup {Job(x, To[f], thread[f].id, f, TRUE) : x \in types}]
  /\ thread' = [thread EXCEPT ![f].st = "waiting", ![f].todo = {}]
  /\ UNCHANGED <<linkVars, table, nextId, gui, history>>

\* The next command, or the end of a thread whose channel is closed.
NextCommand(f) ==
  LET q == thread[f].cmds
  IN  /\ thread[f].st = "waiting"
      /\ q = <<>> => Channel(f) = {}
      /\ thread' = [thread EXCEPT ![f] =
            IF q # <<>> /\ Head(q).type = "Nack"
            THEN [@ EXCEPT !.st = "sending", !.todo = Head(q).missing, !.cmds = Tail(q)]
            ELSE NoThread]
      /\ jobs' = IF q # <<>> /\ Head(q).type = "Ack"
                 THEN [jobs EXCEPT ![From[f]] = @ \cup {Job("done", To[f], thread[f].id, f, TRUE)}]
                 ELSE jobs
      /\ UNCHANGED <<linkVars, table, nextId, net, gui, history>>

----------------------------------------------------------------------------
(* drain_background_results, and the timers of housekeep *)

Drained(n, type) ==
  {j \in jobs[n] : j.type = type /\ n \notin lent}
Done(n, j) == jobs' = [jobs EXCEPT ![n] = @ \ {j}]

\* The offer is sent once, if the contact is connected, and waits either way.
DrainHash(n) ==
  /\ \E j \in Drained(n, "hash") :
       /\ Done(n, j)
       /\ \/ /\ table[n][j.with][j.id].st = "hashing"
             /\ Put(n, j.with, j.id, EntryOf("offered", j.file))
             /\ Send(n, j.with, {Offer(n, j.with, j.id, j.file)})
             /\ UNCHANGED gui
          \/ /\ table[n][j.with][j.id].st # "hashing"
             /\ UNCHANGED <<table, net, gui>>
          \/ /\ Clear(n, j.with, j.id)   \* the file could not be hashed
             /\ Tell(n, j.with, Ended(gui[n][j.with], j.id, "Failed"))
             /\ UNCHANGED net
  /\ UNCHANGED <<linkVars, nextId, thread, history>>

\* Fault: a file that fails the check is discarded without a word.
DrainVerifySilently(n) ==
  /\ \E j \in Drained(n, "verify") : \E st \in {"Completed", "Failed"} :
       /\ Done(n, j)
       /\ st = "Completed" => j.good
       /\ IF st = "Failed" THEN UNCHANGED gui ELSE Tell(n, j.with, Ended(gui[n][j.with], j.id, st))
  /\ UNCHANGED <<linkVars, table, nextId, thread, net, history>>
\* The hash check can only pass for the right content; a lagging writer fails it.
DrainVerify(n) ==
  /\ \E j \in Drained(n, "verify") : \E st \in {"Completed", "Failed"} :
       /\ Done(n, j)
       /\ st = "Completed" => j.good
       /\ Tell(n, j.with, Ended(gui[n][j.with], j.id, st))
  /\ UNCHANGED <<linkVars, table, nextId, thread, net, history>>

DrainAllSent(n) ==
  /\ \E j \in Drained(n, "allSent") :
       LET e == table[n][j.with][j.id]
       IN  /\ Done(n, j)
           /\ IF e.st = "sending" /\ ~e.told
              THEN /\ Put(n, j.with, j.id, [e EXCEPT !.told = TRUE])
                   /\ Send(n, j.with, {Signal(n, j.with, "COMPLETE", j.id)})
              ELSE UNCHANGED <<table, net>>
  /\ UNCHANGED <<linkVars, nextId, thread, gui, history>>

DrainDone(n) ==
  /\ \E j \in Drained(n, "done") :
       /\ Done(n, j)
       /\ Clear(n, j.with, j.id)
       /\ Tell(n, j.with, Ended(gui[n][j.with], j.id, "Completed"))
  /\ UNCHANGED <<linkVars, nextId, thread, net, history>>

DrainProgress(n) ==
  /\ \E j \in Drained(n, "progress") :
       Done(n, j) /\ Tell(n, j.with, Moving(gui[n][j.with], j.id))
  /\ UNCHANGED <<linkVars, table, nextId, thread, net, history>>

\* Fault: only what was never sent is sent again.
ResendCompleteUnsent(n) ==
  /\ n \notin lent
  /\ \E c \in User, t \in TransferId :
       /\ table[n][c][t].st = "sending" /\ ~table[n][c][t].told
       /\ Send(n, c, {Signal(n, c, "COMPLETE", t)})
  /\ UNCHANGED <<linkVars, table, nextId, thread, jobs, gui, history>>
\* Every 2 seconds; being sent again also keeps the transfer from ever going stale.
ResendComplete(n) ==
  /\ n \notin lent
  /\ \E c \in User, t \in TransferId :
       /\ table[n][c][t].st = "sending" /\ table[n][c][t].told
       /\ Send(n, c, {Signal(n, c, "COMPLETE", t)})
  /\ UNCHANGED <<linkVars, table, nextId, thread, jobs, gui, history>>

ShowProgress(n) ==
  /\ n \notin lent
  /\ \E c \in User, t \in TransferId :
       /\ table[n][c][t].st = "receiving"
       /\ Tell(n, c, Moving(gui[n][c], t))
  /\ UNCHANGED <<linkVars, table, nextId, thread, jobs, net, history>>

\* OFFER_TIMEOUT, or STALE_TIMEOUT of a receiver that still misses chunks.
TransferTimeout(n) ==
  /\ n \notin lent
  /\ \E c \in User, t \in TransferId :
       LET e == table[n][c][t]
       IN  /\ e.st = "offered" \/ (e.st = "receiving" /\ Missing(e) # {})
           /\ Clear(n, c, t)
           /\ Tell(n, c, Ended(gui[n][c], t, "Failed"))
  /\ UNCHANGED <<linkVars, nextId, thread, jobs, net, history>>

----------------------------------------------------------------------------
(* Sessions and the process *)

\* The sessions are now l; what nobody can read any more is gone.
Relink(l) ==
  /\ link' = l
  /\ net' = {p \in net : p.link = l[p.to][p.from]}
Unlinked(n, C) == [link EXCEPT ![n] = [c \in User |-> IF c \in C THEN 0 ELSE @[c]]]

\* A handshake, also one that resets a session, leaves transfers as they are.
Handshake(n) ==
  /\ links < MaxLink /\ n \notin lent
  /\ \E c \in User \ ({n} \cup lent) :
       Relink([link EXCEPT ![n][c] = links + 1, ![c][n] = links + 1])
  /\ links' = links + 1
  /\ UNCHANGED <<lent, restarts, calls, table, nextId, thread, jobs, gui, history>>

\* BYE, or a session reset whose handshake is not finished.
SessionLost(n) ==
  /\ \E c \in User : link[n][c] # 0 /\ Relink(Unlinked(n, {c}))
  /\ UNCHANGED <<lent, links, restarts, calls, table, nextId, thread, jobs, gui, history>>

\* The transfers of n in K fail, in an order that the hash table decides.
FailAll(n, K) ==
  /\ table' = [table EXCEPT ![n] = [c \in User |-> [t \in TransferId |->
                 IF <<c, t>> \in K THEN NoEntry ELSE @[c][t]]]]
  /\ thread' = [f \in File |->
                 IF From[f] = n /\ Channel(f) \cap K # {} /\ thread[f].st # "none"
                 THEN [thread[f] EXCEPT !.cmds = Append(@, CancelCmd)] ELSE thread[f]]
  /\ LET After(c) == AllFailed(gui[n][c], {t \in TransferId : <<c, t>> \in K})
     IN  \E chats \in [User -> UNION {After(c) : c \in User}] :
           /\ \A c \in User : chats[c] \in After(c)
           /\ gui' = [gui EXCEPT ![n] = chats]

Entries(n, states) == {k \in User \X TransferId : table[n][k[1]][k[2]].st \in states}

\* PEER_TIMEOUT fails what is being sent to the contact, and nothing else.
PeerTimeout(n) ==
  /\ \E c \in User :
       /\ link[n][c] # 0 /\ Relink(Unlinked(n, {c}))
       /\ FailAll(n, {k \in Entries(n, {"sending"}) : k[1] = c})
  /\ UNCHANGED <<lent, links, restarts, calls, nextId, jobs, history>>

YieldSocket(n) ==
  /\ n \notin lent /\ calls < MaxCalls
  /\ calls' = calls + 1
  /\ lent' = lent \cup {n}
  /\ Relink(Unlinked(n, User))
  /\ FailAll(n, Entries(n, {"hashing", "offered", "sending", "incoming", "receiving"}))
  /\ UNCHANGED <<links, restarts, nextId, jobs, history>>

ReclaimSocket(n) ==
  /\ n \in lent
  /\ lent' = lent \ {n}
  /\ UNCHANGED <<link, links, restarts, calls, table, nextId, thread, jobs, net, gui, history>>

\* A new process knows of no transfer and counts from 1; its cards are on disk.
Restart(n) ==
  /\ restarts < MaxRestarts
  /\ restarts' = restarts + 1
  /\ lent' = lent \ {n}
  /\ Relink(Unlinked(n, User))
  /\ table' = [table EXCEPT ![n] = [c \in User |-> [t \in TransferId |-> NoEntry]]]
  /\ nextId' = [nextId EXCEPT ![n] = 1]
  /\ thread' = [f \in File |-> IF From[f] = n THEN NoThread ELSE thread[f]]
  /\ jobs' = [jobs EXCEPT ![n] = {}]
  /\ gui' = [gui EXCEPT ![n] = [c \in User |-> Reloaded(@[c])]]
  /\ UNCHANGED <<links, calls, history>>

Next ==
  \/ \E n \in User :
       \/ SendFileOffer(n) \/ AcceptFileTransfer(n) \/ RejectFileTransfer(n) \/ CancelFileTransfer(n)
       \/ RecvOffer(n) \/ RecvAccept(n) \/ RecvReject(n) \/ RecvChunk(n) \/ RecvComplete(n)
       \/ RecvNack(n) \/ RecvAck(n) \/ RecvCancel(n)
       \/ DrainHash(n) \/ DrainVerify(n) \/ DrainAllSent(n) \/ DrainDone(n) \/ DrainProgress(n)
       \/ ResendComplete(n) \/ ShowProgress(n) \/ TransferTimeout(n)
       \/ Handshake(n) \/ SessionLost(n) \/ PeerTimeout(n)
       \/ YieldSocket(n) \/ ReclaimSocket(n) \/ Restart(n)
  \/ \E f \in File : SendRound(f) \/ NextCommand(f)
  \/ Lose

Spec == Init /\ [][Next]_vars

\* Reading a packet of x: its chunk i, or a FILE_NACK that asks for chunk i.
ChunkRead(x, i) ==
  /\ RecvChunk(To[x])
  /\ \E p \in net \ net' : p.type = "CHUNK" /\ p.file = x /\ p.index = i
NackRead(x, i) ==
  /\ RecvNack(From[x])
  /\ \E p \in net \ net' : p.type = "NACK" /\ i \in p.missing

(***************************************************************************)
(* Sender threads run, the daemon's loop drains results and fires due      *)
(* timers, and what is sent again and again is finally read.  Nothing is   *)
(* assumed of users, of sessions, or of packets that are sent once.        *)
(***************************************************************************)
Fairness ==
  /\ \A x \in File :
       /\ WF_vars(SendRound(x)) /\ WF_vars(NextCommand(x))
       /\ \A i \in Chunk : SF_vars(ChunkRead(x, i)) /\ SF_vars(NackRead(x, i))
  /\ \A n \in User :
       /\ WF_vars(DrainAllSent(n)) /\ WF_vars(DrainDone(n))
       /\ WF_vars(ResendComplete(n)) /\ WF_vars(TransferTimeout(n))
       /\ SF_vars(RecvComplete(n))
LiveSpec == Spec /\ Fairness

----------------------------------------------------------------------------
(* Properties *)

\* Every variable has its type.
TypeOK ==
  /\ table \in [User -> [User -> [TransferId -> Entry]]]
  /\ nextId \in [User -> Nat \ {0}]
  /\ lent \in SUBSET User
  /\ link \in [User -> [User -> 0..links]] /\ links \in 0..MaxLink
  /\ thread \in [File -> Thread]
  /\ jobs \in [User -> SUBSET Work]
  /\ net \subseteq Packet
  /\ gui \in [User -> [User -> Chat]]
  /\ restarts \in 0..MaxRestarts /\ calls \in 0..MaxCalls
  /\ accepted \subseteq File /\ whole \subseteq File

\* A sender thread is told that its file has arrived, and reports so, only when
\* the addressee has held every chunk of that very file: RecvComplete answers
\* with the final ACK, through reordered chunks, partial NACKs and id reuse.
AckMeansWhole ==
  \A x \in File :
     /\ AckCmd \in {thread[x].cmds[i] : i \in DOMAIN thread[x].cmds} => x \in whole
     /\ \A j \in jobs[From[x]] : j.type = "done" /\ j.file = x => x \in whole

\* The .part file of a transfer never mixes chunks of two files, although ids
\* start again at 1 when the sender restarts and the receiver's entry stays.
OneFilePerPart ==
  \A n, c \in User, t \in TransferId :
     Cardinality({table[n][c][t].got[i] : i \in Chunk} \ {NoFile}) <= 1

Shown(n, c) == {gui[n][c].cards[i] : i \in DOMAIN gui[n][c].cards}

\* A card says Completed, at either end, only when its file has arrived whole.
CompletedMeansWhole ==
  \A n, c \in User : \A k \in Shown(n, c) : k.st = "Completed" => k.file \in whole

\* Whatever the daemon still works on has an open card, from which the user can
\* answer or cancel it: an event that closes the card also ends the transfer.
EntryHasCard ==
  \A n, c \in User, t \in TransferId :
     table[n][c][t].st # "none" =>
        \E k \in Shown(n, c) : k.file = table[n][c][t].file /\ Open(k) /\ k.id \in {0, t}

\* A card is open only while the daemon has the transfer or still checks the
\* file: none stays at "Transferring" after a timeout, a call or a cancellation.
OpenCardHasTransfer ==
  \A n, c \in User : \A k \in Shown(n, c) :
     Open(k) => \/ \E t \in TransferId : table[n][c][t].file = k.file
                \/ \E j \in jobs[n] : j.type = "verify" /\ j.file = k.file

\* What chat.rs says of update_file_status: the oldest card without an id is
\* given the id of its own transfer.
CardNamesItsTransfer ==
  \A n, c \in User : \A k \in Shown(n, c) :
     k.mine /\ k.id # 0 => table[n][c][k.id].file \in {NoFile, k.file}

\* What daemon.rs says of next_transfer_id, "unique transfer IDs": an offer comes
\* in under an id that stands for no other transfer with this contact.
OfferIsNew ==
  [][\A n, c \in User, t \in TransferId :
       table'[n][c][t].st = "incoming" => table[n][c][t].st \in {"none", "incoming"}]_vars

\* Both ends are at it, in a session that both have.
Undisturbed(x) ==
  LET n == From[x]  c == To[x]  t == thread[x].id
  IN  /\ thread[x].st # "none" /\ thread[x].link = link[n][c] /\ thread[x].link = link[c][n]
      /\ table[n][c][t].st = "sending" /\ table[n][c][t].file = x
      /\ table[c][n][t].st = "receiving" /\ table[c][n][t].file = x

\* While nothing ends it, the rounds of chunks, FILE_COMPLETE and FILE_NACK
\* bring the whole file across, whichever of them get lost.
Arrived == \A x \in File : Undisturbed(x) ~> (x \in whole \/ ~Undisturbed(x))

\* What filetransfer/mod.rs says of STALE_TIMEOUT: a transfer that makes no
\* progress any more, the receiver having no part in it, is cancelled.
Stale(x) ==
  /\ table[From[x]][To[x]][thread[x].id].st = "sending"
  /\ table[To[x]][From[x]][thread[x].id].st = "none"
StaleTransferEnds == \A x \in File : Stale(x) ~> ~Stale(x)
=============================================================================
