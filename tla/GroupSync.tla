------------------------------ MODULE GroupSync ------------------------------
(***************************************************************************)
(* The history of one text channel of a group, as each member has it on    *)
(* disk: messages written, received one by one while connected, or fetched *)
(* from a member on connecting to it, in chunks with an acknowledgement    *)
(* each.  A message is known by its author, its text and the second it was *)
(* recorded at, and every member records a live one at a second of its own.*)
(*                                                                         *)
(* A chunk has one message here.  The daemon's merge and the window's      *)
(* append both load the file, change it and save it in one step.           *)
(***************************************************************************)
EXTENDS Naturals, Sequences, FiniteSets, SequencesExt

CONSTANTS
  User,
  MaxMsgs,      \* bound: messages written
  MaxTime,      \* bound: the clock
  MaxAsks,      \* bound: times somebody connects
  MaxRepeats    \* the times a chunk is repeated, 3 in the code

\* Assumed of the constants, where they are given.
GroupSyncAssumption ==
  /\ MaxMsgs \in Nat /\ MaxTime \in Nat \ {0} /\ MaxAsks \in Nat /\ MaxRepeats \in Nat

VARIABLES
  hist,     \* the file of each member
  copy,     \* group_chat_history: what the window keeps of it
  out,      \* group_sync_out: what each member sends to each other
  net, now, written, asks,
  partial   \* history: a synchronisation ended as complete that was not

vars == <<hist, copy, out, net, now, written, asks, partial>>

NoSync == [chunks |-> <<>>, next |-> 0, retries |-> 0, acked |-> {}]
NoCopy == <<[msg |-> 0, at |-> 0]>>
Entry(m, t) == [msg |-> m, at |-> t]

Chat(v, m) == [type |-> "CHAT", src |-> v, dst |-> v, at |-> 0, of |-> 0, entry |-> Entry(m, 0)]
Request(u, v, t) ==
  [type |-> "REQUEST", src |-> u, dst |-> v, at |-> t, of |-> 0, entry |-> Entry(0, 0)]
Data(u, v, i, chunks) ==
  [type |-> "DATA", src |-> u, dst |-> v, at |-> i, of |-> Len(chunks), entry |-> chunks[i]]
Ack(u, v, i) ==
  [type |-> "ACK", src |-> u, dst |-> v, at |-> i, of |-> 0, entry |-> Entry(0, 0)]

Take(u, type) == {m \in net : m.dst = u /\ m.type = type}

Init ==
  /\ hist = [u \in User |-> <<>>] /\ copy = [u \in User |-> NoCopy]
  /\ out = [u \in User |-> [v \in User |-> NoSync]]
  /\ net = {} /\ now = 1 /\ written = 0 /\ asks = 0 /\ partial = FALSE

Tick ==
  /\ now < MaxTime /\ now' = now + 1
  /\ UNCHANGED <<hist, copy, out, net, written, asks, partial>>

\* add_message
Adds(u, m) == hist' = [hist EXCEPT ![u] = Append(@, Entry(m, now))]

\* A message typed in the window goes to each member who is connected.
Write(u) ==
  /\ written < MaxMsgs /\ written' = written + 1
  /\ Adds(u, written + 1)
  /\ net' = net \cup {Chat(v, written + 1) : v \in User \ {u}}
  /\ UNCHANGED <<copy, out, now, asks, partial>>

RecvChat(u) == \E m \in Take(u, "CHAT") :
  /\ Adds(u, m.entry.msg) /\ net' = net \ {m}
  /\ UNCHANGED <<copy, out, now, written, asks, partial>>

----------------------------------------------------------------------------
(* Synchronisation *)

SetMax(S) == CHOOSE x \in S : \A y \in S : y <= x
LatestTimestamp(h) == SetMax({0} \cup {h[i].at : i \in DOMAIN h})

\* Where the messages after t begin: a history is in the order of its times
\* (InOrder), so that the rest of it are the newer ones.
FirstAfter(h, t) ==
  CHOOSE i \in 1..(Len(h) + 1) :
    (\A j \in 1..(i - 1) : h[j].at <= t) /\ (i \in DOMAIN h => h[i].at > t)
MessagesAfter(h, t) == SubSeq(h, FirstAfter(h, t), Len(h))

\* On connecting: what is newer than the latest one here.
Ask(u, v) ==
  /\ u # v /\ asks < MaxAsks /\ asks' = asks + 1
  /\ net' = net \cup {Request(u, v, LatestTimestamp(hist[u]))}
  /\ UNCHANGED <<hist, copy, out, now, written, partial>>

\* The first chunk leaves at once; the entry is for the others.
RecvRequest(u) == \E m \in Take(u, "REQUEST") :
  LET chunks == MessagesAfter(hist[u], m.at)
  IN  /\ net' = (net \ {m})
           \cup (IF chunks = <<>> THEN {} ELSE {Data(u, m.src, 1, chunks)})
      /\ out' = IF Len(chunks) < 2 THEN out
                ELSE [out EXCEPT ![u][m.src] = [NoSync EXCEPT !.chunks = chunks, !.next = 2]]
      /\ UNCHANGED <<hist, copy, now, written, asks, partial>>

\* merge_messages: what is there already is left out, and the whole sorted.
\* Fault: it is put at the end.
MergeLast(h, e) == IF Contains(h, e) THEN h ELSE Append(h, e)
Merge(h, e) ==
  IF Contains(h, e) THEN h ELSE InsertAt(h, FirstAfter(h, e.at), e)

\* When the last chunk brought something and the channel is on the screen, the
\* window takes a copy of the file.
RecvData(u) == \E m \in Take(u, "DATA") :
  LET h == Merge(hist[u], m.entry)
  IN  /\ hist' = [hist EXCEPT ![u] = h]
      /\ net' = (net \ {m}) \cup {Ack(u, m.src, m.at)}
      /\ \/ UNCHANGED copy
         \/ m.at = m.of /\ h # hist[u] /\ copy' = [copy EXCEPT ![u] = h]
      /\ UNCHANGED <<out, now, written, asks, partial>>

\* The acknowledgement of any chunk leads to the one after it.
RecvAck(u) == \E m \in Take(u, "ACK") :
  LET s == out[u][m.src]
      acked == s.acked \cup {m.at}
  IN  /\ \/ /\ s = NoSync /\ net' = net \ {m} /\ UNCHANGED <<out, partial>>
         \/ /\ s # NoSync /\ m.at < Len(s.chunks)
            /\ out' = [out EXCEPT ![u][m.src] =
                         [s EXCEPT !.next = m.at + 1, !.retries = 0, !.acked = acked]]
            /\ net' = (net \ {m}) \cup {Data(u, m.src, m.at + 1, s.chunks)}
            /\ UNCHANGED partial
         \/ /\ s # NoSync /\ m.at >= Len(s.chunks)
            /\ out' = [out EXCEPT ![u][m.src] = NoSync]
            /\ partial' = (partial \/ acked # DOMAIN s.chunks)
            /\ net' = net \ {m}
      /\ UNCHANGED <<hist, copy, now, written, asks>>

\* Five seconds without an acknowledgement.
\* Fault: the repeats are not counted; one too many.
Uncounted(s) == s
Counted(s) == [s EXCEPT !.retries = @ + 1]

AgainAtLimit(s) == s # NoSync /\ s.retries <= MaxRepeats
Again(s) == s # NoSync /\ s.retries < MaxRepeats

Retry(u, v) ==
  /\ Again(out[u][v])
  /\ out' = [out EXCEPT ![u][v] = Counted(@)]
  /\ net' = net \cup {Data(u, v, out[u][v].next, out[u][v].chunks)}
  /\ UNCHANGED <<hist, copy, now, written, asks, partial>>

\* Thirty seconds since something was sent: no repeat is left, or the socket or
\* the peer was not there to send one.
Expire(u, v) ==
  /\ out[u][v] # NoSync
  /\ out' = [out EXCEPT ![u][v] = NoSync]
  /\ UNCHANGED <<hist, copy, net, now, written, asks, partial>>

\* The end of a group call: the window saves the copy it has.
CallEnds(u) ==
  /\ copy[u] # NoCopy
  /\ hist' = [hist EXCEPT ![u] = copy[u]] /\ copy' = [copy EXCEPT ![u] = NoCopy]
  /\ UNCHANGED <<out, net, now, written, asks, partial>>

Next ==
  \/ Tick
  \/ \E u \in User :
       \/ Write(u) \/ RecvChat(u) \/ RecvRequest(u) \/ RecvData(u) \/ RecvAck(u)
       \/ CallEnds(u)
       \/ \E v \in User : Ask(u, v) \/ Retry(u, v) \/ Expire(u, v)

\* The housekeeping runs all the time: it repeats the chunk, or lets the entry
\* expire when it could not.
Fairness == \A u, v \in User : WF_vars(Retry(u, v) \/ Expire(u, v))

Spec == Init /\ [][Next]_vars /\ Fairness

----------------------------------------------------------------------------
\* Types.
TypeOK ==
  /\ \A u \in User : \A e \in ToSet(hist[u]) : e.msg \in 1..MaxMsgs /\ e.at \in 1..MaxTime
  /\ \A u, v \in User :
       LET s == out[u][v]
       IN  s = NoSync \/ (s.next \in 2..Len(s.chunks) /\ s.retries \in 0..MaxRepeats)
  /\ now \in 1..MaxTime /\ written \in 0..MaxMsgs /\ asks \in 0..MaxAsks

\* A history stays in the order of its times, whatever is fetched late.
InOrder == \A u \in User : \A i \in 1..Len(hist[u]) - 1 : hist[u][i].at <= hist[u][i + 1].at

\* A synchronisation comes to an end, whatever is lost.
SyncEnds == \A u, v \in User : out[u][v] # NoSync ~> out[u][v] = NoSync

\* One that ends as complete had every chunk acknowledged ("All chunks acked,
\* done", packets.rs).
AllChunksAcked == ~partial

\* No message is twice in a history ("Deterministic content hash for
\* deduplication during sync", chat.rs).
NoMessageTwice ==
  \A u \in User : \A i, j \in DOMAIN hist[u] : hist[u][i].msg = hist[u][j].msg => i = j

\* What is in a history stays there ("Save chat history before clearing",
\* gui/mod.rs).
HistoryIsKept == [][\A u \in User : ToSet(hist[u]) \subseteq ToSet(hist'[u])]_vars
=============================================================================
