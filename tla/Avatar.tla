------------------------------- MODULE Avatar -------------------------------
(***************************************************************************)
(* A user's avatar, or a group's, on its way to one other user, in chunks. *)
(* A contact's avatar is offered first and its chunks follow when the      *)
(* other end asks for them; a group's goes out at once, offer and chunks.  *)
(* Chunks carry their index and nothing that says of which avatar they     *)
(* are: the hash in the offer decides when as many chunks are there as the *)
(* offer announced.  Datagrams arrive late, in any order or never.         *)
(***************************************************************************)
EXTENDS Naturals, Sequences, FiniteSets

CONSTANTS
  Size,         \* the chunks of each avatar
  MaxChanges,   \* bound: times the avatar is set
  MaxRetries    \* AVATAR_MAX_RETRIES

\* Assumed of the constants, where they are given.
AvatarAssumption ==
  Size \in Seq(Nat \ {0}) /\ MaxChanges \in Nat /\ MaxRetries \in Nat

VARIABLES
  kind,     \* "contact" or "group": whose avatar it is
  send,     \* the entry of avatar_sends, or of group_avatar_sends
  recv,     \* the entry of avatar_recvs, or of group_avatar_recvs
  held,     \* the file the receiver has: its chunks in order
  net,
  changes,
  saved,    \* history: what the receiver has had on disk
  ended     \* history: the avatars whose sending an acknowledgement ended

vars == <<kind, send, recv, held, net, changes, saved, ended>>

Avatars == 1..Len(Size)
Chunk(v) == {<<v, i>> : i \in 1..Size[v]}
Whole(v) == [i \in 1..Size[v] |-> <<v, i>>]
\* An avatar stands for its hash as well; 0 is none.
NoSend == [of |-> 0, offered |-> FALSE, needs |-> FALSE, sent |-> FALSE, retries |-> 0]
NoRecv == [of |-> 0, chunks |-> {}]

Offer(v) == [type |-> "OFFER", of |-> v, at |-> 0]
Data(c) == [type |-> "DATA", of |-> c[1], at |-> c[2]]
Reply(type, v) == [type |-> type, of |-> v, at |-> 0]

Init ==
  /\ kind \in {"contact", "group"}
  /\ send = NoSend /\ recv = NoRecv /\ held = <<>>
  /\ net = {} /\ changes = 0 /\ saved = {} /\ ended = {}

----------------------------------------------------------------------------
(* The sender *)

\* BroadcastAvatar, SendGroupAvatar: a new entry replaces the one there.
Change(v) ==
  /\ changes < MaxChanges /\ changes' = changes + 1
  /\ send' = [NoSend EXCEPT !.of = v]
  /\ UNCHANGED <<kind, recv, held, net, saved, ended>>

\* One pass of the housekeeping, as far as there is something to send.
SendOffer ==
  /\ kind = "contact" /\ send.of # 0 /\ ~send.offered
  /\ send' = [send EXCEPT !.offered = TRUE]
  /\ net' = net \cup {Offer(send.of)}
  /\ UNCHANGED <<kind, recv, held, changes, saved, ended>>

SendChunks ==
  /\ send.of # 0 /\ ~send.sent
  /\ kind = "contact" => send.offered /\ send.needs
  /\ send' = [send EXCEPT !.sent = TRUE]
  /\ net' = net \cup {Data(c) : c \in Chunk(send.of)}
                \cup (IF kind = "group" THEN {Offer(send.of)} ELSE {})
  /\ UNCHANGED <<kind, recv, held, changes, saved, ended>>

\* Five seconds without an answer: from the offer on again, a few times.
Retry ==
  /\ send.of # 0 /\ (send.sent \/ (send.offered /\ ~send.needs))
  /\ send' = IF send.retries = MaxRetries THEN NoSend
             ELSE [NoSend EXCEPT !.of = send.of, !.retries = send.retries + 1]
  /\ UNCHANGED <<kind, recv, held, net, changes, saved, ended>>

\* Fault: the acknowledgement of another avatar ends the sending.
AckOfAny(m) == send.of # 0
AckOf(m) == send.of = m.of /\ send.of # 0

RecvAck == \E m \in net :
  /\ m.type = "ACK" /\ net' = net \ {m}
  /\ IF AckOf(m) THEN send' = NoSend /\ ended' = ended \cup {send.of}
     ELSE UNCHANGED <<send, ended>>
  /\ UNCHANGED <<kind, recv, held, changes, saved>>

RecvNack == \E m \in net :
  /\ m.type = "NACK" /\ net' = net \ {m}
  /\ send' = IF send.of = m.of THEN [send EXCEPT !.needs = TRUE] ELSE send
  /\ UNCHANGED <<kind, recv, held, changes, saved, ended>>

----------------------------------------------------------------------------
(* The receiver *)

\* An avatar that is held already is acknowledged; for another, a new
\* reception takes the place of one under way.
RecvOffer == \E m \in net :
  /\ m.type = "OFFER"
  /\ IF held = Whole(m.of)
     THEN net' = (net \ {m}) \cup {Reply("ACK", m.of)} /\ UNCHANGED recv
     ELSE /\ recv' = [of |-> m.of, chunks |-> {}]
          /\ net' = (net \ {m})
               \cup (IF kind = "contact" THEN {Reply("NACK", m.of)} ELSE {})
  /\ UNCHANGED <<kind, send, held, changes, saved, ended>>

\* The chunks with the new one in the place of one with the same index.
Stored(c) ==
  IF kind = "contact" /\ c[2] > Size[recv.of] THEN recv.chunks
  ELSE {d \in recv.chunks : d[2] # c[2]} \cup {c}

\* What the chunks add up to, and whether it is what was offered.
\* Fault: nobody checks.
Unchecked(chunks) == \A i \in 1..Size[recv.of] : \E d \in chunks : d[2] = i
Verified(chunks) == {d \in chunks : d[2] <= Size[recv.of]} = Chunk(recv.of)
Assembled(chunks) ==
  [i \in 1..Size[recv.of] |-> CHOOSE d \in chunks : d[2] = i]

RecvData == \E m \in net :
  LET chunks == Stored(<<m.of, m.at>>)
  IN  /\ m.type = "DATA" /\ recv.of # 0
      /\ \/ /\ Cardinality(chunks) < Size[recv.of]
            /\ recv' = [recv EXCEPT !.chunks = chunks] /\ net' = net \ {m}
            /\ UNCHANGED <<held, saved>>
         \/ /\ Cardinality(chunks) >= Size[recv.of] /\ recv' = NoRecv
            /\ IF Verified(chunks)
               THEN /\ held' = Assembled(chunks) /\ saved' = saved \cup {Assembled(chunks)}
                    /\ net' = (net \ {m}) \cup {Reply("ACK", recv.of)}
               ELSE net' = net \ {m} /\ UNCHANGED <<held, saved>>
      /\ UNCHANGED <<kind, send, changes, ended>>

\* Without a reception under way, chunks are dropped.
DropData == \E m \in net :
  /\ m.type = "DATA" /\ recv.of = 0 /\ net' = net \ {m}
  /\ UNCHANGED <<kind, send, recv, held, changes, saved, ended>>

\* AVATAR_RECV_TIMEOUT
Expire ==
  /\ recv.of # 0 /\ recv' = NoRecv
  /\ UNCHANGED <<kind, send, held, net, changes, saved, ended>>

Next ==
  \/ \E v \in Avatars : Change(v)
  \/ SendOffer \/ SendChunks \/ Retry \/ RecvAck \/ RecvNack
  \/ RecvOffer \/ RecvData \/ DropData \/ Expire

Spec == Init /\ [][Next]_vars

----------------------------------------------------------------------------
\* Types.
TypeOK ==
  /\ send \in [of : 0..Len(Size), offered : BOOLEAN, needs : BOOLEAN, sent : BOOLEAN,
               retries : 0..MaxRetries]
  /\ recv.of \in 0..Len(Size) /\ changes \in 0..MaxChanges

\* The file is one avatar from its first chunk to its last, never a mixture of
\* the chunks of two.
HeldIsWhole == held = <<>> \/ \E v \in Avatars : held = Whole(v)

\* When an acknowledgement ends a sending, the receiver has had that avatar.
AckMeansSaved == \A v \in ended : Whole(v) \in saved
=============================================================================
