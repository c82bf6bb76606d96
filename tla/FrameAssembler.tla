-------------------------- MODULE FrameAssembler ---------------------------
(***************************************************************************)
(* Video frames cut into packets and put together again.  A viewer has one *)
(* FrameAssembler, whoever shares: a group call's viewer feeds it with the *)
(* chunks of every sharer.  Chunks are lost, repeated and reordered at     *)
(* will; the bytes of a chunk are the frame and the place they come from.  *)
(***************************************************************************)
EXTENDS Naturals, FiniteSets

CONSTANTS
  Sharer,
  MaxFrames, \* bound: frames of each sharer
  MaxChunks, \* bound: chunks of a frame
  Ids,       \* frame ids before they wrap, 65536 in the code
  Room       \* pending frames at most, 3 in the code

\* Assumed of the constants, where they are given.
FrameAssemblerAssumption ==
  MaxFrames \in Nat /\ MaxChunks \in Nat \ {0} /\ Ids \in Nat \ {0} /\ Room \in Nat \ {0}

VARIABLES
  size,    \* size[s][f]: how many chunks the f-th frame of s was cut into, 0 for unsent
  pending, \* frames: pending[id], a partial function
  shown,   \* frames handed to the decoder, as the chunks they consist of
  streak   \* history: chunks of one frame received in a row

vars == <<size, pending, shown, streak>>

Frame == 1..MaxFrames
Id(f) == f % Ids

Chunk(s, f, i) == [sharer |-> s, frame |-> f, index |-> i]
Sent == {Chunk(s, f, i) : s \in Sharer, f \in Frame, i \in 1..MaxChunks}
Whole(s, f) == {Chunk(s, f, i) : i \in 1..size[s][f]}

Init ==
  /\ size = [s \in Sharer |-> [f \in Frame |-> 0]]
  /\ pending = <<>> /\ shown = {} /\ streak = {}

\* ScreenEncoder::fragment: ids count up and wrap, frames follow each other.
Share(s, f) ==
  /\ size[s][f] = 0 /\ \A g \in 1..f - 1 : size[s][g] # 0
  /\ \E n \in 1..MaxChunks : size' = [size EXCEPT ![s][f] = n]
  /\ UNCHANGED <<pending, shown, streak>>

----------------------------------------------------------------------------
\* How far id lies behind the id that has just arrived.
Behind(id, k) == (id + Ids - k) % Ids

\* The frame that makes way is the one nearest to the newcomer.
Victim(id) == CHOOSE k \in DOMAIN pending : \A j \in DOMAIN pending : Behind(id, k) <= Behind(id, j)

\* Fault: room is made for every chunk.
MakesRoomAlways(id) == Cardinality(DOMAIN pending) >= Room
MakesRoom(id) == id \notin DOMAIN pending /\ Cardinality(DOMAIN pending) >= Room
Kept(id) == IF MakesRoom(id) THEN DOMAIN pending \ {Victim(id)} ELSE DOMAIN pending

\* A pending frame has as many places as its first chunk says.
Empty(n) == [total |-> n, received |-> 0, chunks |-> {}]

\* Fault: chunks are counted as they come.
CountsAll(p, c) == TRUE
Fills(p, c) == c.index <= p.total /\ \A d \in p.chunks : d.index # c.index
Put(p, c) ==
  IF Fills(p, c) THEN [p EXCEPT !.received = @ + 1, !.chunks = @ \cup {c}] ELSE p

\* add_chunk
Receive(c) ==
  /\ c.index <= size[c.sharer][c.frame]
  /\ LET id == Id(c.frame)
         known == id \in Kept(id)
         p == Put(IF known THEN pending[id] ELSE Empty(size[c.sharer][c.frame]), c)
     IN  IF p.received = p.total
         THEN /\ shown' = shown \cup {p.chunks}
              /\ pending' = [k \in Kept(id) \ {id} |-> pending[k]]
         ELSE /\ pending' = [k \in Kept(id) \cup {id} |-> IF k = id THEN p ELSE pending[k]]
              /\ UNCHANGED shown
  /\ streak' = {c} \cup {d \in streak : d.sharer = c.sharer /\ d.frame = c.frame}
  /\ UNCHANGED size

Next ==
  \/ \E s \in Sharer, f \in Frame : Share(s, f)
  \/ \E c \in Sent : Receive(c)

Spec == Init /\ [][Next]_vars

----------------------------------------------------------------------------
(* Properties *)

\* What is decoded is one frame, all of it, and nothing of another: it holds
\* for one sharer whose frame ids have not wrapped yet.
ShownWhole == \A S \in shown : \E s \in Sharer, f \in Frame : S = Whole(s, f)

\* A frame whose chunks arrive together is shown, whatever remains of others
\* takes up the room.
TogetherShown ==
  \A s \in Sharer, f \in Frame : streak # {} /\ streak = Whole(s, f) => streak \in shown

\* "Keep only latest 3 frame_ids -- drop stale ones": no frame is dropped as
\* long as an older one is kept.
DropsStalest ==
  [][\A k \in DOMAIN pending \ DOMAIN pending' :
       pending[k].received + 1 < pending[k].total =>
         \A j \in DOMAIN pending' : j > k]_vars
=============================================================================
