--------------------------- MODULE MCFileTransfer ---------------------------
(* Alice offers files to bob, and in the run crossed he offers one to her. *)
EXTENDS FileTransfer

CONSTANTS alice, bob, photo, song

MCFrom == [x \in File |-> alice]
MCTo == [x \in File |-> bob]
MCCrossedFrom == [x \in File |-> IF x = photo THEN alice ELSE bob]
MCCrossedTo == [x \in File |-> IF x = photo THEN bob ELSE alice]

\* Bounds of the run transfer: two datagrams under way.
Small == Cardinality(net) <= 2

\* Bounds of the run reused: song is offered by the process after the one that
\* offered photo, while bob still has that under way; no progress is shown.
Reuse ==
  /\ Offered(alice, song) => restarts = 1
  /\ restarts = 1 => Offered(alice, photo) /\ (table[bob][alice][1].st # "none" \/ song \in whole)
  /\ links = 2 => restarts = 1
  /\ Cardinality(net) <= 3
  /\ gui[bob][alice].progress = {}
  /\ \A j \in jobs[alice] : j.type # "progress"

\* The session stays, and no progress is shown.
Connected ==
  /\ links = 1 => link[alice][bob] = 1 /\ link[bob][alice] = 1
  /\ gui[bob][alice].progress = {}
  /\ \A j \in jobs[alice] : j.type # "progress"

\* Bounds of the run arrives: up to the end of the transfer or a disturbance,
\* after which Arrived claims nothing.
Calm ==
  /\ Connected
  /\ \A n, c \in User : \A k \in Shown(n, c) : Open(k)
  /\ whole = {}
=============================================================================
