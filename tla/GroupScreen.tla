---------------------------- MODULE GroupScreen ----------------------------
(***************************************************************************)
(* Sharing a screen or a webcam in a group call.  One user shares, whose   *)
(* table of the others changes as they come and go; it leads the call, or  *)
(* the call is a mesh.  Unlike in a one-to-one call the thread that takes  *)
(* the commands waits for nobody: every start is a new capture thread, and *)
(* all of them share one flag.                                             *)
(*                                                                         *)
(* Packets to one viewer arrive in order; STOP is sent three times and     *)
(* taken to arrive.                                                        *)
(***************************************************************************)
EXTENDS Naturals, Sequences

CONSTANTS
  Viewer,
  MaxShares, \* bound: shares started
  MaxQueue   \* bound: commands, or packets to one viewer

\* Assumed of the constants, where they are given.
GroupScreenAssumption == MaxShares \in Nat /\ MaxQueue \in Nat

VARIABLES
  shown,     \* group_screen_sharing, group_webcam_sharing
  popup,     \* popups open
  cmds,      \* commands to the handler thread
  active,    \* screen_active
  loop,      \* loop[g]: what the g-th capture thread is doing
  targets,   \* targets[g]: the addresses copied when it was started
  shares,    \* capture threads started
  connected, \* viewers in the table
  link,      \* packets to each viewer
  view,      \* its ScreenViewer
  texture    \* viewers whose window shows a frame

vars == <<shown, popup, cmds, active, loop, targets, shares, connected, link, view, texture>>
gui == <<shown, popup>>
threads == <<active, loop, targets, shares>>
viewers == <<connected, link, view, texture>>

Kind == {"screen", "webcam"}
Other(k) == IF k = "screen" THEN "webcam" ELSE "screen"
Share == 1..MaxShares

Init ==
  /\ shown = {} /\ popup = {} /\ cmds = <<>> /\ active = FALSE
  /\ loop = [g \in Share |-> "none"] /\ targets = [g \in Share |-> {}] /\ shares = 0
  /\ connected \in SUBSET Viewer
  /\ link = [v \in Viewer |-> <<>>]
  /\ view = [v \in Viewer |-> [latest |-> FALSE, stopped |-> FALSE]] /\ texture = {}

----------------------------------------------------------------------------
(* The window *)

\* Fault: the other share is only taken off its button.
OffQuietly(k) == <<>>
Off(k) == IF k \in shown THEN <<"stop">> ELSE <<>>

Button(k) ==
  /\ Len(cmds) < MaxQueue
  /\ IF k \in shown
     THEN /\ shown' = shown \ {k} /\ cmds' = Append(cmds, "stop") /\ UNCHANGED popup
     ELSE /\ shown' = shown \ {Other(k)} /\ cmds' = cmds \o Off(Other(k))
          /\ popup' = popup \cup {k}
  /\ UNCHANGED <<threads, viewers>>

Confirm(k) ==
  /\ k \in popup /\ popup' = popup \ {k} /\ Len(cmds) < MaxQueue
  /\ shown' = shown \cup {k} /\ cmds' = Append(cmds, "start")
  /\ UNCHANGED <<threads, viewers>>

Close(k) ==
  /\ k \in popup /\ popup' = popup \ {k}
  /\ UNCHANGED <<shown, cmds, threads, viewers>>

----------------------------------------------------------------------------
(* The handler thread *)

TakeCommand ==
  /\ cmds # <<>> /\ cmds' = Tail(cmds)
  /\ \/ /\ Head(cmds) = "stop" /\ active' = FALSE
        /\ UNCHANGED <<loop, targets, shares>>
     \/ /\ Head(cmds) = "start" /\ shares < MaxShares
        /\ active' = TRUE /\ shares' = shares + 1
        /\ loop' = [loop EXCEPT ![shares + 1] = "opening"]
        /\ targets' = [targets EXCEPT ![shares + 1] = connected]
  /\ UNCHANGED <<gui, viewers>>

----------------------------------------------------------------------------
(* The capture threads *)

SendTo(D, p) == link' = [v \in Viewer |-> IF v \in D THEN Append(link[v], p) ELSE link[v]]
RoomFor(g) == \A v \in targets[g] : Len(link[v]) < MaxQueue

Step(g, phase) ==
  /\ loop' = [loop EXCEPT ![g] = phase]
  /\ UNCHANGED <<gui, cmds, targets, shares, connected, view, texture>>

\* Display or camera may be missing.
Open(g) ==
  /\ loop[g] = "opening" /\ RoomFor(g)
  /\ \/ Step(g, "on") /\ SendTo(targets[g], "OFFER") /\ UNCHANGED active
     \/ Step(g, "over") /\ active' = FALSE /\ UNCHANGED link

Frame(g) ==
  /\ loop[g] = "on" /\ active /\ RoomFor(g)
  /\ Step(g, "on") /\ SendTo(targets[g], "FRAME") /\ UNCHANGED active

\* Fault: the viewers are told only when the call goes on.
ClosingQuietly(g) == {}
Closing(g) == targets[g]

\* The first STOP, and the last: the flag is cleared once more after it.
Stop(g) ==
  /\ loop[g] = "on" /\ ~active /\ RoomFor(g)
  /\ Step(g, "stopping") /\ SendTo(Closing(g), "STOP") /\ UNCHANGED active
End(g) ==
  /\ loop[g] = "stopping"
  /\ Step(g, "over") /\ active' = FALSE /\ UNCHANGED link

----------------------------------------------------------------------------
(* The viewers *)

Connect(v) ==
  /\ v \notin connected /\ connected' = connected \cup {v}
  /\ UNCHANGED <<gui, cmds, threads, link, view, texture>>

Receive(v) ==
  /\ link[v] # <<>> /\ link' = [link EXCEPT ![v] = Tail(@)]
  /\ \/ Head(link[v]) = "OFFER" /\ UNCHANGED view
     \/ Head(link[v]) = "STOP" /\ view' = [view EXCEPT ![v].stopped = TRUE]
     \/ Head(link[v]) = "FRAME" /\ view' = [view EXCEPT ![v] = [latest |-> TRUE, stopped |-> FALSE]]
  /\ UNCHANGED <<gui, cmds, threads, connected, texture>>

Redraw(v) ==
  /\ view' = [view EXCEPT ![v].latest = FALSE]
  /\ texture' = IF view[v].latest THEN texture \cup {v}
                ELSE IF view[v].stopped THEN texture \ {v} ELSE texture
  /\ UNCHANGED <<gui, cmds, threads, connected, link>>

----------------------------------------------------------------------------
Next ==
  \/ \E k \in Kind : Button(k) \/ Confirm(k) \/ Close(k)
  \/ TakeCommand
  \/ \E g \in Share : Open(g) \/ Frame(g) \/ Stop(g) \/ End(g)
  \/ \E v \in Viewer : Connect(v) \/ Receive(v) \/ Redraw(v)

Spec == Init /\ [][Next]_vars

----------------------------------------------------------------------------
(* Properties *)

\* Every variable has its type.
TypeOK ==
  /\ shown \subseteq Kind /\ popup \subseteq Kind /\ cmds \in Seq({"start", "stop"})
  /\ active \in BOOLEAN /\ shares \in 0..MaxShares
  /\ loop \in [Share -> {"none", "opening", "on", "stopping", "over"}]
  /\ targets \in [Share -> SUBSET Viewer] /\ connected \subseteq Viewer
  /\ link \in [Viewer -> Seq({"OFFER", "FRAME", "STOP"})]
  /\ view \in [Viewer -> [latest : BOOLEAN, stopped : BOOLEAN]] /\ texture \subseteq Viewer

\* Nothing is captured behind the user's back, however many capture threads
\* there are: with both buttons off none of them goes on, or a stop waits.
CaptureIsShown ==
  shown = {} /\ active => \A g \in Share : loop[g] \in {"opening", "on"} =>
    \E i \in 1..Len(cmds) : cmds[i] = "stop"

\* Shares that are over leave no picture, whichever of two threads ended last.
StoppedShareLeavesScreen ==
  \A v \in texture :
    (\A g \in Share : loop[g] \in {"none", "over"}) /\ link[v] = <<>> => view[v].stopped

\* "to all members if we ARE the leader": everyone in the table is sent what is
\* captured.
EveryoneIsSent == \A g \in Share : loop[g] = "on" => connected \subseteq targets[g]

\* One thread captures at a time.
OneCapture == \A g, h \in Share : active /\ loop[g] = "on" /\ loop[h] = "on" => g = h
=============================================================================
