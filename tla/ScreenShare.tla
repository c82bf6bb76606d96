---------------------------- MODULE ScreenShare ----------------------------
(***************************************************************************)
(* Sharing a screen or a webcam in a one-to-one call, in one direction:    *)
(* the buttons and popups of the sharer's window, the commands its call    *)
(* thread takes one by one, the capture loop, and the viewer's end, where  *)
(* the receiver thread and the window meet at the ScreenViewer.            *)
(*                                                                         *)
(* Both engines and both windows run on by themselves.  Packets of one     *)
(* direction arrive in order.  STOP and JOIN are sent three times over and *)
(* taken to arrive; of the offers and frames any may be lost, which is an  *)
(* offer or a frame that was not sent.                                     *)
(***************************************************************************)
EXTENDS Naturals, Sequences

CONSTANTS
  MaxShares, \* bound: shares started by the user
  MaxQueue   \* bound: commands or packets waiting at one place

\* Assumed of the constants, where they are given.
ScreenShareAssumption == MaxShares \in Nat /\ MaxQueue \in Nat

VARIABLES
  shown,   \* screen_sharing, webcam_sharing: what the sharer's buttons say
  popup,   \* popups open
  cmds,    \* commands to the sharer's call thread
  loop,    \* what the capture thread captures; screen_active says the same
  joined,  \* viewer_joined, at the sharer
  down,    \* packets to the viewer
  viewer,  \* the ScreenViewer
  texture, \* whether the viewer's window shows a frame
  viewing, \* viewing_screen
  asks,    \* commands to the viewer's call thread
  up,      \* packets to the sharer
  shares   \* shares started

vars == <<shown, popup, cmds, loop, joined, down, viewer, texture, viewing, asks, up, shares>>
sharer == <<shown, popup, cmds, loop, shares>>
window == <<texture, viewing, asks>>

Kind == {"screen", "webcam"}
Other(k) == IF k = "screen" THEN "webcam" ELSE "screen"

Init ==
  /\ shown = {} /\ popup = {} /\ cmds = <<>> /\ loop = "none" /\ joined = FALSE
  /\ down = <<>> /\ up = <<>> /\ asks = <<>>
  /\ viewer = [latest |-> FALSE, stopped |-> FALSE, offer |-> FALSE]
  /\ texture = FALSE /\ viewing = FALSE /\ shares = 0

----------------------------------------------------------------------------
(* The sharer's window *)

\* Fault: the other share is only taken off its button.
OffQuietly(k) == <<>>
\* What goes off a button is stopped.
Off(k) == IF k \in shown THEN <<"stop">> ELSE <<>>

\* The button of a share that is on ends it; the button of one that is off ends
\* the other and asks how to share.
Button(k) ==
  /\ Len(cmds) < MaxQueue
  /\ IF k \in shown
     THEN /\ shown' = shown \ {k} /\ cmds' = Append(cmds, "stop") /\ UNCHANGED popup
     ELSE /\ shown' = shown \ {Other(k)} /\ cmds' = cmds \o Off(Other(k))
          /\ popup' = popup \cup {k}
  /\ UNCHANGED <<loop, joined, down, viewer, window, up, shares>>

Confirm(k) ==
  /\ k \in popup /\ popup' = popup \ {k}
  /\ shares < MaxShares /\ shares' = shares + 1
  /\ shown' = shown \cup {k} /\ cmds' = Append(cmds, k)
  /\ UNCHANGED <<loop, joined, down, viewer, window, up>>

Close(k) ==
  /\ k \in popup /\ popup' = popup \ {k}
  /\ UNCHANGED <<shown, cmds, loop, joined, down, viewer, window, up, shares>>

----------------------------------------------------------------------------
(* The sharer's call thread *)

\* The display or camera may be missing: the loop ends before it has begun.
Starts(k) == loop' \in {k, "none"}

\* Fault: the peer is told first, and the thread joined after a last frame.
StopFirst == <<"STOP", "FRAME">>
\* stop_screen_share: the capture thread is joined, then the peer is told.
StopLast == <<"STOP">>

\* start_screen_share does nothing while a share is on; start_webcam_share stops
\* it first.
TakeCommand ==
  /\ cmds # <<>> /\ cmds' = Tail(cmds) /\ Len(down) < MaxQueue
  /\ LET c == Head(cmds)
     IN  \/ c = "stop" /\ loop' = "none" /\ down' = down \o StopLast
         \/ c = "screen" /\ loop # "none" /\ UNCHANGED <<loop, down>>
         \/ c \in Kind /\ loop = "none" /\ Starts(c) /\ UNCHANGED down
         \/ c = "webcam" /\ loop # "none" /\ Starts(c) /\ down' = down \o StopLast
  /\ UNCHANGED <<shown, popup, joined, viewer, window, up, shares>>

\* An offer every second until the viewer has joined, and frames from then on.
Capture ==
  /\ loop # "none" /\ Len(down) < MaxQueue
  /\ down' = Append(down, IF joined THEN "FRAME" ELSE "OFFER")
  /\ UNCHANGED <<sharer, joined, viewer, window, up>>

SharerReceives ==
  /\ up # <<>> /\ up' = Tail(up)
  /\ joined' = (Head(up) = "JOIN")
  /\ UNCHANGED <<sharer, down, viewer, window>>

----------------------------------------------------------------------------
(* The viewer's threads *)

\* receive_chunk clears stopped; the chunk may complete a frame or not.
ViewerReceives ==
  /\ down # <<>> /\ down' = Tail(down)
  /\ LET p == Head(down)
     IN  \/ p = "OFFER" /\ viewer' = [viewer EXCEPT !.offer = TRUE]
         \/ p = "STOP" /\ viewer' = [viewer EXCEPT !.stopped = TRUE, !.offer = FALSE]
         \/ /\ p = "FRAME"
            /\ \E whole \in BOOLEAN : viewer' = [viewer EXCEPT !.stopped = FALSE, !.latest = @ \/ whole]
  /\ UNCHANGED <<sharer, joined, window, up>>

\* Five seconds without another offer: none comes once the frames flow.
OfferExpires ==
  /\ viewer.offer /\ (joined \/ loop = "none") /\ \A i \in 1..Len(down) : down[i] # "OFFER"
  /\ viewer' = [viewer EXCEPT !.offer = FALSE]
  /\ UNCHANGED <<sharer, joined, down, window, up>>

ViewerTakesCommand ==
  /\ asks # <<>> /\ asks' = Tail(asks)
  /\ Len(up) < MaxQueue /\ up' = Append(up, Head(asks))
  /\ UNCHANGED <<sharer, joined, down, viewer, texture, viewing>>

----------------------------------------------------------------------------
(* The viewer's window *)

Stale == viewer.stopped /\ texture

\* A redraw takes the latest frame, or drops the picture of a share that was
\* stopped; with neither offer nor picture the window no longer views.
Redraw ==
  /\ viewer' = [viewer EXCEPT !.latest = FALSE]
  /\ texture' = (viewer.latest \/ (texture /\ ~Stale))
  /\ viewing' = (viewing /\ ~(~viewer.latest /\ Stale) /\ (viewer.offer \/ texture))
  /\ UNCHANGED <<sharer, joined, down, asks, up>>

\* Full screen: only new frames are looked at.
RedrawFullscreen ==
  /\ texture /\ viewer.latest
  /\ viewer' = [viewer EXCEPT !.latest = FALSE]
  /\ UNCHANGED <<sharer, joined, down, window, up>>

Join ==
  /\ viewer.offer /\ ~viewing /\ ~texture /\ Len(asks) < MaxQueue
  /\ viewing' = TRUE /\ asks' = Append(asks, "JOIN")
  /\ UNCHANGED <<sharer, joined, down, viewer, texture, up>>

\* Fault: only the picture goes.
StillViewing == viewing
EndedViewing == FALSE
End ==
  /\ texture /\ Len(asks) < MaxQueue
  /\ texture' = FALSE /\ viewing' = EndedViewing /\ asks' = Append(asks, "LEAVE")
  /\ UNCHANGED <<sharer, joined, down, viewer, up>>

----------------------------------------------------------------------------
Next ==
  \/ \E k \in Kind : Button(k) \/ Confirm(k) \/ Close(k)
  \/ TakeCommand \/ Capture \/ SharerReceives
  \/ ViewerReceives \/ OfferExpires \/ ViewerTakesCommand
  \/ Redraw \/ RedrawFullscreen \/ Join \/ End

Spec == Init /\ [][Next]_vars

----------------------------------------------------------------------------
(* Properties *)

\* Every variable has its type.
TypeOK ==
  /\ shown \subseteq Kind /\ popup \subseteq Kind
  /\ cmds \in Seq(Kind \cup {"stop"}) /\ loop \in Kind \cup {"none"}
  /\ joined \in BOOLEAN /\ texture \in BOOLEAN /\ viewing \in BOOLEAN
  /\ viewer \in [latest : BOOLEAN, stopped : BOOLEAN, offer : BOOLEAN]
  /\ down \in Seq({"OFFER", "FRAME", "STOP"})
  /\ asks \in Seq({"JOIN", "LEAVE"}) /\ up \in Seq({"JOIN", "LEAVE"})
  /\ shares \in 0..MaxShares

\* Nothing is captured behind the user's back: with both buttons off, a capture
\* that goes on has a stop waiting for it.
CaptureIsShown ==
  shown = {} /\ loop # "none" => \E i \in 1..Len(cmds) : cmds[i] = "stop"

\* A share that is over leaves no picture: once the viewer has received all of
\* it, what its window still shows goes with a redraw.
StoppedShareLeavesScreen ==
  loop = "none" /\ cmds = <<>> /\ down = <<>> /\ texture => viewer.stopped

\* A window that waits for a share it has joined is being served, or will be:
\* its last word to the sharer was JOIN.
ViewingWasAsked ==
  viewing => IF asks # <<>> THEN asks[Len(asks)] = "JOIN"
             ELSE IF up # <<>> THEN up[Len(up)] = "JOIN" ELSE joined
=============================================================================
