----------------------------- MODULE CallLease -----------------------------
(***************************************************************************)
(* One user's process around calls.  The messaging daemon owns the UDP     *)
(* port; a one-to-one call or a group call takes it over, and the daemon   *)
(* has to get it back.  Three kinds of threads meet at the port: the GUI,  *)
(* which sends the daemon commands through a queue and shares flags with   *)
(* the engine of each call; the daemon, which binds and drops the socket   *)
(* as it works through the queue; and the threads of every call so far.    *)
(*                                                                         *)
(* Time is left out but for one comparison the outcome depends on: the     *)
(* daemon tries for four seconds to bind.  Every thread of an engine that  *)
(* was told to stop is gone by then, except the housekeeping thread of a   *)
(* group-call leader, which looks up only every five seconds.              *)
(***************************************************************************)
EXTENDS Naturals, Sequences

CONSTANTS
  MaxCalls,    \* bound: calls started
  MaxAttempts  \* times a group call tries to bind (3 in the code)

\* Assumed of the constants, where they are given.
CallLeaseAssumption == MaxCalls \in Nat /\ MaxAttempts \in Nat \ {0}

VARIABLES
  screen,   \* of the GUI: where the one-to-one call is
  voice,    \* the call whose flags and result the GUI looks at, 0 for none
  group,    \* group_view, as far as a group call goes
  gcall,    \* the group call whose flags and result it looks at
  call,     \* call[g]: the g-th call started
  calls,    \* calls so far
  queue,    \* commands on their way to the daemon
  socket,   \* whether the daemon has its socket
  binding,  \* whether it is inside bind_socket
  unfetched \* history: a one-to-one call failed, or the daemon gave up binding

vars == <<screen, voice, group, gcall, call, calls, queue, socket, binding, unfetched>>

----------------------------------------------------------------------------
(* Data *)

CallId == 1..MaxCalls

\* running and connect_result are shared with the GUI; held says which of the
\* call's threads have the port.
CallState ==
  [kind : {"none", "voice", "group"},
   phase : {"none", "starting", "trying", "joining", "on", "over"},
   role : {"none", "member", "leader"},
   attempt : 0..MaxAttempts - 1,
   running : BOOLEAN,
   result : {"none", "ok", "error", "cancelled"},
   held : SUBSET {"engine", "housekeeping"}]
NoCall == [kind |-> "none", phase |-> "none", role |-> "none", attempt |-> 0,
           running |-> FALSE, result |-> "none", held |-> {}]
NewCall(kind) == [NoCall EXCEPT !.kind = kind, !.phase = "starting", !.running = TRUE]

PortFree == ~socket /\ \A g \in CallId : call[g].held = {}

Command(cs) == queue' = queue \o cs

Stopped(c) == [c EXCEPT !.running = FALSE]
Failed(c, why) == [c EXCEPT !.phase = "over", !.held = {}, !.result = why]

Init ==
  /\ screen = "Setup" /\ voice = 0
  /\ group = "Detail" /\ gcall = 0
  /\ call = [g \in CallId |-> NoCall] /\ calls = 0
  /\ queue = <<>> /\ socket = TRUE /\ binding = FALSE
  /\ unfetched = FALSE

GuiOnly == UNCHANGED <<socket, binding>>

----------------------------------------------------------------------------
(* The GUI: one-to-one calls *)

\* Fault: the new call goes on with the flags and the result of the old one.
StartCallReusing ==
  /\ screen = "Setup" /\ calls < MaxCalls
  /\ Command(<<"Yield">>)
  /\ LET old == IF voice = 0 THEN NewCall("voice")
                ELSE [NewCall("voice") EXCEPT !.result = call[voice].result]
     IN  call' = [call EXCEPT ![calls + 1] = old]
  /\ calls' = calls + 1 /\ voice' = calls + 1 /\ screen' = "Connecting"
  /\ GuiOnly /\ UNCHANGED <<group, gcall, unfetched>>

\* start_call: yield, detach the old thread, fresh flags.
StartCall ==
  /\ screen = "Setup" /\ calls < MaxCalls
  /\ Command(<<"Yield">>)
  /\ call' = [g \in CallId |-> CASE g = calls + 1 -> NewCall("voice")
                                 [] g = voice -> Stopped(call[g])
                                 [] OTHER -> call[g]]
  /\ calls' = calls + 1 /\ voice' = calls + 1 /\ screen' = "Connecting"
  /\ GuiOnly /\ UNCHANGED <<group, gcall, unfetched>>

\* cleanup_call: the result is thrown away, the daemon told to reclaim.
CleanupCall(c) ==
  /\ call' = [call EXCEPT ![voice] = [c EXCEPT !.result = "none"]]
  /\ screen' = "Setup"
  /\ Command(<<"Reclaim">>)
  /\ GuiOnly /\ UNCHANGED <<voice, group, gcall, calls, unfetched>>

Cancel == screen = "Connecting" /\ CleanupCall(Stopped(call[voice]))

HangUp == screen \in {"InCall", "KeyWarning"} /\ CleanupCall(Stopped(call[voice]))

OnRemoteHangup ==
  /\ screen \in {"InCall", "KeyWarning"} /\ ~call[voice].running
  /\ CleanupCall(call[voice])

Proceed ==
  /\ screen = "KeyWarning" /\ screen' = "InCall"
  /\ GuiOnly /\ UNCHANGED <<voice, group, gcall, call, calls, queue, unfetched>>

\* The result of the connecting thread is looked at in the next frame.
TakeResult ==
  /\ screen = "Connecting" /\ call[voice].result # "none"
  /\ LET r == call[voice].result
         c == [call[voice] EXCEPT !.result = "none"]
     IN  \/ /\ r = "ok" /\ screen' \in {"InCall", "KeyWarning"}
            /\ call' = [call EXCEPT ![voice] = c] /\ UNCHANGED unfetched
         \/ /\ r # "ok" /\ screen' = IF r = "cancelled" THEN "Setup" ELSE "Error"
            /\ call' = [call EXCEPT ![voice] = Stopped(c)] /\ unfetched' = TRUE
  /\ GuiOnly /\ UNCHANGED <<voice, group, gcall, calls, queue>>

Back ==
  /\ screen = "Error" /\ screen' = "Setup"
  /\ GuiOnly /\ UNCHANGED <<voice, group, gcall, call, calls, queue, unfetched>>

----------------------------------------------------------------------------
(* The GUI: group calls *)

\* What cleanup_group_call sends: the leave signal follows the reclaim.
\* Fault: the members are told, the daemon is not.
LeavingUnreclaimed == <<"Signal">>
Leaving == <<"Reclaim", "Signal">>

\* Fault: only what the window shows is cleared.
LeftRunning(cs, g) == IF g = 0 THEN cs ELSE [cs EXCEPT ![g].result = "none"]
Left(cs, g) == IF g = 0 THEN cs ELSE
  [cs EXCEPT ![g] = IF group = "InCall" THEN Stopped(cs[g]) ELSE [Stopped(cs[g]) EXCEPT !.result = "none"]]

CleanupGroupCall ==
  /\ call' = Left(call, gcall)
  /\ group' = "Detail" /\ Command(Leaving)
  /\ GuiOnly /\ UNCHANGED <<screen, voice, gcall, calls, unfetched>>

\* start_group_call: leave the channel one is in, signal, yield, fresh flags.
StartGroupCall ==
  /\ screen = "Setup" /\ calls < MaxCalls
  /\ Command((IF group = "Detail" THEN <<>> ELSE Leaving) \o <<"Signal", "Yield">>)
  /\ call' = [(IF group = "Detail" THEN call ELSE Left(call, gcall)) EXCEPT ![calls + 1] = NewCall("group")]
  /\ calls' = calls + 1 /\ gcall' = calls + 1 /\ group' = "Connecting"
  /\ GuiOnly /\ UNCHANGED <<screen, voice, unfetched>>

LeaveGroupCall == group # "Detail" /\ CleanupGroupCall

TakeGroupOk ==
  /\ group = "Connecting" /\ call[gcall].result = "ok"
  /\ group' = "InCall" /\ call' = [call EXCEPT ![gcall].result = "none"]
  /\ GuiOnly /\ UNCHANGED <<screen, voice, gcall, calls, queue, unfetched>>

TakeGroupError ==
  /\ group = "Connecting" /\ call[gcall].result \in {"error", "cancelled"}
  /\ CleanupGroupCall

\* The engine stopped by itself, as after an election that it won.
GroupCallEnded == group = "InCall" /\ ~call[gcall].running /\ CleanupGroupCall

----------------------------------------------------------------------------
(* The threads of a call *)

EngineOnly(g, c) ==
  /\ call' = [call EXCEPT ![g] = c]
  /\ UNCHANGED <<screen, voice, group, gcall, calls, queue, socket, binding, unfetched>>

\* start_engine binds once; nobody waits for the daemon to have let go.
VoiceBind(g) ==
  LET c == call[g]
  IN  /\ c.kind = "voice" /\ c.phase = "starting"
      /\ EngineOnly(g, IF PortFree THEN [c EXCEPT !.phase = "trying", !.held = {"engine"}]
                                   ELSE Failed(c, "error"))

\* Key exchange and identities: the peer answers, or rejects, or is silent.
VoiceConnected(g) ==
  LET c == call[g]
  IN  /\ c.kind = "voice" /\ c.phase = "trying"
      /\ EngineOnly(g, [c EXCEPT !.phase = "on", !.result = "ok"])
VoiceFailed(g) ==
  LET c == call[g]
  IN  /\ c.kind = "voice" /\ c.phase = "trying"
      /\ EngineOnly(g, Failed(c, IF c.running THEN "error" ELSE "cancelled"))

\* Whether the group call tries again.
\* Fault: once too often.
MoreOffByOne(c) == c.attempt < MaxAttempts
More(c) == c.attempt + 1 < MaxAttempts

\* Up to three attempts; the first thing each does is to look whether the user
\* has left, then it probes for a leader on a socket of its own.
GroupProbe(g) ==
  LET c == call[g]
  IN  /\ c.kind = "group" /\ c.phase = "starting"
      /\ EngineOnly(g, CASE ~c.running -> Failed(c, "cancelled")
                        [] c.running /\ PortFree -> [c EXCEPT !.phase = "trying", !.held = {"engine"}]
                        [] c.running /\ ~PortFree /\ More(c) -> [c EXCEPT !.attempt = @ + 1]
                        [] OTHER -> Failed(c, "error"))
GroupProbed(g) ==
  LET c == call[g]
  IN  /\ c.kind = "group" /\ c.phase = "trying"
      /\ \E r \in {"leader", "member"} :
           EngineOnly(g, [c EXCEPT !.phase = "joining", !.role = r, !.held = {}])
\* The probe's socket is closed before the engine binds its own.
GroupJoin(g) ==
  LET c == call[g]
  IN  /\ c.kind = "group" /\ c.phase = "joining"
      /\ EngineOnly(g,
           CASE PortFree -> [c EXCEPT !.phase = "on", !.result = "ok",
                             !.held = {"engine"} \cup IF c.role = "leader" THEN {"housekeeping"} ELSE {}]
             [] ~PortFree /\ More(c) ->
                  [c EXCEPT !.phase = "starting", !.role = "none", !.attempt = @ + 1]
             [] OTHER -> Failed(c, "error"))

\* HANGUP of the peer, or a failover that ends this end's part.
StoppedFromOutside(g) ==
  LET c == call[g]
  IN  /\ c.phase = "on" /\ c.running /\ c.role # "leader"
      /\ EngineOnly(g, Stopped(c))

\* Told to stop, the sender and the receiver let go of the port.
EngineStops(g) ==
  LET c == call[g]
  IN  /\ c.phase = "on" /\ ~c.running
      /\ EngineOnly(g, [c EXCEPT !.phase = "over", !.held = @ \ {"engine"}])
HousekeepingStops(g) ==
  LET c == call[g]
  IN  /\ c.phase = "over" /\ c.held # {}
      /\ EngineOnly(g, [c EXCEPT !.held = {}])

----------------------------------------------------------------------------
(* The daemon *)

DaemonOnly == UNCHANGED <<screen, voice, group, gcall, call, calls>>

Yield ==
  /\ ~binding /\ queue # <<>> /\ Head(queue) = "Yield"
  /\ queue' = Tail(queue) /\ socket' = FALSE
  /\ DaemonOnly /\ UNCHANGED <<binding, unfetched>>

Reclaim ==
  /\ ~binding /\ queue # <<>> /\ Head(queue) = "Reclaim"
  /\ queue' = Tail(queue) /\ binding' = TRUE
  /\ DaemonOnly /\ UNCHANGED <<socket, unfetched>>

\* SendCallSignal: to the peers the daemon has, if it has its socket.
Signal ==
  /\ ~binding /\ queue # <<>> /\ Head(queue) = "Signal"
  /\ queue' = Tail(queue)
  /\ DaemonOnly /\ UNCHANGED <<socket, binding, unfetched>>

Bind ==
  /\ binding /\ PortFree
  /\ socket' = TRUE /\ binding' = FALSE
  /\ DaemonOnly /\ UNCHANGED <<queue, unfetched>>

\* Twenty attempts in four seconds: they fail when the daemon has the port
\* already, when a call goes on, and when a leader's housekeeping oversleeps.
Lasting(g) ==
  \/ "housekeeping" \in call[g].held
  \/ "engine" \in call[g].held /\ call[g].running
GiveUp ==
  /\ binding /\ (socket \/ \E g \in CallId : Lasting(g))
  /\ binding' = FALSE
  /\ unfetched' = (unfetched \/ ~socket)
  /\ DaemonOnly /\ UNCHANGED <<queue, socket>>

----------------------------------------------------------------------------
Next ==
  \/ StartCall \/ Cancel \/ HangUp \/ OnRemoteHangup \/ Proceed \/ TakeResult \/ Back
  \/ StartGroupCall \/ LeaveGroupCall \/ TakeGroupOk \/ TakeGroupError \/ GroupCallEnded
  \/ \E g \in CallId :
       \/ VoiceBind(g) \/ VoiceConnected(g) \/ VoiceFailed(g)
       \/ GroupProbe(g) \/ GroupProbed(g) \/ GroupJoin(g)
       \/ StoppedFromOutside(g) \/ EngineStops(g) \/ HousekeepingStops(g)
  \/ Yield \/ Reclaim \/ Signal \/ Bind \/ GiveUp

Spec == Init /\ [][Next]_vars

----------------------------------------------------------------------------
(* Properties *)

\* Every variable has its type.
TypeOK ==
  /\ screen \in {"Setup", "Connecting", "KeyWarning", "InCall", "Error"}
  /\ group \in {"Detail", "Connecting", "InCall"}
  /\ voice \in 0..MaxCalls /\ gcall \in 0..MaxCalls /\ calls \in 0..MaxCalls
  /\ call \in [CallId -> CallState]
  /\ queue \in Seq({"Yield", "Reclaim", "Signal"})
  /\ socket \in BOOLEAN /\ binding \in BOOLEAN /\ unfetched \in BOOLEAN

AtRest ==
  /\ screen = "Setup" /\ group = "Detail" /\ queue = <<>> /\ ~binding

\* Once the user is back from a call and the daemon has worked through its
\* commands, it has its socket: it was lent for the call only.
SocketComesBack == AtRest => socket

\* So it is unless a one-to-one call failed or a reclaim was given up, through
\* switches between channels, calls at once, and cancellations at any point.
CleanCallReturnsSocket == AtRest /\ ~unfetched => socket

\* No engine runs on behind a window that has left its call: what is not the
\* call on screen has been told to stop.
NoCallBehindTheScenes ==
  \A g \in CallId : call[g].running =>
    \/ g = voice /\ screen \in {"Connecting", "KeyWarning", "InCall"}
    \/ g = gcall /\ group # "Detail"

\* A window that shows a call shows one that was set up: no result of an
\* earlier, cancelled attempt is taken for it.
ShownCallWasSetUp ==
  /\ screen \in {"KeyWarning", "InCall"} => call[voice].phase \in {"on", "over"}
  /\ group = "InCall" => call[gcall].phase \in {"on", "over"}
=============================================================================
