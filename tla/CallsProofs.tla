---------------------------- MODULE CallsProofs -----------------------------
(***************************************************************************)
(* What holds of the parts of a call for every value of the constants.     *)
(* Those of CallLease are proved here, in its own names: its types, that   *)
(* no engine runs on behind a window that has left its call, that a call   *)
(* on screen was set up, and that the daemon gets its socket back.  What   *)
(* P2PCallProofs, VoiceCallProofs and GroupCallProofs prove is taken over  *)
(* to their instances in Calls.  Sharing a screen, in a one-to-one call    *)
(* and in a group, and the frames of a share are proved about here too.    *)
(***************************************************************************)
EXTENDS Calls, FiniteSetTheorems, TLAPS

\* The calls the window looks at were started, and they are different calls.
CallsInOrder ==
  /\ voice <= calls /\ gcall <= calls /\ (voice # 0 => voice # gcall)
  /\ screen \in {"Connecting", "KeyWarning", "InCall"} => voice # 0
  /\ group # "Detail" => gcall # 0

\* The engines report a call only when it is set up.
ResultsAreReal ==
  \A g \in CallId : call[g].result = "ok" => call[g].phase \in {"on", "over"}

\* What the threads and the window rely on about each other's calls.
ThreadInv ==
  TypeOK /\ CallsInOrder /\ ResultsAreReal /\ NoCallBehindTheScenes /\ ShownCallWasSetUp

\* What one step of a thread may do to its call.
MayBecome(c, d) ==
  /\ d \in CallState
  /\ d.running => c.running
  /\ c.phase \in {"on", "over"} => d.phase \in {"on", "over"}
  /\ d.result = "ok" => d.phase \in {"on", "over"}

EngineStep(g) ==
  \/ VoiceBind(g) \/ VoiceConnected(g) \/ VoiceFailed(g)
  \/ GroupProbe(g) \/ GroupProbed(g) \/ GroupJoin(g)
  \/ StoppedFromOutside(g) \/ EngineStops(g) \/ HousekeepingStops(g)
DaemonStep == Yield \/ Reclaim \/ Signal \/ Bind \/ GiveUp

----------------------------------------------------------------------------
\* A record with fields of the right types is a call.
LEMMA CallFields ==
  ASSUME NEW c \in CallState
  PROVE  /\ \A p \in {"starting", "trying", "joining", "on", "over"} :
              [c EXCEPT !.phase = p] \in CallState
         /\ \A h \in SUBSET {"engine", "housekeeping"} : [c EXCEPT !.held = h] \in CallState
         /\ \A a \in 0..MaxAttempts - 1 : [c EXCEPT !.attempt = a] \in CallState
         /\ \A p \in {"starting", "trying", "joining", "on", "over"},
               h \in SUBSET {"engine", "housekeeping"} :
              [c EXCEPT !.phase = p, !.held = h] \in CallState
         /\ \A p \in {"starting", "trying", "joining", "on", "over"},
               h \in SUBSET {"engine", "housekeeping"},
               r \in {"none", "ok", "error", "cancelled"} :
              [c EXCEPT !.phase = p, !.held = h, !.result = r] \in CallState
         /\ \A r \in {"none", "ok", "error", "cancelled"} : [c EXCEPT !.result = r] \in CallState
         /\ Stopped(c) \in CallState
BY DEF CallState, Stopped

\* A thread's step changes one call, and that one as MayBecome says.
LEMMA EngineStepChanges ==
  ASSUME CallLeaseAssumption, TypeOK, ResultsAreReal, NEW g \in CallId, EngineStep(g)
  PROVE  /\ \E d \in CallState : MayBecome(call[g], d) /\ call' = [call EXCEPT ![g] = d]
         /\ UNCHANGED <<screen, voice, group, gcall, calls, queue, socket, binding, unfetched>>
<1>t. /\ call[g] \in CallState /\ call \in [CallId -> CallState]
      /\ MaxAttempts \in Nat \ {0} /\ 0 \in 0..MaxAttempts - 1
  BY DEF TypeOK, CallLeaseAssumption
<1>r. call[g].result = "ok" => call[g].phase \in {"on", "over"}
  BY DEF ResultsAreReal
<1>a. More(call[g]) => call[g].attempt + 1 \in 0..MaxAttempts - 1
  BY <1>t DEF More, CallState
<1>d. ASSUME NEW d, EngineOnly(g, d), MayBecome(call[g], d)
      PROVE  /\ \E e \in CallState : MayBecome(call[g], e) /\ call' = [call EXCEPT ![g] = e]
             /\ UNCHANGED <<screen, voice, group, gcall, calls, queue, socket, binding, unfetched>>
  BY <1>d DEF EngineOnly, MayBecome
<1>f. ASSUME NEW why \in {"error", "cancelled"}
      PROVE  MayBecome(call[g], Failed(call[g], why))
  BY <1>t DEF MayBecome, Failed, CallState
<1>1. CASE VoiceBind(g)
  <2>1. MayBecome(call[g], [call[g] EXCEPT !.phase = "trying", !.held = {"engine"}])
    BY <1>1, <1>t, <1>r DEF MayBecome, CallState, VoiceBind
  <2> QED BY <1>1, <1>d, <1>f, <2>1 DEF VoiceBind
<1>2. CASE VoiceConnected(g)
  <2>1. MayBecome(call[g], [call[g] EXCEPT !.phase = "on", !.result = "ok"])
    BY <1>t DEF MayBecome, CallState
  <2> QED BY <1>2, <1>d, <2>1 DEF VoiceConnected
<1>3. CASE VoiceFailed(g)
  BY <1>3, <1>d, <1>f DEF VoiceFailed
<1>4. CASE GroupProbe(g)
  <2>1. MayBecome(call[g], [call[g] EXCEPT !.phase = "trying", !.held = {"engine"}])
    BY <1>4, <1>t, <1>r DEF MayBecome, CallState, GroupProbe
  <2>2. More(call[g]) => MayBecome(call[g], [call[g] EXCEPT !.attempt = @ + 1])
    BY <1>t, <1>r, <1>a DEF MayBecome, CallState
  <2> QED BY <1>4, <1>d, <1>f, <2>1, <2>2 DEF GroupProbe
<1>5. CASE GroupProbed(g)
  <2>1. ASSUME NEW r \in {"leader", "member"}
        PROVE  MayBecome(call[g], [call[g] EXCEPT !.phase = "joining", !.role = r, !.held = {}])
    BY <1>5, <1>t, <1>r DEF MayBecome, CallState, GroupProbed
  <2> QED BY <1>5, <1>d, <2>1 DEF GroupProbed
<1>6. CASE GroupJoin(g)
  <2>1. MayBecome(call[g], [call[g] EXCEPT !.phase = "on", !.result = "ok",
           !.held = {"engine"} \cup IF call[g].role = "leader" THEN {"housekeeping"} ELSE {}])
    BY <1>t DEF MayBecome, CallState
  <2>2. More(call[g]) =>
          MayBecome(call[g], [call[g] EXCEPT !.phase = "starting", !.role = "none", !.attempt = @ + 1])
    BY <1>6, <1>t, <1>r, <1>a DEF MayBecome, CallState, GroupJoin
  <2> QED BY <1>6, <1>d, <1>f, <2>1, <2>2 DEF GroupJoin
<1>7. CASE StoppedFromOutside(g)
  <2>1. MayBecome(call[g], Stopped(call[g]))
    BY <1>t, <1>r DEF MayBecome, CallState, Stopped
  <2> QED BY <1>7, <1>d, <2>1 DEF StoppedFromOutside
<1>8. CASE EngineStops(g)
  <2>1. MayBecome(call[g], [call[g] EXCEPT !.phase = "over", !.held = @ \ {"engine"}])
    BY <1>t DEF MayBecome, CallState
  <2> QED BY <1>8, <1>d, <2>1 DEF EngineStops
<1>9. CASE HousekeepingStops(g)
  <2>1. MayBecome(call[g], [call[g] EXCEPT !.held = {}])
    BY <1>t, <1>r DEF MayBecome, CallState
  <2> QED BY <1>9, <1>d, <2>1 DEF HousekeepingStops
<1> QED BY <1>1, <1>2, <1>3, <1>4, <1>5, <1>6, <1>7, <1>8, <1>9 DEF EngineStep

\* So a thread's step keeps what the window relies on.
LEMMA EngineKeeps ==
  ASSUME CallLeaseAssumption, ThreadInv, NEW g \in CallId, EngineStep(g)
  PROVE  ThreadInv'
<1>1. PICK d \in CallState : MayBecome(call[g], d) /\ call' = [call EXCEPT ![g] = d]
  BY EngineStepChanges DEF ThreadInv
<1>2. UNCHANGED <<screen, voice, group, gcall, calls, queue, socket, binding, unfetched>>
  BY EngineStepChanges DEF ThreadInv
<1>t. call \in [CallId -> CallState] /\ MaxCalls \in Nat
  BY DEF ThreadInv, TypeOK, CallLeaseAssumption
<1>3. TypeOK'
  BY <1>1, <1>2, <1>t DEF ThreadInv, TypeOK
<1>4. CallsInOrder'
  BY <1>2 DEF ThreadInv, CallsInOrder
<1>5. ResultsAreReal'
  BY <1>1, <1>t DEF ThreadInv, ResultsAreReal, MayBecome
<1>6. NoCallBehindTheScenes'
  BY <1>1, <1>2, <1>t DEF ThreadInv, NoCallBehindTheScenes, MayBecome
<1>7. ShownCallWasSetUp'
  <2>1. /\ screen \in {"KeyWarning", "InCall"} => voice \in CallId
        /\ group = "InCall" => gcall \in CallId
    BY <1>t DEF ThreadInv, TypeOK, CallsInOrder, CallId
  <2> QED BY <1>1, <1>2, <1>t, <2>1 DEF ThreadInv, ShownCallWasSetUp, MayBecome
<1> QED BY <1>3, <1>4, <1>5, <1>6, <1>7 DEF ThreadInv

\* The daemon touches no call.
LEMMA DaemonKeeps ==
  ASSUME ThreadInv, DaemonStep
  PROVE  ThreadInv'
<1>1. UNCHANGED <<screen, voice, group, gcall, call, calls>>
  BY DEF DaemonStep, Yield, Reclaim, Signal, Bind, GiveUp, DaemonOnly
<1>2. queue' \in Seq({"Yield", "Reclaim", "Signal"})
  <2>1. queue # <<>> => Tail(queue) \in Seq({"Yield", "Reclaim", "Signal"})
    BY DEF ThreadInv, TypeOK
  <2> QED BY <2>1 DEF ThreadInv, TypeOK, DaemonStep, Yield, Reclaim, Signal, Bind, GiveUp
<1>3. socket' \in BOOLEAN /\ binding' \in BOOLEAN /\ unfetched' \in BOOLEAN
  BY DEF ThreadInv, TypeOK, DaemonStep, Yield, Reclaim, Signal, Bind, GiveUp
<1>4. TypeOK'
  BY <1>1, <1>2, <1>3 DEF ThreadInv, TypeOK
<1> QED BY <1>1, <1>4 DEF ThreadInv, CallsInOrder, ResultsAreReal, NoCallBehindTheScenes,
                          ShownCallWasSetUp

----------------------------------------------------------------------------
\* The fields of a call that was just started.
LEMMA NewCallIsFresh ==
  ASSUME CallLeaseAssumption, NEW kind \in {"voice", "group"}
  PROVE  /\ NewCall(kind) \in CallState
         /\ NewCall(kind).result = "none"
         /\ NewCall(kind).held = {}
<1>1. 0 \in 0..MaxAttempts - 1
  BY DEF CallLeaseAssumption
<1> QED BY <1>1 DEF NewCall, NoCall, CallState

\* Starting a call stops the one before it, whatever that one was doing.
LEMMA StartCallKeeps ==
  ASSUME CallLeaseAssumption, ThreadInv, StartCall
  PROVE  ThreadInv'
<1>t. /\ call \in [CallId -> CallState] /\ MaxCalls \in Nat
      /\ calls + 1 \in CallId /\ calls \in Nat /\ voice \in Nat /\ gcall \in Nat
  BY DEF ThreadInv, TypeOK, CallLeaseAssumption, StartCall, CallId
<1>n. NewCall("voice") \in CallState /\ NewCall("voice").result = "none"
  BY NewCallIsFresh
<1>s. \A g \in CallId : /\ Stopped(call[g]) \in CallState
                        /\ ~Stopped(call[g]).running
                        /\ Stopped(call[g]).phase = call[g].phase
                        /\ Stopped(call[g]).result = call[g].result
  BY ZenonT(40), <1>t DEF Stopped, CallState
<1>1. \A g \in CallId : call'[g] = IF g = calls + 1 THEN NewCall("voice")
                                   ELSE IF g = voice THEN Stopped(call[g]) ELSE call[g]
  <2>1. voice # calls + 1
    BY <1>t DEF ThreadInv, CallsInOrder
  <2> SUFFICES ASSUME NEW g \in CallId
               PROVE  call'[g] = IF g = calls + 1 THEN NewCall("voice")
                                 ELSE IF g = voice THEN Stopped(call[g]) ELSE call[g]
    OBVIOUS
  <2>2. CASE g = calls + 1
    BY <2>1, <2>2 DEF StartCall
  <2>3. CASE g = voice
    BY <2>1, <2>3 DEF StartCall
  <2>4. CASE g # calls + 1 /\ g # voice
    BY <2>4 DEF StartCall
  <2> QED BY <2>2, <2>3, <2>4
<1>2. call' \in [CallId -> CallState]
  BY <1>t, <1>n, <1>s DEF StartCall
<1>3. /\ calls' = calls + 1 /\ voice' = calls + 1 /\ screen' = "Connecting"
      /\ UNCHANGED <<socket, binding, group, gcall, unfetched>>
  BY DEF StartCall, GuiOnly
<1>4. queue' \in Seq({"Yield", "Reclaim", "Signal"})
  BY DEF StartCall, Command, ThreadInv, TypeOK
<1>5. TypeOK'
  BY <1>2, <1>3, <1>4, <1>t DEF ThreadInv, TypeOK, CallId
<1>6. CallsInOrder'
  BY <1>3, <1>t DEF ThreadInv, CallsInOrder
<1>7. ResultsAreReal'
  BY <1>1, <1>n, <1>s DEF ThreadInv, ResultsAreReal
<1>8. NoCallBehindTheScenes'
  BY <1>1, <1>3, <1>s DEF ThreadInv, NoCallBehindTheScenes
<1>9. ShownCallWasSetUp'
  <2>1. group = "InCall" => gcall \in CallId /\ gcall # calls + 1
    BY <1>t DEF ThreadInv, TypeOK, CallsInOrder, CallId
  <2> QED BY <1>1, <1>3, <1>s, <2>1 DEF ThreadInv, ShownCallWasSetUp
<1> QED BY <1>5, <1>6, <1>7, <1>8, <1>9 DEF ThreadInv

\* Leaving a one-to-one call, with its engine told to stop or stopped already.
LEMMA CleanupCallKeeps ==
  ASSUME CallLeaseAssumption, ThreadInv, Cancel \/ HangUp \/ OnRemoteHangup
  PROVE  ThreadInv'
<1>t. call \in [CallId -> CallState] /\ MaxCalls \in Nat /\ voice \in CallId /\ voice # gcall
  BY DEF ThreadInv, TypeOK, CallsInOrder, CallLeaseAssumption, Cancel, HangUp, OnRemoteHangup, CallId
<1>1. PICK c \in CallState : CleanupCall(c) /\ ~c.running /\ c.phase = call[voice].phase
  <2>1. Stopped(call[voice]) \in CallState /\ ~Stopped(call[voice]).running
        /\ Stopped(call[voice]).phase = call[voice].phase
    BY ZenonT(40), <1>t DEF Stopped, CallState
  <2> QED BY <1>t, <2>1 DEF Cancel, HangUp, OnRemoteHangup
<1> DEFINE d == [c EXCEPT !.result = "none"]
<1>2. d \in CallState /\ ~d.running /\ d.result = "none" /\ d.phase = c.phase
  BY <1>1 DEF CallState
<1> HIDE DEF d
<1>3. call' = [call EXCEPT ![voice] = d]
  BY <1>1 DEF CleanupCall, d
<1>4. screen' = "Setup" /\ UNCHANGED <<socket, binding, voice, group, gcall, calls, unfetched>>
  BY <1>1 DEF CleanupCall, GuiOnly
<1>5. queue' \in Seq({"Yield", "Reclaim", "Signal"})
  BY <1>1 DEF CleanupCall, Command, ThreadInv, TypeOK
<1>6. TypeOK'
  BY <1>2, <1>3, <1>4, <1>5, <1>t DEF ThreadInv, TypeOK
<1>7. CallsInOrder'
  BY <1>4 DEF ThreadInv, CallsInOrder
<1>8. ResultsAreReal'
  BY <1>2, <1>3, <1>t DEF ThreadInv, ResultsAreReal
<1>9. NoCallBehindTheScenes'
  BY <1>2, <1>3, <1>4, <1>t DEF ThreadInv, NoCallBehindTheScenes
<1>10. ShownCallWasSetUp'
  BY <1>3, <1>4, <1>t DEF ThreadInv, TypeOK, CallsInOrder, ShownCallWasSetUp
<1> QED BY <1>6, <1>7, <1>8, <1>9, <1>10 DEF ThreadInv

\* A result is taken once; a call that failed is told to stop.
LEMMA TakeResultKeeps ==
  ASSUME CallLeaseAssumption, ThreadInv, TakeResult
  PROVE  ThreadInv'
<1>t. call \in [CallId -> CallState] /\ MaxCalls \in Nat /\ voice \in CallId /\ voice # gcall
  BY DEF ThreadInv, TypeOK, CallsInOrder, CallLeaseAssumption, TakeResult, CallId
<1> DEFINE c == [call[voice] EXCEPT !.result = "none"]
<1>1. PICK d \in {c, Stopped(c)} :
        /\ call' = [call EXCEPT ![voice] = d]
        /\ \/ screen' \in {"InCall", "KeyWarning"} /\ call[voice].result = "ok" /\ d = c
           \/ screen' \in {"Setup", "Error"} /\ d = Stopped(c)
        /\ unfetched' \in BOOLEAN
  BY DEF TakeResult, ThreadInv, TypeOK
<1>2. /\ d \in CallState /\ d.result = "none" /\ d.phase = call[voice].phase
      /\ d.running => call[voice].running
      /\ d = Stopped(c) => ~d.running
  <2>1. /\ c \in CallState /\ c.result = "none" /\ c.phase = call[voice].phase
        /\ c.running = call[voice].running
    BY <1>t DEF CallState
  <2> HIDE DEF c
  <2>2. /\ Stopped(c) \in CallState /\ Stopped(c).result = "none"
        /\ Stopped(c).phase = call[voice].phase /\ ~Stopped(c).running
    BY <2>1 DEF Stopped, CallState
  <2> QED BY <1>1, <2>1, <2>2
<1> HIDE DEF c
<1>3. UNCHANGED <<socket, binding, voice, group, gcall, calls, queue>>
  BY DEF TakeResult, GuiOnly
<1>4. TypeOK'
  BY <1>1, <1>2, <1>3, <1>t DEF ThreadInv, TypeOK
<1>5. CallsInOrder'
  BY <1>1, <1>3, <1>t DEF ThreadInv, CallsInOrder, CallId
<1>6. ResultsAreReal'
  BY <1>1, <1>2, <1>t DEF ThreadInv, ResultsAreReal
<1>7. NoCallBehindTheScenes'
  BY <1>1, <1>2, <1>3, <1>t DEF ThreadInv, NoCallBehindTheScenes
<1>8. ShownCallWasSetUp'
  <2>1. call[voice].result = "ok" => call[voice].phase \in {"on", "over"}
    BY <1>t DEF ThreadInv, ResultsAreReal
  <2> QED BY <1>1, <1>2, <1>3, <1>t, <2>1 DEF ThreadInv, TypeOK, CallsInOrder, ShownCallWasSetUp
<1> QED BY <1>4, <1>5, <1>6, <1>7, <1>8 DEF ThreadInv

----------------------------------------------------------------------------
\* Leaving a group call stops it and forgets at most its result.
LEMMA LeftStops ==
  ASSUME CallLeaseAssumption, ThreadInv
  PROVE  /\ Left(call, gcall) \in [CallId -> CallState]
         /\ \A g \in CallId :
              /\ Left(call, gcall)[g].running => g # gcall /\ call[g].running
              /\ Left(call, gcall)[g].phase = call[g].phase
              /\ Left(call, gcall)[g].result \in {"none", call[g].result}
<1>t. call \in [CallId -> CallState] /\ MaxCalls \in Nat /\ (gcall # 0 => gcall \in CallId)
  BY DEF ThreadInv, TypeOK, CallLeaseAssumption, CallId
<1>1. CASE gcall = 0
  BY <1>1, <1>t DEF Left, CallId
<1>2. CASE gcall # 0
  <2> DEFINE d == IF group = "InCall" THEN Stopped(call[gcall])
                  ELSE [Stopped(call[gcall]) EXCEPT !.result = "none"]
  <2>1. /\ d \in CallState /\ ~d.running /\ d.phase = call[gcall].phase
        /\ d.result \in {"none", call[gcall].result}
    BY ZenonT(40), <1>t, <1>2 DEF Stopped, CallState
  <2>2. Left(call, gcall) = [call EXCEPT ![gcall] = d]
    BY <1>2 DEF Left
  <2> HIDE DEF d
  <2> QED BY <1>t, <1>2, <2>1, <2>2
<1> QED BY <1>1, <1>2

\* So does every way out of a group call.
LEMMA CleanupGroupCallKeeps ==
  ASSUME CallLeaseAssumption, ThreadInv, CleanupGroupCall
  PROVE  ThreadInv'
<1>t. /\ call \in [CallId -> CallState] /\ MaxCalls \in Nat
      /\ screen \in {"KeyWarning", "InCall"} => voice \in CallId
  BY DEF ThreadInv, TypeOK, CallsInOrder, CallLeaseAssumption, CallId
<1>1. /\ call' = Left(call, gcall) /\ group' = "Detail"
      /\ UNCHANGED <<socket, binding, screen, voice, gcall, calls, unfetched>>
  BY DEF CleanupGroupCall, GuiOnly
<1>2. queue' \in Seq({"Yield", "Reclaim", "Signal"})
  BY DEF CleanupGroupCall, Command, Leaving, ThreadInv, TypeOK
<1>3. TypeOK'
  BY <1>1, <1>2, LeftStops DEF ThreadInv, TypeOK
<1>4. CallsInOrder'
  BY <1>1 DEF ThreadInv, CallsInOrder
<1>5. ResultsAreReal'
  BY <1>1, LeftStops DEF ThreadInv, ResultsAreReal
<1>6. NoCallBehindTheScenes'
  BY <1>1, LeftStops DEF ThreadInv, NoCallBehindTheScenes
<1>7. ShownCallWasSetUp'
  BY <1>1, <1>t, LeftStops DEF ThreadInv, ShownCallWasSetUp
<1> QED BY <1>3, <1>4, <1>5, <1>6, <1>7 DEF ThreadInv

\* Starting a group call leaves the one the user is in.
LEMMA StartGroupCallKeeps ==
  ASSUME CallLeaseAssumption, ThreadInv, StartGroupCall
  PROVE  ThreadInv'
<1> DEFINE cs == IF group = "Detail" THEN call ELSE Left(call, gcall)
<1>t. /\ call \in [CallId -> CallState] /\ MaxCalls \in Nat
      /\ calls + 1 \in CallId /\ calls \in Nat /\ voice \in Nat /\ gcall \in Nat
  BY DEF ThreadInv, TypeOK, CallLeaseAssumption, StartGroupCall, CallId
<1>n. NewCall("group") \in CallState /\ NewCall("group").result = "none"
  BY NewCallIsFresh
<1>1. /\ cs \in [CallId -> CallState]
      /\ \A g \in CallId : /\ ~cs[g].running
                           /\ cs[g].result = "ok" => cs[g].phase \in {"on", "over"}
  BY <1>t, LeftStops DEF ThreadInv, ResultsAreReal, NoCallBehindTheScenes, StartGroupCall
<1>2. call' = [cs EXCEPT ![calls + 1] = NewCall("group")]
  BY DEF StartGroupCall
<1> HIDE DEF cs
<1>3. /\ calls' = calls + 1 /\ gcall' = calls + 1 /\ group' = "Connecting" /\ screen = "Setup"
      /\ UNCHANGED <<socket, binding, screen, voice, unfetched>>
  BY DEF StartGroupCall, GuiOnly
<1>4. queue' \in Seq({"Yield", "Reclaim", "Signal"})
  <2>1. queue \in Seq({"Yield", "Reclaim", "Signal"})
    BY DEF ThreadInv, TypeOK
  <2>2. PICK cs0 \in Seq({"Yield", "Reclaim", "Signal"}) :
          queue' = queue \o (cs0 \o <<"Signal", "Yield">>)
    <3>1. Leaving \in Seq({"Yield", "Reclaim", "Signal"}) /\ <<>> \in Seq({"Yield", "Reclaim", "Signal"})
      BY DEF Leaving
    <3> QED BY <3>1 DEF StartGroupCall, Command
  <2> QED BY <2>1, <2>2
<1>5. TypeOK'
  BY <1>1, <1>2, <1>3, <1>4, <1>n, <1>t DEF ThreadInv, TypeOK, CallId
<1>6. CallsInOrder'
  BY <1>3, <1>t DEF ThreadInv, CallsInOrder
<1>7. ResultsAreReal'
  BY <1>1, <1>2, <1>n, <1>t DEF ResultsAreReal
<1>8. NoCallBehindTheScenes'
  BY <1>1, <1>2, <1>3, <1>t DEF NoCallBehindTheScenes
<1>9. ShownCallWasSetUp'
  BY <1>3 DEF ShownCallWasSetUp
<1> QED BY <1>5, <1>6, <1>7, <1>8, <1>9 DEF ThreadInv

\* The window of a group call opens on the engine's report.
LEMMA TakeGroupOkKeeps ==
  ASSUME CallLeaseAssumption, ThreadInv, TakeGroupOk
  PROVE  ThreadInv'
<1>t. call \in [CallId -> CallState] /\ MaxCalls \in Nat /\ gcall \in CallId
  BY DEF ThreadInv, TypeOK, CallsInOrder, CallLeaseAssumption, TakeGroupOk, CallId
<1> DEFINE d == [call[gcall] EXCEPT !.result = "none"]
<1>1. /\ d \in CallState /\ d.result = "none" /\ d.phase = call[gcall].phase
      /\ d.running = call[gcall].running
  BY <1>t DEF CallState
<1>2. call' = [call EXCEPT ![gcall] = d]
  BY <1>t DEF TakeGroupOk, CallState
<1> HIDE DEF d
<1>3. /\ group = "Connecting" /\ group' = "InCall"
      /\ UNCHANGED <<socket, binding, screen, voice, gcall, calls, queue, unfetched>>
  BY DEF TakeGroupOk, GuiOnly
<1>4. TypeOK'
  BY <1>1, <1>2, <1>3, <1>t DEF ThreadInv, TypeOK
<1>5. CallsInOrder'
  BY <1>3, <1>t DEF ThreadInv, CallsInOrder, CallId
<1>6. ResultsAreReal'
  BY <1>1, <1>2, <1>t DEF ThreadInv, ResultsAreReal
<1>7. NoCallBehindTheScenes'
  BY <1>1, <1>2, <1>3, <1>t DEF ThreadInv, NoCallBehindTheScenes
<1>8. ShownCallWasSetUp'
  <2>1. call[gcall].phase \in {"on", "over"}
    BY <1>t DEF ThreadInv, ResultsAreReal, TakeGroupOk
  <2>2. \A g \in CallId : call'[g].phase = call[g].phase
    BY <1>1, <1>2, <1>t
  <2>3. screen \in {"KeyWarning", "InCall"} => voice \in CallId
    BY <1>t DEF ThreadInv, TypeOK, CallsInOrder, CallId
  <2> QED BY <1>3, <1>t, <2>1, <2>2, <2>3 DEF ThreadInv, ShownCallWasSetUp
<1> QED BY <1>4, <1>5, <1>6, <1>7, <1>8 DEF ThreadInv

----------------------------------------------------------------------------
\* The initial state, and every step.
LEMMA ThreadInit ==
  ASSUME CallLeaseAssumption, Init
  PROVE  ThreadInv
<1>1. 0 \in 0..MaxAttempts - 1 /\ 0 \in 0..MaxCalls
  BY DEF CallLeaseAssumption
<1>2. NoCall \in CallState /\ ~NoCall.running /\ NoCall.result = "none"
  BY <1>1 DEF NoCall, CallState
<1>3. TypeOK
  <2>1. call \in [CallId -> CallState]
    BY <1>2 DEF Init
  <2>2. queue \in Seq({"Yield", "Reclaim", "Signal"})
    BY DEF Init
  <2> QED BY <1>1, <2>1, <2>2 DEF Init, TypeOK
<1> QED BY <1>2, <1>3 DEF Init, ThreadInv, CallsInOrder, ResultsAreReal, NoCallBehindTheScenes,
                          ShownCallWasSetUp

\* Every step.
LEMMA ThreadStep ==
  ASSUME CallLeaseAssumption, ThreadInv, [Next]_vars
  PROVE  ThreadInv'
<1>1. CASE StartCall
  BY <1>1, StartCallKeeps
<1>2. CASE Cancel \/ HangUp \/ OnRemoteHangup
  BY <1>2, CleanupCallKeeps
<1>3. CASE Proceed \/ Back
  BY <1>3 DEF Proceed, Back, GuiOnly, ThreadInv, TypeOK, CallsInOrder, ResultsAreReal,
              NoCallBehindTheScenes, ShownCallWasSetUp
<1>4. CASE TakeResult
  BY <1>4, TakeResultKeeps
<1>5. CASE StartGroupCall
  BY <1>5, StartGroupCallKeeps
<1>6. CASE LeaveGroupCall \/ TakeGroupError \/ GroupCallEnded
  BY <1>6, CleanupGroupCallKeeps DEF LeaveGroupCall, TakeGroupError, GroupCallEnded
<1>7. CASE TakeGroupOk
  BY <1>7, TakeGroupOkKeeps
<1>8. CASE \E g \in CallId : EngineStep(g)
  BY <1>8, EngineKeeps
<1>9. CASE DaemonStep
  BY <1>9, DaemonKeeps
<1>10. CASE UNCHANGED vars
  BY <1>10 DEF vars, ThreadInv, TypeOK, CallsInOrder, ResultsAreReal, NoCallBehindTheScenes,
               ShownCallWasSetUp
<1> QED BY <1>1, <1>2, <1>3, <1>4, <1>5, <1>6, <1>7, <1>8, <1>9, <1>10 DEF Next, EngineStep, DaemonStep

----------------------------------------------------------------------------
\* From the first state on.
LEMMA ThreadInvHolds ==
  ASSUME CallLeaseAssumption
  PROVE  Spec => []ThreadInv
<1>1. Init => ThreadInv
  BY ThreadInit
<1>2. ThreadInv /\ [Next]_vars => ThreadInv'
  BY ThreadStep
<1> QED BY <1>1, <1>2, PTL DEF Spec

\* For any number of calls and attempts, every variable keeps its type.
THEOREM LeaseTypes ==
  ASSUME CallLeaseAssumption
  PROVE  Spec => []TypeOK
<1>1. ThreadInv => TypeOK
  BY DEF ThreadInv
<1> QED BY <1>1, ThreadInvHolds, PTL

\* In cleanup_call, cleanup_group_call and the two ways to start a call: no
\* engine of the process runs on once the window has left its call.
THEOREM LeaseStopsCalls ==
  ASSUME CallLeaseAssumption
  PROVE  Spec => []NoCallBehindTheScenes
<1>1. ThreadInv => NoCallBehindTheScenes
  BY DEF ThreadInv
<1> QED BY <1>1, ThreadInvHolds, PTL

\* The GUI opens the window of a call only on the report of the engine it
\* started for it: the call shown was set up.
THEOREM LeaseShowsSetUpCalls ==
  ASSUME CallLeaseAssumption
  PROVE  Spec => []ShownCallWasSetUp
<1>1. ThreadInv => ShownCallWasSetUp
  BY DEF ThreadInv
<1> QED BY <1>1, ThreadInvHolds, PTL

----------------------------------------------------------------------------
(* The socket *)

Cmds == {"Yield", "Reclaim", "Signal"}

\* A reclaim is on its way, and no yield after it.
Reclaims(q) == \E i \in 1..Len(q) : q[i] = "Reclaim" /\ \A j \in i + 1..Len(q) : q[j] # "Yield"
NoYield(q) == \A i \in 1..Len(q) : q[i] # "Yield"

\* The daemon has its socket, or is about to.
Returns == Reclaims(queue) \/ (NoYield(queue) /\ (socket \/ binding))

\* What a daemon owes a user who is back from every call.  An error screen is
\* the one way out of a call that sends no reclaim.
SocketInv ==
  /\ queue \in Seq(Cmds)
  /\ screen = "Error" => unfetched
  /\ screen = "Setup" /\ group = "Detail" /\ ~unfetched => Returns

\* A reclaim added at the end is the last word.
LEMMA ReclaimAdded ==
  ASSUME NEW q \in Seq(Cmds)
  PROVE  Reclaims(q \o <<"Reclaim">>) /\ Reclaims(q \o <<"Reclaim", "Signal">>)
<1>1. Reclaims(q \o <<"Reclaim">>)
  <2> DEFINE p == q \o <<"Reclaim">>
  <2>1. Len(p) = Len(q) + 1 /\ p[Len(q) + 1] = "Reclaim" /\ Len(q) \in Nat
    OBVIOUS
  <2> HIDE DEF p
  <2> QED BY <2>1 DEF Reclaims
<1>2. Reclaims(q \o <<"Reclaim", "Signal">>)
  <2> DEFINE p == q \o <<"Reclaim", "Signal">>
  <2>1. /\ Len(p) = Len(q) + 2 /\ p[Len(q) + 1] = "Reclaim" /\ p[Len(q) + 2] = "Signal"
        /\ Len(q) \in Nat
    OBVIOUS
  <2> HIDE DEF p
  <2> QED BY <2>1 DEF Reclaims
<1> QED BY <1>1, <1>2

\* Taking a command from the queue.
LEMMA CommandTaken ==
  ASSUME NEW q \in Seq(Cmds), q # <<>>
  PROVE  /\ Tail(q) \in Seq(Cmds)
         /\ NoYield(q) => NoYield(Tail(q)) /\ Head(q) # "Yield"
         /\ Reclaims(q) /\ Head(q) # "Reclaim" => Reclaims(Tail(q))
         /\ Reclaims(q) => Reclaims(Tail(q)) \/ NoYield(Tail(q))
<1>1. /\ Tail(q) \in Seq(Cmds) /\ Len(q) \in Nat \ {0} /\ Len(Tail(q)) = Len(q) - 1
      /\ \A i \in 1..Len(q) - 1 : Tail(q)[i] = q[i + 1]
      /\ Head(q) = q[1]
  OBVIOUS
<1> DEFINE t == Tail(q)
<1>2. NoYield(q) => NoYield(t) /\ Head(q) # "Yield"
  BY <1>1 DEF NoYield
<1>3. ASSUME NEW i \in 1..Len(q), q[i] = "Reclaim", \A j \in i + 1..Len(q) : q[j] # "Yield", i # 1
      PROVE  Reclaims(t)
  <2>1. i - 1 \in 1..Len(t) /\ t[i - 1] = "Reclaim"
    BY <1>1, <1>3
  <2>2. \A j \in (i - 1) + 1..Len(t) : t[j] # "Yield"
    BY <1>1, <1>3
  <2> HIDE DEF t
  <2> QED BY <2>1, <2>2 DEF Reclaims
<1>4. ASSUME q[1] = "Reclaim", \A j \in 2..Len(q) : q[j] # "Yield"
      PROVE  NoYield(t)
  BY <1>1, <1>4 DEF NoYield
<1> HIDE DEF t
<1>5. Reclaims(q) /\ Head(q) # "Reclaim" => Reclaims(t)
  BY <1>1, <1>3 DEF Reclaims
<1>6. Reclaims(q) => Reclaims(t) \/ NoYield(t)
  BY <1>1, <1>3, <1>4 DEF Reclaims
<1> QED BY <1>1, <1>2, <1>5, <1>6 DEF t

----------------------------------------------------------------------------
\* The GUI's steps: whatever leaves a call sends a reclaim.
LEMMA SocketGuiStep ==
  ASSUME SocketInv,
         \/ StartCall \/ Cancel \/ HangUp \/ OnRemoteHangup \/ Proceed \/ TakeResult \/ Back
         \/ StartGroupCall \/ LeaveGroupCall \/ TakeGroupOk \/ TakeGroupError \/ GroupCallEnded
  PROVE  SocketInv'
<1>q. queue \in Seq(Cmds)
  BY DEF SocketInv
<1>1. CASE StartCall
  <2>1. queue' \in Seq(Cmds)
    BY <1>1, <1>q DEF StartCall, Command, Cmds
  <2> QED BY <1>1, <2>1 DEF StartCall, SocketInv
<1>2. CASE Cancel \/ HangUp \/ OnRemoteHangup
  <2>1. queue' = queue \o <<"Reclaim">> /\ screen' = "Setup"
    BY <1>2 DEF Cancel, HangUp, OnRemoteHangup, CleanupCall, Command
  <2>2. queue' \in Seq(Cmds)
    BY <2>1, <1>q DEF Cmds
  <2>3. Reclaims(queue')
    BY <2>1, <1>q, ReclaimAdded
  <2> QED BY <2>1, <2>2, <2>3 DEF SocketInv, Returns, Reclaims
<1>3. CASE Proceed \/ Back
  BY <1>3 DEF Proceed, Back, GuiOnly, SocketInv, Returns
<1>4. CASE TakeResult
  BY <1>4 DEF TakeResult, GuiOnly, SocketInv
<1>5. CASE StartGroupCall
  <2>1. PICK cs \in Seq(Cmds) : queue' = queue \o (cs \o <<"Signal", "Yield">>)
    <3>1. Leaving \in Seq(Cmds) /\ <<>> \in Seq(Cmds)
      BY DEF Leaving, Cmds
    <3> QED BY <3>1, <1>5 DEF StartGroupCall, Command
  <2>2. queue' \in Seq(Cmds)
    BY <2>1, <1>q DEF Cmds
  <2>3. screen' = "Setup" /\ group' = "Connecting"
    BY <1>5 DEF StartGroupCall
  <2> QED BY <2>2, <2>3 DEF SocketInv
<1>6. CASE LeaveGroupCall \/ TakeGroupError \/ GroupCallEnded
  <2>1. queue' = queue \o <<"Reclaim", "Signal">> /\ UNCHANGED <<screen, unfetched>>
    BY <1>6 DEF LeaveGroupCall, TakeGroupError, GroupCallEnded, CleanupGroupCall, Command, Leaving
  <2>2. queue' \in Seq(Cmds)
    BY <2>1, <1>q DEF Cmds
  <2>3. Reclaims(queue')
    BY <2>1, <1>q, ReclaimAdded
  <2> QED BY <2>1, <2>2, <2>3 DEF SocketInv, Returns, Reclaims
<1>7. CASE TakeGroupOk
  BY <1>7 DEF TakeGroupOk, GuiOnly, SocketInv
<1> QED BY <1>1, <1>2, <1>3, <1>4, <1>5, <1>6, <1>7

\* The daemon's steps: a reclaim binds, and a bind that fails for good shows.
LEMMA SocketDaemonStep ==
  ASSUME SocketInv, DaemonStep
  PROVE  SocketInv'
<1>q. queue \in Seq(Cmds)
  BY DEF SocketInv
<1>u. UNCHANGED <<screen, group>>
  BY DEF DaemonStep, Yield, Reclaim, Signal, Bind, GiveUp, DaemonOnly
<1>1. CASE Yield
  <2>1. /\ queue # <<>> /\ queue' = Tail(queue) /\ UNCHANGED unfetched /\ Head(queue) = "Yield"
    BY <1>1 DEF Yield
  <2>2. queue' \in Seq(Cmds) /\ (Returns => Reclaims(queue'))
    BY <2>1, <1>q, CommandTaken DEF Returns
  <2> QED BY <2>1, <2>2, <1>u DEF SocketInv, Returns, Reclaims
<1>2. CASE Reclaim
  <2>1. /\ queue # <<>> /\ queue' = Tail(queue) /\ UNCHANGED unfetched /\ binding'
    BY <1>2 DEF Reclaim
  <2>2. queue' \in Seq(Cmds) /\ (Returns => Reclaims(queue') \/ NoYield(queue'))
    BY <2>1, <1>q, CommandTaken DEF Returns
  <2> QED BY <2>1, <2>2, <1>u DEF SocketInv, Returns, Reclaims, NoYield
<1>3. CASE Signal
  <2>1. /\ queue # <<>> /\ queue' = Tail(queue) /\ Head(queue) = "Signal"
        /\ UNCHANGED <<socket, binding, unfetched>>
    BY <1>3 DEF Signal
  <2>2. /\ queue' \in Seq(Cmds)
        /\ Reclaims(queue) => Reclaims(queue')
        /\ NoYield(queue) => NoYield(queue')
    BY <2>1, <1>q, CommandTaken
  <2> QED BY <2>1, <2>2, <1>u DEF SocketInv, Returns, Reclaims, NoYield
<1>4. CASE Bind
  BY <1>4, <1>u DEF Bind, SocketInv, Returns, Reclaims, NoYield
<1>5. CASE GiveUp
  BY <1>5, <1>u DEF GiveUp, SocketInv, Returns, Reclaims, NoYield
<1> QED BY <1>1, <1>2, <1>3, <1>4, <1>5 DEF DaemonStep

\* The threads of a call send no commands.
LEMMA SocketEngineStep ==
  ASSUME SocketInv, NEW g \in CallId, EngineStep(g)
  PROVE  SocketInv'
<1>1. UNCHANGED <<screen, group, queue, socket, binding, unfetched>>
  BY DEF EngineStep, VoiceBind, VoiceConnected, VoiceFailed, GroupProbe, GroupProbed, GroupJoin,
         StoppedFromOutside, EngineStops, HousekeepingStops, EngineOnly
<1> QED BY <1>1 DEF SocketInv, Returns, Reclaims, NoYield

\* Together, every step.
LEMMA SocketStep ==
  ASSUME SocketInv, [Next]_vars
  PROVE  SocketInv'
<1>1. CASE UNCHANGED vars
  BY <1>1 DEF vars, SocketInv, Returns, Reclaims, NoYield
<1>2. CASE \E g \in CallId : EngineStep(g)
  BY <1>2, SocketEngineStep
<1> QED BY <1>1, <1>2, SocketGuiStep, SocketDaemonStep DEF Next, EngineStep, DaemonStep

\* YieldSocket and ReclaimSocket: through any number of calls, of both kinds
\* and one within the other, cancelled or hung up at any point, a daemon whose
\* user is back from them has its socket, unless a one-to-one call failed or
\* the daemon gave up binding.
THEOREM LeaseReturnsSocket == Spec => []CleanCallReturnsSocket
<1>1. Init => SocketInv
  <2>1. ASSUME Init PROVE queue \in Seq(Cmds) /\ NoYield(queue)
    <3>1. queue = <<>>
      BY <2>1 DEF Init
    <3>2. <<>> \in Seq(Cmds) /\ Len(<<>>) = 0
      OBVIOUS
    <3> QED BY <3>1, <3>2 DEF NoYield
  <2> QED BY <2>1 DEF Init, SocketInv, Returns
<1>2. SocketInv /\ [Next]_vars => SocketInv'
  BY SocketStep
<1>3. SocketInv => CleanCallReturnsSocket
  <2>1. queue = <<>> => ~Reclaims(queue)
    BY DEF Reclaims
  <2> QED BY <2>1 DEF SocketInv, CleanCallReturnsSocket, AtRest, Returns
<1> QED BY <1>1, <1>2, <1>3, PTL DEF Spec

----------------------------------------------------------------------------
(* The other parts *)

MeshPart == INSTANCE P2PCallProofs WITH
  in <- mIn, peers <- mPeers, sharing <- mSharing, link <- mLink, left <- mLeft,
  starts <- mStarts, User <- Person, MaxStarts <- MaxJoins, MaxQueue <- MaxPackets

\* A step of the whole is one of the mesh, or leaves it alone.
LEMMA MeshSpec == CallsSpec => MeshPart!Spec
<1>1. CallsInit => MeshPart!Init
  BY DEF CallsInit, Mesh!Init, MeshPart!Init
<1>2. Mesh!Next => MeshPart!Next
  BY DEF Mesh!Next, MeshPart!Next, Mesh!Start, MeshPart!Start, Mesh!Leave, MeshPart!Leave,
     Mesh!Crash, MeshPart!Crash, Mesh!Share, MeshPart!Share, Mesh!Speak, MeshPart!Speak,
     Mesh!Receive, MeshPart!Receive, Mesh!RemoveSilent, MeshPart!RemoveSilent,
     Mesh!Over, MeshPart!Over, Mesh!To, MeshPart!To, Mesh!Answer, MeshPart!Answer,
     Mesh!KnownAfter, MeshPart!KnownAfter, Mesh!Silent, MeshPart!Silent
<1>3. [CallsNext]_allVars => [MeshPart!Next]_(MeshPart!vars)
  BY <1>2 DEF CallsNext, allVars, LeaseStep, VoiceStep, RelayStep, MeshStep, ShareStep,
     GroupShareStep, FramesStep, meshVars, MeshPart!vars
<1> QED BY <1>1, <1>3, PTL DEF CallsSpec, MeshPart!Spec

\* P2PCallProofs: of two users in a call one knows the other.
THEOREM OneAlwaysKnows == CallsSpec => []OneKnowsTheOther
<1>1. MeshPart!P2PCallAssumption
  BY PartsAssumption DEF Mesh!P2PCallAssumption, MeshPart!P2PCallAssumption
<1>2. MeshPart!Spec => []MeshPart!OneKnowsTheOther
  BY <1>1, MeshPart!MeshMeets
<1>3. MeshPart!OneKnowsTheOther => OneKnowsTheOther
  BY DEF OneKnowsTheOther, Mesh!OneKnowsTheOther, MeshPart!OneKnowsTheOther
<1> QED BY <1>2, <1>3, MeshSpec, PTL

\* P2PCallProofs: who hung up without a share is forgotten by all it knew.
THEOREM LeaversGone == CallsSpec => []LeaversAreForgotten
<1>1. MeshPart!P2PCallAssumption
  BY PartsAssumption DEF Mesh!P2PCallAssumption, MeshPart!P2PCallAssumption
<1>2. MeshPart!Spec => []MeshPart!LeaversAreForgotten
  BY <1>1, MeshPart!MeshForgetsLeavers
<1>3. MeshPart!LeaversAreForgotten => LeaversAreForgotten
  BY DEF LeaversAreForgotten, Mesh!LeaversAreForgotten, MeshPart!LeaversAreForgotten
<1> QED BY <1>2, <1>3, MeshSpec, PTL

----------------------------------------------------------------------------
VoicePart == INSTANCE VoiceCallProofs WITH
  phase <- vPhase, peer <- vPeer, eph <- vEph, other <- vOther, shown <- vShown,
  ring <- vRing, notified <- vNotified, rejected <- vRejected, net <- vNet, next <- vNext,
  hung <- vHung, User <- Person, Nobody <- NoPerson

\* A step of the whole is one of the one-to-one call, or leaves it alone.
LEMMA VoiceSpec == CallsSpec => VoicePart!Spec
<1>1. CallsInit => VoicePart!Init
  BY DEF CallsInit, Voice!NoEph, VoicePart!NoEph, Voice!Init, VoicePart!Init
<1>2. Voice!Next => VoicePart!Next
  BY DEF Voice!state, VoicePart!state, Voice!daemon, VoicePart!daemon, Voice!NoEph,
     VoicePart!NoEph, Voice!Hello, VoicePart!Hello, Voice!Sealed, VoicePart!Sealed,
     Voice!Session, VoicePart!Session, Voice!Identity, VoicePart!Identity, Voice!Reads,
     VoicePart!Reads, Voice!Dials, VoicePart!Dials, Voice!Call, VoicePart!Call, Voice!Accept,
     VoicePart!Accept, Voice!Reject, VoicePart!Reject, Voice!Over, VoicePart!Over,
     Voice!Reclaimed, VoicePart!Reclaimed, Voice!Ends, VoicePart!Ends, Voice!HangUp,
     VoicePart!HangUp, Voice!Cancel, VoicePart!Cancel, Voice!Send, VoicePart!Send,
     Voice!SendHello, VoicePart!SendHello, Voice!SendIdentity, VoicePart!SendIdentity,
     Voice!GiveUp, VoicePart!GiveUp, Voice!Got, VoicePart!Got, Voice!Rest, VoicePart!Rest,
     Voice!TakeHello, VoicePart!TakeHello, Voice!TakeIdentity, VoicePart!TakeIdentity,
     Voice!Heard, VoicePart!Heard, Voice!TakeHangup, VoicePart!TakeHangup, Voice!Repeat,
     VoicePart!Repeat, Voice!Ignore, VoicePart!Ignore, Voice!Ring, VoicePart!Ring, Voice!Slate,
     VoicePart!Slate, Voice!Receive, VoicePart!Receive, Voice!Forget, VoicePart!Forget,
     Voice!Next, VoicePart!Next
<1>3. [CallsNext]_allVars => [VoicePart!Next]_(VoicePart!vars)
  BY <1>2 DEF CallsNext, allVars, LeaseStep, VoiceStep, RelayStep, MeshStep, ShareStep,
     GroupShareStep, FramesStep, voiceVars, VoicePart!vars
<1> QED BY <1>1, <1>3, PTL DEF CallsSpec, VoicePart!Spec

\* VoiceCallProofs: two users in a call with each other hold one key.
THEOREM KeysAlwaysAgree == CallsSpec => []KeysAgree
<1>1. VoicePart!VoiceCallAssumption
  BY PartsAssumption DEF Voice!VoiceCallAssumption, VoicePart!VoiceCallAssumption
<1>2. VoicePart!Spec => []VoicePart!KeysAgree
  BY <1>1, VoicePart!KeysAlwaysAgree
<1>3. VoicePart!KeysAgree => KeysAgree
  BY DEF KeysAgree, Voice!Session, VoicePart!Session, Voice!KeysAgree, VoicePart!KeysAgree
<1> QED BY <1>2, <1>3, VoiceSpec, PTL

\* VoiceCallProofs: whoever a call shows is the one that was called.
THEOREM CallShowsCalled == CallsSpec => []UpWithCalled
<1>1. VoicePart!VoiceCallAssumption
  BY PartsAssumption DEF Voice!VoiceCallAssumption, VoicePart!VoiceCallAssumption
<1>2. VoicePart!Spec => []VoicePart!UpWithCalled
  BY <1>1, VoicePart!CallShowsCalled
<1>3. VoicePart!UpWithCalled => UpWithCalled
  BY DEF UpWithCalled, Voice!UpWithCalled, VoicePart!UpWithCalled
<1> QED BY <1>2, <1>3, VoiceSpec, PTL

\* VoiceCallProofs: only the loss of the HANGUP lets an end of a call go on alone.
THEOREM HangupAlwaysHeard == CallsSpec => []HangupIsHeard
<1>1. VoicePart!VoiceCallAssumption
  BY PartsAssumption DEF Voice!VoiceCallAssumption, VoicePart!VoiceCallAssumption
<1>2. VoicePart!Spec => []VoicePart!HangupIsHeard
  BY <1>1, VoicePart!HangupAlwaysHeard
<1>3. VoicePart!HangupIsHeard => HangupIsHeard
  BY DEF HangupIsHeard, Voice!Session, VoicePart!Session, Voice!HangupIsHeard, VoicePart!HangupIsHeard
<1> QED BY <1>2, <1>3, VoiceSpec, PTL

----------------------------------------------------------------------------
(* The group call through a leader *)

RelayPart == INSTANCE GroupCallProofs WITH
  mode <- rMode, leader <- rLeader, conn <- rConn, alive <- rAlive, net <- rNet,
  led <- rLed, starts <- rStarts, losses <- rLosses

\* The group call begins with nobody, or with some in a call already.
LEMMA RelayBegins == CallsInit => RelayPart!Begun
<1>1. Relay!Init => RelayPart!Init
  BY DEF Relay!User, RelayPart!User, Relay!Nobody, RelayPart!Nobody, Relay!NoTable,
     RelayPart!NoTable, Relay!Init, RelayPart!Init
<1>2. \A k \in 2..N : Relay!InitUp(1..k, k - 1) =>
        \E U \in (SUBSET RelayPart!User) \ {{}}, s \in Nat : RelayPart!InitUp(U, s)
  <2> SUFFICES ASSUME NEW k \in 2..N, Relay!InitUp(1..k, k - 1)
               PROVE  \E U \in (SUBSET RelayPart!User) \ {{}}, s \in Nat : RelayPart!InitUp(U, s)
    OBVIOUS
  <2>1. RelayPart!InitUp(1..k, k - 1)
    BY DEF Relay!Min, RelayPart!Min, Relay!User, RelayPart!User, Relay!Nobody,
       RelayPart!Nobody, Relay!NoTable, RelayPart!NoTable, Relay!InitUp, RelayPart!InitUp
  <2>2. N \in Nat /\ 1 \in 1..k /\ 1..k \subseteq 1..N /\ k - 1 \in Nat
    BY PartsAssumption DEF Relay!GroupCallAssumption
  <2> QED BY <2>1, <2>2 DEF RelayPart!User
<1> QED BY <1>1, <1>2 DEF CallsInit, RelayPart!Begun

\* A step of the whole is one of the group call, or leaves it alone.
LEMMA RelaySpec == CallsSpec => RelayPart!Begun /\ [][RelayPart!Next]_(RelayPart!vars)
<1>1. CallsInit => RelayPart!Begun
  BY RelayBegins
<1>2. Relay!Next => RelayPart!Next
  BY DEF Relay!Min, RelayPart!Min, Relay!User, RelayPart!User, Relay!Nobody, RelayPart!Nobody,
     Relay!Pkt, RelayPart!Pkt, Relay!NoTable, RelayPart!NoTable, Relay!Peers, RelayPart!Peers,
     Relay!ToAll, RelayPart!ToAll, Relay!Start, RelayPart!Start, Relay!Quiet, RelayPart!Quiet,
     Relay!ProbeTimeout, RelayPart!ProbeTimeout, Relay!Out, RelayPart!Out, Relay!Leave,
     RelayPart!Leave, Relay!Crash, RelayPart!Crash, Relay!Speak, RelayPart!Speak, Relay!Ping,
     RelayPart!Ping, Relay!Heard, RelayPart!Heard, Relay!RemoveSilent, RelayPart!RemoveSilent,
     Relay!Got, RelayPart!Got, Relay!RecvProbing, RelayPart!RecvProbing, Relay!AnswerHello,
     RelayPart!AnswerHello, Relay!RecvHello, RelayPart!RecvHello, Relay!Others,
     RelayPart!Others, Relay!Relayed, RelayPart!Relayed, Relay!RecvLeading,
     RelayPart!RecvLeading, Relay!RecvMember, RelayPart!RecvMember, Relay!RecvDiscovering,
     RelayPart!RecvDiscovering, Relay!RecvNothing, RelayPart!RecvNothing, Relay!Receive,
     RelayPart!Receive, Relay!Lose, RelayPart!Lose, Relay!Talks, RelayPart!Talks, Relay!Served,
     RelayPart!Served, Relay!Timeout, RelayPart!Timeout, Relay!StopsElected,
     RelayPart!StopsElected, Relay!Alone, RelayPart!Alone, Relay!DiscoveryEnds,
     RelayPart!DiscoveryEnds, Relay!Elected, RelayPart!Elected, Relay!Decide, RelayPart!Decide,
     Relay!Next, RelayPart!Next
<1>3. [CallsNext]_allVars => [RelayPart!Next]_(RelayPart!vars)
  BY <1>2 DEF CallsNext, allVars, LeaseStep, VoiceStep, RelayStep, MeshStep, ShareStep,
     GroupShareStep, FramesStep, relayVars, RelayPart!vars
<1> QED BY <1>1, <1>3, PTL DEF CallsSpec

\* GroupCallProofs: voice that is not lost passes one leader at most, and never
\* returns to who spoke.
THEOREM NeverEchoes ==
  ASSUME MaxLosses = 0
  PROVE  CallsSpec => []NoEcho
<1>1. RelayPart!GroupCallAssumption
  BY PartsAssumption DEF Relay!GroupCallAssumption, RelayPart!GroupCallAssumption
<1>2. RelayPart!Begun /\ [][RelayPart!Next]_(RelayPart!vars) => []RelayPart!NoEcho
  BY <1>1, RelayPart!NeverEchoes
<1>3. RelayPart!NoEcho => NoEcho
  BY DEF NoEcho, Relay!NoEcho, RelayPart!NoEcho
<1> QED BY <1>2, <1>3, RelaySpec, PTL

\* GroupCallProofs: without losses, nobody becomes a second leader beside one that
\* was there to ask.
THEOREM StartAlwaysJoins ==
  ASSUME MaxLosses = 0
  PROVE  CallsSpec => StartJoinsExisting
<1>1. RelayPart!GroupCallAssumption
  BY PartsAssumption DEF Relay!GroupCallAssumption, RelayPart!GroupCallAssumption
<1>2. RelayPart!Begun /\ [][RelayPart!Next]_(RelayPart!vars) => RelayPart!StartJoinsExisting
  BY <1>1, RelayPart!StartAlwaysJoins
<1>3. RelayPart!StartJoinsExisting => StartJoinsExisting
  <2>1. [\A u \in RelayPart!User :
            rMode[u] = "probing" /\ rMode'[u] = "leader" => rLed[u] = {}]_(RelayPart!vars)
        => [\A u \in Relay!User :
              rMode[u] = "probing" /\ rMode'[u] = "leader" => rLed[u] = {}]_(Relay!vars)
    BY DEF Relay!vars, RelayPart!vars, Relay!User, RelayPart!User
  <2> QED BY <2>1, PTL DEF StartJoinsExisting, Relay!StartJoinsExisting, RelayPart!StartJoinsExisting
<1> QED BY <1>2, <1>3, RelaySpec, PTL

----------------------------------------------------------------------------
(* Sharing in a one-to-one call *)

\* With both buttons off the last command of the window is a stop, or there is
\* none and nothing is captured.
LastWordIsStop ==
  sShown = {} => IF sCmds = <<>> THEN sLoop = "none" ELSE sCmds[Len(sCmds)] = "stop"

\* When nothing is captured the last packet to the viewer is a STOP, or there is
\* none and the viewer has no picture but one that it knows to be over.
LastPacketIsStop ==
  sLoop = "none" =>
    IF sDown = <<>> THEN sViewer.stopped \/ ~(sTexture \/ sViewer.latest)
    ELSE sDown[Len(sDown)] = "STOP"

SharingInv == Share!TypeOK /\ LastWordIsStop /\ LastPacketIsStop /\ ViewingWasAsked

\* What is appended is the last element, and the others stay.
LEMMA Appended ==
  ASSUME NEW S, NEW q \in Seq(S), NEW e \in S
  PROVE  /\ Append(q, e) \in Seq(S) /\ Append(q, e) # <<>>
         /\ Len(Append(q, e)) = Len(q) + 1 /\ Append(q, e)[Len(q) + 1] = e
         /\ q \o <<e>> = Append(q, e)
OBVIOUS

\* Taking the first leaves the last the last, unless it was the only one.
LEMMA Taken ==
  ASSUME NEW S, NEW q \in Seq(S), q # <<>>
  PROVE  /\ Head(q) \in S /\ Tail(q) \in Seq(S)
         /\ Tail(q) = <<>> => Head(q) = q[Len(q)]
         /\ Tail(q) # <<>> => Tail(q)[Len(Tail(q))] = q[Len(q)]
<1>1. Len(q) \in Nat \ {0} /\ Tail(q) \in Seq(S) /\ Len(Tail(q)) = Len(q) - 1 /\ Head(q) = q[1]
  OBVIOUS
<1>2. \A i \in 1..Len(q) - 1 : Tail(q)[i] = q[i + 1]
  OBVIOUS
<1>3. Tail(q) # <<>> => Len(q) - 1 \in 1..Len(q) - 1
  BY <1>1
<1>4. Tail(q) = <<>> => Len(q) = 1
  <2>1. Len(<<>>) = 0
    OBVIOUS
  <2>2. Tail(q) = <<>> => Len(Tail(q)) = 0
    BY <2>1, Zenon
  <2> QED BY <1>1, <2>2
<1>5. Head(q) \in S
  OBVIOUS
<1> QED BY <1>1, <1>2, <1>3, <1>4, <1>5

\* Nothing is added to a queue by the empty sequence, nor to a set by taking
\* away what it has not.
LEMMA NothingAdded ==
  /\ \A S : \A q \in Seq(S) : q \o <<>> = q
  /\ \A S, e : e \notin S => S \ {e} = S
OBVIOUS

LEMMA SharingWindow ==
  ASSUME Share!ScreenShareAssumption, SharingInv, NEW k \in Share!Kind,
         Share!Button(k) \/ Share!Confirm(k) \/ Share!Close(k)
  PROVE  SharingInv'
<1>t. /\ sCmds \in Seq(Share!Kind \cup {"stop"}) /\ sShown \subseteq Share!Kind
      /\ sPopup \subseteq Share!Kind /\ sShares \in 0..MaxShares /\ MaxShares \in Nat
  BY DEF SharingInv, Share!TypeOK, Share!ScreenShareAssumption
<1>u. UNCHANGED <<sLoop, sJoined, sDown, sViewer, sTexture, sViewing, sAsks, sUp>>
  BY DEF Share!Button, Share!Confirm, Share!Close, Share!window
<1>0. Share!Other(k) \in Share!Kind
  BY DEF Share!Other, Share!Kind
<1>1. /\ sCmds' \in Seq(Share!Kind \cup {"stop"}) /\ sShown' \subseteq Share!Kind
      /\ sPopup' \subseteq Share!Kind /\ sShares' \in 0..MaxShares /\ LastWordIsStop'
  <2>1. CASE Share!Close(k)
    BY <2>1, <1>t, <1>u DEF Share!Close, SharingInv, LastWordIsStop
  <2>2. CASE Share!Confirm(k)
    BY <2>2, <1>t, <1>u, Appended DEF Share!Confirm, LastWordIsStop
  <2>3. CASE Share!Button(k) /\ k \in sShown
    <3>1. sCmds' = Append(sCmds, "stop") /\ sShown' = sShown \ {k} /\ UNCHANGED <<sPopup, sShares>>
      BY <2>3 DEF Share!Button
    <3> QED BY <3>1, <1>t, <1>u, Appended DEF LastWordIsStop
  <2>4. CASE Share!Button(k) /\ k \notin sShown /\ Share!Other(k) \in sShown
    <3>1. sCmds' = Append(sCmds, "stop") /\ sShown' \subseteq sShown /\ UNCHANGED sShares
          /\ sPopup' = sPopup \cup {k}
      BY <2>4, <1>t, Appended DEF Share!Button, Share!Off
    <3> QED BY <3>1, <1>t, <1>u, Appended DEF LastWordIsStop
  <2>5. CASE Share!Button(k) /\ k \notin sShown /\ Share!Other(k) \notin sShown
    <3>1. sCmds' = sCmds /\ sShown' = sShown /\ UNCHANGED sShares /\ sPopup' = sPopup \cup {k}
      BY <2>5, <1>t, NothingAdded DEF Share!Button, Share!Off
    <3> QED BY <3>1, <1>t, <1>u DEF LastWordIsStop, SharingInv
  <2> QED BY <2>1, <2>2, <2>3, <2>4, <2>5
<1>2. LastPacketIsStop' /\ ViewingWasAsked'
  BY <1>u DEF SharingInv, LastPacketIsStop, ViewingWasAsked, Share!ViewingWasAsked
<1> QED BY <1>1, <1>2, <1>u DEF SharingInv, Share!TypeOK

LEMMA SharingThread ==
  ASSUME SharingInv, Share!TakeCommand \/ Share!Capture
  PROVE  SharingInv'
<1> DEFINE P == {"OFFER", "FRAME", "STOP"}
<1>t. /\ sCmds \in Seq(Share!Kind \cup {"stop"}) /\ sLoop \in Share!Kind \cup {"none"}
      /\ sDown \in Seq(P)
  BY DEF SharingInv, Share!TypeOK
<1>1. CASE Share!Capture
  <2>1. /\ sLoop # "none" /\ \E p \in P : sDown' = Append(sDown, p)
        /\ UNCHANGED <<sShown, sPopup, sCmds, sLoop, sShares, sJoined, sViewer, sTexture,
                       sViewing, sAsks, sUp>>
    BY <1>1 DEF Share!Capture, Share!sharer, Share!window
  <2>2. sDown' \in Seq(P)
    BY <2>1, <1>t, Appended
  <2> QED BY <2>1, <2>2 DEF SharingInv, Share!TypeOK, LastWordIsStop, LastPacketIsStop,
        ViewingWasAsked, Share!ViewingWasAsked
<1>2. CASE Share!TakeCommand
  <2>1. /\ sCmds # <<>> /\ sCmds' = Tail(sCmds)
        /\ UNCHANGED <<sShown, sPopup, sShares, sJoined, sViewer, sTexture, sViewing, sAsks, sUp>>
    BY <1>2 DEF Share!TakeCommand, Share!window
  <2>2. \/ sLoop' = "none" /\ sDown' = Append(sDown, "STOP")
        \/ sLoop # "none" /\ UNCHANGED <<sLoop, sDown>>
        \/ sLoop = "none" /\ sLoop' \in Share!Kind \cup {"none"} /\ UNCHANGED sDown
        \/ sLoop' \in Share!Kind \cup {"none"} /\ sDown' = Append(sDown, "STOP")
    BY <1>2, <1>t, Appended DEF Share!TakeCommand, Share!Starts, Share!StopLast, Share!Kind
  <2>3. Head(sCmds) = "stop" => sLoop' = "none"
    BY <1>2 DEF Share!TakeCommand, Share!Kind
  <2>4. sLoop' \in Share!Kind \cup {"none"} /\ sDown' \in Seq(P)
    BY <2>2, <1>t, Appended
  <2>5. LastPacketIsStop'
    BY <2>1, <2>2, <1>t, Appended DEF SharingInv, LastPacketIsStop
  <2>6. LastWordIsStop'
    BY <2>1, <2>3, <1>t, Taken DEF SharingInv, LastWordIsStop
  <2>7. sCmds' \in Seq(Share!Kind \cup {"stop"})
    BY <2>1, <1>t, Taken
  <2> QED BY <2>1, <2>4, <2>5, <2>6, <2>7 DEF SharingInv, Share!TypeOK, ViewingWasAsked,
        Share!ViewingWasAsked
<1> QED BY <1>1, <1>2

LEMMA SharingPackets ==
  ASSUME SharingInv, Share!SharerReceives \/ Share!ViewerReceives \/ Share!ViewerTakesCommand
  PROVE  SharingInv'
<1> DEFINE P == {"OFFER", "FRAME", "STOP"}
           A == {"JOIN", "LEAVE"}
<1>t. sDown \in Seq(P) /\ sUp \in Seq(A) /\ sAsks \in Seq(A)
      /\ sViewer \in [latest : BOOLEAN, stopped : BOOLEAN, offer : BOOLEAN]
  BY DEF SharingInv, Share!TypeOK
<1>1. CASE Share!SharerReceives
  <2>1. /\ sUp # <<>> /\ sUp' = Tail(sUp) /\ sJoined' = (Head(sUp) = "JOIN")
        /\ UNCHANGED <<sShown, sPopup, sCmds, sLoop, sShares, sDown, sViewer, sTexture,
                       sViewing, sAsks>>
    BY <1>1 DEF Share!SharerReceives, Share!sharer, Share!window
  <2>2. sUp' \in Seq(A) /\ sJoined' \in BOOLEAN
    BY <2>1, <1>t, Taken
  <2>3. ViewingWasAsked'
    BY <2>1, <1>t, Taken DEF SharingInv, ViewingWasAsked, Share!ViewingWasAsked
  <2> QED BY <2>1, <2>2, <2>3 DEF SharingInv, Share!TypeOK, LastWordIsStop, LastPacketIsStop
<1>2. CASE Share!ViewerTakesCommand
  <2>1. /\ sAsks # <<>> /\ sAsks' = Tail(sAsks) /\ sUp' = Append(sUp, Head(sAsks))
        /\ UNCHANGED <<sShown, sPopup, sCmds, sLoop, sShares, sJoined, sDown, sViewer, sTexture,
                       sViewing>>
    BY <1>2 DEF Share!ViewerTakesCommand, Share!sharer
  <2>2. /\ Head(sAsks) \in A /\ sAsks' \in Seq(A)
        /\ sAsks' = <<>> => Head(sAsks) = sAsks[Len(sAsks)]
        /\ sAsks' # <<>> => sAsks'[Len(sAsks')] = sAsks[Len(sAsks)]
    BY <2>1, <1>t, Taken
  <2>3. sUp' \in Seq(A) /\ sUp' # <<>> /\ sUp'[Len(sUp')] = Head(sAsks)
    BY <2>1, <2>2, <1>t, Appended
  <2>4. ViewingWasAsked'
    BY <2>1, <2>2, <2>3 DEF SharingInv, ViewingWasAsked, Share!ViewingWasAsked
  <2> QED BY <2>1, <2>2, <2>3, <2>4 DEF SharingInv, Share!TypeOK, LastWordIsStop, LastPacketIsStop
<1>3. CASE Share!ViewerReceives
  <2>1. /\ sDown # <<>> /\ sDown' = Tail(sDown)
        /\ UNCHANGED <<sShown, sPopup, sCmds, sLoop, sShares, sJoined, sTexture,
                       sViewing, sAsks, sUp>>
    BY <1>3 DEF Share!ViewerReceives, Share!sharer, Share!window
  <2>2. /\ sViewer' \in [latest : BOOLEAN, stopped : BOOLEAN, offer : BOOLEAN]
        /\ Head(sDown) = "STOP" => sViewer'.stopped
    BY <1>3, <1>t DEF Share!ViewerReceives
  <2>3. /\ sDown' \in Seq(P)
        /\ sDown' = <<>> => Head(sDown) = sDown[Len(sDown)]
        /\ sDown' # <<>> => sDown'[Len(sDown')] = sDown[Len(sDown)]
    BY <2>1, <1>t, Taken
  <2>4. LastPacketIsStop'
    BY <2>1, <2>2, <2>3 DEF SharingInv, LastPacketIsStop
  <2> QED BY <2>1, <2>2, <2>3, <2>4 DEF SharingInv, Share!TypeOK, LastWordIsStop,
        ViewingWasAsked, Share!ViewingWasAsked
<1> QED BY <1>1, <1>2, <1>3

LEMMA SharingView ==
  ASSUME SharingInv,
         Share!OfferExpires \/ Share!Redraw \/ Share!RedrawFullscreen \/ Share!Join \/ Share!End
  PROVE  SharingInv'
<1> DEFINE A == {"JOIN", "LEAVE"}
<1>t. /\ sAsks \in Seq(A) /\ sTexture \in BOOLEAN /\ sViewing \in BOOLEAN
      /\ sViewer \in [latest : BOOLEAN, stopped : BOOLEAN, offer : BOOLEAN]
  BY DEF SharingInv, Share!TypeOK
<1>1. CASE Share!OfferExpires \/ Share!Redraw \/ Share!RedrawFullscreen
  <2>1. UNCHANGED <<sShown, sPopup, sCmds, sLoop, sShares, sJoined, sDown, sAsks, sUp>>
    BY <1>1 DEF Share!OfferExpires, Share!Redraw, Share!RedrawFullscreen, Share!sharer, Share!window
  <2>2. /\ sViewer' \in [latest : BOOLEAN, stopped : BOOLEAN, offer : BOOLEAN]
        /\ sViewer'.stopped = sViewer.stopped
        /\ sViewer'.latest => sViewer.latest
    BY <1>1, <1>t DEF Share!OfferExpires, Share!Redraw, Share!RedrawFullscreen
  <2>3. /\ sTexture' \in BOOLEAN /\ sViewing' \in BOOLEAN
        /\ sTexture' => sTexture \/ sViewer.latest
        /\ sViewing' => sViewing
    BY <1>1, <1>t DEF Share!OfferExpires, Share!Redraw, Share!RedrawFullscreen, Share!window
  <2> QED BY <2>1, <2>2, <2>3 DEF SharingInv, Share!TypeOK, LastWordIsStop, LastPacketIsStop,
        ViewingWasAsked, Share!ViewingWasAsked
<1>2. CASE Share!Join \/ Share!End
  <2>0. UNCHANGED <<sShown, sPopup, sCmds, sLoop, sShares, sJoined, sDown, sViewer, sUp>>
    BY <1>2 DEF Share!Join, Share!End, Share!sharer
  <2>1. sTexture' \in BOOLEAN /\ sViewing' \in BOOLEAN /\ (sTexture' => sTexture)
    <3>1. Share!Join => sTexture' = sTexture /\ sViewing' = TRUE
      BY DEF Share!Join
    <3>2. Share!End => sTexture' = FALSE /\ sViewing' = FALSE
      BY DEF Share!End, Share!EndedViewing
    <3>3. TRUE \in BOOLEAN /\ FALSE \in BOOLEAN /\ sTexture \in BOOLEAN
      BY <1>t
    <3>4. sViewing' \in BOOLEAN
      BY <1>2, <3>1, <3>2, <3>3, Zenon
    <3>5. sTexture' \in BOOLEAN
      BY <1>2, <3>1, <3>2, <3>3, Zenon
    <3>6. sTexture' => sTexture
      BY <1>2, <3>1, <3>2, Zenon
    <3> QED BY <3>4, <3>5, <3>6
  <2>2. \E e \in A : sAsks' = Append(sAsks, e) /\ (sViewing' => e = "JOIN")
    BY <1>2 DEF Share!Join, Share!End, Share!EndedViewing
  <2>3. /\ sAsks' \in Seq(A) /\ sAsks' # <<>>
        /\ sViewing' => sAsks'[Len(sAsks')] = "JOIN"
    BY <2>2, <1>t, Appended
  <2> QED BY <2>0, <2>1, <2>3 DEF SharingInv, Share!TypeOK, LastWordIsStop, LastPacketIsStop,
        ViewingWasAsked, Share!ViewingWasAsked
<1> QED BY <1>1, <1>2

LEMMA SharingHolds == CallsSpec => []SharingInv
<1>a. Share!ScreenShareAssumption
  BY PartsAssumption
<1>1. CallsInit => SharingInv
  <2> SUFFICES ASSUME CallsInit PROVE SharingInv
    OBVIOUS
  <2>1. \A S : <<>> \in Seq(S)
    OBVIOUS
  <2>2. /\ sShown = {} /\ sPopup = {} /\ sCmds = <<>> /\ sLoop = "none" /\ sJoined = FALSE
        /\ sDown = <<>> /\ sUp = <<>> /\ sAsks = <<>>
        /\ sViewer = [latest |-> FALSE, stopped |-> FALSE, offer |-> FALSE]
        /\ sTexture = FALSE /\ sViewing = FALSE /\ sShares = 0
    BY DEF CallsInit, Share!Init
  <2>3. 0 \in 0..MaxShares
    BY <1>a DEF Share!ScreenShareAssumption
  <2>4. Share!TypeOK
    BY <2>1, <2>2, <2>3 DEF Share!TypeOK
  <2> QED BY <2>2, <2>4 DEF SharingInv, LastWordIsStop, LastPacketIsStop, ViewingWasAsked,
        Share!ViewingWasAsked
<1>2. SharingInv /\ [CallsNext]_allVars => SharingInv'
  <2> SUFFICES ASSUME SharingInv, [CallsNext]_allVars PROVE SharingInv'
    OBVIOUS
  <2>1. Share!Next \/ UNCHANGED shareVars
    BY DEF CallsNext, allVars, LeaseStep, VoiceStep, RelayStep, MeshStep, ShareStep,
       GroupShareStep, FramesStep
  <2>2. ASSUME UNCHANGED shareVars PROVE SharingInv'
    BY <2>2 DEF shareVars, SharingInv, Share!TypeOK, LastWordIsStop, LastPacketIsStop,
       ViewingWasAsked, Share!ViewingWasAsked
  <2> QED BY <1>a, <2>1, <2>2, SharingWindow, SharingThread, SharingPackets, SharingView
        DEF Share!Next
<1> QED BY <1>1, <1>2, PTL DEF CallsSpec

\* Nothing is captured behind the user's back: with both buttons off a capture
\* that goes on has a stop on its way, however the two shares replaced each other.
THEOREM NeverCapturedUnseen == CallsSpec => []CaptureIsShown
<1>1. SharingInv => CaptureIsShown
  <2>1. SharingInv /\ sShown = {} /\ sLoop # "none" =>
          Len(sCmds) \in 1..Len(sCmds) /\ sCmds[Len(sCmds)] = "stop"
    BY DEF SharingInv, Share!TypeOK, LastWordIsStop
  <2> QED BY <2>1 DEF CaptureIsShown, Share!CaptureIsShown
<1> QED BY <1>1, SharingHolds, PTL

\* Whoever looks at a share has asked for it last: the sharer has heard of the
\* JOIN, or it is on its way.
THEOREM ViewersAsked == CallsSpec => []ViewingWasAsked
<1>1. SharingInv => ViewingWasAsked
  BY DEF SharingInv
<1> QED BY <1>1, SharingHolds, PTL

\* A share that is over leaves no picture in the viewer's window.
THEOREM SharesLeaveScreen == CallsSpec => []StoppedShareLeavesScreen
<1>1. SharingInv => StoppedShareLeavesScreen
  BY DEF SharingInv, LastPacketIsStop, StoppedShareLeavesScreen, Share!StoppedShareLeavesScreen
<1> QED BY <1>1, SharingHolds, PTL

----------------------------------------------------------------------------
(* Sharing in a group call *)

\* With both buttons off the last command of the window is a stop, or there is
\* none and the flag of the capture threads is down.
GroupLastWord ==
  hShown = {} => IF hCmds = <<>> THEN ~hActive ELSE hCmds[Len(hCmds)] = "stop"

\* A number that was not given to a capture thread yet is of none.
Unstarted == \A g \in GroupShare!Share : g > hShares => hLoop[g] = "none"

\* After the packets on their way to v, its picture is known to be over.
PictureEnds(v) ==
  /\ \A i \in 1..Len(hLink[v]) : hLink[v][i] = "FRAME" =>
       \E j \in i + 1..Len(hLink[v]) : hLink[v][j] = "STOP"
  /\ (v \in hTexture \/ hView[v].latest) /\ ~hView[v].stopped =>
       \E j \in 1..Len(hLink[v]) : hLink[v][j] = "STOP"

\* That is so for whoever no thread captures for.
Unserved(v) == \A g \in GroupShare!Share : hLoop[g] = "on" => v \notin hTargets[g]
PicturesEnd == \A v \in Viewer : Unserved(v) => PictureEnds(v)

GroupSharingInv == GroupShare!TypeOK /\ GroupLastWord /\ Unstarted /\ PicturesEnd

\* A packet that is not a frame is added at the end: what follows a frame still does.
LEMMA PictureEndsAdded ==
  ASSUME NEW q \in Seq({"OFFER", "FRAME", "STOP"}), NEW p \in {"OFFER", "STOP"},
         NEW r, r = Append(q, p)
  PROVE  /\ (\A i \in 1..Len(q) : q[i] = "FRAME" => \E j \in i + 1..Len(q) : q[j] = "STOP")
              => \A i \in 1..Len(r) : r[i] = "FRAME" => \E j \in i + 1..Len(r) : r[j] = "STOP"
         /\ (\E j \in 1..Len(q) : q[j] = "STOP") => \E j \in 1..Len(r) : r[j] = "STOP"
         /\ p = "STOP" => /\ \E j \in 1..Len(r) : r[j] = "STOP"
                          /\ \A i \in 1..Len(r) : r[i] = "FRAME" =>
                               \E j \in i + 1..Len(r) : r[j] = "STOP"
<1>1. /\ Len(q) \in Nat /\ Len(r) = Len(q) + 1 /\ r[Len(q) + 1] = p
      /\ \A i \in 1..Len(q) : r[i] = q[i]
  OBVIOUS
<1>2. \A i \in 1..Len(r) : i \in 1..Len(q) \/ i = Len(q) + 1
  BY <1>1
<1>3. \A i \in 1..Len(r) : r[i] = "FRAME" => i \in 1..Len(q) /\ q[i] = "FRAME"
  BY <1>1, <1>2
<1>4. \A i \in 1..Len(q) : i + 1..Len(q) \subseteq i + 1..Len(r) /\ Len(r) \in i + 1..Len(r)
  BY <1>1
<1>5. 1..Len(q) \subseteq 1..Len(r) /\ Len(r) \in 1..Len(r)
  BY <1>1
<1>6. (\A i \in 1..Len(q) : q[i] = "FRAME" => \E j \in i + 1..Len(q) : q[j] = "STOP")
        => \A i \in 1..Len(r) : r[i] = "FRAME" => \E j \in i + 1..Len(r) : r[j] = "STOP"
  <2> SUFFICES ASSUME \A i \in 1..Len(q) : q[i] = "FRAME" => \E j \in i + 1..Len(q) : q[j] = "STOP",
                      NEW i \in 1..Len(r), r[i] = "FRAME"
               PROVE  \E j \in i + 1..Len(r) : r[j] = "STOP"
    OBVIOUS
  <2>1. i \in 1..Len(q) /\ q[i] = "FRAME"
    BY <1>3
  <2>2. PICK j \in i + 1..Len(q) : q[j] = "STOP"
    BY <2>1
  <2>3. j \in 1..Len(q)
    BY <2>1, <1>1
  <2> QED BY <2>1, <2>2, <2>3, <1>1, <1>4
<1>7. (\E j \in 1..Len(q) : q[j] = "STOP") => \E j \in 1..Len(r) : r[j] = "STOP"
  BY <1>1, <1>5
<1>8. p = "STOP" => r[Len(r)] = "STOP"
  BY <1>1
<1> QED BY <1>3, <1>4, <1>5, <1>6, <1>7, <1>8

\* The first packet is taken: what follows a frame still does.
LEMMA PictureEndsTaken ==
  ASSUME NEW q \in Seq({"OFFER", "FRAME", "STOP"}), q # <<>>, NEW r, r = Tail(q),
         \A i \in 1..Len(q) : q[i] = "FRAME" => \E j \in i + 1..Len(q) : q[j] = "STOP"
  PROVE  /\ \A i \in 1..Len(r) : r[i] = "FRAME" => \E j \in i + 1..Len(r) : r[j] = "STOP"
         /\ (\E j \in 1..Len(q) : q[j] = "STOP") /\ Head(q) # "STOP" =>
              \E j \in 1..Len(r) : r[j] = "STOP"
         /\ Head(q) = "FRAME" => \E j \in 1..Len(r) : r[j] = "STOP"
<1>1. /\ Len(q) \in Nat \ {0} /\ Len(r) = Len(q) - 1 /\ Head(q) = q[1]
      /\ \A i \in 1..Len(r) : r[i] = q[i + 1]
  OBVIOUS
<1>2. \A j \in 2..Len(q) : j - 1 \in 1..Len(r) /\ r[j - 1] = q[j]
  BY <1>1
<1>3. ASSUME NEW i \in 1..Len(r), r[i] = "FRAME"
      PROVE  \E j \in i + 1..Len(r) : r[j] = "STOP"
  <2>1. i + 1 \in 1..Len(q) /\ q[i + 1] = "FRAME"
    BY <1>1, <1>3
  <2>2. PICK j \in (i + 1) + 1..Len(q) : q[j] = "STOP"
    BY <2>1
  <2>3. j \in 2..Len(q) /\ j - 1 \in i + 1..Len(r)
    BY <1>1, <2>2
  <2> QED BY <1>2, <2>2, <2>3
<1>4. (\E j \in 1..Len(q) : q[j] = "STOP") /\ Head(q) # "STOP" => \E j \in 1..Len(r) : r[j] = "STOP"
  <2> SUFFICES ASSUME NEW j \in 1..Len(q), q[j] = "STOP", Head(q) # "STOP"
               PROVE  \E k \in 1..Len(r) : r[k] = "STOP"
    OBVIOUS
  <2>1. j \in 2..Len(q)
    BY <1>1
  <2> QED BY <2>1, <1>2
<1>5. Head(q) = "FRAME" => \E j \in 1..Len(r) : r[j] = "STOP"
  <2> SUFFICES ASSUME Head(q) = "FRAME" PROVE \E k \in 1..Len(r) : r[k] = "STOP"
    OBVIOUS
  <2>1. 1 \in 1..Len(q) /\ q[1] = "FRAME"
    BY <1>1
  <2>2. PICK j \in 1 + 1..Len(q) : q[j] = "STOP"
    BY <2>1
  <2>3. j \in 2..Len(q)
    BY <2>2
  <2> QED BY <1>2, <2>2, <2>3
<1> QED BY <1>3, <1>4, <1>5

LEMMA GroupSharingWindow ==
  ASSUME GroupSharingInv, NEW k \in GroupShare!Kind,
         GroupShare!Button(k) \/ GroupShare!Confirm(k) \/ GroupShare!Close(k)
  PROVE  GroupSharingInv'
<1>t. /\ hCmds \in Seq({"start", "stop"}) /\ hShown \subseteq GroupShare!Kind
      /\ hPopup \subseteq GroupShare!Kind
  BY DEF GroupSharingInv, GroupShare!TypeOK
<1>u. UNCHANGED <<hActive, hLoop, hTargets, hShares, hConnected, hLink, hView, hTexture>>
  BY DEF GroupShare!Button, GroupShare!Confirm, GroupShare!Close, GroupShare!threads,
     GroupShare!viewers
<1>1. /\ hCmds' \in Seq({"start", "stop"}) /\ hShown' \subseteq GroupShare!Kind
      /\ hPopup' \subseteq GroupShare!Kind /\ GroupLastWord'
  <2>1. CASE GroupShare!Close(k)
    BY <2>1, <1>t, <1>u DEF GroupShare!Close, GroupSharingInv, GroupLastWord
  <2>2. CASE GroupShare!Confirm(k)
    BY <2>2, <1>t, <1>u, Appended DEF GroupShare!Confirm, GroupLastWord
  <2>3. CASE GroupShare!Button(k) /\ k \in hShown
    <3>1. hCmds' = Append(hCmds, "stop") /\ hShown' = hShown \ {k} /\ UNCHANGED hPopup
      BY <2>3 DEF GroupShare!Button
    <3> QED BY <3>1, <1>t, <1>u, Appended DEF GroupLastWord
  <2>4. CASE GroupShare!Button(k) /\ k \notin hShown /\ GroupShare!Other(k) \in hShown
    <3>1. hCmds' = Append(hCmds, "stop") /\ hShown' \subseteq hShown /\ hPopup' = hPopup \cup {k}
      BY <2>4, <1>t, Appended DEF GroupShare!Button, GroupShare!Off
    <3> QED BY <3>1, <1>t, <1>u, Appended DEF GroupLastWord
  <2>5. CASE GroupShare!Button(k) /\ k \notin hShown /\ GroupShare!Other(k) \notin hShown
    <3>1. hCmds' = hCmds /\ hShown' = hShown /\ hPopup' = hPopup \cup {k}
      BY <2>5, <1>t, NothingAdded DEF GroupShare!Button, GroupShare!Off
    <3> QED BY <3>1, <1>t, <1>u DEF GroupLastWord, GroupSharingInv
  <2> QED BY <2>1, <2>2, <2>3, <2>4, <2>5
<1>2. Unstarted' /\ PicturesEnd'
  BY <1>u DEF GroupSharingInv, Unstarted, PicturesEnd, Unserved, PictureEnds
<1> QED BY <1>1, <1>2, <1>u DEF GroupSharingInv, GroupShare!TypeOK

LEMMA GroupSharingTaken ==
  ASSUME GroupShare!GroupScreenAssumption, GroupSharingInv, GroupShare!TakeCommand
  PROVE  GroupSharingInv'
<1>t. /\ hCmds \in Seq({"start", "stop"}) /\ hShares \in 0..MaxShares /\ MaxShares \in Nat
      /\ hLoop \in [GroupShare!Share -> {"none", "opening", "on", "stopping", "over"}]
      /\ hTargets \in [GroupShare!Share -> SUBSET Viewer] /\ hConnected \subseteq Viewer
  BY DEF GroupSharingInv, GroupShare!TypeOK, GroupShare!GroupScreenAssumption
<1>0. /\ hCmds # <<>> /\ hCmds' = Tail(hCmds)
      /\ UNCHANGED <<hShown, hPopup, hConnected, hLink, hView, hTexture>>
  BY DEF GroupShare!TakeCommand, GroupShare!gui, GroupShare!viewers
<1>1. hCmds' \in Seq({"start", "stop"})
  BY <1>0, <1>t, Taken
<1>2. hActive' \in BOOLEAN /\ (Head(hCmds) = "stop" => ~hActive')
  BY DEF GroupShare!TakeCommand
<1>3. GroupLastWord'
  BY <1>0, <1>2, <1>t, Taken DEF GroupSharingInv, GroupLastWord
<1>4. CASE UNCHANGED <<hLoop, hTargets, hShares>>
  BY <1>0, <1>1, <1>2, <1>3, <1>4 DEF GroupSharingInv, GroupShare!TypeOK, Unstarted, PicturesEnd,
     Unserved, PictureEnds
<1>5. CASE /\ hShares < MaxShares /\ hShares' = hShares + 1
           /\ hLoop' = [hLoop EXCEPT ![hShares + 1] = "opening"]
           /\ hTargets' = [hTargets EXCEPT ![hShares + 1] = hConnected]
  <2>1. hShares + 1 \in GroupShare!Share /\ hShares' \in 0..MaxShares
    BY <1>5, <1>t DEF GroupShare!Share
  <2>2. /\ hLoop' \in [GroupShare!Share -> {"none", "opening", "on", "stopping", "over"}]
        /\ hTargets' \in [GroupShare!Share -> SUBSET Viewer]
    BY <1>5, <1>t, <2>1
  <2>3. Unstarted'
    BY <1>5, <1>t, <2>1 DEF GroupSharingInv, Unstarted, GroupShare!Share
  <2>4. hLoop[hShares + 1] = "none"
    BY <1>t, <2>1 DEF GroupSharingInv, Unstarted
  <2>5. \A v \in Viewer : Unserved(v)' => Unserved(v)
    BY <1>5, <1>t, <2>1, <2>4 DEF Unserved
  <2>6. PicturesEnd'
    BY <1>0, <2>5 DEF GroupSharingInv, PicturesEnd, PictureEnds
  <2> QED BY <1>0, <1>1, <1>2, <1>3, <2>1, <2>2, <2>3, <2>6 DEF GroupSharingInv, GroupShare!TypeOK
<1> QED BY <1>4, <1>5 DEF GroupShare!TakeCommand

LEMMA GroupSharingThread ==
  ASSUME GroupSharingInv, NEW g \in GroupShare!Share,
         GroupShare!Open(g) \/ GroupShare!Frame(g) \/ GroupShare!Stop(g) \/ GroupShare!End(g)
  PROVE  GroupSharingInv'
<1> DEFINE P == {"OFFER", "FRAME", "STOP"}
           L == {"none", "opening", "on", "stopping", "over"}
<1>t. /\ hLoop \in [GroupShare!Share -> L] /\ hTargets \in [GroupShare!Share -> SUBSET Viewer]
      /\ hLink \in [Viewer -> Seq(P)] /\ hLoop[g] # "none" /\ hActive \in BOOLEAN
  BY DEF GroupSharingInv, GroupShare!TypeOK, GroupShare!Open, GroupShare!Frame,
     GroupShare!Stop, GroupShare!End
<1>u. UNCHANGED <<hShown, hPopup, hCmds, hTargets, hShares, hConnected, hView, hTexture>>
  BY DEF GroupShare!Open, GroupShare!Frame, GroupShare!Stop, GroupShare!End, GroupShare!Step,
     GroupShare!gui
<1>a. hActive' \in BOOLEAN /\ (hActive' => hActive)
  <2>1. hActive' = hActive \/ hActive' = FALSE
    BY DEF GroupShare!Open, GroupShare!Frame, GroupShare!Stop, GroupShare!End
  <2>2. FALSE \in BOOLEAN /\ hActive \in BOOLEAN
    BY <1>t
  <2>3. hActive' \in BOOLEAN
    BY <2>1, <2>2, Zenon
  <2>4. hActive' => hActive
    BY <2>1, Zenon
  <2> QED BY <2>3, <2>4
<1>b. GroupLastWord'
  BY <1>u, <1>a DEF GroupSharingInv, GroupLastWord
<1>l. PICK phase \in L \ {"none"} : hLoop' = [hLoop EXCEPT ![g] = phase]
  BY DEF GroupShare!Open, GroupShare!Frame, GroupShare!Stop, GroupShare!End, GroupShare!Step
<1>m. hLoop' \in [GroupShare!Share -> L] /\ Unstarted'
  BY <1>l, <1>t, <1>u DEF GroupSharingInv, Unstarted
<1> SUFFICES hLink' \in [Viewer -> Seq(P)] /\ PicturesEnd'
  BY <1>u, <1>a, <1>b, <1>m DEF GroupSharingInv, GroupShare!TypeOK
<1>1. CASE UNCHANGED hLink /\ (GroupShare!Open(g) \/ GroupShare!End(g)) /\ hLoop' = [hLoop EXCEPT ![g] = "over"]
  <2>1. hLoop[g] # "on"
    BY <1>1, <1>t DEF GroupShare!Open, GroupShare!End
  <2>2. \A v \in Viewer : Unserved(v)' => Unserved(v)
    BY <1>1, <1>t, <1>u, <2>1 DEF Unserved
  <2> QED BY <1>1, <1>t, <1>u, <2>2 DEF GroupSharingInv, PicturesEnd, PictureEnds
<1>2. CASE \E p \in P : GroupShare!SendTo(hTargets[g], p) /\ hLoop' = [hLoop EXCEPT ![g] = "on"]
  <2>1. PICK p \in P : GroupShare!SendTo(hTargets[g], p)
    BY <1>2
  <2>2. hLink' \in [Viewer -> Seq(P)]
    BY <2>1, <1>t DEF GroupShare!SendTo
  <2>3. \A v \in Viewer : Unserved(v)' => v \notin hTargets[g] /\ Unserved(v)
    BY <1>2, <1>t, <1>u DEF Unserved
  <2>4. \A v \in Viewer : v \notin hTargets[g] => hLink'[v] = hLink[v]
    BY <2>1 DEF GroupShare!SendTo
  <2>5. \A v \in Viewer : v \notin hTargets[g] /\ PictureEnds(v) => PictureEnds(v)'
    BY <2>4, <1>u DEF PictureEnds
  <2> QED BY <2>2, <2>3, <2>5 DEF GroupSharingInv, PicturesEnd
<1>3. CASE GroupShare!Stop(g)
  <2>1. GroupShare!SendTo(hTargets[g], "STOP") /\ hLoop' = [hLoop EXCEPT ![g] = "stopping"]
    BY <1>3 DEF GroupShare!Stop, GroupShare!Step, GroupShare!Closing
  <2>2. hLink' \in [Viewer -> Seq(P)]
    BY <2>1, <1>t DEF GroupShare!SendTo
  <2>3. ASSUME NEW v \in Viewer, v \in hTargets[g]
        PROVE  PictureEnds(v)'
    <3>1. hLink'[v] = Append(hLink[v], "STOP") /\ hLink[v] \in Seq(P)
      BY <2>1, <2>3, <1>t DEF GroupShare!SendTo
    <3> QED BY <3>1, PictureEndsAdded DEF PictureEnds
  <2>4. ASSUME NEW v \in Viewer, v \notin hTargets[g], Unserved(v)'
        PROVE  PictureEnds(v)'
    <3>1. Unserved(v)
      BY <2>1, <2>4, <1>t, <1>u DEF Unserved
    <3>2. hLink'[v] = hLink[v]
      BY <2>1, <2>4 DEF GroupShare!SendTo
    <3> QED BY <3>1, <3>2, <1>u DEF GroupSharingInv, PicturesEnd, PictureEnds
  <2> QED BY <2>2, <2>3, <2>4 DEF PicturesEnd
<1> QED BY <1>1, <1>2, <1>3 DEF GroupShare!Open, GroupShare!Frame, GroupShare!End, GroupShare!Step

LEMMA GroupSharingViewer ==
  ASSUME GroupSharingInv, NEW v \in Viewer,
         GroupShare!Connect(v) \/ GroupShare!Receive(v) \/ GroupShare!Redraw(v)
  PROVE  GroupSharingInv'
<1> DEFINE P == {"OFFER", "FRAME", "STOP"}
           V == [latest : BOOLEAN, stopped : BOOLEAN]
<1>t. /\ hLink \in [Viewer -> Seq(P)] /\ hView \in [Viewer -> V] /\ hTexture \subseteq Viewer
      /\ hConnected \subseteq Viewer
  BY DEF GroupSharingInv, GroupShare!TypeOK
<1>u. UNCHANGED <<hShown, hPopup, hCmds, hActive, hLoop, hTargets, hShares>>
  BY DEF GroupShare!Connect, GroupShare!Receive, GroupShare!Redraw, GroupShare!gui,
     GroupShare!threads
<1>1. CASE GroupShare!Connect(v)
  BY <1>1, <1>t, <1>u DEF GroupShare!Connect, GroupSharingInv, GroupShare!TypeOK, GroupLastWord,
     Unstarted, PicturesEnd, Unserved, PictureEnds
<1> SUFFICES ASSUME GroupShare!Receive(v) \/ GroupShare!Redraw(v)
             PROVE  /\ hLink' \in [Viewer -> Seq(P)] /\ hView' \in [Viewer -> V]
                    /\ hTexture' \subseteq Viewer
                    /\ \A w \in Viewer : PictureEnds(w) => PictureEnds(w)'
  BY <1>1, <1>u, <1>t DEF GroupShare!Receive, GroupShare!Redraw, GroupSharingInv,
     GroupShare!TypeOK, GroupLastWord, Unstarted, PicturesEnd, Unserved
<1>2. CASE GroupShare!Receive(v)
  <2>1. hLink[v] # <<>> /\ hLink' = [hLink EXCEPT ![v] = Tail(@)] /\ UNCHANGED hTexture
    BY <1>2 DEF GroupShare!Receive
  <2>2. Tail(hLink[v]) \in Seq(P) /\ Head(hLink[v]) \in P
    BY <2>1, <1>t, Taken
  <2>3. hLink' \in [Viewer -> Seq(P)]
    BY <2>1, <2>2, <1>t
  <2>4. /\ hView' \in [Viewer -> V]
        /\ \A w \in Viewer \ {v} : hView'[w] = hView[w]
        /\ Head(hLink[v]) = "OFFER" => hView'[v] = hView[v]
        /\ Head(hLink[v]) = "STOP" => hView'[v].stopped
    <3>1. CASE Head(hLink[v]) = "OFFER" /\ UNCHANGED hView
      BY <3>1, <1>t
    <3>2. CASE Head(hLink[v]) = "STOP" /\ hView' = [hView EXCEPT ![v].stopped = TRUE]
      <4>1. [hView[v] EXCEPT !.stopped = TRUE] \in V
        BY <1>t
      <4>2. hView' = [hView EXCEPT ![v] = [hView[v] EXCEPT !.stopped = TRUE]]
        BY <3>2
      <4>3. hView' \in [Viewer -> V] /\ (\A w \in Viewer \ {v} : hView'[w] = hView[w])
        BY <4>1, <4>2, <1>t
      <4>4. hView'[v] = [hView[v] EXCEPT !.stopped = TRUE]
        BY <4>2, <1>t
      <4>5. [hView[v] EXCEPT !.stopped = TRUE].stopped
        BY <1>t
      <4> QED BY <3>2, <4>3, <4>4, <4>5
    <3>3. CASE Head(hLink[v]) = "FRAME" /\ hView' = [hView EXCEPT ![v] = [latest |-> TRUE, stopped |-> FALSE]]
      BY <3>3, <1>t
    <3> QED BY <1>2, <3>1, <3>2, <3>3 DEF GroupShare!Receive
  <2>5. \A w \in Viewer \ {v} : PictureEnds(w) => PictureEnds(w)'
    BY <2>1, <2>4, <1>t DEF PictureEnds
  <2>6. ASSUME PictureEnds(v) PROVE PictureEnds(v)'
    <3>1. hLink'[v] = Tail(hLink[v]) /\ hLink[v] \in Seq(P)
      BY <2>1, <1>t
    <3>2. /\ \A i \in 1..Len(hLink[v]) : hLink[v][i] = "FRAME" =>
               \E j \in i + 1..Len(hLink[v]) : hLink[v][j] = "STOP"
          /\ (v \in hTexture \/ hView[v].latest) /\ ~hView[v].stopped =>
               \E j \in 1..Len(hLink[v]) : hLink[v][j] = "STOP"
      BY <2>6 DEF PictureEnds
    <3>3. /\ \A i \in 1..Len(hLink'[v]) : hLink'[v][i] = "FRAME" =>
               \E j \in i + 1..Len(hLink'[v]) : hLink'[v][j] = "STOP"
          /\ (\E j \in 1..Len(hLink[v]) : hLink[v][j] = "STOP") /\ Head(hLink[v]) # "STOP" =>
               \E j \in 1..Len(hLink'[v]) : hLink'[v][j] = "STOP"
          /\ Head(hLink[v]) = "FRAME" => \E j \in 1..Len(hLink'[v]) : hLink'[v][j] = "STOP"
      BY <3>1, <3>2, <2>1, PictureEndsTaken
    <3> QED BY <3>2, <3>3, <2>1, <2>2, <2>4 DEF PictureEnds
  <2> QED BY <2>1, <2>3, <2>4, <2>5, <2>6, <1>t
<1>3. CASE GroupShare!Redraw(v)
  <2>1. /\ hLink' = hLink /\ hTexture' \subseteq Viewer
        /\ \A w \in Viewer : w \in hTexture' => w \in hTexture \/ hView[w].latest
    BY <1>3, <1>t DEF GroupShare!Redraw
  <2>2. /\ hView' \in [Viewer -> V]
        /\ \A w \in Viewer : /\ hView'[w].latest => hView[w].latest
                             /\ hView'[w].stopped = hView[w].stopped
    BY <1>3, <1>t DEF GroupShare!Redraw
  <2> QED BY <2>1, <2>2, <1>t DEF PictureEnds
<1> QED BY <1>2, <1>3

LEMMA GroupSharingHolds == CallsSpec => []GroupSharingInv
<1>a. GroupShare!GroupScreenAssumption
  BY PartsAssumption
<1>1. CallsInit => GroupSharingInv
  <2> SUFFICES ASSUME CallsInit PROVE GroupSharingInv
    OBVIOUS
  <2>1. \A S : <<>> \in Seq(S)
    OBVIOUS
  <2>2. /\ hShown = {} /\ hPopup = {} /\ hCmds = <<>> /\ hActive = FALSE /\ hShares = 0
        /\ hLoop = [g \in GroupShare!Share |-> "none"]
        /\ hTargets = [g \in GroupShare!Share |-> {}] /\ hConnected \in SUBSET Viewer
        /\ hLink = [v \in Viewer |-> <<>>] /\ hTexture = {}
        /\ hView = [v \in Viewer |-> [latest |-> FALSE, stopped |-> FALSE]]
    BY DEF CallsInit, GroupShare!Init
  <2>3. 0 \in 0..MaxShares
    BY <1>a DEF GroupShare!GroupScreenAssumption
  <2>4. GroupShare!TypeOK
    BY <2>1, <2>2, <2>3 DEF GroupShare!TypeOK
  <2>5. PicturesEnd
    BY <2>2 DEF PicturesEnd, PictureEnds
  <2> QED BY <2>2, <2>4, <2>5 DEF GroupSharingInv, GroupLastWord, Unstarted
<1>2. GroupSharingInv /\ [CallsNext]_allVars => GroupSharingInv'
  <2> SUFFICES ASSUME GroupSharingInv, [CallsNext]_allVars PROVE GroupSharingInv'
    OBVIOUS
  <2>1. GroupShare!Next \/ UNCHANGED groupshareVars
    BY DEF CallsNext, allVars, LeaseStep, VoiceStep, RelayStep, MeshStep, ShareStep,
       GroupShareStep, FramesStep
  <2>2. ASSUME UNCHANGED groupshareVars PROVE GroupSharingInv'
    BY <2>2 DEF groupshareVars, GroupSharingInv, GroupShare!TypeOK, GroupLastWord, Unstarted,
       PicturesEnd, Unserved, PictureEnds
  <2> QED BY <1>a, <2>1, <2>2, GroupSharingWindow, GroupSharingTaken, GroupSharingThread,
        GroupSharingViewer DEF GroupShare!Next
<1> QED BY <1>1, <1>2, PTL DEF CallsSpec

\* The same in a group: with both buttons off no capture thread goes on, however
\* many there are, unless a stop is on its way to the flag they share.
THEOREM GroupNeverCapturedUnseen == CallsSpec => []GroupCaptureIsShown
<1>1. GroupSharingInv => GroupCaptureIsShown
  <2>1. GroupSharingInv /\ hShown = {} /\ hActive =>
          Len(hCmds) \in 1..Len(hCmds) /\ hCmds[Len(hCmds)] = "stop"
    BY DEF GroupSharingInv, GroupShare!TypeOK, GroupLastWord
  <2> QED BY <2>1 DEF GroupCaptureIsShown, GroupShare!CaptureIsShown
<1> QED BY <1>1, GroupSharingHolds, PTL

\* Shares that are over leave no picture at any member, whichever of several
\* capture threads ended last and whomever each of them served.
THEOREM GroupSharesLeaveScreens == CallsSpec => []GroupShareLeavesScreen
<1>1. GroupSharingInv => GroupShareLeavesScreen
  <2> SUFFICES ASSUME GroupSharingInv, NEW v \in hTexture,
                      \A g \in GroupShare!Share : hLoop[g] \in {"none", "over"}, hLink[v] = <<>>
               PROVE  hView[v].stopped
    BY DEF GroupShareLeavesScreen, GroupShare!StoppedShareLeavesScreen
  <2>1. v \in Viewer /\ Len(hLink[v]) = 0
    BY DEF GroupSharingInv, GroupShare!TypeOK
  <2>2. Unserved(v)
    BY DEF Unserved
  <2> QED BY <2>1, <2>2 DEF GroupSharingInv, PicturesEnd, PictureEnds
<1> QED BY <1>1, GroupSharingHolds, PTL

----------------------------------------------------------------------------
(* The frames of a share *)

\* One user shares, and no more frames than there are ids.
OneSharerNoWrap == (\E s : Sharer = {s}) /\ MaxFrames < Ids

\* What is kept of a frame: some of its chunks, counted.
PartOf(p, s, f) ==
  /\ p \in [total : Nat, received : Nat, chunks : SUBSET Frames!Sent]
  /\ p.total = fSize[s][f] /\ p.chunks \subseteq Frames!Whole(s, f)
  /\ p.received = Cardinality(p.chunks)

SizesTyped == fSize \in [Sharer -> [Frames!Frame -> 0..MaxChunks]]

PendingParts ==
  \A f \in DOMAIN fPending : f \in Frames!Frame /\
    \A s \in Sharer : /\ fSize[s][f] # 0 /\ PartOf(fPending[f], s, f)
                      /\ fPending[f].received # fPending[f].total

ShownFrames ==
  \A S \in fShown : \E s \in Sharer, f \in Frames!Frame : fSize[s][f] # 0 /\ S = Frames!Whole(s, f)

\* The chunks in a row are of one frame, which is shown or has them all.
StreakKept ==
  fStreak = {} \/ \E s \in Sharer, f \in Frames!Frame :
    /\ fSize[s][f] # 0 /\ fStreak \subseteq Frames!Whole(s, f)
    /\ \/ Frames!Whole(s, f) \in fShown
       \/ f \in DOMAIN fPending /\ fStreak \subseteq fPending[f].chunks

FramesInv == SizesTyped /\ PendingParts /\ ShownFrames /\ StreakKept

\* A frame has as many chunks as it was cut into, and they are different.
LEMMA WholeSize ==
  ASSUME NEW s, NEW f, NEW n \in Nat
  PROVE  LET W == {Frames!Chunk(s, f, i) : i \in 1..n}
         IN  IsFiniteSet(W) /\ Cardinality(W) = n
<1> DEFINE W == {Frames!Chunk(s, f, i) : i \in 1..n}
           b == [i \in 1..n |-> Frames!Chunk(s, f, i)]
<1>1. b \in Bijection(1..n, W)
  <2>1. b \in [1..n -> W]
    OBVIOUS
  <2>2. \A i, j \in 1..n : b[i] = b[j] => i = j
    BY DEF Frames!Chunk
  <2>3. \A w \in W : \E i \in 1..n : b[i] = w
    OBVIOUS
  <2> QED BY <2>1, <2>2, <2>3 DEF Bijection, Injection, Surjection, IsInjective
<1>2. ExistsBijection(1..n, W)
  BY <1>1 DEF ExistsBijection
<1> QED BY <1>2, FS_NatBijection, FS_CountingElements

\* So a part with all the chunks is the whole.
LEMMA AllIsWhole ==
  ASSUME SizesTyped, MaxChunks \in Nat, NEW s \in Sharer, NEW f \in Frames!Frame,
         NEW A, A \subseteq Frames!Whole(s, f)
  PROVE  IsFiniteSet(A) /\ (Cardinality(A) = fSize[s][f] <=> A = Frames!Whole(s, f))
<1>1. fSize[s][f] \in Nat
  BY DEF SizesTyped
<1>2. IsFiniteSet(Frames!Whole(s, f)) /\ Cardinality(Frames!Whole(s, f)) = fSize[s][f]
  BY <1>1, WholeSize DEF Frames!Whole
<1> QED BY <1>2, FS_Subset

\* The chunk that arrives is put into the part kept of its frame.
LEMMA PutIn ==
  ASSUME SizesTyped, MaxChunks \in Nat, NEW s \in Sharer, NEW f \in Frames!Frame,
         NEW i \in 1..MaxChunks, i <= fSize[s][f], NEW q, PartOf(q, s, f),
         NEW c, c = Frames!Chunk(s, f, i), NEW p, p = Frames!Put(q, c)
  PROVE  PartOf(p, s, f) /\ c \in p.chunks /\ q.chunks \subseteq p.chunks
<1>1. fSize[s][f] \in Nat /\ i \in 1..fSize[s][f]
  BY DEF SizesTyped
<1>2. c \in Frames!Whole(s, f) /\ c \in Frames!Sent /\ c.index = i
  BY <1>1 DEF Frames!Whole, Frames!Sent, Frames!Chunk
<1>3. /\ q \in [total : Nat, received : Nat, chunks : SUBSET Frames!Sent]
      /\ q.total = fSize[s][f] /\ q.chunks \subseteq Frames!Whole(s, f)
      /\ q.received = Cardinality(q.chunks)
  BY DEF PartOf
<1>4. IsFiniteSet(q.chunks)
  BY <1>3, AllIsWhole
<1>5. CASE Frames!Fills(q, c)
  <2>1. p = [q EXCEPT !.received = @ + 1, !.chunks = @ \cup {c}]
    BY <1>5 DEF Frames!Put
  <2>2. c \notin q.chunks
    BY <1>5 DEF Frames!Fills
  <2>3. /\ p.total = q.total /\ p.received = q.received + 1 /\ p.chunks = q.chunks \cup {c}
        /\ p \in [total : Nat, received : Nat, chunks : SUBSET Frames!Sent]
    <3>1. q.received + 1 \in Nat /\ q.chunks \cup {c} \in SUBSET Frames!Sent /\ q.total \in Nat
      BY <1>2, <1>3
    <3>2. p = [total |-> q.total, received |-> q.received + 1, chunks |-> q.chunks \cup {c}]
      BY <2>1, <1>3
    <3> QED BY <3>1, <3>2
  <2>4. Cardinality(q.chunks \cup {c}) = Cardinality(q.chunks) + 1
    BY <1>4, <2>2, FS_AddElement
  <2> QED BY <2>3, <2>4, <1>2, <1>3 DEF PartOf
<1>6. CASE ~Frames!Fills(q, c)
  <2>1. p = q
    BY <1>6 DEF Frames!Put
  <2>2. PICK d \in q.chunks : d.index = i
    BY <1>6, <1>2, <1>3 DEF Frames!Fills
  <2>3. d = c
    BY <2>2, <1>3 DEF Frames!Whole, Frames!Chunk
  <2> QED BY <2>1, <2>2, <2>3
<1> QED BY <1>5, <1>6

\* ScreenEncoder::fragment: only frames that were not cut yet get a size.
LEMMA FrameShared ==
  ASSUME FramesInv, NEW s \in Sharer, NEW f \in Frames!Frame, Frames!Share(s, f)
  PROVE  FramesInv'
<1>1. PICK n \in 1..MaxChunks : fSize' = [fSize EXCEPT ![s][f] = n]
  BY DEF Frames!Share
<1>2. UNCHANGED <<fPending, fShown, fStreak>> /\ fSize[s][f] = 0
  BY DEF Frames!Share
<1>3. SizesTyped'
  BY <1>1 DEF FramesInv, SizesTyped
<1>4. \A t \in Sharer, g \in Frames!Frame : fSize[t][g] # 0 => fSize'[t][g] = fSize[t][g]
  BY <1>1, <1>2 DEF FramesInv, SizesTyped
<1>5. \A t \in Sharer, g \in Frames!Frame :
        fSize[t][g] # 0 => Frames!Whole(t, g)' = Frames!Whole(t, g)
  BY <1>4 DEF Frames!Whole
<1>6. PendingParts'
  BY <1>2, <1>4, <1>5 DEF FramesInv, PendingParts, PartOf
<1>7. ShownFrames'
  BY <1>2, <1>4, <1>5 DEF FramesInv, ShownFrames
<1>8. StreakKept'
  <2>1. CASE fStreak = {}
    BY <2>1, <1>2 DEF StreakKept
  <2>2. CASE fStreak # {}
    <3>1. PICK t \in Sharer, g \in Frames!Frame :
            /\ fSize[t][g] # 0 /\ fStreak \subseteq Frames!Whole(t, g)
            /\ \/ Frames!Whole(t, g) \in fShown
               \/ g \in DOMAIN fPending /\ fStreak \subseteq fPending[g].chunks
      BY <2>2 DEF FramesInv, StreakKept
    <3>2. fSize'[t][g] # 0 /\ Frames!Whole(t, g)' = Frames!Whole(t, g)
      BY <3>1, <1>4, <1>5
    <3> QED BY <3>1, <3>2, <1>2 DEF StreakKept
  <2> QED BY <2>1, <2>2
<1> QED BY <1>3, <1>6, <1>7, <1>8 DEF FramesInv

\* add_chunk: a chunk goes to its own frame, and what is complete is one frame.
LEMMA FrameReceived ==
  ASSUME Frames!FrameAssemblerAssumption, OneSharerNoWrap, FramesInv,
         NEW c \in Frames!Sent, Frames!Receive(c)
  PROVE  FramesInv'
<1>1. PICK s \in Sharer, f \in Frames!Frame, i \in 1..MaxChunks : c = Frames!Chunk(s, f, i)
  BY DEF Frames!Sent
<1>2. /\ c.sharer = s /\ c.frame = f /\ c.index = i /\ i <= fSize[s][f]
      /\ MaxChunks \in Nat /\ SizesTyped
  BY <1>1 DEF Frames!Chunk, Frames!Receive, Frames!FrameAssemblerAssumption, FramesInv
<1>3. \A t \in Sharer : t = s
  BY DEF OneSharerNoWrap
<1>4. Frames!Id(f) = f
  <2>1. f \in Nat /\ f < Ids /\ Ids \in Nat \ {0}
    BY DEF OneSharerNoWrap, Frames!Frame, Frames!FrameAssemblerAssumption
  <2> QED BY <2>1 DEF Frames!Id
<1> DEFINE K == Frames!Kept(f)
           q == IF f \in K THEN fPending[f] ELSE Frames!Empty(fSize[s][f])
           p == Frames!Put(q, c)
<1>5. /\ K \subseteq DOMAIN fPending
      /\ f \in DOMAIN fPending => f \in K
  BY DEF Frames!Kept, Frames!MakesRoom
<1>6. fSize[s][f] \in Nat \ {0}
  BY <1>1, <1>2 DEF SizesTyped
<1>7. PartOf(q, s, f)
  <2>1. f \in K => PartOf(fPending[f], s, f)
    BY <1>5 DEF FramesInv, PendingParts
  <2>2. PartOf(Frames!Empty(fSize[s][f]), s, f)
    BY <1>6, FS_EmptySet DEF PartOf, Frames!Empty
  <2> QED BY <2>1, <2>2
<1>8. PartOf(p, s, f) /\ c \in p.chunks /\ q.chunks \subseteq p.chunks
  BY <1>1, <1>2, <1>7, PutIn
<1>9. /\ IF p.received = p.total
         THEN /\ fShown' = fShown \cup {p.chunks}
              /\ fPending' = [k \in K \ {f} |-> fPending[k]]
         ELSE /\ fPending' = [k \in K \cup {f} |-> IF k = f THEN p ELSE fPending[k]]
              /\ fShown' = fShown
      /\ fStreak' = {c} \cup {d \in fStreak : d.sharer = s /\ d.frame = f}
      /\ fSize' = fSize
  BY <1>2, <1>4 DEF Frames!Receive
<1>10. p.received = p.total => p.chunks = Frames!Whole(s, f)
  BY <1>2, <1>8, AllIsWhole DEF PartOf
<1> HIDE DEF K, q, p
<1>11. /\ SizesTyped'
       /\ \A t \in Sharer, g \in Frames!Frame : Frames!Whole(t, g)' = Frames!Whole(t, g)
  BY <1>2, <1>9 DEF SizesTyped, Frames!Whole
<1>12. PendingParts'
  <2>1. \A g \in K : /\ g \in Frames!Frame /\ fSize[s][g] # 0 /\ PartOf(fPending[g], s, g)
                     /\ fPending[g].received # fPending[g].total
    BY <1>5 DEF FramesInv, PendingParts
  <2>2. \A g \in DOMAIN fPending' :
          \/ g \in K /\ fPending'[g] = fPending[g]
          \/ g = f /\ fPending'[g] = p /\ p.received # p.total
    BY <1>9
  <2>3. \A g \in DOMAIN fPending' :
          /\ g \in Frames!Frame /\ fSize[s][g] # 0 /\ PartOf(fPending'[g], s, g)
          /\ fPending'[g].received # fPending'[g].total
    BY <2>1, <2>2, <1>6, <1>8
  <2>4. \A x, g : PartOf(x, s, g) /\ g \in Frames!Frame => PartOf(x, s, g)'
    BY <1>9, <1>11 DEF PartOf
  <2> QED BY <2>3, <1>3, <1>9, <1>11 DEF PendingParts, PartOf
<1>13. ShownFrames'
  BY <1>6, <1>9, <1>10, <1>11 DEF FramesInv, ShownFrames
<1>14. StreakKept'
  <2> DEFINE D == {d \in fStreak : d.sharer = s /\ d.frame = f}
  <2>1. c \in Frames!Whole(s, f)
    BY <1>8 DEF PartOf
  <2>2. D \subseteq Frames!Whole(s, f) /\ (Frames!Whole(s, f) \in fShown \/ D \subseteq q.chunks)
    <3>1. CASE D = {}
      BY <3>1
    <3>2. CASE D # {}
      <4>1. PICK t \in Sharer, g \in Frames!Frame :
              /\ fStreak \subseteq Frames!Whole(t, g)
              /\ \/ Frames!Whole(t, g) \in fShown
                 \/ g \in DOMAIN fPending /\ fStreak \subseteq fPending[g].chunks
        BY <3>2 DEF FramesInv, StreakKept
      <4>2. t = s /\ g = f
        BY <3>2, <4>1 DEF Frames!Whole, Frames!Chunk
      <4> QED BY <4>1, <4>2, <1>5 DEF q
    <3> QED BY <3>1, <3>2
  <2>3. \/ Frames!Whole(s, f) \in fShown'
        \/ f \in DOMAIN fPending' /\ fPending'[f] = p /\ ~(Frames!Whole(s, f) \in fShown)
    BY <1>9, <1>10
  <2>4. fStreak' = {c} \cup D
    BY <1>9
  <2> HIDE DEF D
  <2>5. \/ Frames!Whole(s, f) \in fShown'
        \/ f \in DOMAIN fPending' /\ fStreak' \subseteq fPending'[f].chunks
    BY <2>2, <2>3, <2>4, <1>8
  <2>6. fStreak' \subseteq Frames!Whole(s, f)
    BY <2>1, <2>2, <2>4
  <2> QED BY <2>5, <2>6, <1>6, <1>9, <1>11 DEF StreakKept
<1> QED BY <1>11, <1>12, <1>13, <1>14 DEF FramesInv

LEMMA FramesHold ==
  ASSUME OneSharerNoWrap
  PROVE  CallsSpec => []FramesInv
<1>a. Frames!FrameAssemblerAssumption
  BY PartsAssumption
<1>1. CallsInit => FramesInv
  <2> SUFFICES ASSUME CallsInit PROVE FramesInv
    OBVIOUS
  <2>1. /\ fSize = [s \in Sharer |-> [f \in Frames!Frame |-> 0]]
        /\ fPending = <<>> /\ fShown = {} /\ fStreak = {}
    BY DEF CallsInit, Frames!Init
  <2>2. DOMAIN fPending = {}
    BY <2>1
  <2>3. 0 \in 0..MaxChunks
    BY <1>a DEF Frames!FrameAssemblerAssumption
  <2> QED BY <2>1, <2>2, <2>3 DEF FramesInv, SizesTyped, PendingParts, ShownFrames, StreakKept
<1>2. FramesInv /\ [CallsNext]_allVars => FramesInv'
  <2> SUFFICES ASSUME FramesInv, [CallsNext]_allVars PROVE FramesInv'
    OBVIOUS
  <2>1. Frames!Next \/ UNCHANGED framesVars
    BY DEF CallsNext, allVars, LeaseStep, VoiceStep, RelayStep, MeshStep, ShareStep,
       GroupShareStep, FramesStep
  <2>2. ASSUME UNCHANGED framesVars PROVE FramesInv'
    <3>1. fSize' = fSize /\ fPending' = fPending /\ fShown' = fShown /\ fStreak' = fStreak
      BY <2>2 DEF framesVars
    <3>2. SizesTyped' /\ \A s, f : Frames!Whole(s, f)' = Frames!Whole(s, f)
      BY <3>1 DEF FramesInv, SizesTyped, Frames!Whole
    <3>3. \A x, s, f : PartOf(x, s, f)' <=> PartOf(x, s, f)
      BY <3>1, <3>2 DEF PartOf
    <3>4. PendingParts'
      BY <3>1, <3>3 DEF FramesInv, PendingParts, PartOf
    <3>5. ShownFrames' /\ StreakKept'
      BY <3>1, <3>2 DEF FramesInv, ShownFrames, StreakKept
    <3> QED BY <3>2, <3>4, <3>5 DEF FramesInv
  <2> QED BY <1>a, <2>1, <2>2, FrameShared, FrameReceived DEF Frames!Next
<1> QED BY <1>1, <1>2, PTL DEF CallsSpec

\* What is decoded is one frame, all of it and nothing of another, however chunks
\* are lost, repeated and reordered and whichever frames make room.
THEOREM AlwaysShownWhole ==
  ASSUME OneSharerNoWrap
  PROVE  CallsSpec => []ShownWhole
<1>1. FramesInv => ShownWhole
  BY DEF FramesInv, ShownFrames, ShownWhole, Frames!ShownWhole
<1> QED BY <1>1, FramesHold, PTL

\* A frame whose chunks arrive together is shown, whatever is kept of others.
THEOREM TogetherAlwaysShown ==
  ASSUME OneSharerNoWrap
  PROVE  CallsSpec => []TogetherShown
<1>a. MaxChunks \in Nat
  BY PartsAssumption DEF Frames!FrameAssemblerAssumption
<1>1. FramesInv => TogetherShown
  <2> SUFFICES ASSUME FramesInv, NEW s \in Sharer, NEW f \in Frames!Frame, fStreak # {},
                      fStreak = Frames!Whole(s, f)
               PROVE  fStreak \in fShown
    BY DEF TogetherShown, Frames!TogetherShown
  <2>1. PICK t \in Sharer, g \in Frames!Frame :
          /\ fStreak \subseteq Frames!Whole(t, g)
          /\ \/ Frames!Whole(t, g) \in fShown
             \/ g \in DOMAIN fPending /\ fStreak \subseteq fPending[g].chunks
    BY DEF FramesInv, StreakKept
  <2>2. t = s /\ g = f
    BY <2>1 DEF Frames!Whole, Frames!Chunk
  <2>3. ASSUME f \in DOMAIN fPending, fStreak \subseteq fPending[f].chunks
        PROVE  FALSE
    <3>1. PartOf(fPending[f], s, f) /\ fPending[f].received # fPending[f].total
      BY <2>3 DEF FramesInv, PendingParts
    <3>2. fPending[f].chunks = Frames!Whole(s, f)
      BY <2>3, <3>1 DEF PartOf
    <3> QED BY <1>a, <3>1, <3>2, AllIsWhole DEF PartOf, FramesInv
  <2> QED BY <2>1, <2>2, <2>3
<1> QED BY <1>1, FramesHold, PTL

----------------------------------------------------------------------------
(* The types of all parts *)

LEMMA LeaseSpec == CallsSpec => Spec
<1>1. [CallsNext]_allVars => [Next]_vars
  BY DEF CallsNext, allVars, LeaseStep, VoiceStep, RelayStep, MeshStep, ShareStep,
     GroupShareStep, FramesStep
<1> QED BY <1>1, PTL DEF CallsSpec, CallsInit, Spec

\* A group call that is up at the start has started less often than it has users.
LEMMA RelayWithin == ASSUME N <= MaxStarts + 1 PROVE CallsInit => RelayPart!BegunWithin
<1> SUFFICES ASSUME CallsInit PROVE RelayPart!BegunWithin
  OBVIOUS
<1>0. N \in Nat /\ MaxStarts \in Nat
  BY PartsAssumption DEF Relay!GroupCallAssumption
<1>1. RelayPart!Begun
  BY RelayBegins
<1>2. CASE Relay!Init
  BY <1>0, <1>1, <1>2 DEF Relay!Init, RelayPart!BegunWithin
<1>3. CASE \E k \in 2..N : Relay!InitUp(1..k, k - 1)
  <2>1. PICK k \in 2..N : rStarts = k - 1
    BY <1>3 DEF Relay!InitUp
  <2> QED BY <1>0, <1>1, <2>1 DEF RelayPart!BegunWithin
<1> QED BY <1>2, <1>3 DEF CallsInit

\* Every variable of every part keeps its type. The bound on the starts of the
\* group call allows for those of the calls that are up when it begins.
THEOREM TypesHold ==
  ASSUME N <= MaxStarts + 1
  PROVE  CallsSpec => []Types
<1>1. CallsSpec => []TypeOK
  <2>1. CallLeaseAssumption
    BY PartsAssumption
  <2> QED BY <2>1, LeaseSpec, LeaseTypes, PTL
<1>2. CallsSpec => []Voice!TypeOK
  <2>1. VoicePart!VoiceCallAssumption
    BY PartsAssumption DEF Voice!VoiceCallAssumption, VoicePart!VoiceCallAssumption
  <2>2. VoicePart!Spec => []VoicePart!TypeOK
    BY <2>1, VoicePart!VoiceTypes
  <2>3. VoicePart!TypeOK => Voice!TypeOK
    BY DEF Voice!Eph, VoicePart!Eph, Voice!NoEph, VoicePart!NoEph, Voice!Phase,
       VoicePart!Phase, Voice!Packet, VoicePart!Packet, Voice!TypeOK, VoicePart!TypeOK
  <2> QED BY <2>2, <2>3, VoiceSpec, PTL
<1>3. CallsSpec => []Mesh!TypeOK
  <2>1. MeshPart!P2PCallAssumption
    BY PartsAssumption DEF Mesh!P2PCallAssumption, MeshPart!P2PCallAssumption
  <2>2. MeshPart!Spec => []MeshPart!TypeOK
    BY <2>1, MeshPart!MeshTypes
  <2>3. MeshPart!TypeOK => Mesh!TypeOK
    BY DEF Mesh!Type, MeshPart!Type, Mesh!TypeOK, MeshPart!TypeOK
  <2> QED BY <2>2, <2>3, MeshSpec, PTL
<1>4. CallsSpec => []Relay!TypeOK
  <2>1. RelayPart!GroupCallAssumption
    BY PartsAssumption DEF Relay!GroupCallAssumption, RelayPart!GroupCallAssumption
  <2>2. RelayPart!BegunWithin /\ [][RelayPart!Next]_(RelayPart!vars) => []RelayPart!TypeOK
    BY <2>1, RelayPart!RelayTypes
  <2>3. RelayPart!TypeOK => Relay!TypeOK
    BY DEF Relay!User, RelayPart!User, Relay!Nobody, RelayPart!Nobody, Relay!Mode,
       RelayPart!Mode, Relay!Packet, RelayPart!Packet, Relay!Peers, RelayPart!Peers,
       Relay!TypeOK, RelayPart!TypeOK
  <2>4. CallsInit => RelayPart!BegunWithin
    BY RelayWithin
  <2> QED BY <2>2, <2>3, <2>4, RelaySpec, PTL DEF CallsSpec
<1>5. SharingInv => Share!TypeOK
  BY DEF SharingInv
<1>6. GroupSharingInv => GroupShare!TypeOK
  BY DEF GroupSharingInv
<1>7. TypeOK /\ Voice!TypeOK /\ Relay!TypeOK /\ Mesh!TypeOK /\ Share!TypeOK /\ GroupShare!TypeOK
        => Types
  BY DEF Types
<1> QED BY <1>1, <1>2, <1>3, <1>4, <1>5, <1>6, <1>7, SharingHolds, GroupSharingHolds, PTL
=============================================================================
