------------------------------- MODULE Calls -------------------------------
(***************************************************************************)
(* The components of a call, each checked by itself: who has the socket    *)
(* (CallLease), the one-to-one call (VoiceCall), the group call through a  *)
(* leader (GroupCall) and without one (P2PCall), sharing a screen in each  *)
(* (ScreenShare, GroupScreen) and putting its frames together              *)
(* (FrameAssembler).  They share no state: a behaviour is one of the part  *)
(* that is chosen at the start, and one run covers them all.               *)
(* The module extends CallLease; the others are instances.                 *)
(***************************************************************************)
EXTENDS CallLease

CONSTANTS
  Person, NoPerson,                       \* of VoiceCall and P2PCall
  Viewer,                                 \* of GroupScreen
  Sharer, Ids, Room,                      \* of FrameAssembler
  N,                                      \* of GroupCall
  MaxEph,                                 \* bound of VoiceCall
  MaxStarts, MaxLosses,                   \* bounds of GroupCall
  MaxJoins, MaxPackets,                   \* bounds of P2PCall
  MaxShares, MaxQueue,                    \* bounds of ScreenShare and GroupScreen
  MaxFrames, MaxChunks                    \* bounds of FrameAssembler

VARIABLES
  part,
  vPhase, vPeer, vEph, vOther, vShown, vRing, vNotified, vRejected, vNet, vNext, vHung,
  rMode, rLeader, rConn, rAlive, rNet, rLed, rStarts, rLosses,
  mIn, mPeers, mSharing, mLink, mLeft, mStarts,
  sShown, sPopup, sCmds, sLoop, sJoined, sDown, sViewer, sTexture, sViewing, sAsks, sUp, sShares,
  hShown, hPopup, hCmds, hActive, hLoop, hTargets, hShares, hConnected, hLink, hView, hTexture,
  fSize, fPending, fShown, fStreak

Voice == INSTANCE VoiceCall WITH
  phase <- vPhase, peer <- vPeer, eph <- vEph, other <- vOther, shown <- vShown,
  ring <- vRing, notified <- vNotified, rejected <- vRejected, net <- vNet, next <- vNext,
  hung <- vHung, User <- Person, Nobody <- NoPerson
Relay == INSTANCE GroupCall WITH
  mode <- rMode, leader <- rLeader, conn <- rConn, alive <- rAlive, net <- rNet,
  led <- rLed, starts <- rStarts, losses <- rLosses
Mesh == INSTANCE P2PCall WITH
  in <- mIn, peers <- mPeers, sharing <- mSharing, link <- mLink, left <- mLeft,
  starts <- mStarts, User <- Person, MaxStarts <- MaxJoins, MaxQueue <- MaxPackets
Share == INSTANCE ScreenShare WITH
  shown <- sShown, popup <- sPopup, cmds <- sCmds, loop <- sLoop, joined <- sJoined,
  down <- sDown, viewer <- sViewer, texture <- sTexture, viewing <- sViewing, asks <- sAsks,
  up <- sUp, shares <- sShares
GroupShare == INSTANCE GroupScreen WITH
  shown <- hShown, popup <- hPopup, cmds <- hCmds, active <- hActive, loop <- hLoop,
  targets <- hTargets, shares <- hShares, connected <- hConnected, link <- hLink,
  view <- hView, texture <- hTexture
Frames == INSTANCE FrameAssembler WITH
  size <- fSize, pending <- fPending, shown <- fShown, streak <- fStreak

\* What the parts assume of their constants.
ASSUME PartsAssumption ==
  /\ CallLeaseAssumption
  /\ Voice!VoiceCallAssumption
  /\ Relay!GroupCallAssumption
  /\ Mesh!P2PCallAssumption
  /\ Share!ScreenShareAssumption
  /\ GroupShare!GroupScreenAssumption
  /\ Frames!FrameAssemblerAssumption

voiceVars == <<vPhase, vPeer, vEph, vOther, vShown, vRing, vNotified, vRejected, vNet,
  vNext, vHung>>
relayVars == <<rMode, rLeader, rConn, rAlive, rNet, rLed, rStarts, rLosses>>
meshVars == <<mIn, mPeers, mSharing, mLink, mLeft, mStarts>>
shareVars == <<sShown, sPopup, sCmds, sLoop, sJoined, sDown, sViewer, sTexture, sViewing,
  sAsks, sUp, sShares>>
groupshareVars == <<hShown, hPopup, hCmds, hActive, hLoop, hTargets, hShares, hConnected,
  hLink, hView, hTexture>>
framesVars == <<fSize, fPending, fShown, fStreak>>
allVars ==
  <<part, vars, voiceVars, relayVars, meshVars, shareVars, groupshareVars, framesVars>>

CallsInit ==
  /\ part \in {"lease", "voice", "relay", "mesh", "share", "groupshare", "frames"}
  /\ Init /\ Voice!Init /\ Mesh!Init /\ Share!Init /\ GroupShare!Init /\ Frames!Init
  /\ part # "groupshare" => hConnected = {}
  /\ \/ Relay!Init
     \/ part = "relay" /\ \E k \in 2..N : Relay!InitUp(1..k, k - 1)

LeaseStep ==
  /\ part = "lease" /\ Next
  /\ UNCHANGED <<part, voiceVars, relayVars, meshVars, shareVars, groupshareVars, framesVars>>
VoiceStep ==
  /\ part = "voice" /\ Voice!Next
  /\ UNCHANGED <<part, vars, relayVars, meshVars, shareVars, groupshareVars, framesVars>>
RelayStep ==
  /\ part = "relay" /\ Relay!Next
  /\ UNCHANGED <<part, vars, voiceVars, meshVars, shareVars, groupshareVars, framesVars>>
MeshStep ==
  /\ part = "mesh" /\ Mesh!Next
  /\ UNCHANGED <<part, vars, voiceVars, relayVars, shareVars, groupshareVars, framesVars>>
ShareStep ==
  /\ part = "share" /\ Share!Next
  /\ UNCHANGED <<part, vars, voiceVars, relayVars, meshVars, groupshareVars, framesVars>>
GroupShareStep ==
  /\ part = "groupshare" /\ GroupShare!Next
  /\ UNCHANGED <<part, vars, voiceVars, relayVars, meshVars, shareVars, framesVars>>
FramesStep ==
  /\ part = "frames" /\ Frames!Next
  /\ UNCHANGED <<part, vars, voiceVars, relayVars, meshVars, shareVars, groupshareVars>>

CallsNext ==
  \/ LeaseStep \/ VoiceStep \/ RelayStep \/ MeshStep
  \/ ShareStep \/ GroupShareStep \/ FramesStep

CallsSpec == CallsInit /\ [][CallsNext]_allVars

----------------------------------------------------------------------------
(* The properties of the parts; their comments there say more.  Those of   *)
(* CallLease have their own names here.                                    *)

\* Types, of all parts.
Types == TypeOK /\ Voice!TypeOK /\ Relay!TypeOK /\ Mesh!TypeOK /\ Share!TypeOK /\ GroupShare!TypeOK

\* VoiceCall: two users in a call with each other have one session key.
KeysAgree == Voice!KeysAgree

\* VoiceCall: whoever a call shows is the one that was called.
UpWithCalled == Voice!UpWithCalled

\* VoiceCall: only the loss of the HANGUP lets an end of a call go on alone.
HangupIsHeard == Voice!HangupIsHeard

\* GroupCall: voice passes one leader at most and never returns to its speaker.
NoEcho == Relay!NoEcho

\* GroupCall: nobody becomes a second leader beside one that was there to ask.
StartJoinsExisting == Relay!StartJoinsExisting

\* P2PCall: of two users in a call one knows the other.
OneKnowsTheOther == Mesh!OneKnowsTheOther

\* P2PCall: who hung up is forgotten by all it knew.
LeaversAreForgotten == Mesh!LeaversAreForgotten

\* ScreenShare: nothing is captured while both buttons are off.
CaptureIsShown == Share!CaptureIsShown

\* ScreenShare: a share that is over leaves no picture at the viewer.
StoppedShareLeavesScreen == Share!StoppedShareLeavesScreen

\* ScreenShare: the viewer's window shows only a share that it joined.
ViewingWasAsked == Share!ViewingWasAsked

\* GroupScreen: nothing is captured while both buttons are off, by any thread.
GroupCaptureIsShown == GroupShare!CaptureIsShown

\* GroupScreen: shares that are over leave no picture at any member.
GroupShareLeavesScreen == GroupShare!StoppedShareLeavesScreen

\* FrameAssembler: what is decoded is one whole frame.
ShownWhole == Frames!ShownWhole

\* FrameAssembler: a frame whose chunks arrive together is shown.
TogetherShown == Frames!TogetherShown
=============================================================================
