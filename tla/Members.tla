------------------------------ MODULE Members ------------------------------
(***************************************************************************)
(* What users keep of each other, each component checked by itself: the    *)
(* contacts (Contacts), a group and its key (Groups), avatars (Avatar),    *)
(* the history of a group's channel (GroupSync), and who leads a group     *)
(* call when its leader is gone (GroupCall).  They share no state: a       *)
(* behaviour is one of the part that is chosen at the start.               *)
(* The module extends Avatar; the others are instances.                    *)
(***************************************************************************)
EXTENDS Avatar

CONSTANTS
  Person,                                 \* of Contacts, Groups and GroupSync
  Founder, Chan, TombstoneDays,           \* of Groups
  N,                                      \* of GroupCall
  MaxEph, MaxCalls,                       \* bounds of Contacts
  MaxKeys, MaxEdits, MaxDays,             \* bounds of Groups,
  MaxGroupSteps,                          \* and of both together
  MaxMsgs, MaxTime, MaxAsks, MaxRepeats,  \* bounds of GroupSync
  MaxStarts, MaxLosses                    \* bounds of GroupCall

VARIABLES
  part,
  contacts, deletes, banned, outgoing, peers, pending, cNet, next, calls, said, owed,
  gGroups, gPending, gSyncs, gPopup, gNet, gKeys, gEdits, gDay, gKnows, gBarred,
  hHist, hCopy, hOut, hNet, hNow, hWritten, hAsks, hPartial,
  fMode, fLeader, fConn, fAlive, fNet, fLed, fStarts, fLosses

People == INSTANCE Contacts WITH net <- cNet, User <- Person
Group == INSTANCE Groups WITH
  groups <- gGroups, pending <- gPending, syncs <- gSyncs, popup <- gPopup, net <- gNet,
  keys <- gKeys, edits <- gEdits, day <- gDay, knows <- gKnows, barred <- gBarred, User <- Person
History == INSTANCE GroupSync WITH
  hist <- hHist, copy <- hCopy, out <- hOut, net <- hNet, now <- hNow, written <- hWritten,
  asks <- hAsks, partial <- hPartial, User <- Person
Failover == INSTANCE GroupCall WITH
  mode <- fMode, leader <- fLeader, conn <- fConn, alive <- fAlive, net <- fNet,
  led <- fLed, starts <- fStarts, losses <- fLosses

\* What the parts assume of their constants.
ASSUME PartsAssumption ==
  /\ People!ContactsAssumption
  /\ Group!GroupsAssumption
  /\ AvatarAssumption
  /\ History!GroupSyncAssumption
  /\ Failover!GroupCallAssumption

contactsVars ==
  <<contacts, deletes, banned, outgoing, peers, pending, cNet, next, calls, said, owed>>
groupsVars == <<gGroups, gPending, gSyncs, gPopup, gNet, gKeys, gEdits, gDay, gKnows, gBarred>>
historyVars == <<hHist, hCopy, hOut, hNet, hNow, hWritten, hAsks, hPartial>>
failoverVars == <<fMode, fLeader, fConn, fAlive, fNet, fLed, fStarts, fLosses>>
allVars ==
  <<part, contactsVars, groupsVars, vars, historyVars, failoverVars>>

MembersInit ==
  /\ part \in {"contacts", "groups", "avatar", "history", "failover"}
  /\ People!Init /\ Group!Init /\ History!Init /\ Failover!InitUp(1..N, 0)
  /\ Init /\ (part # "avatar" => kind = "group")

PeopleStep ==
  /\ part = "contacts" /\ People!Next
  /\ UNCHANGED <<part, groupsVars, vars, historyVars, failoverVars>>
GroupStep ==
  /\ part = "groups" /\ Group!Next /\ gKeys' + gEdits' <= MaxGroupSteps
  /\ UNCHANGED <<part, contactsVars, vars, historyVars, failoverVars>>
AvatarStep ==
  /\ part = "avatar" /\ Next
  /\ UNCHANGED <<part, contactsVars, groupsVars, historyVars, failoverVars>>
HistoryStep ==
  /\ part = "history" /\ History!Next
  /\ UNCHANGED <<part, contactsVars, groupsVars, vars, failoverVars>>
FailoverStep ==
  /\ part = "failover" /\ Failover!Next
  /\ UNCHANGED <<part, contactsVars, groupsVars, vars, historyVars>>

MembersNext == PeopleStep \/ GroupStep \/ AvatarStep \/ HistoryStep \/ FailoverStep

\* What a part's fairness asks of it is disabled where it starts, so that
\* nothing is asked of the other parts.
MembersSpec == MembersInit /\ [][MembersNext]_allVars /\ History!Fairness /\ Failover!Fairness

----------------------------------------------------------------------------
(* The properties of the parts; their comments there say more.  Those of   *)
(* Avatar have their own names here.                                       *)

\* Types, of all parts.
Types == TypeOK /\ People!TypeOK /\ Group!TypeOK /\ History!TypeOK /\ Failover!TypeOK

\* Contacts: nobody becomes a contact without both having agreed to it.
NobodyAddedAlone == People!NobodyAddedAlone

\* Contacts: a queued deletion is kept while the peer still has the contact.
DeletionIsRemembered == People!DeletionIsRemembered

\* Groups: a user who was removed never has the keys made from then on.
RemovedLacksKey == Group!RemovedLacksKey

\* Groups: a deleted channel stays deleted until its tombstone is old, whatever
\* older update arrives.
DeletedStaysDeleted == Group!DeletedStaysDeleted

\* GroupSync: a history stays in the order of its times.
InOrder == History!InOrder

\* GroupSync: a synchronisation comes to an end, whatever is lost.
SyncEnds == History!SyncEnds

\* GroupCall: a member whom nobody talks to any more does not wait for ever.
SilenceEnds == Failover!SilenceEnds
=============================================================================
