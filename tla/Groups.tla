------------------------------- MODULE Groups -------------------------------
(***************************************************************************)
(* A group as each of its members has it: who belongs to it, who is an     *)
(* admin, the group key with its version, the text channels with the       *)
(* tombstones of those deleted.  Admins change their copy and broadcast    *)
(* it; a member takes what comes from an admin of its own copy and merges  *)
(* the channels; a merge also drops the tombstones that are 30 days old.   *)
(* Invitations are kept on disk for a contact who is offline; the members  *)
(* follow when the invitation is acknowledged.                             *)
(*                                                                         *)
(* The daemon's check and the window's merge are one step, for both read   *)
(* the file that save_group writes.  A datagram that is lost, or sent to a *)
(* member who is not connected, is one that stays in net.  The users'      *)
(* clocks agree.                                                           *)
(***************************************************************************)
EXTENDS Naturals, FiniteSets

CONSTANTS
  User,
  Founder,    \* who creates the group
  Chan,       \* text channels beside "general" and "fallback"
  TombstoneDays, \* how long a tombstone is kept, 30 in the code
  MaxKeys,    \* bound: group keys made
  MaxEdits,   \* bound: changes an admin makes to the group, kicks left out
  MaxDays     \* bound: the clock

\* Assumed of the constants, where they are given.
GroupsAssumption ==
  /\ Founder \in User /\ TombstoneDays \in Nat \ {0}
  /\ MaxKeys \in Nat \ {0} /\ MaxEdits \in Nat /\ MaxDays \in Nat \ {0}

VARIABLES
  groups,   \* the group on each user's disk
  pending,  \* pending_invites, on disk: for whom, with which key
  syncs,    \* pending_member_syncs: the members to send when v acknowledges
  popup,    \* incoming_group_invite
  net,
  keys,     \* group keys made so far
  edits,
  day,      \* the clock, in days
  knows,    \* history: the keys each user has had
  barred    \* history: for each key, whom it was made to keep out

vars == <<groups, pending, syncs, popup, net, keys, edits, day, knows, barred>>

Key == 1..MaxKeys
\* A channel that is not alive has a tombstone, with the day of its deletion, or
\* is not known: deletedAt is 0.
NoGroup == [members |-> {}, admins |-> {}, key |-> 0, ver |-> 0,
            alive |-> {}, deletedAt |-> [c \in Chan |-> 0]]
Group == [members : SUBSET User, admins : SUBSET User, key : 0..MaxKeys, ver : 0..MaxKeys,
          alive : SUBSET Chan, deletedAt : [Chan -> 0..MaxDays]]
Dead(g) == {c \in Chan : g.deletedAt[c] # 0}
\* The one invitation a popup shows, or none.
NoInvite == [src |-> Founder, key |-> 0]

Invitation(u, v, k) == [type |-> "INVITE", src |-> u, dst |-> v, key |-> k]
Answer(type, u, v) == [type |-> type, src |-> u, dst |-> v]
Update(u, v, g) == [type |-> "UPDATE", src |-> u, dst |-> v, group |-> g]
Sync(u, v, w, admin) ==
  [type |-> "MEMBER_SYNC", src |-> u, dst |-> v, member |-> w, admin |-> admin]

Has(u) == groups[u] # NoGroup
Admin(u) == u \in groups[u].admins
Take(u, type) == {m \in net : m.dst = u /\ m.type = type}

\* broadcast_group_update: the whole group, to its other members.
Broadcast(u, g) == {Update(u, v, g) : v \in g.members \ {u}}

Init ==
  /\ groups = [u \in User |-> NoGroup] /\ pending = [u \in User |-> {}]
  /\ syncs = [u \in User |-> [v \in User |-> {}]]
  /\ popup = [u \in User |-> NoInvite]
  /\ net = {} /\ keys = 0 /\ edits = 0 /\ day = 1
  /\ knows = [u \in User |-> {}] /\ barred = [k \in Key |-> {}]

\* A group that everybody has joined, with the admins A.
InitJoined(A) ==
  /\ groups = [u \in User |-> [NoGroup EXCEPT !.members = User, !.admins = A, !.key = 1]]
  /\ pending = [u \in User |-> {}]
  /\ syncs = [u \in User |-> [v \in User |-> {}]]
  /\ popup = [u \in User |-> NoInvite]
  /\ net = {} /\ keys = 1 /\ edits = 0 /\ day = 1
  /\ knows = [u \in User |-> {1}] /\ barred = [k \in Key |-> {}]

----------------------------------------------------------------------------
(* Invitations *)

\* SendGroupInvite to each of M: at once to those connected, S; kept for the rest.
Invites(u, M, S, g) ==
  /\ pending' = [pending EXCEPT ![u] = {i \in @ : i.to \notin M \ S}
                   \cup {[to |-> v, key |-> g.key] : v \in M \ S}]
  /\ syncs' = [syncs EXCEPT ![u] =
                 [v \in User |-> IF v \in M THEN {[who |-> w, admin |-> w \in g.admins] : w \in g.members}
                                 ELSE @[v]]]

Create(M, S) ==
  /\ keys = 0 /\ keys' = 1 /\ S \subseteq M
  /\ LET g == [NoGroup EXCEPT !.members = M \cup {Founder}, !.admins = {Founder}, !.key = 1]
     IN  /\ groups' = [groups EXCEPT ![Founder] = g]
         /\ Invites(Founder, M, S, g)
  /\ net' = {Invitation(Founder, v, 1) : v \in S}
  /\ knows' = [knows EXCEPT ![Founder] = {1}]
  /\ UNCHANGED <<popup, edits, day, barred>>

\* invite_members_to_group: the update goes to the new member as well.
Invite(u, v, online) ==
  /\ Admin(u) /\ v \notin groups[u].members /\ edits < MaxEdits /\ edits' = edits + 1
  /\ LET g == [groups[u] EXCEPT !.members = @ \cup {v}]
         S == IF online THEN {v} ELSE {}
     IN  /\ groups' = [groups EXCEPT ![u] = g]
         /\ Invites(u, {v}, S, g)
         /\ net' = net \cup {Invitation(u, w, g.key) : w \in S} \cup Broadcast(u, g)
         /\ barred' = [barred EXCEPT ![g.key] = @ \ {v}]
  /\ UNCHANGED <<popup, keys, day, knows>>

\* The invitations kept for v are sent when it connects, again each time; the
\* members that follow are those of now.
Connects(u, v) ==
  /\ \E i \in pending[u] : i.to = v
  /\ net' = net \cup {Invitation(u, v, i.key) : i \in {j \in pending[u] : j.to = v}}
  /\ syncs' = [syncs EXCEPT ![u][v] =
                 IF Has(u) THEN {[who |-> w, admin |-> w \in groups[u].admins] : w \in groups[u].members}
                 ELSE @]
  /\ <<net', syncs'>> # <<net, syncs>>
  /\ UNCHANGED <<groups, pending, popup, keys, edits, day, knows, barred>>

RecvInvite(u) == \E m \in Take(u, "INVITE") :
  /\ net' = net \ {m}
  /\ popup' = IF Has(u) THEN popup ELSE [popup EXCEPT ![u] = [src |-> m.src, key |-> m.key]]
  /\ UNCHANGED <<groups, pending, syncs, keys, edits, day, knows, barred>>

Closes(u) == popup[u] # NoInvite /\ popup' = [popup EXCEPT ![u] = NoInvite]

\* to_skeleton_group: nobody but oneself, version 0, no admin.
AcceptInvite(u) ==
  /\ Closes(u)
  /\ IF Has(u) THEN UNCHANGED <<groups, net, knows>>
     ELSE /\ groups' = [groups EXCEPT ![u] =
                          [NoGroup EXCEPT !.members = {u}, !.key = popup[u].key]]
          /\ knows' = [knows EXCEPT ![u] = @ \cup {popup[u].key}]
          /\ net' = net \cup {Answer("INVITE_ACK", u, popup[u].src)}
  /\ UNCHANGED <<pending, syncs, keys, edits, day, barred>>

RejectInvite(u) ==
  /\ Closes(u) /\ net' = net \cup {Answer("INVITE_NACK", u, popup[u].src)}
  /\ UNCHANGED <<groups, pending, syncs, keys, edits, day, knows, barred>>

Settled(u, v) == pending' = [pending EXCEPT ![u] = {i \in @ : i.to # v}]

RecvInviteAck(u) == \E m \in Take(u, "INVITE_ACK") :
  /\ Settled(u, m.src)
  /\ syncs' = [syncs EXCEPT ![u][m.src] = {}]
  /\ net' = (net \ {m}) \cup {Sync(u, m.src, s.who, s.admin) : s \in syncs[u][m.src]}
  /\ UNCHANGED <<groups, popup, keys, edits, day, knows, barred>>

RecvMemberSync(u) == \E m \in Take(u, "MEMBER_SYNC") :
  /\ net' = net \ {m}
  /\ IF Has(u) /\ m.member \notin groups[u].members
     THEN groups' = [groups EXCEPT ![u].members = @ \cup {m.member},
                                   ![u].admins = @ \cup (IF m.admin THEN {m.member} ELSE {})]
     ELSE UNCHANGED groups
  /\ UNCHANGED <<pending, syncs, popup, keys, edits, day, knows, barred>>

----------------------------------------------------------------------------
(* Removal *)

\* remove_member: a new key that the one removed must not have.
\* Fault: the old key stays.
RemovesOnly(u, v) ==
  /\ keys' = keys + 1
  /\ groups' = [groups EXCEPT ![u].members = @ \ {v}, ![u].admins = @ \ {v}, ![u].ver = @ + 1]
Removes(u, v) ==
  /\ keys' = keys + 1
  /\ groups' = [groups EXCEPT ![u].members = @ \ {v}, ![u].admins = @ \ {v},
                              ![u].ver = @ + 1, ![u].key = keys + 1]

Rotation(u, v) ==
  /\ keys < MaxKeys /\ Removes(u, v)
  /\ knows' = [knows EXCEPT ![u] = @ \cup {groups'[u].key}]
  /\ barred' = [barred EXCEPT ![groups'[u].key] = User \ groups'[u].members]

\* The one removed is no longer among those who are told.
Kick(u, v) ==
  /\ Admin(u) /\ u # v /\ v \in groups[u].members /\ Rotation(u, v)
  /\ net' = net \cup Broadcast(u, groups'[u])
  /\ UNCHANGED <<pending, syncs, popup, edits, day>>

\* An invitation that was declined: nobody is told of the new key.
RecvInviteNack(u) == \E m \in Take(u, "INVITE_NACK") :
  /\ Settled(u, m.src) /\ net' = net \ {m}
  /\ IF m.src \in groups[u].members THEN Rotation(u, m.src)
     ELSE UNCHANGED <<groups, keys, knows, barred>>
  /\ UNCHANGED <<syncs, popup, edits, day>>

\* Leave Group, Delete Group: only one's own copy goes.
Leave(u) ==
  /\ Has(u) /\ groups' = [groups EXCEPT ![u] = NoGroup]
  /\ UNCHANGED <<pending, syncs, popup, net, keys, edits, day, knows, barred>>

----------------------------------------------------------------------------
(* Changes and updates *)

Edits(u, g) ==
  /\ Admin(u) /\ edits < MaxEdits /\ edits' = edits + 1
  /\ groups' = [groups EXCEPT ![u] = g] /\ net' = net \cup Broadcast(u, g)
  /\ UNCHANGED <<pending, syncs, popup, keys, day, knows, barred>>

Promote(u, v) == v \in groups[u].members /\ Edits(u, [groups[u] EXCEPT !.admins = @ \cup {v}])
Demote(u, v) == u # v /\ v \in groups[u].admins /\ Edits(u, [groups[u] EXCEPT !.admins = @ \ {v}])
\* Rename and the avatar, which the members only copy.
Rename(u) == Edits(u, groups[u])
\* A channel has an id of its own, one that nobody knows yet.
CreateChannel(u, c) ==
  /\ \A v \in User : c \notin groups[v].alive \cup Dead(groups[v])
  /\ \A m \in net : m.type = "UPDATE" => c \notin m.group.alive \cup Dead(m.group)
  /\ Edits(u, [groups[u] EXCEPT !.alive = @ \cup {c}])
DeleteChannel(u, c) ==
  /\ c \in groups[u].alive
  /\ Edits(u, [groups[u] EXCEPT !.alive = @ \ {c}, !.deletedAt[c] = day])

DayPasses ==
  /\ day < MaxDays /\ day' = day + 1
  /\ UNCHANGED <<groups, pending, syncs, popup, net, keys, edits, knows, barred>>

Later(s, t) == IF t > s THEN t ELSE s
\* Whether the tombstone of a channel deleted on day t is to be dropped.
Old(t) == t + TombstoneDays <= day

\* The merge: a channel that either side deleted is deleted, at the later of the
\* two times; then the old tombstones are dropped, and nothing is known of their
\* channels any more.
\* Fault: the admin's list replaces one's own.
TakenChannels(mine, r) == [alive |-> r.alive, deletedAt |-> r.deletedAt]
Channels(mine, r) ==
  LET at == [c \in Chan |-> Later(mine.deletedAt[c], r.deletedAt[c])]
  IN  [alive |-> {c \in mine.alive \cup r.alive : at[c] = 0},
       deletedAt |-> [c \in Chan |-> IF Old(at[c]) THEN 0 ELSE at[c]]]

NewerKey(mine, r) == r.ver > mine.ver

Merged(mine, r) ==
  LET c == Channels(mine, r)
      g == [mine EXCEPT !.members = r.members, !.admins = r.admins,
                        !.alive = c.alive, !.deletedAt = c.deletedAt]
  IN  IF NewerKey(mine, r) THEN [g EXCEPT !.key = r.key, !.ver = r.ver] ELSE g

\* GRP_UPDATE: discarded unless an admin of the local copy sent it; an admin
\* whose merge differs broadcasts in turn.
RecvUpdate(u) == \E m \in Take(u, "UPDATE") :
  LET r == m.group
      g == IF u \in r.members THEN Merged(groups[u], r) ELSE NoGroup
      differs == u \in g.admins /\ <<g.alive, Dead(g)>> # <<r.alive, Dead(r)>>
  IN  /\ IF m.src \in groups[u].admins
         THEN /\ groups' = [groups EXCEPT ![u] = g]
              /\ knows' = [knows EXCEPT ![u] = @ \cup ({g.key} \cap Key)]
              /\ net' = (net \ {m}) \cup (IF differs THEN Broadcast(u, g) ELSE {})
         ELSE net' = net \ {m} /\ UNCHANGED <<groups, knows>>
      /\ UNCHANGED <<pending, syncs, popup, keys, edits, day, barred>>

Next ==
  \/ DayPasses
  \/ \E M \in SUBSET (User \ {Founder}) : \E S \in SUBSET M : Create(M, S)
  \/ \E u \in User :
       \/ RecvInvite(u) \/ AcceptInvite(u) \/ RejectInvite(u)
       \/ RecvInviteAck(u) \/ RecvInviteNack(u) \/ RecvMemberSync(u) \/ RecvUpdate(u)
       \/ Leave(u) \/ Rename(u)
       \/ \E v \in User :
            \/ \E online \in BOOLEAN : Invite(u, v, online)
            \/ Connects(u, v) \/ Kick(u, v) \/ Promote(u, v) \/ Demote(u, v)
       \/ \E c \in Chan : CreateChannel(u, c) \/ DeleteChannel(u, c)

Spec == Init /\ [][Next]_vars

----------------------------------------------------------------------------
\* Types.
TypeOK ==
  /\ groups \in [User -> Group]
  /\ \A u \in User : \A i \in pending[u] : i.to \in User /\ i.key \in Key
  /\ popup \in [User -> [src : User, key : 0..MaxKeys]]
  /\ keys \in 0..MaxKeys /\ edits \in 0..MaxEdits /\ day \in 1..MaxDays
  /\ knows \in [User -> SUBSET Key] /\ barred \in [Key -> SUBSET User]

\* A user who was removed never has the keys made from then on, unless invited
\* anew ("Rotates the group key so the removed member can no longer decrypt
\* future traffic", group.rs), whatever invitation or update comes late.  So it
\* is with one admin at a time; two who act at once can hand it to him
\* (MCGroupsKicked).
RemovedLacksKey == \A k \in Key : \A u \in barred[k] : k \notin knows[u]

\* A channel that is deleted in a copy of the group is not alive there again as
\* long as its tombstone is not old, and the time of its deletion never moves
\* back, whatever older updates, merges and answers to them arrive, and while
\* the copy is there.  Once it is old nothing holds: the next merge drops it,
\* and an update of an admin whose copy has the channel alive adds it again.
DeletedStaysDeleted ==
  [][\A u \in User : \A c \in Dead(groups[u]) :
       ~Old(groups[u].deletedAt[c]) /\ groups'[u] # NoGroup
         => c \notin groups'[u].alive /\ groups'[u].deletedAt[c] >= groups[u].deletedAt[c]]_vars
=============================================================================
