--------------------------- MODULE MembersProofs ---------------------------
(***************************************************************************)
(* What users keep of each other, for every value of the constants.        *)
(* Avatars of any sizes, any number of changes and of repeats: the file is *)
(* one whole avatar, and an acknowledgement means that the receiver has    *)
(* had it.  What ContactsProofs proves of Contacts holds of the whole too. *)
(* Groups of any users and channels, for any number of days: a channel     *)
(* that was deleted stays so until its tombstone is old, for a copy that   *)
(* changes remembers every younger one; and, as long as the founder is the *)
(* only admin, nobody has a key made after he was removed.  Histories of   *)
(* any messages: in the order of their times.  And the types of all the    *)
(* parts.                                                                  *)
(***************************************************************************)
EXTENDS Members, FiniteSetTheorems, SequenceTheorems, TLAPS

----------------------------------------------------------------------------
(* Avatar *)

\* What is under way is an avatar's, or a chunk of one.
Packets ==
  [type : {"OFFER", "ACK", "NACK"}, of : Avatars, at : {0}]
    \cup {m \in [type : {"DATA"}, of : Avatars, at : Nat] : m.at \in 1..Size[m.of]}

\* What the two ends rely on: an acknowledgement that is under way or has been
\* taken is of an avatar that was on the disk of the receiver.
Inv ==
  /\ net \subseteq Packets
  /\ send.of \in Avatars \cup {0} /\ recv.of \in Avatars \cup {0}
  /\ HeldIsWhole /\ AckMeansSaved
  /\ held # <<>> => held \in saved
  /\ \A m \in net : m.type = "ACK" => Whole(m.of) \in saved

----------------------------------------------------------------------------
\* The avatars, and that none of them is empty.
LEMMA SizeFacts ==
  ASSUME AvatarAssumption
  PROVE  /\ Avatars \subseteq Nat \ {0}
         /\ \A v \in Avatars : Size[v] \in Nat \ {0} /\ Whole(v) # <<>>
<1>1. Len(Size) \in Nat /\ Avatars \subseteq Nat \ {0}
  BY DEF AvatarAssumption, Avatars
<1>2. \A v \in Avatars : Size[v] \in Nat \ {0}
  BY DEF AvatarAssumption, Avatars
<1>3. ASSUME NEW v \in Avatars PROVE Whole(v) # <<>>
  <2>1. 1 \in DOMAIN Whole(v)
    BY <1>2 DEF Whole
  <2>2. 1 \notin DOMAIN <<>>
    OBVIOUS
  <2> QED BY <2>1, <2>2
<1> QED BY <1>1, <1>2, <1>3

\* What the hash lets through is the avatar that was offered.
LEMMA VerifiedIsWhole ==
  ASSUME AvatarAssumption, recv.of \in Avatars, NEW chunks, Verified(chunks)
  PROVE  Assembled(chunks) = Whole(recv.of)
<1>1. Size[recv.of] \in Nat
  BY SizeFacts
<1>2. ASSUME NEW i \in 1..Size[recv.of]
      PROVE  (CHOOSE d \in chunks : d[2] = i) = <<recv.of, i>>
  <2>1. <<recv.of, i>> \in chunks
    BY DEF Verified, Chunk
  <2>2. ASSUME NEW d \in chunks, d[2] = i PROVE d = <<recv.of, i>>
    BY <1>1, <2>2 DEF Verified, Chunk
  <2> QED BY <2>1, <2>2
<1> QED BY <1>2 DEF Assembled, Whole

----------------------------------------------------------------------------
\* The sender adds to the network what its entry is of.
LEMMA SenderStep ==
  ASSUME AvatarAssumption, Inv,
         \/ \E v \in Avatars : Change(v)
         \/ SendOffer \/ SendChunks \/ Retry \/ RecvAck \/ RecvNack
  PROVE  Inv'
<1>1. CASE \E v \in Avatars : Change(v)
  BY <1>1 DEF Change, NoSend, Inv, HeldIsWhole, AckMeansSaved
<1>2. CASE SendOffer
  <2>1. Offer(send.of) \in Packets /\ Offer(send.of).type # "ACK"
    BY <1>2 DEF SendOffer, Inv, Offer, Packets
  <2>2. send'.of = send.of \/ send'.of = 0
    BY <1>2 DEF SendOffer
  <2> QED BY <1>2, <2>1, <2>2 DEF SendOffer, Inv, HeldIsWhole, AckMeansSaved
<1>3. CASE SendChunks
  <2>1. send.of \in Avatars
    BY <1>3 DEF SendChunks, Inv
  <2>2. Offer(send.of) \in Packets /\ Offer(send.of).type # "ACK"
    BY <2>1 DEF Offer, Packets
  <2>3. \A c \in Chunk(send.of) : Data(c) \in Packets /\ Data(c).type # "ACK"
    BY <2>1, SizeFacts DEF Chunk, Data, Packets
  <2>4. \A m \in net' : m \in net \/ (m \in Packets /\ m.type # "ACK")
    BY <1>3, <2>2, <2>3 DEF SendChunks
  <2>5. send'.of = send.of \/ send'.of = 0
    BY <1>3 DEF SendChunks
  <2> QED BY <1>3, <2>4, <2>5 DEF SendChunks, Inv, HeldIsWhole, AckMeansSaved
<1>4. CASE Retry
  <2>1. send'.of \in {send.of, 0}
    BY <1>4 DEF Retry, NoSend
  <2> QED BY <1>4, <2>1 DEF Retry, Inv, HeldIsWhole, AckMeansSaved
<1>5. CASE RecvAck
  <2>1. PICK m \in net : /\ m.type = "ACK" /\ net' = net \ {m}
                         /\ \/ m.of = send.of /\ send' = NoSend /\ ended' = ended \cup {send.of}
                            \/ UNCHANGED <<send, ended>>
    BY <1>5 DEF RecvAck, AckOf
  <2>2. send'.of \in {send.of, 0}
    BY <2>1 DEF NoSend
  <2>3. Whole(m.of) \in saved
    BY <2>1 DEF Inv
  <2> QED BY <1>5, <2>1, <2>2, <2>3 DEF RecvAck, Inv, HeldIsWhole, AckMeansSaved
<1>6. CASE RecvNack
  <2>1. PICK m \in net : net' = net \ {m} /\ UNCHANGED <<recv, held, saved, ended>>
                         /\ send' \in {send, [send EXCEPT !.needs = TRUE]}
    BY <1>6 DEF RecvNack
  <2>2. send'.of = send.of \/ send'.of = 0
    BY <1>6 DEF RecvNack
  <2> QED BY <2>1, <2>2 DEF Inv, HeldIsWhole, AckMeansSaved
<1> QED BY <1>1, <1>2, <1>3, <1>4, <1>5, <1>6

\* The receiver acknowledges what it has on its disk.
LEMMA ReceiverStep ==
  ASSUME AvatarAssumption, Inv, RecvOffer \/ RecvData \/ DropData \/ Expire
  PROVE  Inv'
<1>1. CASE RecvOffer
  <2>1. PICK m \in net : /\ m.type = "OFFER" /\ UNCHANGED <<send, held, saved, ended>>
                         /\ \/ /\ held = Whole(m.of) /\ UNCHANGED recv
                               /\ net' = (net \ {m}) \cup {Reply("ACK", m.of)}
                            \/ /\ recv' = [of |-> m.of, chunks |-> {}]
                               /\ net' \subseteq net \cup {Reply("NACK", m.of)}
    BY <1>1 DEF RecvOffer
  <2>2. m.of \in Avatars
    BY <2>1 DEF Inv, Packets
  <2>3. CASE held = Whole(m.of) /\ UNCHANGED recv /\ net' = (net \ {m}) \cup {Reply("ACK", m.of)}
    <3>1. Whole(m.of) \in saved
      BY <2>2, <2>3, SizeFacts DEF Inv
    <3>2. Reply("ACK", m.of) \in Packets /\ Reply("ACK", m.of).of = m.of
      BY <2>2 DEF Reply, Packets
    <3> QED BY <2>1, <2>3, <3>1, <3>2 DEF Inv, HeldIsWhole, AckMeansSaved
  <2>4. CASE recv' = [of |-> m.of, chunks |-> {}] /\ net' \subseteq net \cup {Reply("NACK", m.of)}
    <3>1. Reply("NACK", m.of) \in Packets /\ Reply("NACK", m.of).type # "ACK"
      BY <2>2 DEF Reply, Packets
    <3>2. recv'.of \in Avatars
      BY <2>2, <2>4
    <3> QED BY <2>1, <2>4, <3>1, <3>2 DEF Inv, HeldIsWhole, AckMeansSaved
  <2> QED BY <2>1, <2>3, <2>4
<1>2. CASE RecvData
  <2> DEFINE Cases(m, chunks) ==
        \/ /\ recv' = [recv EXCEPT !.chunks = chunks] /\ net' = net \ {m}
           /\ UNCHANGED <<held, saved>>
        \/ /\ recv' = NoRecv /\ Verified(chunks)
           /\ held' = Assembled(chunks) /\ saved' = saved \cup {Assembled(chunks)}
           /\ net' = (net \ {m}) \cup {Reply("ACK", recv.of)}
        \/ recv' = NoRecv /\ net' = net \ {m} /\ UNCHANGED <<held, saved>>
  <2>0. PICK m \in net : Cases(m, Stored(<<m.of, m.at>>)) /\ recv.of # 0 /\ UNCHANGED <<send, ended>>
    BY <1>2 DEF RecvData
  <2>1. PICK chunks : Cases(m, chunks) /\ recv.of # 0 /\ UNCHANGED <<send, ended>>
    BY <2>0
  <2>2. recv.of \in Avatars
    BY <2>1 DEF Inv
  <2>3. CASE recv' = [recv EXCEPT !.chunks = chunks] /\ net' = net \ {m} /\ UNCHANGED <<held, saved>>
    <3>1. recv'.of = recv.of \/ recv'.of = 0
      BY <1>2, <2>3 DEF RecvData, NoRecv
    <3> QED BY <2>1, <2>3, <3>1 DEF Inv, HeldIsWhole, AckMeansSaved
  <2>4. CASE /\ recv' = NoRecv /\ Verified(chunks)
             /\ held' = Assembled(chunks) /\ saved' = saved \cup {Assembled(chunks)}
             /\ net' = (net \ {m}) \cup {Reply("ACK", recv.of)}
    <3>1. Assembled(chunks) = Whole(recv.of)
      BY <2>2, <2>4, VerifiedIsWhole
    <3>2. Reply("ACK", recv.of) \in Packets /\ Reply("ACK", recv.of).of = recv.of
      BY <2>2 DEF Reply, Packets
    <3> QED BY <2>1, <2>2, <2>4, <3>1, <3>2 DEF Inv, HeldIsWhole, AckMeansSaved, NoRecv
  <2>5. CASE recv' = NoRecv /\ net' = net \ {m} /\ UNCHANGED <<held, saved>>
    BY <2>1, <2>5 DEF NoRecv, Inv, HeldIsWhole, AckMeansSaved
  <2> QED BY <2>1, <2>3, <2>4, <2>5
<1>3. CASE DropData \/ Expire
  BY <1>3 DEF DropData, Expire, NoRecv, Inv, HeldIsWhole, AckMeansSaved
<1> QED BY <1>1, <1>2, <1>3

\* From the first state on.
LEMMA InvHolds == MembersSpec => []Inv
<1>0. AvatarAssumption
  BY PartsAssumption
<1>1. MembersInit => Inv
  BY DEF MembersInit, Init, NoSend, NoRecv, Inv, HeldIsWhole, AckMeansSaved
<1>2. Inv /\ [MembersNext]_allVars => Inv'
  <2>1. Inv /\ UNCHANGED vars => Inv'
    BY DEF vars, Inv, HeldIsWhole, AckMeansSaved
  <2>2. Inv /\ Next => Inv'
    BY <1>0, SenderStep, ReceiverStep DEF Next
  <2>3. [MembersNext]_allVars => Next \/ UNCHANGED vars
    BY DEF MembersNext, allVars, PeopleStep, GroupStep, AvatarStep, HistoryStep, FailoverStep
  <2> QED BY <2>1, <2>2, <2>3
<1> QED BY <1>1, <1>2, PTL DEF MembersSpec

\* handle_avatar_data and handle_group_avatar_data: the file that is written is
\* one avatar from its first chunk to its last, whichever chunks of which
\* avatars arrived, in any order, late or twice.
THEOREM AvatarIsWhole == MembersSpec => []HeldIsWhole
<1>1. Inv => HeldIsWhole
  BY DEF Inv
<1> QED BY <1>1, InvHolds, PTL

\* handle_avatar_ack: a sending that an acknowledgement ended is of an avatar
\* that the receiver has had on its disk.
THEOREM AvatarAckMeansSaved == MembersSpec => []AckMeansSaved
<1>1. Inv => AckMeansSaved
  BY DEF Inv
<1> QED BY <1>1, InvHolds, PTL

----------------------------------------------------------------------------
(* Contacts *)

PeoplePart == INSTANCE ContactsProofs WITH net <- cNet, User <- Person

\* A step of the whole is one of the contacts, or leaves them alone.
LEMMA PeopleSpec == MembersSpec => PeoplePart!Spec
<1>1. MembersInit => PeoplePart!Init
  BY DEF MembersInit, People!Init, PeoplePart!Init, People!NoSession, PeoplePart!NoSession
<1>2. People!Next => PeoplePart!Next
  BY DEF People!disk, PeoplePart!disk, People!tables, PeoplePart!tables, People!vars,
     PeoplePart!vars, People!Eph, PeoplePart!Eph, People!NoSession,
     PeoplePart!NoSession, People!Session, PeoplePart!Session, People!Packet,
     PeoplePart!Packet, People!Hello, PeoplePart!Hello, People!Sealed,
     PeoplePart!Sealed, People!Sends, PeoplePart!Sends, People!CanRead,
     PeoplePart!CanRead, People!Read, PeoplePart!Read, People!Waiting,
     PeoplePart!Waiting, People!Agreed, PeoplePart!Agreed, People!Connected,
     PeoplePart!Connected, People!Take, PeoplePart!Take, People!Peers, PeoplePart!Peers,
     People!Outgoing, PeoplePart!Outgoing, People!Init, PeoplePart!Init,
     People!SendRequest, PeoplePart!SendRequest, People!Saves, PeoplePart!Saves,
     People!AcceptRequest, PeoplePart!AcceptRequest, People!RejectRequest,
     PeoplePart!RejectRequest, People!Forgets, PeoplePart!Forgets, People!DeleteContact,
     PeoplePart!DeleteContact, People!CallSaves, PeoplePart!CallSaves, People!Connect,
     PeoplePart!Connect, People!AcceptHello, PeoplePart!AcceptHello, People!RecvHello,
     PeoplePart!RecvHello, People!Answers, PeoplePart!Answers, People!RecvIdentity,
     PeoplePart!RecvIdentity, People!RecvConfirm, PeoplePart!RecvConfirm, People!Knows,
     PeoplePart!Knows, People!RecvRequest, PeoplePart!RecvRequest,
     People!RecvRequestAck, PeoplePart!RecvRequestAck, People!RecvBye,
     PeoplePart!RecvBye, People!RecvDelete, PeoplePart!RecvDelete, People!RecvDeleteAck,
     PeoplePart!RecvDeleteAck, People!Timeout, PeoplePart!Timeout, People!Repeat,
     PeoplePart!Repeat, People!NoTables, PeoplePart!NoTables, People!Restart,
     PeoplePart!Restart, People!Next, PeoplePart!Next
<1>3. [MembersNext]_allVars => [PeoplePart!Next]_(PeoplePart!vars)
  BY <1>2 DEF MembersNext, allVars, PeopleStep, GroupStep, AvatarStep, HistoryStep, FailoverStep,
     contactsVars, PeoplePart!vars, PeoplePart!disk, PeoplePart!tables
<1> QED BY <1>1, <1>3, PTL DEF MembersSpec, PeoplePart!Spec

\* ContactsProofs: nobody becomes a contact alone.
THEOREM NobodyEverAddedAlone == MembersSpec => []NobodyAddedAlone
<1>1. PeoplePart!Spec => []PeoplePart!NobodyAddedAlone
  BY PeoplePart!NobodyIsAddedAlone
<1>2. PeoplePart!NobodyAddedAlone => NobodyAddedAlone
  BY DEF NobodyAddedAlone, People!NobodyAddedAlone, PeoplePart!NobodyAddedAlone
<1> QED BY <1>1, <1>2, PeopleSpec, PTL

\* ContactsProofs: a deletion stays queued while the other user has the contact.
THEOREM DeletionsRemembered == MembersSpec => []DeletionIsRemembered
<1>1. PeoplePart!ContactsAssumption
  BY PartsAssumption DEF People!ContactsAssumption, PeoplePart!ContactsAssumption
<1>2. PeoplePart!Spec => []PeoplePart!DeletionIsRemembered
  BY <1>1, PeoplePart!DeletionStaysKnown
<1>3. PeoplePart!DeletionIsRemembered => DeletionIsRemembered
  BY DEF DeletionIsRemembered, People!DeletionIsRemembered, PeoplePart!DeletionIsRemembered
<1> QED BY <1>2, <1>3, PeopleSpec, PTL
----------------------------------------------------------------------------
(* Groups *)

\* A copy of the group has a key that was made, and its version counts no more
\* keys than were made after the first.
Made(g, k) == g = Group!NoGroup \/ (g.key \in 1..k /\ g.ver < k)

\* Whatever carries a key carries one that was made.
Letters ==
  \A m \in gNet :
    /\ m.src \in Person /\ m.dst \in Person
    /\ m.type = "INVITE" => m.key \in 1..gKeys
    /\ m.type = "UPDATE" => m.group \in Group!Group /\ m.group.key \in 1..gKeys /\ m.group.ver < gKeys
    /\ m.type = "MEMBER_SYNC" => m.member \in Person /\ m.admin \in BOOLEAN
Invitations ==
  /\ gPending \in [Person -> SUBSET [to : Person, key : 1..gKeys]]
  /\ gSyncs \in [Person -> [Person -> SUBSET [who : Person, admin : BOOLEAN]]]
  /\ \A u \in Person : gPopup[u] = Group!NoInvite \/ gPopup[u].key \in 1..gKeys

\* No channel is alive and deleted in one copy.
Parted(g) == \A c \in g.alive : g.deletedAt[c] = 0

GroupsInv ==
  /\ Group!TypeOK /\ Letters /\ Invitations
  /\ \A u \in Person : Made(gGroups[u], gKeys) /\ Parted(gGroups[u])

KeysGrow == gKeys' \in gKeys..MaxKeys

\* What is deleted in q, and not yet old, is deleted in g, at that time or later.
Remembers(q, g) ==
  \A c \in Group!Dead(q) : ~Group!Old(q.deletedAt[c]) =>
    c \notin g.alive /\ g.deletedAt[c] >= q.deletedAt[c]

\* A step changes one copy; it stays one with a key that was made, and forgets no
\* channel that was deleted lately, unless the whole copy goes.
Changes(u, g) ==
  /\ g \in Group!Group /\ gGroups' = [gGroups EXCEPT ![u] = g]
  /\ Made(g, gKeys') /\ Parted(g) /\ (g = Group!NoGroup \/ Remembers(gGroups[u], g))
CopyChanges == UNCHANGED gGroups \/ \E u \in Person, g \in Group!Group : Changes(u, g)

LEMMA GroupFields ==
  ASSUME NEW g \in Group!Group
  PROVE  /\ g.members \in SUBSET Person /\ g.admins \in SUBSET Person /\ g.key \in 0..MaxKeys
         /\ g.ver \in 0..MaxKeys /\ g.alive \in SUBSET Chan /\ g.deletedAt \in [Chan -> 0..MaxDays]
         /\ g = [members |-> g.members, admins |-> g.admins, key |-> g.key, ver |-> g.ver,
                 alive |-> g.alive, deletedAt |-> g.deletedAt]
BY DEF Group!Group

LEMMA NoGroupIsGroup ==
  /\ MaxKeys \in Nat \ {0} /\ MaxEdits \in Nat /\ Founder \in Person
  /\ Group!NoGroup \in Group!Group /\ Group!NoGroup.key = 0 /\ Group!NoGroup.members = {}
  /\ Group!NoGroup.admins = {} /\ Group!NoGroup.ver = 0
  /\ Group!Dead(Group!NoGroup) = {} /\ Parted(Group!NoGroup)
<1>1. MaxKeys \in Nat \ {0} /\ MaxEdits \in Nat /\ MaxDays \in Nat \ {0} /\ Founder \in Person
  BY PartsAssumption DEF Group!GroupsAssumption
<1>2. [c \in Chan |-> 0] \in [Chan -> 0..MaxDays]
  BY <1>1
<1> QED BY <1>1, <1>2 DEF Group!NoGroup, Group!Group, Group!Dead, Parted

\* The clock, and how long a tombstone is kept.
LEMMA DayFacts ==
  ASSUME GroupsInv
  PROVE  gDay \in 1..MaxDays /\ MaxDays \in Nat \ {0} /\ TombstoneDays \in Nat \ {0}
BY PartsAssumption DEF Group!GroupsAssumption, GroupsInv, Group!TypeOK

\* A copy with the channels of the one before it.
LEMMA SameChannels ==
  ASSUME GroupsInv, NEW u \in Person, NEW g,
         g.alive = gGroups[u].alive, g.deletedAt = gGroups[u].deletedAt
  PROVE  Parted(g) /\ Remembers(gGroups[u], g)
<1>1. Parted(gGroups[u]) /\ gGroups[u] \in Group!Group
  BY DEF GroupsInv, Group!TypeOK
<1>2. \A c \in Chan : gGroups[u].deletedAt[c] \in Nat
  BY <1>1, GroupFields, PartsAssumption DEF Group!GroupsAssumption
<1>3. Parted(g)
  BY <1>1 DEF Parted
<1>4. \A c \in Group!Dead(gGroups[u]) :
        /\ c \notin gGroups[u].alive /\ gGroups[u].deletedAt[c] >= gGroups[u].deletedAt[c]
  BY <1>1, <1>2 DEF Parted, Group!Dead
<1> QED BY <1>3, <1>4 DEF Remembers

\* A merge deletes what either copy has deleted, at the later time, unless that is
\* old by now.
LEMMA ChannelsMerged ==
  ASSUME GroupsInv, NEW q \in Group!Group, NEW r \in Group!Group, NEW c, c = Group!Channels(q, r)
  PROVE  /\ c.alive \in SUBSET Chan /\ c.deletedAt \in [Chan -> 0..MaxDays]
         /\ Parted(c) /\ Remembers(q, c)
<1> DEFINE at == [x \in Chan |-> Group!Later(q.deletedAt[x], r.deletedAt[x])]
<1>1. c.alive = {x \in q.alive \cup r.alive : at[x] = 0}
      /\ c.deletedAt = [x \in Chan |-> IF Group!Old(at[x]) THEN 0 ELSE at[x]]
  BY DEF Group!Channels
<1>2. /\ q.alive \in SUBSET Chan /\ r.alive \in SUBSET Chan
      /\ q.deletedAt \in [Chan -> 0..MaxDays] /\ r.deletedAt \in [Chan -> 0..MaxDays]
  BY GroupFields
<1>3. \A x \in Chan : at[x] \in 0..MaxDays /\ at[x] >= q.deletedAt[x]
  BY <1>2, DayFacts DEF Group!Later
<1> HIDE DEF at
<1>4. c.deletedAt \in [Chan -> 0..MaxDays]
  <2>1. 0 \in 0..MaxDays
    BY DayFacts
  <2> QED BY <1>1, <1>3, <2>1
<1>5. Parted(c)
  BY <1>1, <1>2 DEF Parted
<1>6. Remembers(q, c)
  <2> SUFFICES ASSUME NEW x \in Group!Dead(q), ~Group!Old(q.deletedAt[x])
               PROVE  x \notin c.alive /\ c.deletedAt[x] >= q.deletedAt[x]
    BY DEF Remembers
  <2>1. x \in Chan /\ q.deletedAt[x] # 0
    BY DEF Group!Dead
  <2>2. at[x] # 0 /\ ~Group!Old(at[x])
    BY <1>2, <1>3, <2>1, DayFacts DEF Group!Old
  <2> QED BY <1>1, <1>3, <2>1, <2>2
<1> QED BY <1>1, <1>2, <1>4, <1>5, <1>6

\* Removing somebody makes a key.
LEMMA RotationChanges ==
  ASSUME GroupsInv, NEW u \in Person, NEW v \in Person, v \in gGroups[u].members,
         Group!Rotation(u, v)
  PROVE  /\ gKeys' = gKeys + 1 /\ KeysGrow /\ gKeys' \in Nat
         /\ \E g \in Group!Group : /\ Changes(u, g) /\ g.key \in 1..gKeys' /\ g.ver < gKeys'
                                   /\ gGroups'[u] = g
<1>1. /\ gKeys \in 0..MaxKeys /\ gKeys < MaxKeys /\ gKeys' = gKeys + 1 /\ MaxKeys \in Nat
      /\ gGroups \in [Person -> Group!Group]
  BY NoGroupIsGroup DEF GroupsInv, Group!TypeOK, Group!Rotation, Group!Removes
<1>2. gGroups[u] \in Group!Group /\ Made(gGroups[u], gKeys)
  BY <1>1 DEF GroupsInv
<1>3. PICK q : q = gGroups[u]
  OBVIOUS
<1>4. gGroups' = [gGroups EXCEPT ![u].members = @ \ {v}, ![u].admins = @ \ {v},
                                 ![u].ver = @ + 1, ![u].key = gKeys + 1]
  BY DEF Group!Rotation, Group!Removes
<1> DEFINE g == [members |-> q.members \ {v}, admins |-> q.admins \ {v}, key |-> gKeys + 1,
                 ver |-> q.ver + 1, alive |-> q.alive, deletedAt |-> q.deletedAt]
<1>5. q.key \in 1..gKeys /\ q.ver < gKeys
  BY <1>2, <1>3, NoGroupIsGroup DEF Made
<1>6. g \in Group!Group
  BY <1>1, <1>2, <1>3, <1>5, GroupFields DEF Group!Group
<1>7. gGroups' = [gGroups EXCEPT ![u] = g]
  BY <1>1, <1>2, <1>3, <1>4, GroupFields DEF Group!Group
<1>8. Made(g, gKeys') /\ g.key \in 1..gKeys' /\ g.ver < gKeys'
  <2>1. q.ver \in Nat
    BY <1>2, <1>3, GroupFields
  <2> QED BY <1>1, <1>3, <1>5, <2>1 DEF Made
<1>c. Parted(g) /\ Remembers(gGroups[u], g)
  <2>1. g.alive = gGroups[u].alive /\ g.deletedAt = gGroups[u].deletedAt
    BY <1>3
  <2> HIDE DEF g
  <2> QED BY <2>1, SameChannels
<1>9. gGroups'[u] = g
  BY <1>1, <1>7
<1>10. Changes(u, g)
  BY <1>6, <1>7, <1>8, <1>c DEF Changes
<1>11. KeysGrow /\ gKeys' \in Nat
  BY <1>1 DEF KeysGrow
<1> HIDE DEF g
<1> QED BY <1>1, <1>6, <1>8, <1>9, <1>10, <1>11

\* What the admin of a copy changes beside its keys.
LEMMA EditChanges ==
  ASSUME GroupsInv, NEW u \in Person, gGroups[u] # Group!NoGroup, NEW g \in Group!Group,
         g.key = gGroups[u].key, g.ver = gGroups[u].ver, Parted(g), Remembers(gGroups[u], g),
         gKeys' = gKeys, gGroups' = [gGroups EXCEPT ![u] = g]
  PROVE  Changes(u, g) /\ g.key \in 1..gKeys /\ g.ver < gKeys /\ gGroups'[u] = g
<1>1. gGroups[u] \in Group!Group /\ Made(gGroups[u], gKeys) /\ gGroups \in [Person -> Group!Group]
  BY DEF GroupsInv, Group!TypeOK
<1>2. gGroups[u].key \in 1..gKeys /\ gGroups[u].ver < gKeys
  BY <1>1 DEF Made
<1> QED BY <1>1, <1>2 DEF Changes, Made

\* An admin's change, and what is broadcast of it.
LEMMA AdminEdits ==
  ASSUME GroupsInv, NEW u \in Person, NEW g \in Group!Group, Group!Edits(u, g),
         g.key = gGroups[u].key, g.ver = gGroups[u].ver, Parted(g), Remembers(gGroups[u], g)
  PROVE  /\ Changes(u, g) /\ UNCHANGED gKeys
         /\ g.key \in 1..gKeys /\ g.ver < gKeys
         /\ gNet' = gNet \cup Group!Broadcast(u, g)
<1>1. /\ gGroups' = [gGroups EXCEPT ![u] = g] /\ u \in gGroups[u].admins
      /\ UNCHANGED gKeys /\ gNet' = gNet \cup Group!Broadcast(u, g)
  BY DEF Group!Edits, Group!Admin
<1>2. gGroups[u] # Group!NoGroup
  BY <1>1, NoGroupIsGroup
<1> QED BY <1>1, <1>2, EditChanges

\* The copy of an admin, and of whoever takes an update from one.
LEMMA UpdateChanges ==
  ASSUME GroupsInv, NEW u \in Person, NEW m \in gNet, m.type = "UPDATE",
         m.src \in gGroups[u].admins, UNCHANGED gKeys,
         NEW g, g = IF u \in m.group.members THEN Group!Merged(gGroups[u], m.group) ELSE Group!NoGroup,
         gGroups' = [gGroups EXCEPT ![u] = g]
  PROVE  Changes(u, g) /\ g \in Group!Group /\ (g # Group!NoGroup => g.key \in 1..gKeys /\ g.ver < gKeys)
<1>1. gGroups[u] \in Group!Group /\ Made(gGroups[u], gKeys) /\ gGroups[u] # Group!NoGroup
  BY NoGroupIsGroup DEF GroupsInv, Group!TypeOK
<1>2. m.group \in Group!Group /\ m.group.key \in 1..gKeys /\ m.group.ver < gKeys
  BY DEF GroupsInv, Letters
<1>3. PICK q \in Group!Group, r \in Group!Group : q = gGroups[u] /\ r = m.group
  BY <1>1, <1>2
<1>4. CASE u \notin r.members
  BY <1>3, <1>4, NoGroupIsGroup DEF Changes, Made
<1>5. CASE u \in r.members
  <2>c. PICK c : c = Group!Channels(q, r)
    OBVIOUS
  <2>d. /\ c.alive \in SUBSET Chan /\ c.deletedAt \in [Chan -> 0..MaxDays]
        /\ Parted(c) /\ Remembers(q, c)
    BY <2>c, ChannelsMerged
  <2> DEFINE k == IF Group!NewerKey(q, r) THEN r.key ELSE q.key
             n == IF Group!NewerKey(q, r) THEN r.ver ELSE q.ver
  <2>1. g = [members |-> r.members, admins |-> r.admins, key |-> k, ver |-> n,
                alive |-> c.alive, deletedAt |-> c.deletedAt]
    <3>1. g = Group!Merged(q, r)
      BY <1>3, <1>5
    <3>3. Group!Merged(q, r) =
            LET e == [q EXCEPT !.members = r.members, !.admins = r.admins,
                               !.alive = c.alive, !.deletedAt = c.deletedAt]
            IN  IF Group!NewerKey(q, r) THEN [e EXCEPT !.key = r.key, !.ver = r.ver] ELSE e
      BY <2>c DEF Group!Merged
    <3>4. CASE Group!NewerKey(q, r)
      BY <3>1, <3>3, <3>4 DEF Group!Group
    <3>5. CASE ~Group!NewerKey(q, r)
      BY <3>1, <3>3, <3>5 DEF Group!Group
    <3> QED BY <3>4, <3>5
  <2>2. k \in 1..gKeys /\ n < gKeys /\ k \in 0..MaxKeys /\ n \in 0..MaxKeys
    BY <1>1, <1>2, <1>3, GroupFields DEF Made
  <2>3. g \in Group!Group
    BY <1>3, <2>1, <2>2, <2>d, GroupFields DEF Group!Group
  <2>4. Parted(g) /\ Remembers(q, g)
    BY <2>1, <2>d DEF Parted, Remembers
  <2> QED BY <1>3, <2>1, <2>2, <2>3, <2>4 DEF Changes, Made
<1> QED BY <1>3, <1>4, <1>5

\* Broadcasting a copy sends letters with keys that were made.
LEMMA BroadcastLetters ==
  ASSUME NEW u \in Person, NEW g \in Group!Group, NEW k \in Nat, g.key \in 1..k, g.ver < k,
         NEW m \in Group!Broadcast(u, g)
  PROVE  /\ m.src \in Person /\ m.dst \in Person /\ m.type = "UPDATE"
         /\ m.group \in Group!Group /\ m.group.key \in 1..k /\ m.group.ver < k
<1>1. PICK v \in g.members : m = [type |-> "UPDATE", src |-> u, dst |-> v, group |-> g]
  BY DEF Group!Broadcast, Group!Update
<1>2. v \in Person
  BY GroupFields
<1> QED BY <1>1, <1>2

\* What a step adds to the letters.
LEMMA LettersKept ==
  ASSUME GroupsInv, KeysGrow, NEW T, gNet' \subseteq gNet \cup T,
         \A m \in T :
           /\ m.src \in Person /\ m.dst \in Person
           /\ m.type = "INVITE" => m.key \in 1..gKeys'
           /\ m.type = "UPDATE" => m.group \in Group!Group /\ m.group.key \in 1..gKeys'
                                  /\ m.group.ver < gKeys'
           /\ m.type = "MEMBER_SYNC" => m.member \in Person /\ m.admin \in BOOLEAN
  PROVE  Letters'
<1>1. gKeys \in Nat /\ gKeys' \in Nat /\ gKeys <= gKeys'
  BY NoGroupIsGroup DEF GroupsInv, Group!TypeOK, KeysGrow
<1>2. \A m \in gNet : m.type = "UPDATE" => m.group.ver \in Nat
  BY GroupFields DEF GroupsInv, Letters
<1> SUFFICES ASSUME NEW m \in gNet'
             PROVE  /\ m.src \in Person /\ m.dst \in Person
                    /\ m.type = "INVITE" => m.key \in 1..gKeys'
                    /\ m.type = "UPDATE" => m.group \in Group!Group /\ m.group.key \in 1..gKeys'
                                           /\ m.group.ver < gKeys'
                    /\ m.type = "MEMBER_SYNC" => m.member \in Person /\ m.admin \in BOOLEAN
  BY DEF Letters
<1>3. CASE m \in gNet
  BY <1>1, <1>2, <1>3 DEF GroupsInv, Letters
<1>4. CASE m \in T
  BY <1>4
<1> QED BY <1>3, <1>4

LEMMA LettersStay ==
  ASSUME GroupsInv, KeysGrow, gNet' \subseteq gNet
  PROVE  Letters'
<1> DEFINE T == {m \in gNet : FALSE}
<1>1. gNet' \subseteq gNet \cup T /\ \A m \in T : FALSE
  OBVIOUS
<1> HIDE DEF T
<1> QED BY <1>1, LettersKept

Keeps == KeysGrow /\ CopyChanges /\ Letters'

LEMMA KeysStay == ASSUME GroupsInv, UNCHANGED gKeys PROVE KeysGrow
BY NoGroupIsGroup DEF GroupsInv, Group!TypeOK, KeysGrow

LEMMA EditsKeep ==
  ASSUME GroupsInv, NEW u \in Person, NEW v \in Person, NEW c,
         \/ Group!Promote(u, v) \/ Group!Demote(u, v) \/ Group!Rename(u)
         \/ Group!CreateChannel(u, c) /\ c \in Chan
         \/ Group!DeleteChannel(u, c) /\ c \in Chan
  PROVE  Keeps
<1>1. ASSUME NEW g \in Group!Group, Group!Edits(u, g),
             g.key = gGroups[u].key, g.ver = gGroups[u].ver, Parted(g), Remembers(gGroups[u], g)
      PROVE  Keeps
  <2>1. /\ Changes(u, g) /\ UNCHANGED gKeys
        /\ g.key \in 1..gKeys /\ g.ver < gKeys
        /\ gNet' = gNet \cup Group!Broadcast(u, g)
    BY <1>1, AdminEdits
  <2>2. KeysGrow /\ gKeys \in Nat
    BY <2>1, KeysStay DEF GroupsInv, Group!TypeOK
  <2>3. \A m \in Group!Broadcast(u, g) :
          /\ m.src \in Person /\ m.dst \in Person /\ m.type = "UPDATE"
          /\ m.group \in Group!Group /\ m.group.key \in 1..gKeys /\ m.group.ver < gKeys
    BY <1>1, <2>1, <2>2, BroadcastLetters
  <2>4. Letters'
    BY <2>1, <2>2, <2>3, LettersKept
  <2> QED BY <1>1, <2>1, <2>2, <2>4 DEF Keeps, CopyChanges
<1>q. PICK q \in Group!Group : q = gGroups[u]
  BY DEF GroupsInv, Group!TypeOK
<1> DEFINE Fits(g) == /\ g \in Group!Group /\ g.key = q.key /\ g.ver = q.ver
                      /\ Parted(g) /\ Remembers(q, g)
<1>s. \A g \in Group!Group : g.alive = q.alive /\ g.deletedAt = q.deletedAt => Parted(g) /\ Remembers(q, g)
  BY <1>q, SameChannels
<1>t. /\ q.deletedAt \in [Chan -> 0..MaxDays] /\ Parted(q)
      /\ gDay \in 1..MaxDays /\ MaxDays \in Nat
  BY <1>q, GroupFields, DayFacts DEF GroupsInv
<1>2. CASE Group!Promote(u, v)
  <2>1. Fits([q EXCEPT !.admins = @ \cup {v}])
    BY <1>s, GroupFields DEF Group!Group
  <2> QED BY <1>1, <1>2, <1>q, <2>1 DEF Group!Promote
<1>3. CASE Group!Demote(u, v)
  <2>1. Fits([q EXCEPT !.admins = @ \ {v}])
    BY <1>s, GroupFields DEF Group!Group
  <2> QED BY <1>1, <1>3, <1>q, <2>1 DEF Group!Demote
<1>4. CASE Group!Rename(u)
  BY <1>1, <1>4, <1>q, <1>s DEF Group!Rename
<1>5. CASE Group!CreateChannel(u, c) /\ c \in Chan
  <2>1. PICK g : g = [q EXCEPT !.alive = @ \cup {c}]
    OBVIOUS
  <2>2. /\ g \in Group!Group /\ g.key = q.key /\ g.ver = q.ver
        /\ g.alive = q.alive \cup {c} /\ g.deletedAt = q.deletedAt
    BY <1>5, <2>1, GroupFields DEF Group!Group
  <2>3. q.deletedAt[c] = 0
    BY <1>5, <1>q DEF Group!CreateChannel, Group!Dead
  <2>4. Parted(g) /\ Remembers(q, g)
    BY <1>t, <2>2, <2>3 DEF Parted, Remembers, Group!Dead
  <2>5. Group!Edits(u, g)
    BY <1>5, <1>q, <2>1 DEF Group!CreateChannel
  <2> QED BY <1>1, <1>q, <2>2, <2>4, <2>5
<1>6. CASE Group!DeleteChannel(u, c) /\ c \in Chan
  <2>1. PICK g : g = [q EXCEPT !.alive = @ \ {c}, !.deletedAt[c] = gDay]
    OBVIOUS
  <2>d. PICK d : d = [q.deletedAt EXCEPT ![c] = gDay]
    OBVIOUS
  <2>t. d \in [Chan -> 0..MaxDays]
    BY <1>6, <1>t, <2>d
  <2>g. g = [q EXCEPT !.alive = @ \ {c}, !.deletedAt = d]
    BY <2>1, <2>d DEF Group!Group
  <2>2. /\ g \in Group!Group /\ g.key = q.key /\ g.ver = q.ver
        /\ g.alive = q.alive \ {c} /\ g.deletedAt = [q.deletedAt EXCEPT ![c] = gDay]
    BY <2>d, <2>t, <2>g, GroupFields DEF Group!Group
  <2>3. q.deletedAt[c] = 0
    BY <1>6, <1>q, <1>t DEF Group!DeleteChannel, Parted
  <2>4. Parted(g) /\ Remembers(q, g)
    BY <1>t, <2>2, <2>3 DEF Parted, Remembers, Group!Dead
  <2>5. Group!Edits(u, g)
    BY <1>6, <1>q, <2>1 DEF Group!DeleteChannel
  <2> QED BY <1>1, <1>q, <2>2, <2>4, <2>5
<1> QED BY <1>2, <1>3, <1>4, <1>5, <1>6

\* Kicks and declined invitations.
LEMMA RemovalsKeep ==
  ASSUME GroupsInv, NEW u \in Person, NEW v \in Person, Group!Kick(u, v) \/ Group!RecvInviteNack(u)
  PROVE  Keeps
<1>1. CASE Group!Kick(u, v)
  <2>1. /\ gKeys' = gKeys + 1 /\ KeysGrow /\ gKeys' \in Nat
        /\ \E g \in Group!Group : /\ Changes(u, g) /\ g.key \in 1..gKeys' /\ g.ver < gKeys'
                                  /\ gGroups'[u] = g
    BY <1>1, RotationChanges DEF Group!Kick
  <2>2. PICK g \in Group!Group : /\ Changes(u, g) /\ g.key \in 1..gKeys' /\ g.ver < gKeys'
                                /\ gGroups'[u] = g
    BY <2>1
  <2>k. PICK k \in Nat : k = gKeys'
    BY <2>1
  <2>3. \A m \in Group!Broadcast(u, g) :
          /\ m.src \in Person /\ m.dst \in Person /\ m.type = "UPDATE"
          /\ m.group \in Group!Group /\ m.group.key \in 1..k /\ m.group.ver < k
    BY <2>2, <2>k, BroadcastLetters
  <2>4. gNet' = gNet \cup Group!Broadcast(u, g)
    BY <1>1, <2>2 DEF Group!Kick
  <2>5. Letters'
    BY <2>1, <2>k, <2>3, <2>4, LettersKept
  <2> QED BY <2>1, <2>2, <2>5 DEF Keeps, CopyChanges
<1>2. CASE Group!RecvInviteNack(u)
  <2>1. PICK m \in gNet :
          /\ gNet' = gNet \ {m}
          /\ IF m.src \in gGroups[u].members THEN Group!Rotation(u, m.src)
             ELSE UNCHANGED <<gGroups, gKeys, gKnows, gBarred>>
    BY <1>2 DEF Group!RecvInviteNack, Group!Take
  <2>2. m.src \in Person
    BY DEF GroupsInv, Letters
  <2>3. KeysGrow /\ CopyChanges
    <3>1. CASE m.src \in gGroups[u].members
      BY <2>1, <2>2, <3>1, RotationChanges DEF CopyChanges
    <3>2. CASE m.src \notin gGroups[u].members
      BY <2>1, <3>2, KeysStay DEF CopyChanges
    <3> QED BY <3>1, <3>2
  <2>4. gNet' \subseteq gNet
    BY <2>1
  <2>5. Letters'
    BY <2>3, <2>4, LettersStay
  <2> QED BY <2>3, <2>5 DEF Keeps
<1> QED BY <1>1, <1>2

\* Founding a group, inviting to it, and leaving it.
LEMMA FoundingKeeps ==
  ASSUME GroupsInv, NEW M \in SUBSET (Person \ {Founder}), NEW S \in SUBSET M, Group!Create(M, S)
  PROVE  Keeps
<1>1. /\ gKeys = 0 /\ gKeys' = 1 /\ gNet' = {Group!Invitation(Founder, v, 1) : v \in S}
      /\ gGroups' = [gGroups EXCEPT ![Founder] =
           [Group!NoGroup EXCEPT !.members = M \cup {Founder}, !.admins = {Founder}, !.key = 1]]
  BY DEF Group!Create
<1>2. KeysGrow
  BY <1>1, NoGroupIsGroup DEF KeysGrow
<1>z. PICK z : z = [c \in Chan |-> 0]
  OBVIOUS
<1>3. PICK g : g = [members |-> M \cup {Founder}, admins |-> {Founder}, key |-> 1, ver |-> 0,
                    alive |-> {}, deletedAt |-> z]
  OBVIOUS
<1>4. g \in Group!Group /\ gGroups' = [gGroups EXCEPT ![Founder] = g]
  <2>1. /\ 0 \in 0..MaxKeys /\ 1 \in 0..MaxKeys /\ M \cup {Founder} \in SUBSET Person
        /\ z \in [Chan -> 0..MaxDays]
    BY <1>z, NoGroupIsGroup, DayFacts
  <2>2. g \in Group!Group
    BY <1>3, <2>1, NoGroupIsGroup DEF Group!Group
  <2>3. g = [Group!NoGroup EXCEPT !.members = M \cup {Founder}, !.admins = {Founder}, !.key = 1]
    <3>1. PICK n \in Group!Group : n = Group!NoGroup
      BY NoGroupIsGroup
    <3>2. ASSUME NEW A, NEW B, NEW e, e = [n EXCEPT !.members = A, !.admins = B, !.key = 1]
          PROVE  e = [members |-> A, admins |-> B, key |-> 1, ver |-> n.ver,
                      alive |-> n.alive, deletedAt |-> n.deletedAt]
      BY <3>2 DEF Group!Group
    <3>3. n.ver = 0 /\ n.alive = {} /\ n.deletedAt = z
      BY <1>z, <3>1 DEF Group!NoGroup
    <3>4. PICK e : e = [n EXCEPT !.members = M \cup {Founder}, !.admins = {Founder}, !.key = 1]
      OBVIOUS
    <3>5. e = g
      BY <1>3, <3>2, <3>3, <3>4
    <3> QED BY <3>1, <3>4, <3>5
  <2> QED BY <1>1, <2>2, <2>3
<1>5. Parted(g) /\ Remembers(gGroups[Founder], g)
  <2>1. gGroups[Founder] = Group!NoGroup
    BY <1>1, NoGroupIsGroup DEF GroupsInv, Made
  <2> QED BY <1>3, <2>1, NoGroupIsGroup DEF Parted, Remembers
<1>6. Made(g, gKeys')
  BY <1>1, <1>3 DEF Made
<1>7. Changes(Founder, g)
  BY <1>3, <1>4, <1>5, <1>6 DEF Changes
<1>8. Letters'
  <2> DEFINE T == {Group!Invitation(Founder, v, 1) : v \in S}
  <2>1. \A m \in T : m.src \in Person /\ m.dst \in Person /\ m.type = "INVITE" /\ m.key \in 1..gKeys'
    BY <1>1, NoGroupIsGroup DEF Group!Invitation
  <2>2. gNet' \subseteq gNet \cup T
    BY <1>1
  <2> HIDE DEF T
  <2> QED BY <1>2, <2>1, <2>2, LettersKept
<1> QED BY <1>2, <1>4, <1>7, <1>8, NoGroupIsGroup DEF Keeps, CopyChanges

LEMMA InvitingKeeps ==
  ASSUME GroupsInv, NEW u \in Person, NEW v \in Person, NEW online \in BOOLEAN,
         Group!Invite(u, v, online)
  PROVE  Keeps
<1>1. gGroups[u] \in Group!Group /\ gGroups[u] # Group!NoGroup /\ UNCHANGED gKeys
  BY NoGroupIsGroup DEF GroupsInv, Group!TypeOK, Group!Invite, Group!Admin
<1>2. PICK q \in Group!Group : q = gGroups[u]
  BY <1>1
<1>3. PICK g : g = [q EXCEPT !.members = @ \cup {v}]
  OBVIOUS
<1>4. /\ g \in Group!Group /\ g.key = q.key /\ g.ver = q.ver
      /\ g.alive = q.alive /\ g.deletedAt = q.deletedAt
  BY <1>3, GroupFields DEF Group!Group
<1>c. Parted(g) /\ Remembers(gGroups[u], g)
  BY <1>2, <1>4, SameChannels
<1>5. gGroups' = [gGroups EXCEPT ![u] = g]
  BY <1>2, <1>3 DEF Group!Invite
<1>6. Changes(u, g) /\ g.key \in 1..gKeys /\ g.ver < gKeys
  BY <1>1, <1>2, <1>4, <1>5, <1>c, EditChanges
<1>7. KeysGrow /\ gKeys \in Nat
  BY <1>1, KeysStay DEF GroupsInv, Group!TypeOK
<1> DEFINE T == {Group!Invitation(u, w, g.key) : w \in IF online THEN {v} ELSE {}}
                  \cup Group!Broadcast(u, g)
<1>8. gNet' \subseteq gNet \cup T
  BY <1>2, <1>3 DEF Group!Invite
<1>9. \A m \in Group!Broadcast(u, g) :
        /\ m.src \in Person /\ m.dst \in Person /\ m.type = "UPDATE"
        /\ m.group \in Group!Group /\ m.group.key \in 1..gKeys /\ m.group.ver < gKeys
  BY <1>4, <1>6, <1>7, BroadcastLetters
<1>10. \A m \in T :
         /\ m.src \in Person /\ m.dst \in Person
         /\ m.type = "INVITE" => m.key \in 1..gKeys
         /\ m.type = "UPDATE" => m.group \in Group!Group /\ m.group.key \in 1..gKeys
                                /\ m.group.ver < gKeys
         /\ m.type # "MEMBER_SYNC"
  <2>1. \A w \in Person : Group!Invitation(u, w, g.key) =
                            [type |-> "INVITE", src |-> u, dst |-> w, key |-> g.key]
    BY DEF Group!Invitation
  <2>2. \A m \in T : m \in Group!Broadcast(u, g) \/ m = Group!Invitation(u, v, g.key)
    OBVIOUS
  <2> HIDE DEF T
  <2> SUFFICES ASSUME NEW m \in T
               PROVE  /\ m.src \in Person /\ m.dst \in Person
                      /\ m.type = "INVITE" => m.key \in 1..gKeys
                      /\ m.type = "UPDATE" => m.group \in Group!Group /\ m.group.key \in 1..gKeys
                                             /\ m.group.ver < gKeys
                      /\ m.type # "MEMBER_SYNC"
    OBVIOUS
  <2>3. CASE m \in Group!Broadcast(u, g)
    BY <1>9, <2>3
  <2>4. CASE m = [type |-> "INVITE", src |-> u, dst |-> v, key |-> g.key]
    BY <1>6, <2>4
  <2> QED BY <2>1, <2>2, <2>3, <2>4
<1> HIDE DEF T
<1>11. Letters'
  BY <1>1, <1>7, <1>8, <1>10, LettersKept
<1> QED BY <1>4, <1>6, <1>7, <1>11 DEF Keeps, CopyChanges

\* The invited: what they are shown, and what they answer.
LEMMA InvitedKeep ==
  ASSUME GroupsInv, NEW u \in Person, NEW v \in Person,
         \/ Group!Connects(u, v) \/ Group!RecvInvite(u) \/ Group!AcceptInvite(u)
         \/ Group!RejectInvite(u) \/ Group!RecvInviteAck(u) \/ Group!Leave(u)
  PROVE  Keeps
<1>0. UNCHANGED gKeys /\ KeysGrow
  <2>1. UNCHANGED gKeys
    BY DEF Group!Connects, Group!RecvInvite, Group!AcceptInvite, Group!RejectInvite,
       Group!RecvInviteAck, Group!Leave
  <2> QED BY <2>1, KeysStay
<1>i. /\ gPending \in [Person -> SUBSET [to : Person, key : 1..gKeys]]
      /\ gSyncs \in [Person -> [Person -> SUBSET [who : Person, admin : BOOLEAN]]]
      /\ gPopup \in [Person -> [src : Person, key : 0..MaxKeys]]
      /\ gPopup[u] = Group!NoInvite \/ gPopup[u].key \in 1..gKeys
      /\ gKeys \in 0..MaxKeys
  BY DEF GroupsInv, Invitations, Group!TypeOK
<1>1. CASE Group!Connects(u, v)
  <2> DEFINE T == {Group!Invitation(u, v, i.key) : i \in {j \in gPending[u] : j.to = v}}
  <2>1. UNCHANGED gGroups /\ gNet' = gNet \cup T
    BY <1>1 DEF Group!Connects
  <2>2. \A m \in T : m.src \in Person /\ m.dst \in Person /\ m.type = "INVITE" /\ m.key \in 1..gKeys
    <3>1. \A i \in gPending[u] : i.key \in 1..gKeys
      BY <1>i
    <3> QED BY <3>1 DEF Group!Invitation
  <2> HIDE DEF T
  <2>3. Letters'
    BY <1>0, <2>1, <2>2, LettersKept
  <2> QED BY <1>0, <2>1, <2>3 DEF Keeps, CopyChanges
<1>2. CASE Group!RecvInvite(u)
  <2>1. UNCHANGED gGroups /\ gNet' \subseteq gNet
    BY <1>2 DEF Group!RecvInvite
  <2> QED BY <1>0, <2>1, LettersStay DEF Keeps, CopyChanges
<1>3. CASE Group!AcceptInvite(u)
  <2>1. gPopup[u] # Group!NoInvite
    BY <1>3 DEF Group!AcceptInvite, Group!Closes
  <2>2. CASE Group!Has(u)
    <3>1. UNCHANGED gGroups /\ gNet' \subseteq gNet
      BY <1>3, <2>2 DEF Group!AcceptInvite
    <3> QED BY <1>0, <3>1, LettersStay DEF Keeps, CopyChanges
  <2>3. CASE ~Group!Has(u)
    <3>1. PICK k : k = gPopup[u].key
      OBVIOUS
    <3>2. k \in 1..gKeys /\ k \in 0..MaxKeys /\ 0 < gKeys
      BY <1>i, <2>1, <3>1
    <3>3. PICK g : g = [members |-> {u}, admins |-> {}, key |-> k, ver |-> 0,
                        alive |-> {}, deletedAt |-> [c \in Chan |-> 0]]
      OBVIOUS
    <3>4. gGroups' = [gGroups EXCEPT ![u] = g]
      BY <1>3, <2>3, <3>1, <3>3 DEF Group!AcceptInvite, Group!NoGroup
    <3>5. g \in Group!Group
      <4>1. [c \in Chan |-> 0] \in [Chan -> 0..MaxDays]
        BY DayFacts
      <4> QED BY <3>2, <3>3, <4>1, NoGroupIsGroup DEF Group!Group
    <3>6. Parted(g) /\ Remembers(gGroups[u], g)
      BY <2>3, <3>3, NoGroupIsGroup DEF Group!Has, Parted, Remembers
    <3>7. Changes(u, g)
      BY <1>0, <3>2, <3>3, <3>4, <3>5, <3>6 DEF Changes, Made
    <3>8. gNet' = gNet \cup {Group!Answer("INVITE_ACK", u, gPopup[u].src)}
      BY <1>3, <2>3 DEF Group!AcceptInvite
    <3>9. gPopup[u].src \in Person
      BY <1>i
    <3>10. Group!Answer("INVITE_ACK", u, gPopup[u].src) =
             [type |-> "INVITE_ACK", src |-> u, dst |-> gPopup[u].src]
      BY DEF Group!Answer
    <3>11. Letters'
      <4> DEFINE T == {Group!Answer("INVITE_ACK", u, gPopup[u].src)}
      <4>1. \A x \in T : x.src \in Person /\ x.dst \in Person /\ x.type = "INVITE_ACK"
        BY <3>9, <3>10
      <4>2. gNet' \subseteq gNet \cup T
        BY <3>8
      <4> HIDE DEF T
      <4> QED BY <1>0, <4>1, <4>2, LettersKept
    <3> QED BY <1>0, <3>5, <3>7, <3>11 DEF Keeps, CopyChanges
  <2> QED BY <2>2, <2>3
<1>4. CASE Group!RejectInvite(u)
  <2>1. UNCHANGED gGroups /\ gNet' = gNet \cup {Group!Answer("INVITE_NACK", u, gPopup[u].src)}
    BY <1>4 DEF Group!RejectInvite
  <2>2. gPopup[u].src \in Person
    BY <1>i
  <2>3. Group!Answer("INVITE_NACK", u, gPopup[u].src) =
          [type |-> "INVITE_NACK", src |-> u, dst |-> gPopup[u].src]
    BY DEF Group!Answer
  <2>4. Letters'
    <3> DEFINE T == {Group!Answer("INVITE_NACK", u, gPopup[u].src)}
    <3>1. \A x \in T : x.src \in Person /\ x.dst \in Person /\ x.type = "INVITE_NACK"
      BY <2>2, <2>3
    <3>2. gNet' \subseteq gNet \cup T
      BY <2>1
    <3> HIDE DEF T
    <3> QED BY <1>0, <3>1, <3>2, LettersKept
  <2> QED BY <1>0, <2>1, <2>4 DEF Keeps, CopyChanges
<1>5. CASE Group!RecvInviteAck(u)
  <2>1. PICK m \in gNet :
          gNet' = (gNet \ {m}) \cup {Group!Sync(u, m.src, s.who, s.admin) : s \in gSyncs[u][m.src]}
    BY <1>5 DEF Group!RecvInviteAck, Group!Take
  <2>2. m.src \in Person
    BY DEF GroupsInv, Letters
  <2> DEFINE T == {Group!Sync(u, m.src, s.who, s.admin) : s \in gSyncs[u][m.src]}
  <2>3. \A x \in T : x.src \in Person /\ x.dst \in Person /\ x.type = "MEMBER_SYNC"
                     /\ x.member \in Person /\ x.admin \in BOOLEAN
    <3>1. \A s \in gSyncs[u][m.src] : s.who \in Person /\ s.admin \in BOOLEAN
      BY <1>i, <2>2
    <3> QED BY <2>2, <3>1 DEF Group!Sync
  <2>4. gNet' \subseteq gNet \cup T
    BY <2>1
  <2> HIDE DEF T
  <2>5. Letters'
    BY <1>0, <2>3, <2>4, LettersKept
  <2>6. UNCHANGED gGroups
    BY <1>5 DEF Group!RecvInviteAck
  <2> QED BY <1>0, <2>5, <2>6 DEF Keeps, CopyChanges
<1>6. CASE Group!Leave(u)
  <2>1. gGroups' = [gGroups EXCEPT ![u] = Group!NoGroup] /\ gNet' \subseteq gNet
    BY <1>6 DEF Group!Leave
  <2>2. Changes(u, Group!NoGroup)
    BY <2>1, NoGroupIsGroup DEF Changes, Made
  <2> QED BY <1>0, <2>1, <2>2, NoGroupIsGroup, LettersStay DEF Keeps, CopyChanges
<1> QED BY <1>1, <1>2, <1>3, <1>4, <1>5, <1>6

\* What the others send: a member, the group.
LEMMA ReceivingKeeps ==
  ASSUME GroupsInv, NEW u \in Person, Group!RecvMemberSync(u) \/ Group!RecvUpdate(u)
  PROVE  Keeps
<1>0. UNCHANGED gKeys /\ KeysGrow /\ gKeys \in Nat
  <2>1. UNCHANGED gKeys
    BY DEF Group!RecvMemberSync, Group!RecvUpdate
  <2> QED BY <2>1, KeysStay DEF GroupsInv, Group!TypeOK
<1>1. CASE Group!RecvMemberSync(u)
  <2>1. PICK m \in gNet :
          /\ m.type = "MEMBER_SYNC" /\ gNet' = gNet \ {m}
          /\ IF Group!Has(u) /\ m.member \notin gGroups[u].members
             THEN gGroups' = [gGroups EXCEPT ![u].members = @ \cup {m.member},
                                ![u].admins = @ \cup (IF m.admin THEN {m.member} ELSE {})]
             ELSE UNCHANGED gGroups
    BY <1>1 DEF Group!RecvMemberSync, Group!Take
  <2>2. Letters'
    BY <1>0, <2>1, LettersStay
  <2>3. CASE Group!Has(u) /\ m.member \notin gGroups[u].members
    <3>1. gGroups \in [Person -> Group!Group] /\ gGroups[u] # Group!NoGroup /\ m.member \in Person
      BY <2>1, <2>3 DEF GroupsInv, Group!TypeOK, Letters, Group!Has
    <3>2. PICK q \in Group!Group : q = gGroups[u]
      BY <3>1
    <3>3. PICK A : A = IF m.admin THEN {m.member} ELSE {}
      OBVIOUS
    <3>4. PICK g : g = [q EXCEPT !.members = @ \cup {m.member}, !.admins = @ \cup A]
      OBVIOUS
    <3>5. gGroups' = [gGroups EXCEPT ![u] = g]
      <4>1. gGroups' = [gGroups EXCEPT ![u].members = @ \cup {m.member}, ![u].admins = @ \cup A]
        BY <2>1, <2>3, <3>3
      <4> QED BY <3>1, <3>2, <3>4, <4>1 DEF Group!Group
    <3>6. /\ g \in Group!Group /\ g.key = q.key /\ g.ver = q.ver
          /\ g.alive = q.alive /\ g.deletedAt = q.deletedAt
      <4>1. A \in SUBSET Person
        BY <3>1, <3>3
      <4> QED BY <3>1, <3>4, <4>1, GroupFields DEF Group!Group
    <3>c. Parted(g) /\ Remembers(gGroups[u], g)
      BY <3>2, <3>6, SameChannels
    <3>7. Changes(u, g)
      BY <1>0, <3>1, <3>2, <3>5, <3>6, <3>c, EditChanges
    <3> QED BY <1>0, <2>2, <3>6, <3>7 DEF Keeps, CopyChanges
  <2>4. CASE ~(Group!Has(u) /\ m.member \notin gGroups[u].members)
    BY <1>0, <2>1, <2>2, <2>4 DEF Keeps, CopyChanges
  <2> QED BY <2>3, <2>4
<1>2. CASE Group!RecvUpdate(u)
  <2>0. PICK m \in gNet :
          /\ m.type = "UPDATE"
          /\ LET g == IF u \in m.group.members THEN Group!Merged(gGroups[u], m.group) ELSE Group!NoGroup
             IN  IF m.src \in gGroups[u].admins
                 THEN /\ gGroups' = [gGroups EXCEPT ![u] = g]
                      /\ \/ gNet' = (gNet \ {m}) \cup {}
                         \/ u \in g.admins /\ gNet' = (gNet \ {m}) \cup Group!Broadcast(u, g)
                 ELSE gNet' = gNet \ {m} /\ UNCHANGED gGroups
    BY <1>2 DEF Group!RecvUpdate, Group!Take
  <2>1. PICK g :
          /\ g = IF u \in m.group.members THEN Group!Merged(gGroups[u], m.group) ELSE Group!NoGroup
          /\ IF m.src \in gGroups[u].admins
             THEN /\ gGroups' = [gGroups EXCEPT ![u] = g]
                  /\ \/ gNet' = (gNet \ {m}) \cup {}
                     \/ u \in g.admins /\ gNet' = (gNet \ {m}) \cup Group!Broadcast(u, g)
             ELSE gNet' = gNet \ {m} /\ UNCHANGED gGroups
    BY <2>0
  <2>2. CASE m.src \in gGroups[u].admins
    <3>1. Changes(u, g) /\ g \in Group!Group /\ (g # Group!NoGroup => g.key \in 1..gKeys /\ g.ver < gKeys)
      BY <1>0, <2>0, <2>1, <2>2, UpdateChanges
    <3>2. CASE gNet' \subseteq gNet
      BY <1>0, <3>1, <3>2, LettersStay DEF Keeps, CopyChanges
    <3>3. CASE u \in g.admins /\ gNet' = (gNet \ {m}) \cup Group!Broadcast(u, g)
      <4>1. g # Group!NoGroup
        BY <3>3, NoGroupIsGroup
      <4>2. \A x \in Group!Broadcast(u, g) :
              /\ x.src \in Person /\ x.dst \in Person /\ x.type = "UPDATE"
              /\ x.group \in Group!Group /\ x.group.key \in 1..gKeys /\ x.group.ver < gKeys
        BY <1>0, <3>1, <4>1, BroadcastLetters
      <4>3. gNet' \subseteq gNet \cup Group!Broadcast(u, g)
        BY <3>3
      <4>4. Letters'
        BY <1>0, <4>2, <4>3, LettersKept
      <4> QED BY <1>0, <3>1, <4>4 DEF Keeps, CopyChanges
    <3> QED BY <2>1, <2>2, <3>2, <3>3
  <2>3. CASE m.src \notin gGroups[u].admins
    BY <1>0, <2>1, <2>3, LettersStay DEF Keeps, CopyChanges
  <2> QED BY <2>2, <2>3
<1> QED BY <1>1, <1>2

LEMMA MembersToSend ==
  ASSUME NEW g \in Group!Group
  PROVE  {[who |-> w, admin |-> w \in g.admins] : w \in g.members} \in SUBSET [who : Person, admin : BOOLEAN]
<1>2. g.members \in SUBSET Person
  BY GroupFields
<1> SUFFICES ASSUME NEW w \in g.members
             PROVE  [who |-> w, admin |-> w \in g.admins] \in [who : Person, admin : BOOLEAN]
  OBVIOUS
<1>3. \A b \in BOOLEAN : [who |-> w, admin |-> b] \in [who : Person, admin : BOOLEAN]
  BY <1>2
<1>4. CASE w \in g.admins
  <2>1. (w \in g.admins) = TRUE
    BY <1>4, Zenon
  <2> QED BY <1>3, <2>1, Zenon
<1>5. CASE ~(w \in g.admins)
  <2>1. (w \in g.admins) = FALSE
    BY <1>5
  <2> QED BY <1>3, <2>1, Zenon
<1> QED BY <1>4, <1>5

\* The invitations that wait, the one on the screen, and the members to send on.
LEMMA InvitesTyped ==
  ASSUME Invitations, NEW u \in Person, NEW M \in SUBSET Person, NEW S \in SUBSET M,
         NEW g \in Group!Group, NEW k \in Nat, gKeys <= k, gKeys \in Nat, g.key \in 1..k,
         Group!Invites(u, M, S, g)
  PROVE  /\ gPending' \in [Person -> SUBSET [to : Person, key : 1..k]]
         /\ gSyncs' \in [Person -> [Person -> SUBSET [who : Person, admin : BOOLEAN]]]
<1>1. /\ gPending \in [Person -> SUBSET [to : Person, key : 1..gKeys]]
      /\ gSyncs \in [Person -> [Person -> SUBSET [who : Person, admin : BOOLEAN]]]
  BY DEF Invitations
<1>2. gPending \in [Person -> SUBSET [to : Person, key : 1..k]]
  <2>1. [to : Person, key : 1..gKeys] \subseteq [to : Person, key : 1..k]
    OBVIOUS
  <2> QED BY <1>1, <2>1
<1>3. {[to |-> v, key |-> g.key] : v \in M \ S} \subseteq [to : Person, key : 1..k]
  OBVIOUS
<1>4. gPending' \in [Person -> SUBSET [to : Person, key : 1..k]]
  <2>1. gPending' = [gPending EXCEPT ![u] = {i \in gPending[u] : i.to \notin M \ S}
                       \cup {[to |-> v, key |-> g.key] : v \in M \ S}]
    BY DEF Group!Invites
  <2> QED BY <1>2, <1>3, <2>1
<1>5. gSyncs' \in [Person -> [Person -> SUBSET [who : Person, admin : BOOLEAN]]]
  <2> DEFINE W == {[who |-> w, admin |-> w \in g.admins] : w \in g.members}
  <2>1. gSyncs' = [gSyncs EXCEPT ![u] = [v \in Person |-> IF v \in M THEN W ELSE gSyncs[u][v]]]
    BY DEF Group!Invites
  <2>2. W \in SUBSET [who : Person, admin : BOOLEAN]
    BY MembersToSend
  <2> HIDE DEF W
  <2> QED BY <1>1, <2>1, <2>2
<1> QED BY <1>4, <1>5

LEMMA InvitationsKept ==
  ASSUME GroupsInv, Group!Next, KeysGrow, CopyChanges
  PROVE  Invitations'
<1> DEFINE P(k) == [Person -> SUBSET [to : Person, key : 1..k]]
           W == [Person -> [Person -> SUBSET [who : Person, admin : BOOLEAN]]]
           Pop == \A u \in Person : gPopup'[u] = Group!NoInvite \/ gPopup'[u].key \in 1..gKeys'
<1>0. /\ gKeys \in Nat /\ gKeys' \in Nat /\ gKeys <= gKeys' /\ MaxKeys \in Nat
      /\ gPending \in P(gKeys) /\ gSyncs \in W /\ Invitations
      /\ gPopup \in [Person -> [src : Person, key : 0..MaxKeys]]
      /\ \A u \in Person : gPopup[u] = Group!NoInvite \/ gPopup[u].key \in 1..gKeys
  BY NoGroupIsGroup DEF GroupsInv, Group!TypeOK, KeysGrow, Invitations
<1>g. /\ \A u \in Person : gGroups[u] \in Group!Group
  BY DEF GroupsInv, Group!TypeOK
<1>p. P(gKeys) \subseteq P(gKeys')
  <2>1. 1..gKeys \subseteq 1..gKeys'
    BY <1>0
  <2>2. [to : Person, key : 1..gKeys] \subseteq [to : Person, key : 1..gKeys']
    BY <2>1
  <2> QED BY <2>2
<1>pop. UNCHANGED gPopup => Pop
  BY <1>0
<1>pend. UNCHANGED gPending => gPending' \in P(gKeys')
  BY <1>0, <1>p
<1>set. \A u, v \in Person : Group!Settled(u, v) => gPending' \in P(gKeys')
  <2> SUFFICES ASSUME NEW u \in Person, NEW v \in Person, Group!Settled(u, v)
               PROVE  gPending' \in P(gKeys')
    OBVIOUS
  <2>1. gPending' = [gPending EXCEPT ![u] = {i \in gPending[u] : i.to # v}]
    BY DEF Group!Settled
  <2> QED BY <1>0, <1>p, <2>1
<1>i. gPending' \in P(gKeys') /\ gSyncs' \in W /\ Pop => Invitations'
  BY DEF Invitations
<1> HIDE DEF P, W, Pop
<1>1. ASSUME NEW M \in SUBSET (Person \ {Founder}), NEW S \in SUBSET M, Group!Create(M, S)
      PROVE  Invitations'
  <2>1. PICK g : /\ g = [Group!NoGroup EXCEPT !.members = M \cup {Founder}, !.admins = {Founder}, !.key = 1]
                 /\ Group!Invites(Founder, M, S, g) /\ gGroups' = [gGroups EXCEPT ![Founder] = g]
    BY <1>1 DEF Group!Create
  <2>2. UNCHANGED gPopup /\ gKeys' = 1
    BY <1>1 DEF Group!Create
  <2>3. g \in Group!Group /\ g.key \in 1..gKeys'
    <3>1. \A X, Y \in SUBSET Person : [Group!NoGroup EXCEPT !.members = X, !.admins = Y, !.key = 1] \in Group!Group
      <4>1. PICK n \in Group!Group : n = Group!NoGroup
        BY NoGroupIsGroup
      <4>2. 1 \in 0..MaxKeys
        BY NoGroupIsGroup
      <4>3. \A X, Y \in SUBSET Person : [n EXCEPT !.members = X, !.admins = Y, !.key = 1] \in Group!Group
        BY <4>2 DEF Group!Group
      <4> QED BY <4>1, <4>3
    <3>2. g \in Group!Group
      BY <2>1, <3>1, NoGroupIsGroup
    <3>3. g.key = 1
      BY <2>1 DEF Group!NoGroup
    <3> QED BY <2>2, <3>2, <3>3
  <2> QED BY <1>0, <1>i, <1>pop, <2>1, <2>2, <2>3, InvitesTyped, NoGroupIsGroup DEF P, W
<1>2. ASSUME NEW u \in Person, NEW v \in Person, NEW online \in BOOLEAN, Group!Invite(u, v, online)
      PROVE  Invitations'
  <2>1. PICK q \in Group!Group : q = gGroups[u]
    BY <1>g
  <2>2. PICK g : g = [q EXCEPT !.members = @ \cup {v}]
    OBVIOUS
  <2>3. g \in Group!Group /\ g.key = q.key
    BY <2>2, GroupFields DEF Group!Group
  <2>4. PICK S : S = IF online THEN {v} ELSE {}
    OBVIOUS
  <2>5. Group!Invites(u, {v}, S, g) /\ UNCHANGED <<gPopup, gKeys>>
    BY <1>2, <2>1, <2>2, <2>4 DEF Group!Invite
  <2>6. gGroups[u] # Group!NoGroup
    BY <1>2, NoGroupIsGroup DEF Group!Invite, Group!Admin
  <2>7. g.key \in 1..gKeys'
    BY <2>1, <2>3, <2>5, <2>6 DEF GroupsInv, Made
  <2>8. S \in SUBSET {v}
    BY <2>4
  <2>s. {v} \in SUBSET Person
    OBVIOUS
  <2>9. gPending' \in P(gKeys') /\ gSyncs' \in W
    BY <1>0, <2>3, <2>5, <2>7, <2>8, <2>s, InvitesTyped DEF P, W
  <2> QED BY <1>i, <1>pop, <2>5, <2>9
<1>3. ASSUME NEW u \in Person, NEW v \in Person, Group!Connects(u, v) PROVE Invitations'
  <2>1. UNCHANGED <<gPending, gPopup>>
    BY <1>3 DEF Group!Connects
  <2> DEFINE X == {[who |-> w, admin |-> w \in gGroups[u].admins] : w \in gGroups[u].members}
  <2>2. gSyncs' = [gSyncs EXCEPT ![u][v] = IF Group!Has(u) THEN X ELSE gSyncs[u][v]]
    BY <1>3 DEF Group!Connects
  <2>3. X \in SUBSET [who : Person, admin : BOOLEAN]
    BY <1>g, MembersToSend
  <2> HIDE DEF X
  <2>4. gSyncs' \in W
    BY <1>0, <2>2, <2>3 DEF W
  <2> QED BY <1>i, <1>pend, <1>pop, <2>1, <2>4
<1>4. ASSUME NEW u \in Person, Group!RecvInvite(u) PROVE Invitations'
  <2>1. PICK m \in gNet : /\ m.type = "INVITE"
                         /\ \/ UNCHANGED gPopup
                            \/ gPopup' = [gPopup EXCEPT ![u] = [src |-> m.src, key |-> m.key]]
    BY <1>4 DEF Group!RecvInvite, Group!Take
  <2>2. m.key \in 1..gKeys
    BY <2>1 DEF GroupsInv, Letters
  <2>3. UNCHANGED <<gPending, gSyncs, gKeys>>
    BY <1>4 DEF Group!RecvInvite
  <2>4. Pop
    BY <1>0, <2>1, <2>2, <2>3 DEF Pop
  <2> QED BY <1>0, <1>i, <1>pend, <2>3, <2>4
<1>5. ASSUME NEW u \in Person, Group!AcceptInvite(u) \/ Group!RejectInvite(u) PROVE Invitations'
  <2>1. gPopup' = [gPopup EXCEPT ![u] = Group!NoInvite] /\ UNCHANGED <<gPending, gSyncs, gKeys>>
    BY <1>5 DEF Group!AcceptInvite, Group!RejectInvite, Group!Closes
  <2>2. Pop
    BY <1>0, <2>1 DEF Pop
  <2> QED BY <1>0, <1>i, <1>pend, <2>1, <2>2
<1>6. ASSUME NEW u \in Person, Group!RecvInviteAck(u) PROVE Invitations'
  <2>1. PICK m \in gNet : Group!Settled(u, m.src) /\ gSyncs' = [gSyncs EXCEPT ![u][m.src] = {}]
    BY <1>6 DEF Group!RecvInviteAck, Group!Take
  <2>2. m.src \in Person /\ UNCHANGED gPopup
    BY <1>6 DEF GroupsInv, Letters, Group!RecvInviteAck
  <2>3. gSyncs' \in W
    BY <1>0, <2>1, <2>2 DEF W
  <2> QED BY <1>i, <1>pop, <1>set, <2>1, <2>2, <2>3
<1>7. ASSUME NEW u \in Person, Group!RecvInviteNack(u) PROVE Invitations'
  <2>1. PICK m \in gNet : Group!Settled(u, m.src)
    BY <1>7 DEF Group!RecvInviteNack, Group!Take
  <2>2. m.src \in Person /\ UNCHANGED <<gPopup, gSyncs>>
    BY <1>7 DEF GroupsInv, Letters, Group!RecvInviteNack
  <2> QED BY <1>0, <1>i, <1>pop, <1>set, <2>1, <2>2
<1>8. ASSUME UNCHANGED <<gPending, gSyncs, gPopup>> PROVE Invitations'
  BY <1>0, <1>i, <1>pend, <1>pop, <1>8
<1>9. ASSUME NEW u \in Person, Group!RecvMemberSync(u) \/ Group!RecvUpdate(u) \/ Group!Leave(u) \/ Group!Rename(u)
      PROVE  Invitations'
  BY <1>8, <1>9 DEF Group!RecvMemberSync, Group!RecvUpdate, Group!Leave, Group!Rename, Group!Edits
<1>10. ASSUME NEW u \in Person, NEW v \in Person, Group!Kick(u, v) \/ Group!Promote(u, v) \/ Group!Demote(u, v)
       PROVE  Invitations'
  BY <1>8, <1>10 DEF Group!Kick, Group!Promote, Group!Demote, Group!Edits
<1>11. ASSUME NEW u \in Person, NEW c \in Chan, Group!CreateChannel(u, c) \/ Group!DeleteChannel(u, c)
       PROVE  Invitations'
  BY <1>8, <1>11 DEF Group!CreateChannel, Group!DeleteChannel, Group!Edits
<1>12. CASE Group!DayPasses
  BY <1>8, <1>12 DEF Group!DayPasses
<1> QED BY <1>1, <1>2, <1>3, <1>4, <1>5, <1>6, <1>7, <1>9, <1>10, <1>11, <1>12 DEF Group!Next

\* Nothing but its own step moves the clock.
LEMMA DayStays ==
  ASSUME Group!Next
  PROVE  UNCHANGED gDay \/ Group!DayPasses
<1>1. ASSUME NEW M, NEW S, Group!Create(M, S) PROVE UNCHANGED gDay
  BY <1>1 DEF Group!Create
<1>2. ASSUME NEW u,
             \/ Group!RecvInvite(u) \/ Group!AcceptInvite(u) \/ Group!RejectInvite(u)
             \/ Group!RecvInviteAck(u) \/ Group!Leave(u) \/ Group!RecvMemberSync(u)
      PROVE  UNCHANGED gDay
  BY <1>2 DEF Group!RecvInvite, Group!AcceptInvite, Group!RejectInvite, Group!RecvInviteAck,
     Group!Leave, Group!RecvMemberSync
<1>3. ASSUME NEW u, Group!RecvInviteNack(u) PROVE UNCHANGED gDay
  BY <1>3 DEF Group!RecvInviteNack
<1>4. ASSUME NEW u, Group!RecvUpdate(u) PROVE UNCHANGED gDay
  BY <1>4 DEF Group!RecvUpdate
<1>5. ASSUME NEW u, NEW g, Group!Edits(u, g) PROVE UNCHANGED gDay
  BY <1>5 DEF Group!Edits
<1>6. ASSUME NEW u, NEW v, NEW online, Group!Invite(u, v, online) PROVE UNCHANGED gDay
  BY <1>6 DEF Group!Invite
<1>7. ASSUME NEW u, NEW v, Group!Connects(u, v) \/ Group!Kick(u, v) PROVE UNCHANGED gDay
  BY <1>7 DEF Group!Connects, Group!Kick
<1>8. ASSUME NEW u, NEW v, Group!Promote(u, v) \/ Group!Demote(u, v) \/ Group!Rename(u)
      PROVE  UNCHANGED gDay
  BY <1>5, <1>8 DEF Group!Promote, Group!Demote, Group!Rename
<1>9. ASSUME NEW u, NEW c, Group!CreateChannel(u, c) \/ Group!DeleteChannel(u, c)
      PROVE  UNCHANGED gDay
  BY <1>5, <1>9 DEF Group!CreateChannel, Group!DeleteChannel
<1> QED BY <1>1, <1>2, <1>3, <1>4, <1>6, <1>7, <1>8, <1>9 DEF Group!Next

\* What else has a type.
LEMMA OthersTyped ==
  ASSUME GroupsInv, Group!Next
  PROVE  /\ gPopup' \in [Person -> [src : Person, key : 0..MaxKeys]]
         /\ gEdits' \in 0..MaxEdits /\ gDay' \in 1..MaxDays
         /\ gKnows' \in [Person -> SUBSET Group!Key] /\ gBarred' \in [Group!Key -> SUBSET Person]
<1> DEFINE Pop == [Person -> [src : Person, key : 0..MaxKeys]]
           K == [Person -> SUBSET Group!Key]
           B == [Group!Key -> SUBSET Person]
<1>0. /\ gPopup \in Pop /\ gEdits \in 0..MaxEdits /\ gKnows \in K /\ gBarred \in B
      /\ gKeys \in 0..MaxKeys /\ MaxKeys \in Nat \ {0} /\ MaxEdits \in Nat /\ Group!Key = 1..MaxKeys
      /\ Founder \in Person
      /\ \A u \in Person : gPopup[u] = Group!NoInvite \/ gPopup[u].key \in 1..gKeys
  BY NoGroupIsGroup DEF GroupsInv, Group!TypeOK, Invitations, Group!Key
<1>g. \A u \in Person : gGroups[u] \in Group!Group
  BY DEF GroupsInv, Group!TypeOK
<1>m. \A m \in gNet : m.src \in Person /\ (m.type = "INVITE" => m.key \in 1..gKeys)
  BY DEF GroupsInv, Letters
<1> HIDE DEF Pop, K, B
<1>p. Group!NoInvite \in [src : Person, key : 0..MaxKeys]
  BY <1>0 DEF Group!NoInvite
<1>r. ASSUME NEW u \in Person, NEW v \in Person, v \in gGroups[u].members, Group!Rotation(u, v)
      PROVE  gKnows' \in K /\ gBarred' \in B
  <2>1. PICK g \in Group!Group : g.key \in 1..gKeys' /\ gGroups'[u] = g
    BY <1>r, RotationChanges
  <2>2. gKeys' \in 1..MaxKeys
    BY <1>0, <1>r DEF Group!Rotation, Group!Removes
  <2>3. PICK k \in Group!Key : k = gGroups'[u].key
    BY <1>0, <2>1, <2>2
  <2>4. PICK X \in SUBSET Person : X = Person \ gGroups'[u].members
    OBVIOUS
  <2>5. /\ gKnows' = [gKnows EXCEPT ![u] = @ \cup {k}]
        /\ gBarred' = [gBarred EXCEPT ![k] = X]
    BY <1>r, <2>3, <2>4 DEF Group!Rotation
  <2> QED BY <1>0, <2>3, <2>4, <2>5 DEF K, B
<1> DEFINE Ok == gPopup' \in Pop /\ gEdits' \in 0..MaxEdits /\ gKnows' \in K /\ gBarred' \in B
<1> HIDE DEF Ok
<1>ok. gPopup' \in Pop /\ gEdits' \in 0..MaxEdits /\ gKnows' \in K /\ gBarred' \in B => Ok
  BY DEF Ok
<1>1. ASSUME NEW M \in SUBSET (Person \ {Founder}), NEW S \in SUBSET M, Group!Create(M, S)
      PROVE  Ok
  <2>1. UNCHANGED <<gPopup, gEdits, gBarred>> /\ gKnows' = [gKnows EXCEPT ![Founder] = {1}]
    BY <1>1 DEF Group!Create
  <2>2. gKnows' \in K
    BY <1>0, <2>1 DEF K
  <2> QED BY <1>0, <1>ok, <2>1, <2>2
<1>2. ASSUME NEW u \in Person, NEW v \in Person, NEW online \in BOOLEAN, Group!Invite(u, v, online)
      PROVE  Ok
  <2>1. UNCHANGED <<gPopup, gKnows>> /\ gEdits < MaxEdits /\ gEdits' = gEdits + 1
    BY <1>2 DEF Group!Invite
  <2>2. PICK k : gBarred' = [gBarred EXCEPT ![k] = @ \ {v}]
    BY <1>2 DEF Group!Invite
  <2>3. gBarred' \in B
    <3>1. CASE k \in Group!Key
      BY <1>0, <2>2, <3>1 DEF B
    <3>2. CASE k \notin Group!Key
      BY <1>0, <2>2, <3>2 DEF B
    <3> QED BY <3>1, <3>2
  <2>4. gEdits' \in 0..MaxEdits
    BY <1>0, <2>1
  <2> QED BY <1>0, <1>ok, <2>1, <2>3, <2>4
<1>3. ASSUME NEW u \in Person, NEW v \in Person,
             \/ Group!Connects(u, v) \/ Group!RecvInviteAck(u) \/ Group!RecvMemberSync(u) \/ Group!Leave(u)
      PROVE  Ok
  <2>1. UNCHANGED <<gPopup, gEdits, gKnows, gBarred>>
    BY <1>3 DEF Group!Connects, Group!RecvInviteAck, Group!RecvMemberSync, Group!Leave
  <2> QED BY <1>0, <1>ok, <2>1
<1>4. ASSUME NEW u \in Person, Group!RecvInvite(u) PROVE Ok
  <2>1. PICK m \in gNet : /\ m.type = "INVITE"
                         /\ \/ UNCHANGED gPopup
                            \/ gPopup' = [gPopup EXCEPT ![u] = [src |-> m.src, key |-> m.key]]
    BY <1>4 DEF Group!RecvInvite, Group!Take
  <2>2. UNCHANGED <<gEdits, gKnows, gBarred>>
    BY <1>4 DEF Group!RecvInvite
  <2>3. m.src \in Person /\ m.key \in 0..MaxKeys
    BY <1>0, <1>m, <2>1
  <2>4. gPopup' \in Pop
    BY <1>0, <2>1, <2>3 DEF Pop
  <2> QED BY <1>0, <1>ok, <2>2, <2>4
<1>5. ASSUME NEW u \in Person, Group!AcceptInvite(u) \/ Group!RejectInvite(u) PROVE Ok
  <2>1. /\ gPopup' = [gPopup EXCEPT ![u] = Group!NoInvite] /\ UNCHANGED <<gEdits, gBarred>>
        /\ gPopup[u] # Group!NoInvite
        /\ \/ UNCHANGED gKnows \/ gKnows' = [gKnows EXCEPT ![u] = @ \cup {gPopup[u].key}]
    BY <1>5 DEF Group!AcceptInvite, Group!RejectInvite, Group!Closes
  <2>2. gPopup[u].key \in Group!Key
    BY <1>0, <2>1
  <2>3. gPopup' \in Pop
    BY <1>0, <1>p, <2>1 DEF Pop
  <2>4. gKnows' \in K
    BY <1>0, <2>1, <2>2 DEF K
  <2> QED BY <1>0, <1>ok, <2>1, <2>3, <2>4
<1>6. ASSUME NEW u \in Person, NEW v \in Person, Group!Kick(u, v) PROVE Ok
  <2>1. v \in gGroups[u].members /\ Group!Rotation(u, v) /\ UNCHANGED <<gPopup, gEdits>>
    BY <1>6 DEF Group!Kick
  <2> QED BY <1>0, <1>ok, <1>r, <2>1
<1>7. ASSUME NEW u \in Person, Group!RecvInviteNack(u) PROVE Ok
  <2>1. PICK m \in gNet :
          IF m.src \in gGroups[u].members THEN Group!Rotation(u, m.src)
          ELSE UNCHANGED <<gGroups, gKeys, gKnows, gBarred>>
    BY <1>7 DEF Group!RecvInviteNack, Group!Take
  <2>2. UNCHANGED <<gPopup, gEdits>>
    BY <1>7 DEF Group!RecvInviteNack
  <2>3. gKnows' \in K /\ gBarred' \in B
    BY <1>0, <1>m, <1>r, <2>1
  <2> QED BY <1>0, <1>ok, <2>2, <2>3
<1>8. ASSUME NEW u \in Person, Group!RecvUpdate(u) PROVE Ok
  <2>1. PICK X \in SUBSET Group!Key : UNCHANGED gKnows \/ gKnows' = [gKnows EXCEPT ![u] = @ \cup X]
    <3>1. \/ UNCHANGED gKnows
          \/ \E g : gKnows' = [gKnows EXCEPT ![u] = @ \cup ({g.key} \cap Group!Key)]
      BY <1>8 DEF Group!RecvUpdate
    <3> QED BY <3>1
  <2>2. UNCHANGED <<gPopup, gEdits, gBarred>>
    BY <1>8 DEF Group!RecvUpdate
  <2>3. gKnows' \in K
    BY <1>0, <2>1 DEF K
  <2> QED BY <1>0, <1>ok, <2>2, <2>3
<1>9. ASSUME NEW u \in Person, NEW g, Group!Edits(u, g) PROVE Ok
  <2>1. UNCHANGED <<gPopup, gKnows, gBarred>> /\ gEdits < MaxEdits /\ gEdits' = gEdits + 1
    BY <1>9 DEF Group!Edits
  <2>2. gEdits' \in 0..MaxEdits
    BY <1>0, <2>1
  <2> QED BY <1>0, <1>ok, <2>1, <2>2
<1>10. ASSUME NEW u \in Person, NEW v \in Person, Group!Promote(u, v) \/ Group!Demote(u, v) \/ Group!Rename(u)
       PROVE  Ok
  BY <1>9, <1>10 DEF Group!Promote, Group!Demote, Group!Rename
<1>11. ASSUME NEW u \in Person, NEW c \in Chan, Group!CreateChannel(u, c) \/ Group!DeleteChannel(u, c)
       PROVE  Ok
  BY <1>9, <1>11 DEF Group!CreateChannel, Group!DeleteChannel
<1>12. ASSUME Group!DayPasses PROVE Ok
  <2>1. UNCHANGED <<gPopup, gEdits, gKnows, gBarred>>
    BY <1>12 DEF Group!DayPasses
  <2> QED BY <1>0, <1>ok, <2>1
<1>13. Ok
  BY <1>1, <1>2, <1>3, <1>4, <1>5, <1>6, <1>7, <1>8, <1>10, <1>11, <1>12 DEF Group!Next
<1>14. gDay' \in 1..MaxDays
  <2>1. UNCHANGED gDay \/ Group!DayPasses
    BY DayStays
  <2> QED BY <2>1, DayFacts DEF Group!DayPasses
<1> QED BY <1>13, <1>14 DEF Ok, Pop, K, B

LEMMA GroupsKeep ==
  ASSUME GroupsInv, Group!Next
  PROVE  Keeps
<1>1. ASSUME NEW M \in SUBSET (Person \ {Founder}), NEW S \in SUBSET M, Group!Create(M, S)
      PROVE  Keeps
  BY <1>1, FoundingKeeps
<1>2. ASSUME NEW u \in Person,
             \/ Group!RecvInvite(u) \/ Group!AcceptInvite(u) \/ Group!RejectInvite(u)
             \/ Group!RecvInviteAck(u) \/ Group!Leave(u)
      PROVE  Keeps
  BY <1>2, InvitedKeep
<1>3. ASSUME NEW u \in Person, Group!RecvMemberSync(u) \/ Group!RecvUpdate(u)
      PROVE  Keeps
  BY <1>3, ReceivingKeeps
<1>4. ASSUME NEW u \in Person, NEW v \in Person, NEW online \in BOOLEAN, Group!Invite(u, v, online)
      PROVE  Keeps
  BY <1>4, InvitingKeeps
<1>5. ASSUME NEW u \in Person, NEW v \in Person, Group!Connects(u, v)
      PROVE  Keeps
  BY <1>5, InvitedKeep
<1>6. ASSUME NEW u \in Person, NEW v \in Person, Group!Kick(u, v) \/ Group!RecvInviteNack(u)
      PROVE  Keeps
  BY <1>6, RemovalsKeep
<1>7. ASSUME NEW u \in Person, NEW v \in Person,
             Group!Promote(u, v) \/ Group!Demote(u, v) \/ Group!Rename(u)
      PROVE  Keeps
  BY <1>7, EditsKeep
<1>8. ASSUME NEW u \in Person, NEW c \in Chan, Group!CreateChannel(u, c) \/ Group!DeleteChannel(u, c)
      PROVE  Keeps
  BY <1>8, EditsKeep
<1>9. CASE Group!DayPasses
  <2>1. UNCHANGED <<gGroups, gKeys, gNet>>
    BY <1>9 DEF Group!DayPasses
  <2> QED BY <2>1, KeysStay, LettersStay DEF Keeps, CopyChanges
<1> QED BY <1>1, <1>2, <1>3, <1>4, <1>5, <1>6, <1>7, <1>8, <1>9 DEF Group!Next

LEMMA GroupsStep ==
  ASSUME GroupsInv, Group!Next
  PROVE  GroupsInv' /\ CopyChanges
<1>1. KeysGrow /\ CopyChanges /\ Letters'
  BY GroupsKeep DEF Keeps
<1>2. Invitations'
  BY <1>1, InvitationsKept
<1>3. /\ gGroups \in [Person -> Group!Group] /\ \A u \in Person : Made(gGroups[u], gKeys)
      /\ gKeys \in 0..MaxKeys /\ MaxKeys \in Nat
  BY NoGroupIsGroup DEF GroupsInv, Group!TypeOK
<1>4. gKeys' \in 0..MaxKeys /\ gKeys <= gKeys'
  BY <1>1, <1>3 DEF KeysGrow
<1>5. \A u \in Person : Made(gGroups[u], gKeys')
  <2>1. \A u \in Person : gGroups[u].ver \in Nat
    BY <1>3, GroupFields
  <2> QED BY <1>3, <1>4, <2>1 DEF Made
<1>6. gGroups' \in [Person -> Group!Group] /\ \A u \in Person : Made(gGroups'[u], gKeys')
  <2>1. CASE UNCHANGED gGroups
    BY <1>3, <1>5, <2>1
  <2>2. CASE \E u \in Person, g \in Group!Group : Changes(u, g)
    BY <1>3, <1>5, <2>2 DEF Changes
  <2> QED BY <1>1, <2>1, <2>2 DEF CopyChanges
<1>7. \A u \in Person : \A i \in gPending'[u] : i.to \in Person /\ i.key \in Group!Key
  BY <1>2, <1>3, <1>4 DEF Invitations, Group!Key
<1>8. Group!TypeOK'
  BY <1>4, <1>6, <1>7, OthersTyped DEF Group!TypeOK
<1>9. \A u \in Person : Parted(gGroups'[u])
  <2>1. \A u \in Person : Parted(gGroups[u])
    BY DEF GroupsInv
  <2> QED BY <1>1, <1>3, <2>1 DEF CopyChanges, Changes
<1> QED BY <1>1, <1>2, <1>6, <1>8, <1>9 DEF GroupsInv, Parted

LEMMA GroupsHold == MembersSpec => []GroupsInv
<1>1. MembersInit => GroupsInv
  <2> SUFFICES ASSUME MembersInit PROVE GroupsInv
    OBVIOUS
  <2>1. Group!Init
    BY DEF MembersInit
  <2>0. MaxDays \in Nat \ {0}
    BY PartsAssumption DEF Group!GroupsAssumption
  <2>2. Group!TypeOK
    BY <2>0, <2>1, NoGroupIsGroup DEF Group!Init, Group!TypeOK, Group!NoInvite, Group!Key
  <2> QED BY <2>1, <2>2, NoGroupIsGroup DEF GroupsInv, Group!Init, Made, Letters, Invitations
<1>2. GroupsInv /\ [MembersNext]_allVars => GroupsInv'
  <2> SUFFICES ASSUME GroupsInv, [MembersNext]_allVars PROVE GroupsInv'
    OBVIOUS
  <2>1. CASE Group!Next
    BY <2>1, GroupsStep
  <2>2. CASE UNCHANGED groupsVars
    BY <2>2 DEF groupsVars, GroupsInv, Group!TypeOK, Made, Parted, Letters, Invitations
  <2> QED BY <2>1, <2>2 DEF MembersNext, allVars, PeopleStep, GroupStep, AvatarStep, HistoryStep, FailoverStep
<1> QED BY <1>1, <1>2, PTL DEF MembersSpec

\* The copies of a group, its invitations and letters keep their types; no key is
\* used that was not made.
THEOREM GroupsTyped == MembersSpec => []Group!TypeOK
<1>1. GroupsInv => Group!TypeOK
  BY DEF GroupsInv
<1> QED BY <1>1, GroupsHold, PTL

\* The merge of two copies: a channel that either of them has deleted is deleted,
\* at the later of the two times, and is not alive again before that tombstone is
\* 30 days old, whatever older update arrives.
THEOREM DeletedChannelsStayDeleted == MembersSpec => DeletedStaysDeleted
<1>1. GroupsInv /\ [MembersNext]_allVars =>
        [\A u \in Person : \A c \in Group!Dead(gGroups[u]) :
           ~Group!Old(gGroups[u].deletedAt[c]) /\ gGroups'[u] # Group!NoGroup
             => c \notin gGroups'[u].alive /\ gGroups'[u].deletedAt[c] >= gGroups[u].deletedAt[c]]_(Group!vars)
  <2> SUFFICES ASSUME GroupsInv, [MembersNext]_allVars, NEW u \in Person, ~UNCHANGED Group!vars,
                      gGroups'[u] # Group!NoGroup
               PROVE  Remembers(gGroups[u], gGroups'[u])
    BY DEF Remembers
  <2>1. CASE Group!Next
    <3>1. CopyChanges /\ gGroups \in [Person -> Group!Group]
      BY <2>1, GroupsStep DEF GroupsInv, Group!TypeOK
    <3>2. Remembers(gGroups[u], gGroups[u])
      BY SameChannels
    <3>3. CASE UNCHANGED gGroups
      BY <3>2, <3>3
    <3>4. CASE \E v \in Person, g \in Group!Group : Changes(v, g)
      <4>1. PICK v \in Person, g \in Group!Group : Changes(v, g)
        BY <3>4
      <4>2. gGroups'[u] = IF u = v THEN g ELSE gGroups[u]
        BY <3>1, <4>1 DEF Changes
      <4> QED BY <3>2, <4>1, <4>2 DEF Changes
    <3> QED BY <3>1, <3>3, <3>4 DEF CopyChanges
  <2>2. CASE UNCHANGED groupsVars
    BY <2>2 DEF groupsVars, Group!vars
  <2> QED BY <2>1, <2>2 DEF MembersNext, allVars, PeopleStep, GroupStep, AvatarStep, HistoryStep, FailoverStep
<1> QED BY <1>1, GroupsHold, PTL DEF MembersSpec, DeletedStaysDeleted, Group!DeletedStaysDeleted

----------------------------------------------------------------------------
(* Groups: keys and those they are to keep out *)

\* Nobody but the founder is an admin, in any copy of the group.
OneAdmin == \A u \in Person : gGroups[u].admins \subseteq {Founder}

\* A key is known to those it was made for, and by whoever has it in a copy.
KeysBarred ==
  /\ RemovedLacksKey
  /\ \A k \in Group!Key : k > gKeys => gBarred[k] = {}
  /\ \A u \in Person : gKnows[u] \subseteq 1..gKeys
  /\ \A u \in Person : gGroups[u].key = 0 \/ gGroups[u].key \in gKnows[u]

\* The founder's copy names nobody whom its key is to keep out.
Admitted(g) ==
  g = Group!NoGroup \/ (Founder \in g.members /\ g.key \in Group!Key /\ g.members \cap gBarred[g.key] = {})

\* Invitations and updates come from the founder, with a key that the one who is
\* invited, or the members named, may have; and nothing changes the founder's copy
\* from outside.
Honest(m) ==
  /\ m.type \in {"INVITE", "UPDATE"} => m.src = Founder /\ m.dst # Founder
  /\ m.type = "INVITE" => m.dst \notin gBarred[m.key]
  /\ m.type = "UPDATE" => m.group.members \cap gBarred[m.group.key] = {}
  /\ m.type = "MEMBER_SYNC" => m.dst # Founder
  /\ m.type \in {"INVITE_ACK", "INVITE_NACK"} => m.src # Founder /\ m.dst = Founder
MayJoin(u, i) == u = Founder /\ i.to # Founder /\ i.to \notin gBarred[i.key]
Welcome(u) ==
  gPopup[u] = Group!NoInvite
  \/ (u # Founder /\ gPopup[u].src = Founder /\ u \notin gBarred[gPopup[u].key])

KeptOut ==
  /\ KeysBarred /\ Admitted(gGroups[Founder])
  /\ \A m \in gNet : Honest(m)
  /\ \A u \in Person : Welcome(u) /\ \A i \in gPending[u] : MayJoin(u, i)

\* What a step has to show, when it bars nobody from a key that there was.
LEMMA StillKeptOut ==
  ASSUME GroupsInv, KeptOut, KeysGrow,
         \A k \in Group!Key : gBarred'[k] \subseteq gBarred[k] \/ k > gKeys,
         \A k \in Group!Key : k > gKeys' => gBarred'[k] = {},
         gBarred' \in [Group!Key -> SUBSET Person],
         \A u \in Person : gKnows'[u] \subseteq 1..gKeys',
         \A u \in Person : \A k \in gKnows'[u] : k \in gKnows[u] \/ u \notin gBarred'[k],
         \A u \in Person : gGroups'[u].key = 0 \/ gGroups'[u].key \in gKnows'[u],
         Admitted(gGroups[Founder])',
         \A m \in gNet' : m \in gNet \/ Honest(m)',
         \A u \in Person : \A i \in gPending'[u] : i \in gPending[u] \/ MayJoin(u, i)',
         \A u \in Person : gPopup'[u] = gPopup[u] \/ Welcome(u)'
  PROVE  KeptOut'
<1>1. gKeys \in 0..MaxKeys /\ MaxKeys \in Nat /\ Group!Key = 1..MaxKeys
  BY NoGroupIsGroup DEF GroupsInv, Group!TypeOK, Group!Key
<1>2. KeysBarred'
  <2>1. ASSUME NEW k \in Group!Key, NEW u \in gBarred'[k], u \in Person
        PROVE  k \notin gKnows'[u]
    <3>1. CASE k \in gKnows[u]
      <4>1. k \in 1..gKeys
        BY <2>1, <3>1 DEF KeptOut, KeysBarred
      <4>2. u \in gBarred[k]
        BY <1>1, <2>1, <4>1
      <4> QED BY <3>1, <4>2 DEF KeptOut, KeysBarred, RemovedLacksKey, Group!RemovedLacksKey
    <3>2. CASE k \notin gKnows[u]
      BY <2>1, <3>2
    <3> QED BY <3>1, <3>2
  <2>2. \A k \in Group!Key : \A u \in gBarred'[k] : u \in Person
    OBVIOUS
  <2> QED BY <2>1, <2>2 DEF KeysBarred, RemovedLacksKey, Group!RemovedLacksKey
<1>3. \A k \in 1..gKeys : gBarred'[k] \subseteq gBarred[k]
  BY <1>1
<1>4. \A m \in gNet' : Honest(m)'
  <2> SUFFICES ASSUME NEW m \in gNet, Honest(m) PROVE Honest(m)'
    BY DEF KeptOut
  <2>1. m.type = "INVITE" => m.key \in 1..gKeys
    BY DEF GroupsInv, Letters
  <2>2. m.type = "UPDATE" => m.group.key \in 1..gKeys
    BY DEF GroupsInv, Letters
  <2> QED BY <1>3, <2>1, <2>2 DEF Honest
<1>5. \A u \in Person : Welcome(u)'
  <2> SUFFICES ASSUME NEW u \in Person, gPopup'[u] = gPopup[u], gPopup[u] # Group!NoInvite
               PROVE  Welcome(u)'
    <3>1. Group!NoInvite' = Group!NoInvite
      BY DEF Group!NoInvite
    <3> QED BY <3>1 DEF Welcome
  <2>1. gPopup[u].key \in 1..gKeys /\ Welcome(u)
    BY DEF GroupsInv, Invitations, KeptOut
  <2> QED BY <1>3, <2>1 DEF Welcome
<1>6. \A u \in Person : \A i \in gPending'[u] : MayJoin(u, i)'
  <2> SUFFICES ASSUME NEW u \in Person, NEW i \in gPending[u] PROVE MayJoin(u, i)'
    OBVIOUS
  <2>1. i.key \in 1..gKeys /\ MayJoin(u, i)
    BY DEF GroupsInv, Invitations, KeptOut
  <2> QED BY <1>3, <2>1 DEF MayJoin
<1> QED BY <1>2, <1>4, <1>5, <1>6 DEF KeptOut

\* So it is when only letters, invitations and the popup change.
LEMMA QuietKeptOut ==
  ASSUME GroupsInv, KeptOut, UNCHANGED <<gGroups, gKeys, gKnows, gBarred>>,
         \A m \in gNet' : m \in gNet \/ Honest(m)',
         \A u \in Person : \A i \in gPending'[u] : i \in gPending[u] \/ MayJoin(u, i)',
         \A u \in Person : gPopup'[u] = gPopup[u] \/ Welcome(u)'
  PROVE  KeptOut'
<1>1. KeysGrow
  BY KeysStay
<1>2. \A k \in Group!Key : gBarred'[k] \subseteq gBarred[k] /\ (k > gKeys' => gBarred'[k] = {})
  BY DEF KeptOut, KeysBarred
<1>3. \A u \in Person : /\ gKnows'[u] \subseteq 1..gKeys'
                        /\ gGroups'[u].key = 0 \/ gGroups'[u].key \in gKnows'[u]
  BY DEF KeptOut, KeysBarred
<1>4. \A u \in Person : \A k \in gKnows'[u] : k \in gKnows[u] \/ u \notin gBarred'[k]
  OBVIOUS
<1>b. gBarred' \in [Group!Key -> SUBSET Person]
  BY DEF GroupsInv, Group!TypeOK
<1>5. Admitted(gGroups[Founder])'
  BY DEF KeptOut, Admitted
<1> QED BY <1>1, <1>2, <1>3, <1>4, <1>5, <1>b, StillKeptOut

\* The only admin is the founder, who is in his own copy.
LEMMA AdminIsFounder ==
  ASSUME GroupsInv, OneAdmin, KeptOut, NEW u \in Person, Group!Admin(u)
  PROVE  /\ u = Founder /\ gGroups[u] # Group!NoGroup /\ gGroups[u] \in Group!Group
         /\ Founder \in gGroups[u].members /\ gGroups[u].key \in 1..gKeys
         /\ gGroups[u].members \cap gBarred[gGroups[u].key] = {}
<1>1. u = Founder
  BY DEF OneAdmin, Group!Admin
<1>2. gGroups[u] # Group!NoGroup /\ gGroups[u] \in Group!Group
  BY NoGroupIsGroup DEF Group!Admin, GroupsInv, Group!TypeOK
<1>3. gGroups[u].key \in 1..gKeys
  BY <1>2 DEF GroupsInv, Made
<1> QED BY <1>1, <1>2, <1>3 DEF KeptOut, Admitted

\* The founder tells of a copy only those who are in it.
LEMMA BroadcastIsHonest ==
  ASSUME NEW g, NEW B, g.members \cap B[g.key] = {}, NEW m \in Group!Broadcast(Founder, g)
  PROVE  /\ m.type = "UPDATE" /\ m.src = Founder /\ m.dst # Founder
         /\ m.group.members \cap B[m.group.key] = {}
<1>1. PICK v \in g.members \ {Founder} : m = [type |-> "UPDATE", src |-> Founder, dst |-> v, group |-> g]
  BY DEF Group!Broadcast, Group!Update
<1> QED BY <1>1

\* An invitation, and the answer to one.
LEMMA AskingKeepsOut ==
  ASSUME GroupsInv, KeptOut, NEW u \in Person, NEW v \in Person,
         Group!Connects(u, v) \/ Group!RecvInvite(u) \/ Group!RejectInvite(u)
  PROVE  KeptOut'
<1>1. CASE Group!Connects(u, v)
  <2> DEFINE T == {Group!Invitation(u, v, i.key) : i \in {j \in gPending[u] : j.to = v}}
  <2>1. UNCHANGED <<gGroups, gKeys, gKnows, gBarred, gPending, gPopup>> /\ gNet' = gNet \cup T
    BY <1>1 DEF Group!Connects
  <2>2. ASSUME NEW m \in T PROVE Honest(m)
    <3>1. PICK i \in gPending[u] : i.to = v /\ m = [type |-> "INVITE", src |-> u, dst |-> v, key |-> i.key]
      BY <2>2 DEF Group!Invitation
    <3>2. MayJoin(u, i)
      BY DEF KeptOut
    <3> QED BY <3>1, <3>2 DEF MayJoin, Honest
  <2>3. \A m \in T : Honest(m)'
    BY <2>1, <2>2 DEF Honest
  <2> HIDE DEF T
  <2>4. \A m \in gNet' : m \in gNet \/ Honest(m)'
    BY <2>1, <2>3
  <2> QED BY <2>1, <2>4, QuietKeptOut
<1>2. CASE Group!RecvInvite(u)
  <2>1. PICK m \in gNet :
          /\ m.type = "INVITE" /\ m.dst = u /\ gNet' = gNet \ {m}
          /\ \/ UNCHANGED gPopup
             \/ gPopup' = [gPopup EXCEPT ![u] = [src |-> m.src, key |-> m.key]]
    BY <1>2 DEF Group!RecvInvite, Group!Take
  <2>2. UNCHANGED <<gGroups, gKeys, gKnows, gBarred, gPending>>
    BY <1>2 DEF Group!RecvInvite
  <2>3. m.src = Founder /\ u # Founder /\ u \notin gBarred[m.key]
    BY <2>1 DEF KeptOut, Honest
  <2>4. gPopup \in [Person -> [src : Person, key : 0..MaxKeys]]
    BY DEF GroupsInv, Group!TypeOK
  <2>5. \A w \in Person : gPopup'[w] = gPopup[w] \/ Welcome(w)'
    <3>1. CASE UNCHANGED gPopup
      BY <3>1
    <3>2. CASE gPopup' = [gPopup EXCEPT ![u] = [src |-> m.src, key |-> m.key]]
      <4>1. gPopup'[u] = [src |-> m.src, key |-> m.key]
        BY <2>4, <3>2
      <4>2. Welcome(u)'
        BY <2>2, <2>3, <4>1 DEF Welcome
      <4> QED BY <2>4, <3>2, <4>2
    <3> QED BY <2>1, <3>1, <3>2
  <2>6. \A x \in gNet' : x \in gNet
    BY <2>1
  <2> QED BY <2>2, <2>5, <2>6, QuietKeptOut
<1>3. CASE Group!RejectInvite(u)
  <2>1. /\ gPopup[u] # Group!NoInvite /\ gPopup' = [gPopup EXCEPT ![u] = Group!NoInvite]
        /\ gNet' = gNet \cup {Group!Answer("INVITE_NACK", u, gPopup[u].src)}
        /\ UNCHANGED <<gGroups, gKeys, gKnows, gBarred, gPending>>
    BY <1>3 DEF Group!RejectInvite, Group!Closes
  <2>2. gPopup[u].src = Founder /\ u # Founder
    BY <2>1 DEF KeptOut, Welcome
  <2>3. PICK a : a = [type |-> "INVITE_NACK", src |-> u, dst |-> Founder]
    OBVIOUS
  <2>4. \A x \in gNet' : x \in gNet \/ Honest(x)'
    <3>1. gNet' = gNet \cup {a}
      BY <2>1, <2>2, <2>3 DEF Group!Answer
    <3>2. Honest(a)'
      BY <2>2, <2>3 DEF Honest
    <3> QED BY <3>1, <3>2
  <2>5. gPopup \in [Person -> [src : Person, key : 0..MaxKeys]]
    BY DEF GroupsInv, Group!TypeOK
  <2>6. \A w \in Person : gPopup'[w] = gPopup[w] \/ gPopup'[w] = Group!NoInvite
    BY <2>1, <2>5
  <2>n. Group!NoInvite' = Group!NoInvite
    BY DEF Group!NoInvite
  <2>7. \A w \in Person : gPopup'[w] = gPopup[w] \/ Welcome(w)'
    BY <2>6, <2>n DEF Welcome
  <2> QED BY <2>1, <2>4, <2>7, QuietKeptOut
<1> QED BY <1>1, <1>2, <1>3

\* The members that follow an accepted invitation are sent to whoever accepted.
LEMMA AckKeepsOut ==
  ASSUME GroupsInv, KeptOut, NEW u \in Person, Group!RecvInviteAck(u)
  PROVE  KeptOut'
<1>1. PICK m \in gNet :
        /\ m.type = "INVITE_ACK" /\ m.dst = u
        /\ gPending' = [gPending EXCEPT ![u] = {i \in gPending[u] : i.to # m.src}]
        /\ gNet' = (gNet \ {m}) \cup {Group!Sync(u, m.src, s.who, s.admin) : s \in gSyncs[u][m.src]}
        /\ UNCHANGED <<gGroups, gKeys, gKnows, gBarred, gPopup>>
  BY DEF Group!RecvInviteAck, Group!Take, Group!Settled
<1>2. m.src # Founder
  BY <1>1 DEF KeptOut, Honest
<1> DEFINE T == {Group!Sync(u, m.src, s.who, s.admin) : s \in gSyncs[u][m.src]}
<1>3. \A x \in T : x.type = "MEMBER_SYNC" /\ x.dst = m.src
  BY DEF Group!Sync
<1>4. gNet' \subseteq gNet \cup T
  BY <1>1
<1> HIDE DEF T
<1>5. \A x \in gNet' : x \in gNet \/ Honest(x)'
  BY <1>2, <1>3, <1>4 DEF Honest
<1>6. gPending \in [Person -> SUBSET [to : Person, key : 1..gKeys]]
  BY DEF GroupsInv, Invitations
<1>7. \A w \in Person : gPending'[w] \subseteq gPending[w]
  BY <1>1, <1>6
<1> QED BY <1>1, <1>5, <1>7, QuietKeptOut

\* Those who are invited never are those whom the key is to keep out.
LEMMA AcceptingKeepsOut ==
  ASSUME GroupsInv, GroupsInv', KeptOut, NEW u \in Person, Group!AcceptInvite(u)
  PROVE  KeptOut'
<1>1. /\ gPopup[u] # Group!NoInvite /\ gPopup' = [gPopup EXCEPT ![u] = Group!NoInvite]
      /\ UNCHANGED <<gKeys, gBarred, gPending>>
  BY DEF Group!AcceptInvite, Group!Closes
<1>2. /\ gPopup[u].src = Founder /\ u # Founder /\ u \notin gBarred[gPopup[u].key]
      /\ gPopup[u].key \in 1..gKeys
  BY <1>1 DEF KeptOut, Welcome, GroupsInv, Invitations
<1>3. gPopup \in [Person -> [src : Person, key : 0..MaxKeys]] /\ gGroups \in [Person -> Group!Group]
      /\ gKnows \in [Person -> SUBSET Group!Key]
  BY DEF GroupsInv, Group!TypeOK
<1>4. \A w \in Person : gPopup'[w] = gPopup[w] \/ Welcome(w)'
  <2>1. \A w \in Person : gPopup'[w] = gPopup[w] \/ gPopup'[w] = Group!NoInvite
    BY <1>1, <1>3
  <2>n. Group!NoInvite' = Group!NoInvite
    BY DEF Group!NoInvite
  <2> QED BY <2>1, <2>n DEF Welcome
<1>5. CASE Group!Has(u)
  <2>1. UNCHANGED <<gGroups, gNet, gKnows>>
    BY <1>5 DEF Group!AcceptInvite
  <2> QED BY <1>1, <1>4, <2>1, QuietKeptOut
<1>6. CASE ~Group!Has(u)
  <2>1. PICK k : k = gPopup[u].key
    OBVIOUS
  <2>2. PICK g : g = [members |-> {u}, admins |-> {}, key |-> k, ver |-> 0,
                        alive |-> {}, deletedAt |-> [c \in Chan |-> 0]]
    OBVIOUS
  <2>3. /\ gGroups' = [gGroups EXCEPT ![u] = g] /\ gKnows' = [gKnows EXCEPT ![u] = @ \cup {k}]
        /\ gNet' = gNet \cup {Group!Answer("INVITE_ACK", u, gPopup[u].src)}
    BY <1>6, <2>1, <2>2 DEF Group!AcceptInvite, Group!NoGroup
  <2>4. KeysGrow
    BY <1>1, KeysStay
  <2>5. \A j \in Group!Key : gBarred'[j] \subseteq gBarred[j] /\ (j > gKeys' => gBarred'[j] = {})
    BY <1>1 DEF KeptOut, KeysBarred
  <2>6. \A w \in Person : /\ gKnows'[w] \subseteq 1..gKeys'
                          /\ \A j \in gKnows'[w] : j \in gKnows[w] \/ w \notin gBarred'[j]
    BY <1>1, <1>2, <1>3, <2>1, <2>3 DEF KeptOut, KeysBarred
  <2>7. \A w \in Person : gGroups'[w].key = 0 \/ gGroups'[w].key \in gKnows'[w]
    BY <1>3, <2>2, <2>3 DEF KeptOut, KeysBarred
  <2>8. Admitted(gGroups[Founder])'
    <3>1. gGroups'[Founder] = gGroups[Founder]
      BY <1>2, <1>3, <2>3, NoGroupIsGroup
    <3> QED BY <1>1, <3>1 DEF KeptOut, Admitted
  <2>a. PICK a : a = [type |-> "INVITE_ACK", src |-> u, dst |-> Founder]
    OBVIOUS
  <2>9. \A x \in gNet' : x \in gNet \/ Honest(x)'
    <3>1. gNet' = gNet \cup {a}
      BY <1>2, <2>3, <2>a DEF Group!Answer
    <3>2. Honest(a)'
      BY <1>2, <2>a DEF Honest
    <3> QED BY <3>1, <3>2
  <2>b. gBarred' \in [Group!Key -> SUBSET Person]
    BY <1>1 DEF GroupsInv, Group!TypeOK
  <2> QED BY <1>1, <1>4, <2>b, <2>4, <2>5, <2>6, <2>7, <2>8, <2>9, StillKeptOut
<1> QED BY <1>5, <1>6

\* When no key is made and nobody is barred: what a copy, its keys and the letters
\* have to show.
LEMMA SameKeysKeptOut ==
  ASSUME GroupsInv, KeptOut, UNCHANGED <<gKeys, gKnows, gBarred, gPending, gPopup>>,
         NEW u \in Person, NEW g, gGroups' = [gGroups EXCEPT ![u] = g],
         g.key = 0 \/ g.key = gGroups[u].key,
         u = Founder => Admitted(g),
         \A m \in gNet' : m \in gNet \/ Honest(m)
  PROVE  KeptOut'
<1>1. KeysGrow
  BY KeysStay
<1>2. \A k \in Group!Key : gBarred'[k] \subseteq gBarred[k] /\ (k > gKeys' => gBarred'[k] = {})
  BY DEF KeptOut, KeysBarred
<1>3. \A w \in Person : gKnows'[w] \subseteq 1..gKeys'
  BY DEF KeptOut, KeysBarred
<1>4. \A w \in Person : \A k \in gKnows'[w] : k \in gKnows[w] \/ w \notin gBarred'[k]
  OBVIOUS
<1>5. gBarred' \in [Group!Key -> SUBSET Person] /\ gGroups \in [Person -> Group!Group]
  BY DEF GroupsInv, Group!TypeOK
<1>6. \A w \in Person : gGroups'[w].key = 0 \/ gGroups'[w].key \in gKnows'[w]
  BY <1>5 DEF KeptOut, KeysBarred
<1>7. Admitted(gGroups[Founder])'
  <2>1. Admitted(gGroups'[Founder])
    BY <1>5, NoGroupIsGroup DEF KeptOut
  <2> QED BY <2>1 DEF Admitted, Group!NoGroup, Group!Key
<1>8. \A m \in gNet' : m \in gNet \/ Honest(m)'
  BY DEF Honest
<1> QED BY <1>1, <1>2, <1>3, <1>4, <1>5, <1>6, <1>7, <1>8, StillKeptOut

\* A member that is sent on comes to somebody else than the founder.
LEMMA MemberKeepsOut ==
  ASSUME GroupsInv, KeptOut, NEW u \in Person, Group!RecvMemberSync(u)
  PROVE  KeptOut'
<1>1. PICK m \in gNet :
        /\ m.type = "MEMBER_SYNC" /\ m.dst = u /\ gNet' = gNet \ {m}
        /\ \/ UNCHANGED gGroups
           \/ gGroups' = [gGroups EXCEPT ![u].members = @ \cup {m.member},
                            ![u].admins = @ \cup (IF m.admin THEN {m.member} ELSE {})]
        /\ UNCHANGED <<gPending, gPopup, gKeys, gKnows, gBarred>>
  BY DEF Group!RecvMemberSync, Group!Take
<1>2. u # Founder
  BY <1>1 DEF KeptOut, Honest
<1>3. gGroups \in [Person -> Group!Group]
  BY DEF GroupsInv, Group!TypeOK
<1>4. CASE UNCHANGED gGroups
  <2>1. \A x \in gNet' : x \in gNet
    BY <1>1
  <2> QED BY <1>1, <1>4, <2>1, QuietKeptOut
<1>5. CASE gGroups' = [gGroups EXCEPT ![u].members = @ \cup {m.member},
                         ![u].admins = @ \cup (IF m.admin THEN {m.member} ELSE {})]
  <2>1. PICK A : A = IF m.admin THEN {m.member} ELSE {}
    OBVIOUS
  <2>2. PICK q \in Group!Group : q = gGroups[u]
    BY <1>3
  <2>3. PICK g : g = [q EXCEPT !.members = @ \cup {m.member}, !.admins = @ \cup A]
    OBVIOUS
  <2>4. gGroups' = [gGroups EXCEPT ![u] = g] /\ g.key = gGroups[u].key
    BY <1>3, <1>5, <2>1, <2>2, <2>3 DEF Group!Group
  <2>5. \A x \in gNet' : x \in gNet
    BY <1>1
  <2> QED BY <1>1, <1>2, <2>4, <2>5, SameKeysKeptOut
<1> QED BY <1>1, <1>4, <1>5

\* Who takes an update is named in it, so that its key is not to keep him out.
LEMMA UpdateKeepsOut ==
  ASSUME GroupsInv, GroupsInv', OneAdmin', KeptOut, NEW u \in Person, Group!RecvUpdate(u)
  PROVE  KeptOut'
<1>1. PICK m \in gNet :
        /\ m.type = "UPDATE" /\ m.dst = u
        /\ LET r == m.group
               g == IF u \in r.members THEN Group!Merged(gGroups[u], r) ELSE Group!NoGroup
               differs == u \in g.admins /\ <<g.alive, Group!Dead(g)>> # <<r.alive, Group!Dead(r)>>
           IN  /\ IF m.src \in gGroups[u].admins
                  THEN /\ gGroups' = [gGroups EXCEPT ![u] = g]
                       /\ gKnows' = [gKnows EXCEPT ![u] = @ \cup ({g.key} \cap Group!Key)]
                       /\ gNet' = (gNet \ {m}) \cup (IF differs THEN Group!Broadcast(u, g) ELSE {})
                  ELSE gNet' = gNet \ {m} /\ UNCHANGED <<gGroups, gKnows>>
               /\ UNCHANGED <<gPending, gSyncs, gPopup, gKeys, gEdits, gBarred>>
  BY DEF Group!RecvUpdate, Group!Take
<1>2. /\ u # Founder /\ m.group.members \cap gBarred[m.group.key] = {}
      /\ m.group.key \in 1..gKeys
  BY <1>1 DEF KeptOut, Honest, GroupsInv, Letters
<1>3. UNCHANGED <<gPending, gPopup, gKeys, gBarred>> /\ KeysGrow
  <2>1. UNCHANGED <<gPending, gPopup, gKeys, gBarred>>
    BY <1>1
  <2> QED BY <2>1, KeysStay
<1>4. /\ gGroups \in [Person -> Group!Group] /\ gKnows \in [Person -> SUBSET Group!Key]
      /\ gBarred' \in [Group!Key -> SUBSET Person]
  BY <1>3 DEF GroupsInv, Group!TypeOK
<1>5. CASE m.src \notin gGroups[u].admins
  <2>1. UNCHANGED <<gGroups, gKnows>> /\ \A x \in gNet' : x \in gNet
    BY <1>1, <1>5
  <2> QED BY <1>3, <2>1, QuietKeptOut
<1>6. CASE m.src \in gGroups[u].admins
  <2>1. PICK g :
          /\ g = IF u \in m.group.members THEN Group!Merged(gGroups[u], m.group) ELSE Group!NoGroup
          /\ gGroups' = [gGroups EXCEPT ![u] = g]
          /\ gKnows' = [gKnows EXCEPT ![u] = @ \cup ({g.key} \cap Group!Key)]
          /\ gNet' \subseteq gNet \/ (u \in g.admins /\ gNet' \subseteq gNet \cup Group!Broadcast(u, g))
    BY <1>1, <1>6
  <2>2. gGroups'[u] = g /\ \A w \in Person : w # u => gGroups'[w] = gGroups[w]
    BY <1>4, <2>1
  <2>3. gNet' \subseteq gNet
    BY <1>2, <2>1, <2>2 DEF OneAdmin
  <2>4. g.key = 0 \/ g.key = gGroups[u].key \/ (u \in m.group.members /\ g.key = m.group.key)
    <3>1. CASE u \notin m.group.members
      BY <2>1, <3>1, NoGroupIsGroup
    <3>2. CASE u \in m.group.members
      <4>1. PICK q \in Group!Group : q = gGroups[u]
        BY <1>4
      <4>r. PICK r : r = m.group
        OBVIOUS
      <4>2. PICK c : c = Group!Channels(q, r)
        OBVIOUS
      <4>3. PICK e : e = [q EXCEPT !.members = r.members, !.admins = r.admins, !.alive = c.alive, !.deletedAt = c.deletedAt]
        OBVIOUS
      <4>4. g = IF Group!NewerKey(q, r) THEN [e EXCEPT !.key = r.key, !.ver = r.ver] ELSE e
        BY <2>1, <3>2, <4>1, <4>r, <4>2, <4>3 DEF Group!Merged
      <4>5. g.key = r.key \/ g.key = q.key
        BY <4>3, <4>4 DEF Group!Group
      <4> QED BY <3>2, <4>1, <4>r, <4>5
    <3> QED BY <3>1, <3>2
  <2>5. \A k \in Group!Key : gBarred'[k] \subseteq gBarred[k] /\ (k > gKeys' => gBarred'[k] = {})
    BY <1>3 DEF KeptOut, KeysBarred
  <2>6. g.key = 0 \/ (g.key \in 1..gKeys /\ (g.key \in gKnows[u] \/ u \notin gBarred[g.key]))
    <3>1. gGroups[u].key = 0 \/ (gGroups[u].key \in gKnows[u] /\ gGroups[u].key \in 1..gKeys)
      BY DEF KeptOut, KeysBarred
    <3> QED BY <1>2, <2>4, <3>1
  <2>7. \A w \in Person : gKnows'[w] \subseteq 1..gKeys'
    <3>1. \A w \in Person : gKnows[w] \subseteq 1..gKeys
      BY DEF KeptOut, KeysBarred
    <3>2. 0 \notin Group!Key
      BY NoGroupIsGroup DEF Group!Key
    <3> QED BY <1>3, <1>4, <2>1, <2>6, <3>1, <3>2
  <2>8. \A w \in Person : \A k \in gKnows'[w] : k \in gKnows[w] \/ w \notin gBarred'[k]
    <3>2. 0 \notin Group!Key
      BY NoGroupIsGroup DEF Group!Key
    <3> QED BY <1>3, <1>4, <2>1, <2>6, <3>2
  <2>9. \A w \in Person : gGroups'[w].key = 0 \/ gGroups'[w].key \in gKnows'[w]
    <3>1. \A w \in Person : gGroups[w].key = 0 \/ gGroups[w].key \in gKnows[w]
      BY DEF KeptOut, KeysBarred
    <3>2. 1..gKeys \subseteq Group!Key
      BY NoGroupIsGroup DEF GroupsInv, Group!TypeOK, Group!Key
    <3>3. g.key = 0 \/ g.key \in gKnows'[u]
      BY <1>4, <2>1, <2>6, <3>2
    <3>4. \A w \in Person : w # u => gKnows'[w] = gKnows[w]
      BY <1>4, <2>1
    <3> QED BY <2>2, <3>1, <3>3, <3>4
  <2>10. Admitted(gGroups[Founder])'
    <3>1. gGroups'[Founder] = gGroups[Founder]
      BY <1>2, <2>2, NoGroupIsGroup
    <3> QED BY <1>3, <3>1 DEF KeptOut, Admitted, Group!NoGroup
  <2> QED BY <1>3, <1>4, <2>3, <2>5, <2>7, <2>8, <2>9, <2>10, StillKeptOut
<1> QED BY <1>5, <1>6

\* The founder's changes beside the members and the key.
LEMMA EditsKeepOut ==
  ASSUME GroupsInv, OneAdmin, KeptOut, NEW u \in Person, NEW g, Group!Edits(u, g),
         g.members = gGroups[u].members, g.key = gGroups[u].key
  PROVE  KeptOut'
<1>1. /\ Group!Admin(u) /\ gGroups' = [gGroups EXCEPT ![u] = g]
      /\ gNet' = gNet \cup Group!Broadcast(u, g)
      /\ UNCHANGED <<gKeys, gKnows, gBarred, gPending, gPopup>>
  BY DEF Group!Edits
<1>2. u = Founder /\ Founder \in g.members /\ g.members \cap gBarred[g.key] = {} /\ g.key \in 1..gKeys
  BY <1>1, AdminIsFounder
<1>3. Admitted(g)
  <2>1. 1..gKeys \subseteq Group!Key
    BY NoGroupIsGroup DEF GroupsInv, Group!TypeOK, Group!Key
  <2> QED BY <1>2, <2>1 DEF Admitted
<1>4. \A m \in gNet' : m \in gNet \/ Honest(m)
  <2> SUFFICES ASSUME NEW m \in Group!Broadcast(Founder, g) PROVE Honest(m)
    BY <1>1, <1>2
  <2>1. /\ m.type = "UPDATE" /\ m.src = Founder /\ m.dst # Founder
        /\ m.group.members \cap gBarred[m.group.key] = {}
    BY <1>2, BroadcastIsHonest
  <2> QED BY <2>1 DEF Honest
<1> QED BY <1>1, <1>3, <1>4, SameKeysKeptOut

LEMMA ChangesKeepOut ==
  ASSUME GroupsInv, OneAdmin, KeptOut, NEW u \in Person, NEW v \in Person,
         \/ Group!Promote(u, v) \/ Group!Demote(u, v) \/ Group!Rename(u)
         \/ \E c \in Chan : Group!CreateChannel(u, c) \/ Group!DeleteChannel(u, c)
  PROVE  KeptOut'
<1>1. PICK q \in Group!Group : q = gGroups[u]
  BY DEF GroupsInv, Group!TypeOK
<1>2. CASE Group!Promote(u, v)
  <2>1. PICK g : g = [q EXCEPT !.admins = @ \cup {v}]
    OBVIOUS
  <2>2. g.members = q.members /\ g.key = q.key
    BY <2>1 DEF Group!Group
  <2>3. Group!Edits(u, g)
    BY <1>1, <1>2, <2>1 DEF Group!Promote
  <2> QED BY <1>1, <2>2, <2>3, EditsKeepOut
<1>3. CASE Group!Demote(u, v)
  <2>1. PICK g : g = [q EXCEPT !.admins = @ \ {v}]
    OBVIOUS
  <2>2. g.members = q.members /\ g.key = q.key
    BY <2>1 DEF Group!Group
  <2>3. Group!Edits(u, g)
    BY <1>1, <1>3, <2>1 DEF Group!Demote
  <2> QED BY <1>1, <2>2, <2>3, EditsKeepOut
<1>4. CASE Group!Rename(u)
  BY <1>4, EditsKeepOut DEF Group!Rename
<1>5. ASSUME NEW c \in Chan, Group!CreateChannel(u, c) PROVE KeptOut'
  <2>1. PICK g : g = [q EXCEPT !.alive = @ \cup {c}]
    OBVIOUS
  <2>2. g.members = q.members /\ g.key = q.key
    BY <2>1 DEF Group!Group
  <2>3. Group!Edits(u, g)
    BY <1>1, <1>5, <2>1 DEF Group!CreateChannel
  <2> QED BY <1>1, <2>2, <2>3, EditsKeepOut
<1>6. ASSUME NEW c \in Chan, Group!DeleteChannel(u, c) PROVE KeptOut'
  <2>1. PICK g : g = [q EXCEPT !.alive = @ \ {c}, !.deletedAt[c] = gDay]
    OBVIOUS
  <2>2. g.members = q.members /\ g.key = q.key
    BY <2>1 DEF Group!Group
  <2>3. Group!Edits(u, g)
    BY <1>1, <1>6, <2>1 DEF Group!DeleteChannel
  <2> QED BY <1>1, <2>2, <2>3, EditsKeepOut
<1> QED BY <1>2, <1>3, <1>4, <1>5, <1>6

\* Leaving drops a copy.
LEMMA LeavingKeepsOut ==
  ASSUME GroupsInv, KeptOut, NEW u \in Person, Group!Leave(u)
  PROVE  KeptOut'
<1>1. /\ gGroups' = [gGroups EXCEPT ![u] = Group!NoGroup] /\ UNCHANGED gNet
      /\ UNCHANGED <<gKeys, gKnows, gBarred, gPending, gPopup>>
  BY DEF Group!Leave
<1>2. Admitted(Group!NoGroup)
  BY DEF Admitted
<1> QED BY <1>1, <1>2, NoGroupIsGroup, SameKeysKeptOut

\* What is kept for those who are invited while away.
LEMMA InvitedMayJoin ==
  ASSUME GroupsInv, NEW M \in SUBSET (Person \ {Founder}), NEW S, NEW g, Group!Invites(Founder, M, S, g),
         NEW B, M \cap B[g.key] = {}
  PROVE  \A w \in Person : \A i \in gPending'[w] :
           i \in gPending[w] \/ (w = Founder /\ i.to # Founder /\ i.to \notin B[i.key])
<1> DEFINE new == {[to |-> v, key |-> g.key] : v \in M \ S}
           old == {i \in gPending[Founder] : i.to \notin M \ S}
<1>1. gPending' = [gPending EXCEPT ![Founder] = old \cup new]
  BY DEF Group!Invites
<1>2. gPending \in [Person -> SUBSET [to : Person, key : 1..gKeys]]
  BY DEF GroupsInv, Invitations
<1>3. \A i \in new : i.to # Founder /\ i.to \notin B[i.key]
  OBVIOUS
<1>4. old \subseteq gPending[Founder]
  OBVIOUS
<1> HIDE DEF new, old
<1> QED BY <1>1, <1>2, <1>3, <1>4, NoGroupIsGroup

\* The first key: nobody is barred from it.
LEMMA FoundingKeepsOut ==
  ASSUME GroupsInv, KeptOut, KeysGrow,
         NEW M \in SUBSET (Person \ {Founder}), NEW S \in SUBSET M, Group!Create(M, S)
  PROVE  KeptOut'
<1>1. PICK g :
        /\ g = [Group!NoGroup EXCEPT !.members = M \cup {Founder}, !.admins = {Founder}, !.key = 1]
        /\ gGroups' = [gGroups EXCEPT ![Founder] = g]
        /\ Group!Invites(Founder, M, S, g)
  BY DEF Group!Create
<1>2. /\ gKeys = 0 /\ gKeys' = 1 /\ gNet' = {Group!Invitation(Founder, v, 1) : v \in S}
      /\ gKnows' = [gKnows EXCEPT ![Founder] = {1}] /\ UNCHANGED <<gPopup, gBarred>>
  BY DEF Group!Create
<1>3. /\ gGroups \in [Person -> Group!Group] /\ gKnows \in [Person -> SUBSET Group!Key]
      /\ gBarred' \in [Group!Key -> SUBSET Person] /\ 1 \in Group!Key /\ Group!Key \subseteq Nat
  BY <1>2, NoGroupIsGroup DEF GroupsInv, Group!TypeOK, Group!Key
<1>4. g.members = M \cup {Founder} /\ g.key = 1
  BY <1>1 DEF Group!NoGroup
<1>5. \A k \in Group!Key : gBarred'[k] = {}
  <2>1. \A k \in Group!Key : k > gKeys
    BY <1>2, NoGroupIsGroup DEF Group!Key
  <2> QED BY <1>2, <2>1 DEF KeptOut, KeysBarred
<1>6. \A w \in Person : gKnows[w] = {}
  BY <1>2 DEF KeptOut, KeysBarred
<1>7. \A w \in Person : gKnows'[w] \subseteq 1..gKeys' /\ \A k \in gKnows'[w] : w \notin gBarred'[k]
  BY <1>2, <1>3, <1>5, <1>6
<1>8. \A w \in Person : gGroups'[w].key = 0 \/ gGroups'[w].key \in gKnows'[w]
  BY <1>1, <1>2, <1>3, <1>4 DEF KeptOut, KeysBarred
<1>9. Admitted(gGroups[Founder])'
  <2>1. gGroups'[Founder] = g
    BY <1>1, <1>3, NoGroupIsGroup
  <2> QED BY <1>3, <1>4, <1>5, <2>1 DEF Admitted
<1>10. \A m \in gNet' : Honest(m)'
  <2> SUFFICES ASSUME NEW m \in gNet' PROVE Honest(m)'
    OBVIOUS
  <2>1. PICK v \in S : m = [type |-> "INVITE", src |-> Founder, dst |-> v, key |-> 1]
    BY <1>2 DEF Group!Invitation
  <2> QED BY <1>3, <1>5, <2>1 DEF Honest
<1>11. \A w \in Person : \A i \in gPending'[w] : i \in gPending[w] \/ MayJoin(w, i)'
  <2>1. M \cap gBarred'[g.key] = {}
    BY <1>3, <1>4, <1>5
  <2> QED BY <1>1, <2>1, InvitedMayJoin DEF MayJoin
<1> QED BY <1>2, <1>3, <1>5, <1>7, <1>8, <1>9, <1>10, <1>11, StillKeptOut

\* Who is invited is barred from that key no longer.
LEMMA InvitingKeepsOut ==
  ASSUME GroupsInv, OneAdmin, KeptOut, NEW u \in Person, NEW v \in Person,
         NEW online \in BOOLEAN, Group!Invite(u, v, online)
  PROVE  KeptOut'
<1>1. Group!Admin(u) /\ v \notin gGroups[u].members /\ UNCHANGED <<gPopup, gKeys, gKnows>>
  BY DEF Group!Invite
<1>2. /\ u = Founder /\ Founder \in gGroups[u].members /\ gGroups[u].key \in 1..gKeys
      /\ gGroups[u].members \cap gBarred[gGroups[u].key] = {}
  BY <1>1, AdminIsFounder
<1>3. PICK q \in Group!Group : q = gGroups[u]
  BY DEF GroupsInv, Group!TypeOK
<1>4. PICK g : g = [q EXCEPT !.members = @ \cup {v}]
  OBVIOUS
<1>5. g.members = q.members \cup {v} /\ g.key = q.key
  BY <1>4 DEF Group!Group
<1>6. PICK S : S = IF online THEN {v} ELSE {}
  OBVIOUS
<1>7. /\ gGroups' = [gGroups EXCEPT ![u] = g] /\ Group!Invites(u, {v}, S, g)
      /\ gNet' = gNet \cup {Group!Invitation(u, w, g.key) : w \in S} \cup Group!Broadcast(u, g)
      /\ gBarred' = [gBarred EXCEPT ![g.key] = @ \ {v}]
  BY <1>3, <1>4, <1>6 DEF Group!Invite
<1>8. /\ gGroups \in [Person -> Group!Group] /\ gBarred \in [Group!Key -> SUBSET Person]
      /\ 1..gKeys \subseteq Group!Key
  BY NoGroupIsGroup DEF GroupsInv, Group!TypeOK, Group!Key
<1>9. /\ gBarred'[g.key] = gBarred[g.key] \ {v} /\ g.key \in Group!Key
      /\ \A k \in Group!Key : gBarred'[k] \subseteq gBarred[k]
      /\ gBarred' \in [Group!Key -> SUBSET Person]
  BY <1>2, <1>3, <1>5, <1>7, <1>8
<1>10. g.members \cap gBarred'[g.key] = {}
  BY <1>2, <1>3, <1>5, <1>9
<1>11. KeysGrow /\ \A k \in Group!Key : k > gKeys' => gBarred'[k] = {}
  BY <1>1, <1>9, KeysStay DEF KeptOut, KeysBarred
<1>12. \A w \in Person : gKnows'[w] \subseteq 1..gKeys' /\ \A k \in gKnows'[w] : k \in gKnows[w]
  BY <1>1 DEF KeptOut, KeysBarred
<1>13. \A w \in Person : gGroups'[w].key = 0 \/ gGroups'[w].key \in gKnows'[w]
  BY <1>1, <1>3, <1>5, <1>7, <1>8 DEF KeptOut, KeysBarred
<1>14. Admitted(gGroups[Founder])'
  <2>1. gGroups'[Founder] = g
    BY <1>2, <1>7, <1>8
  <2>2. Founder \in g.members
    BY <1>2, <1>3, <1>5
  <2> QED BY <1>9, <1>10, <2>1, <2>2 DEF Admitted
<1>15. v # Founder /\ S \subseteq {v}
  BY <1>1, <1>2, <1>6
<1> DEFINE T == {Group!Invitation(u, w, g.key) : w \in S}
<1>16. \A m \in T : Honest(m)'
  <2> SUFFICES ASSUME NEW m \in T PROVE Honest(m)'
    OBVIOUS
  <2>1. m = [type |-> "INVITE", src |-> Founder, dst |-> v, key |-> g.key]
    BY <1>2, <1>15 DEF Group!Invitation
  <2> QED BY <1>9, <1>15, <2>1 DEF Honest
<1>17. gNet' = gNet \cup T \cup Group!Broadcast(Founder, g)
  BY <1>2, <1>7
<1> HIDE DEF T
<1>18. \A m \in Group!Broadcast(Founder, g) : Honest(m)'
  <2> SUFFICES ASSUME NEW m \in Group!Broadcast(Founder, g) PROVE Honest(m)'
    OBVIOUS
  <2>1. /\ m.type = "UPDATE" /\ m.src = Founder /\ m.dst # Founder
        /\ m.group.members \cap gBarred'[m.group.key] = {}
    BY <1>10, BroadcastIsHonest
  <2> QED BY <2>1 DEF Honest
<1>19. \A m \in gNet' : m \in gNet \/ Honest(m)'
  BY <1>16, <1>17, <1>18
<1>20. \A w \in Person : \A i \in gPending'[w] : i \in gPending[w] \/ MayJoin(w, i)'
  <2>1. PICK B : B = gBarred'
    OBVIOUS
  <2>2. {v} \in SUBSET (Person \ {Founder}) /\ {v} \cap B[g.key] = {}
    BY <1>9, <1>15, <2>1
  <2>3. Group!Invites(Founder, {v}, S, g)
    BY <1>2, <1>7
  <2>4. \A w \in Person : \A i \in gPending'[w] :
          i \in gPending[w] \/ (w = Founder /\ i.to # Founder /\ i.to \notin B[i.key])
    BY <2>2, <2>3, InvitedMayJoin
  <2> QED BY <2>1, <2>4 DEF MayJoin
<1>21. \A k \in Group!Key : gBarred'[k] \subseteq gBarred[k] \/ k > gKeys
  BY <1>9
<1>22. \A w \in Person : gKnows'[w] \subseteq 1..gKeys'
  BY <1>12
<1>23. \A w \in Person : \A k \in gKnows'[w] : k \in gKnows[w] \/ w \notin gBarred'[k]
  BY <1>12
<1>24. \A w \in Person : gPopup'[w] = gPopup[w] \/ Welcome(w)'
  BY <1>1
<1>25. KeysGrow /\ (\A k \in Group!Key : k > gKeys' => gBarred'[k] = {})
       /\ gBarred' \in [Group!Key -> SUBSET Person]
  BY <1>9, <1>11
<1> QED BY <1>13, <1>14, <1>19, <1>20, <1>21, <1>22, <1>23, <1>24, <1>25, StillKeptOut

\* The key that a removal makes is new: only the founder has it, and it is to keep
\* out all but the members that are left.
LEMMA RotationKeepsOut ==
  ASSUME GroupsInv, KeptOut, NEW u \in Person, u = Founder,
         NEW v \in Person \ {Founder}, v \in gGroups[u].members, Group!Rotation(u, v),
         \A m \in gNet' : m \in gNet \/ m \in Group!Broadcast(u, gGroups'[u]),
         \A w \in Person : gPending'[w] \subseteq gPending[w], UNCHANGED gPopup
  PROVE  KeptOut'
<1>1. /\ gKeys \in Nat /\ gKeys' = gKeys + 1 /\ KeysGrow /\ gKeys < MaxKeys /\ MaxKeys \in Nat
      /\ gGroups \in [Person -> Group!Group] /\ gKnows \in [Person -> SUBSET Group!Key]
      /\ gBarred \in [Group!Key -> SUBSET Person]
  <2>1. gKeys' = gKeys + 1 /\ KeysGrow
    BY RotationChanges
  <2>2. /\ gKeys \in 0..MaxKeys /\ gGroups \in [Person -> Group!Group]
        /\ gKnows \in [Person -> SUBSET Group!Key] /\ gBarred \in [Group!Key -> SUBSET Person]
    BY DEF GroupsInv, Group!TypeOK
  <2>3. gKeys < MaxKeys
    BY DEF Group!Rotation
  <2> QED BY <2>1, <2>2, <2>3, NoGroupIsGroup
<1>2. PICK q \in Group!Group : q = gGroups[u]
  BY <1>1
<1>3. PICK g : g = [q EXCEPT !.members = @ \ {v}, !.admins = @ \ {v}, !.ver = @ + 1, !.key = gKeys + 1]
  OBVIOUS
<1>4. gGroups' = [gGroups EXCEPT ![u] = g]
  <2>1. gGroups' = [gGroups EXCEPT ![u].members = @ \ {v}, ![u].admins = @ \ {v},
                                   ![u].ver = @ + 1, ![u].key = gKeys + 1]
    BY DEF Group!Rotation, Group!Removes
  <2> QED BY <1>1, <1>2, <1>3, <2>1 DEF Group!Group
<1>5. gGroups'[u] = g /\ g.members = q.members \ {v} /\ g.key = gKeys + 1
  BY <1>1, <1>2, <1>3, <1>4 DEF Group!Group
<1>6. /\ gKnows' = [gKnows EXCEPT ![u] = @ \cup {gKeys + 1}]
      /\ gBarred' = [gBarred EXCEPT ![gKeys + 1] = Person \ g.members]
  BY <1>5 DEF Group!Rotation
<1>7. gKeys + 1 \in Group!Key /\ Group!Key = 1..MaxKeys
  BY <1>1 DEF Group!Key
<1>8. /\ gBarred' \in [Group!Key -> SUBSET Person]
      /\ \A k \in Group!Key : gBarred'[k] \subseteq gBarred[k] \/ k > gKeys
  BY <1>1, <1>6, <1>7
<1>9. \A k \in Group!Key : k > gKeys' => gBarred'[k] = {}
  <2>1. \A k \in Group!Key : k > gKeys + 1 => k > gKeys /\ k # gKeys + 1
    BY <1>1, <1>7
  <2> QED BY <1>1, <1>6, <1>7, <2>1 DEF KeptOut, KeysBarred
<1>10. \A w \in Person : gKnows[w] \subseteq 1..gKeys /\ (gGroups[w].key = 0 \/ gGroups[w].key \in gKnows[w])
  BY DEF KeptOut, KeysBarred
<1>11. \A w \in Person : gKnows'[w] \subseteq 1..gKeys'
  <2>1. 1..gKeys \subseteq 1..gKeys' /\ gKeys + 1 \in 1..gKeys'
    BY <1>1
  <2> QED BY <1>1, <1>6, <1>10, <2>1
<1>12. Founder \in g.members
  <2>1. gGroups[u].members # {}
    OBVIOUS
  <2>2. gGroups[u] # Group!NoGroup
    BY <2>1, NoGroupIsGroup
  <2> QED BY <1>2, <1>5, <2>2 DEF KeptOut, Admitted
<1>13. \A w \in Person : \A k \in gKnows'[w] : k \in gKnows[w] \/ w \notin gBarred'[k]
  <2>1. gBarred'[gKeys + 1] = Person \ g.members
    BY <1>1, <1>6, <1>7
  <2>2. \A w \in Person : \A k \in gKnows'[w] : k \in gKnows[w] \/ (w = u /\ k = gKeys + 1)
    BY <1>1, <1>6
  <2> QED BY <1>12, <2>1, <2>2
<1>14. \A w \in Person : gGroups'[w].key = 0 \/ gGroups'[w].key \in gKnows'[w]
  <2>1. g.key \in gKnows'[u]
    BY <1>1, <1>5, <1>6
  <2>2. \A w \in Person : w # u => gGroups'[w] = gGroups[w] /\ gKnows'[w] = gKnows[w]
    BY <1>1, <1>4, <1>6
  <2> QED BY <1>5, <1>10, <2>1, <2>2
<1>15. g.members \cap gBarred'[g.key] = {}
  BY <1>1, <1>5, <1>6, <1>7
<1>16. Admitted(gGroups[Founder])'
  BY <1>5, <1>7, <1>12, <1>15 DEF Admitted
<1>17. \A m \in gNet' : m \in gNet \/ Honest(m)'
  <2> SUFFICES ASSUME NEW m \in Group!Broadcast(Founder, g) PROVE Honest(m)'
    BY <1>5
  <2>1. /\ m.type = "UPDATE" /\ m.src = Founder /\ m.dst # Founder
        /\ m.group.members \cap gBarred'[m.group.key] = {}
    BY <1>15, BroadcastIsHonest
  <2> QED BY <2>1 DEF Honest
<1> QED BY <1>1, <1>8, <1>9, <1>11, <1>13, <1>14, <1>16, <1>17, StillKeptOut

LEMMA RemovalsKeepOut ==
  ASSUME GroupsInv, OneAdmin, KeptOut, NEW u \in Person, NEW v \in Person,
         Group!Kick(u, v) \/ Group!RecvInviteNack(u)
  PROVE  KeptOut'
<1>1. CASE Group!Kick(u, v)
  <2>1. /\ Group!Admin(u) /\ u # v /\ v \in gGroups[u].members /\ Group!Rotation(u, v)
        /\ gNet' = gNet \cup Group!Broadcast(u, gGroups'[u]) /\ UNCHANGED <<gPending, gPopup>>
    BY <1>1 DEF Group!Kick
  <2>2. u = Founder
    BY <2>1, AdminIsFounder
  <2>3. \A m \in gNet' : m \in gNet \/ m \in Group!Broadcast(u, gGroups'[u])
    BY <2>1
  <2> QED BY <2>1, <2>2, <2>3, RotationKeepsOut
<1>2. CASE Group!RecvInviteNack(u)
  <2>1. PICK m \in gNet :
          /\ m.type = "INVITE_NACK" /\ m.dst = u /\ gNet' = gNet \ {m}
          /\ gPending' = [gPending EXCEPT ![u] = {i \in gPending[u] : i.to # m.src}]
          /\ IF m.src \in gGroups[u].members THEN Group!Rotation(u, m.src)
             ELSE UNCHANGED <<gGroups, gKeys, gKnows, gBarred>>
          /\ UNCHANGED gPopup
    BY <1>2 DEF Group!RecvInviteNack, Group!Take, Group!Settled
  <2>2. u = Founder /\ m.src \in Person \ {Founder}
    BY <2>1 DEF KeptOut, Honest, GroupsInv, Letters
  <2>3. gPending \in [Person -> SUBSET [to : Person, key : 1..gKeys]]
    BY DEF GroupsInv, Invitations
  <2>4. \A w \in Person : gPending'[w] \subseteq gPending[w]
    BY <2>1, <2>3
  <2>5. \A x \in gNet' : x \in gNet
    BY <2>1
  <2>6. CASE m.src \in gGroups[u].members
    <3>1. Group!Rotation(u, m.src)
      BY <2>1, <2>6
    <3> QED BY <2>1, <2>2, <2>4, <2>5, <2>6, <3>1, RotationKeepsOut
  <2>7. CASE m.src \notin gGroups[u].members
    BY <2>1, <2>4, <2>5, <2>7, QuietKeptOut
  <2> QED BY <2>6, <2>7
<1> QED BY <1>1, <1>2

LEMMA KeptOutStep ==
  ASSUME GroupsInv, OneAdmin, OneAdmin', KeptOut, Group!Next
  PROVE  KeptOut'
<1>0. GroupsInv' /\ KeysGrow
  BY GroupsStep, GroupsKeep DEF Keeps
<1>1. ASSUME NEW M \in SUBSET (Person \ {Founder}), NEW S \in SUBSET M, Group!Create(M, S)
      PROVE  KeptOut'
  BY <1>0, <1>1, FoundingKeepsOut
<1>2. ASSUME NEW u \in Person, Group!AcceptInvite(u) PROVE KeptOut'
  BY <1>0, <1>2, AcceptingKeepsOut
<1>3. ASSUME NEW u \in Person, Group!RecvInviteAck(u) PROVE KeptOut'
  BY <1>3, AckKeepsOut
<1>4. ASSUME NEW u \in Person, Group!RecvMemberSync(u) PROVE KeptOut'
  BY <1>4, MemberKeepsOut
<1>5. ASSUME NEW u \in Person, Group!RecvUpdate(u) PROVE KeptOut'
  BY <1>0, <1>5, UpdateKeepsOut
<1>6. ASSUME NEW u \in Person, Group!Leave(u) PROVE KeptOut'
  BY <1>6, LeavingKeepsOut
<1>7. ASSUME NEW u \in Person, Group!RecvInvite(u) \/ Group!RejectInvite(u) PROVE KeptOut'
  BY <1>7, AskingKeepsOut
<1>8. ASSUME NEW u \in Person, Group!RecvInviteNack(u) PROVE KeptOut'
  BY <1>8, RemovalsKeepOut
<1>9. ASSUME NEW u \in Person, Group!Rename(u) PROVE KeptOut'
  BY <1>9, ChangesKeepOut
<1>10. ASSUME NEW u \in Person, NEW v \in Person, NEW online \in BOOLEAN, Group!Invite(u, v, online)
       PROVE  KeptOut'
  BY <1>10, InvitingKeepsOut
<1>11. ASSUME NEW u \in Person, NEW v \in Person,
              Group!Connects(u, v) \/ Group!Kick(u, v) \/ Group!Promote(u, v) \/ Group!Demote(u, v)
       PROVE  KeptOut'
  BY <1>11, AskingKeepsOut, RemovalsKeepOut, ChangesKeepOut
<1>12. ASSUME NEW u \in Person, NEW c \in Chan, Group!CreateChannel(u, c) \/ Group!DeleteChannel(u, c)
       PROVE  KeptOut'
  BY <1>12, ChangesKeepOut
<1>13. CASE Group!DayPasses
  <2>1. UNCHANGED <<gGroups, gKeys, gKnows, gBarred, gNet, gPending, gPopup>>
    BY <1>13 DEF Group!DayPasses
  <2> QED BY <2>1, QuietKeptOut
<1> QED BY <1>1, <1>2, <1>3, <1>4, <1>5, <1>6, <1>7, <1>8, <1>9, <1>10, <1>11, <1>12, <1>13
        DEF Group!Next

\* As long as the founder makes nobody else an admin, a user who was removed never
\* has the keys made from then on (remove_member rotates the key, group.rs), unless
\* invited anew, whatever invitation, answer or update comes late.
THEOREM RemovedLackKeys == MembersSpec /\ []OneAdmin => []RemovedLacksKey
<1>1. MembersInit => KeptOut
  <2> SUFFICES ASSUME MembersInit PROVE KeptOut
    OBVIOUS
  <2>1. Group!Init
    BY DEF MembersInit
  <2>2. KeysBarred
    BY <2>1, NoGroupIsGroup DEF Group!Init, KeysBarred, RemovedLacksKey, Group!RemovedLacksKey
  <2>3. Admitted(gGroups[Founder])
    BY <2>1, NoGroupIsGroup DEF Group!Init, Admitted
  <2> QED BY <2>1, <2>2, <2>3 DEF Group!Init, KeptOut, Welcome
<1>2. GroupsInv /\ OneAdmin /\ OneAdmin' /\ KeptOut /\ [MembersNext]_allVars => KeptOut'
  <2> SUFFICES ASSUME GroupsInv, OneAdmin, OneAdmin', KeptOut, [MembersNext]_allVars PROVE KeptOut'
    OBVIOUS
  <2>1. CASE Group!Next
    BY <2>1, KeptOutStep
  <2>2. CASE UNCHANGED groupsVars
    <3>1. UNCHANGED <<gGroups, gKeys, gKnows, gBarred, gNet, gPending, gPopup>>
      BY <2>2 DEF groupsVars
    <3> QED BY <3>1, QuietKeptOut
  <2> QED BY <2>1, <2>2 DEF MembersNext, allVars, PeopleStep, GroupStep, AvatarStep, HistoryStep, FailoverStep
<1>3. KeptOut => RemovedLacksKey
  BY DEF KeptOut, KeysBarred
<1> QED BY <1>1, <1>2, <1>3, GroupsHold, PTL DEF MembersSpec

----------------------------------------------------------------------------
(* Histories *)

\* A set of numbers up to n has a least one.
LEMMA LeastOf ==
  ASSUME NEW n \in Nat, NEW T \in SUBSET (1..n), T # {}
  PROVE  \E i \in T : \A j \in T : i <= j
<1> DEFINE upto(i) == {k \in T : k <= i}
           F == {upto(i) : i \in T}
           R == StrictSubsetOrdering(1..n)
           S == FiniteSubsetsOf(1..n)
<1>1. IsFiniteSet(1..n)
  BY FS_Interval
<1>2. IsWellFoundedOn(R, S) /\ S = SUBSET (1..n)
  BY <1>1, FS_StrictSubsetOrderingWellFounded, FS_FiniteSubsetsOfFinite
<1>0. \A k \in T : k \in 1..n /\ k \in Int
  OBVIOUS
<1>u. \A i \in T : upto(i) \in SUBSET (1..n)
  BY <1>0
<1>3. F \subseteq S /\ F # {}
  <2>1. F # {}
    OBVIOUS
  <2> HIDE DEF upto, R, S
  <2> QED BY <1>2, <1>u, <2>1
<1>4. PICK x \in F : \A y \in F : ~(<<y, x>> \in R)
  <2> HIDE DEF F, R, S
  <2> QED BY <1>2, <1>3, WFMin
<1>5. PICK i \in T : x = upto(i)
  OBVIOUS
<1>6. ASSUME NEW j \in T, ~(i <= j) PROVE FALSE
  <2>1. upto(j) \in F /\ upto(j) \in SUBSET (1..n) /\ x \in SUBSET (1..n)
    BY <1>5, <1>6, <1>u
  <2>2. upto(j) \subseteq x
    <3>1. j <= i /\ \A k \in T : k <= j => k <= i
      BY <1>0, <1>6
    <3> QED BY <1>5, <3>1
  <2>3. i \in x /\ i \notin upto(j)
    BY <1>0, <1>5, <1>6
  <2>4. <<upto(j), x>> \in R
    BY <2>1, <2>2, <2>3 DEF StrictSubsetOrdering
  <2> QED BY <1>4, <2>1, <2>4
<1> QED BY <1>6

LEMMA FirstAfterIs ==
  ASSUME NEW h, Len(h) \in Nat, DOMAIN h = 1..Len(h), NEW t \in Nat,
         \A i \in DOMAIN h : h[i].at \in Nat
  PROVE  LET i == History!FirstAfter(h, t)
         IN  /\ i \in 1..(Len(h) + 1)
             /\ \A j \in 1..(i - 1) : h[j].at <= t
             /\ i \in DOMAIN h => h[i].at > t
<1> DEFINE P(i) == (\A j \in 1..(i - 1) : h[j].at <= t) /\ (i \in DOMAIN h => h[i].at > t)
           T == {i \in 1..(Len(h) + 1) : i \in DOMAIN h => h[i].at > t}
<1>1. T \in SUBSET (1..(Len(h) + 1)) /\ Len(h) + 1 \in T
  OBVIOUS
<1>n. PICK n \in Nat : n = Len(h) + 1
  OBVIOUS
<1>2. PICK i \in T : \A j \in T : i <= j
  <2> HIDE DEF T
  <2> QED BY <1>1, <1>n, LeastOf
<1>4. \A j \in 1..(i - 1) : h[j].at <= t
  BY <1>1, <1>2
<1>5. \E k \in 1..(Len(h) + 1) : P(k)
  BY <1>4
<1> QED BY <1>5 DEF History!FirstAfter

EntryType == [msg : 1..MaxMsgs, at : 1..MaxTime]
SyncType == [chunks : Seq(EntryType), next : Nat, retries : Nat, acked : SUBSET Nat]

\* A history, on disk or in the window: recorded so far, in the order of the times.
Recorded(h, t) ==
  /\ h \in Seq(EntryType)
  /\ \A i \in DOMAIN h : h[i].at <= t
  /\ \A i, j \in DOMAIN h : i <= j => h[i].at <= h[j].at

\* A synchronisation that is under way: there is more to send, of what is recorded.
Sends(s, t) ==
  \/ s = History!NoSync
  \/ /\ s.next \in 2..Len(s.chunks) /\ s.retries \in 0..MaxRepeats
     /\ \A i \in DOMAIN s.chunks : s.chunks[i].at <= t

\* What a packet carries.
Carries(m, t) ==
  /\ m.src \in Person /\ m.dst \in Person
  /\ m.type = "CHAT" => m.entry.msg \in 1..MaxMsgs
  /\ m.type = "REQUEST" => m.at \in Nat
  /\ m.type = "DATA" => m.entry \in EntryType /\ m.entry.at <= t /\ m.at \in Nat \ {0}
  /\ m.type = "ACK" => m.at \in Nat \ {0}

Counters ==
  /\ hNow \in 1..MaxTime /\ hWritten \in 0..MaxMsgs /\ hAsks \in 0..MaxAsks
  /\ MaxTime \in Nat /\ MaxMsgs \in Nat /\ MaxRepeats \in Nat /\ MaxAsks \in Nat

HistoryInv ==
  /\ Counters
  /\ hHist \in [Person -> Seq(EntryType)]
  /\ \A u \in Person : Recorded(hHist[u], hNow)
  /\ hCopy \in [Person -> Seq(EntryType) \cup {History!NoCopy}]
  /\ \A u \in Person : hCopy[u] = History!NoCopy \/ Recorded(hCopy[u], hNow)
  /\ hOut \in [Person -> [Person -> SyncType]]
  /\ \A u, v \in Person : Sends(hOut[u][v], hNow)
  /\ \A m \in hNet : Carries(m, hNow)

LEMMA HistoryBounds ==
  /\ MaxTime \in Nat \ {0} /\ MaxMsgs \in Nat /\ MaxRepeats \in Nat /\ MaxAsks \in Nat
BY PartsAssumption DEF History!GroupSyncAssumption

\* What is in a part of a sequence.
LEMMA RestOf ==
  ASSUME NEW S, NEW h \in Seq(S), NEW i \in 1..(Len(h) + 1)
  PROVE  /\ SubSeq(h, i, Len(h)) \in Seq(S)
         /\ \A j \in DOMAIN SubSeq(h, i, Len(h)) :
              \E k \in DOMAIN h : SubSeq(h, i, Len(h))[j] = h[k]
<1>1. Len(h) \in Nat /\ DOMAIN h = 1..Len(h)
  OBVIOUS
<1>2. PICK n \in Nat : n = Len(h)
  BY <1>1
<1>3. CASE i = n + 1
  <2>1. SubSeq(h, i, n) = <<>>
    BY <1>2, <1>3, SubSeqEmpty
  <2> QED BY <1>2, <2>1
<1>4. CASE i \in 1..n
  <2>1. PICK g : g = SubSeq(h, i, n)
    OBVIOUS
  <2>2. /\ g \in Seq(S) /\ Len(g) = n - i + 1
        /\ \A j \in 1..(n - i + 1) : g[j] = h[i + j - 1]
    BY <1>1, <1>2, <1>4, <2>1, SubSeqProperties
  <2>3. \A j \in DOMAIN g : j \in 1..(n - i + 1) /\ i + j - 1 \in DOMAIN h
    BY <1>1, <1>2, <1>4, <2>2
  <2> QED BY <1>2, <2>1, <2>2, <2>3
<1> QED BY <1>2, <1>3, <1>4

\* A history with one more entry.
Inserted(g, h, i, e) ==
  /\ g \in Seq(EntryType) /\ Len(g) = Len(h) + 1
  /\ \A j \in 1..(Len(h) + 1) : g[j] = IF j < i THEN h[j] ELSE IF j = i THEN e ELSE h[j - 1]

LEMMA InsertedIn ==
  ASSUME NEW h \in Seq(EntryType), NEW i \in 1..(Len(h) + 1), NEW e \in EntryType
  PROVE  Inserted(History!InsertAt(h, i, e), h, i, e)
<1>0. PICK g : g = History!InsertAt(h, i, e)
  OBVIOUS
<1>1. PICK n \in Nat : n = Len(h) /\ DOMAIN h = 1..n
  OBVIOUS
<1>2. PICK a : a = SubSeq(h, 1, i - 1)
  OBVIOUS
<1>3. PICK z : z = SubSeq(h, i, n)
  OBVIOUS
<1>4. a \in Seq(EntryType) /\ Len(a) = i - 1 /\ \A j \in 1..(i - 1) : a[j] = h[j]
  <2>1. CASE i = 1
    <3>1. a = <<>>
      BY <1>2, <2>1, SubSeqEmpty
    <3> QED BY <2>1, <3>1
  <2>2. CASE i # 1
    <3>1. i - 1 \in 1..n /\ 1 \in 1..n
      BY <1>1, <2>2
    <3>2. /\ a \in Seq(EntryType) /\ Len(a) = (i - 1) - 1 + 1
          /\ \A j \in 1..((i - 1) - 1 + 1) : a[j] = h[1 + j - 1]
      BY <1>1, <1>2, <3>1, SubSeqProperties
    <3> QED BY <3>1, <3>2
  <2> QED BY <2>1, <2>2
<1>5. z \in Seq(EntryType) /\ Len(z) = n - i + 1 /\ \A j \in 1..(n - i + 1) : z[j] = h[i + j - 1]
  <2>1. CASE i = n + 1
    <3>1. z = <<>>
      BY <1>3, <2>1, SubSeqEmpty
    <3> QED BY <2>1, <3>1
  <2>2. CASE i # n + 1
    BY <1>1, <1>3, <2>2, SubSeqProperties
  <2> QED BY <2>1, <2>2
<1>6. PICK b : b = a \o <<e>>
  OBVIOUS
<1>7. b \in Seq(EntryType) /\ Len(b) = i /\ b[i] = e /\ \A j \in 1..(i - 1) : b[j] = h[j]
  BY <1>1, <1>4, <1>6
<1>8. g = b \o z
  BY <1>0, <1>1, <1>2, <1>3, <1>6 DEF History!InsertAt
<1>9. /\ g \in Seq(EntryType) /\ Len(g) = n + 1
      /\ \A j \in 1..i : g[j] = b[j]
      /\ \A j \in (i + 1)..(n + 1) : g[j] = z[j - i]
  BY <1>1, <1>5, <1>7, <1>8
<1>10. \A j \in (i + 1)..(n + 1) : g[j] = h[j - 1]
  <2> SUFFICES ASSUME NEW j \in (i + 1)..(n + 1) PROVE g[j] = h[j - 1]
    OBVIOUS
  <2>1. j - i \in 1..(n - i + 1) /\ i + (j - i) - 1 = j - 1
    BY <1>1
  <2>2. z[j - i] = h[i + (j - i) - 1]
    BY <1>5, <2>1
  <2> QED BY <1>9, <2>1, <2>2
<1>12. \A j \in 1..(i - 1) : g[j] = h[j]
  BY <1>1, <1>7, <1>9
<1>13. g[i] = e
  BY <1>1, <1>7, <1>9
<1>14. \A j \in 1..(n + 1) : g[j] = IF j < i THEN h[j] ELSE IF j = i THEN e ELSE h[j - 1]
  BY <1>1, <1>10, <1>12, <1>13
<1>15. Inserted(g, h, i, e)
  BY <1>1, <1>9, <1>14 DEF Inserted
<1> QED BY <1>0, <1>15

\* What is recorded stays so, as the clock goes on.
LEMMA RecordedEntries ==
  ASSUME NEW t, NEW h, Recorded(h, t)
  PROVE  /\ h \in Seq(EntryType) /\ Len(h) \in Nat /\ DOMAIN h = 1..Len(h)
         /\ \A i \in DOMAIN h : h[i] \in EntryType /\ h[i].at \in Nat /\ h[i].msg \in 1..MaxMsgs
<1>1. h \in Seq(EntryType) /\ Len(h) \in Nat /\ DOMAIN h = 1..Len(h)
  BY DEF Recorded
<1>2. \A i \in DOMAIN h : h[i] \in EntryType
  BY <1>1
<1>3. \A e \in EntryType : e.at \in Nat /\ e.msg \in 1..MaxMsgs
  BY HistoryBounds DEF EntryType
<1> QED BY <1>1, <1>2, <1>3

\* A message that is recorded now is the last one.
LEMMA AppendKeepsOrder ==
  ASSUME Counters, NEW h, Recorded(h, hNow), NEW m \in 1..MaxMsgs
  PROVE  Recorded(Append(h, History!Entry(m, hNow)), hNow)
<1>1. PICK e : e = [msg |-> m, at |-> hNow]
  OBVIOUS
<1>2. e \in EntryType /\ e.at = hNow /\ hNow \in Nat
  BY <1>1 DEF Counters, EntryType
<1>3. PICK n \in Nat : n = Len(h) /\ DOMAIN h = 1..n /\ h \in Seq(EntryType)
  BY RecordedEntries
<1>4. PICK g : g = Append(h, e)
  OBVIOUS
<1>5. /\ g \in Seq(EntryType) /\ DOMAIN g = 1..(n + 1)
      /\ \A i \in 1..n : g[i] = h[i]
      /\ g[n + 1] = e
  BY <1>2, <1>3, <1>4
<1>6. \A i \in DOMAIN g : g[i].at <= hNow
  <2> SUFFICES ASSUME NEW i \in 1..(n + 1) PROVE g[i].at <= hNow
    BY <1>5
  <2>1. CASE i = n + 1
    BY <1>2, <1>5, <2>1
  <2>2. CASE i \in 1..n
    BY <1>3, <1>5, <2>2 DEF Recorded
  <2> QED BY <2>1, <2>2
<1>7. \A i, j \in DOMAIN g : i <= j => g[i].at <= g[j].at
  <2> SUFFICES ASSUME NEW i \in 1..(n + 1), NEW j \in 1..(n + 1), i <= j PROVE g[i].at <= g[j].at
    BY <1>5
  <2>1. CASE j = n + 1
    BY <1>2, <1>5, <1>6, <2>1
  <2>2. CASE j \in 1..n
    <3>1. i \in 1..n
      BY <2>2
    <3> QED BY <1>3, <1>5, <2>2, <3>1 DEF Recorded
  <2> QED BY <2>1, <2>2
<1> QED BY <1>1, <1>4, <1>5, <1>6, <1>7 DEF Recorded, History!Entry

\* The merge keeps the order: what is fetched late goes before what is newer.
LEMMA MergeKeepsOrder ==
  ASSUME NEW t \in Nat, NEW h, Recorded(h, t), NEW e \in EntryType, e.at <= t
  PROVE  Recorded(History!Merge(h, e), t)
<1>1. CASE History!Contains(h, e)
  BY <1>1 DEF History!Merge
<1>2. CASE ~History!Contains(h, e)
  <2>1. PICK n \in Nat : n = Len(h) /\ DOMAIN h = 1..n /\ h \in Seq(EntryType)
    BY RecordedEntries
  <2>2. PICK i : i = History!FirstAfter(h, e.at)
    OBVIOUS
  <2>e. e.at \in Nat
    BY DEF EntryType
  <2>3. /\ i \in 1..(n + 1) /\ \A j \in 1..(i - 1) : h[j].at <= e.at
        /\ i \in 1..n => h[i].at > e.at
    BY <2>1, <2>2, <2>e, RecordedEntries, FirstAfterIs
  <2>4. PICK g : g = History!InsertAt(h, i, e)
    OBVIOUS
  <2>5. /\ g \in Seq(EntryType) /\ Len(g) = n + 1
        /\ \A j \in 1..(n + 1) : g[j] = IF j < i THEN h[j] ELSE IF j = i THEN e ELSE h[j - 1]
    <3>1. i \in 1..(Len(h) + 1) /\ h \in Seq(EntryType)
      BY <2>1, <2>3
    <3>2. Inserted(g, h, i, e)
      BY <2>4, <3>1, InsertedIn
    <3> QED BY <2>1, <3>2 DEF Inserted
  <2>6. DOMAIN g = 1..(n + 1)
    BY <2>5
  <2>7. \A j \in 1..n : h[j].at \in Nat /\ h[j].at <= t
    BY <2>1, RecordedEntries DEF Recorded
  <2>8. \A j \in 1..(n + 1) :
          \/ j < i /\ j \in 1..n /\ g[j] = h[j] /\ h[j].at <= e.at
          \/ j = i /\ g[j] = e
          \/ j > i /\ j - 1 \in 1..n /\ i <= j - 1 /\ g[j] = h[j - 1]
    BY <2>1, <2>3, <2>5
  <2>9. \A j \in i..n : e.at <= h[j].at
    <3> SUFFICES ASSUME NEW j \in i..n PROVE e.at <= h[j].at
      OBVIOUS
    <3>1. i \in 1..n /\ j \in 1..n /\ h[i].at <= h[j].at
      BY <2>1, <2>3 DEF Recorded
    <3> QED BY <2>3, <2>7, <2>e, <3>1
  <2>10. \A j \in DOMAIN g : g[j].at <= t
    BY <2>6, <2>7, <2>8
  <2>11. \A j, k \in DOMAIN g : j <= k => g[j].at <= g[k].at
    <3> SUFFICES ASSUME NEW j \in 1..(n + 1), NEW k \in 1..(n + 1), j < k PROVE g[j].at <= g[k].at
      <4>1. \A j \in 1..(n + 1) : g[j].at \in Nat
        BY <2>e, <2>7, <2>8
      <4> QED BY <2>6, <4>1
    <3>0. \A x, y \in 1..n : x <= y => h[x].at <= h[y].at
      BY <2>1 DEF Recorded
    <3>1. CASE k < i
      BY <2>8, <3>0, <3>1
    <3>2. CASE k = i
      BY <2>8, <3>2
    <3>3. CASE k > i
      <4>1. k - 1 \in 1..n /\ i <= k - 1 /\ g[k] = h[k - 1] /\ e.at <= h[k - 1].at
        BY <2>3, <2>8, <2>9, <3>3
      <4>2. CASE j < i
        <5>1. g[j].at <= e.at /\ g[j].at \in Nat
          BY <2>3, <2>7, <2>8, <4>2
        <5> QED BY <2>7, <2>e, <4>1, <5>1
      <4>3. CASE j = i
        BY <2>8, <4>1, <4>3
      <4>4. CASE j > i
        <5>1. j - 1 \in 1..n /\ g[j] = h[j - 1] /\ j - 1 <= k - 1
          BY <2>3, <2>8, <4>4
        <5> QED BY <3>0, <4>1, <5>1
      <4> QED BY <2>3, <4>2, <4>3, <4>4
    <3> QED BY <2>3, <3>1, <3>2, <3>3
  <2>12. Recorded(g, t)
    BY <2>5, <2>10, <2>11 DEF Recorded
  <2> QED BY <1>2, <2>2, <2>4, <2>12 DEF History!Merge
<1> QED BY <1>1, <1>2

\* What a step may do to a file, to a copy, to a synchronisation, and may send.
FileChanges ==
  UNCHANGED hHist
  \/ \E u \in Person, h \in Seq(EntryType) : Recorded(h, hNow) /\ hHist' = [hHist EXCEPT ![u] = h]
CopyOfFile ==
  UNCHANGED hCopy
  \/ \E u \in Person, h \in Seq(EntryType) \cup {History!NoCopy} :
       (h = History!NoCopy \/ Recorded(h, hNow)) /\ hCopy' = [hCopy EXCEPT ![u] = h]
SyncChanges ==
  UNCHANGED hOut
  \/ \E u, v \in Person, s \in SyncType : Sends(s, hNow) /\ hOut' = [hOut EXCEPT ![u][v] = s]
Posts == \A m \in hNet' : m \in hNet \/ Carries(m, hNow)

LEMMA StepKeepsHistory ==
  ASSUME HistoryInv, UNCHANGED hNow, Counters', FileChanges, CopyOfFile, SyncChanges, Posts
  PROVE  HistoryInv'
<1>1. hHist' \in [Person -> Seq(EntryType)] /\ \A u \in Person : Recorded(hHist'[u], hNow)
  <2>1. hHist \in [Person -> Seq(EntryType)] /\ \A u \in Person : Recorded(hHist[u], hNow)
    BY DEF HistoryInv
  <2>2. ASSUME NEW u \in Person, NEW h, Recorded(h, hNow), hHist' = [hHist EXCEPT ![u] = h]
        PROVE  hHist' \in [Person -> Seq(EntryType)] /\ \A w \in Person : Recorded(hHist'[w], hNow)
    <3>1. h \in Seq(EntryType)
      BY <2>2, RecordedEntries
    <3>2. hHist' \in [Person -> Seq(EntryType)]
      BY <2>1, <2>2, <3>1
    <3>3. \A w \in Person : hHist'[w] = IF w = u THEN h ELSE hHist[w]
      BY <2>1, <2>2
    <3> QED BY <2>1, <2>2, <3>2, <3>3
  <2>3. CASE UNCHANGED hHist
    BY <2>1, <2>3
  <2> QED BY <2>2, <2>3 DEF FileChanges
<1>2. /\ hCopy' \in [Person -> Seq(EntryType) \cup {History!NoCopy}]
      /\ \A u \in Person : hCopy'[u] = History!NoCopy \/ Recorded(hCopy'[u], hNow)
  <2>1. /\ hCopy \in [Person -> Seq(EntryType) \cup {History!NoCopy}]
        /\ \A u \in Person : hCopy[u] = History!NoCopy \/ Recorded(hCopy[u], hNow)
    BY DEF HistoryInv
  <2>2. ASSUME NEW u \in Person, NEW h, h = History!NoCopy \/ Recorded(h, hNow),
               hCopy' = [hCopy EXCEPT ![u] = h]
        PROVE  /\ hCopy' \in [Person -> Seq(EntryType) \cup {History!NoCopy}]
               /\ \A w \in Person : hCopy'[w] = History!NoCopy \/ Recorded(hCopy'[w], hNow)
    <3>1. h \in Seq(EntryType) \cup {History!NoCopy}
      BY <2>2, RecordedEntries
    <3>2. hCopy' \in [Person -> Seq(EntryType) \cup {History!NoCopy}]
      BY <2>1, <2>2, <3>1
    <3>3. \A w \in Person : hCopy'[w] = IF w = u THEN h ELSE hCopy[w]
      BY <2>1, <2>2
    <3> QED BY <2>1, <2>2, <3>2, <3>3
  <2>3. CASE UNCHANGED hCopy
    BY <2>1, <2>3
  <2> QED BY <2>2, <2>3 DEF CopyOfFile
<1>3. hOut' \in [Person -> [Person -> SyncType]] /\ \A u, v \in Person : Sends(hOut'[u][v], hNow)
  <2>1. hOut \in [Person -> [Person -> SyncType]] /\ \A u, v \in Person : Sends(hOut[u][v], hNow)
    BY DEF HistoryInv
  <2>2. ASSUME NEW u \in Person, NEW v \in Person, NEW s \in SyncType, Sends(s, hNow),
               hOut' = [hOut EXCEPT ![u][v] = s]
        PROVE  hOut' \in [Person -> [Person -> SyncType]]
               /\ \A x, y \in Person : Sends(hOut'[x][y], hNow)
    <3>1. hOut' \in [Person -> [Person -> SyncType]]
      BY <2>1, <2>2
    <3>2. \A x, y \in Person : hOut'[x][y] = IF x = u /\ y = v THEN s ELSE hOut[x][y]
      BY <2>1, <2>2
    <3>3. \A x, y \in Person : Sends(hOut'[x][y], hNow)
      BY <2>1, <2>2, <3>2
    <3> QED BY <3>1, <3>3
  <2>3. CASE UNCHANGED hOut
    BY <2>1, <2>3
  <2> QED BY <2>2, <2>3 DEF SyncChanges
<1>4. \A m \in hNet' : Carries(m, hNow)
  BY DEF HistoryInv, Posts
<1>n. History!NoCopy' = History!NoCopy
  BY DEF History!NoCopy
<1>r. \A h : Recorded(h, hNow)' <=> Recorded(h, hNow)
  BY DEF Recorded, EntryType
<1>s. \A s : Sends(s, hNow)' <=> Sends(s, hNow)
  BY DEF Sends, History!NoSync
<1>c. \A m : Carries(m, hNow)' <=> Carries(m, hNow)
  BY DEF Carries, EntryType
<1>5. (\A u \in Person : Recorded(hHist[u], hNow))'
  BY <1>1
<1>6. (\A u \in Person : hCopy[u] = History!NoCopy \/ Recorded(hCopy[u], hNow))'
  BY <1>2, <1>n
<1>7. (\A u, v \in Person : Sends(hOut[u][v], hNow))'
  BY <1>3
<1>8. (\A m \in hNet : Carries(m, hNow))'
  BY <1>4
<1> QED BY <1>1, <1>2, <1>3, <1>5, <1>6, <1>7, <1>8 DEF HistoryInv, EntryType, SyncType, History!NoCopy

\* The clock goes on.
LEMMA TickKeepsHistory ==
  ASSUME HistoryInv, History!Tick
  PROVE  HistoryInv'
<1>1. /\ hNow' = hNow + 1 /\ hNow < MaxTime
      /\ UNCHANGED <<hHist, hCopy, hOut, hNet, hWritten, hAsks>>
  BY DEF History!Tick
<1>2. Counters /\ hNow \in Nat
  BY DEF HistoryInv, Counters
<1>3. Counters'
  BY <1>1, <1>2 DEF Counters
<1>4. ASSUME NEW h, Recorded(h, hNow) PROVE Recorded(h, hNow + 1)
  <2>1. \A i \in DOMAIN h : h[i].at \in Nat
    BY <1>4, RecordedEntries
  <2> QED BY <1>2, <1>4, <2>1 DEF Recorded
<1>5. ASSUME NEW s \in SyncType, Sends(s, hNow) PROVE Sends(s, hNow + 1)
  <2>1. \A i \in DOMAIN s.chunks : s.chunks[i].at \in Nat
    <3>1. s.chunks \in Seq(EntryType)
      BY DEF SyncType
    <3>2. \A e \in EntryType : e.at \in Nat
      BY HistoryBounds DEF EntryType
    <3> QED BY <3>1, <3>2
  <2> QED BY <1>2, <1>5, <2>1 DEF Sends
<1>6. ASSUME NEW m, Carries(m, hNow) PROVE Carries(m, hNow + 1)
  <2>1. m.type = "DATA" => m.entry.at \in Nat
    BY <1>6, HistoryBounds DEF Carries, EntryType
  <2> QED BY <1>2, <1>6, <2>1 DEF Carries
<1>7. (\A u \in Person : Recorded(hHist[u], hNow))'
  <2>1. \A u \in Person : Recorded(hHist[u], hNow + 1)
    BY <1>4 DEF HistoryInv
  <2> QED BY <1>1, <2>1
<1>8. (\A u \in Person : hCopy[u] = History!NoCopy \/ Recorded(hCopy[u], hNow))'
  <2>1. \A u \in Person : hCopy[u] = History!NoCopy \/ Recorded(hCopy[u], hNow + 1)
    BY <1>4 DEF HistoryInv
  <2>2. History!NoCopy' = History!NoCopy
    BY DEF History!NoCopy
  <2> QED BY <1>1, <2>1, <2>2
<1>9. (\A u, v \in Person : Sends(hOut[u][v], hNow))'
  <2>1. \A u, v \in Person : hOut[u][v] \in SyncType
    BY DEF HistoryInv
  <2>2. \A u, v \in Person : Sends(hOut[u][v], hNow + 1)
    BY <1>5, <2>1 DEF HistoryInv
  <2> QED BY <1>1, <2>2
<1>10. (\A m \in hNet : Carries(m, hNow))'
  <2>1. \A m \in hNet : Carries(m, hNow + 1)
    BY <1>6 DEF HistoryInv
  <2> QED BY <1>1, <2>1
<1> QED BY <1>1, <1>3, <1>7, <1>8, <1>9, <1>10 DEF HistoryInv, EntryType, SyncType, History!NoCopy

\* A message is recorded at the end of the file, by the clock.
LEMMA AddsChanges ==
  ASSUME HistoryInv, NEW u \in Person, NEW m \in 1..MaxMsgs, History!Adds(u, m)
  PROVE  FileChanges
<1>1. Recorded(hHist[u], hNow) /\ Counters
  BY DEF HistoryInv
<1>2. PICK h : h = Append(hHist[u], History!Entry(m, hNow))
  OBVIOUS
<1>3. Recorded(h, hNow)
  BY <1>1, <1>2, AppendKeepsOrder
<1>4. hHist' = [hHist EXCEPT ![u] = h]
  BY <1>2 DEF History!Adds
<1> QED BY <1>3, <1>4, RecordedEntries DEF FileChanges

LEMMA WritingKeepsHistory ==
  ASSUME HistoryInv, NEW u \in Person, History!Write(u) \/ History!RecvChat(u)
  PROVE  HistoryInv'
<1>1. CASE History!Write(u)
  <2>1. /\ hWritten < MaxMsgs /\ hWritten' = hWritten + 1 /\ History!Adds(u, hWritten + 1)
        /\ hNet' = hNet \cup {History!Chat(v, hWritten + 1) : v \in Person \ {u}}
        /\ UNCHANGED <<hCopy, hOut, hNow, hAsks>>
    BY <1>1 DEF History!Write
  <2>2. Counters
    BY DEF HistoryInv
  <2>3. hWritten + 1 \in 1..MaxMsgs /\ Counters'
    BY <2>1, <2>2 DEF Counters
  <2>4. FileChanges
    BY <2>1, <2>3, AddsChanges
  <2>5. \A v \in Person : Carries(History!Chat(v, hWritten + 1), hNow)
    BY <2>3 DEF Carries, History!Chat, History!Entry
  <2>6. Posts
    BY <2>1, <2>5 DEF Posts
  <2> QED BY <2>1, <2>3, <2>4, <2>6, StepKeepsHistory DEF CopyOfFile, SyncChanges
<1>2. CASE History!RecvChat(u)
  <2>1. PICK m \in hNet :
          /\ m.type = "CHAT" /\ History!Adds(u, m.entry.msg) /\ hNet' = hNet \ {m}
          /\ UNCHANGED <<hCopy, hOut, hNow, hWritten, hAsks>>
    BY <1>2 DEF History!RecvChat, History!Take
  <2>2. m.entry.msg \in 1..MaxMsgs
    BY <2>1 DEF HistoryInv, Carries
  <2>3. FileChanges
    BY <2>1, <2>2, AddsChanges
  <2>4. Counters'
    BY <2>1 DEF HistoryInv, Counters
  <2>5. Posts
    BY <2>1 DEF Posts
  <2> QED BY <2>1, <2>3, <2>4, <2>5, StepKeepsHistory DEF CopyOfFile, SyncChanges
<1> QED BY <1>1, <1>2

\* The latest time of a history is that of its last entry.
LEMMA LatestIs ==
  ASSUME NEW t \in Nat, NEW h, Recorded(h, t)
  PROVE  History!LatestTimestamp(h) \in Nat
<1>1. PICK n \in Nat : n = Len(h) /\ DOMAIN h = 1..n
  BY RecordedEntries
<1>2. \A i \in 1..n : h[i].at \in Nat
  BY <1>1, RecordedEntries
<1>3. PICK S : S = {0} \cup {h[i].at : i \in DOMAIN h}
  OBVIOUS
<1>4. \A x \in S : x \in Nat
  BY <1>1, <1>2, <1>3
<1>5. \E x \in S : \A y \in S : y <= x
  <2>1. CASE n = 0
    <3>1. S = {0}
      BY <1>1, <1>3, <2>1
    <3> QED BY <3>1
  <2>2. CASE n # 0
    <3>1. n \in 1..n /\ h[n].at \in S
      BY <1>1, <1>3, <2>2
    <3>2. \A i \in 1..n : h[i].at <= h[n].at
      BY <1>1, <3>1 DEF Recorded
    <3>3. \A y \in S : y <= h[n].at
      BY <1>1, <1>2, <1>3, <3>1, <3>2
    <3> QED BY <3>1, <3>3
  <2> QED BY <2>1, <2>2
<1>6. History!SetMax(S) \in S
  BY <1>5 DEF History!SetMax
<1> QED BY <1>3, <1>4, <1>6 DEF History!LatestTimestamp

\* What is sent of a history is recorded in it.
LEMMA MessagesAfterAre ==
  ASSUME NEW t \in Nat, NEW h, Recorded(h, t), NEW a \in Nat
  PROVE  /\ History!MessagesAfter(h, a) \in Seq(EntryType)
         /\ \A i \in DOMAIN History!MessagesAfter(h, a) : History!MessagesAfter(h, a)[i].at <= t
<1>1. PICK i : i = History!FirstAfter(h, a)
  OBVIOUS
<1>2. i \in 1..(Len(h) + 1)
  BY <1>1, RecordedEntries, FirstAfterIs
<1>3. PICK g : g = SubSeq(h, i, Len(h))
  OBVIOUS
<1>4. g = History!MessagesAfter(h, a)
  BY <1>1, <1>3 DEF History!MessagesAfter
<1>5. h \in Seq(EntryType) /\ \A k \in DOMAIN h : h[k].at <= t
  BY DEF Recorded
<1>6. g \in Seq(EntryType) /\ \A j \in DOMAIN g : \E k \in DOMAIN h : g[j] = h[k]
  BY <1>2, <1>3, <1>5, RestOf
<1> QED BY <1>4, <1>5, <1>6

\* A chunk carries what is recorded.
LEMMA DataCarries ==
  ASSUME NEW u \in Person, NEW v \in Person, NEW t, NEW c \in Seq(EntryType), NEW i \in DOMAIN c,
         \A j \in DOMAIN c : c[j].at <= t
  PROVE  Carries(History!Data(u, v, i, c), t)
<1>1. c[i] \in EntryType /\ i \in Nat \ {0}
  OBVIOUS
<1>2. PICK e \in EntryType : e = c[i] /\ e.at <= t
  BY <1>1
<1>3. PICK m : m = [type |-> "DATA", src |-> u, dst |-> v, at |-> i, of |-> Len(c), entry |-> e]
  OBVIOUS
<1>4. m = History!Data(u, v, i, c)
  BY <1>2, <1>3 DEF History!Data
<1>5. Carries(m, t)
  BY <1>1, <1>2, <1>3 DEF Carries
<1> QED BY <1>4, <1>5

LEMMA AskingKeepsHistory ==
  ASSUME HistoryInv, NEW u \in Person, NEW v \in Person, History!Ask(u, v) \/ History!RecvRequest(u)
  PROVE  HistoryInv'
<1>0. Counters /\ hNow \in Nat /\ Recorded(hHist[u], hNow)
  BY DEF HistoryInv, Counters
<1>1. CASE History!Ask(u, v)
  <2>1. /\ hAsks < MaxAsks /\ hAsks' = hAsks + 1
        /\ hNet' = hNet \cup {History!Request(u, v, History!LatestTimestamp(hHist[u]))}
        /\ UNCHANGED <<hHist, hCopy, hOut, hNow, hWritten>>
    BY <1>1 DEF History!Ask
  <2>2. PICK t \in Nat : t = History!LatestTimestamp(hHist[u])
    BY <1>0, LatestIs
  <2>3. Carries(History!Request(u, v, t), hNow)
    BY DEF Carries, History!Request
  <2>4. Posts
    BY <2>1, <2>2, <2>3 DEF Posts
  <2>5. Counters'
    BY <1>0, <2>1 DEF Counters
  <2> QED BY <2>1, <2>4, <2>5, StepKeepsHistory DEF FileChanges, CopyOfFile, SyncChanges
<1>2. CASE History!RecvRequest(u)
  <2>1. PICK m \in hNet :
          /\ m.type = "REQUEST"
          /\ LET chunks == History!MessagesAfter(hHist[u], m.at)
             IN  /\ hNet' = (hNet \ {m})
                      \cup (IF chunks = <<>> THEN {} ELSE {History!Data(u, m.src, 1, chunks)})
                 /\ hOut' = IF Len(chunks) < 2 THEN hOut
                            ELSE [hOut EXCEPT ![u][m.src] =
                                    [History!NoSync EXCEPT !.chunks = chunks, !.next = 2]]
          /\ UNCHANGED <<hHist, hCopy, hNow, hWritten, hAsks>>
    BY <1>2 DEF History!RecvRequest, History!Take
  <2>2. m.src \in Person /\ m.at \in Nat
    BY <2>1 DEF HistoryInv, Carries
  <2>3. PICK c : c = History!MessagesAfter(hHist[u], m.at)
    OBVIOUS
  <2>4. c \in Seq(EntryType) /\ \A i \in DOMAIN c : c[i].at <= hNow
    BY <1>0, <2>2, <2>3, MessagesAfterAre
  <2>5. Posts
    <3>1. CASE c = <<>>
      BY <2>1, <2>3, <3>1 DEF Posts
    <3>2. CASE c # <<>>
      <4>1. 1 \in DOMAIN c
        BY <2>4, <3>2
      <4>2. Carries(History!Data(u, m.src, 1, c), hNow)
        BY <2>2, <2>4, <4>1, DataCarries
      <4>3. hNet' = (hNet \ {m}) \cup {History!Data(u, m.src, 1, c)}
        BY <2>1, <2>3, <3>2
      <4> QED BY <4>2, <4>3 DEF Posts
    <3> QED BY <3>1, <3>2
  <2>6. SyncChanges
    <3>1. CASE Len(c) < 2
      BY <2>1, <2>3, <3>1 DEF SyncChanges
    <3>2. CASE ~(Len(c) < 2)
      <4>0. PICK s : s = [History!NoSync EXCEPT !.chunks = c, !.next = 2]
        OBVIOUS
      <4>1. s = [chunks |-> c, next |-> 2, retries |-> 0, acked |-> {}]
        BY <4>0 DEF History!NoSync
      <4>2. s \in SyncType
        BY <2>4, <4>1 DEF SyncType
      <4>3. 2 \in 2..Len(c) /\ 0 \in 0..MaxRepeats
        BY <2>4, <3>2, HistoryBounds
      <4>4. Sends(s, hNow)
        BY <2>4, <4>1, <4>3 DEF Sends
      <4>5. hOut' = [hOut EXCEPT ![u][m.src] = s]
        BY <2>1, <2>3, <3>2, <4>0
      <4> QED BY <2>2, <4>2, <4>4, <4>5 DEF SyncChanges
    <3> QED BY <3>1, <3>2
  <2>7. Counters'
    BY <1>0, <2>1 DEF Counters
  <2> QED BY <2>1, <2>5, <2>6, <2>7, StepKeepsHistory DEF FileChanges, CopyOfFile
<1> QED BY <1>1, <1>2

LEMMA ReceivingKeepsHistory ==
  ASSUME HistoryInv, NEW u \in Person, History!RecvData(u)
  PROVE  HistoryInv'
<1>0. Counters /\ hNow \in Nat /\ Recorded(hHist[u], hNow)
  BY DEF HistoryInv, Counters
<1>1. PICK m \in hNet :
        /\ m.type = "DATA"
        /\ LET h == History!Merge(hHist[u], m.entry)
           IN  /\ hHist' = [hHist EXCEPT ![u] = h]
               /\ hNet' = (hNet \ {m}) \cup {History!Ack(u, m.src, m.at)}
               /\ UNCHANGED hCopy \/ hCopy' = [hCopy EXCEPT ![u] = h]
        /\ UNCHANGED <<hOut, hNow, hWritten, hAsks>>
  BY DEF History!RecvData, History!Take
<1>2. m.src \in Person /\ m.entry \in EntryType /\ m.entry.at <= hNow /\ m.at \in Nat \ {0}
  BY <1>1 DEF HistoryInv, Carries
<1>3. PICK h : h = History!Merge(hHist[u], m.entry)
  OBVIOUS
<1>4. Recorded(h, hNow) /\ h \in Seq(EntryType)
  BY <1>0, <1>2, <1>3, MergeKeepsOrder DEF Recorded
<1>5. FileChanges
  BY <1>1, <1>3, <1>4 DEF FileChanges
<1>6. CopyOfFile
  BY <1>1, <1>3, <1>4 DEF CopyOfFile
<1>7. Carries(History!Ack(u, m.src, m.at), hNow)
  BY <1>2 DEF Carries, History!Ack
<1>8. Posts
  BY <1>1, <1>7 DEF Posts
<1>9. Counters'
  BY <1>0, <1>1 DEF Counters
<1> QED BY <1>1, <1>5, <1>6, <1>8, <1>9, StepKeepsHistory DEF SyncChanges

\* What is known of a synchronisation that is under way.
LEMMA SyncFacts ==
  ASSUME HistoryInv, NEW u \in Person, NEW v \in Person, hOut[u][v] # History!NoSync
  PROVE  /\ hOut[u][v] \in SyncType /\ hOut[u][v].chunks \in Seq(EntryType)
         /\ hOut[u][v].next \in 2..Len(hOut[u][v].chunks)
         /\ hOut[u][v].retries \in 0..MaxRepeats /\ hOut[u][v].acked \in SUBSET Nat
         /\ \A i \in DOMAIN hOut[u][v].chunks : hOut[u][v].chunks[i].at <= hNow
<1>1. hOut[u][v] \in SyncType /\ Sends(hOut[u][v], hNow)
  BY DEF HistoryInv
<1> QED BY <1>1 DEF Sends, SyncType

\* One that goes on.
LEMMA GoesOn ==
  ASSUME HistoryInv, NEW u \in Person, NEW v \in Person, hOut[u][v] # History!NoSync,
         NEW i \in 2..Len(hOut[u][v].chunks), NEW r \in 0..MaxRepeats, NEW a \in SUBSET Nat,
         NEW s, s = [chunks |-> hOut[u][v].chunks, next |-> i, retries |-> r, acked |-> a]
  PROVE  /\ s \in SyncType /\ Sends(s, hNow)
         /\ Carries(History!Data(u, v, i, hOut[u][v].chunks), hNow)
<1>1. PICK c \in Seq(EntryType) :
        c = hOut[u][v].chunks /\ \A j \in DOMAIN c : c[j].at <= hNow
  BY SyncFacts
<1>2. s = [chunks |-> c, next |-> i, retries |-> r, acked |-> a] /\ i \in 2..Len(c)
  BY <1>1
<1>3. r \in Nat /\ i \in Nat /\ i \in DOMAIN c
  BY <1>1, <1>2, HistoryBounds
<1>4. s \in SyncType
  BY <1>1, <1>2, <1>3 DEF SyncType
<1>5. Sends(s, hNow)
  BY <1>1, <1>2 DEF Sends
<1>6. Carries(History!Data(u, v, i, c), hNow)
  BY <1>1, <1>3, DataCarries
<1> QED BY <1>1, <1>4, <1>5, <1>6

LEMMA NothingToSend == History!NoSync \in SyncType /\ Sends(History!NoSync, hNow)
<1>1. <<>> \in Seq(EntryType)
  OBVIOUS
<1> QED BY <1>1 DEF History!NoSync, SyncType, Sends

LEMMA AckKeepsHistory ==
  ASSUME HistoryInv, NEW u \in Person, History!RecvAck(u)
  PROVE  HistoryInv'
<1>1. PICK m \in hNet :
        /\ m.type = "ACK"
        /\ \/ hNet' = hNet \ {m} /\ UNCHANGED hOut
           \/ /\ hOut[u][m.src] # History!NoSync /\ m.at < Len(hOut[u][m.src].chunks)
              /\ hOut' = [hOut EXCEPT ![u][m.src] =
                            [hOut[u][m.src] EXCEPT !.next = m.at + 1, !.retries = 0,
                                                   !.acked = hOut[u][m.src].acked \cup {m.at}]]
              /\ hNet' = (hNet \ {m}) \cup {History!Data(u, m.src, m.at + 1, hOut[u][m.src].chunks)}
           \/ hOut' = [hOut EXCEPT ![u][m.src] = History!NoSync] /\ hNet' = hNet \ {m}
        /\ UNCHANGED <<hHist, hCopy, hNow, hWritten, hAsks>>
  BY DEF History!RecvAck, History!Take
<1>2. m.src \in Person /\ m.at \in Nat \ {0}
  BY <1>1 DEF HistoryInv, Carries
<1>3. Posts /\ SyncChanges
  <2>1. CASE hNet' = hNet \ {m} /\ UNCHANGED hOut
    BY <2>1 DEF Posts, SyncChanges
  <2>2. CASE hOut' = [hOut EXCEPT ![u][m.src] = History!NoSync] /\ hNet' = hNet \ {m}
    BY <1>2, <2>2, NothingToSend DEF Posts, SyncChanges
  <2>3. CASE
      /\ hOut[u][m.src] # History!NoSync /\ m.at < Len(hOut[u][m.src].chunks)
      /\ hOut' = [hOut EXCEPT ![u][m.src] =
                    [hOut[u][m.src] EXCEPT !.next = m.at + 1, !.retries = 0,
                                           !.acked = hOut[u][m.src].acked \cup {m.at}]]
      /\ hNet' = (hNet \ {m}) \cup {History!Data(u, m.src, m.at + 1, hOut[u][m.src].chunks)}
    <3>1. PICK v \in Person : v = m.src
      BY <1>2
    <3>a. /\ hOut[u][v] \in SyncType /\ hOut[u][v].acked \in SUBSET Nat
          /\ hOut[u][v].chunks \in Seq(EntryType)
      BY <2>3, <3>1, SyncFacts
    <3>b. Len(hOut[u][v].chunks) \in Nat
      BY <3>a
    <3>2. PICK s \in SyncType : s = hOut[u][v] /\ s.acked \in SUBSET Nat /\ Len(s.chunks) \in Nat
      BY <3>a, <3>b
    <3>3. PICK i : i = m.at + 1
      OBVIOUS
    <3>4. i \in 2..Len(s.chunks)
      <4>1. m.at < Len(s.chunks)
        BY <2>3, <3>1, <3>2
      <4> QED BY <1>2, <3>2, <3>3, <4>1
    <3>5. PICK a : a = s.acked \cup {m.at}
      OBVIOUS
    <3>6. a \in SUBSET Nat /\ 0 \in 0..MaxRepeats
      <4>1. m.at \in Nat
        BY <1>2
      <4>2. a \in SUBSET Nat
        BY <3>2, <3>5, <4>1
      <4> QED BY <4>2, HistoryBounds
    <3>7. PICK z : z = [s EXCEPT !.next = i, !.retries = 0, !.acked = a]
      OBVIOUS
    <3>8. z = [chunks |-> s.chunks, next |-> i, retries |-> 0, acked |-> a]
      BY <3>7 DEF SyncType
    <3>9. hOut[u][v] # History!NoSync
      BY <2>3, <3>1
    <3>10. /\ z \in SyncType /\ Sends(z, hNow)
           /\ Carries(History!Data(u, v, i, s.chunks), hNow)
      BY <3>2, <3>4, <3>6, <3>8, <3>9, GoesOn
    <3>11. /\ hOut' = [hOut EXCEPT ![u][v] = z]
           /\ hNet' = (hNet \ {m}) \cup {History!Data(u, v, i, s.chunks)}
      BY <2>3, <3>1, <3>2, <3>3, <3>5, <3>7
    <3> QED BY <3>10, <3>11 DEF Posts, SyncChanges
  <2> QED BY <1>1, <2>1, <2>2, <2>3
<1>4. Counters'
  BY <1>1 DEF HistoryInv, Counters
<1> QED BY <1>1, <1>3, <1>4, StepKeepsHistory DEF FileChanges, CopyOfFile

LEMMA HousekeepingKeepsHistory ==
  ASSUME HistoryInv, NEW u \in Person, NEW v \in Person, History!Retry(u, v) \/ History!Expire(u, v)
  PROVE  HistoryInv'
<1>1. CASE History!Retry(u, v)
  <2>1. /\ hOut[u][v] # History!NoSync /\ hOut[u][v].retries < MaxRepeats
        /\ hOut' = [hOut EXCEPT ![u][v] = History!Counted(hOut[u][v])]
        /\ hNet' = hNet \cup {History!Data(u, v, hOut[u][v].next, hOut[u][v].chunks)}
        /\ UNCHANGED <<hHist, hCopy, hNow, hWritten, hAsks>>
    BY <1>1 DEF HistoryInv, History!Retry, History!Again
  <2>2. PICK s \in SyncType : s = hOut[u][v]
    BY DEF HistoryInv
  <2>3. /\ s.next \in 2..Len(s.chunks) /\ s.retries \in 0..MaxRepeats /\ s.acked \in SUBSET Nat
    BY <2>1, <2>2, SyncFacts
  <2>4. PICK r : r = s.retries + 1
    OBVIOUS
  <2>5. r \in 0..MaxRepeats
    BY <2>1, <2>2, <2>3, <2>4, HistoryBounds
  <2>6. PICK z : z = [s EXCEPT !.retries = r]
    OBVIOUS
  <2>7. z = [chunks |-> s.chunks, next |-> s.next, retries |-> r, acked |-> s.acked]
    BY <2>6 DEF SyncType
  <2>8. z \in SyncType /\ Sends(z, hNow) /\ Carries(History!Data(u, v, s.next, s.chunks), hNow)
    BY <2>1, <2>2, <2>3, <2>5, <2>7, GoesOn
  <2>9. hOut' = [hOut EXCEPT ![u][v] = z]
    BY <2>1, <2>2, <2>4, <2>6 DEF History!Counted
  <2>10. Posts
    BY <2>1, <2>2, <2>8 DEF Posts
  <2>11. SyncChanges
    BY <2>8, <2>9 DEF SyncChanges
  <2>12. Counters'
    BY <2>1 DEF HistoryInv, Counters
  <2> QED BY <2>1, <2>10, <2>11, <2>12, StepKeepsHistory DEF FileChanges, CopyOfFile
<1>2. CASE History!Expire(u, v)
  <2>1. /\ hOut' = [hOut EXCEPT ![u][v] = History!NoSync]
        /\ UNCHANGED <<hHist, hCopy, hNet, hNow, hWritten, hAsks>>
    BY <1>2 DEF History!Expire
  <2>2. Counters'
    BY <2>1 DEF HistoryInv, Counters
  <2> QED BY <2>1, <2>2, NothingToSend, StepKeepsHistory DEF FileChanges, CopyOfFile, SyncChanges, Posts
<1> QED BY <1>1, <1>2

\* What the window writes back when a call ends is a file there was.
LEMMA CallEndKeepsHistory ==
  ASSUME HistoryInv, NEW u \in Person, History!CallEnds(u)
  PROVE  HistoryInv'
<1>1. /\ hCopy[u] # History!NoCopy
      /\ hHist' = [hHist EXCEPT ![u] = hCopy[u]] /\ hCopy' = [hCopy EXCEPT ![u] = History!NoCopy]
      /\ UNCHANGED <<hOut, hNet, hNow, hWritten, hAsks>>
  BY DEF History!CallEnds
<1>2. Recorded(hCopy[u], hNow) /\ hCopy[u] \in Seq(EntryType)
  BY <1>1 DEF HistoryInv, Recorded
<1>3. FileChanges
  BY <1>1, <1>2 DEF FileChanges
<1>4. CopyOfFile
  BY <1>1 DEF CopyOfFile
<1>5. Counters'
  BY <1>1 DEF HistoryInv, Counters
<1> QED BY <1>1, <1>3, <1>4, <1>5, StepKeepsHistory DEF SyncChanges, Posts

LEMMA HistoryHolds == MembersSpec => []HistoryInv
<1>1. MembersInit => HistoryInv
  <2> SUFFICES ASSUME MembersInit PROVE HistoryInv
    OBVIOUS
  <2>1. /\ hHist = [u \in Person |-> <<>>] /\ hCopy = [u \in Person |-> History!NoCopy]
        /\ hOut = [u \in Person |-> [v \in Person |-> History!NoSync]]
        /\ hNet = {} /\ hNow = 1 /\ hWritten = 0 /\ hAsks = 0
    BY DEF MembersInit, History!Init
  <2>2. Counters
    BY <2>1, HistoryBounds DEF Counters
  <2>3. <<>> \in Seq(EntryType) /\ Recorded(<<>>, hNow)
    BY DEF Recorded
  <2> QED BY <2>1, <2>2, <2>3, NothingToSend DEF HistoryInv
<1>2. HistoryInv /\ [MembersNext]_allVars => HistoryInv'
  <2> SUFFICES ASSUME HistoryInv, [MembersNext]_allVars PROVE HistoryInv'
    OBVIOUS
  <2>1. CASE History!Next
    <3>1. CASE History!Tick
      BY <3>1, TickKeepsHistory
    <3>2. ASSUME NEW u \in Person, History!Write(u) \/ History!RecvChat(u) PROVE HistoryInv'
      BY <3>2, WritingKeepsHistory
    <3>3. ASSUME NEW u \in Person, NEW v \in Person, History!Ask(u, v) \/ History!RecvRequest(u)
          PROVE  HistoryInv'
      BY <3>3, AskingKeepsHistory
    <3>4. ASSUME NEW u \in Person, History!RecvData(u) PROVE HistoryInv'
      BY <3>4, ReceivingKeepsHistory
    <3>5. ASSUME NEW u \in Person, History!RecvAck(u) PROVE HistoryInv'
      BY <3>5, AckKeepsHistory
    <3>6. ASSUME NEW u \in Person, NEW v \in Person, History!Retry(u, v) \/ History!Expire(u, v)
          PROVE  HistoryInv'
      BY <3>6, HousekeepingKeepsHistory
    <3>7. ASSUME NEW u \in Person, History!CallEnds(u) PROVE HistoryInv'
      BY <3>7, CallEndKeepsHistory
    <3> QED BY <2>1, <3>1, <3>2, <3>3, <3>4, <3>5, <3>6, <3>7 DEF History!Next
  <2>2. CASE UNCHANGED historyVars
    <3>1. UNCHANGED <<hHist, hCopy, hOut, hNet, hNow, hWritten, hAsks>>
      BY <2>2 DEF historyVars
    <3>2. Counters'
      BY <3>1 DEF HistoryInv, Counters
    <3> QED BY <3>1, <3>2, StepKeepsHistory DEF FileChanges, CopyOfFile, SyncChanges, Posts
  <2> QED BY <2>1, <2>2
          DEF MembersNext, allVars, PeopleStep, GroupStep, AvatarStep, HistoryStep, FailoverStep
<1> QED BY <1>1, <1>2, PTL DEF MembersSpec

\* The history of a channel has its types: every entry has a message that was written
\* and a time of the clock; no synchronisation is past its end or its repeats.
LEMMA HistoriesTyped == MembersSpec => []History!TypeOK
<1>1. HistoryInv => History!TypeOK
  <2> SUFFICES ASSUME HistoryInv PROVE History!TypeOK
    OBVIOUS
  <2>1. \A u \in Person : \A e \in History!ToSet(hHist[u]) : e.msg \in 1..MaxMsgs /\ e.at \in 1..MaxTime
    <3>1. \A u \in Person : \A i \in DOMAIN hHist[u] : hHist[u][i] \in EntryType
      BY RecordedEntries DEF HistoryInv
    <3> QED BY <3>1 DEF History!ToSet, EntryType
  <2>2. \A u, v \in Person :
          LET s == hOut[u][v]
          IN  s = History!NoSync \/ (s.next \in 2..Len(s.chunks) /\ s.retries \in 0..MaxRepeats)
    BY DEF HistoryInv, Sends
  <2> QED BY <2>1, <2>2 DEF HistoryInv, Counters, History!TypeOK
<1> QED BY <1>1, HistoryHolds, PTL

\* A history is in the order of its times, whatever is fetched late, repeated or written
\* back by the window at the end of a call: what the code relies on when it asks for what
\* is newer than the latest.
THEOREM HistoriesInOrder == MembersSpec => []InOrder
<1>1. HistoryInv => InOrder
  <2> SUFFICES ASSUME HistoryInv, NEW u \in Person, NEW i \in 1..(Len(hHist[u]) - 1)
               PROVE  hHist[u][i].at <= hHist[u][i + 1].at
    BY DEF InOrder, History!InOrder
  <2>1. PICK n \in Nat : n = Len(hHist[u]) /\ DOMAIN hHist[u] = 1..n
    BY RecordedEntries DEF HistoryInv
  <2>2. i \in 1..n /\ i + 1 \in 1..n /\ i <= i + 1
    BY <2>1
  <2> QED BY <2>1, <2>2 DEF HistoryInv, Recorded
<1> QED BY <1>1, HistoryHolds, PTL

----------------------------------------------------------------------------
(* The types of the parts *)

\* Every step of an avatar keeps the types.
LEMMA AvatarKeepsTypes ==
  ASSUME AvatarAssumption, TypeOK, net \subseteq Packets, recv.of \in Avatars \cup {0}, [Next]_vars
  PROVE  TypeOK'
<1> DEFINE Sending == [of : 0..Len(Size), offered : BOOLEAN, needs : BOOLEAN, sent : BOOLEAN,
                       retries : 0..MaxRetries]
<1>1. Len(Size) \in Nat /\ MaxRetries \in Nat /\ MaxChanges \in Nat /\ 0 \in 0..Len(Size)
  BY DEF AvatarAssumption
<1>2. send \in Sending /\ recv.of \in 0..Len(Size) /\ changes \in 0..MaxChanges
  BY DEF TypeOK
<1>3. ASSUME NEW v \in 0..Len(Size), NEW r \in 0..MaxRetries
      PROVE  [NoSend EXCEPT !.of = v, !.retries = r] \in Sending
  BY <1>1 DEF NoSend
<1>4. NoSend \in Sending /\ \A v \in 0..Len(Size) : [NoSend EXCEPT !.of = v] \in Sending
  <2>1. 0 \in 0..MaxRetries
    BY <1>1
  <2>2. NoSend \in Sending
    BY <1>1, <2>1 DEF NoSend
  <2>3. ASSUME NEW v \in 0..Len(Size) PROVE [NoSend EXCEPT !.of = v] \in Sending
    BY <2>1, <2>2, <2>3
  <2> QED BY <2>2, <2>3
<1> HIDE DEF Sending
<1>5. SUFFICES send' \in Sending /\ recv'.of \in 0..Len(Size) /\ changes' \in 0..MaxChanges
  BY DEF TypeOK, Sending
<1>6. ASSUME NEW v \in Avatars, Change(v) PROVE send' \in Sending /\ recv'.of \in 0..Len(Size) /\ changes' \in 0..MaxChanges
  BY <1>1, <1>2, <1>4, <1>6 DEF Change, Avatars
<1>7. ASSUME SendOffer \/ SendChunks \/ RecvNack
      PROVE send' \in Sending /\ recv'.of \in 0..Len(Size) /\ changes' \in 0..MaxChanges
  <2>1. recv' = recv /\ changes' = changes
    BY <1>7 DEF SendOffer, SendChunks, RecvNack
  <2>2. \/ send' = [send EXCEPT !.offered = TRUE] \/ send' = [send EXCEPT !.sent = TRUE]
        \/ send' = [send EXCEPT !.needs = TRUE] \/ send' = send
    BY <1>7 DEF SendOffer, SendChunks, RecvNack
  <2>3. send' \in Sending
    BY <1>2, <2>2 DEF Sending
  <2> QED BY <1>2, <2>1, <2>3
<1>8. ASSUME Retry
      PROVE send' \in Sending /\ recv'.of \in 0..Len(Size) /\ changes' \in 0..MaxChanges
  <2>1. recv' = recv /\ changes' = changes
    BY <1>8 DEF Retry
  <2>2. send.of \in 0..Len(Size) /\ send.retries \in 0..MaxRetries
    BY <1>2 DEF Sending
  <2>3. CASE send.retries = MaxRetries
    BY <1>2, <1>4, <1>8, <2>1, <2>3 DEF Retry
  <2>4. CASE send.retries # MaxRetries
    <3>1. send' = [NoSend EXCEPT !.of = send.of, !.retries = send.retries + 1]
      BY <1>8, <2>4 DEF Retry
    <3>2. send.retries + 1 \in 0..MaxRetries
      BY <1>1, <2>2, <2>4
    <3>3. send' \in Sending
      BY <1>3, <2>2, <3>1, <3>2
    <3> QED BY <1>2, <2>1, <3>3
  <2> QED BY <2>3, <2>4
<1>9. ASSUME RecvAck
      PROVE send' \in Sending /\ recv'.of \in 0..Len(Size) /\ changes' \in 0..MaxChanges
  BY <1>2, <1>4, <1>9 DEF RecvAck
<1>10. ASSUME RecvOffer
      PROVE send' \in Sending /\ recv'.of \in 0..Len(Size) /\ changes' \in 0..MaxChanges
  <2>1. PICK m \in net : m.type = "OFFER"
             /\ (recv' = recv \/ recv' = [of |-> m.of, chunks |-> {}])
    BY <1>10 DEF RecvOffer
  <2>2. m.of \in Avatars
    BY DEF Packets
  <2>3. send' = send /\ changes' = changes
    BY <1>10 DEF RecvOffer
  <2> QED BY <1>2, <2>1, <2>2, <2>3 DEF Avatars
<1>11. ASSUME RecvData \/ DropData \/ Expire
      PROVE send' \in Sending /\ recv'.of \in 0..Len(Size) /\ changes' \in 0..MaxChanges
  <2>1. send' = send /\ changes' = changes
    BY <1>11 DEF RecvData, DropData, Expire
  <2>2. recv' = NoRecv \/ recv' = recv \/ \E c : recv' = [recv EXCEPT !.chunks = c]
    BY <1>11 DEF RecvData, DropData, Expire
  <2>3. recv'.of = 0 \/ recv'.of = recv.of
    <3>1. CASE recv' = NoRecv
      BY <3>1 DEF NoRecv
    <3>2. CASE recv' = recv
      BY <3>2
    <3>3. CASE \E c : recv' = [recv EXCEPT !.chunks = c]
      BY <3>3
    <3> QED BY <2>2, <3>1, <3>2, <3>3
  <2> QED BY <1>1, <1>2, <2>1, <2>3
<1>12. CASE UNCHANGED vars
  BY <1>2, <1>12 DEF vars
<1> QED BY <1>6, <1>7, <1>8, <1>9, <1>10, <1>11, <1>12 DEF Next

\* The entry of a sending, and what the receiver has under way, keep their types.
LEMMA AvatarTyped == MembersSpec => []TypeOK
<1>0. AvatarAssumption
  BY PartsAssumption
<1>1. MembersInit => TypeOK
  BY <1>0 DEF AvatarAssumption, MembersInit, Init, NoSend, NoRecv, TypeOK
<1>2. Inv /\ TypeOK /\ [MembersNext]_allVars => TypeOK'
  <2>1. [MembersNext]_allVars => [Next]_vars
    BY DEF MembersNext, allVars, PeopleStep, GroupStep, AvatarStep, HistoryStep, FailoverStep
  <2> QED BY <1>0, <2>1, AvatarKeepsTypes DEF Inv
<1> QED BY <1>1, <1>2, InvHolds, PTL DEF MembersSpec

FailoverPart == INSTANCE GroupCallProofs WITH
  mode <- fMode, leader <- fLeader, conn <- fConn, alive <- fAlive, net <- fNet,
  led <- fLed, starts <- fStarts, losses <- fLosses

\* The group call that loses its leader is up from the start.
LEMMA FailoverSpec ==
  MembersSpec => FailoverPart!BegunWithin /\ [][FailoverPart!Next]_(FailoverPart!vars)
<1>1. MembersInit => FailoverPart!BegunWithin
  <2> SUFFICES ASSUME Failover!InitUp(1..N, 0) PROVE FailoverPart!BegunWithin
    BY DEF MembersInit
  <2>1. FailoverPart!InitUp(1..N, 0)
    BY DEF Failover!Min, FailoverPart!Min, Failover!User, FailoverPart!User, Failover!Nobody,
       FailoverPart!Nobody, Failover!NoTable, FailoverPart!NoTable, Failover!InitUp,
       FailoverPart!InitUp
  <2>2. /\ N \in Nat \ {0} /\ MaxStarts \in Nat /\ FailoverPart!User = 1..N
    BY PartsAssumption DEF Failover!GroupCallAssumption, FailoverPart!User
  <2>3. 1..N \in (SUBSET FailoverPart!User) \ {{}} /\ 0 \in Nat
    BY <2>2
  <2>4. FailoverPart!Begun
    BY <2>1, <2>3 DEF FailoverPart!Begun
  <2>5. fStarts = 0
    BY <2>1 DEF FailoverPart!InitUp
  <2> QED BY <2>2, <2>4, <2>5 DEF FailoverPart!BegunWithin
<1>2. Failover!Next => FailoverPart!Next
  BY DEF Failover!Min, FailoverPart!Min, Failover!User, FailoverPart!User, Failover!Nobody,
     FailoverPart!Nobody, Failover!Pkt, FailoverPart!Pkt, Failover!NoTable,
     FailoverPart!NoTable, Failover!Peers, FailoverPart!Peers, Failover!ToAll,
     FailoverPart!ToAll, Failover!Start, FailoverPart!Start, Failover!Quiet,
     FailoverPart!Quiet, Failover!ProbeTimeout, FailoverPart!ProbeTimeout, Failover!Out,
     FailoverPart!Out, Failover!Leave, FailoverPart!Leave, Failover!Crash, FailoverPart!Crash,
     Failover!Speak, FailoverPart!Speak, Failover!Ping, FailoverPart!Ping, Failover!Heard,
     FailoverPart!Heard, Failover!RemoveSilent, FailoverPart!RemoveSilent, Failover!Got,
     FailoverPart!Got, Failover!RecvProbing, FailoverPart!RecvProbing, Failover!AnswerHello,
     FailoverPart!AnswerHello, Failover!RecvHello, FailoverPart!RecvHello, Failover!Others,
     FailoverPart!Others, Failover!Relayed, FailoverPart!Relayed, Failover!RecvLeading,
     FailoverPart!RecvLeading, Failover!RecvMember, FailoverPart!RecvMember,
     Failover!RecvDiscovering, FailoverPart!RecvDiscovering, Failover!RecvNothing,
     FailoverPart!RecvNothing, Failover!Receive, FailoverPart!Receive, Failover!Lose,
     FailoverPart!Lose, Failover!Talks, FailoverPart!Talks, Failover!Served,
     FailoverPart!Served, Failover!Timeout, FailoverPart!Timeout, Failover!StopsElected,
     FailoverPart!StopsElected, Failover!Alone, FailoverPart!Alone, Failover!DiscoveryEnds,
     FailoverPart!DiscoveryEnds, Failover!Elected, FailoverPart!Elected, Failover!Decide,
     FailoverPart!Decide, Failover!Next, FailoverPart!Next
<1>3. [MembersNext]_allVars => [FailoverPart!Next]_(FailoverPart!vars)
  BY <1>2 DEF MembersNext, allVars, PeopleStep, GroupStep, AvatarStep, HistoryStep, FailoverStep,
     failoverVars, FailoverPart!vars
<1> QED BY <1>1, <1>3, PTL DEF MembersSpec

\* Every variable of every part keeps its type, whatever is lost.
THEOREM PartsTyped == MembersSpec => []Types
<1>1. MembersSpec => []People!TypeOK
  <2>1. PeoplePart!ContactsAssumption
    BY PartsAssumption DEF People!ContactsAssumption, PeoplePart!ContactsAssumption
  <2>2. PeoplePart!Spec => []PeoplePart!TypeOK
    BY <2>1, PeoplePart!ContactTypes
  <2>3. PeoplePart!TypeOK => People!TypeOK
    BY DEF People!Eph, PeoplePart!Eph, People!Session, PeoplePart!Session, People!Packet,
       PeoplePart!Packet, People!TypeOK, PeoplePart!TypeOK
  <2> QED BY <2>2, <2>3, PeopleSpec, PTL
<1>2. MembersSpec => []Failover!TypeOK
  <2>1. FailoverPart!GroupCallAssumption
    BY PartsAssumption DEF Failover!GroupCallAssumption, FailoverPart!GroupCallAssumption
  <2>2. FailoverPart!BegunWithin /\ [][FailoverPart!Next]_(FailoverPart!vars) => []FailoverPart!TypeOK
    BY <2>1, FailoverPart!RelayTypes
  <2>3. FailoverPart!TypeOK => Failover!TypeOK
    BY DEF Failover!User, FailoverPart!User, Failover!Nobody, FailoverPart!Nobody,
       Failover!Mode, FailoverPart!Mode, Failover!Packet, FailoverPart!Packet, Failover!Peers,
       FailoverPart!Peers, Failover!TypeOK, FailoverPart!TypeOK
  <2> QED BY <2>2, <2>3, FailoverSpec, PTL
<1> QED BY <1>1, <1>2, AvatarTyped, GroupsTyped, HistoriesTyped, PTL DEF Types
=============================================================================
