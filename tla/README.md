# KoKoRoo in TLA+

KoKoRoo is a peer-to-peer messenger with no servers: every user runs one process that
talks to other users' processes directly, over encrypted UDP. This directory holds TLA+
models of the parts of it whose correctness depends on the order in which messages,
timers, commands and restarts happen, the TLC configurations that check them on small
instances, and theorems about them that TLAPS checks for every value of the constants.

Source paths below are relative to the repository; `messaging/` is `src/messaging/`.
The definition-by-definition correspondence is in the `map` of `PROJECT.json`.

## 1. The system

Threads of one process: the GUI thread; the messaging daemon, which owns the UDP socket
and runs every command, packet and timer on one loop (`messaging/daemon.rs` run); the
voice or group-call engine, to which the daemon lends the socket during a call;
short-lived file sender and verifier threads. GUI and daemon exchange `MsgCommand` and
`MsgEvent` over channels.

| component | state | operations | what makes it correct |
|---|---|---|---|
| **Messaging sessions** `messaging/{session,protocol,packets,housekeep,commands,daemon}.rs` | `peers`: session by address (handshake state, contact, base and upgraded key, `seen_seqs`); `contact_addrs`: address by contact; `saved_peers` | Connect, HELLO / IDENTITY / CONFIRM, keepalive, PEER_TIMEOUT, BYE, YieldSocket, ReclaimSocket | the two ends can read one another through every key change; the tables agree; what the GUI is told is true |
| **Chat outbox** `messaging/outbox.rs` | per contact: unacknowledged messages and `next_seq`; the messages also on disk | send, flush at connect, retry with backoff, ACK | nothing is lost, misdelivered or shown twice; only a shown message is unqueued |
| **Contact requests** `messaging/commands.rs` | `outgoing_requests`, `pending_requests`, block list | send, accept, reject, block | nobody becomes a contact without having agreed |
| **Contact deletion** `messaging/pending_deletes.rs` | queued DELETEs, on disk | delete now or at reconnect, DELETE_ACK | a deletion is not forgotten while the other end has the contact |
| **Group invites** `messaging/pending_invites.rs` | persisted invites | invite, accept, decline, member sync | late and repeated invitations do no harm |
| **Group membership and keys** `group.rs`, `gui/groups/*.rs` | members, admins, key and version, channels and tombstones | create, kick, promote, edit, broadcast, merge | a removed member gets no new key; what was deleted stays so until its tombstone is dropped |
| **Group chat sync** `chat.rs`, `messaging/packets.rs` | history by channel; chunked sync state; the window's copy | write, receive, request, data, ACK, merge | a synchronisation ends, nothing recorded is lost |
| **Avatar transfer** `avatar.rs` | one picture, its chunks | offer, chunks, ACK, NACK, expiry | the picture saved is one that was sent |
| **File transfer** `filetransfer/*.rs` | transfer by (contact, id), chunk bitmap, `.part` file | offer, accept, chunks, COMPLETE / NACK / ACK, cancel, timeouts | a saved file is complete and verified; the two ends agree how it ended; every transfer ends |
| **Socket and threads of a call** `gui/mod.rs`, `messaging/daemon.rs` | who has the UDP port; flags and results shared between window, daemon and engines | start, cancel, hang up, yield, reclaim, switch channel | the port comes back; no engine runs unseen |
| **Voice engine** `voice.rs` | one call: keys, identity, phase | handshake, identities, hangup, ring, reject | both ends have one key; a call ends at both ends |
| **Group call relay, failover** `groupcall/{mod,relay,engine}.rs` | leader, connected members, election state | probe, join, relay, elect | no second leader beside one that can be asked; no echo; nobody waits for ever |
| **P2P group call** `groupcall/p2p.rs` | peers known to each other | greet, speak, hang up, time out | who is in the call is heard, who left is forgotten |
| **Screen sharing** `screen/mod.rs`, `gui/call.rs`, `gui/groups/voice.rs` | buttons, command queue, capture threads, viewer, frames under assembly | start, stop, offer, join, leave, fragment, assemble | nothing is captured unseen; nothing stays shown; a picture is one frame |
| **IP relay** | last addresses with timestamps | IP_ANNOUNCE, PEER_QUERY, PEER_RESPONSE | not in use |
| **Presence** | status by contact | forwarded to the GUI | - |
| **Firewall** `firewall.rs` | strikes and bans by address | check, strike, expire | honest peers are not blocked for good |
| **Crypto** `crypto.rs` | - | ECDH, key upgrade, AEAD | who can read what: as modelled by its users |
| **Identity and contacts** `identity.rs` | encrypted files | load, save | consulted by the daemon |
| **Chat history**, **audio**, **GUI drawing**, **shell** | | | I/O, signal processing and layout |

Interactions that matter here: the outbox is flushed by the handshake and emptied by ACKs
whose meaning depends on the session they arrive in; the timers read both tables; a call
takes the socket away from all of them, through commands that queue up behind a daemon
that may be busy binding; transfers, syncs and avatars run inside a session that may be
reset under them; and the window, the engines and the daemon share files, flags and
results without a common lock.

Hard behaviours: datagrams are lost, repeated and reordered, and an old one can arrive
after its session is gone; both ends may start a handshake at once; key upgrade happens at
different moments at the two ends; restarts forget all state but the outbox, and recompute
its counter; addresses change, and old packets from the former address keep coming. The
`hazards` of `PROJECT.json` list each at the line where it bites, with the property that
watches it or the reason why none does.

## 2. Modules

| module | what it is |
|---|---|
| `Messenger` | the messaging daemon of every user, with the network between them: sessions and outbox as one specification, because they share their state |
| `Mailbox` | the abstract specification: messages are composed, shown while queued, settled once shown |
| `MessengerInv` | the inductive invariants in named parts: `IInv` of the messages, `BoxInv` of the refinement (with its mapping `Box`), `TablesInv`, `OnceInv` and `OrderInv` of the sessions; `SafetyInv` is all of them |
| `MessengerProofs` | theorems about the messages (`TypeCorrect`, `InvariantHolds`, `NothingLost`, `RightAddressee`, `Refinement`) and the sessions (`TablesAlwaysAgree`, `OnlineUntilCall`, `EndsAlwaysUnderstand`, `NeverTwiceInSession`, `NothingShownAfterAck`) |
| `MCMessenger` | two users, alice at one address and bob at one or two, for TLC |
| `FileTransfer` | file transfers of every pair of users: the daemons' tables, the sender threads, background results, packets, timers and the GUI's cards |
| `FileCards` | the file cards of one chat, as pure operators: which card an event finds and what it does to it |
| `MCFileTransfer` | alice and bob offering one or two files, and the constraints of the runs |
| `CallLease` | one process around its calls: the port, the daemon's command queue, and the threads of every call so far |
| `VoiceCall` | a one-to-one call between users: ringing, key exchange, identities, hangup |
| `GroupCall` | a group call through a leader: probe, join, relay, and the failover when the leader is gone |
| `P2PCall` | a group call without a leader |
| `ScreenShare`, `GroupScreen` | sharing a screen or webcam with one viewer, and with a group |
| `FrameAssembler` | frames cut into chunks and put together |
| `Calls` | the seven modules above side by side, for TLC and for the theorems that name its runs' properties |
| `Contacts` | requests, deletions, blocks, and the sessions they need |
| `Groups` | a group in the copy of each member: membership, key, channels, invitations |
| `Avatar` | one avatar on its way to one user |
| `GroupSync` | the history of one channel in the copy of each member |
| `Members`, `MCMembers` | the four modules above and the failover of `GroupCall` side by side; `MCMembers` gives the users their order for TLC |
| `MCGroups` | a group of three that is already there, with two admins |
| `FileTransferProofs` | theorems `TransferTypes`, `OneFileEver`, `AckAlwaysMeansWhole`, and with one file to a chat `CompletedOnceWhole`, `TransferKeepsCard`, `NoCardLeftOpen` |
| `P2PCallProofs` | theorems `MeshTypes`, `MeshForgetsLeavers`, `MeshMeets` |
| `VoiceCallProofs` | theorems `VoiceTypes`, `KeysAlwaysAgree`, `CallShowsCalled`, `HangupAlwaysHeard` |
| `GroupCallProofs` | theorems `NeverEchoes`, `StartAlwaysJoins`, `RelayTypes` |
| `CallsProofs` | theorems about `CallLease` (`LeaseTypes`, `LeaseStopsCalls`, `LeaseShowsSetUpCalls`, `LeaseReturnsSocket`), about `ScreenShare` (`NeverCapturedUnseen`, `ViewersAsked`, `SharesLeaveScreen`), `GroupScreen` (`GroupNeverCapturedUnseen`, `GroupSharesLeaveScreens`) and `FrameAssembler` (`AlwaysShownWhole`, `TogetherAlwaysShown`), and the types of all parts (`TypesHold`), and the theorems of the other parts of a call as properties of `CallsSpec` |
| `ContactsProofs` | theorems `ContactTypes`, `NobodyIsAddedAlone`, `DeletionStaysKnown` |
| `MembersProofs` | theorems `AvatarIsWhole`, `AvatarAckMeansSaved`, about `Groups` (`GroupsTyped`, `DeletedChannelsStayDeleted`, `RemovedLackKeys`), about `GroupSync` (`HistoriesInOrder`), the types of all the parts (`PartsTyped`), and those of `ContactsProofs` as properties of `MembersSpec` |
| `MCReuse` | three users, two of them at the same address at different times |

### How Messenger corresponds to the code

*State.* `peers[n][a]` is the `PeerSession` that user `n` keeps for address `a`: `st` is
its `SessionState` (with `none` for no entry), `cid` `contact_id`, `mine` the ephemeral
keypair, `key` `session`, `shared` `ephemeral_shared`, `up` `upgraded_session`, `conf`
`identity_confirmed`, `seen` `seen_seqs`. `addrs` is `contact_addrs`, `outbox` and
`nextSeq` the `Outbox`, `saved` `saved_peers`. `online` is what the GUI was last told by
`PeerStatus` events and `inbox` what it was handed by `IncomingMessage`. `mode` says
whether the daemon runs, has lent its socket, or is down. `sent` and `repeated` are history.

*Keys.* A session key is determined by the two ephemerals, and after the upgrade by the
two identities too, so a key is the set of ephemerals and the set of identities it is made
of; a packet can be read exactly by who holds an equal key. Each ephemeral carries who
made it, for which address, and in which round.

*Network.* `net` holds every datagram ever sent and only grows. A receive action takes any
of them addressed to where the daemon is bound and leaves it there: that is loss (never
taken), duplication (taken again) and reordering in one. A resend of an identical datagram
is therefore covered already and HELLO retries need no action of their own.

*Actions.* One per command, packet type, timer and process event, each with everything its
handler changes: `RecvIdentity`, for instance, names the contact, derives the upgraded key,
moves the contact to this address, drops its former session, tells the GUI, flushes the
outbox and sends CONFIRM. All handlers run on the daemon's one thread, so one handler is one
step. Time is abstracted: a timer may fire whenever its other conditions hold (which
includes every real timing).

*Left out of it:* the branches for contact requests, pending deletions, groups, presence
and avatars of the same handlers (which `Contacts`, `Groups`, `GroupSync` and `Avatar` have), the firewall, a crash inside
one `fs::write`, message text and nicknames.

### How FileTransfer corresponds to the code

*State.* `table[n][c][t]` is `file_transfers` of user `n` at key (contact, transfer_id): `st` is
the variant (`hashing`, `offered` OfferedWaiting, `sending` SendingThreaded, `incoming`
IncomingWaiting, `receiving` Receiving), `told` is `complete_sent`, and `got` stands for the
received-set and the `.part` file together: for each chunk, the file whose data was written.
`thread[f]` is the thread that `FILE_ACCEPT` starts for file `f`, with its command channel and the
session it cloned; `jobs[n]` are the results of background threads that wait to be drained
(hashes, verifications, sender events). `gui[n][c]` are the file cards of a chat and the ids in
`file_transfer_progress`. `accepted` and `whole` are history.

*Actions.* One per user command, packet type, background result, timer, sender-thread step
(a whole round of chunks; the next command) and session or process event. A sender thread runs beside the daemon
and its events are drained in any order, so a `Progress` of a transfer that is over, or an
`AllChunksSent` after a `FILE_NACK`, arises as in the code. The GUI handles an event in the step
that emits it; the GUI's own commands are guarded by the card they are pressed on, so a click on a card whose
transfer has just gone is covered.

*Sessions* are those of `Messenger`, reduced to a number: a packet can be read while its reader
has the session it was sent in (`EndsUnderstandEachOther` is what makes that reduction fair for a
session both have). A reset (`Handshake`), a BYE (`SessionLost`), a `PeerTimeout` and a call
change it under the transfers, as their handlers do, which leave most transfers alone.

*Network.* A set, so packets are reordered freely and identical ones under way are one; the
types in `Lossy` can get lost and those in `Repeated` be delivered again. Which types those are
is chosen per run, to keep the case in question small.

*Left out of it:* the variant `Sending`, which nothing constructs; the congestion window; the `.part`
file shared by two contacts' transfers of the same number; the clean-up at contact deletion.

### How the modules of calls correspond to the code

*CallLease* is one process: the window, the daemon and the threads of every call so far,
each with its own steps. `call[g]` is the `g`-th call: `running` and `result` are the flag
and the slot (`connect_result`) that the window shares with it, `held` says which of its
threads have the port. `queue` is the daemon's command channel as far as `YieldSocket`,
`ReclaimSocket` and the call signals go. A step of the window is one button or one look at a
slot or a flag with everything the handler does; `StartGroupCall` includes leaving the
channel one is in. `Bind` and `GiveUp` are the two ends of `bind_socket`, which blocks the
daemon for up to four seconds. Time is left out otherwise; which threads can still hold the port
after four seconds is the only thing it decides (`Lasting`).

*VoiceCall* has every user's engine (`phase`, `peer`, `eph`, `other`, `shown`) and what its
daemon knows of calls (`ring`, `notified`, `rejected`). As in `Messenger`, a session is the set
of the two ephemeral keys. A packet that is taken is gone, one that is lost is never taken, and what
is sent repeatedly is put back: packets of former attempts may arrive in later ones. A failed call leaves the user in `failed`, without a daemon:
that is the finding of `CallLease`, taken as it is.

*GroupCall* numbers the users in the order of their public keys, which is the order that breaks
ties. `conn[u]` is the leader's table, `leader[u]` a member's `leader_addr`, `alive` the survivors
a failover has found. A packet carries the index in its header (`si`) beside its sender, and, as
history, how often it was relayed. What the receiver thread does with a packet depends on
`mode`: `RecvProbing`, `RecvLeading`, `RecvMember`, `RecvDiscovering`, `RecvNothing`. Two assumptions
on time are stated in the module: a packet that is not lost arrives within a probe, and one of the
voice packets of ten seconds arrives.

*P2PCall*: `peers[u]` is whom `u` has registered. Links are ordered queues; voice goes out to everyone
known every 20 ms, which the guard of `Silent` uses. Crashes, hangups and returns happen at any time.

*ScreenShare* follows one direction of a one-to-one call: `shown` are the two buttons of the sharer,
`cmds` the channel to its call thread, `loop` the capture thread, `down` and `up` the packets,
`viewer` the `ScreenViewer`, `texture` and `viewing` the viewer's window. `GroupScreen` differs where
the code does: the thread that takes the commands waits for nobody, so that there may be several capture
threads with one flag, and each copies the table of addresses when it starts.

*FrameAssembler*: `pending` is `frames`. The bytes of a chunk are the frame and the place they come from, so that
a mixture would show.

### How the modules of members correspond to the code

*Contacts* reduces the session of `Messenger` to what these packets need of it: the two ephemeral
keys, and whether an end uses the first key or the one upgraded with the identities, which only a user
who knows the peer computes. An address is its user. `net` keeps what is not taken, and a
HELLO is repeated; a lost packet is one that stays. `said` and `owed` are history. A voice call saves a
contact without the daemon (`CallSaves`).

*Groups*: `groups[u]` is the file on `u`'s disk, `pending` the invitations kept for contacts who are
offline, `syncs` `pending_member_syncs`, `popup` the one invitation shown. The daemon's check of a
GRP_UPDATE (the sender must be an admin in the local copy) and the window's merge are one step. `Merged` is the merge:
members and admins are taken over, the key only with a higher version, channels joined without what either side
deleted (`Channels`). `deletedAt` is a channel's tombstone, the day of its deletion or 0; `day` is the clock, one for all users, and a merge drops
the tombstones that are `TombstoneDays` (30 in the code) old, after which a copy that still has the channel brings it back. An admin whose
merged list differs from the one received, dropped tombstones included, broadcasts his own. `knows` and `barred` are history: which keys a user has had, and whom each key was made to keep out.

*Avatar*: `send` and `recv` are the entries of `avatar_sends` and `avatar_recvs`, or of their group
counterparts, chosen by `kind`. A chunk is the avatar and the index; the code's chunk
carries the index only, so that no guard looks at the former.

*GroupSync*: `hist` are the files, `copy` `group_chat_history`, `out` `group_sync_out`. A message is
stamped by everyone who records it with the second it is recorded at, as the code does; one chunk is one message.

## 3. What the runs show

| run | instance | question |
|---|---|---|
| `restart` | bob writes 1 message, 4 key generations, crashes at any time | is a retry ever shown twice in its session, an acknowledged message shown again, a packet between two ends of one key exchange unreadable, a contact online without a session? No. |
| `move` | bob has 2 addresses, 4 key generations | do `contact_addrs` and `peers` agree throughout a migration and back? Yes. |
| `call` | alice writes 2 messages, 3 key generations, 1 voice call | is a message lost around calls and crashes? No; and the messenger implements `Mailbox`, and the invariant of the proofs holds. |
| `reuse` | three users, bob's address later carol's | is a message lost when addresses change hands? **Yes** (finding 1). |
| `transfer` | 1 file of 2 chunks, 2 sessions, 1 call; chunks lost, ACKs repeated | is success ever reported for a file that is not whole, a card left open without a transfer, a transfer without a card? No. |
| `reused` | 2 files of 2 chunks, the second offered after a restart under the first's number | are chunks of two files mixed, or one acknowledged for the other? No: the offer replaces the old entry. |
| `arrives` | 1 file of 2 chunks; chunks, COMPLETE and NACK lost | does an undisturbed transfer bring the whole file across? Yes. |
| `calls` | the seven modules of calls, two users (three in a group call), 2 calls, 2 shares | is the socket ever gone, an engine left running, an old result taken for a new call, a key not agreed, a hangup missed, voice echoed, a leader doubled, a member unheard or not forgotten, a capture unseen, a picture left over, a frame mixed? No. |
| `members` | the four modules of members and a failover of three | is anyone made a contact alone, a deletion forgotten, a new key known to one who was removed, a channel revived while its tombstone counts, an avatar mixed, a synchronisation or a failover without end? No. |
| `lease` | 2 calls | is the daemon's socket back whenever the user is? **Not after a call that failed** (finding 2). |
| `history` | 3 messages, 1 synchronisation, 2 users | does a history keep what it has? **Not at the end of a group call** (finding 3). |
| `stalest` | 1 sharer, 4 frames of at most 3 chunks, room for 2 | is it the stalest frame that makes room? **No, the newest** (finding 4). |

`Calls` and `Members` put their modules side by side: the variable `part` is chosen in the initial
state, and only that part moves (each extends one of its modules, whose theorems then name the property that the run checks). They share no state, so this is one model checking of each of them under one name,
and every property is about its part in every behaviour; in the other parts it holds by the initial state.

Properties of the messenger, beyond the type invariant:

- `NoMessageLost`: a composed message is in its sender's outbox or on its addressee's screen.
- `DeliveredAsAddressed`: shown only to whom it was written, under the name of its writer.
- `ShownOncePerSession`: `seen_seqs` suppresses every copy inside a session, whichever of the
  session's keys it came under.
- `ShownWhileQueued`: an ACK is the end of a message; no late copy is shown, not even in a
  later session and not even after numbers were handed out again.
- `EndsUnderstandEachOther`: through every combination of lost and reordered CONFIRMs, each
  end can read what the other would send now.
- `TablesAgree`: a contact's address leads to a session, and a connected session is on file.
- `OnlineHasSession`: without calls, the GUI is told when a contact goes.
- `MailboxKept`: `Box!Spec`, the refinement.

Of file transfer:

- `AckMeansWhole`: a sender thread hears of success, and reports it, only when the addressee has held every
  chunk of that file, whatever ids were used again.
- `CompletedMeansWhole`: so does a card at either end, also when an ACK is repeated or the hash check runs late.
- `EntryHasCard`, `OpenCardHasTransfer`: cards and tables stay in step, both ways, through timeouts,
  calls, cancellations and resets. They are checked for one transfer per chat; with two, `MCFileTransferCards.cfg` shows
  that events reach the wrong card, and they fail with it.
- `OneFilePerPart`: a partly received file holds chunks of one file only.
- `Arrived`: while both ends are at a transfer in a session that both have, rounds of chunks, FILE_COMPLETE and FILE_NACK lead to the whole file.

Of calls (those of `CallLease` under their own names, since `Calls` extends it; the others after their module):

- `CleanCallReturnsSocket`: back at the start with nothing under way, the daemon has its socket, unless a one-to-one call
  failed or a reclaim was given up (`lease` is the property without the exceptions).
- `NoCallBehindTheScenes`, `ShownCallWasSetUp`: flags and slots shared between window and engines always belong to
  the call on screen, however fast one call follows another.
- `KeysAgree`: two users who are in a call with each other hold one key, after any crossing of calls.
- `HangupIsHeard`: who still has the session of a call that was hung up has the HANGUP to come.
- `NoEcho`, `StartJoinsExisting`: voice passes one leader at most and never returns; a leader that could be asked is joined.
- `OneKnowsTheOther`, `LeaversAreForgotten`: of the mesh.
- `CaptureIsShown`, `ViewingWasAsked`, `GroupShareLeavesScreen`, `ShownWhole`: of sharing.

Of members:

- `NobodyAddedAlone`: whoever is in a contact list asked for it or agreed to it, and so did the owner of the list.
- `DeletionIsRemembered`: a queued deletion is on disk as long as the peer has not taken it and still has the contact.
- `RemovedLacksKey`, `DeletedStaysDeleted`: of groups, with one admin or several. A deletion wins over every older copy, and the later of
  two over the earlier, until its tombstone is old enough for a merge to drop it. With two admins acting at once in a
  group of three the first fails (below); `members` has two users, where a kick cannot cross another admin's update.
- `HeldIsWhole`, `AckMeansSaved`: of avatars.
- `SyncEnds`, `SilenceEnds`: liveness, under the fairness below.

Five more properties are kept beside these and hold in the same instances: `CallsMore.cfg` checks `UpWithCalled`
(a call shows the identity of whom was called), `StoppedShareLeavesScreen`, `GroupCaptureIsShown` and `TogetherShown` (a frame
whose chunks arrive together is shown); `MCMembersMore.cfg` checks `InOrder` (a history stays sorted),
and `DeletedStaysDeleted` with more edits (below).

### Bounds

`MaxEph` bounds the rounds of ephemeral keys. One full handshake takes two (one per end), so
3 allow a session and one more half of a handshake to reset it, crash it or cross it, and 4 a
second session after the first, or a full migration of a contact between two addresses, which
takes two complete sessions. Every hazard listed for sessions needs at most the previous
session beside the present one: a packet of any earlier session differs from one of the
previous session only in its key. `MaxText` bounds messages per user: two suffice for a number
to be confused with another, and to be handed out again. `MaxCalls` is 1. Run `move` has the
constraint `NoKeepalive`: no history continues past a keepalive, whose effect (promotion
of the upgraded key) `restart` and `call` check without it. `Crash`, `Move` and `PeerTimeout` are
unbounded. Symmetry is not used: the users differ in what they write and where they live.
Deadlock is checked in every run of the messenger.

File transfer: two chunks and one index per FILE_NACK are the least with which a file can be partly
there and a request for the rest be split over packets. `MaxLink` = 2 is a session and one after it; `MaxCmds` bounds
the FILE_NACKs waiting for one thread (`arrives` has 2, a whole split request). The constraints are:
`Small`, at most two datagrams under way, which is one transfer's question and answer, or both its chunks (`transfer`
also passes without it when there are no calls); `Reuse`, which keeps to the histories where the number is used again
while the old entry lives; `Connected` and `Calm`, which leave out the progress bar and, in `arrives`, every history
after the transfer ended or was disturbed, where `Arrived` claims nothing. Nothing has to go on after all files were offered and
the bounds are reached, so deadlock is not checked for file transfer.


Calls: two calls of one user (`CallLease`) are one and its successor, which is what flags, slots and the port can be
confused between; two attempts of a group call to bind, where the code has three. `VoiceCall` has three key pairs
for two users: a call of both and one more attempt or rejection. `GroupCall` has three users, two starts without
losses in `calls` (from nobody in the call, two users in it, or all), and in `members` one lost packet after the leader
of three is gone. `P2PCall` has two users and five starts, so that leaving and returning repeat; `ScreenShare` and `GroupScreen` two shares, one
to replace the other, and queues of two; `FrameAssembler` four frames of at most two chunks, room for two.

Members: `Contacts` has two users, two key pairs (one session, whose handshake may cross or be repeated) and three saves by
calls; `ContactsAck.cfg` and `ContactsMarked.cfg` go beyond that where it matters. `Groups` has two users, one channel beside the fixed ones,
and `MaxGroupSteps` = 3 keys and edits together; a tombstone is old after one day (`TombstoneDays` = 1) and there are two (`MaxDays`), so that
merges before and after a tombstone is dropped are in it. A channel that comes back takes one edit more: `MCMembersMore.cfg` has `MaxEdits` = 3 and
`MaxGroupSteps` = 4, in which an admin who missed the deletion revives the channel after that day, as in the code. `Avatar` has avatars of one and of two chunks, set twice. `GroupSync` has two messages,
two seconds, one connection, one repeat of a chunk. Nothing has to go on in these parts, so deadlock is not checked there.

### Fairness

The messenger's runs assume none: their properties are about safety. `LiveSpec` of `FileTransfer` assumes weak
fairness of the sender threads (the system runs them), of draining their results, of the resend and of the timeouts (the
daemon's loop reaches each on every turn), and strong fairness of reading a particular chunk, a FILE_NACK for a particular
chunk and FILE_COMPLETE: each is sent again in every round, so a network that does not lose all of them for ever
delivers one. Nothing is assumed of users, of sessions, or of packets that are sent once (offer, decisions, ACK, CANCEL).

`GroupSync` assumes weak fairness of `Retry \/ Expire` for each entry: housekeeping runs on every turn of the daemon's loop, and what it finds
after five and after thirty seconds is a repeat or the end of the entry. Which of them is left open, because a repeat needs the peer's session and the socket:
an entry can expire before its repeats are used up.
`GroupCall` assumes weak fairness of receiving and of the timers of a probe, a discovery and a decision, and strong
fairness of the ten-second timeout, which voice of a living leader interrupts again and again: all are loops
of threads that run while the call does. In `MCMembers` none of these actions is enabled in the initial state of another part, so the
conjunction asks nothing of the other parts.


## 4. What is proved

TLAPS checks every theorem for any set of users, addresses and channels and any bounds, subject to the
named assumption of each module on its constants (numbers are numbers, sets not empty); where a theorem
needs more, its `ASSUME` says so and it is explained here.

### The messenger

- `TypeCorrect`: `Spec => []TypeOK`. Needs nothing of the addresses. `TypeOK` alone is not
  inductive: `Start` recomputes the counter as one above the maximum of the numbers left,
  which is a number only while the outbox is finite or bounded; `SeqsBelowNext` bounds it by
  the counter of the run before, and gives `Max` its value.
- `InvariantHolds`: `AddressesNotReused => (Spec => []IInv)`, and from it
  `NothingLost` (`NoMessageLost`) and `RightAddressee` (`DeliveredAsAddressed`).
- `Refinement`: `AddressesNotReused => (Spec => MailboxKept)`.
- `TablesAlwaysAgree` (`TablesAgree`), `OnlineUntilCall` (`OnlineHasSession` while there was no call),
  `EndsAlwaysUnderstand` (`EndsUnderstandEachOther`), from `TablesInv`.
- `NeverTwiceInSession` (`ShownOncePerSession`), from `OnceInv`.
- `NothingShownAfterAck` (`ShownWhileQueued`), from `OrderInv`, when nobody moves.

`AddressesNotReused` says that no address is bound by two users over time. It is not a
convenience: run `reuse` shows that without it `NoMessageLost` fails. Nor are the two other
restrictions: after a call, contacts stay online without a session (`MCMessengerCalls.cfg`), which is
what the model check without calls and the premise `calls = 0` leave out; and `ShownWhileQueued`
fails once a user has moved. Then a handshake that is pending at the old address can be finished by a
late IDENTITY, in a session whose `seen_seqs` is empty, and a CHAT of that exchange that comes again
is shown although its ACK was taken long ago (TLC finds it in 17 states with the constants of `MCMessengerMove.cfg`,
`MaxText <- MCTextBob` and no constraint). `NobodyMoves` therefore says that each user has one
address; restarts, crashes, calls, losses and repetitions remain.

TLC checked `SafetyInv`, all of these invariants together, on the instances of `restart`, `move` and `call` before they were
proved; `call` checks `IInv`.

**No message is lost.** An ACK carries a number, and a number is used again: after a restart, for
every other contact, and in every session. `NoMessageLost` survives because the number is
read together with the key it came under. The invariant says so in steps. A session's key
consists of its own ephemeral and one the peer made (`SessionOK`); a CHAT is always sent
under an upgraded key, so it names its two users (`ChatOK`); under one key exchange one user
gives a number to one message (`ChatsAgree`); while the sender's session of that exchange
lives, its outbox holds under that number that message or nothing, and its counter is above
it (`ChatsMatchOutbox`), because the counter only restarts in a process whose sessions are
gone (`DownOK`); an ACK under a key exchange was sent for a CHAT of that exchange whose
message the GUI has (`AckedShown`, by `SeenShown` for duplicates). So the entry an ACK
removes is the one it was sent for, and it is shown.

**The mailbox.** `BoxInv` adds that every message in an outbox, a packet or an inbox was
composed (`Genuine`), and that the messages of a user are numbered from one
(`WrittenOK`), so a composed message is new. `SendMessage` is then `Compose`, the first showing in `RecvChat`
`Show`, an effective `RecvAck` `Settle`, and every other step a stutter.

**Sessions.** `TablesInv` says beside `TablesAgree` that a daemon without its socket has neither sessions
nor addresses (`LentOK`), that a session's key was agreed with the user of its address, and that from the moment
it is connected to a contact the upgraded key is there or in use (`KeyOK`): hence the two ends of one exchange
have the same upgraded key, wherever each is with CONFIRM. `OnlineOK` carries a contact shown as online
from its address on file to a connected session, across a contact's move from one address to another.

**Once.** A message keeps one number, in the outbox, on the wire and after a restart (`NumberKept`); what was shown
under an exchange that a session still has is in its `seen_seqs` (`ReceiptsOK`), and exchanges that no session has
cannot come back. For `ShownWhileQueued` the exchanges of two users are put in order by the ephemerals
(`ExchangesInOrder`), and a message that left the outbox was shown in the last exchange it was sent in
(`SettledLast`): a CHAT that can still be read is of that exchange, whose filter knows it.

### File transfer

The first three theorems are of one invariant, `Inv`, for any users, files, chunks and ids, with every loss, repetition,
restart and call. TLC checked it on small instances before it was proved.

- `TransferTypes` (`TypeOK`). A process never takes an id beyond the last one: an id is taken with a card, cards stay, and a new
  process starts again at one, so the ids taken are at most the offered cards (`IdsCounted`).
- `OneFileEver` (`OneFilePerPart`). Ids begin again at 1 with every process, while a receiver's entry outlives the sender's
  restart. In one process an id names one file, whether the table, a sender thread, a hashing or a chunk that
  can still be read says so (`Named`, `NamesOK`); a session is new at both ends or at neither (`LinksOK`). Whatever can still be
  read, or sent by a thread, is of the file the receiver has chunks of (`ReadableFits`, `ThreadFits`), an acceptance
  that can be read found no chunk (`AcceptFits`), and what came after it is of the file offered (`SendingFits`). Hence `OneFile`.
- `AckAlwaysMeansWhole` (`AckMeansWhole`). Who can still be asked for an ACK has begun to send that id, and begins no other
  under it (`Begun`, `CompletesBegun`); an ACK that can be read was sent when every chunk of that file had come (`AcksEarned`).

Most steps touch none of this (`QuietStep`) and share one lemma; offering, accepting, sending a round of chunks,
and receiving an acceptance, a chunk or a COMPLETE are proved one by one. The proof found one flaw in the model: two arms of the
CASE for a sender thread's answer overlapped, so that which one was taken was left to CHOOSE. It is an IF in the order of the code now.

**Cards.** `CompletedOnceWhole` (`CompletedMeansWhole`), `TransferKeepsCard` (`EntryHasCard`) and `NoCardLeftOpen`
(`OpenCardHasTransfer`) are of a second invariant, `CardsInv`, which TLC checked on an instance with a restart, a call, two
sessions, and losses and repetitions of most packets. They hold for any users and any files under two assumptions:

- `OneFilePerChat`: no two files are between the same two users. With two, events go to the wrong card
  (`MCFileTransferCards.cfg`); the users, and so the chats, may be many.
- `OfferedOnce`: the network does not repeat FILE_OFFER and FILE_ACCEPT. A second offer makes a second card, and a second
  acceptance takes a transfer that is under way out of the table: TLC then finds an open card without a transfer
  in both cases, and a transfer without an open card in the first. `CompletedMeansWhole` is not violated by either on an
  instance with one chunk and one session; the invariant that would prove it without this assumption is another one.

`CardsInv` says of each file that there is one id under which everything about it goes (`OnCard`, `Numbered`): the entries at
both ends, every packet either way, every result not drained yet, the thread, and the one card of each end, which may still
be without an id at the sender (so that an event of that id finds it, `Meets`). `InTurn` puts offer, incoming card and acceptance in order, so that
neither the offer nor the acceptance finds what it would replace. `CardsOpen` is the two card properties in the form in which they are inductive: at the
sender a card is open exactly while there is an entry; at the receiver while there is an entry or the file is being checked, never both, and it says
Offered only while the entry is incoming. `Earned` says that what can lead to Completed, an ACK that can be read or a
check that can succeed, is about a file that came whole; the sender thread's report is `AckMeansWhole`. Users who share no file have nothing
to do with each other (`Silent`). A step is then of one end of one file: it ends the transfer with its card (`EndsHere`), lets both
go on (`GoesOnHere`), or is the offer, its reading or the acceptance; a timeout of the peer, a call and a restart do
the first to all files of a user (`FailAllCards`, `RestartCards`), and all other files are left alone (`Untouched`).

### Calls

- `CallLease`: `LeaseReturnsSocket` (`CleanCallReturnsSocket`), `LeaseStopsCalls` (`NoCallBehindTheScenes`),
  `LeaseShowsSetUpCalls` (`ShownCallWasSetUp`) and `LeaseTypes`. The last three are one invariant, `ThreadInv`: the window's two calls
  are different ones (`CallsInOrder`), and an engine reports success only when it is set up (`ResultsAreReal`); a
  step of any of a call's threads changes that call alone and never sets `running` (`MayBecome`). For the socket, `SocketInv` says of
  the queue what `CleanCallReturnsSocket` says once it is empty: when the user is back from every call, the last of the yields and
  reclaims in it is a reclaim, or there is no yield in it and the daemon has its socket or is binding; and an error
  screen is the one way out of a call that sends no reclaim. The exception of `unfetched` is real (run `lease`).
- `VoiceCall`: `KeysAlwaysAgree` (`KeysAgree`), `CallShowsCalled` (`UpWithCalled`), `HangupAlwaysHeard` (`HangupIsHeard`), by `CallInv`. A
  HELLO is one key of its sender, made for the one it calls (`HellosHonest`). Who sent an IDENTITY had its own key and took
  the other from a call to it, and has both still, or newer ones (`Told`); an end is up because it was told so. Of two ends that are up
  with each other under different keys, each would have the later ones. A session that was hung up shares no
  key with any other (`HungIsWhole`), so that its HANGUP ends no later call.
- `GroupCall`: `NeverEchoes` (`NoEcho`) and `StartAlwaysJoins` (`StartJoinsExisting`), by `RelayInv`, **for `MaxLosses = 0`**. A leader knows
  no other leader and has no packet of one on its way, and neither of one who probes without having had it to ask (`Strangers`);
  of every leader that a probe was begun beside, the answer is yet to come (`ProbesAnswered`). The assumption is
  needed: a lost HELLO makes a second leader. `RelayTypes` (`TypesInv`) is without it.
- `P2PCall`: `MeshForgetsLeavers` (`LeaversAreForgotten`), `MeshMeets` (`OneKnowsTheOther`) and `MeshTypes`. A link keeps its order, so a HANGUP that was sent last
  stays the last packet of its link while the leaver is out (`Leaving`), and whoever takes it knows the leaver no more; one who is out
  himself knows nobody (`OutKnowsNobody`). Of two who are in, one knows the other or a packet is on its way between them (`Acquainted`),
  and the last word of one who is in is no HANGUP (`LastWord`), so that what is taken makes one known or is not the last.
- `ScreenShare`: `NeverCapturedUnseen` (`CaptureIsShown`), `ViewersAsked` (`ViewingWasAsked`) and `SharesLeaveScreen`
  (`StoppedShareLeavesScreen`), by `SharingInv`. With both buttons off, the last command in the queue is a stop or nothing is captured
  (`LastWordIsStop`); when nothing is captured, the last packet to the viewer is a STOP, or the viewer has taken it (`LastPacketIsStop`).
- `GroupScreen`: `GroupNeverCapturedUnseen` (`GroupCaptureIsShown`) and `GroupSharesLeaveScreens` (`GroupShareLeavesScreen`), by `GroupSharingInv`. Several capture threads
  may be at work on one flag, so no single thread's STOP counts: every frame on the link to a viewer whom no thread serves
  is followed by a STOP (`PicturesEnd`).
- `FrameAssembler`: `AlwaysShownWhole` (`ShownWhole`) and `TogetherAlwaysShown` (`TogetherShown`), by `FramesInv`, **for one
  sharer and fewer frames than ids**. What is pending under an id are chunks of the frame with that number,
  counted (`PendingParts`), and a frame cut into n chunks has n different ones (`WholeSize`). With a second sharer, or once the 16-bit ids
  have wrapped, an id is not one frame's; the run has one sharer and no wrap as well.
- `TypesHold` (`Types`): every variable of every part, for `N <= MaxStarts + 1`, because a group call that is
  up in the initial state counts its users' starts.

### Members

- `Contacts`: `NobodyIsAddedAlone` (`NobodyAddedAlone`). The words of the users are followed through the tables and packets: whoever waits for an answer
  asked (`Asked`), whose request waits asked (`Heard`), who sent a REQUEST or a REQUEST_ACK spoke (`Spoken`); a known contact's
  request is answered without the user, who has spoken when that contact was made. `DeletionStaysKnown` (`DeletionIsRemembered`), by `DebtInv`:
  a DELETE and its acknowledgement belong to a key that no later session has (`DeletesSpent`), and a DELETE_ACK that
  can be read answers all that is queued (`AcksHonest`). `ContactTypes` has the types of both.
- `Groups`: `DeletedChannelsStayDeleted` (`DeletedStaysDeleted`) and `GroupsTyped`, by `GroupsInv`. A merge takes the later of the two
  deletion times and drops those that are old (`ChannelsMerged`); every other change keeps the tombstones there are (`SameChannels`) or adds one, for a channel without one since
  no channel is alive and deleted at once (`Parted`). So a copy that changes remembers what was deleted lately (`Remembers`), unless leaving or being removed
  drops it as a whole. What carries a key, a copy, an update, an invitation, carries one that
  was made, and a version counts no more keys than were made (`Made`, `Letters`, `Invitations`), which bounds what an
  admin's next key and version can be.
  `RemovedLackKeys` (`RemovedLacksKey`), **for `[]OneAdmin`**: no copy of the group names any admin but the founder. Then the founder alone makes
  keys, and his own copy names nobody whom its key bars (`Admitted`); nothing that arrives changes it. Every letter, invitation
  and popup comes from him, with a key that its receiver may have (`Honest`, `MayJoin`, `Welcome`), and inviting somebody anew
  lifts the bar before the invitation leaves. So nobody learns a key that bars him (`KeysBarred`). With a second admin
  this is false (`MCGroupsKicked.cfg`): his older update brings a removed member back into the copy.
- `GroupSync`: `HistoriesInOrder` (`InOrder`) and its share of `Types`, by `HistoryInv`. The files and the window's copies hold entries of the
  past in the order of their times (`Recorded`), chunks under way are such entries (`Sends`, `Carries`). A live message is
  recorded now, hence last; a merge puts a message behind all that are not newer (`MergeKeepsOrder`), which a
  history in order has exactly one place for (`FirstAfter`). `messages_after` filters, and `merge_messages` sorts a file
  to which one entry was added; in a history that is in order, as the theorem says all are, these are the rest of it
  from `FirstAfter` on and an insertion there.
- `Avatar`: `AvatarIsWhole` (`HeldIsWhole`) and `AvatarAckMeansSaved` (`AckMeansSaved`). What passes the hash is the avatar that was offered
  (`VerifiedIsWhole`), and an ACK under way is of an avatar that was on the receiver's disk.
- `PartsTyped` (`Types`): the types of the contacts, groups, avatars, histories and of the failover of a group call, packets lost or not.

`CallsProofs` and `MembersProofs` carry the theorems of the parts over to `CallsSpec` and `MembersSpec`, whose properties
the runs check: a step of the whole is one of the part's or leaves its variables alone (lemmas `VoiceSpec`, `RelaySpec`,
`MeshSpec`, `PeopleSpec`, `FailoverSpec`).

### Only model-checked, and why

- `Arrived`, `SyncEnds`, `SilenceEnds`: liveness under fairness, which the prover cannot do.
- `RemovedLacksKey` without `[]OneAdmin`: with two admins at once it is false in a group of three (`MCGroupsKicked.cfg`), so run `members` shows it
  of a group of two only.
- `NoEcho` and `StartJoinsExisting` with packet loss, `OnlineHasSession` after a call, `ShownWhileQueued` after a move, `ShownWhole` after a wrap: not true.
- `EntryHasCard` and `OpenCardHasTransfer` with two files in a chat, or with repeated offers: not true
  (`MCFileTransferCards.cfg` shows how events reach the wrong card).
- `InOrder` is checked by `MCMembersMore.cfg`, which is not one of the listed runs; `HistoriesInOrder` proves it.

No module uses RECURSIVE operators.

## 5. Findings

1. *A message can be lost when an address changes hands* (`reuse`, `messaging/packets.rs:412`).
   Sending and retrying use the session at the contact's address without comparing the session's
   contact; the ACK removes by number from the outbox of the session's contact.
2. *A failed call takes the messenger off the network* (`lease`, `gui/mod.rs:970`). A call yields the daemon's socket
   first, and only the ends of calls that were set up or cancelled reclaim it. A comment at the yield says that the
   daemon "will reconnect shortly via ReclaimSocket".
3. *The end of a group call can undo a synchronisation* (`history`, `gui/mod.rs:893`). The window saves the copy of the
   history it has over a file that has gone on.
4. *The newest frame is dropped for the stalest* (`stalest`, `screen/mod.rs:550`). The comparison takes the pending frame closest behind the
   new one, where the comment says "Keep only latest 3 frame_ids".

### Further counterexamples

Each of these configurations states one property that a comment of the code suggests and ends with a counterexample.

| configuration | module | property, and what happens |
|---|---|---|
| `MCMessengerTwice.cfg` | `MCMessenger` | `ShownOnce` ("Only deliver to GUI if not a duplicate", `messaging/packets.rs:392`): `seen_seqs` is empty in a new session, so a message whose ACK was lost is shown again. |
| `MCMessengerCalls.cfg` | `MCMessenger` | `OnlineHasSession` with a call (`FEATURES.md:93`): neither the yield nor giving up the HELLOs sent at reclaim reports a contact offline. |
| `MCFileTransferCards.cfg` | `MCFileTransfer` | `CardNamesItsTransfer` ("the oldest placeholder (first file sent) gets assigned the first real transfer_id", `chat.rs:186`): of two offers the second is accepted first, and its number goes to the card of the first. |
| `MCFileTransferCrossed.cfg` | `MCFileTransfer` | `OfferIsNew` ("Counter for generating unique transfer IDs.", `messaging/daemon.rs:203`): both daemons count from 1, so an incoming offer replaces one's own transfer. |
| `MCFileTransferStale.cfg` | `MCFileTransfer` | `StaleTransferEnds` ("Stale transfer timeout", `filetransfer/mod.rs:18`): resending FILE_COMPLETE resets the clock the timeout reads. |
| `MCGroupsKicked.cfg` | `MCGroups` | `RemovedLacksKey` ("Rotates the group key so the removed member can no longer decrypt future traffic.", `group.rs`): two admins; b edits while a removes c; a takes b's older update, which names c, and its next broadcast hands c the new key. |
| `GroupCallTwo.cfg` | `GroupCall` | `NotEachOther` ("Any voice/roster/ping packet from another member means a leader exists", `groupcall/mod.rs:107`): two members take each other for the leader. |
| `GroupScreenSent.cfg` | `GroupScreen` | `EveryoneIsSent`: who joins after the share began is not among the addresses copied. |
| `GroupScreenOne.cfg` | `GroupScreen` | `OneCapture`: a share stopped and started at once leaves two capture threads running on one flag. |
| `ContactsAck.cfg` | `Contacts` | `AckIsRead`: DELETE_ACK is sealed with the upgraded key (`messaging/session.rs:72`), which the one who deleted the contact never computed, so the deletion is sent again at every connection ("Remove a pending delete by contact_id (e.g. after ACK)", `messaging/pending_deletes.rs`). |
| `ContactsMarked.cfg` | `Contacts` | `NoContactMarked`: a voice call saves a contact whose deletion is still queued, and the next connection deletes it at the peer. |
| `GroupSyncAcked.cfg` | `GroupSync` | `AllChunksAcked` ("All chunks acked, done", `messaging/packets.rs:1516`): the last chunk's ACK ends a synchronisation of which another was lost. |
| `GroupSyncTwice.cfg` | `GroupSync` | `NoMessageTwice` ("Deterministic content hash for deduplication during sync.", `chat.rs`): members stamp a message with their own second, and the hash includes it. |

## 6. Not modelled, and why

Audio, codecs, capture APIs, drawing and the shell are signal processing, platform calls and layout. The IP relay is not in use: nothing
sends `QueryPeer`, and IP_ANNOUNCE leaves from an address for which no peer has a session, so that it is dropped. Presence is a
status that is passed on. The firewall counts strikes per address. Encrypted files are I/O; a crash inside one
`fs::write` (`messaging/outbox.rs` truncates first) is not modelled. The cryptographic algorithms are libraries; who can read what is modelled.

Of modelled parts these are left out: the `.part` file that two contacts' transfers of one number share; repeated
FILE_ACCEPTs; what a deleted contact leaves in other tables; CancelRequest; the migration of messages of a deleted channel; the
time of joining as a floor for synchronisation; voice channels and names in a group; chat inside calls; the measurement behind a
failover's speed results, which is any number; clocks that differ between users (of two admins one of whom has dropped a
tombstone, each finds the other's channels to differ and broadcasts its own, until the slower clock drops it as well). The composition of the
parts is checked where they share state (sessions with the outbox, transfers with cards, the port with all calls); sessions under the group and contact packets are each module's own reduction of `Messenger`'s.

## 7. Plan

1. An abstract `Delivery` (a file is offered, decided, then delivered whole or failed) that `FileTransfer` refines for one transfer;
   `PartFile`, the file on disk with its writer thread; a run with repeated decisions.
2. Liveness of `Messenger`: with weak fairness of receiving and of the retry timer, and both ends
   staying connected in one session, the outbox drains; a half-open handshake is resolved.
3. `Contacts` over the sessions of `Messenger`, in place of its own.
