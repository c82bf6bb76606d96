----------------------------- MODULE FileCards ------------------------------
(***************************************************************************)
(* The file cards of one chat and what the daemon's events do to them      *)
(* (update_file_status of chat.rs, the event loop of gui/mod.rs).  A chat  *)
(* is a record of its cards, in order, and the ids with progress on show.  *)
(***************************************************************************)
EXTENDS Naturals, Sequences, FiniteSetsExt

\* A card whose transfer is not over, as far as the GUI knows.
Open(k) == k.st \in {"Offered", "Accepted"}

NoChat == [cards |-> <<>>, progress |-> {}]

\* add_file_message; the card of an outgoing offer has no transfer_id yet (0).
WithCard(chat, f, mine, t) ==
  [chat EXCEPT !.cards = Append(@, [file |-> f, mine |-> mine, id |-> t, st |-> "Offered"])]

\* update_file_status: the latest open card with this id, or else the oldest
\* open outgoing card without an id, which takes it.
Updated(cards, t, st) ==
  LET exact == {i \in DOMAIN cards : cards[i].id = t /\ Open(cards[i])}
      unnamed == {i \in DOMAIN cards : cards[i].id = 0 /\ cards[i].mine /\ Open(cards[i])}
      Set(i) == [cards EXCEPT ![i].id = t, ![i].st = st]
  IN  IF exact # {} THEN Set(Max(exact))
      ELSE IF unnamed # {} THEN Set(Min(unnamed))
      ELSE cards
Marked(chat, t, st) == [chat EXCEPT !.cards = Updated(@, t, st)]

\* FileTransferComplete and FileTransferFailed
Ended(chat, t, st) == [Marked(chat, t, st) EXCEPT !.progress = @ \ {t}]

\* FileTransferFailed for all of T, in any order: every open card of theirs ends,
\* and the oldest outgoing cards without an id take the ids that have no card.
AllFailed(chat, T) ==
  LET cards == chat.cards
      exact(t) == {i \in DOMAIN cards : cards[i].id = t /\ Open(cards[i])}
      unnamed == {i \in DOMAIN cards : cards[i].id = 0 /\ cards[i].mine /\ Open(cards[i])}
      cardless == {t \in T : exact(t) = {}}
      oldest == {i \in unnamed : Cardinality({j \in unnamed : j < i}) < Cardinality(cardless)}
      over == {Max(exact(t)) : t \in T \ cardless}
      Failed(name) ==
        [i \in DOMAIN cards |->
           IF i \in oldest THEN [cards[i] EXCEPT !.id = name[i], !.st = "Failed"]
           ELSE IF i \in over THEN [cards[i] EXCEPT !.st = "Failed"]
           ELSE cards[i]]
  IN  {[cards |-> Failed(name), progress |-> chat.progress \ T] : name \in Injection(oldest, cardless)}

\* FileTransferProgress: the first one marks the card.
Moving(chat, t) ==
  IF t \in chat.progress THEN chat
  ELSE [Marked(chat, t, "Accepted") EXCEPT !.progress = @ \cup {t}]

\* ChatHistory::load, after a restart: what was open has been interrupted.
Reloaded(chat) ==
  [cards |-> [i \in DOMAIN chat.cards |->
                IF Open(chat.cards[i]) THEN [chat.cards[i] EXCEPT !.st = "Failed"] ELSE chat.cards[i]],
   progress |-> {}]
=============================================================================
