---------------------------- MODULE CardDelivery ----------------------------
(***************************************************************************)
(* The cards of recorded transactions (bot/handlers/cards.py), the job     *)
(* that delivers those Telegram did not take (services/ingest.py), the     *)
(* "probably a duplicate" marks (services/duplicates.py) and the delete    *)
(* button (handlers/callbacks.py).                                         *)
(*                                                                         *)
(* Three tasks send cards: the Telegram lane, one update at a time; an     *)
(* HTTP request; and the delivery job.  A send renders the card first and  *)
(* stores its message id when Telegram has answered.  All transactions     *)
(* here have one amount and one day: the case where the marks bite.        *)
(***************************************************************************)
EXTENDS Naturals, FiniteSets, FiniteSetsExt

CONSTANTS
  MaxTxn,        \* bound: transactions ever recorded
  MaxBatch,      \* bound: transactions recorded from one message
  MaxMessages,   \* bound: card messages ever sent
  TelegramFails, \* may Telegram refuse a call?
  LostReplies,   \* may a send fail although the message appeared?
  CanCrash       \* may the process restart between two awaits?

ASSUME BoundAssumption == MaxTxn \in Nat /\ MaxBatch \in Nat /\ MaxMessages \in Nat
ASSUME FaultAssumption ==
  TelegramFails \in BOOLEAN /\ LostReplies \in BOOLEAN /\ CanCrash \in BOOLEAN

VARIABLES
  txn,      \* table transactions, by id; ids are never used again
  shown,    \* the card messages in the chat, by message id
  todo,     \* per sender: the cards it still has to send
  flight,   \* per sender: the rendered card it is sending, or Nothing
  lane,     \* what the Telegram lane is doing
  cut       \* history: originals whose deletion was interrupted half-way

vars == <<txn, shown, todo, flight, lane, cut>>

Txn == 1..MaxTxn
Message == 1..MaxMessages
Null == 0
Sender == {"lane", "http", "job"}
Nothing == [txn |-> Null, warns |-> Null]

Row == [status: {"live"}, source: {"chat", "shortcut"}, batch: Txn,
        original: Txn \cup {Null}, card: Message \cup {Null}]
NoRow(status) ==
  [status |-> status, source |-> "none", batch |-> Null, original |-> Null, card |-> Null]
LaneStage == {"idle", "created", "flagged", "sending", "deleting", "refreshing"}
Idle == [at |-> "idle", batch |-> {}, tapped |-> Null, target |-> Null, card |-> Null]

TypeOK ==
  /\ txn \in [Txn -> Row \cup {NoRow("absent"), NoRow("deleted")}]
  /\ shown \in [Message -> [txn: Txn \cup {Null}, warns: Txn \cup {Null}, live: BOOLEAN]]
  /\ todo \in [Sender -> SUBSET Txn]
  /\ flight \in [Sender -> [txn: Txn, warns: Txn \cup {Null}] \cup {Nothing}]
  /\ lane \in [at: LaneStage, batch: SUBSET Txn, tapped: Message \cup {Null},
               target: Txn \cup {Null}, card: Message \cup {Null}]
  /\ cut \in SUBSET Txn

Init ==
  /\ txn = [t \in Txn |-> NoRow("absent")]
  /\ shown = [m \in Message |-> [txn |-> Null, warns |-> Null, live |-> FALSE]]
  /\ todo = [k \in Sender |-> {}]
  /\ flight = [k \in Sender |-> Nothing]
  /\ lane = Idle
  /\ cut = {}

-----------------------------------------------------------------------------
(* The tables, as functions of the table they change.                      *)

Live(table, t) == t # Null /\ table[t].status = "live"

\* create_transaction, n times: the ids follow those ever used.
NextIds(n) ==
  LET used == Cardinality({t \in Txn : txn[t].status # "absent"})
  IN  (used + 1)..(used + n)
Created(ids, source) ==
  [t \in Txn |-> IF t \in ids
     THEN [status |-> "live", source |-> source, batch |-> Min(ids),
           original |-> Null, card |-> Null]
     ELSE txn[t]]

\* Mutant of FlagNew: the rows already taken are not remembered.
FlagNewUnclaimed(table, batch) ==
  LET candidates == {c \in Txn \ batch : Live(table, c)}
  IN  [t \in Txn |-> IF t \in batch /\ candidates # {}
                        THEN [table[t] EXCEPT !.original = Max(candidates)] ELSE table[t]]

\* flag_new: each row of the batch, in turn, is matched with the newest row
\* outside the batch that no row before it has taken: with one amount and one
\* day, the n-th row gets the n-th newest.
FlagNew(table, batch) ==
  LET candidates == {c \in Txn \ batch : Live(table, c)}
      matches(t) ==
        {c \in candidates : Cardinality({d \in candidates : d > c})
                              = Cardinality({s \in batch : s < t})}
  IN  [t \in Txn |->
         IF t \notin batch THEN table[t]
         ELSE IF matches(t) = {} THEN [table[t] EXCEPT !.original = Null]
         ELSE [table[t] EXCEPT !.original = CHOOSE c \in matches(t) : TRUE]]

\* Mutant of SetCard: an UPDATE by the message of the batch, not by the row.
SetCardOfBatch(table, t, m) ==
  [u \in Txn |-> IF Live(table, t) /\ Live(table, u) /\ table[u].batch = table[t].batch
                   THEN [table[u] EXCEPT !.card = m] ELSE table[u]]

\* set_card_message: an UPDATE, which changes nothing if the row is gone.
SetCard(table, t, m) == IF Live(table, t) THEN [table EXCEPT ![t].card = m] ELSE table

\* Mutant of Release: the copies are read and their mark is kept.
ReleaseNothing(table, original) == table

\* release_duplicates_of
Release(table, original) ==
  [t \in Txn |-> IF table[t].original = original
                   THEN [table[t] EXCEPT !.original = Null] ELSE table[t]]

Undelivered == {t \in Txn : Live(txn, t) /\ txn[t].source = "shortcut" /\ txn[t].card = Null}

-----------------------------------------------------------------------------
(* Sending.                                                                *)

\* duplicate_note: the original is named on the card if it still exists.
Warning(table, t) ==
  IF Live(table, table[t].original) THEN table[t].original ELSE Null

\* The loop of send_card goes to its next await: rows that are gone are
\* skipped, the next card is rendered and handed to Telegram.
SendNext(k, ids, table) ==
  LET live == {t \in ids : Live(table, t)} IN
  \/ /\ live = {}
     /\ todo' = [todo EXCEPT ![k] = {}]
     /\ flight' = [flight EXCEPT ![k] = Nothing]
  \/ \E t \in live :
       /\ \A u \in live : t <= u
       /\ todo' = [todo EXCEPT ![k] = live \ {t}]
       /\ flight' = [flight EXCEPT ![k] = [txn |-> t, warns |-> Warning(table, t)]]

Sending(k) == flight[k] # Nothing
FreeMessages == {m \in Message : shown[m].txn = Null}

\* The message of the sender k appears in the chat as m.
Appears(k, m) ==
  /\ m \in FreeMessages /\ \A free \in FreeMessages : m <= free
  /\ shown' = [shown EXCEPT ![m] =
       [txn |-> flight[k].txn, warns |-> flight[k].warns, live |-> TRUE]]

\* The lane is free again when its last card is out; a refresh goes on.
LaneAfterSend ==
  lane' = IF lane.at = "sending" /\ flight'["lane"] = Nothing THEN Idle ELSE lane

Delivered(k) ==
  /\ Sending(k)
  /\ \E m \in Message :
       /\ Appears(k, m)
       /\ txn' = SetCard(txn, flight[k].txn, m)
  /\ SendNext(k, todo[k], txn')
  /\ IF k = "lane" THEN LaneAfterSend ELSE UNCHANGED lane
  /\ UNCHANGED cut

\* The HTTP task and the job go on with the next card; in the lane the
\* exception ends the handler, and the cards after it are never sent.
SendFails(k) ==
  /\ Sending(k) /\ TelegramFails
  /\ \/ UNCHANGED shown
     \/ LostReplies /\ \E m \in Message : Appears(k, m)
  /\ SendNext(k, IF k = "lane" THEN {} ELSE todo[k], txn)
  /\ lane' = IF k = "lane" THEN Idle ELSE lane
  /\ cut' = IF k = "lane" /\ lane.at = "refreshing" THEN cut \cup {lane.target} ELSE cut
  /\ UNCHANGED txn

-----------------------------------------------------------------------------
(* Recording.                                                              *)

\* The lane records, then waits to delete its status message, ...
LaneRecords(n) ==
  /\ lane = Idle
  /\ NextIds(n) \subseteq Txn
  /\ txn' = Created(NextIds(n), "chat")
  /\ lane' = [Idle EXCEPT !.at = "created", !.batch = NextIds(n)]
  /\ UNCHANGED <<shown, todo, flight, cut>>

\* ... then flags, and waits for its reply to be sent, ...
LaneFlags ==
  /\ lane.at = "created"
  /\ txn' = FlagNew(txn, lane.batch)
  /\ lane' = [lane EXCEPT !.at = "flagged"]
  /\ UNCHANGED <<shown, todo, flight, cut>>

\* ... then sends the cards.
LaneSends ==
  /\ lane.at = "flagged"
  /\ SendNext("lane", lane.batch, txn)
  /\ lane' = [Idle EXCEPT !.at = "sending"]
  /\ UNCHANGED <<txn, shown, cut>>

LaneFails ==
  /\ TelegramFails
  /\ lane.at \in {"created", "flagged"}
  /\ lane' = Idle
  /\ UNCHANGED <<txn, shown, todo, flight, cut>>

\* A shortcut request records, flags and renders its first card in one go.
ShortcutRecords(n) ==
  /\ ~Sending("http")
  /\ NextIds(n) \subseteq Txn
  /\ txn' = FlagNew(Created(NextIds(n), "shortcut"), NextIds(n))
  /\ SendNext("http", NextIds(n), txn')
  /\ UNCHANGED <<shown, lane, cut>>

\* Mutant of JobStarts: the job looks for cards of another source.
JobStartsForChat ==
  /\ ~Sending("job")
  /\ {t \in Undelivered : txn[t].source = "chat"} # {}
  /\ SendNext("job", {t \in Undelivered : txn[t].source = "chat"}, txn)
  /\ UNCHANGED <<txn, shown, lane, cut>>

\* deliver_undelivered_cards reads its list once.
JobStarts ==
  /\ ~Sending("job")
  /\ Undelivered # {}
  /\ SendNext("job", Undelivered, txn)
  /\ UNCHANGED <<txn, shown, lane, cut>>

-----------------------------------------------------------------------------
(* The delete button.                                                      *)

TapDelete(m) ==
  /\ lane = Idle
  /\ shown[m].live /\ Live(txn, shown[m].txn)
  /\ LET t == shown[m].txn IN
       /\ txn' = [txn EXCEPT ![t] = NoRow("deleted")]
       /\ lane' = [at |-> "deleting", batch |-> {}, tapped |-> m,
                   target |-> t, card |-> txn[t].card]
  /\ UNCHANGED <<shown, todo, flight, cut>>

\* The tapped message says "deleted"; the copies lose their mark.
DeleteShown ==
  /\ lane.at = "deleting"
  /\ shown' = [shown EXCEPT ![lane.tapped].live = FALSE]
  /\ txn' = Release(txn, lane.target)
  /\ lane' = [lane EXCEPT !.at = "refreshing",
                          !.batch = {t \in Txn : txn[t].original = lane.target}]
  /\ UNCHANGED <<todo, flight, cut>>

\* query.answer or edit_message_text raises: nothing after it happens.
DeleteFails ==
  /\ TelegramFails
  /\ lane.at = "deleting"
  /\ lane' = Idle
  /\ cut' = cut \cup {lane.target}
  /\ UNCHANGED <<txn, shown, todo, flight>>

\* refresh_card: the card is edited in place, or sent again if it has no
\* message yet or the edit fails.
RefreshCopy ==
  /\ lane.at = "refreshing" /\ lane.batch # {} /\ ~Sending("lane")
  /\ \E t \in lane.batch :
       /\ \A u \in lane.batch : t <= u
       /\ \/ /\ txn[t].card # Null
             /\ shown' = [shown EXCEPT ![txn[t].card].warns = Warning(txn, t)]
             /\ UNCHANGED <<todo, flight>>
          \/ /\ txn[t].card = Null \/ TelegramFails
             /\ SendNext("lane", {t}, txn)
             /\ UNCHANGED shown
       /\ lane' = [lane EXCEPT !.batch = @ \ {t}]
  /\ UNCHANGED <<txn, cut>>

\* The card, if the tap was on another message; a failure here is swallowed.
DeleteEnds ==
  /\ lane.at = "refreshing" /\ lane.batch = {} /\ ~Sending("lane")
  /\ \/ /\ lane.card \in Message \ {lane.tapped}
        /\ shown' = [shown EXCEPT ![lane.card].live = FALSE]
     \/ /\ lane.card \in {Null, lane.tapped} \/ TelegramFails
        /\ UNCHANGED shown
  /\ lane' = Idle
  /\ UNCHANGED <<txn, todo, flight, cut>>

-----------------------------------------------------------------------------

\* A restart: the tasks are gone; a card under way may still appear.
Crash ==
  /\ CanCrash
  /\ lane # Idle \/ \E k \in Sender : Sending(k)
  /\ UNCHANGED shown \/ \E k \in Sender, m \in Message : Sending(k) /\ Appears(k, m)
  /\ todo' = [k \in Sender |-> {}]
  /\ flight' = [k \in Sender |-> Nothing]
  /\ lane' = Idle
  /\ cut' = IF lane.at \in {"deleting", "refreshing"} THEN cut \cup {lane.target} ELSE cut
  /\ UNCHANGED txn

LaneStep ==
  LaneFlags \/ LaneSends \/ LaneFails \/ DeleteShown \/ DeleteFails \/ RefreshCopy \/ DeleteEnds

Next ==
  \/ \E n \in 1..MaxBatch : LaneRecords(n) \/ ShortcutRecords(n)
  \/ LaneStep
  \/ \E m \in Message : TapDelete(m)
  \/ \E k \in Sender : Delivered(k) \/ SendFails(k)
  \/ JobStarts
  \/ Crash

Spec == Init /\ [][Next]_vars

\* Awaits end, the job runs every five minutes, and Telegram does not refuse
\* the job for ever (within the seven days of RETRY_WINDOW_DAYS).
FairSpec ==
  /\ Spec
  /\ WF_vars(LaneStep)
  /\ WF_vars(JobStarts)
  /\ \A k \in Sender : WF_vars(Delivered(k) \/ SendFails(k)) /\ SF_vars(Delivered(k))

-----------------------------------------------------------------------------
(* Properties.                                                             *)

\* A mark names a transaction that exists, unless the deletion of that
\* transaction is under way or was interrupted between its commits
\* (callbacks.py:136-140).
OriginalsExist ==
  \A t \in Txn : Live(txn, t) /\ txn[t].original # Null =>
    \/ Live(txn, txn[t].original)
    \/ lane.at = "deleting" /\ lane.target = txn[t].original
    \/ txn[t].original \in cut

\* Rules 3 and 4 (duplicates.py:18-21): rows of one message are not marked as
\* copies of each other, and no two of them as copies of the same row -
\* whatever was recorded or deleted while the message was being handled.
OneToOne ==
  \A s, t \in Txn : Live(txn, s) /\ Live(txn, t) /\ txn[s].batch = txn[t].batch =>
    /\ txn[s].original # t
    /\ s # t /\ txn[s].original # Null => txn[s].original # txn[t].original

\* The card that a row remembers is its own and its buttons work: edits go to
\* it and a tap finds it, whichever of the three senders stored it last, and
\* however deletions of other rows, with their copies of cards, came between
\* (cards.py:91-99, callbacks.py:136-150).
RememberedCardWorks ==
  \A t \in Txn : Live(txn, t) /\ txn[t].card # Null =>
    shown[txn[t].card].txn = t /\ shown[txn[t].card].live

\* The bound on the messages is reached.
ChatIsFull == \A m \in Message : shown[m].txn # Null

\* An expense said to the shortcut gets its card, however often Telegram
\* refuses it, whatever restarts come between, unless the user deletes it first
\* (ingest.py:253-254).
CardArrives ==
  \A t \in Txn : t \in Undelivered ~> t \notin Undelivered \/ ChatIsFull

Quiet == lane = Idle /\ \A k \in Sender : ~Sending(k)

\* "Or a transaction that is no more stays in the chat with live buttons"
\* (callbacks.py:142-143): once all is quiet, no card of a deleted row is live.
DeletedHasNoLiveCard ==
  Quiet => \A m \in Message : shown[m].live => Live(txn, shown[m].txn)
=============================================================================
