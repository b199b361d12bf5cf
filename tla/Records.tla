------------------------------ MODULE Records ------------------------------
(***************************************************************************)
(* The life of a ledger's rows: expenses (bot/services/transactions.py),   *)
(* debts (services/debts.py), the items the bot could not tell apart       *)
(* (services/clarify.py), the button edits (handlers/callbacks.py and      *)
(* messages.py) and the nightly reminder (services/reminders.py).          *)
(*                                                                         *)
(* A handler writes without waiting, but in several commits, and a restart *)
(* may come between them; the reminder job waits for Telegram between its  *)
(* list and its marks.  All users are of one household, all debts of one   *)
(* kind.                                                                   *)
(***************************************************************************)
EXTENDS Naturals, FiniteSets

CONSTANTS
  MaxTxn,        \* bound: transactions ever created
  MaxDebt,       \* bound: debts ever created
  Clar,          \* the items that will be left undecided
  Amount,        \* the amounts of debts and of settlements
  MaxSettled,    \* bound: what the settlements of one debt may add up to
  Party,         \* counterparties
  None,          \* NULL, or no row
  CanCrash,      \* may the process restart between two commits?
  LostReplies    \* may a reminder be seen although its send failed?

ASSUME NoneAssumption == None \notin Party /\ None \notin Nat
ASSUME AmountAssumption == MaxSettled \in Nat /\ Amount \subseteq 0..MaxSettled
ASSUME BoundAssumption == MaxTxn \in Nat /\ MaxDebt \in Nat
ASSUME FaultAssumption == CanCrash \in BOOLEAN /\ LostReplies \in BOOLEAN

Txn == 1..MaxTxn
Debt == 1..MaxDebt

VARIABLES
  txn, lastTxn,     \* table transactions, and the last id given to a row
  debt, lastDebt,   \* table debts, and the last id given to a row
  clar,             \* table pending_clarifications
  edit,             \* user_data[AWAITING_KEY]: what the next text is for
  listed,           \* the transactions in the reminder under way, or None
  torn,             \* history: rows and items cut short between two commits
  made,             \* history: how often each undecided item was entered
  reminders,        \* history: how often each transaction was in a reminder
  doubtful          \* history: transactions in a reminder without a full mark

tables == <<txn, lastTxn, debt, lastDebt, clar>>
history == <<torn, made, reminders, doubtful>>
vars == <<tables, edit, listed, history>>

\* Of an expense it only matters which of its two obligatory fields are filled.
TxnRow == [status: {"draft", "confirmed"}, amount: BOOLEAN, title: BOOLEAN,
           later: BOOLEAN, reminded: BOOLEAN]
DebtRow == [status: {"draft", "open", "settled"}, amount: Amount \cup {None},
            settled: 0..MaxSettled, party: Party \cup {None}]
Edit == [kind: {"txn"}, id: Txn, field: {"amount", "title"}]
          \cup [kind: {"debt"}, id: Debt, field: {"amount", "party"}]
Piece == ({"txn"} \X Txn) \cup ({"debt"} \X Debt) \cup ({"clar"} \X Clar)

TypeOK ==
  /\ txn \in [Txn -> TxnRow \cup {None}] /\ lastTxn \in 0..MaxTxn
  /\ debt \in [Debt -> DebtRow \cup {None}] /\ lastDebt \in 0..MaxDebt
  /\ clar \in [Clar -> {"absent", "asked", "answered"}]
  /\ edit \in Edit \cup {None}
  /\ listed \in (SUBSET Txn) \cup {None}
  /\ torn \in SUBSET Piece
  /\ made \in [Clar -> 0..2]
  /\ reminders \in [Txn -> 0..2] /\ doubtful \in SUBSET Txn

Init ==
  /\ txn = [t \in Txn |-> None] /\ lastTxn = 0
  /\ debt = [d \in Debt |-> None] /\ lastDebt = 0
  /\ clar = [c \in Clar |-> "absent"]
  /\ edit = None /\ listed = None
  /\ torn = {} /\ doubtful = {}
  /\ made = [c \in Clar |-> 0]
  /\ reminders = [t \in Txn |-> 0]

-----------------------------------------------------------------------------
(* Commits.                                                                *)

\* All commits of a handler went through; what was cut short before is mended.
Whole(kind, id) == torn' = torn \ {<<kind, id>>} /\ UNCHANGED listed

\* The process restarts between two commits of a handler.
Cut(kind, id) ==
  /\ CanCrash
  /\ torn' = torn \cup {<<kind, id>>}
  /\ edit' = None /\ listed' = None

\* The histories count up to two.
Once(counts, ids) ==
  [i \in DOMAIN counts |-> IF i \in ids /\ counts[i] < 2 THEN counts[i] + 1 ELSE counts[i]]

-----------------------------------------------------------------------------
(* Expenses.                                                               *)

TxnStatus(amount, title) == IF amount /\ title THEN "confirmed" ELSE "draft"

\* Mutant of SyncTxn: the row is confirmed when complete and never made a draft.
SyncTxnUpwards(row) == IF row.amount /\ row.title THEN [row EXCEPT !.status = "confirmed"] ELSE row
SyncTxn(row) == [row EXCEPT !.status = TxnStatus(row.amount, row.title)]

\* create_from_item: one INSERT, with the status computed from the item.
InsertTxn(amount, title, later) ==
  /\ lastTxn < MaxTxn
  /\ lastTxn' = lastTxn + 1
  /\ txn' = [txn EXCEPT ![lastTxn + 1] =
       [status |-> TxnStatus(amount, title), amount |-> amount, title |-> title,
        later |-> later, reminded |-> FALSE]]

CreateTxn(amount, title, later) ==
  /\ InsertTxn(amount, title, later)
  /\ UNCHANGED <<debt, lastDebt, clar, edit, listed, history>>

\* update_transaction, then sync_status; `next` is what becomes of the edit.
WriteTxn(t, amount, title, next) ==
  /\ LET row == [txn[t] EXCEPT !.amount = amount, !.title = title] IN
       \/ /\ txn' = [txn EXCEPT ![t] = SyncTxn(row)]
          /\ Whole("txn", t)
          /\ edit' = next
       \/ /\ txn' = [txn EXCEPT ![t] = row]
          /\ Cut("txn", t)
  /\ UNCHANGED <<lastTxn, debt, lastDebt, clar, made, reminders, doubtful>>

\* A correction in words; an amount nobody can read empties the column.
UpdateTxn(t, amount, title) ==
  /\ txn[t] # None
  /\ WriteTxn(t, amount, title, edit)

DeleteTxn(t) ==
  /\ txn[t] # None
  /\ txn' = [txn EXCEPT ![t] = None]
  /\ UNCHANGED <<lastTxn, debt, lastDebt, clar, edit, listed, history>>

-----------------------------------------------------------------------------
(* Debts.                                                                  *)

DebtStatus(row) ==
  IF row.amount = None \/ row.party = None THEN "draft"
  ELSE IF row.settled >= row.amount THEN "settled" ELSE "open"
SyncDebt(row) == [row EXCEPT !.status = DebtStatus(row)]

\* What counts as paid after "settled" (flag) or after a part-payment (sum).
Settled(old, amount, flag, sum) ==
  IF flag THEN IF amount # None THEN amount ELSE old
  ELSE IF sum # None THEN old + sum ELSE old

\* update_debt, then sync_status.
PutDebt(d, row, next) ==
  /\ row.settled <= MaxSettled
  /\ \/ /\ debt' = [debt EXCEPT ![d] = SyncDebt(row)]
        /\ Whole("debt", d)
        /\ edit' = next
     \/ /\ debt' = [debt EXCEPT ![d] = row]
        /\ Cut("debt", d)
  /\ UNCHANGED lastDebt

WriteDebt(d, row, next) ==
  /\ PutDebt(d, row, next)
  /\ UNCHANGED <<txn, lastTxn, clar, made, reminders, doubtful>>

\* debts.apply_update, with the amount and the party the row has afterwards.
Applied(d, amount, party, flag, sum) ==
  [debt[d] EXCEPT !.amount = amount, !.party = party,
                  !.settled = Settled(@, amount, flag, sum)]

\* create_debt, the payment that is already made, and sync_status.
InsertDebt(amount, party, flag, sum) ==
  LET d == lastDebt + 1
      bare == [status |-> "draft", amount |-> amount, settled |-> 0, party |-> party]
      row == [bare EXCEPT !.settled = IF flag /\ amount # None THEN amount
                                      ELSE IF sum # None THEN sum ELSE 0]
  IN  /\ d \in Debt
      /\ lastDebt' = d
      /\ \/ /\ debt' = [debt EXCEPT ![d] = SyncDebt(row)]
            /\ Whole("debt", d) /\ UNCHANGED edit
         \/ /\ \E r \in {bare, row} : debt' = [debt EXCEPT ![d] = r]
            /\ Cut("debt", d)

\* find_open_debt: drafts count as open.
Unsettled(party) ==
  {d \in Debt : debt[d] # None /\ debt[d].party = party /\ debt[d].status # "settled"}

\* create_or_update_from_item: a payment goes to the newest row of the party; a new
\* amount that nobody can read empties the column.
EnterDebt(amount, party, flag, sum) ==
  IF (flag \/ sum # None) /\ party # None /\ Unsettled(party) # {}
  THEN \E d \in Unsettled(party), old \in BOOLEAN :
         /\ \A e \in Unsettled(party) : e <= d
         /\ old => amount = None
         /\ PutDebt(d, Applied(d, IF old THEN debt[d].amount ELSE amount, party, flag, sum), edit)
  ELSE InsertDebt(amount, party, flag, sum)

SayDebt(amount, party, flag, sum) ==
  /\ EnterDebt(amount, party, flag, sum)
  /\ UNCHANGED <<txn, lastTxn, clar, made, reminders, doubtful>>

\* A correction or a payment in words, on a row the model names.
UpdateDebt(d, amount, party, flag, sum) ==
  /\ debt[d] # None
  /\ party \in Party \cup {debt[d].party}
  /\ WriteDebt(d, Applied(d, amount, party, flag, sum), edit)

SettleTap(d) ==
  /\ debt[d] # None /\ debt[d].amount # None
  /\ WriteDebt(d, Applied(d, debt[d].amount, debt[d].party, TRUE, None), edit)

Reopen(d) ==
  /\ debt[d] # None
  /\ WriteDebt(d, [debt[d] EXCEPT !.settled = 0], edit)

DeleteDebt(d) ==
  /\ debt[d] # None
  /\ debt' = [debt EXCEPT ![d] = None]
  /\ UNCHANGED <<lastDebt, txn, lastTxn, clar, edit, listed, history>>

-----------------------------------------------------------------------------
(* "Was it spent, or is it owed?"                                          *)

Ask(c) ==
  /\ clar[c] = "absent"
  /\ clar' = [clar EXCEPT ![c] = "asked"]
  /\ UNCHANGED <<txn, lastTxn, debt, lastDebt, edit, listed, history>>

\* Mutant of Answerable: the second tap on a button is not noticed.
AnswerableAgain(c) == clar[c] # "absent"
\* resolve_clarification: only the first tap counts.
Answerable(c) == clar[c] = "asked"

\* The question is resolved, then the item is entered: as an expense, or as a debt,
\* which may turn out to be a payment on one.
Answer(c) ==
  /\ Answerable(c)
  /\ clar' = [clar EXCEPT ![c] = "answered"]
  /\ \/ /\ \E amount, title, later \in BOOLEAN : InsertTxn(amount, title, later)
        /\ made' = Once(made, {c})
        /\ UNCHANGED <<debt, lastDebt, edit, listed, torn>>
     \/ /\ \E amount, sum \in Amount \cup {None}, party \in Party \cup {None}, flag \in BOOLEAN :
             EnterDebt(amount, party, flag, sum)
        /\ made' = Once(made, {c})
        /\ UNCHANGED <<txn, lastTxn>>
     \/ /\ Cut("clar", c)
        /\ UNCHANGED <<txn, lastTxn, debt, lastDebt, made>>
  /\ UNCHANGED <<reminders, doubtful>>

-----------------------------------------------------------------------------
(* Button edits.                                                           *)

RowOf(e) == IF e.kind = "txn" THEN txn[e.id] ELSE debt[e.id]

\* The newest prompt wins, whatever was asked before.
StartEdit(e) ==
  /\ RowOf(e) # None
  /\ edit' = e
  /\ UNCHANGED <<tables, listed, history>>

\* The cancel button, a voice message or a photo.
CancelEdit ==
  /\ edit # None
  /\ edit' = None
  /\ UNCHANGED <<tables, listed, history>>

\* A text that can be read; one that cannot changes nothing.
EditText ==
  /\ edit # None
  /\ \/ /\ RowOf(edit) = None
        /\ edit' = None
        /\ UNCHANGED <<tables, listed, history>>
     \/ /\ RowOf(edit) # None /\ edit.kind = "txn"
        /\ WriteTxn(edit.id, txn[edit.id].amount \/ edit.field = "amount",
                    txn[edit.id].title \/ edit.field = "title", None)
     \/ /\ RowOf(edit) # None /\ edit.kind = "debt"
        /\ \/ \E amount \in Amount :
                /\ edit.field = "amount"
                /\ WriteDebt(edit.id, [debt[edit.id] EXCEPT !.amount = amount], None)
           \/ \E party \in Party :
                /\ edit.field = "party"
                /\ WriteDebt(edit.id, [debt[edit.id] EXCEPT !.party = party], None)

-----------------------------------------------------------------------------
(* The nightly reminder.                                                   *)

Incomplete(t) == txn[t] # None /\ txn[t].status = "draft" /\ ~(txn[t].amount /\ txn[t].title)

\* Mutant of PendingForReminder: only what the user has put off is listed.
PendingIfPutOff == {t \in Txn : txn[t] # None /\ ~txn[t].reminded /\ txn[t].later}

PendingForReminder ==
  {t \in Txn : txn[t] # None /\ ~txn[t].reminded /\ (txn[t].later \/ Incomplete(t))}

\* Mutant of Marked: only rows that are still incomplete are marked.
MarkedIfIncomplete(ids) ==
  [t \in Txn |-> IF t \in ids /\ Incomplete(t) THEN [txn[t] EXCEPT !.reminded = TRUE] ELSE txn[t]]

Marked(ids) ==
  [t \in Txn |-> IF t \in ids /\ txn[t] # None THEN [txn[t] EXCEPT !.reminded = TRUE] ELSE txn[t]]

ReminderStarts ==
  /\ listed = None
  /\ PendingForReminder # {}
  /\ listed' = PendingForReminder
  /\ UNCHANGED <<tables, edit, history>>

\* Telegram took it; the rows are marked one by one.
ReminderSent ==
  /\ listed # None
  /\ reminders' = Once(reminders, listed)
  /\ txn' = Marked(listed)
  /\ listed' = None
  /\ UNCHANGED <<lastTxn, debt, lastDebt, clar, edit, torn, made, doubtful>>

\* The send failed, and the message may have appeared all the same.
ReminderFails ==
  /\ listed # None
  /\ \/ UNCHANGED <<reminders, doubtful>>
     \/ /\ LostReplies
        /\ reminders' = Once(reminders, listed)
        /\ doubtful' = doubtful \cup listed
  /\ listed' = None
  /\ UNCHANGED <<tables, edit, torn, made>>

\* A restart during the send, or among the marks.
Restart ==
  /\ CanCrash
  /\ edit # None \/ listed # None
  /\ \/ UNCHANGED <<txn, reminders, doubtful>>
     \/ /\ listed # None
        /\ reminders' = Once(reminders, listed)
        /\ \E ids \in SUBSET listed :
             /\ txn' = Marked(ids)
             /\ doubtful' = doubtful \cup (listed \ ids)
  /\ edit' = None /\ listed' = None
  /\ UNCHANGED <<lastTxn, debt, lastDebt, clar, torn, made>>

-----------------------------------------------------------------------------

Next ==
  \/ \E amount, title, later \in BOOLEAN : CreateTxn(amount, title, later)
  \/ \E t \in Txn : DeleteTxn(t) \/ \E amount, title \in BOOLEAN : UpdateTxn(t, amount, title)
  \/ \E amount, sum \in Amount \cup {None}, party \in Party \cup {None}, flag \in BOOLEAN :
       \/ SayDebt(amount, party, flag, sum)
       \/ \E d \in Debt : UpdateDebt(d, amount, party, flag, sum)
  \/ \E d \in Debt : SettleTap(d) \/ Reopen(d) \/ DeleteDebt(d)
  \/ \E c \in Clar : Ask(c) \/ Answer(c)
  \/ \E e \in Edit : StartEdit(e)
  \/ CancelEdit \/ EditText
  \/ ReminderStarts \/ ReminderSent \/ ReminderFails \/ Restart

Spec == Init /\ [][Next]_vars

\* The job runs every night, a send ends, and some night Telegram takes it.
FairSpec ==
  /\ Spec
  /\ WF_vars(ReminderStarts)
  /\ WF_vars(ReminderSent \/ ReminderFails \/ Restart)
  /\ SF_vars(ReminderSent)

-----------------------------------------------------------------------------
(* Properties.                                                             *)

\* The reports count what is confirmed and the reminder asks for what is not:
\* through every way of writing a row, its status says whether it is complete,
\* and for a debt whether it is paid - but for a row whose handler was cut short
\* by a restart, which the next write mends (transactions.py:80-81 and 120-122,
\* debts.py:105-109 and 144-146, messages.py:730-736).
StatusIsTrue ==
  /\ \A t \in Txn : txn[t] # None /\ <<"txn", t>> \notin torn =>
       txn[t].status = TxnStatus(txn[t].amount, txn[t].title)
  /\ \A d \in Debt : debt[d] # None /\ <<"debt", d>> \notin torn =>
       debt[d].status = DebtStatus(debt[d])

\* Nobody is asked twice about an expense, whatever is edited or deleted while
\* the reminder is on its way, unless Telegram's answer or a restart left it
\* open whether he had been asked (reminders.py:83-97).
RemindedOnce == \A t \in Txn : reminders[t] > 1 => t \in doubtful

\* An answered question has become one row, or one payment on a row: two taps do
\* not make two, and none is lost but by a restart between the two commits
\* (clarify.py:62-74).
AnswerBecomesOneRow ==
  \A c \in Clar :
    /\ made[c] <= 1
    /\ clar[c] = "answered" /\ <<"clar", c>> \notin torn => made[c] = 1

\* An expense that lacks its amount or its title is asked for some night,
\* unless it is completed or deleted before (reminders.py:3-5).
IncompleteIsAskedFor ==
  \A t \in Txn : Incomplete(t) ~> (~Incomplete(t) \/ txn[t].reminded)
=============================================================================
