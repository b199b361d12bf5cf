----------------------------- MODULE LedgerView -----------------------------
(***************************************************************************)
(* The picture of the ledger that precedes every question to the model     *)
(* (bot/services/ledger.py), and the rows that the nightly reminder asks   *)
(* about (bot/services/reminders.py): the answer to the reminder is        *)
(* understood only if the row is in the picture.  A row is                 *)
(* [id, day, status, complete, later, reminded, user]; ids follow the      *)
(* order of recording.                                                     *)
(***************************************************************************)
EXTENDS Answers

CONSTANTS MaxToday, MaxDrafts, MaxDebts   \* how much of each section is shown

ASSUME LedgerViewAssumption == MaxToday \in Nat /\ MaxDrafts \in Nat /\ MaxDebts \in Nat

\* ORDER BY ... DESC LIMIT n
Newest(rows, n) == {r \in rows : Cardinality({s \in rows : s.id > r.id}) < n}

DoneToday(rows, today) == {r \in rows : r.status = "confirmed" /\ r.day = today}
Drafts(rows) == {r \in rows : r.status = "draft"}

\* Of today's rows, how many are left out is said; of drafts and debts it is not.
Snapshot(rows, debts, today) ==
  LET done == DoneToday(rows, today) IN
  [today |-> Newest(done, MaxToday),
   more |-> Cardinality(done \ Newest(done, MaxToday)),
   drafts |-> Newest(Drafts(rows), MaxDrafts),
   rests |-> [d \in Newest(Listed(debts), MaxDebts) |-> Remaining(d)]]

\* pending_for_reminder: of the user's own rows, not of the household's.
PendingForReminder(rows, user) ==
  {r \in rows : /\ r.user = user /\ ~r.reminded
                /\ r.later \/ (r.status = "draft" /\ ~r.complete)}
=============================================================================
