---------------------------- MODULE Duplicates -----------------------------
(***************************************************************************)
(* Which of the new transactions of a message are probably already in the  *)
(* ledger (bot/services/duplicates.py): rules only, no language model.     *)
(* A transaction is [id, amount, currency, created, occurred]; days are    *)
(* numbers.                                                                *)
(***************************************************************************)
EXTENDS Money, Integers

WindowDays == 2
Distance(a, b) == IF a > b THEN a - b ELSE b - a
Larger(a, b) == IF a > b THEN a ELSE b

EffectiveDate(t) == IF t.occurred # None THEN t.occurred ELSE t.created

\* Two percent of the larger; nothing is close to zero or to an unknown amount.
AmountsClose(a, b) ==
  a # None /\ b # None /\ a > 0 /\ b > 0 /\ 50 * Distance(a, b) <= Larger(a, b)

Matches(t, cand) ==
  /\ cand.id # t.id
  /\ cand.currency = t.currency
  /\ AmountsClose(t.amount, cand.amount)
  /\ Distance(EffectiveDate(t), EffectiveDate(cand)) <= WindowDays

\* Less difference in the amount, then the nearer day, then the newer row.
Better(t, a, b) ==
  LET rel(c) == Distance(t.amount, c.amount)
      base(c) == Larger(t.amount, c.amount)
      days(c) == Distance(EffectiveDate(t), EffectiveDate(c))
      lhs == rel(a) * base(b)
      rhs == rel(b) * base(a)
  IN  \/ lhs < rhs
      \/ lhs = rhs /\ days(a) < days(b)
      \/ lhs = rhs /\ days(a) = days(b) /\ a.id > b.id

FindMatch(t, candidates) ==
  LET found == {c \in candidates : Matches(t, c)}
  IN  IF found = {} THEN None
      ELSE CHOOSE c \in found : \A d \in found \ {c} : Better(t, c, d)

\* Mutant of Since: the window is not opened to the past.
SinceFirstDay(days) == Min(days)
Since(days) == IF Min(days) > WindowDays THEN Min(days) - WindowDays ELSE 0

\* The rows of the household that are read: not of this message, with an amount,
\* recorded since the first day of the window.
Candidates(ledger, days, batch) ==
  {r \in ledger : r.id \notin batch /\ r.created >= Since(days) /\ r.amount # None}

\* Largest amount first, then in the order of the message.
Sooner(a, b) ==
  LET worth(t) == IF t.amount = None THEN 0 ELSE t.amount
  IN  worth(a) > worth(b) \/ (worth(a) = worth(b) /\ a.id < b.id)
ByAmount(news) ==
  [n \in 1..Cardinality(news) |->
     CHOOSE t \in news : Cardinality({s \in news : Sooner(s, t)}) = n - 1]

Unclaimed(candidates, found) ==
  {c \in candidates : \A i \in DOMAIN found : found[i] # c.id}

\* The rows that are flagged, each with the id of its original.
FlagNew(ledger, news) ==
  LET days == {EffectiveDate(t) : t \in news}
      candidates == Candidates(ledger, days, {t.id : t \in news})
      flag(found, t) ==
        LET match == FindMatch(t, Unclaimed(candidates, found))
        IN  IF match = None THEN found
            ELSE [i \in DOMAIN found \cup {t.id} |-> IF i = t.id THEN match.id ELSE found[i]]
  IN  IF news = {} THEN [i \in {} |-> None]
      ELSE FoldLeft(flag, [i \in {} |-> None], ByAmount(news))

\* A receipt as a whole may be one row that was said before: of the rows that
\* match one of its totals, the newest.
ReceiptTotalMatch(ledger, totals, day, batch) ==
  LET probe(total) == [id |-> -1, amount |-> total, currency |-> "toman",
                       created |-> day, occurred |-> None]
      found == {FindMatch(probe(t), Candidates(ledger, {day}, batch)) :
                  t \in totals \ {None, 0}} \ {None}
  IN  IF found = {} THEN None ELSE CHOOSE c \in found : \A d \in found : c.id >= d.id
=============================================================================
