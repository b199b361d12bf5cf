------------------------------ MODULE Answers ------------------------------
(***************************************************************************)
(* What the assistant answers to a question about the ledger: the sums of  *)
(* the read-only tools of bot/llm/tools.py and the open debts of           *)
(* bot/services/debts.py.  Amounts are hundredths; a transaction is        *)
(* [amount, currency, cats] and a debt [kind, amount, paid, currency,      *)
(* party], with a party or not.                                            *)
(***************************************************************************)
EXTENDS Money, Integers

Priced(txns) == {t \in txns : t.amount # None}
Currencies(txns) == {t.currency : t \in Priced(txns)}
SumOf(txns) == MapThenSumSet(LAMBDA t : t.amount, Priced(txns))
ByCurrency(txns) == [c \in Currencies(txns) |-> SumOf({t \in txns : t.currency = c})]

\* Every transaction with one of the tags, not only with its first; "none" is
\* for those without any.  `below` are the tags under the category.
FilterByCategory(txns, cat, below) ==
  IF cat = "none" THEN {t \in txns : t.cats = <<>>}
  ELSE {t \in txns : ToSet(t.cats) \cap ({cat} \cup below) # {}}

\* get_summary leaves rials and foreign currencies out of its categories.
Summary(txns, cats) ==
  LET toman == {t \in txns : t.currency = "toman"}
  IN  [totals |-> ByCurrency(txns),
       category |-> [c \in cats |-> SumOf({t \in toman : CategoryOf(t, c)})]]

Missing(txns, rates) == Currencies(txns) \ ({"toman", "rial"} \cup DOMAIN rates)

\* Of a sum or a difference of doubles with fractions a whole number may be
\* missed by a hair, and to cut off its fraction then costs a unit.
Fractional(t) == t.amount % (IF t.currency = "rial" THEN 1000 ELSE 100) # 0

\* All amounts in thousandths of a toman, by the rates that the user gave.
Thousandths(txns, rates) ==
  LET worth(t) ==
        CASE t.currency = "toman" -> 10 * t.amount
          [] t.currency = "rial" -> t.amount
          [] OTHER -> IF t.currency \in DOMAIN rates THEN 10 * t.amount * rates[t.currency] ELSE 0
  IN  MapThenSumSet(worth, Priced(txns))

\* compute_total_in_toman, in whole tomans: what it may come to.  The fraction is
\* cut off the sum, not off its parts.
GrandTotals(txns, rates) ==
  LET sum == Thousandths(txns, rates)
      hair == IF sum > 0 /\ \E t \in Priced(txns) : Fractional(t) THEN {0, 1} ELSE {0}
  IN  IF Missing(txns, rates) # {} THEN {None} ELSE {(sum - h) \div 1000 : h \in hair}

-----------------------------------------------------------------------------
(* Open debts ("debt": the household owes) and credits.                    *)

\* Mutant of Remaining: an over-payment counts as a negative rest.
RemainingSigned(d) == IF d.amount = None THEN None ELSE d.amount - d.paid
Remaining(d) ==
  IF d.amount = None THEN None ELSE IF d.amount > d.paid THEN d.amount - d.paid ELSE 0

StatusFor(d) ==
  IF d.amount = None \/ ~d.party THEN "draft"
  ELSE IF Remaining(d) <= 0 THEN "settled" ELSE "open"

\* What list_debts returns unless settled ones are asked for.
Listed(debts) == {d \in debts : StatusFor(d) # "settled"}
Owing(debts) == {d \in Listed(debts) : Remaining(d) \notin {None, 0}}

Totals(debts) ==
  LET owing(k) == {d \in Owing(debts) : d.kind = k}
  IN  [k \in {"debt", "credit"} |-> [c \in {d.currency : d \in owing(k)} |->
         MapThenSumSet(Remaining, {d \in owing(k) : d.currency = c})]]

\* The rests that are a difference of fractions, of which some come out a hair
\* short (Fractional).
Frayed(debts) == {d \in Owing(debts) : d.amount % 100 # 0 \/ d.paid % 100 # 0}

\* Credits less debts in whole tomans, rounded down; foreign currencies apart.
NetToman(debts, short) ==
  LET rest(d) == IF d \in short THEN Remaining(d) - 1 ELSE Remaining(d)
      rials(k) == MapThenSumSet(LAMBDA d : ToRial(rest(d), d.currency),
                                {d \in Owing(debts) : d.kind = k})
  IN  (rials("credit") - rials("debt")) \div 10
=============================================================================
