------------------------------- MODULE Money -------------------------------
(***************************************************************************)
(* Amounts: reading what a user types, writing what a card shows           *)
(* (bot/utils/money.py) and the sums of the reports                        *)
(* (bot/services/reports.py).                                              *)
(*                                                                         *)
(* An amount is a number of hundredths; only what a card is to show may    *)
(* have smaller fractions.  A typed amount is a sequence of                *)
(* groups of digits with a separator between two groups: a "thousands"     *)
(* character, which is always dropped, or a "decimal" character, which may *)
(* stand for either.  The code keeps a fraction in a double, which tells   *)
(* hundredths apart up to ten trillions.                                   *)
(***************************************************************************)
EXTENDS Naturals, Sequences, SequencesExt, FiniteSetsExt

CONSTANT None    \* an amount, a day or a month that is not known

\* The powers of ten.
Ten[k \in Nat] == IF k = 0 THEN 1 ELSE 10 * Ten[k - 1]

\* A group of `len` digits with the value `num`: [num |-> 5, len |-> 3] is 005.
Number(groups) == FoldLeft(LAMBDA n, g : n * Ten[g.len] + g.num, 0, groups)
Digits(groups) == FoldLeft(LAMBDA n, g : n + g.len, 0, groups)

\* Mutant of ParseAmount: any number of digits may follow the point.
ParseAmountGreedy(text) ==
  LET decimal == {i \in DOMAIN text.seps : text.seps[i] = "decimal"}
      point == CHOOSE i \in decimal : TRUE
      frac == SubSeq(text.groups, point + 1, Len(text.groups))
  IN  IF Digits(text.groups) = 0 THEN None
      ELSE IF Cardinality(decimal) = 1 /\ Digits(frac) > 0
           THEN 100 * Number(SubSeq(text.groups, 1, point))
                + (100 * Number(frac)) \div Ten[Digits(frac)]
           ELSE 100 * Number(text.groups)

\* A decimal character is the point only if it is the only one, with one or two
\* digits after it.
ParseAmount(text) ==
  LET decimal == {i \in DOMAIN text.seps : text.seps[i] = "decimal"}
      point == CHOOSE i \in decimal : TRUE
      frac == SubSeq(text.groups, point + 1, Len(text.groups))
  IN  IF Digits(text.groups) = 0 THEN None
      ELSE IF Cardinality(decimal) = 1 /\ Digits(frac) \in 1..2
           THEN 100 * Number(SubSeq(text.groups, 1, point)) + Number(frac) * Ten[2 - Digits(frac)]
           ELSE 100 * Number(text.groups)

\* How many digits a number has.
Width[n \in Nat] == IF n < 10 THEN 1 ELSE 1 + Width[n \div 10]

\* The groups of three of a whole number, the last of which are its last digits.
AndLast(groups, n) == Append(groups, [num |-> n % 1000, len |-> 3])
Grouped[n \in Nat] ==
  IF n < 1000 THEN <<[num |-> n, len |-> Width[n]]>> ELSE AndLast(Grouped[n \div 1000], n)

\* To whole hundredths; halfway to the even one.
Rounded(value, parts) ==
  LET below == value \div parts
      rest == 2 * (value % parts)
  IN  IF rest > parts \/ (rest = parts /\ below % 2 = 1) THEN below + 1 ELSE below

\* `_fmt_number` of an amount of `value` parts, `parts` to the hundredth, with
\* `sep` between the thousands: two decimals unless the amount is whole.
Written(value, parts, sep) ==
  LET cents == Rounded(value, parts)
      groups == Grouped[cents \div 100]
      seps == [i \in 1..Len(groups) - 1 |-> sep]
  IN  IF value % (100 * parts) = 0 THEN [groups |-> groups, seps |-> seps]
      ELSE [groups |-> Append(groups, [num |-> cents % 100, len |-> 2]),
            seps |-> Append(seps, "decimal")]

\* Whole rials; other currencies count apart and a fraction is cut off.
ToRial(value, currency) ==
  IF value = None THEN 0
  ELSE CASE currency = "toman" -> 10 * (value \div 100)
         [] currency = "rial" -> value \div 100
         [] OTHER -> 0

-----------------------------------------------------------------------------
(* A report on a set of confirmed transactions.                            *)

Local(t) == t.currency \in {"toman", "rial"}
RialOf(txns) == MapThenSumSet(LAMBDA t : ToRial(t.amount, t.currency), txns)

\* Mutant of CategoryOf: the expense is counted under every tag.
InEveryCategory(t, cat) == \E i \in DOMAIN t.cats : t.cats[i] = cat
\* An expense counts under its first tag, or as uncategorized.
CategoryOf(t, cat) == IF t.cats = <<>> THEN cat = "none" ELSE cat = t.cats[1]

ByCategory(txns, cat) == RialOf({t \in txns : Local(t) /\ CategoryOf(t, cat)})
ByMember(txns, member) == RialOf({t \in txns : Local(t) /\ t.member = member})
Foreign(txns, cur) ==
  MapThenSumSet(LAMBDA t : t.amount, {t \in txns : t.currency = cur /\ t.amount # None})

BuildReport(txns, cats, members, currencies) ==
  [total |-> RialOf({t \in txns : Local(t)}),
   category |-> [c \in cats |-> ByCategory(txns, c)],
   member |-> [m \in members |-> ByMember(txns, m)],
   foreign |-> [c \in currencies |-> Foreign(txns, c)]]

\* build_detail: the list of one member's transactions, or of everybody's.
DetailTotal(txns, scope) ==
  RialOf(IF scope = "all" THEN txns ELSE {t \in txns : t.member = scope})
=============================================================================
