------------------------------- MODULE Photo -------------------------------
(***************************************************************************)
(* From what the model read on a photo to the transactions that will be    *)
(* recorded: `normalize` of bot/llm/vision.py.                             *)
(*                                                                         *)
(* Amounts on a photo are whole numbers; a month is 12 * year + month - 1. *)
(***************************************************************************)
EXTENDS Money, Integers

CONSTANT MaxLines    \* vision.MAX_LINES
ASSUME MaxLinesAssumption == MaxLines \in Nat \ {0}

BankKinds == {"bank_sms", "bank_app"}

\* Rials become tomans, half up; other currencies stay as they are.
Convert(amount, unit) ==
  IF amount # None /\ unit = "rial" THEN (amount + 5) \div 10 ELSE amount

\* The total of the line, or quantity times price, or the price.
LineAmount(item) ==
  IF item.total # None THEN item.total
  ELSE IF item.price # None /\ item.quantity # None THEN item.price * item.quantity
  ELSE item.price

Year(month) == month \div 12

\* resolve_past_month: a month's name means the last such month.
ResolvePastMonth(name, now) ==
  IF name = None THEN None
  ELSE IF name <= now % 12 THEN 12 * Year(now) + name ELSE 12 * (Year(now) - 1) + name

\* Mutant of CaptionPeriod: also the current month is taken.
CaptionPeriodUnchecked(name, now) == ResolvePastMonth(name, now)
CaptionPeriod(name, now) ==
  LET month == ResolvePastMonth(name, now)
  IN  IF month # None /\ month >= now THEN None ELSE month

PastPeriod(month, now) ==
  IF month # None /\ (month >= now \/ Year(month) < Year(now) - 1) THEN None ELSE month

FirstKnown(s) ==
  LET known == {i \in DOMAIN s : s[i] # None}
  IN  IF known = {} THEN None ELSE s[Min(known)]

Deposit(kind, item) == kind \in BankKinds /\ item.direction = "in"
Blank(item) == ~item.title /\ LineAmount(item) = None /\ ~item.raw

\* Mutant of OverLimit: what is beyond the limit is left out without a word.
OverLimitSilently(reading) == reading
OverLimit(reading) == [reading EXCEPT !.dropped = @ + 1]

Line(item, data, now) ==
  [source |-> LineAmount(item), amount |-> Convert(LineAmount(item), data.unit),
   period |-> FirstKnown(<<CaptionPeriod(data.pastMonth, now), PastPeriod(item.month, now),
                           PastPeriod(data.month, now)>>)]

ReadItem(reading, item, data, now) ==
  IF Deposit(data.kind, item) THEN [reading EXCEPT !.deposits = @ + 1]
  ELSE IF Blank(item) THEN reading
  ELSE IF Len(reading.lines) >= MaxLines THEN OverLimit(reading)
  ELSE [reading EXCEPT !.lines = Append(@, Line(item, data, now))]

\* Mutant of Expected: the tax is not taken off.
ExpectedWithTax(data) ==
  IF data.itemsTotal # None THEN data.itemsTotal ELSE data.payable + data.discount
\* What the items should add up to, by the totals that are printed.
Expected(data) ==
  IF data.itemsTotal # None THEN data.itemsTotal ELSE data.payable + data.discount - data.tax

\* Within 0.3 percent of b.
Close(a, b) == 1000 * (IF a > b THEN a - b ELSE b - a) <= 3 * b

CheckTotals(lines, data) ==
  LET amounts == [i \in DOMAIN lines |-> lines[i].source]
      sum == FoldLeft(LAMBDA s, a : s + a, 0, amounts)
  IN  IF lines = <<>> THEN None
      ELSE IF \E i \in DOMAIN lines : amounts[i] = None THEN "unverifiable"
      ELSE IF data.itemsTotal = None /\ data.payable = None THEN None
      ELSE IF \/ Close(sum, Expected(data))
              \/ data.itemsTotal = None /\ Close(sum, data.payable)
           THEN "ok" ELSE "mismatch"

Normalize(data, now) ==
  LET empty == [lines |-> <<>>, deposits |-> 0, dropped |-> 0, check |-> None]
      read == FoldLeft(LAMBDA reading, item : ReadItem(reading, item, data, now),
                       empty, data.items)
  IN  IF data.kind \in {"not_financial", "unreadable"} THEN empty
      ELSE IF data.kind = "receipt"
           THEN [read EXCEPT !.check = CheckTotals(read.lines, data)] ELSE read
=============================================================================
