------------------------------ MODULE MCRules ------------------------------
(* Inputs of the rules for TLC: amounts at and around the tolerances,      *)
(* months at both ends of a year, texts, ledgers and photos of a few rows. *)
EXTENDS Rules

\* Rows of the ledger, some dated the day after their record, and of a new message.
OldRow(id, currencies) ==
  {[id |-> id, amount |-> a, currency |-> c, created |-> d[1], occurred |-> d[2]] :
     a \in {98, 100, 102}, c \in currencies,
     d \in {<<3, None>>, <<4, None>>, <<6, None>>, <<3, 4>>, <<6, 3>>, <<6, 5>>}}
NewRow(id) ==
  {[id |-> id, amount |-> a, currency |-> "toman", created |-> 6, occurred |-> d] :
     a \in {None, 98, 100}, d \in {None, 3, 5}}

Clauses == [len : {1, 2}, brk : {"sentence", "line", "comma"}]

\* Expenses of the report: amounts in hundredths.
ExpenseOf(id) ==
  [id : {id}, amount : {50, 1999, 20000}, currency : {"toman", "rial", "usd"},
   cats : {<<>>, <<"a">>, <<"b", "a">>}, member : {"m1", "m2"}]

\* A debt or a credit: unpaid, in part, overpaid; with and without an amount or a party.
DebtOf(id) ==
  [id : {id}, kind : {"debt", "credit"}, amount : {None, 0, 10000, 25050},
   paid : {0, 5050, 10000, 30000}, currency : {"toman", "rial"}, party : BOOLEAN]

\* A row of the household: of today or older, complete or not, to be asked about
\* later or not; an incomplete row is a draft, a complete one may still be.
BookRowOf(id) ==
  {r \in [id : {id}, day : {5, 6}, status : {"draft", "confirmed"}, complete : BOOLEAN,
          later : BOOLEAN, reminded : {id = 3}, user : {"m1", "m2"}] :
     r.complete \/ r.status = "draft"}

\* What the model reads of one line of a photo.
Item(direction, total, quantity, price, title) ==
  [direction |-> direction, total |-> total, quantity |-> quantity, price |-> price,
   title |-> title, raw |-> FALSE, month |-> None]
Items ==
  {Item("out", 1000, None, None, TRUE), Item("out", 4, None, None, FALSE),
   Item("out", None, 2, 500, TRUE), Item("out", None, None, None, TRUE),
   Item("out", None, None, None, FALSE), Item("in", 700, None, None, TRUE)}

\* A receipt whose printed totals also count `missed`, what the model did not see.
Receipt(items, unit, printed, missed, discount, tax) ==
  LET sum == Worth(items) + missed IN
  [kind |-> "receipt", unit |-> unit, items |-> items, missed |-> missed,
   itemsTotal |-> IF printed \in {"items", "both"} THEN sum ELSE None,
   payable |-> IF printed \in {"payable", "both"} THEN sum + tax - discount ELSE None,
   discount |-> discount, tax |-> tax, pastMonth |-> None, month |-> None]
Plain(kind, items, past, month) ==
  [kind |-> kind, unit |-> "rial", items |-> items, missed |-> 0, itemsTotal |-> None,
   payable |-> None, discount |-> 0, tax |-> 0, pastMonth |-> past, month |-> month]

\* Month 12 * 1405 is the first of 1405.
Now == {12 * 1405, 12 * 1405 + 6, 12 * 1405 + 11}
Shifts == {None, -20, -12, -1, 0, 1}
Shifted(now, months) == IF months = None THEN None ELSE now + months

FlagInputs ==
  {[rule |-> "flag", ledger |-> {a, b}, news |-> {c, d}] :
     a \in OldRow(1, {"toman"}), b \in OldRow(2, {"toman", "usd"}), c \in NewRow(3),
     d \in NewRow(4)}
Rows(most) == UNION {[1..n -> Items] : n \in 0..most}
ReceiptInputs ==
  {[rule |-> "read", now |-> 12 * 1405,
    data |-> Receipt(p.items, p.unit, p.printed, p.missed, p.discount, p.tax)] :
     p \in {q \in [items : Rows(3), unit : {"rial", "toman"}, missed : {0, 3, 500},
                   printed : {"items", "payable", "both", "none"}, discount : {0, 100},
                   tax : {0, 50}] :
            /\ q.printed \in {"items", "none"} => q.discount + q.tax = 0
            /\ q.discount <= Worth(q.items)}}
PlainInputs ==
  {[rule |-> "read", now |-> 12 * 1405, data |-> Plain(kind, items, None, None)] :
     kind \in {"bank_sms", "payment_slip", "unreadable"}, items \in Rows(3)}
MonthInputs ==
  {[rule |-> "read", now |-> now,
    data |-> Plain("bank_sms",
      <<[Item("out", 4, None, None, FALSE) EXCEPT !.month = Shifted(now, day)]>>,
      past, Shifted(now, month))] :
     now \in Now, past \in 0..11 \cup {None}, month \in Shifts, day \in Shifts}
AmountInputs ==
  {i \in [rule : {"amount"}, sep : {"thousands", "decimal"}, parts : {1, 8},
          value : {0, 1, 3, 4, 12, 50, 100, 1999, 8000, 8001, 10000, 79996, 99900, 100000,
                   100050, 1234500, 79999999, 100500000}] :
     i.sep = "thousands" \/ i.value % (100 * i.parts) = 0}
ReportInputs ==
  {[rule |-> "report", txns |-> {a, b}] : a \in ExpenseOf(1), b \in ExpenseOf(2)}
QuestionInputs ==
  {[rule |-> "question", txns |-> {a, b}, rates |-> [c \in priced |-> 90]] :
     a \in ExpenseOf(1), b \in ExpenseOf(2), priced \in SUBSET {"usd"}}
BalanceInputs ==
  {[rule |-> "balance", debts |-> {a, b}] : a \in DebtOf(1), b \in DebtOf(2)}
BookInputs ==
  {[rule |-> "ledger", today |-> 6, rows |-> {a, b, c}, debts |-> {}] :
     a \in BookRowOf(1), b \in BookRowOf(2), c \in BookRowOf(3)}
OpenInputs ==
  {[rule |-> "ledger", today |-> 6, rows |-> {}, debts |-> {a, b}] :
     a \in DebtOf(1), b \in DebtOf(2)}
BasketInputs ==
  {[rule |-> "basket", ledger |-> {a, b}, totals |-> {sum, payable}, day |-> day, batch |-> own] :
     a \in OldRow(1, {"toman"}), b \in OldRow(2, {"toman", "usd"}), day \in {3, 6},
     sum \in {98, 101, 200}, payable \in {None, 0, 100}, own \in {{}, {2}}}
LimitInputs ==
  {[rule |-> "limit", times |-> times] :
     times \in {t \in [1..5 -> 0..4] : \A i \in 1..4 : t[i] <= t[i + 1]}}
Texts == UNION {[1..n -> Clauses] : n \in 1..4}
SplitInputs ==
  {[rule |-> "split", text |-> p.text,
    answer |-> IF p.i = 0 THEN <<>> ELSE <<SubSeq(p.text, 1, p.i), SubSeq(p.text, p.i + 1, p.j)>>] :
     p \in {q \in [text : Texts, i : 0..4, j : 0..4] :
            q.i <= Len(q.text) /\ q.j <= Len(q.text)}}
Bank == {<<>>, <<50>>, <<85>>, <<90>>, <<100>>, <<50, 90>>, <<90, 85>>}
TagsInputs ==
  {[rule |-> "tags", scores |-> <<a, b>>] :
     a \in [1..3 -> Bank], b \in [1..3 -> {<<50>>, <<85, 100>>}]}

MCInputs ==
  [flag |-> FlagInputs, receipt |-> ReceiptInputs, plain |-> PlainInputs, month |-> MonthInputs,
   amount |-> AmountInputs, report |-> ReportInputs,
   question |-> QuestionInputs, balance |-> BalanceInputs, book |-> BookInputs, open |-> OpenInputs,
   basket |-> BasketInputs, limit |-> LimitInputs, split |-> SplitInputs, tags |-> TagsInputs]
=============================================================================
