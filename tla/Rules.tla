-------------------------------- MODULE Rules --------------------------------
(***************************************************************************)
(* The rules that work on data alone, and what each of them promises: Init *)
(* chooses an input, one step applies the rule it is for.  Inputs are any  *)
(* sets of well-formed inputs, by kind; the proofs hold for all of them,   *)
(* TLC takes small ones (MCRules).                                         *)
(***************************************************************************)
EXTENDS LedgerView, Duplicates, Photo, RateLimit, Splitter, Tags

CONSTANTS
  Inputs,    \* by kind, what the rules are applied to
  Tag,       \* the tags of expenses; "none" stands for no tag
  Member,    \* the members of a household; "all" stands for all of them
  ForeignCurrency    \* currencies other than the toman and the rial

ASSUME NamesAssumption ==
  /\ IsFiniteSet(Tag) /\ "none" \notin Tag
  /\ IsFiniteSet(Member) /\ "all" \notin Member
  /\ IsFiniteSet(ForeignCurrency) /\ ForeignCurrency \cap {"toman", "rial"} = {}
  /\ None \notin Nat \cup {"ok", "mismatch"}

VARIABLES input, output

vars == <<input, output>>
-----------------------------------------------------------------------------
(* Well-formed inputs: what the callers of each rule hand to it.           *)

Currency == {"toman", "rial"} \cup ForeignCurrency
OrNone(S) == S \cup {None}

\* Rows have ids of their own, in the order of recording.
Keyed(rows) == IsFiniteSet(rows) /\ \A r, s \in rows : r.id = s.id => r = s

\* Rows of the ledger; a photo may date its row one day after its record.
Row == [id : Nat, amount : OrNone(Nat), currency : Currency, created : Nat, occurred : OrNone(Nat)]
ASSUME NoRowAssumption == None \notin Row

FlagInput(i) ==
  /\ i.rule = "flag"
  /\ i.ledger \in SUBSET Row /\ i.news \in SUBSET Row /\ Keyed(i.ledger \cup i.news)
  /\ i.ledger \cap i.news = {}
  /\ \A r \in i.ledger : r.occurred # None => r.occurred <= r.created + 1
BasketInput(i) ==
  /\ i.rule = "basket"
  /\ i.ledger \in SUBSET Row /\ Keyed(i.ledger)
  /\ \A r \in i.ledger : r.occurred # None => r.occurred <= r.created + 1
  /\ i.totals \in SUBSET OrNone(Nat) /\ IsFiniteSet(i.totals)
  /\ i.day \in Nat /\ i.batch \in SUBSET Nat

\* What the model reads of a photo.  The totals a receipt prints also count
\* `missed`, what the model did not see of it.
ItemRead ==
  [direction : {"in", "out"}, total : OrNone(Nat), quantity : OrNone(Nat), price : OrNone(Nat),
   title : BOOLEAN, raw : BOOLEAN, month : OrNone(Nat)]
Worth(items) ==
  FoldLeft(LAMBDA n, i : IF LineAmount(i) = None THEN n ELSE n + LineAmount(i), 0, items)
PhotoRead ==
  [kind : {"receipt", "bank_sms", "bank_app", "payment_slip", "not_financial", "unreadable"},
   unit : {"toman", "rial"}, items : Seq(ItemRead), missed : Nat,
   itemsTotal : OrNone(Nat), payable : OrNone(Nat), discount : Nat, tax : Nat,
   pastMonth : OrNone(0..11), month : OrNone(Nat)]
ReadInput(i) ==
  /\ i.rule = "read" /\ i.now \in Nat /\ i.now >= 12
  /\ i.data \in PhotoRead
  /\ i.data.kind = "receipt" =>
       LET sum == Worth(i.data.items) + i.data.missed
       IN  /\ i.data.itemsTotal \in {None, sum}
           /\ i.data.payable \in {None, sum + i.data.tax - i.data.discount}

\* An amount with any fraction: `value` parts, of which `parts` make a hundredth.
AmountInput(i) ==
  /\ i.rule = "amount" /\ i.value \in Nat /\ i.parts \in Nat \ {0}
  /\ i.sep \in {"thousands", "decimal"}
  /\ i.sep = "thousands" \/ i.value % (100 * i.parts) = 0

Expense == [id : Nat, amount : OrNone(Nat), currency : Currency, cats : Seq(Tag), member : Member]
Expenses(txns) == txns \in SUBSET Expense /\ IsFiniteSet(txns)
ReportInput(i) == i.rule = "report" /\ Expenses(i.txns)
QuestionInput(i) ==
  /\ i.rule = "question" /\ Expenses(i.txns)
  /\ DOMAIN i.rates \subseteq ForeignCurrency /\ \A c \in DOMAIN i.rates : i.rates[c] \in Nat

\* A debt or a credit: unpaid, in part, overpaid; with and without an amount or a party.
Debt ==
  [id : Nat, kind : {"debt", "credit"}, amount : OrNone(Nat), paid : Nat, currency : Currency,
   party : BOOLEAN]
Debts(debts) == debts \in SUBSET Debt /\ Keyed(debts)
BalanceInput(i) == i.rule = "balance" /\ Debts(i.debts)

\* A row of the household, complete or not, to be asked about later or not; an
\* incomplete row is a draft, a complete one may still be.
BookRow ==
  {r \in [id : Nat, day : Nat, status : {"draft", "confirmed"}, complete : BOOLEAN,
          later : BOOLEAN, reminded : BOOLEAN, user : Member] : r.complete \/ r.status = "draft"}
LedgerInput(i) ==
  /\ i.rule = "ledger" /\ i.today \in Nat
  /\ i.rows \in SUBSET BookRow /\ Keyed(i.rows) /\ Debts(i.debts)

\* The clock does not go back.
LimitInput(i) ==
  /\ i.rule = "limit" /\ i.times \in Seq(Nat)
  /\ \A m, n \in DOMAIN i.times : m <= n => i.times[m] <= i.times[n]

Clause == [len : Nat, brk : {"sentence", "line", "comma"}]
SplitInput(i) == i.rule = "split" /\ i.text \in Seq(Clause) /\ i.answer \in Seq(Seq(Clause))

\* Each suggestion has a score, in percent, for each name of each tag.
TagsInput(i) == i.rule = "tags" /\ i.scores \in Seq(Seq(Seq(0..100)))

WellFormed(i) ==
  \/ FlagInput(i) \/ BasketInput(i) \/ ReadInput(i) \/ AmountInput(i) \/ ReportInput(i)
  \/ QuestionInput(i) \/ BalanceInput(i) \/ LedgerInput(i) \/ LimitInput(i) \/ SplitInput(i)
  \/ TagsInput(i)

ASSUME InputsAssumption == \A kind \in DOMAIN Inputs : \A i \in Inputs[kind] : WellFormed(i)
-----------------------------------------------------------------------------
Init == output = None /\ \E kind \in DOMAIN Inputs : input \in Inputs[kind]

Apply(rule, result) ==
  /\ input.rule = rule /\ output = None
  /\ output' = result
  /\ UNCHANGED input

Flag == Apply("flag", FlagNew(input.ledger, input.news))
Read == Apply("read", Normalize(input.data, input.now))
Amount == Apply("amount", ParseAmount(Written(input.value, input.parts, input.sep)))
Report ==
  Apply("report", BuildReport(input.txns, Tag \cup {"none"}, Member, ForeignCurrency))
Question ==
  /\ input.rule = "question"
  /\ \E total \in GrandTotals(input.txns, input.rates) :
       Apply("question", [total |-> total, summary |-> Summary(input.txns, Tag \cup {"none"})])
Balance ==
  /\ input.rule = "balance"
  /\ \E short \in SUBSET Frayed(input.debts) :
       Apply("balance", [open |-> Totals(input.debts), net |-> NetToman(input.debts, short)])
Ledger ==
  Apply("ledger", [view |-> Snapshot(input.rows, input.debts, input.today),
                   asked |-> [u \in Member |-> PendingForReminder(input.rows, u)]])
Basket ==
  Apply("basket", [match |-> ReceiptTotalMatch(input.ledger, input.totals, input.day, input.batch)])
Limit == Apply("limit", Answers(input.times))
Split == Apply("split", SplitText(input.text, DecideParts(input.text), input.answer))
Match == Apply("tags", Reconcile(input.scores))

Next ==
  Flag \/ Read \/ Amount \/ Report \/ Question \/ Balance \/ Ledger \/ Basket \/ Limit \/ Split
  \/ Match

Spec == Init /\ [][Next]_vars

Done(rule) == output # None /\ input.rule = rule
-----------------------------------------------------------------------------
(* Properties.                                                             *)

\* The one row that the part of the ledger that is read leaves out: dated the day
\* after its record and exactly a window before the first of the new rows.
LeftOut(r, days) ==
  r.occurred # None /\ r.occurred = r.created + 1 /\ r.occurred + WindowDays = Min(days)

\* No double goes unnoticed and none is flagged in vain: neither for the part of
\* the ledger that is read (duplicates.py:95-100), but for the row above, nor for
\* the order in which the rows are paired.  An old expense makes one new row its
\* double, of two taxis only the one (20-21); a new row stays unflagged only if
\* all it may repeat is taken.
RowsAreFound ==
  Done("flag") =>
    /\ \A i, j \in DOMAIN output : i # j => output[i] # output[j]
    /\ \A i \in DOMAIN output : \E t \in input.news, r \in input.ledger :
         t.id = i /\ r.id = output[i] /\ Matches(t, r)
    /\ \A t \in input.news : t.id \notin DOMAIN output =>
         \A r \in input.ledger : Matches(t, r) =>
           \/ \E i \in DOMAIN output : output[i] = r.id
           \/ LeftOut(r, {EffectiveDate(n) : n \in input.news})

\* A receipt that was said before as one amount is noticed by whichever of its
\* totals, and never mistaken for its own lines (duplicates.py:146-157).
ReceiptIsFound ==
  Done("basket") =>
    LET others == {r \in input.ledger : r.id \notin input.batch}
        alike(r) == \E t \in input.totals :
                      /\ r.currency = "toman" /\ AmountsClose(t, r.amount)
                      /\ Distance(input.day, EffectiveDate(r)) <= WindowDays
    IN  IF output.match = None THEN \A r \in others : alike(r) => LeftOut(r, {input.day})
        ELSE output.match \in others /\ alike(output.match)

\* Neither a row nor a whole receipt is a double unnoticed, or flagged in vain.
DoublesAreFound == RowsAreFound /\ ReceiptIsFound

\* Every spending of a photo is recorded, or the user is told that it was cut
\* off: none is taken for a deposit or for an empty line (vision.py:294-309).
SpendingIsKept ==
  Done("read") /\ input.data.kind \notin {"unreadable", "not_financial"} =>
    LET items == input.data.items
        spent == {n \in DOMAIN items :
                    /\ input.data.kind \in {"bank_sms", "bank_app"} => items[n].direction = "out"
                    /\ items[n].title \/ items[n].raw \/ LineAmount(items[n]) # None}
        place(n) == Cardinality({m \in spent : m <= n})
    IN  /\ Len(output.lines) + output.dropped = Cardinality(spent)
        /\ \A n \in spent : place(n) <= Len(output.lines) =>
             output.lines[place(n)].source = LineAmount(items[n])

\* The guard of "a line was missed": whatever totals a receipt prints, it raises
\* no alarm when everything was read, and "ok" means that nothing of weight is
\* missing, or that it weighs as much as discount and tax (vision.py:328-364).
TotalsTellTheTruth ==
  Done("read") /\ input.data.kind = "receipt" /\ output.check \in {"ok", "mismatch"} =>
    LET sum == Worth(input.data.items) + input.data.missed
        read == FoldLeft(LAMBDA n, l : n + l.source, 0, output.lines)
    IN  /\ read = sum => output.check = "ok"
        /\ output.check = "ok" =>
             \/ 1000 * (sum - read) <= 3 * sum
             \/ input.data.payable # None /\ Close(read, input.data.payable)

\* An expense is put into another month only if that month is over, and not
\* before last year: neither a caption that names the running month nor a date
\* in the future moves it (vision.py:282-285, 239-247, jalali.py:80-89).
PeriodIsPast ==
  Done("read") => \A n \in DOMAIN output.lines :
    LET month == output.lines[n].period IN
    month # None => month < input.now /\ Year(month) >= Year(input.now) - 1

\* What a card shows, typed back, is the amount up to half a hundredth, so that
\* whole amounts and hundredths come back as they are, and dots between thousands
\* are no decimal point (money.py:55-59).  Smaller fractions, of which a card
\* shows 0.00, are lost.
AmountsRoundTrip ==
  Done("amount") => 2 * Distance(input.parts * output, input.value) <= input.parts

\* The parts of the report add up: by category and by member to the same total,
\* which is the total of the list, of everybody and of the members together;
\* a transaction loses less than one unit (reports.py:61-77, 199-212).
ReportAddsUp ==
  Done("report") =>
    LET total(f) == MapThenSumSet(LAMBDA k : f[k], DOMAIN f)
        local == {t \in input.txns : Local(t) /\ t.amount # None}
        exact == MapThenSumSet(LAMBDA t : IF t.currency = "toman" THEN 10 * t.amount ELSE t.amount,
                               local)
    IN  /\ total(output.category) = output.total /\ total(output.member) = output.total
        /\ DetailTotal(input.txns, "all") = output.total
        /\ total([m \in Member |-> DetailTotal(input.txns, m)]) = output.total
        /\ 100 * output.total <= exact
        /\ local # {} => exact < 100 * output.total + 1000 * Cardinality(local)

\* What the assistant answers agrees with the report and with the books.  Its
\* total is the report's but for what the report cuts off and for the one toman
\* that a sum of fractions may be short of, a list by category holds at least what
\* the report counts there, and no total is given when a currency has no rate
\* (tools.py:292-312, reports.py:61-77).
TotalsAgree ==
  Done("question") =>
    LET report == BuildReport(input.txns, Tag \cup {"none"}, Member, ForeignCurrency)
        priced == {t \in input.txns : t.amount # None}
        \* in thousandths of a toman
        changed == MapThenSumSet(LAMBDA c : 10 * input.rates[c] * report.foreign[c],
                                 DOMAIN input.rates)
        reported == 100 * report.total + changed
    IN  /\ output.total = None <=>
             \E t \in priced : t.currency \in ForeignCurrency \ DOMAIN input.rates
        /\ output.total # None =>
             /\ \/ reported \div 1000 <= output.total
                \/ reported = 1000 * (output.total + 1) /\ \E t \in priced : Fractional(t)
             /\ 1000 * output.total <= reported + 1000 * Cardinality(priced)
        /\ \A c \in Tag \cup {"none"} :
             RialOf(FilterByCategory(input.txns, c, {})) >= report.category[c]

\* What is paid, even too much of it, lowers no other debt, and the balance is
\* short of at most a unit for each fraction (debts.py:164-186).
BalanceAgrees ==
  Done("balance") =>
    LET rest(d) == IF d.amount = None \/ d.paid >= d.amount THEN 0 ELSE d.amount - d.paid
        rests(k, c) == MapThenSumSet(rest, {d \in input.debts : d.kind = k /\ d.currency = c})
        exact == 10 * (rests("credit", "toman") - rests("debt", "toman"))
                 + rests("credit", "rial") - rests("debt", "rial")
        broken(k) == {d \in input.debts : d.kind = k /\ Local(d) /\ rest(d) > 0
                                            /\ (d.amount % 100 # 0 \/ d.paid % 100 # 0)}
    IN  /\ \A k \in {"debt", "credit"}, c \in Currency :
             rests(k, c) = IF c \in DOMAIN output.open[k] THEN output.open[k][c] ELSE 0
        /\ 1000 * output.net <= exact + 1000 * Cardinality(broken("debt"))
        /\ exact < 1000 * (output.net + 1 + Cardinality(broken("credit")))

\* A row or a debt with a rest is left out of the picture only for newer ones,
\* as many as the picture holds, never for its status (repo.py:968-969); of
\* today's rows it is said how many are left out.
PictureAgrees ==
  Done("ledger") =>
    LET view == output.view
        done == {r \in input.rows : r.status = "confirmed" /\ r.day = input.today}
        owing == {d \in input.debts : d.amount # None /\ d.amount > d.paid}
        crowded(r, seen, n) == Cardinality({s \in seen : s.id > r.id}) = n
    IN  /\ Cardinality(view.today) + view.more = Cardinality(done)
        /\ \A r \in done \ view.today : crowded(r, view.today, MaxToday)
        /\ \A r \in UNION {output.asked[u] : u \in Member} :
             ~r.complete => r \in view.drafts \/ crowded(r, view.drafts, MaxDrafts)
        /\ \A d \in owing :
             \/ d \in DOMAIN view.rests /\ view.rests[d] = d.amount - d.paid
             \/ crowded(d, DOMAIN view.rests, MaxDebts)

\* The answers, the balance and the picture of the ledger agree with the books.
AnswersAgree == TotalsAgree /\ BalanceAgrees /\ PictureAgrees

\* No window lets more requests through than allowed, not even with requests
\* exactly a window apart, and none is refused while there is room
\* (ratelimit.py:14-20).
WindowIsBounded ==
  Done("limit") => \A i \in DOMAIN input.times :
    LET before == {j \in 1..i - 1 : output[j] /\ input.times[j] + WindowSeconds >= input.times[i]}
    IN  output[i] <=> Cardinality(before) < MaxHits

\* A long message is cut into at most as many parts as decided; without a good
\* answer of the model nothing of it is lost, and with one not more than a fifth
\* (splitter.py:35-72).
SplitKeepsAll ==
  Done("split") /\ DecideParts(input.text) > 0 =>
    /\ Len(output) \in 1..DecideParts(input.text)
    /\ output # input.answer => FlattenSeq(output) = input.text
    /\ 10 * NormLen(FlattenSeq(output)) >= 8 * NormLen(input.text)

\* A suggestion gets the first of the tags that it resembles most, by whichever
\* of their names, or it is left to the admin: neither the order of tags and names
\* nor the end of the search passes over a better tag (tags.py:52-70).
BestTagIsApplied ==
  Done("tags") =>
    /\ \A s \in DOMAIN input.scores :
         LET scores == input.scores[s]
             beats(i, x) == \E k \in DOMAIN scores[i] : scores[i][k] > x
             reaches(i, x) == \E k \in DOMAIN scores[i] : scores[i][k] >= x
             best(i) == \A j \in DOMAIN scores : \A k \in DOMAIN scores[j] :
                          IF j < i THEN beats(i, scores[j][k]) ELSE reaches(i, scores[j][k])
         IN  IF \E i \in DOMAIN scores : reaches(i, Threshold)
             THEN \E i \in DOMAIN scores : best(i) /\ Contains(output.matched, i)
             ELSE Contains(output.unmatched, scores)
    /\ Len(output.matched) + Len(output.unmatched) <= Len(input.scores)
    /\ \A i, j \in DOMAIN output.matched : i # j => output.matched[i] # output.matched[j]
=============================================================================
