---------------------------- MODULE RecordsProofs ----------------------------
(***************************************************************************)
(* Proofs about Records: for any number of rows, parties, amounts and      *)
(* questions, a row's status tells whether it is complete and paid, nobody *)
(* is reminded twice, and an answered question is entered once.            *)
(***************************************************************************)
EXTENDS Records, TLAPS

\* A debt as a handler writes it, before the bound on what is settled.
LooseDebt == [status: {"draft", "open", "settled"}, amount: Amount \cup {None},
              settled: Nat, party: Party \cup {None}]

TxnTrue ==
  \A t \in Txn : txn[t] # None /\ <<"txn", t>> \notin torn =>
    txn[t].status = TxnStatus(txn[t].amount, txn[t].title)
DebtTrue ==
  \A d \in Debt : debt[d] # None /\ <<"debt", d>> \notin torn =>
    debt[d].status = DebtStatus(debt[d])
Sound == TypeOK /\ TxnTrue /\ DebtTrue

LEMMA AmountsAreNat == Amount \subseteq Nat /\ MaxSettled \in Nat /\ MaxTxn \in Nat /\ MaxDebt \in Nat
BY AmountAssumption, BoundAssumption

-----------------------------------------------------------------------------
(* The commits.                                                            *)

LEMMA WriteTxnSound ==
  ASSUME Sound, NEW t \in Txn, txn[t] # None, NEW amount \in BOOLEAN, NEW title \in BOOLEAN,
         NEW next \in Edit \cup {None}, WriteTxn(t, amount, title, next)
  PROVE  Sound'
<1> DEFINE row == [txn[t] EXCEPT !.amount = amount, !.title = title]
<1>1. txn[t] \in TxnRow
  BY DEF Sound, TypeOK
<1>2. row \in TxnRow /\ row.amount = amount /\ row.title = title
  BY <1>1 DEF TxnRow
<1>3. UNCHANGED <<lastTxn, debt, lastDebt, clar, made, reminders, doubtful>>
  BY DEF WriteTxn
<1> HIDE DEF row
<1>4. CASE /\ txn' = [txn EXCEPT ![t] = SyncTxn(row)] /\ Whole("txn", t) /\ edit' = next
  <2>1. SyncTxn(row) \in TxnRow
    BY <1>2 DEF SyncTxn, TxnStatus, TxnRow
  <2>2. SyncTxn(row).status = TxnStatus(SyncTxn(row).amount, SyncTxn(row).title)
    BY <1>2 DEF SyncTxn, TxnRow
  <2>3. torn' \in SUBSET Piece /\ torn' = torn \ {<<"txn", t>>}
    BY <1>4 DEF Whole, Sound, TypeOK
  <2>4. TypeOK'
    BY <1>3, <1>4, <2>1, <2>3 DEF Whole, Sound, TypeOK
  <2>5. TxnTrue'
    <3> SUFFICES ASSUME NEW s \in Txn, txn'[s] # None, <<"txn", s>> \notin torn'
                 PROVE  txn'[s].status = TxnStatus(txn'[s].amount, txn'[s].title)
      BY DEF TxnTrue
    <3>1. CASE s = t
      BY <1>4, <2>2, <3>1 DEF Sound, TypeOK
    <3>2. CASE s # t
      <4>1. txn'[s] = txn[s] /\ <<"txn", s>> \notin torn
        BY <1>4, <2>3, <3>2 DEF Sound, TypeOK
      <4> QED BY <4>1 DEF Sound, TxnTrue
    <3> QED BY <3>1, <3>2
  <2>6. DebtTrue'
    BY <1>3, <2>3 DEF Sound, DebtTrue
  <2> QED BY <2>4, <2>5, <2>6 DEF Sound
<1>5. CASE /\ txn' = [txn EXCEPT ![t] = row] /\ Cut("txn", t)
  <2>1. torn' \in SUBSET Piece /\ torn' = torn \cup {<<"txn", t>>}
    BY <1>5 DEF Cut, Sound, TypeOK, Piece
  <2>2. TypeOK'
    <3>1. txn' \in [Txn -> TxnRow \cup {None}]
      BY <1>2, <1>5 DEF Sound, TypeOK
    <3>2. edit' = None /\ listed' = None
      BY <1>5 DEF Cut
    <3> QED BY <1>3, <2>1, <3>1, <3>2 DEF Sound, TypeOK
  <2>3. TxnTrue'
    <3> SUFFICES ASSUME NEW s \in Txn, txn'[s] # None, <<"txn", s>> \notin torn'
                 PROVE  txn'[s].status = TxnStatus(txn'[s].amount, txn'[s].title)
      BY DEF TxnTrue
    <3>1. s # t /\ <<"txn", s>> \notin torn
      BY <2>1
    <3>2. txn'[s] = txn[s]
      BY <1>5, <3>1 DEF Sound, TypeOK
    <3> QED BY <3>1, <3>2 DEF Sound, TxnTrue
  <2>4. DebtTrue'
    BY <1>3, <2>1 DEF Sound, DebtTrue
  <2> QED BY <2>2, <2>3, <2>4 DEF Sound
<1> QED BY <1>4, <1>5 DEF WriteTxn, row

LEMMA InsertTxnSound ==
  ASSUME Sound, NEW amount \in BOOLEAN, NEW title \in BOOLEAN, NEW later \in BOOLEAN,
         InsertTxn(amount, title, later), UNCHANGED torn
  PROVE  /\ txn' \in [Txn -> TxnRow \cup {None}] /\ lastTxn' \in 0..MaxTxn
         /\ TxnTrue'
         /\ lastTxn' = lastTxn + 1
         /\ \A t \in Txn : t # lastTxn + 1 => txn'[t] = txn[t]
<1> DEFINE row == [status |-> TxnStatus(amount, title), amount |-> amount, title |-> title,
                   later |-> later, reminded |-> FALSE]
<1>1. row \in TxnRow /\ row.status = TxnStatus(row.amount, row.title)
  BY DEF TxnRow, TxnStatus
<1>2. /\ lastTxn + 1 \in Txn /\ lastTxn' = lastTxn + 1 /\ lastTxn' \in 0..MaxTxn
      /\ txn' = [txn EXCEPT ![lastTxn + 1] = row]
  BY AmountsAreNat DEF InsertTxn, Sound, TypeOK, Txn
<1> HIDE DEF row
<1>3. \A t \in Txn : txn'[t] = IF t = lastTxn + 1 THEN row ELSE txn[t]
  BY <1>2 DEF Sound, TypeOK
<1>4. txn' \in [Txn -> TxnRow \cup {None}]
  BY <1>1, <1>2 DEF Sound, TypeOK
<1>5. TxnTrue'
  BY <1>1, <1>3 DEF Sound, TxnTrue
<1> QED BY <1>2, <1>3, <1>4, <1>5

\* What a write to the table of debts keeps, whatever else its handler does.
DebtKept ==
  /\ debt' \in [Debt -> DebtRow \cup {None}] /\ lastDebt' \in 0..MaxDebt
  /\ torn' \in SUBSET Piece /\ edit' \in Edit \cup {None}
  /\ listed' \in (SUBSET Txn) \cup {None} /\ listed' \in {listed, None}
  /\ \A t \in Txn : <<"txn", t>> \in torn' <=> <<"txn", t>> \in torn
  /\ \A c \in Clar : <<"clar", c>> \in torn' <=> <<"clar", c>> \in torn
  /\ DebtTrue'

LEMMA PutDebtKept ==
  ASSUME Sound, NEW d \in Debt, NEW row \in LooseDebt,
         NEW next \in Edit \cup {None}, PutDebt(d, row, next)
  PROVE  DebtKept
<1>1. row \in DebtRow
  BY AmountsAreNat DEF PutDebt, LooseDebt, DebtRow
<1>2. lastDebt' \in 0..MaxDebt
  BY DEF PutDebt, Sound, TypeOK
<1>3. CASE debt' = [debt EXCEPT ![d] = SyncDebt(row)] /\ Whole("debt", d) /\ edit' = next
  <2>1. SyncDebt(row) \in DebtRow
    BY <1>1 DEF SyncDebt, DebtStatus, DebtRow
  <2>2. SyncDebt(row).status = DebtStatus(SyncDebt(row))
    <3>1. /\ SyncDebt(row).amount = row.amount /\ SyncDebt(row).party = row.party
          /\ SyncDebt(row).settled = row.settled /\ SyncDebt(row).status = DebtStatus(row)
      BY <1>1 DEF SyncDebt, DebtRow
    <3> QED BY <3>1 DEF DebtStatus
  <2>3. torn' \in SUBSET Piece /\ torn' = torn \ {<<"debt", d>>} /\ listed' = listed
    BY <1>3 DEF Whole, Sound, TypeOK
  <2>4. debt' \in [Debt -> DebtRow \cup {None}]
    BY <1>3, <2>1 DEF Sound, TypeOK
  <2>5. DebtTrue'
    <3> SUFFICES ASSUME NEW e \in Debt, debt'[e] # None, <<"debt", e>> \notin torn'
                 PROVE  debt'[e].status = DebtStatus(debt'[e])
      BY DEF DebtTrue
    <3>1. CASE e = d
      BY <1>3, <2>2, <3>1 DEF Sound, TypeOK
    <3>2. CASE e # d
      <4>1. debt'[e] = debt[e] /\ <<"debt", e>> \notin torn
        BY <1>3, <2>3, <3>2 DEF Sound, TypeOK
      <4> QED BY <4>1 DEF Sound, DebtTrue
    <3> QED BY <3>1, <3>2
  <2> QED BY <1>2, <1>3, <2>3, <2>4, <2>5 DEF DebtKept, Sound, TypeOK
<1>4. CASE debt' = [debt EXCEPT ![d] = row] /\ Cut("debt", d)
  <2>1. torn' \in SUBSET Piece /\ torn' = torn \cup {<<"debt", d>>}
    BY <1>4 DEF Cut, Sound, TypeOK, Piece
  <2>2. debt' \in [Debt -> DebtRow \cup {None}] /\ edit' = None /\ listed' = None
    BY <1>1, <1>4 DEF Cut, Sound, TypeOK
  <2>3. DebtTrue'
    <3> SUFFICES ASSUME NEW e \in Debt, debt'[e] # None, <<"debt", e>> \notin torn'
                 PROVE  debt'[e].status = DebtStatus(debt'[e])
      BY DEF DebtTrue
    <3>1. e # d /\ <<"debt", e>> \notin torn
      BY <2>1
    <3>2. debt'[e] = debt[e]
      BY <1>4, <3>1 DEF Sound, TypeOK
    <3> QED BY <3>1, <3>2 DEF Sound, DebtTrue
  <2> QED BY <1>2, <2>1, <2>2, <2>3 DEF DebtKept
<1> QED BY <1>3, <1>4 DEF PutDebt

LEMMA KeptSound ==
  ASSUME Sound, DebtKept, UNCHANGED <<txn, lastTxn>>,
         clar' \in [Clar -> {"absent", "asked", "answered"}], made' \in [Clar -> 0..2],
         reminders' \in [Txn -> 0..2], doubtful' \in SUBSET Txn
  PROVE  Sound'
<1>1. TxnTrue'
  BY DEF DebtKept, Sound, TxnTrue
<1> QED BY <1>1 DEF DebtKept, Sound, TypeOK

LEMMA WriteDebtSound ==
  ASSUME Sound, NEW d \in Debt, NEW row \in LooseDebt,
         NEW next \in Edit \cup {None}, WriteDebt(d, row, next)
  PROVE  Sound'
<1>1. DebtKept
  BY PutDebtKept DEF WriteDebt
<1>2. UNCHANGED <<txn, lastTxn, clar, made, reminders, doubtful>>
  BY DEF WriteDebt
<1> QED BY <1>1, <1>2, KeptSound DEF Sound, TypeOK

LEMMA AppliedIsLoose ==
  ASSUME Sound, NEW d \in Debt, debt[d] # None,
         NEW amount \in Amount \cup {None}, NEW party \in Party \cup {None},
         NEW flag \in BOOLEAN, NEW sum \in Amount \cup {None}
  PROVE  Applied(d, amount, party, flag, sum) \in LooseDebt
<1>1. debt[d] \in DebtRow
  BY DEF Sound, TypeOK
<1>2. debt[d].settled \in Nat
  BY <1>1, AmountsAreNat DEF DebtRow
<1>3. Settled(debt[d].settled, amount, flag, sum) \in Nat
  BY <1>2, AmountsAreNat DEF Settled
<1> DEFINE paid == Settled(debt[d].settled, amount, flag, sum)
<1> HIDE DEF paid
<1>4. [debt[d] EXCEPT !.amount = amount, !.party = party, !.settled = paid] \in LooseDebt
  BY <1>1, <1>3 DEF DebtRow, LooseDebt, paid
<1>5. Applied(d, amount, party, flag, sum)
        = [debt[d] EXCEPT !.amount = amount, !.party = party, !.settled = paid]
  BY <1>1 DEF Applied, DebtRow, paid
<1> QED BY <1>4, <1>5

LEMMA InsertDebtKept ==
  ASSUME Sound, NEW amount \in Amount \cup {None}, NEW party \in Party \cup {None},
         NEW flag \in BOOLEAN, NEW sum \in Amount \cup {None},
         InsertDebt(amount, party, flag, sum)
  PROVE  DebtKept
<1> DEFINE d == lastDebt + 1
           bare == [status |-> "draft", amount |-> amount, settled |-> 0, party |-> party]
           paid == IF flag /\ amount # None THEN amount ELSE IF sum # None THEN sum ELSE 0
           row == [bare EXCEPT !.settled = paid]
<1>1. d \in Debt /\ lastDebt' = d /\ lastDebt' \in 0..MaxDebt
  BY AmountsAreNat DEF InsertDebt, Debt
<1>2. paid \in 0..MaxSettled
  BY AmountAssumption
<1>3. bare \in DebtRow
  BY AmountsAreNat DEF DebtRow
<1>4. row \in DebtRow
  BY <1>2 DEF DebtRow
<1>5. \/ debt' = [debt EXCEPT ![d] = SyncDebt(row)] /\ Whole("debt", d) /\ UNCHANGED edit
      \/ (\E r \in {bare, row} : debt' = [debt EXCEPT ![d] = r]) /\ Cut("debt", d)
  BY DEF InsertDebt
<1> HIDE DEF row, bare, d
<1>6. CASE debt' = [debt EXCEPT ![d] = SyncDebt(row)] /\ Whole("debt", d) /\ UNCHANGED edit
  <2>1. SyncDebt(row) \in DebtRow
    BY <1>4 DEF SyncDebt, DebtStatus, DebtRow
  <2>2. SyncDebt(row).status = DebtStatus(SyncDebt(row))
    <3>1. /\ SyncDebt(row).amount = row.amount /\ SyncDebt(row).party = row.party
          /\ SyncDebt(row).settled = row.settled /\ SyncDebt(row).status = DebtStatus(row)
      BY <1>4 DEF SyncDebt, DebtRow
    <3> QED BY <3>1 DEF DebtStatus
  <2>3. \A e \in Debt : debt'[e] = IF e = d THEN SyncDebt(row) ELSE debt[e]
    BY <1>6 DEF Sound, TypeOK
  <2>4. torn' = torn \ {<<"debt", d>>} /\ UNCHANGED <<edit, listed>>
    BY <1>6 DEF Whole
  <2>5. DebtTrue'
    BY <2>2, <2>3, <2>4 DEF Sound, DebtTrue
  <2>6. debt' \in [Debt -> DebtRow \cup {None}]
    BY <1>6, <2>1 DEF Sound, TypeOK
  <2> QED BY <1>1, <2>4, <2>5, <2>6 DEF Sound, TypeOK, DebtKept, d
<1>7. CASE (\E r \in {bare, row} : debt' = [debt EXCEPT ![d] = r]) /\ Cut("debt", d)
  <2>1. torn' = torn \cup {<<"debt", d>>} /\ edit' = None /\ listed' = None
    BY <1>7 DEF Cut
  <2>2. torn' \in SUBSET Piece
    BY <1>1, <2>1 DEF Sound, TypeOK, Piece
  <2>3. debt' \in [Debt -> DebtRow \cup {None}]
    BY <1>3, <1>4, <1>7 DEF Sound, TypeOK
  <2>4. \A e \in Debt : e # d => debt'[e] = debt[e]
    BY <1>7 DEF Sound, TypeOK
  <2>5. DebtTrue'
    BY <2>1, <2>4 DEF Sound, DebtTrue
  <2> QED BY <1>1, <2>1, <2>2, <2>3, <2>5 DEF DebtKept, d
<1> QED BY <1>5, <1>6, <1>7

LEMMA EnterDebtKept ==
  ASSUME Sound, NEW amount \in Amount \cup {None}, NEW sum \in Amount \cup {None},
         NEW party \in Party \cup {None}, NEW flag \in BOOLEAN,
         EnterDebt(amount, party, flag, sum)
  PROVE  DebtKept
<1>1. CASE (flag \/ sum # None) /\ party # None /\ Unsettled(party) # {}
  <2>1. PICK d \in Unsettled(party), old \in BOOLEAN :
          PutDebt(d, Applied(d, IF old THEN debt[d].amount ELSE amount, party, flag, sum), edit)
    BY <1>1 DEF EnterDebt
  <2> DEFINE due == IF old THEN debt[d].amount ELSE amount
  <2>2. d \in Debt /\ debt[d] # None /\ edit \in Edit \cup {None}
    BY DEF Unsettled, Sound, TypeOK
  <2>3. due \in Amount \cup {None}
    BY <2>2 DEF Sound, TypeOK, DebtRow
  <2>4. PutDebt(d, Applied(d, due, party, flag, sum), edit)
    BY <2>1
  <2> HIDE DEF due
  <2>5. Applied(d, due, party, flag, sum) \in LooseDebt
    BY <2>2, <2>3, AppliedIsLoose
  <2> QED BY <2>2, <2>4, <2>5, PutDebtKept
<1>2. CASE ~((flag \/ sum # None) /\ party # None /\ Unsettled(party) # {})
  BY <1>2, InsertDebtKept DEF EnterDebt
<1> QED BY <1>1, <1>2

-----------------------------------------------------------------------------
(* The handlers.                                                           *)

LEMMA EditTextIs ==
  ASSUME Sound, EditText
  PROVE  \/ edit' = None /\ UNCHANGED <<tables, listed, history>>
         \/ \E t \in Txn, amount, title \in BOOLEAN :
              txn[t] # None /\ WriteTxn(t, amount, title, None)
         \/ \E d \in Debt, row \in LooseDebt : debt[d] # None /\ WriteDebt(d, row, None)
<1>1. edit \in Edit
  BY DEF EditText, Sound, TypeOK
<1>2. CASE edit' = None /\ UNCHANGED <<tables, listed, history>>
  BY <1>2
<1>3. CASE /\ RowOf(edit) # None /\ edit.kind = "txn"
           /\ WriteTxn(edit.id, txn[edit.id].amount \/ edit.field = "amount",
                       txn[edit.id].title \/ edit.field = "title", None)
  <2>1. edit.id \in Txn /\ txn[edit.id] # None
    BY <1>1, <1>3 DEF Edit, RowOf
  <2>2. /\ (txn[edit.id].amount \/ edit.field = "amount") \in BOOLEAN
        /\ (txn[edit.id].title \/ edit.field = "title") \in BOOLEAN
    OBVIOUS
  <2>3. \E amount, title \in BOOLEAN : WriteTxn(edit.id, amount, title, None)
    BY <1>3, <2>2
  <2> QED BY <2>1, <2>3
<1>4. CASE /\ RowOf(edit) # None /\ edit.kind = "debt"
           /\ \/ \E amount \in Amount :
                   /\ edit.field = "amount"
                   /\ WriteDebt(edit.id, [debt[edit.id] EXCEPT !.amount = amount], None)
              \/ \E party \in Party :
                   /\ edit.field = "party"
                   /\ WriteDebt(edit.id, [debt[edit.id] EXCEPT !.party = party], None)
  <2>1. edit.id \in Debt /\ debt[edit.id] # None
    BY <1>1, <1>4 DEF Edit, RowOf
  <2>2. debt[edit.id] \in DebtRow
    BY <2>1 DEF Sound, TypeOK
  <2>3. /\ \A amount \in Amount : [debt[edit.id] EXCEPT !.amount = amount] \in LooseDebt
        /\ \A party \in Party : [debt[edit.id] EXCEPT !.party = party] \in LooseDebt
    BY <2>2, AmountsAreNat DEF DebtRow, LooseDebt
  <2> QED BY <1>4, <2>1, <2>3
<1> QED BY <1>2, <1>3, <1>4 DEF EditText

\* A debt is said, corrected, settled or reopened.
LEMMA DebtActionIs ==
  ASSUME Sound,
         \/ \E amount, sum \in Amount \cup {None}, party \in Party \cup {None}, flag \in BOOLEAN :
              \/ SayDebt(amount, party, flag, sum)
              \/ \E d \in Debt : UpdateDebt(d, amount, party, flag, sum)
         \/ \E d \in Debt : SettleTap(d) \/ Reopen(d)
  PROVE  \/ \E d \in Debt, row \in LooseDebt : debt[d] # None /\ WriteDebt(d, row, edit)
         \/ DebtKept /\ UNCHANGED <<txn, lastTxn, clar, made, reminders, doubtful>>
<1>1. ASSUME NEW amount \in Amount \cup {None}, NEW sum \in Amount \cup {None},
             NEW party \in Party \cup {None}, NEW flag \in BOOLEAN,
             SayDebt(amount, party, flag, sum)
      PROVE  DebtKept /\ UNCHANGED <<txn, lastTxn, clar, made, reminders, doubtful>>
  BY <1>1, EnterDebtKept DEF SayDebt
<1>2. ASSUME NEW d \in Debt, NEW amount \in Amount \cup {None}, NEW sum \in Amount \cup {None},
             NEW party \in Party \cup {None}, NEW flag \in BOOLEAN,
             UpdateDebt(d, amount, party, flag, sum)
      PROVE  \E row \in LooseDebt : debt[d] # None /\ WriteDebt(d, row, edit)
  BY <1>2, AppliedIsLoose DEF UpdateDebt
<1>3. ASSUME NEW d \in Debt, SettleTap(d)
      PROVE  \E row \in LooseDebt : debt[d] # None /\ WriteDebt(d, row, edit)
  <2>1. debt[d] \in DebtRow /\ debt[d] # None
    BY <1>3 DEF SettleTap, Sound, TypeOK
  <2>2. debt[d].amount \in Amount \cup {None} /\ debt[d].party \in Party \cup {None}
    BY <2>1 DEF DebtRow
  <2>3. Applied(d, debt[d].amount, debt[d].party, TRUE, None) \in LooseDebt
    BY <2>1, <2>2, AppliedIsLoose
  <2> QED BY <1>3, <2>1, <2>3 DEF SettleTap
<1>4. ASSUME NEW d \in Debt, Reopen(d)
      PROVE  \E row \in LooseDebt : debt[d] # None /\ WriteDebt(d, row, edit)
  <2>1. debt[d] \in DebtRow /\ debt[d] # None
    BY <1>4 DEF Reopen, Sound, TypeOK
  <2>2. [debt[d] EXCEPT !.settled = 0] \in LooseDebt
    BY <2>1 DEF DebtRow, LooseDebt
  <2> QED BY <1>4, <2>1, <2>2 DEF Reopen
<1>5. ASSUME NEW amount \in Amount \cup {None}, NEW sum \in Amount \cup {None},
             NEW party \in Party \cup {None}, NEW flag \in BOOLEAN, NEW d \in Debt,
             UpdateDebt(d, amount, party, flag, sum)
      PROVE  \E e \in Debt, row \in LooseDebt : debt[e] # None /\ WriteDebt(e, row, edit)
  BY <1>2, <1>5, Zenon
<1>6. ASSUME NEW d \in Debt, SettleTap(d) \/ Reopen(d)
      PROVE  \E e \in Debt, row \in LooseDebt : debt[e] # None /\ WriteDebt(e, row, edit)
  BY <1>3, <1>4, <1>6, Zenon
<1>7. CASE \E d \in Debt : SettleTap(d) \/ Reopen(d)
  BY <1>6, <1>7, Zenon
<1>8. CASE \E amount, sum \in Amount \cup {None}, party \in Party \cup {None}, flag \in BOOLEAN,
            d \in Debt : UpdateDebt(d, amount, party, flag, sum)
  BY <1>5, <1>8, Zenon
<1>9. CASE \E amount, sum \in Amount \cup {None}, party \in Party \cup {None}, flag \in BOOLEAN :
            SayDebt(amount, party, flag, sum)
  BY <1>1, <1>9, Zenon
<1> QED BY <1>7, <1>8, <1>9, Zenon

SomeDebt ==
  \/ \E amount, sum \in Amount \cup {None}, party \in Party \cup {None}, flag \in BOOLEAN :
       \/ SayDebt(amount, party, flag, sum)
       \/ \E d \in Debt : UpdateDebt(d, amount, party, flag, sum)
  \/ \E d \in Debt : SettleTap(d) \/ Reopen(d)

LEMMA MarkedSound ==
  ASSUME Sound, NEW ids \in SUBSET Txn, txn' = Marked(ids), UNCHANGED torn
  PROVE  txn' \in [Txn -> TxnRow \cup {None}] /\ TxnTrue'
<1>1. ASSUME NEW t \in Txn
      PROVE  /\ txn'[t] \in TxnRow \cup {None}
             /\ txn'[t] # None =>
                  /\ txn[t] # None
                  /\ txn'[t].status = txn[t].status /\ txn'[t].amount = txn[t].amount
                  /\ txn'[t].title = txn[t].title
  <2>1. CASE t \in ids /\ txn[t] # None
    <3>1. txn'[t] = [txn[t] EXCEPT !.reminded = TRUE] /\ txn[t] \in TxnRow
      BY <2>1 DEF Marked, Sound, TypeOK
    <3> QED BY <2>1, <3>1 DEF TxnRow
  <2>2. CASE ~(t \in ids /\ txn[t] # None)
    <3>1. txn'[t] = txn[t]
      BY <2>2 DEF Marked
    <3> QED BY <3>1 DEF Sound, TypeOK
  <2> QED BY <2>1, <2>2
<1>2. txn' = [t \in Txn |-> txn'[t]]
  BY DEF Marked
<1>3. txn' \in [Txn -> TxnRow \cup {None}]
  BY <1>1, <1>2
<1>4. TxnTrue'
  BY <1>1 DEF TxnTrue, Sound, TxnStatus
<1> QED BY <1>3, <1>4

LEMMA OnceType ==
  /\ \A ids : made \in [Clar -> 0..2] => Once(made, ids) \in [Clar -> 0..2]
  /\ \A ids : reminders \in [Txn -> 0..2] => Once(reminders, ids) \in [Txn -> 0..2]
BY DEF Once

LEMMA SoundStep == Sound /\ [Next]_vars => Sound'
<1> SUFFICES ASSUME Sound, [Next]_vars PROVE Sound'
  OBVIOUS
<1>1. ASSUME NEW amount \in BOOLEAN, NEW title \in BOOLEAN, NEW later \in BOOLEAN,
             CreateTxn(amount, title, later)
      PROVE  Sound'
  <2>1. InsertTxn(amount, title, later) /\ UNCHANGED <<debt, lastDebt, clar, edit, listed, torn, made,
             reminders, doubtful>>
    BY <1>1 DEF CreateTxn, history
  <2> QED BY <2>1, InsertTxnSound DEF Sound, TypeOK, DebtTrue
<1>2. ASSUME NEW t \in Txn, DeleteTxn(t)
      PROVE  Sound'
  <2>1. /\ txn' = [txn EXCEPT ![t] = None]
        /\ UNCHANGED <<lastTxn, debt, lastDebt, clar, edit, listed, torn, made, reminders, doubtful>>
    BY <1>2 DEF DeleteTxn, history
  <2>2. \A s \in Txn : txn'[s] = txn[s] \/ txn'[s] = None
    BY <2>1 DEF Sound, TypeOK
  <2>3. txn' \in [Txn -> TxnRow \cup {None}]
    BY <2>1 DEF Sound, TypeOK
  <2> QED BY <2>1, <2>2, <2>3 DEF Sound, TypeOK, TxnTrue, DebtTrue
<1>3. ASSUME NEW t \in Txn, NEW amount \in BOOLEAN, NEW title \in BOOLEAN,
             UpdateTxn(t, amount, title)
      PROVE  Sound'
  <2>1. edit \in Edit \cup {None}
    BY DEF Sound, TypeOK
  <2> QED BY <1>3, <2>1, WriteTxnSound DEF UpdateTxn
<1>4. CASE SomeDebt
  <2>1. edit \in Edit \cup {None}
    BY DEF Sound, TypeOK
  <2>2. ASSUME NEW d \in Debt, NEW row \in LooseDebt, WriteDebt(d, row, edit)
        PROVE  Sound'
    BY <2>1, <2>2, WriteDebtSound
  <2>3. ASSUME DebtKept, UNCHANGED <<txn, lastTxn, clar, made, reminders, doubtful>>
        PROVE  Sound'
    BY <2>3, KeptSound DEF Sound, TypeOK
  <2> QED BY <1>4, <2>2, <2>3, DebtActionIs DEF SomeDebt
<1>5. ASSUME NEW d \in Debt, DeleteDebt(d)
      PROVE  Sound'
  <2>1. /\ debt' = [debt EXCEPT ![d] = None]
        /\ UNCHANGED <<lastDebt, txn, lastTxn, clar, edit, listed, torn, made, reminders, doubtful>>
    BY <1>5 DEF DeleteDebt, history
  <2>2. \A s \in Debt : debt'[s] = debt[s] \/ debt'[s] = None
    BY <2>1 DEF Sound, TypeOK
  <2>3. debt' \in [Debt -> DebtRow \cup {None}]
    BY <2>1 DEF Sound, TypeOK
  <2> QED BY <2>1, <2>2, <2>3 DEF Sound, TypeOK, TxnTrue, DebtTrue
<1>6. ASSUME NEW c \in Clar, Ask(c)
      PROVE  Sound'
  BY <1>6 DEF Ask, history, Sound, TypeOK, TxnTrue, DebtTrue
<1>7. ASSUME NEW c \in Clar, Answer(c)
      PROVE  Sound'
  <2>1. /\ clar' \in [Clar -> {"absent", "asked", "answered"}]
        /\ UNCHANGED <<reminders, doubtful>>
    BY <1>7 DEF Answer, Sound, TypeOK
  <2>2. made' \in [Clar -> 0..2]
    BY <1>7, OnceType DEF Answer, Sound, TypeOK
  <2>3. CASE /\ \E amount, title, later \in BOOLEAN : InsertTxn(amount, title, later)
             /\ UNCHANGED <<debt, lastDebt, edit, listed, torn>>
    BY <2>1, <2>2, <2>3, InsertTxnSound DEF Sound, TypeOK, DebtTrue
  <2>4. ASSUME NEW amount \in Amount \cup {None}, NEW sum \in Amount \cup {None},
               NEW party \in Party \cup {None}, NEW flag \in BOOLEAN,
               EnterDebt(amount, party, flag, sum), UNCHANGED <<txn, lastTxn>>
        PROVE  Sound'
    <3>1. DebtKept
      BY <2>4, EnterDebtKept
    <3> QED BY <2>1, <2>2, <2>4, <3>1, KeptSound DEF Sound, TypeOK
  <2>5. CASE Cut("clar", c) /\ UNCHANGED <<txn, lastTxn, debt, lastDebt>>
    <3>1. torn' = torn \cup {<<"clar", c>>} /\ edit' = None /\ listed' = None
      BY <2>5 DEF Cut
    <3>2. torn' \in SUBSET Piece
      BY <3>1 DEF Piece, Sound, TypeOK
    <3>3. TxnTrue' /\ DebtTrue'
      BY <2>5, <3>1 DEF Sound, TxnTrue, DebtTrue
    <3> QED BY <2>1, <2>2, <2>5, <3>1, <3>2, <3>3 DEF Sound, TypeOK
  <2> QED BY <1>7, <2>3, <2>4, <2>5 DEF Answer
<1>8. ASSUME NEW e \in Edit, StartEdit(e)
      PROVE  Sound'
  BY <1>8 DEF StartEdit, tables, history, Sound, TypeOK, TxnTrue, DebtTrue
<1>9. CASE CancelEdit
  BY <1>9 DEF CancelEdit, tables, history, Sound, TypeOK, TxnTrue, DebtTrue
<1>10. CASE EditText
  <2>1. CASE edit' = None /\ UNCHANGED <<tables, listed, history>>
    BY <2>1 DEF tables, history, Sound, TypeOK, TxnTrue, DebtTrue
  <2> QED BY <1>10, <2>1, EditTextIs, WriteTxnSound, WriteDebtSound
<1>11. CASE ReminderStarts
  <2>1. listed' \in SUBSET Txn /\ UNCHANGED <<tables, edit, history>>
    BY <1>11 DEF ReminderStarts, PendingForReminder
  <2> QED BY <2>1 DEF tables, history, Sound, TypeOK, TxnTrue, DebtTrue
<1>12. CASE ReminderSent
  <2>1. /\ listed \in SUBSET Txn /\ txn' = Marked(listed) /\ listed' = None
        /\ reminders' = Once(reminders, listed)
        /\ UNCHANGED <<lastTxn, debt, lastDebt, clar, edit, torn, made, doubtful>>
    BY <1>12 DEF ReminderSent, Sound, TypeOK
  <2>2. txn' \in [Txn -> TxnRow \cup {None}] /\ TxnTrue'
    BY <2>1, MarkedSound
  <2>3. reminders' \in [Txn -> 0..2]
    BY <2>1, OnceType DEF Sound, TypeOK
  <2> QED BY <2>1, <2>2, <2>3 DEF Sound, TypeOK, DebtTrue
<1>13. CASE ReminderFails
  <2>1. /\ listed \in SUBSET Txn /\ listed' = None
        /\ UNCHANGED <<txn, lastTxn, debt, lastDebt, clar, edit, torn, made>>
    BY <1>13 DEF ReminderFails, tables, Sound, TypeOK
  <2>2. reminders' \in [Txn -> 0..2] /\ doubtful' \in SUBSET Txn
    BY <1>13, <2>1, OnceType DEF ReminderFails, Sound, TypeOK
  <2> QED BY <2>1, <2>2 DEF Sound, TypeOK, TxnTrue, DebtTrue
<1>14. CASE Restart
  <2>1. /\ edit' = None /\ listed' = None
        /\ UNCHANGED <<lastTxn, debt, lastDebt, clar, torn, made>>
    BY <1>14 DEF Restart
  <2>2. CASE UNCHANGED <<txn, reminders, doubtful>>
    BY <2>1, <2>2 DEF Sound, TypeOK, TxnTrue, DebtTrue
  <2>3. CASE /\ listed # None /\ reminders' = Once(reminders, listed)
             /\ \E ids \in SUBSET listed :
                  txn' = Marked(ids) /\ doubtful' = doubtful \cup (listed \ ids)
    <3>1. listed \in SUBSET Txn
      BY <2>3 DEF Sound, TypeOK
    <3>2. reminders' \in [Txn -> 0..2] /\ doubtful' \in SUBSET Txn
      BY <2>3, <3>1, OnceType DEF Sound, TypeOK
    <3>3. txn' \in [Txn -> TxnRow \cup {None}] /\ TxnTrue'
      BY <2>1, <2>3, <3>1, MarkedSound
    <3> QED BY <2>1, <3>2, <3>3 DEF Sound, TypeOK, DebtTrue
  <2> QED BY <1>14, <2>2, <2>3 DEF Restart
<1>15. CASE UNCHANGED vars
  BY <1>15 DEF vars, tables, history, Sound, TypeOK, TxnTrue, DebtTrue
<1> QED BY <1>1, <1>2, <1>3, <1>4, <1>5, <1>6, <1>7, <1>8, <1>9, <1>10, <1>11, <1>12, <1>13,
           <1>14, <1>15 DEF Next, SomeDebt

LEMMA SoundInit == Init => Sound
BY AmountsAreNat DEF Init, Sound, TypeOK, TxnTrue, DebtTrue

\* Rows, questions and histories keep their types: what is settled of a debt
\* stays an amount, through every way of paying (debts.py:112-146).
THEOREM TypeCorrect == Spec => []TypeOK
<1>1. Sound => TypeOK
  BY DEF Sound
<1> QED BY <1>1, SoundInit, SoundStep, PTL DEF Spec

\* A row's status says whether it is complete and paid, but for a handler that a
\* restart cut short (transactions.py:120-122, debts.py:144-159).
THEOREM StatusCorrect == Spec => []StatusIsTrue
<1>1. Sound => StatusIsTrue
  BY DEF Sound, TxnTrue, DebtTrue, StatusIsTrue
<1> QED BY <1>1, SoundInit, SoundStep, PTL DEF Spec

-----------------------------------------------------------------------------
(* Reminders and questions.                                                *)

\* A row that was in a reminder is marked or gone, or it is not known whether
\* the reminder arrived; ids are never given twice.
Reminded ==
  /\ \A t \in Txn : t > lastTxn => txn[t] = None /\ reminders[t] = 0
  /\ listed # None => \A t \in listed : t <= lastTxn /\ (t \notin doubtful => reminders[t] = 0)
  /\ \A t \in Txn \ doubtful :
       reminders[t] <= 1 /\ (reminders[t] = 1 /\ txn[t] # None => txn[t].reminded)

\* Questions and the rows made of them.
Asked ==
  \A c \in Clar :
    /\ made[c] <= 1
    /\ clar[c] = "answered" /\ <<"clar", c>> \notin torn => made[c] = 1
    /\ clar[c] # "answered" => made[c] = 0

\* What the steps that neither insert an expense nor remind leave alone.
RowsStay ==
  /\ \A t \in Txn : \/ txn'[t] = txn[t]
                    \/ txn'[t] = None
                    \/ txn[t] # None /\ txn'[t].reminded = txn[t].reminded
  /\ UNCHANGED <<lastTxn, reminders, doubtful>>
  /\ listed' \in {listed, None}
QuestionsStay ==
  /\ UNCHANGED <<clar, made>>
  /\ \A c \in Clar : <<"clar", c>> \in torn <=> <<"clar", c>> \in torn'

LEMMA WriteTxnStays ==
  ASSUME Sound, NEW t \in Txn, txn[t] # None, NEW amount \in BOOLEAN, NEW title \in BOOLEAN,
         NEW next, WriteTxn(t, amount, title, next)
  PROVE  RowsStay /\ QuestionsStay
<1> DEFINE row == [txn[t] EXCEPT !.amount = amount, !.title = title]
<1>1. txn[t] \in TxnRow
  BY DEF Sound, TypeOK
<1>2. row.reminded = txn[t].reminded /\ SyncTxn(row).reminded = txn[t].reminded
  BY <1>1 DEF SyncTxn, TxnRow
<1>3. \/ txn' = [txn EXCEPT ![t] = SyncTxn(row)] /\ Whole("txn", t)
      \/ txn' = [txn EXCEPT ![t] = row] /\ Cut("txn", t)
  BY DEF WriteTxn
<1> HIDE DEF row
<1>4. \A s \in Txn : txn'[s] = txn[s] \/ (txn[s] # None /\ txn'[s].reminded = txn[s].reminded)
  BY <1>2, <1>3 DEF Sound, TypeOK
<1>5. UNCHANGED <<lastTxn, clar, made, reminders, doubtful>>
  BY DEF WriteTxn
<1> QED BY <1>3, <1>4, <1>5 DEF RowsStay, QuestionsStay, Whole, Cut

LEMMA WriteDebtStays ==
  ASSUME NEW d \in Debt, NEW row, NEW next, WriteDebt(d, row, next)
  PROVE  RowsStay /\ QuestionsStay
BY DEF WriteDebt, PutDebt, RowsStay, QuestionsStay, Whole, Cut

LEMMA KeptStays ==
  ASSUME DebtKept, UNCHANGED <<txn, lastTxn, reminders, doubtful>>
  PROVE  RowsStay
BY DEF DebtKept, RowsStay

LEMMA StaysReminded ==
  ASSUME Sound, Reminded, RowsStay
  PROVE  Reminded'
<1>1. \A t \in Txn : t > lastTxn' => txn'[t] = None /\ reminders'[t] = 0
  BY DEF Reminded, RowsStay
<1>2. listed' # None =>
        \A t \in listed' : t <= lastTxn' /\ (t \notin doubtful' => reminders'[t] = 0)
  BY DEF Reminded, RowsStay
<1>3. \A t \in Txn \ doubtful' :
        reminders'[t] <= 1 /\ (reminders'[t] = 1 /\ txn'[t] # None => txn'[t].reminded)
  BY DEF Reminded, RowsStay
<1> QED BY <1>1, <1>2, <1>3 DEF Reminded

LEMMA InsertReminded ==
  ASSUME Sound, Reminded, NEW amount \in BOOLEAN, NEW title \in BOOLEAN, NEW later \in BOOLEAN,
         InsertTxn(amount, title, later), UNCHANGED <<torn, listed, reminders, doubtful>>
  PROVE  Reminded'
<1>1. /\ lastTxn' = lastTxn + 1
      /\ \A t \in Txn : t # lastTxn + 1 => txn'[t] = txn[t]
  BY InsertTxnSound
<1>2. lastTxn \in Nat /\ Txn \subseteq Nat
  BY AmountsAreNat DEF Sound, TypeOK, Txn
<1>3. \A t \in Txn : t > lastTxn' => txn'[t] = None /\ reminders'[t] = 0
  BY <1>1, <1>2 DEF Reminded
<1>4. listed' # None =>
        \A t \in listed' : t <= lastTxn' /\ (t \notin doubtful' => reminders'[t] = 0)
  <2>1. listed # None => listed \subseteq Nat
    BY <1>2 DEF Sound, TypeOK
  <2> QED BY <1>1, <1>2, <2>1 DEF Reminded
<1>5. ASSUME NEW t \in Txn \ doubtful'
      PROVE  reminders'[t] <= 1 /\ (reminders'[t] = 1 /\ txn'[t] # None => txn'[t].reminded)
  <2>1. CASE t = lastTxn + 1
    BY <1>2, <2>1 DEF Reminded
  <2>2. CASE t # lastTxn + 1
    BY <1>1, <2>2 DEF Reminded
  <2> QED BY <2>1, <2>2
<1> QED BY <1>3, <1>4, <1>5 DEF Reminded

\* The steps of the reminder job: `ids` are marked, the rest is in doubt.
LEMMA OnceCounts ==
  ASSUME Sound, NEW ids
  PROVE  \A t \in Txn : Once(reminders, ids)[t] =
           IF t \in ids /\ reminders[t] < 2 THEN reminders[t] + 1 ELSE reminders[t]
BY DEF Once, Sound, TypeOK

LEMMA MarkReminded ==
  ASSUME Sound, Reminded, listed # None, NEW ids \in SUBSET listed,
         reminders' = Once(reminders, listed), txn' = Marked(ids),
         doubtful' = doubtful \cup (listed \ ids), listed' = None, UNCHANGED lastTxn
  PROVE  Reminded'
<1>1. listed \in SUBSET Txn
  BY DEF Sound, TypeOK
<1>2. \A t \in Txn : /\ t \notin ids => txn'[t] = txn[t]
                     /\ t \in ids => txn'[t] = None \/ txn'[t].reminded
                     /\ txn[t] = None => txn'[t] = None
  <2>1. ASSUME NEW t \in Txn, t \in ids, txn[t] # None
        PROVE  txn'[t].reminded
    <3>1. txn[t] \in TxnRow /\ txn'[t] = [txn[t] EXCEPT !.reminded = TRUE]
      BY <2>1 DEF Marked, Sound, TypeOK
    <3> QED BY <3>1 DEF TxnRow
  <2> QED BY <2>1 DEF Marked
<1>3. \A t \in Txn : reminders'[t] =
         IF t \in listed /\ reminders[t] < 2 THEN reminders[t] + 1 ELSE reminders[t]
  BY OnceCounts
<1>4. lastTxn \in Nat /\ Txn \subseteq Nat /\ \A t \in Txn : reminders[t] \in 0..2
  BY AmountsAreNat DEF Sound, TypeOK, Txn
<1>5. \A t \in Txn : t > lastTxn' => txn'[t] = None /\ reminders'[t] = 0
  BY <1>1, <1>2, <1>3, <1>4 DEF Reminded
<1>6. ASSUME NEW t \in Txn \ doubtful'
      PROVE  reminders'[t] <= 1 /\ (reminders'[t] = 1 /\ txn'[t] # None => txn'[t].reminded)
  <2>1. CASE t \in listed
    <3>1. t \in ids /\ t \notin doubtful /\ reminders[t] = 0
      BY <2>1 DEF Reminded
    <3> QED BY <1>2, <1>3, <2>1, <3>1
  <2>2. CASE t \notin listed
    <3>1. t \notin doubtful /\ t \notin ids
      BY <2>2
    <3> QED BY <1>2, <1>3, <2>2, <3>1 DEF Reminded
  <2> QED BY <2>1, <2>2
<1> QED BY <1>5, <1>6 DEF Reminded

\* Only a reminder, a restart and a new expense touch what `Reminded` is about.
LEMMA RemindedStep == Sound /\ Reminded /\ [Next]_vars => Reminded'
<1> SUFFICES ASSUME Sound, Reminded, [Next]_vars PROVE Reminded'
  OBVIOUS
<1>1. ASSUME NEW amount \in BOOLEAN, NEW title \in BOOLEAN, NEW later \in BOOLEAN,
             CreateTxn(amount, title, later)
      PROVE  Reminded'
  BY <1>1, InsertReminded DEF CreateTxn, history
<1>2. ASSUME NEW t \in Txn, DeleteTxn(t)
      PROVE  Reminded'
  <2>1. RowsStay
    BY <1>2 DEF DeleteTxn, RowsStay, history, Sound, TypeOK
  <2> QED BY <2>1, StaysReminded
<1>3. ASSUME NEW t \in Txn, NEW amount \in BOOLEAN, NEW title \in BOOLEAN,
             UpdateTxn(t, amount, title)
      PROVE  Reminded'
  BY <1>3, WriteTxnStays, StaysReminded DEF UpdateTxn
<1>4. CASE SomeDebt
  <2>1. ASSUME NEW d \in Debt, NEW row \in LooseDebt, WriteDebt(d, row, edit)
        PROVE  Reminded'
    BY <2>1, WriteDebtStays, StaysReminded
  <2>2. ASSUME DebtKept, UNCHANGED <<txn, lastTxn, clar, made, reminders, doubtful>>
        PROVE  Reminded'
    BY <2>2, KeptStays, StaysReminded
  <2> QED BY <1>4, <2>1, <2>2, DebtActionIs DEF SomeDebt
<1>5. ASSUME NEW d \in Debt, DeleteDebt(d)
      PROVE  Reminded'
  <2>1. RowsStay
    BY <1>5 DEF DeleteDebt, RowsStay, history
  <2> QED BY <2>1, StaysReminded
<1>6. ASSUME NEW c \in Clar, Ask(c)
      PROVE  Reminded'
  <2>1. RowsStay
    BY <1>6 DEF Ask, RowsStay, history
  <2> QED BY <2>1, StaysReminded
<1>7. ASSUME NEW c \in Clar, Answer(c)
      PROVE  Reminded'
  <2>1. CASE /\ \E amount, title, later \in BOOLEAN : InsertTxn(amount, title, later)
             /\ UNCHANGED <<debt, lastDebt, edit, listed, torn>>
    BY <1>7, <2>1, InsertReminded DEF Answer
  <2>2. ASSUME NEW amount \in Amount \cup {None}, NEW sum \in Amount \cup {None},
               NEW party \in Party \cup {None}, NEW flag \in BOOLEAN,
               EnterDebt(amount, party, flag, sum), UNCHANGED <<txn, lastTxn>>
        PROVE  Reminded'
    <3>1. RowsStay
      BY <1>7, <2>2, EnterDebtKept, KeptStays DEF Answer
    <3> QED BY <3>1, StaysReminded
  <2>3. CASE Cut("clar", c) /\ UNCHANGED <<txn, lastTxn>>
    <3>1. RowsStay
      BY <1>7, <2>3 DEF RowsStay, Answer, Cut
    <3> QED BY <3>1, StaysReminded
  <2> QED BY <1>7, <2>1, <2>2, <2>3 DEF Answer
<1>8. CASE CancelEdit \/ UNCHANGED vars \/ \E e \in Edit : StartEdit(e)
  <2>1. RowsStay
    BY <1>8 DEF StartEdit, CancelEdit, vars, tables, history, RowsStay
  <2> QED BY <2>1, StaysReminded
<1>9. CASE EditText
  <2>1. CASE edit' = None /\ UNCHANGED <<tables, listed, history>>
    <3>1. RowsStay
      BY <2>1 DEF tables, history, RowsStay
    <3> QED BY <3>1, StaysReminded
  <2> QED BY <1>9, <2>1, EditTextIs, WriteTxnStays, WriteDebtStays, StaysReminded
<1>10. CASE ReminderStarts
  <2>1. listed' = PendingForReminder /\ UNCHANGED <<txn, lastTxn, reminders, doubtful>>
    BY <1>10 DEF ReminderStarts, tables, history
  <2>2. \A t \in PendingForReminder :
          /\ t \in Txn /\ txn[t] # None /\ ~txn[t].reminded
          /\ t <= lastTxn /\ reminders[t] \in 0..2
    BY AmountsAreNat DEF PendingForReminder, Reminded, Sound, TypeOK, Txn
  <2>3. \A t \in PendingForReminder : t \notin doubtful => reminders[t] = 0
    BY <2>2 DEF Reminded
  <2> QED BY <2>1, <2>2, <2>3 DEF Reminded
<1>11. CASE ReminderSent
  <2>1. listed \ listed = {} /\ doubtful' = doubtful \cup (listed \ listed) /\ listed \in SUBSET listed
    BY <1>11 DEF ReminderSent
  <2> QED BY <1>11, <2>1, MarkReminded DEF ReminderSent
<1>12. CASE ReminderFails
  <2>1. listed # None /\ listed' = None /\ UNCHANGED <<txn, lastTxn>>
    BY <1>12 DEF ReminderFails, tables
  <2>2. CASE UNCHANGED <<reminders, doubtful>>
    <3>1. RowsStay
      BY <2>1, <2>2 DEF RowsStay
    <3> QED BY <3>1, StaysReminded
  <2>3. CASE reminders' = Once(reminders, listed) /\ doubtful' = doubtful \cup listed
    <3>1. \A t \in Txn : txn[t] = Marked({})[t]
      BY DEF Marked
    <3>2. txn' = Marked({})
      BY <2>1, <3>1 DEF Marked, Sound, TypeOK
    <3>3. doubtful' = doubtful \cup (listed \ {}) /\ {} \in SUBSET listed
      BY <2>3
    <3> QED BY <2>1, <2>3, <3>2, <3>3, MarkReminded
  <2> QED BY <1>12, <2>2, <2>3 DEF ReminderFails
<1>13. CASE Restart
  <2>1. listed' = None /\ UNCHANGED lastTxn
    BY <1>13 DEF Restart
  <2>2. CASE UNCHANGED <<txn, reminders, doubtful>>
    <3>1. RowsStay
      BY <2>1, <2>2 DEF RowsStay
    <3> QED BY <3>1, StaysReminded
  <2>3. CASE /\ listed # None /\ reminders' = Once(reminders, listed)
             /\ \E ids \in SUBSET listed :
                  txn' = Marked(ids) /\ doubtful' = doubtful \cup (listed \ ids)
    BY <2>1, <2>3, MarkReminded
  <2> QED BY <1>13, <2>2, <2>3 DEF Restart
<1> QED BY <1>1, <1>2, <1>3, <1>4, <1>5, <1>6, <1>7, <1>8, <1>9, <1>10, <1>11, <1>12, <1>13
    DEF Next, SomeDebt

\* Nobody is asked twice about an expense, unless it is open whether the first
\* reminder arrived (reminders.py:83-97).
THEOREM RemindersCorrect == Spec => []RemindedOnce
<1>1. Init => Reminded
  BY DEF Init, Reminded
<1>2. Sound /\ Reminded => RemindedOnce
  BY DEF Sound, TypeOK, Reminded, RemindedOnce
<1> QED BY <1>1, <1>2, SoundInit, SoundStep, RemindedStep, PTL DEF Spec

LEMMA AskedStep == Sound /\ Asked /\ [Next]_vars => Asked'
<1> SUFFICES ASSUME Sound, Asked, [Next]_vars PROVE Asked'
  OBVIOUS
<1>1. ASSUME QuestionsStay PROVE Asked'
  BY <1>1 DEF QuestionsStay, Asked
<1>2. ASSUME NEW c \in Clar, Ask(c)
      PROVE  Asked'
  <2>1. /\ clar' = [clar EXCEPT ![c] = "asked"] /\ clar[c] = "absent"
        /\ UNCHANGED <<made, torn>>
    BY <1>2 DEF Ask, history
  <2> QED BY <2>1 DEF Asked, Sound, TypeOK
<1>3. ASSUME NEW c \in Clar, Answer(c)
      PROVE  Asked'
  <2>1. clar' = [clar EXCEPT ![c] = "answered"] /\ clar[c] = "asked" /\ made[c] = 0
    BY <1>3 DEF Answer, Answerable, Asked
  <2>2. \A b \in Clar : Once(made, {c})[b] = IF b = c THEN 1 ELSE made[b]
    BY <2>1 DEF Once, Sound, TypeOK
  <2>3. CASE made' = Once(made, {c}) /\ \A b \in Clar : <<"clar", b>> \in torn <=> <<"clar", b>> \in torn'
    <3>1. ASSUME NEW b \in Clar
          PROVE  /\ made'[b] = IF b = c THEN 1 ELSE made[b]
                 /\ clar'[b] = IF b = c THEN "answered" ELSE clar[b]
      BY <2>1, <2>2, <2>3 DEF Sound, TypeOK
    <3>2. ASSUME NEW b \in Clar
          PROVE  /\ made'[b] <= 1
                 /\ clar'[b] = "answered" /\ <<"clar", b>> \notin torn' => made'[b] = 1
                 /\ clar'[b] # "answered" => made'[b] = 0
      <4>1. <<"clar", b>> \notin torn' => <<"clar", b>> \notin torn
        BY <2>3
      <4>2. CASE b = c
        BY <3>1, <4>2
      <4>3. CASE b # c
        BY <3>1, <4>1, <4>3 DEF Asked
      <4> QED BY <4>2, <4>3
    <3> QED BY <3>2 DEF Asked
  <2>4. CASE torn' = torn \cup {<<"clar", c>>} /\ UNCHANGED made
    BY <2>1, <2>4 DEF Asked, Sound, TypeOK
  <2>5. ASSUME NEW amount \in Amount \cup {None}, NEW sum \in Amount \cup {None},
               NEW party \in Party \cup {None}, NEW flag \in BOOLEAN,
               EnterDebt(amount, party, flag, sum)
        PROVE  \A b \in Clar : <<"clar", b>> \in torn <=> <<"clar", b>> \in torn'
    BY <2>5, EnterDebtKept DEF DebtKept
  <2> QED BY <1>3, <2>3, <2>4, <2>5 DEF Answer, Cut
<1>4. ASSUME NEW t \in Txn, NEW amount \in BOOLEAN, NEW title \in BOOLEAN,
             UpdateTxn(t, amount, title)
      PROVE  Asked'
  BY <1>1, <1>4, WriteTxnStays DEF UpdateTxn
<1>5. CASE SomeDebt
  <2>1. ASSUME DebtKept, UNCHANGED <<txn, lastTxn, clar, made, reminders, doubtful>>
        PROVE  QuestionsStay
    BY <2>1 DEF DebtKept, QuestionsStay
  <2> QED BY <1>1, <1>5, <2>1, DebtActionIs, WriteDebtStays DEF SomeDebt
<1>6. CASE EditText
  <2>1. CASE edit' = None /\ UNCHANGED <<tables, listed, history>>
    BY <1>1, <2>1 DEF tables, history, QuestionsStay
  <2> QED BY <1>1, <1>6, <2>1, EditTextIs, WriteTxnStays, WriteDebtStays
<1>7. CASE UNCHANGED <<clar, made, torn>>
  BY <1>1, <1>7 DEF QuestionsStay
<1>8. ASSUME \/ \E amount, title, later \in BOOLEAN : CreateTxn(amount, title, later)
             \/ \E t \in Txn : DeleteTxn(t)
             \/ \E d \in Debt : DeleteDebt(d)
             \/ \E e \in Edit : StartEdit(e)
             \/ CancelEdit \/ ReminderStarts \/ ReminderSent \/ ReminderFails \/ Restart
             \/ UNCHANGED vars
      PROVE  UNCHANGED <<clar, made, torn>>
  BY <1>8 DEF CreateTxn, DeleteTxn, DeleteDebt, StartEdit, CancelEdit, ReminderStarts,
     ReminderSent, ReminderFails, Restart, vars, tables, history
<1> QED BY <1>2, <1>3, <1>4, <1>5, <1>6, <1>7, <1>8 DEF Next, SomeDebt

\* An answered question has become one row, or one payment on a row, however often
\* it is tapped, but for a restart between the two commits (clarify.py:62-74).
THEOREM AnswersCorrect == Spec => []AnswerBecomesOneRow
<1>1. Init => Asked
  BY DEF Init, Asked
<1>2. Asked => AnswerBecomesOneRow
  BY DEF Asked, AnswerBecomesOneRow
<1> QED BY <1>1, <1>2, SoundInit, SoundStep, AskedStep, PTL DEF Spec
=============================================================================
