------------------------- MODULE CardDeliveryProofs -------------------------
(***************************************************************************)
(* Theorems about CardDelivery, for every number of rows, messages and     *)
(* cards, with and without refusals, lost replies and restarts.            *)
(***************************************************************************)
EXTENDS CardDelivery, FiniteSetTheorems, TLAPS

Table == [Txn -> Row \cup {NoRow("absent"), NoRow("deleted")}]

\* The ids in use are the first ones, so a new id is a new row; ...
Used == {t \in Txn : txn[t].status # "absent"}
Prefix == Used = 1..Cardinality(Used)

\* ... and a message's rows are numbered from the message on: rows recorded
\* later cannot fall into its batch.
BatchFirst == \A t \in Txn : Live(txn, t) => txn[t].batch <= t

\* What the lane's stage says about the rows it holds.
LaneFits ==
  /\ lane.at \in {"deleting", "refreshing"} => lane.target \in Txn
  /\ lane.at = "deleting" => lane.tapped \in Message
  /\ lane.at \in {"created", "flagged"} => \A t \in lane.batch : Live(txn, t)
  /\ lane.at = "created" =>
       \A s \in lane.batch, t \in Txn : t \in lane.batch <=> txn[t].batch = txn[s].batch
  /\ Sending("lane") => lane.at \in {"sending", "refreshing"}

IInv == TypeOK /\ Prefix /\ BatchFirst /\ OneToOne /\ LaneFits /\ OriginalsExist

-----------------------------------------------------------------------------
(* The functions of the table.                                             *)

\* A table in which rows and marks are as in another, whatever the cards.
SameRows(new, old) ==
  \A t \in Txn : /\ new[t].status = old[t].status /\ new[t].batch = old[t].batch
                 /\ new[t].original = old[t].original

LEMMA TxnNat == MaxTxn \in Nat /\ MaxMessages \in Nat /\ MaxBatch \in Nat
                /\ Txn \subseteq Nat /\ Null \notin Txn /\ Null \notin Message
BY BoundAssumption DEF Txn, Message, Null

LEMMA LiveRow ==
  ASSUME TypeOK, NEW t \in Txn, Live(txn, t)
  PROVE  /\ txn[t] \in Row /\ txn[t].batch \in Nat
         /\ txn[t].original \in Txn \cup {Null} /\ txn[t].card \in Message \cup {Null}
<1>1. txn[t] \in Row
  BY DEF TypeOK, Live, NoRow
<1>2. /\ txn[t].batch \in Txn /\ txn[t].original \in Txn \cup {Null}
      /\ txn[t].card \in Message \cup {Null}
  BY <1>1 DEF Row
<1> QED BY <1>1, <1>2, TxnNat

LEMMA SomeFinite ==
  ASSUME NEW S \in SUBSET Txn
  PROVE  IsFiniteSet(S) /\ Cardinality(S) \in Nat
<1>1. IsFiniteSet(Txn)
  BY FS_Interval, TxnNat DEF Txn
<1>2. IsFiniteSet(S)
  BY <1>1, FS_Subset
<1> QED BY <1>2, FS_CardinalityType

LEMMA SetCardFacts ==
  ASSUME NEW table \in Table, NEW t \in Txn, NEW m \in Message
  PROVE  SetCard(table, t, m) \in Table /\ SameRows(SetCard(table, t, m), table)
BY TxnNat DEF SetCard, Table, SameRows, Row, NoRow, Live

LEMMA ReleaseFacts ==
  ASSUME NEW table \in Table, NEW o \in Txn
  PROVE  /\ Release(table, o) \in Table
         /\ \A t \in Txn :
              /\ Release(table, o)[t].status = table[t].status
              /\ Release(table, o)[t].batch = table[t].batch
              /\ Release(table, o)[t].card = table[t].card
              /\ Release(table, o)[t].original
                   = (IF table[t].original = o THEN Null ELSE table[t].original)
<1>1. \A t \in Txn : table[t] \in Row \/ table[t] = NoRow("absent") \/ table[t] = NoRow("deleted")
  BY DEF Table
<1>2. ASSUME NEW t \in Txn, table[t].original = o PROVE table[t] \in Row
  BY <1>1, <1>2, TxnNat DEF NoRow
<1>3. ASSUME NEW t \in Txn, table[t] \in Row
      PROVE  /\ [table[t] EXCEPT !.original = Null] \in Row
             /\ [table[t] EXCEPT !.original = Null].status = table[t].status
             /\ [table[t] EXCEPT !.original = Null].batch = table[t].batch
             /\ [table[t] EXCEPT !.original = Null].card = table[t].card
             /\ [table[t] EXCEPT !.original = Null].original = Null
  BY <1>3 DEF Row
<1> QED BY <1>1, <1>2, <1>3 DEF Release, Table

LEMMA FlagNewFacts ==
  ASSUME NEW table \in Table, NEW batch \in SUBSET Txn, \A t \in batch : Live(table, t)
  PROVE  /\ FlagNew(table, batch) \in Table
         /\ \A t \in Txn :
              /\ FlagNew(table, batch)[t].status = table[t].status
              /\ FlagNew(table, batch)[t].batch = table[t].batch
              /\ FlagNew(table, batch)[t].card = table[t].card
         /\ \A t \in Txn \ batch : FlagNew(table, batch)[t] = table[t]
         /\ \A t \in batch : FlagNew(table, batch)[t].original # Null =>
              /\ FlagNew(table, batch)[t].original \in Txn \ batch
              /\ Live(table, FlagNew(table, batch)[t].original)
         /\ \A s, t \in batch :
              s # t /\ FlagNew(table, batch)[s].original # Null
                => FlagNew(table, batch)[s].original # FlagNew(table, batch)[t].original
<1> DEFINE candidates == {c \in Txn \ batch : Live(table, c)}
           before(t) == {s \in batch : s < t}
           matches(t) == {c \in candidates : Cardinality({d \in candidates : d > c})
                                               = Cardinality(before(t))}
           chosen(t) == CHOOSE c \in matches(t) : TRUE
           F == FlagNew(table, batch)
<1>1. F = [t \in Txn |->
             IF t \notin batch THEN table[t]
             ELSE IF matches(t) = {} THEN [table[t] EXCEPT !.original = Null]
             ELSE [table[t] EXCEPT !.original = chosen(t)]]
  BY Zenon DEF FlagNew
<1>2. \A t \in batch : matches(t) # {} => chosen(t) \in matches(t)
  OBVIOUS
<1>3. \A t \in batch : table[t] \in Row
  BY DEF Table, Live, NoRow
<1>4. \A c \in candidates : c \in Txn \ batch /\ Live(table, c)
  OBVIOUS
<1>0. \A t \in batch : t \in Nat
  BY TxnNat
<1>5. ASSUME NEW s \in batch, NEW t \in batch, s < t
      PROVE  Cardinality(before(s)) # Cardinality(before(t))
  <2>1. before(t) \in SUBSET Txn /\ before(s) \in SUBSET before(t)
    <3>1. s \in Nat /\ t \in Nat
      BY <1>0
    <3>2. \A u \in before(s) : u \in batch /\ u \in Nat /\ u < s
      BY <1>0
    <3>3. \A u \in before(s) : u < t
      BY <1>5, <3>1, <3>2
    <3>4. \A u \in before(s) : u \in before(t)
      BY <3>2, <3>3
    <3>5. \A u \in before(t) : u \in Txn
      OBVIOUS
    <3> HIDE DEF before
    <3> QED BY <3>4, <3>5
  <2>2. s \in before(t) /\ s \notin before(s)
    BY <1>0, <1>5
  <2>3. IsFiniteSet(before(t))
    BY <2>1, SomeFinite
  <2> QED BY <2>1, <2>2, <2>3, FS_Subset
<1>6. \A t \in batch : \A c \in matches(t) :
        c \in candidates /\ Cardinality({d \in candidates : d > c}) = Cardinality(before(t))
  OBVIOUS
<1> HIDE DEF candidates, before, matches, chosen, F
<1>7. \A t \in Txn \ batch : F[t] = table[t]
  BY <1>1
<1>8. ASSUME NEW t \in batch
      PROVE  /\ F[t] \in Row /\ F[t].status = table[t].status /\ F[t].batch = table[t].batch
             /\ F[t].card = table[t].card
             /\ F[t].original = (IF matches(t) = {} THEN Null ELSE chosen(t))
  <2>1. F[t] = [table[t] EXCEPT !.original = IF matches(t) = {} THEN Null ELSE chosen(t)]
    <3>1. CASE matches(t) = {}
      BY <1>1, <3>1, Zenon
    <3>2. CASE matches(t) # {}
      BY <1>1, <3>2, Zenon
    <3> QED BY <3>1, <3>2
  <2>2. (IF matches(t) = {} THEN Null ELSE chosen(t)) \in Txn \cup {Null}
    BY <1>2, <1>4, <1>6
  <2> QED BY <1>3, <2>1, <2>2 DEF Row
<1>9. F \in Table
  <2>1. \A t \in Txn : F[t] \in Row \cup {NoRow("absent"), NoRow("deleted")}
    BY <1>7, <1>8 DEF Table
  <2> QED BY <1>1, <2>1 DEF Table
<1>10. \A t \in batch : F[t].original # Null =>
         /\ F[t].original = chosen(t) /\ chosen(t) \in matches(t)
         /\ F[t].original \in Txn \ batch /\ Live(table, F[t].original)
  BY <1>2, <1>4, <1>6, <1>8
<1>11. ASSUME NEW s \in batch, NEW t \in batch, s # t, F[s].original # Null
       PROVE  F[s].original # F[t].original
  <2> SUFFICES ASSUME F[s].original = F[t].original PROVE FALSE
    OBVIOUS
  <2>1. Cardinality(before(s)) = Cardinality(before(t))
    BY <1>6, <1>10, <1>11
  <2>2. s < t \/ t < s
    BY <1>0, <1>11
  <2> QED BY <1>5, <2>1, <2>2
<1>12. \A t \in Txn : /\ F[t].status = table[t].status /\ F[t].batch = table[t].batch
                      /\ F[t].card = table[t].card
  BY <1>7, <1>8
<1> QED BY <1>7, <1>9, <1>10, <1>11, <1>12 DEF F

LEMMA CreatedFacts ==
  ASSUME TypeOK, Prefix, NEW n \in Nat \ {0}, NextIds(n) \subseteq Txn,
         NEW source \in {"chat", "shortcut"}
  PROVE  LET ids == NextIds(n)
             c == Created(ids, source)
             u == Cardinality(Used)
         IN  /\ u \in Nat /\ ids = (u + 1)..(u + n) /\ c \in Table
             /\ \A t \in Txn \ ids : c[t] = txn[t]
             /\ \A t \in ids : /\ txn[t].status = "absent" /\ t \in Txn /\ Live(c, t)
                               /\ c[t].batch = u + 1 /\ c[t].original = Null
                               /\ c[t].card = Null
             /\ \A t \in Txn : txn[t].status # "absent" => t <= u
             /\ {t \in Txn : c[t].status # "absent"} = 1..(u + n)
<1> DEFINE ids == NextIds(n)
           c == Created(ids, source)
           u == Cardinality(Used)
<1>1. u \in Nat
  BY SomeFinite DEF Used
<1>2. ids = (u + 1)..(u + n)
  BY DEF NextIds, Used
<1>3. Used = 1..u
  BY DEF Prefix
<1>4. Min(ids) = u + 1
  <2>1. u + 1 \in ids /\ \A y \in ids : u + 1 <= y
    BY <1>1, <1>2
  <2>2. \A x \in ids : (\A y \in ids : x <= y) => x = u + 1
    BY <1>1, <1>2, <2>1
  <2> HIDE DEF ids, u
  <2> QED BY <2>1, <2>2 DEF Min
<1>5. \A t \in Txn : c[t] = IF t \in ids
        THEN [status |-> "live", source |-> source, batch |-> u + 1,
              original |-> Null, card |-> Null]
        ELSE txn[t]
  BY <1>4 DEF Created
<1>6. \A t \in ids : t \in Txn /\ t # Null /\ t \notin Used
  BY <1>1, <1>2, <1>3, TxnNat
<1>7. u + 1 \in Txn
  BY <1>1, <1>2
<1>8. c \in Table
  <2>1. \A t \in Txn : c[t] \in Row \cup {NoRow("absent"), NoRow("deleted")}
    BY <1>5, <1>7 DEF Row, TypeOK
  <2> QED BY <2>1 DEF Table, Created
<1>9. \A t \in Txn : txn[t].status # "absent" => t <= u
  BY <1>1, <1>3 DEF Used
<1> HIDE DEF ids, c
<1>13. ASSUME NEW t \in ids
       PROVE  /\ t \in Txn /\ t # Null /\ t \notin Used
              /\ c[t].status = "live" /\ c[t].batch = u + 1 /\ c[t].original = Null
              /\ c[t].card = Null
  <2>1. t \in Txn /\ t # Null /\ t \notin Used
    BY <1>6
  <2>2. c[t] = [status |-> "live", source |-> source, batch |-> u + 1,
                original |-> Null, card |-> Null]
    BY <1>5, <2>1
  <2> QED BY <2>1, <2>2
<1>10. {t \in Txn : c[t].status # "absent"} = 1..(u + n)
  <2>1. \A t \in Txn : c[t].status # "absent" <=> t \in Used \/ t \in ids
    <3>1. \A t \in Txn \ ids : c[t] = txn[t]
      BY <1>5
    <3> QED BY <1>13, <3>1 DEF Used
  <2>2. Used \subseteq Txn /\ ids \subseteq Txn
    BY <1>6 DEF Used
  <2>3. {t \in Txn : c[t].status # "absent"} = Used \cup ids
    BY <2>1, <2>2
  <2>4. Used \cup ids = 1..(u + n)
    <3> HIDE DEF u
    <3> QED BY <1>1, <1>2, <1>3
  <2> QED BY <2>3, <2>4
<1>11. \A t \in ids : /\ txn[t].status = "absent" /\ t \in Txn /\ Live(c, t)
                      /\ c[t].batch = u + 1 /\ c[t].original = Null /\ c[t].card = Null
  BY <1>13 DEF Live, Used
<1>12. \A t \in Txn \ ids : c[t] = txn[t]
  BY <1>5
<1> QED BY <1>1, <1>2, <1>8, <1>9, <1>10, <1>11, <1>12 DEF ids, c

LEMMA SendNextFacts ==
  ASSUME TypeOK, NEW k \in Sender, NEW ids \in SUBSET Txn, NEW table \in Table,
         SendNext(k, ids, table)
  PROVE  /\ todo' \in [Sender -> SUBSET Txn]
         /\ flight' \in [Sender -> [txn: Txn, warns: Txn \cup {Null}] \cup {Nothing}]
         /\ \A j \in Sender \ {k} : flight'[j] = flight[j]
<1> DEFINE live == {t \in ids : Live(table, t)}
<1>1. CASE live = {}
  BY <1>1 DEF SendNext, TypeOK
<1>2. CASE live # {}
  <2>1. PICK t \in live :
          /\ todo' = [todo EXCEPT ![k] = live \ {t}]
          /\ flight' = [flight EXCEPT ![k] = [txn |-> t, warns |-> Warning(table, t)]]
    BY <1>2 DEF SendNext
  <2>2. t \in Txn /\ table[t] \in Row
    BY <2>1 DEF Table, Live, NoRow
  <2>3. Warning(table, t) \in Txn \cup {Null}
    BY <2>2 DEF Warning, Row
  <2> QED BY <2>1, <2>2, <2>3 DEF TypeOK
<1> QED BY <1>1, <1>2

-----------------------------------------------------------------------------
(* The invariant.                                                          *)

LEMMA InitIInv == Init => IInv
<1> SUFFICES ASSUME Init PROVE IInv
  OBVIOUS
<1>1. TypeOK
  BY TxnNat DEF Init, TypeOK, NoRow, Row, Idle, LaneStage, Null, Nothing
<1>2. \A t \in Txn : ~Live(txn, t)
  BY DEF Init, Live, NoRow
<1>3. Used = {}
  BY DEF Init, Used, NoRow
<1>4. Prefix
  BY <1>3, FS_EmptySet DEF Prefix
<1>5. LaneFits
  BY DEF Init, LaneFits, Idle, Sending, Sender, Nothing
<1> QED BY <1>1, <1>2, <1>4, <1>5 DEF IInv, BatchFirst, OneToOne, OriginalsExist

\* Steps that change no row and no mark.
LEMMA RowsKept ==
  ASSUME Prefix, BatchFirst, OneToOne, SameRows(txn', txn)
  PROVE  Prefix' /\ BatchFirst' /\ OneToOne'
<1>1. \A t \in Txn : Live(txn, t)' <=> Live(txn, t)
  BY DEF SameRows, Live
<1>2. Used' = Used
  BY DEF SameRows, Used
<1>3. Prefix'
  BY <1>2 DEF Prefix
<1>4. BatchFirst'
  BY <1>1 DEF BatchFirst, SameRows
<1>5. OneToOne'
  BY <1>1 DEF OneToOne, SameRows
<1> QED BY <1>3, <1>4, <1>5

\* A deletion stays under way, or is known to be cut.
Remembered ==
  lane.at = "deleting" =>
    \/ lane'.at = "deleting" /\ lane'.target = lane.target
    \/ lane.target \in cut'

LEMMA MarksKept ==
  ASSUME TypeOK, OriginalsExist, SameRows(txn', txn), cut \subseteq cut', Remembered
  PROVE  OriginalsExist'
<1> SUFFICES ASSUME NEW t \in Txn, Live(txn', t), txn'[t].original # Null
             PROVE  \/ Live(txn', txn'[t].original)
                    \/ lane'.at = "deleting" /\ lane'.target = txn'[t].original
                    \/ txn'[t].original \in cut'
  BY DEF OriginalsExist
<1>1. txn'[t].original = txn[t].original /\ Live(txn, t)
  BY DEF SameRows, Live
<1>2. txn[t].original \in Txn
  BY <1>1 DEF TypeOK, Row, Live, NoRow
<1>3. Live(txn, txn[t].original) => Live(txn', txn[t].original)
  BY <1>2 DEF SameRows, Live
<1> QED BY <1>1, <1>2, <1>3 DEF OriginalsExist, Remembered

LEMMA SameSelf == ASSUME txn' = txn PROVE SameRows(txn', txn)
BY DEF SameRows

LEMMA AppearsFacts ==
  ASSUME TypeOK, NEW k \in Sender, Sending(k), NEW m \in Message, Appears(k, m)
  PROVE  shown' \in [Message -> [txn: Txn \cup {Null}, warns: Txn \cup {Null}, live: BOOLEAN]]
<1>1. flight[k].txn \in Txn /\ flight[k].warns \in Txn \cup {Null}
  BY DEF TypeOK, Sending
<1> QED BY <1>1 DEF Appears, TypeOK

LEMMA DeliveredStep ==
  ASSUME IInv, NEW k \in Sender, Delivered(k)
  PROVE  IInv'
<1>1. PICK m \in Message : Appears(k, m) /\ txn' = SetCard(txn, flight[k].txn, m)
  BY DEF Delivered
<1>2. /\ Sending(k) /\ SendNext(k, todo[k], txn') /\ cut' = cut
      /\ IF k = "lane" THEN LaneAfterSend ELSE UNCHANGED lane
  BY DEF Delivered
<1>3. TypeOK /\ txn \in Table /\ flight[k].txn \in Txn /\ todo[k] \in SUBSET Txn
  BY <1>2 DEF IInv, TypeOK, Sending, Table
<1>4. txn' \in Table /\ SameRows(txn', txn)
  BY <1>1, <1>3, SetCardFacts
<1>5. /\ todo' \in [Sender -> SUBSET Txn]
      /\ flight' \in [Sender -> [txn: Txn, warns: Txn \cup {Null}] \cup {Nothing}]
      /\ \A j \in Sender \ {k} : flight'[j] = flight[j]
  BY <1>2, <1>3, <1>4, SendNextFacts
<1>6. lane' \in {lane, Idle}
      /\ (lane' # lane => lane.at = "sending" /\ k = "lane" /\ flight'["lane"] = Nothing)
  BY <1>2 DEF LaneAfterSend
<1>7. TypeOK'
  <2>1. shown' \in [Message -> [txn: Txn \cup {Null}, warns: Txn \cup {Null}, live: BOOLEAN]]
    BY <1>1, <1>2, <1>3, AppearsFacts
  <2>2. Idle \in [at: LaneStage, batch: SUBSET Txn, tapped: Message \cup {Null},
                  target: Txn \cup {Null}, card: Message \cup {Null}]
    BY DEF Idle, LaneStage
  <2>3. txn' \in [Txn -> Row \cup {NoRow("absent"), NoRow("deleted")}]
    BY <1>4 DEF Table
  <2> QED BY <1>2, <1>3, <1>5, <1>6, <2>1, <2>2, <2>3 DEF TypeOK
<1>8. LaneFits'
  <2>1. CASE lane' = lane
    <3>1. \A t \in Txn : Live(txn', t) <=> Live(txn, t)
      BY <1>4 DEF SameRows, Live
    <3>2. Sending("lane")' => Sending("lane")
      BY <1>2, <1>5 DEF Sending, Sender
    <3>3. lane.batch \subseteq Txn
      BY <1>3 DEF TypeOK
    <3> QED BY <1>4, <2>1, <3>1, <3>2, <3>3 DEF IInv, LaneFits, SameRows
  <2>2. CASE lane' = Idle /\ lane' # lane
    BY <1>6, <2>2 DEF LaneFits, Idle, Sending
  <2> QED BY <1>6, <2>1, <2>2
<1>9. Remembered
  BY <1>6 DEF Remembered
<1>10. OriginalsExist'
  BY <1>2, <1>3, <1>4, <1>9, MarksKept DEF IInv
<1> QED BY <1>4, <1>7, <1>8, <1>10, RowsKept DEF IInv

LEMMA SendFailsStep ==
  ASSUME IInv, NEW k \in Sender, SendFails(k)
  PROVE  IInv'
<1>1. /\ Sending(k) /\ SendNext(k, IF k = "lane" THEN {} ELSE todo[k], txn) /\ txn' = txn
      /\ lane' = (IF k = "lane" THEN Idle ELSE lane)
      /\ cut' = (IF k = "lane" /\ lane.at = "refreshing" THEN cut \cup {lane.target} ELSE cut)
  BY DEF SendFails
<1>2. TypeOK /\ txn \in Table /\ todo[k] \in SUBSET Txn
  BY DEF IInv, TypeOK, Table
<1>3. /\ todo' \in [Sender -> SUBSET Txn]
      /\ flight' \in [Sender -> [txn: Txn, warns: Txn \cup {Null}] \cup {Nothing}]
      /\ \A j \in Sender \ {k} : flight'[j] = flight[j]
  BY <1>1, <1>2, SendNextFacts
<1>4. k = "lane" => lane.at \in {"sending", "refreshing"} /\ flight'["lane"] = Nothing
  <2>1. SendNext("lane", {}, txn) => flight' = [flight EXCEPT !["lane"] = Nothing]
    BY DEF SendNext
  <2> QED BY <1>1, <1>2, <2>1 DEF IInv, LaneFits, TypeOK, Sender
<1>5. cut \subseteq cut' /\ cut' \in SUBSET Txn
  BY <1>1, <1>2 DEF TypeOK, IInv, LaneFits
<1>6. TypeOK'
  <2>1. shown' \in [Message -> [txn: Txn \cup {Null}, warns: Txn \cup {Null}, live: BOOLEAN]]
    BY <1>1, <1>2, AppearsFacts DEF SendFails, TypeOK
  <2>2. Idle \in [at: LaneStage, batch: SUBSET Txn, tapped: Message \cup {Null},
                  target: Txn \cup {Null}, card: Message \cup {Null}]
    BY DEF Idle, LaneStage
  <2> QED BY <1>1, <1>2, <1>3, <1>5, <2>1, <2>2 DEF TypeOK
<1>7. LaneFits'
  <2>1. CASE k = "lane"
    BY <1>1, <1>4, <2>1 DEF LaneFits, Idle, Sending
  <2>2. CASE k # "lane"
    <3>1. Sending("lane")' => Sending("lane")
      BY <1>3, <2>2 DEF Sending, Sender
    <3> QED BY <1>1, <2>2, <3>1 DEF IInv, LaneFits
  <2> QED BY <2>1, <2>2
<1>8. Remembered
  BY <1>1, <1>4 DEF Remembered
<1>9. OriginalsExist'
  BY <1>1, <1>2, <1>5, <1>8, SameSelf, MarksKept DEF IInv
<1> QED BY <1>1, <1>6, <1>7, <1>9, SameSelf, RowsKept DEF IInv

-----------------------------------------------------------------------------
(* Recording and marking.                                                  *)

PrefixOf(tb) ==
  LET used == {t \in Txn : tb[t].status # "absent"} IN used = 1..Cardinality(used)
FirstOf(tb) == \A t \in Txn : Live(tb, t) => tb[t].batch <= t
OneOf(tb) ==
  \A s, t \in Txn : Live(tb, s) /\ Live(tb, t) /\ tb[s].batch = tb[t].batch =>
    /\ tb[s].original # t
    /\ s # t /\ tb[s].original # Null => tb[s].original # tb[t].original
\* The rows of a batch are all those that bear its number.
Whole(tb, batch) ==
  \A s \in batch, t \in Txn : t \in batch <=> tb[t].batch = tb[s].batch

LEMMA OfTables ==
  /\ Prefix <=> PrefixOf(txn)
  /\ BatchFirst <=> FirstOf(txn)
  /\ OneToOne <=> OneOf(txn)
BY DEF Prefix, Used, PrefixOf, BatchFirst, FirstOf, OneToOne, OneOf

LEMMA OfNextTables ==
  /\ Prefix' <=> PrefixOf(txn')
  /\ BatchFirst' <=> FirstOf(txn')
  /\ OneToOne' <=> OneOf(txn')
BY DEF Prefix, Used, PrefixOf, BatchFirst, FirstOf, OneToOne, OneOf, Live

LEMMA RecordedFits ==
  ASSUME IInv, NEW n \in Nat \ {0}, NextIds(n) \subseteq Txn,
         NEW source \in {"chat", "shortcut"}
  PROVE  LET ids == NextIds(n)
             c == Created(ids, source)
         IN  /\ PrefixOf(c) /\ FirstOf(c) /\ OneOf(c) /\ Whole(c, ids)
<1> DEFINE ids == NextIds(n)
           c == Created(ids, source)
           u == Cardinality(Used)
<1>0. TypeOK /\ Prefix /\ BatchFirst /\ OneToOne
  BY DEF IInv
<1>1. /\ u \in Nat /\ ids = (u + 1)..(u + n) /\ c \in Table
      /\ \A t \in Txn \ ids : c[t] = txn[t]
      /\ \A t \in ids : /\ txn[t].status = "absent" /\ t \in Txn /\ Live(c, t)
                        /\ c[t].batch = u + 1 /\ c[t].original = Null
      /\ \A t \in Txn : txn[t].status # "absent" => t <= u
      /\ {t \in Txn : c[t].status # "absent"} = 1..(u + n)
  BY <1>0, CreatedFacts
<1> HIDE DEF ids, c, u
<1>2. PrefixOf(c)
  <2>1. Cardinality(1..(u + n)) = u + n
    BY <1>1, FS_Interval
  <2> QED BY <1>1, <2>1 DEF PrefixOf
<1>3. \A t \in Txn \ ids : c[t].batch <= u /\ (Live(c, t) => Live(txn, t) /\ c[t].batch <= t)
  <2> SUFFICES ASSUME NEW t \in Txn \ ids
               PROVE  c[t].batch <= u /\ (Live(c, t) => Live(txn, t) /\ c[t].batch <= t)
    OBVIOUS
  <2>1. c[t] = txn[t] /\ t \in Nat
    BY <1>1, TxnNat
  <2>2. CASE Live(txn, t)
    <3>1. txn[t].batch <= t /\ t <= u
      BY <1>0, <1>1, <2>2 DEF BatchFirst, Live
    <3>2. txn[t].batch \in Nat
      BY <1>0, <2>2, LiveRow
    <3> QED BY <1>1, <2>1, <2>2, <3>1, <3>2 DEF Live
  <2>3. CASE ~Live(txn, t)
    <3>1. txn[t].batch = 0
      BY <1>0, <2>3, TxnNat DEF TypeOK, Row, Live, NoRow, Null
    <3> QED BY <1>1, <2>1, <2>3, <3>1 DEF Live
  <2> QED BY <2>2, <2>3
<1>4. \A t \in ids : t \in Nat /\ u + 1 <= t
  BY <1>1
<1>5. FirstOf(c)
  <2> SUFFICES ASSUME NEW t \in Txn, Live(c, t) PROVE c[t].batch <= t
    BY DEF FirstOf
  <2>1. CASE t \in ids
    BY <1>1, <1>4, <2>1
  <2>2. CASE t \notin ids
    BY <1>3, <2>2
  <2> QED BY <2>1, <2>2
<1>6. \A t \in Txn \ ids : c[t].batch # u + 1
  <2> SUFFICES ASSUME NEW t \in Txn \ ids, c[t].batch = u + 1 PROVE FALSE
    OBVIOUS
  <2> QED BY <1>1, <1>3
<1>7. Whole(c, ids)
  BY <1>1, <1>6 DEF Whole
<1>8. OneOf(c)
  <2> SUFFICES ASSUME NEW s \in Txn, NEW t \in Txn, Live(c, s), Live(c, t),
                      c[s].batch = c[t].batch
               PROVE  /\ c[s].original # t
                      /\ s # t /\ c[s].original # Null => c[s].original # c[t].original
    BY DEF OneOf
  <2>1. CASE s \in ids
    BY <1>1, <2>1, TxnNat
  <2>2. CASE s \notin ids
    <3>1. t \notin ids
      BY <1>1, <1>6, <2>2
    <3> QED BY <1>0, <1>1, <1>3, <2>2, <3>1 DEF OneToOne
  <2> QED BY <2>1, <2>2
<1> QED BY <1>2, <1>5, <1>7, <1>8 DEF ids, c

LEMMA MarkedFits ==
  ASSUME NEW table \in Table, NEW batch \in SUBSET Txn, \A t \in batch : Live(table, t),
         PrefixOf(table), FirstOf(table), OneOf(table), Whole(table, batch)
  PROVE  LET f == FlagNew(table, batch)
         IN  PrefixOf(f) /\ FirstOf(f) /\ OneOf(f)
<1> DEFINE f == FlagNew(table, batch)
<1>1. /\ \A t \in Txn : f[t].status = table[t].status /\ f[t].batch = table[t].batch
      /\ \A t \in Txn \ batch : f[t] = table[t]
      /\ \A t \in batch : f[t].original # Null => f[t].original \in Txn \ batch
      /\ \A s, t \in batch :
           s # t /\ f[s].original # Null => f[s].original # f[t].original
  BY FlagNewFacts
<1> HIDE DEF f
<1>2. {t \in Txn : f[t].status # "absent"} = {t \in Txn : table[t].status # "absent"}
  BY <1>1
<1>3. PrefixOf(f)
  BY <1>2 DEF PrefixOf
<1>4. FirstOf(f)
  BY <1>1 DEF FirstOf, Live
<1>5. OneOf(f)
  <2> SUFFICES ASSUME NEW s \in Txn, NEW t \in Txn, Live(f, s), Live(f, t),
                      f[s].batch = f[t].batch
               PROVE  /\ f[s].original # t
                      /\ s # t /\ f[s].original # Null => f[s].original # f[t].original
    BY DEF OneOf
  <2>1. CASE s \in batch
    <3>1. t \in batch
      BY <1>1, <2>1 DEF Whole
    <3> QED BY <1>1, <2>1, <3>1, TxnNat
  <2>2. CASE s \notin batch
    <3>1. t \notin batch
      BY <1>1, <2>2 DEF Whole
    <3>2. Live(table, s) /\ Live(table, t) /\ table[s].batch = table[t].batch
      BY <1>1 DEF Live
    <3> QED BY <1>1, <2>2, <3>1, <3>2 DEF OneOf
  <2> QED BY <2>1, <2>2
<1> QED BY <1>3, <1>4, <1>5 DEF f

LEMMA LaneRecordsStep ==
  ASSUME IInv, NEW n \in 1..MaxBatch, LaneRecords(n)
  PROVE  IInv'
<1> DEFINE ids == NextIds(n)
           c == Created(ids, "chat")
<1>0. n \in Nat \ {0}
  BY TxnNat
<1>1. /\ lane = Idle /\ ids \subseteq Txn /\ txn' = c
      /\ lane' = [Idle EXCEPT !.at = "created", !.batch = ids]
      /\ UNCHANGED <<shown, todo, flight, cut>>
  BY DEF LaneRecords
<1>2. TypeOK /\ Prefix /\ OriginalsExist /\ LaneFits
  BY DEF IInv
<1>3. /\ c \in Table
      /\ \A t \in Txn \ ids : c[t] = txn[t]
      /\ \A t \in ids : txn[t].status = "absent" /\ Live(c, t) /\ c[t].original = Null
  BY <1>0, <1>1, <1>2, CreatedFacts
<1>4. PrefixOf(c) /\ FirstOf(c) /\ OneOf(c) /\ Whole(c, ids)
  BY <1>0, <1>1, RecordedFits
<1> HIDE DEF ids, c
<1>5. TypeOK'
  BY <1>1, <1>2, <1>3 DEF TypeOK, Table, Idle, LaneStage
<1>6. LaneFits'
  BY <1>1, <1>2, <1>3, <1>4 DEF LaneFits, Idle, Whole, Sending
<1>7. OriginalsExist'
  <2> SUFFICES ASSUME NEW t \in Txn, Live(c, t), c[t].original # Null
               PROVE  Live(c, c[t].original) \/ c[t].original \in cut
    BY <1>1 DEF OriginalsExist
  <2>1. t \notin ids /\ c[t] = txn[t]
    BY <1>3
  <2>2. Live(txn, t) /\ txn[t].original \in Txn
    BY <1>2, <2>1 DEF Live, TypeOK, Row, NoRow
  <2>3. Live(txn, txn[t].original) \/ txn[t].original \in cut
    BY <1>1, <1>2, <2>1, <2>2 DEF OriginalsExist, Idle
  <2>4. \A o \in Txn : Live(txn, o) => Live(c, o)
    BY <1>3 DEF Live
  <2> QED BY <2>1, <2>2, <2>3, <2>4
<1> QED BY <1>1, <1>4, <1>5, <1>6, <1>7, OfNextTables DEF IInv

LEMMA ShortcutRecordsStep ==
  ASSUME IInv, NEW n \in 1..MaxBatch, ShortcutRecords(n)
  PROVE  IInv'
<1> DEFINE ids == NextIds(n)
           c == Created(ids, "shortcut")
           f == FlagNew(c, ids)
<1>0. n \in Nat \ {0}
  BY TxnNat
<1>1. /\ ids \subseteq Txn /\ txn' = f /\ SendNext("http", ids, f)
      /\ UNCHANGED <<shown, lane, cut>>
  BY DEF ShortcutRecords
<1>2. TypeOK /\ Prefix /\ BatchFirst /\ OriginalsExist /\ LaneFits
  BY DEF IInv
<1>3. /\ c \in Table
      /\ \A t \in Txn \ ids : c[t] = txn[t]
      /\ \A t \in ids : txn[t].status = "absent" /\ Live(c, t) /\ c[t].original = Null
      /\ \A t \in ids : c[t].batch = Cardinality(Used) + 1
      /\ \A t \in Txn : txn[t].status # "absent" => t <= Cardinality(Used)
      /\ Cardinality(Used) \in Nat
  BY <1>0, <1>1, <1>2, CreatedFacts
<1>4. PrefixOf(c) /\ FirstOf(c) /\ OneOf(c) /\ Whole(c, ids)
  BY <1>0, <1>1, RecordedFits
<1> HIDE DEF ids, c
<1>5. PrefixOf(f) /\ FirstOf(f) /\ OneOf(f)
  BY <1>1, <1>3, <1>4, MarkedFits
<1>6. /\ f \in Table
      /\ \A t \in Txn : f[t].status = c[t].status /\ f[t].batch = c[t].batch
      /\ \A t \in Txn \ ids : f[t] = c[t]
      /\ \A t \in ids : f[t].original # Null =>
           f[t].original \in Txn \ ids /\ Live(c, f[t].original)
  BY <1>1, <1>3, FlagNewFacts
<1> HIDE DEF f
<1>7. /\ todo' \in [Sender -> SUBSET Txn]
      /\ flight' \in [Sender -> [txn: Txn, warns: Txn \cup {Null}] \cup {Nothing}]
      /\ \A j \in Sender \ {"http"} : flight'[j] = flight[j]
  BY <1>1, <1>2, <1>6, SendNextFacts DEF Sender
<1>8. TypeOK'
  BY <1>1, <1>2, <1>6, <1>7 DEF TypeOK, Table
<1>9. \A o \in Txn : Live(txn, o) => o \notin ids /\ Live(f, o)
  BY <1>3, <1>6 DEF Live
<1>10. LaneFits'
  <2>1. lane.batch \subseteq Txn
    BY <1>2 DEF TypeOK
  <2>2. Sending("lane")' => Sending("lane")
    BY <1>7 DEF Sending, Sender
  <2>3. lane.at = "created" =>
          \A s \in lane.batch, t \in Txn : t \in lane.batch <=> f[t].batch = f[s].batch
    <3> SUFFICES ASSUME lane.at = "created", NEW s \in lane.batch, NEW t \in Txn
                 PROVE  t \in lane.batch <=> f[t].batch = f[s].batch
      OBVIOUS
    <3>1. Live(txn, s) /\ s \in Txn /\ s \notin ids /\ f[s].batch = txn[s].batch
      BY <1>2, <1>3, <1>6, <1>9, <2>1 DEF LaneFits
    <3>2. CASE t \notin ids
      <4>1. f[t].batch = txn[t].batch
        BY <1>3, <1>6, <3>2
      <4> QED BY <1>2, <3>1, <4>1 DEF LaneFits
    <3>3. CASE t \in ids
      <4>1. t \notin lane.batch
        BY <1>2, <1>9, <3>3, <2>1 DEF LaneFits
      <4>2. f[s].batch <= s /\ s <= Cardinality(Used) /\ s \in Nat
        BY <1>2, <1>3, <3>1, TxnNat DEF BatchFirst, Live
      <4>3. f[t].batch = Cardinality(Used) + 1
        BY <1>3, <1>6, <3>3, <1>1
      <4>4. f[s].batch \in Nat
        BY <1>2, <3>1, LiveRow
      <4>5. f[s].batch # f[t].batch
        BY <1>3, <4>2, <4>3, <4>4
      <4> QED BY <4>1, <4>5
    <3> QED BY <3>2, <3>3
  <2>4. \A t \in lane.batch : Live(txn, t) => Live(f, t)
    BY <1>9, <2>1
  <2> QED BY <1>1, <1>2, <2>2, <2>3, <2>4 DEF LaneFits
<1>11. OriginalsExist'
  <2> SUFFICES ASSUME NEW t \in Txn, Live(f, t), f[t].original # Null
               PROVE  \/ Live(f, f[t].original)
                      \/ lane.at = "deleting" /\ lane.target = f[t].original
                      \/ f[t].original \in cut
    BY <1>1 DEF OriginalsExist
  <2>1. CASE t \in ids
    BY <1>6, <2>1 DEF Live
  <2>2. CASE t \notin ids
    <3>1. f[t] = txn[t]
      BY <1>3, <1>6, <2>2
    <3>2. Live(txn, t) /\ txn[t].original \in Txn
      BY <1>2, <3>1 DEF Live, TypeOK, Row, NoRow
    <3> QED BY <1>2, <1>9, <3>1, <3>2 DEF OriginalsExist
  <2> QED BY <2>1, <2>2
<1> QED BY <1>1, <1>5, <1>8, <1>10, <1>11, OfNextTables DEF IInv

LEMMA LaneFlagsStep ==
  ASSUME IInv, LaneFlags
  PROVE  IInv'
<1> DEFINE f == FlagNew(txn, lane.batch)
<1>1. /\ lane.at = "created" /\ txn' = f /\ lane' = [lane EXCEPT !.at = "flagged"]
      /\ UNCHANGED <<shown, todo, flight, cut>>
  BY DEF LaneFlags
<1>2. TypeOK /\ OriginalsExist /\ LaneFits /\ txn \in Table /\ lane.batch \in SUBSET Txn
  BY DEF IInv, TypeOK, Table
<1>3. /\ \A t \in lane.batch : Live(txn, t)
      /\ Whole(txn, lane.batch)
  BY <1>1, <1>2 DEF LaneFits, Whole
<1>4. /\ f \in Table
      /\ \A t \in Txn : f[t].status = txn[t].status /\ f[t].batch = txn[t].batch
      /\ \A t \in Txn \ lane.batch : f[t] = txn[t]
      /\ \A t \in lane.batch : f[t].original # Null =>
           f[t].original \in Txn \ lane.batch /\ Live(txn, f[t].original)
  BY <1>2, <1>3, FlagNewFacts
<1>5. PrefixOf(f) /\ FirstOf(f) /\ OneOf(f)
  BY <1>2, <1>3, MarkedFits, OfTables DEF IInv
<1> HIDE DEF f
<1>6. TypeOK'
  BY <1>1, <1>2, <1>4 DEF TypeOK, Table, LaneStage
<1>7. \A o \in Txn : Live(txn, o) <=> Live(f, o)
  BY <1>4 DEF Live
<1>8. lane'.at = "flagged" /\ lane'.batch = lane.batch
  BY <1>1, <1>2 DEF TypeOK
<1>9. LaneFits'
  BY <1>1, <1>2, <1>3, <1>7, <1>8 DEF LaneFits, Sending
<1>10. OriginalsExist'
  <2> SUFFICES ASSUME NEW t \in Txn, Live(f, t), f[t].original # Null
               PROVE  Live(f, f[t].original) \/ f[t].original \in cut
    BY <1>1 DEF OriginalsExist
  <2>1. CASE t \in lane.batch
    BY <1>4, <1>7, <2>1
  <2>2. CASE t \notin lane.batch
    <3>1. f[t] = txn[t]
      BY <1>4, <2>2
    <3>2. Live(txn, t) /\ txn[t].original \in Txn
      BY <1>2, <3>1 DEF Live, TypeOK, Row, NoRow
    <3> QED BY <1>1, <1>2, <1>7, <3>1, <3>2 DEF OriginalsExist
  <2> QED BY <2>1, <2>2
<1> QED BY <1>1, <1>5, <1>6, <1>9, <1>10, OfNextTables DEF IInv

-----------------------------------------------------------------------------
(* The other steps of the senders, which change no row.                    *)

\* A sender goes to its next await, the rows and the marks as they are.
LEMMA SenderMoves ==
  ASSUME IInv, NEW k \in Sender, NEW ids \in SUBSET Txn, SendNext(k, ids, txn),
         UNCHANGED <<txn, cut>>,
         shown' \in [Message -> [txn: Txn \cup {Null}, warns: Txn \cup {Null}, live: BOOLEAN]],
         lane' \in [at: LaneStage, batch: SUBSET Txn, tapped: Message \cup {Null},
                    target: Txn \cup {Null}, card: Message \cup {Null}],
         LaneFits', Remembered
  PROVE  IInv'
<1>1. TypeOK /\ txn \in Table
  BY DEF IInv, TypeOK, Table
<1>2. /\ todo' \in [Sender -> SUBSET Txn]
      /\ flight' \in [Sender -> [txn: Txn, warns: Txn \cup {Null}] \cup {Nothing}]
  BY <1>1, SendNextFacts
<1>3. TypeOK'
  BY <1>1, <1>2 DEF TypeOK
<1>4. OriginalsExist'
  BY <1>1, SameSelf, MarksKept DEF IInv
<1> QED BY <1>3, <1>4, SameSelf, RowsKept DEF IInv

\* The lane alone moves; the chat may lose buttons or a warning.
LEMMA LaneMoves ==
  ASSUME IInv, UNCHANGED <<txn, todo, flight>>, cut \subseteq cut', cut' \in SUBSET Txn,
         shown' \in [Message -> [txn: Txn \cup {Null}, warns: Txn \cup {Null}, live: BOOLEAN]],
         lane' \in [at: LaneStage, batch: SUBSET Txn, tapped: Message \cup {Null},
                    target: Txn \cup {Null}, card: Message \cup {Null}],
         LaneFits', Remembered
  PROVE  IInv'
<1>1. TypeOK'
  BY DEF TypeOK, IInv
<1>2. OriginalsExist'
  BY SameSelf, MarksKept DEF IInv
<1> QED BY <1>1, <1>2, SameSelf, RowsKept DEF IInv

LEMMA IdleType ==
  Idle \in [at: LaneStage, batch: SUBSET Txn, tapped: Message \cup {Null},
            target: Txn \cup {Null}, card: Message \cup {Null}]
BY DEF Idle, LaneStage

LEMMA LaneSendsStep ==
  ASSUME IInv, LaneSends
  PROVE  IInv'
<1>1. /\ lane.at = "flagged" /\ SendNext("lane", lane.batch, txn)
      /\ lane' = [Idle EXCEPT !.at = "sending"] /\ UNCHANGED <<txn, shown, cut>>
  BY DEF LaneSends
<1>2. /\ lane.batch \in SUBSET Txn
      /\ shown \in [Message -> [txn: Txn \cup {Null}, warns: Txn \cup {Null}, live: BOOLEAN]]
  BY DEF IInv, TypeOK
<1>3. lane' \in [at: LaneStage, batch: SUBSET Txn, tapped: Message \cup {Null},
                 target: Txn \cup {Null}, card: Message \cup {Null}]
  BY <1>1 DEF Idle, LaneStage
<1>4. LaneFits' /\ Remembered
  BY <1>1 DEF LaneFits, Idle, Remembered
<1> QED BY <1>1, <1>2, <1>3, <1>4, SenderMoves DEF Sender

LEMMA LaneFailsStep ==
  ASSUME IInv, LaneFails
  PROVE  IInv'
<1>1. /\ lane.at \in {"created", "flagged"} /\ lane' = Idle
      /\ UNCHANGED <<txn, shown, todo, flight, cut>>
  BY DEF LaneFails
<1>2. LaneFits' /\ Remembered
  BY <1>1 DEF IInv, LaneFits, Idle, Sending, Remembered
<1>3. /\ cut \in SUBSET Txn
      /\ shown \in [Message -> [txn: Txn \cup {Null}, warns: Txn \cup {Null}, live: BOOLEAN]]
  BY DEF IInv, TypeOK
<1> QED BY <1>1, <1>2, <1>3, IdleType, LaneMoves

LEMMA JobStartsStep ==
  ASSUME IInv, JobStarts
  PROVE  IInv'
<1>1. SendNext("job", Undelivered, txn) /\ UNCHANGED <<txn, shown, lane, cut>>
  BY DEF JobStarts
<1>2. TypeOK /\ LaneFits /\ Undelivered \in SUBSET Txn /\ txn \in Table
  BY DEF IInv, Undelivered, TypeOK, Table
<1>3. flight'["lane"] = flight["lane"]
  BY <1>1, <1>2, SendNextFacts DEF Sender
<1>4. LaneFits' /\ Remembered
  BY <1>1, <1>2, <1>3 DEF LaneFits, Sending, Live, Remembered
<1>5. /\ shown' \in [Message -> [txn: Txn \cup {Null}, warns: Txn \cup {Null}, live: BOOLEAN]]
      /\ lane' \in [at: LaneStage, batch: SUBSET Txn, tapped: Message \cup {Null},
                    target: Txn \cup {Null}, card: Message \cup {Null}]
  BY <1>1, <1>2 DEF TypeOK
<1> QED BY <1>1, <1>2, <1>4, <1>5, SenderMoves DEF Sender

LEMMA RefreshCopyStep ==
  ASSUME IInv, RefreshCopy
  PROVE  IInv'
<1>1. PICK t \in lane.batch :
        /\ \/ /\ txn[t].card # Null
              /\ shown' = [shown EXCEPT ![txn[t].card].warns = Warning(txn, t)]
              /\ UNCHANGED <<todo, flight>>
           \/ SendNext("lane", {t}, txn) /\ UNCHANGED shown
        /\ lane' = [lane EXCEPT !.batch = @ \ {t}]
  BY DEF RefreshCopy
<1>2. lane.at = "refreshing" /\ UNCHANGED <<txn, cut>>
  BY DEF RefreshCopy
<1>3. TypeOK /\ LaneFits /\ t \in Txn /\ cut \in SUBSET Txn
  BY DEF IInv, TypeOK
<1>4. lane'.at = "refreshing" /\ lane'.target = lane.target
      /\ lane' \in [at: LaneStage, batch: SUBSET Txn, tapped: Message \cup {Null},
                    target: Txn \cup {Null}, card: Message \cup {Null}]
  BY <1>1, <1>2, <1>3 DEF TypeOK
<1>5. LaneFits' /\ Remembered
  BY <1>2, <1>3, <1>4 DEF LaneFits, Remembered
<1>6. shown' \in [Message -> [txn: Txn \cup {Null}, warns: Txn \cup {Null}, live: BOOLEAN]]
  <2>1. Warning(txn, t) \in Txn \cup {Null}
    <3>1. txn[t].original \in Txn \cup {Null}
      BY <1>3 DEF TypeOK, Row, NoRow
    <3> QED BY <3>1 DEF Warning
  <2>2. CASE shown' = [shown EXCEPT ![txn[t].card].warns = Warning(txn, t)]
    BY ZenonT(30), <1>3, <2>1, <2>2 DEF TypeOK
  <2>3. CASE UNCHANGED shown
    BY <1>3, <2>3 DEF TypeOK
  <2> QED BY <1>1, <2>2, <2>3
<1>7. CASE SendNext("lane", {t}, txn)
  BY <1>2, <1>3, <1>4, <1>5, <1>6, <1>7, SenderMoves DEF Sender
<1>8. CASE UNCHANGED <<todo, flight>>
  BY <1>2, <1>3, <1>4, <1>5, <1>6, <1>8, LaneMoves
<1> QED BY <1>1, <1>7, <1>8

-----------------------------------------------------------------------------
(* The delete button, and the restart.                                     *)

LEMMA TapDeleteStep ==
  ASSUME IInv, NEW m \in Message, TapDelete(m)
  PROVE  IInv'
<1>1. /\ lane = Idle /\ Live(txn, shown[m].txn)
      /\ UNCHANGED <<shown, todo, flight, cut>>
  BY DEF TapDelete
<1>2. PICK t \in Txn :
        /\ Live(txn, t) /\ txn' = [txn EXCEPT ![t] = NoRow("deleted")]
        /\ lane' = [at |-> "deleting", batch |-> {}, tapped |-> m,
                    target |-> t, card |-> txn[t].card]
  BY <1>1 DEF TapDelete, IInv, TypeOK, Live
<1>3. TypeOK /\ Prefix /\ BatchFirst /\ OneToOne /\ LaneFits /\ OriginalsExist
  BY DEF IInv
<1>4. txn'[t].status = "deleted" /\ txn[t].status = "live"
      /\ \A s \in Txn \ {t} : txn'[s] = txn[s]
  BY <1>2, <1>3 DEF TypeOK, NoRow, Live
<1>5. \A s \in Txn : Live(txn', s) <=> (s # t /\ Live(txn, s))
  BY <1>4 DEF Live
<1>6. TypeOK'
  <2>1. txn[t].card \in Message \cup {Null}
    BY <1>2, <1>3, LiveRow
  <2> QED BY <1>1, <1>2, <1>3, <2>1 DEF TypeOK, LaneStage
<1>7. LaneFits'
  <2>1. ~Sending("lane")'
    BY <1>1, <1>3 DEF LaneFits, Sending, Idle
  <2> QED BY <1>2, <2>1 DEF LaneFits
<1>8. Prefix'
  <2>1. Used' = Used
    BY <1>4 DEF Used
  <2> QED BY <1>3, <2>1 DEF Prefix
<1>9. BatchFirst'
  <2> SUFFICES ASSUME NEW s \in Txn, Live(txn', s) PROVE txn'[s].batch <= s
    BY DEF BatchFirst
  <2> QED BY <1>3, <1>4, <1>5 DEF BatchFirst
<1>10. OneToOne'
  <2>1. OneOf(txn')
    BY <1>3, <1>4, <1>5 DEF OneOf, OneToOne
  <2> QED BY <2>1, OfNextTables
<1>11. OriginalsExist'
  <2> SUFFICES ASSUME NEW s \in Txn, Live(txn', s), txn'[s].original # Null
               PROVE  \/ Live(txn', txn'[s].original)
                      \/ lane'.at = "deleting" /\ lane'.target = txn'[s].original
                      \/ txn'[s].original \in cut'
    BY DEF OriginalsExist
  <2>1. Live(txn, s) /\ txn'[s] = txn[s] /\ txn[s].original \in Txn
    BY <1>3, <1>4, <1>5, LiveRow
  <2>2. Live(txn, txn[s].original) \/ txn[s].original \in cut
    BY <1>1, <1>3, <2>1 DEF OriginalsExist, Idle
  <2>3. CASE txn[s].original = t
    BY <1>2, <2>1, <2>3
  <2>4. CASE txn[s].original # t
    BY <1>1, <1>5, <2>1, <2>2, <2>4
  <2> QED BY <2>3, <2>4
<1> QED BY <1>6, <1>7, <1>8, <1>9, <1>10, <1>11 DEF IInv

LEMMA DeleteShownStep ==
  ASSUME IInv, DeleteShown
  PROVE  IInv'
<1>1. /\ lane.at = "deleting" /\ txn' = Release(txn, lane.target)
      /\ shown' = [shown EXCEPT ![lane.tapped].live = FALSE]
      /\ lane' = [lane EXCEPT !.at = "refreshing",
                              !.batch = {t \in Txn : txn[t].original = lane.target}]
      /\ UNCHANGED <<todo, flight, cut>>
  BY DEF DeleteShown
<1>2. /\ TypeOK /\ Prefix /\ BatchFirst /\ OneToOne /\ LaneFits /\ OriginalsExist
      /\ txn \in Table /\ lane.target \in Txn
  BY <1>1 DEF IInv, LaneFits, TypeOK, Table
<1>3. /\ txn' \in Table
      /\ \A t \in Txn :
           /\ txn'[t].status = txn[t].status /\ txn'[t].batch = txn[t].batch
           /\ txn'[t].original
                = (IF txn[t].original = lane.target THEN Null ELSE txn[t].original)
  BY <1>1, <1>2, ReleaseFacts
<1>4. \A s \in Txn : Live(txn', s) <=> Live(txn, s)
  BY <1>3 DEF Live
<1>5. lane'.at = "refreshing" /\ lane'.target = lane.target
      /\ lane' \in [at: LaneStage, batch: SUBSET Txn, tapped: Message \cup {Null},
                    target: Txn \cup {Null}, card: Message \cup {Null}]
  <2>1. {t \in Txn : txn[t].original = lane.target} \in SUBSET Txn
    OBVIOUS
  <2> QED BY <1>1, <1>2, <2>1 DEF TypeOK, LaneStage
<1>6. TypeOK'
  <2>1. /\ shown \in [Message -> [txn: Txn \cup {Null}, warns: Txn \cup {Null}, live: BOOLEAN]]
        /\ todo \in [Sender -> SUBSET Txn] /\ cut \in SUBSET Txn
        /\ flight \in [Sender -> [txn: Txn, warns: Txn \cup {Null}] \cup {Nothing}]
    BY <1>2 DEF TypeOK
  <2>2. shown' \in [Message -> [txn: Txn \cup {Null}, warns: Txn \cup {Null}, live: BOOLEAN]]
    BY <1>1, <2>1
  <2>3. txn' \in [Txn -> Row \cup {NoRow("absent"), NoRow("deleted")}]
    BY <1>3 DEF Table
  <2> QED BY <1>1, <1>5, <2>1, <2>2, <2>3 DEF TypeOK
<1>7. LaneFits'
  BY <1>2, <1>5 DEF LaneFits
<1>8. Prefix'
  <2>1. Used' = Used
    BY <1>3 DEF Used
  <2> QED BY <1>2, <2>1 DEF Prefix
<1>9. FirstOf(txn')
  BY <1>2, <1>3, <1>4 DEF FirstOf, BatchFirst
<1>10. OneOf(txn')
  <2> SUFFICES ASSUME NEW s \in Txn, NEW t \in Txn, Live(txn', s), Live(txn', t),
                      txn'[s].batch = txn'[t].batch
               PROVE  /\ txn'[s].original # t
                      /\ s # t /\ txn'[s].original # Null
                           => txn'[s].original # txn'[t].original
    BY DEF OneOf
  <2>1. /\ txn[s].original # t
        /\ s # t /\ txn[s].original # Null => txn[s].original # txn[t].original
    BY <1>2, <1>3, <1>4 DEF OneToOne
  <2> QED BY <1>3, <2>1, TxnNat
<1>11. OriginalsExist'
  <2> SUFFICES ASSUME NEW s \in Txn, Live(txn', s), txn'[s].original # Null
               PROVE  Live(txn', txn'[s].original) \/ txn'[s].original \in cut'
    BY DEF OriginalsExist
  <2>1. Live(txn, s) /\ txn'[s].original = txn[s].original /\ txn[s].original # lane.target
    BY <1>3, <1>4
  <2>2. txn[s].original \in Txn
    BY <1>2, <2>1, LiveRow
  <2>3. Live(txn, txn[s].original) \/ txn[s].original \in cut
    BY <1>2, <2>1 DEF OriginalsExist
  <2> QED BY <1>1, <1>4, <2>1, <2>2, <2>3
<1> QED BY <1>6, <1>7, <1>8, <1>9, <1>10, <1>11, OfNextTables DEF IInv

LEMMA DeleteFailsStep ==
  ASSUME IInv, DeleteFails
  PROVE  IInv'
<1>1. /\ lane.at = "deleting" /\ lane' = Idle /\ cut' = cut \cup {lane.target}
      /\ UNCHANGED <<txn, shown, todo, flight>>
  BY DEF DeleteFails
<1>2. LaneFits' /\ Remembered
  BY <1>1 DEF IInv, LaneFits, Idle, Sending, Remembered
<1>3. /\ cut' \in SUBSET Txn
      /\ shown \in [Message -> [txn: Txn \cup {Null}, warns: Txn \cup {Null}, live: BOOLEAN]]
  BY <1>1 DEF IInv, TypeOK, LaneFits
<1> QED BY <1>1, <1>2, <1>3, IdleType, LaneMoves

LEMMA DeleteEndsStep ==
  ASSUME IInv, DeleteEnds
  PROVE  IInv'
<1>1. /\ lane.at = "refreshing" /\ ~Sending("lane") /\ lane' = Idle
      /\ UNCHANGED <<txn, todo, flight, cut>>
      /\ \/ UNCHANGED shown
         \/ lane.card \in Message /\ shown' = [shown EXCEPT ![lane.card].live = FALSE]
  BY DEF DeleteEnds
<1>2. LaneFits' /\ Remembered
  BY <1>1 DEF LaneFits, Idle, Sending, Remembered
<1>3. /\ cut \in SUBSET Txn
      /\ shown' \in [Message -> [txn: Txn \cup {Null}, warns: Txn \cup {Null}, live: BOOLEAN]]
  <2>1. shown \in [Message -> [txn: Txn \cup {Null}, warns: Txn \cup {Null}, live: BOOLEAN]]
        /\ cut \in SUBSET Txn
    BY DEF IInv, TypeOK
  <2>2. CASE UNCHANGED shown
    BY <2>1, <2>2
  <2>3. CASE lane.card \in Message /\ shown' = [shown EXCEPT ![lane.card].live = FALSE]
    BY <2>1, <2>3
  <2> QED BY <1>1, <2>1, <2>2, <2>3
<1> QED BY <1>1, <1>2, <1>3, IdleType, LaneMoves

LEMMA CrashStep ==
  ASSUME IInv, Crash
  PROVE  IInv'
<1>1. /\ UNCHANGED shown \/ (\E k \in Sender, m \in Message : Sending(k) /\ Appears(k, m))
      /\ todo' = [k \in Sender |-> {}] /\ flight' = [k \in Sender |-> Nothing]
      /\ lane' = Idle /\ txn' = txn
      /\ cut' = (IF lane.at \in {"deleting", "refreshing"} THEN cut \cup {lane.target} ELSE cut)
  BY DEF Crash
<1>2. TypeOK /\ LaneFits /\ cut \subseteq cut' /\ cut' \in SUBSET Txn
  BY <1>1 DEF IInv, LaneFits, TypeOK
<1>3. shown' \in [Message -> [txn: Txn \cup {Null}, warns: Txn \cup {Null}, live: BOOLEAN]]
  BY <1>1, <1>2, AppearsFacts DEF TypeOK
<1>4. TypeOK'
  BY <1>1, <1>2, <1>3, IdleType DEF TypeOK
<1>5. LaneFits'
  BY <1>1 DEF LaneFits, Idle, Sending, Sender
<1>6. Remembered
  BY <1>1 DEF Remembered
<1>7. OriginalsExist'
  BY <1>1, <1>2, <1>6, SameSelf, MarksKept DEF IInv
<1> QED BY <1>1, <1>4, <1>5, <1>7, SameSelf, RowsKept DEF IInv

-----------------------------------------------------------------------------
(* The cards that the rows remember.                                       *)

\* A deletion holds messages of the row that it deleted, and of no other.
CardsFit ==
  /\ RememberedCardWorks
  /\ lane.at = "deleting" => shown[lane.tapped].txn = lane.target
  /\ lane.at \in {"deleting", "refreshing"} =>
       /\ txn[lane.target].status = "deleted"
       /\ lane.card # Null => shown[lane.card].txn = lane.target

\* What the steps that store no card and end no button keep.
CardsStay ==
  /\ \A t \in Txn : txn[t].status = "deleted" => txn'[t].status = "deleted"
  /\ \A t \in Txn : Live(txn', t) /\ txn'[t].card # Null =>
       Live(txn, t) /\ txn'[t].card = txn[t].card
ChatStays ==
  \A m \in Message : shown[m].txn # Null =>
    shown'[m].txn = shown[m].txn /\ shown'[m].live = shown[m].live
LaneStays ==
  /\ lane'.at = "deleting" => lane.at = "deleting" /\ lane'.tapped = lane.tapped
  /\ lane'.at \in {"deleting", "refreshing"} =>
       /\ lane.at \in {"deleting", "refreshing"}
       /\ lane'.target = lane.target /\ lane'.card = lane.card

LEMMA CardsKept ==
  ASSUME TypeOK, LaneFits, CardsFit, CardsStay, ChatStays, LaneStays
  PROVE  CardsFit'
<1>1. RememberedCardWorks'
  <2> SUFFICES ASSUME NEW t \in Txn, Live(txn', t), txn'[t].card # Null
               PROVE  shown'[txn'[t].card].txn = t /\ shown'[txn'[t].card].live
    BY DEF RememberedCardWorks
  <2>1. Live(txn, t) /\ txn'[t].card = txn[t].card /\ txn[t].card # Null
    BY DEF CardsStay
  <2>2. txn[t].card \in Message
    BY <2>1, LiveRow
  <2>3. shown[txn[t].card].txn = t /\ shown[txn[t].card].live
    BY <2>1 DEF CardsFit, RememberedCardWorks
  <2> QED BY <2>1, <2>2, <2>3, TxnNat DEF ChatStays
<1>2. lane'.at = "deleting" => shown'[lane'.tapped].txn = lane'.target
  BY TxnNat DEF LaneStays, LaneFits, CardsFit, ChatStays
<1>3. ASSUME lane'.at \in {"deleting", "refreshing"}
      PROVE  /\ txn'[lane'.target].status = "deleted"
             /\ lane'.card # Null => shown'[lane'.card].txn = lane'.target
  <2>1. lane.at \in {"deleting", "refreshing"} /\ lane'.target = lane.target
        /\ lane'.card = lane.card /\ lane.target \in Txn
    BY <1>3 DEF LaneStays, LaneFits
  <2>2. lane.card # Null => lane.card \in Message /\ shown[lane.card].txn = lane.target
    BY <2>1 DEF TypeOK, CardsFit
  <2> QED BY <2>1, <2>2, TxnNat DEF CardsFit, CardsStay, ChatStays
<1> QED BY <1>1, <1>2, <1>3 DEF CardsFit

LEMMA NothingStored == ASSUME txn' = txn PROVE CardsStay
BY DEF CardsStay

LEMMA AppearsKeeps ==
  ASSUME TypeOK, NEW k \in Sender, NEW m \in Message, Appears(k, m)
  PROVE  ChatStays
<1>1. shown[m].txn = Null /\ \A n \in Message \ {m} : shown'[n] = shown[n]
  BY DEF Appears, FreeMessages, TypeOK
<1> QED BY <1>1 DEF ChatStays

LEMMA DeliveredCards ==
  ASSUME IInv, CardsFit, NEW k \in Sender, Delivered(k)
  PROVE  CardsFit'
<1>1. PICK m \in Message : Appears(k, m) /\ txn' = SetCard(txn, flight[k].txn, m)
  BY DEF Delivered
<1>2. Sending(k) /\ IF k = "lane" THEN LaneAfterSend ELSE UNCHANGED lane
  BY DEF Delivered
<1>3. TypeOK /\ LaneFits /\ txn \in Table /\ flight[k].txn \in Txn
  BY <1>2 DEF IInv, TypeOK, Sending, Table
<1>4. lane' \in {lane, Idle}
  BY <1>2 DEF LaneAfterSend
<1>5. /\ shown[m].txn = Null
      /\ shown'[m].txn = flight[k].txn /\ shown'[m].live = TRUE
      /\ \A n \in Message \ {m} : shown'[n] = shown[n]
  BY <1>1, <1>3 DEF Appears, FreeMessages, TypeOK
<1>6. /\ \A t \in Txn : txn'[t].status = txn[t].status
      /\ \A t \in Txn \ {flight[k].txn} : txn'[t] = txn[t]
      /\ ~Live(txn, flight[k].txn) => txn' = txn
      /\ Live(txn, flight[k].txn) => txn'[flight[k].txn].card = m
  <2>1. txn[flight[k].txn] \in Row \/ ~Live(txn, flight[k].txn)
    BY <1>3, LiveRow
  <2> QED BY <1>1, <1>3, <2>1 DEF SetCard, Table, Row
<1>7. RememberedCardWorks'
  <2> SUFFICES ASSUME NEW t \in Txn, Live(txn', t), txn'[t].card # Null
               PROVE  shown'[txn'[t].card].txn = t /\ shown'[txn'[t].card].live
    BY DEF RememberedCardWorks
  <2>1. Live(txn, t)
    BY <1>6 DEF Live
  <2>2. CASE t = flight[k].txn
    BY <1>5, <1>6, <2>1, <2>2
  <2>3. CASE t # flight[k].txn
    <3>1. txn'[t] = txn[t] /\ txn[t].card \in Message
      BY <1>3, <1>6, <2>1, <2>3, LiveRow
    <3>2. shown[txn[t].card].txn = t /\ shown[txn[t].card].live
      BY <2>1, <3>1 DEF CardsFit, RememberedCardWorks
    <3> QED BY <1>5, <3>1, <3>2, TxnNat
  <2> QED BY <2>2, <2>3
<1>8. CASE lane' = lane
  <2>1. lane.at = "deleting" => shown'[lane.tapped].txn = lane.target
    BY <1>3, <1>5, TxnNat DEF CardsFit, LaneFits
  <2>2. lane.at \in {"deleting", "refreshing"} =>
          /\ txn'[lane.target].status = "deleted"
          /\ lane.card # Null => shown'[lane.card].txn = lane.target
    <3> SUFFICES ASSUME lane.at \in {"deleting", "refreshing"}
                 PROVE  /\ txn'[lane.target].status = "deleted"
                        /\ lane.card # Null => shown'[lane.card].txn = lane.target
      OBVIOUS
    <3>1. lane.target \in Txn /\ lane.card \in Message \cup {Null}
      BY <1>3 DEF LaneFits, TypeOK
    <3> QED BY <1>5, <1>6, <3>1, TxnNat DEF CardsFit
  <2> QED BY <1>7, <1>8, <2>1, <2>2 DEF CardsFit
<1>9. CASE lane' = Idle
  BY <1>7, <1>9 DEF CardsFit, Idle
<1> QED BY <1>4, <1>8, <1>9

LEMMA RecordsCards ==
  ASSUME IInv, CardsFit, NEW n \in 1..MaxBatch, LaneRecords(n) \/ ShortcutRecords(n)
  PROVE  CardsFit'
<1>0. n \in Nat \ {0} /\ TypeOK /\ Prefix /\ LaneFits /\ NextIds(n) \subseteq Txn
  BY TxnNat DEF IInv, LaneRecords, ShortcutRecords
<1>1. ASSUME NEW source \in {"chat", "shortcut"}
      PROVE  LET c == Created(NextIds(n), source) IN
             /\ c \in Table /\ \A t \in NextIds(n) : Live(c, t)
             /\ \A t \in Txn : txn[t].status = "deleted" => c[t].status = "deleted"
             /\ \A t \in Txn : Live(c, t) /\ c[t].card # Null =>
                  Live(txn, t) /\ c[t].card = txn[t].card
  <2> DEFINE c == Created(NextIds(n), source)
  <2>1. /\ c \in Table
        /\ \A t \in Txn \ NextIds(n) : c[t] = txn[t]
        /\ \A t \in NextIds(n) : txn[t].status = "absent" /\ Live(c, t) /\ c[t].card = Null
    BY <1>0, CreatedFacts
  <2> HIDE DEF c
  <2>2. \A t \in Txn : txn[t].status = "deleted" => c[t].status = "deleted"
    BY <2>1
  <2>3. \A t \in Txn : Live(c, t) /\ c[t].card # Null =>
          Live(txn, t) /\ c[t].card = txn[t].card
    BY <2>1 DEF Live
  <2> QED BY <2>1, <2>2, <2>3 DEF c
<1>2. CardsStay
  <2>1. CASE LaneRecords(n)
    BY <1>1, <2>1 DEF LaneRecords, CardsStay
  <2>2. CASE ShortcutRecords(n)
    <3> DEFINE c == Created(NextIds(n), "shortcut")
               f == FlagNew(c, NextIds(n))
    <3>1. /\ c \in Table /\ \A t \in NextIds(n) : Live(c, t)
          /\ \A t \in Txn : txn[t].status = "deleted" => c[t].status = "deleted"
          /\ \A t \in Txn : Live(c, t) /\ c[t].card # Null =>
               Live(txn, t) /\ c[t].card = txn[t].card
      BY <1>1
    <3> HIDE DEF c
    <3>2. \A t \in Txn : f[t].status = c[t].status /\ f[t].card = c[t].card
      BY <1>0, <3>1, FlagNewFacts
    <3>3. txn' = f
      BY <2>2 DEF ShortcutRecords, c
    <3> HIDE DEF f
    <3> QED BY <3>1, <3>2, <3>3 DEF CardsStay, Live
  <2> QED BY <2>1, <2>2
<1>3. ChatStays /\ LaneStays
  BY DEF LaneRecords, ShortcutRecords, ChatStays, LaneStays, Idle
<1> QED BY <1>0, <1>2, <1>3, CardsKept

LEMMA LaneFlagsCards ==
  ASSUME IInv, CardsFit, LaneFlags
  PROVE  CardsFit'
<1> DEFINE f == FlagNew(txn, lane.batch)
<1>1. TypeOK /\ LaneFits /\ txn \in Table /\ lane.batch \in SUBSET Txn /\ lane.at = "created"
      /\ \A t \in lane.batch : Live(txn, t)
  BY DEF IInv, TypeOK, Table, LaneFlags, LaneFits
<1>2. \A t \in Txn : f[t].status = txn[t].status /\ f[t].card = txn[t].card
  BY <1>1, FlagNewFacts
<1>3. txn' = f /\ shown' = shown /\ lane' = [lane EXCEPT !.at = "flagged"]
  BY DEF LaneFlags
<1> HIDE DEF f
<1>4. CardsStay
  BY <1>2, <1>3 DEF CardsStay, Live
<1>5. ChatStays /\ LaneStays
  BY <1>1, <1>3 DEF ChatStays, LaneStays, TypeOK
<1> QED BY <1>1, <1>4, <1>5, CardsKept

LEMMA QuietCards ==
  ASSUME IInv, CardsFit,
         LaneSends \/ LaneFails \/ JobStarts \/ DeleteFails
  PROVE  CardsFit'
<1>1. TypeOK /\ LaneFits /\ txn' = txn /\ shown' = shown
  BY DEF IInv, LaneSends, LaneFails, JobStarts, DeleteFails
<1>2. lane' = lane \/ lane'.at \in {"idle", "sending"}
  BY DEF LaneSends, LaneFails, JobStarts, DeleteFails, Idle
<1>3. ChatStays /\ LaneStays
  BY <1>1, <1>2 DEF ChatStays, LaneStays
<1> QED BY <1>1, <1>3, NothingStored, CardsKept

LEMMA LostCards ==
  ASSUME IInv, CardsFit, Crash \/ \E k \in Sender : SendFails(k)
  PROVE  CardsFit'
<1>1. TypeOK /\ LaneFits /\ txn' = txn /\ lane' \in {lane, Idle}
  BY DEF IInv, Crash, SendFails
<1>2. ChatStays
  <2>1. UNCHANGED shown \/ \E k \in Sender, m \in Message : Appears(k, m)
    BY DEF Crash, SendFails
  <2>2. UNCHANGED shown => ChatStays
    BY DEF ChatStays
  <2> QED BY <1>1, <2>1, <2>2, AppearsKeeps
<1>3. LaneStays
  BY <1>1 DEF LaneStays, Idle
<1> QED BY <1>1, <1>2, <1>3, NothingStored, CardsKept

LEMMA RefreshCards ==
  ASSUME IInv, CardsFit, RefreshCopy
  PROVE  CardsFit'
<1>1. PICK t \in lane.batch :
        /\ \/ shown' = [shown EXCEPT ![txn[t].card].warns = Warning(txn, t)]
           \/ UNCHANGED shown
        /\ lane' = [lane EXCEPT !.batch = @ \ {t}]
  BY DEF RefreshCopy
<1>2. TypeOK /\ LaneFits /\ txn' = txn
  BY DEF IInv, RefreshCopy
<1>3. ChatStays
  BY <1>1, <1>2 DEF ChatStays, TypeOK
<1>4. LaneStays
  BY <1>1, <1>2 DEF LaneStays, TypeOK
<1> QED BY <1>2, <1>3, <1>4, NothingStored, CardsKept

LEMMA TapDeleteCards ==
  ASSUME IInv, CardsFit, NEW m \in Message, TapDelete(m)
  PROVE  CardsFit'
<1>1. TypeOK /\ shown' = shown /\ Live(txn, shown[m].txn)
  BY DEF IInv, TapDelete
<1>2. PICK t \in Txn :
        /\ t = shown[m].txn /\ Live(txn, t) /\ txn' = [txn EXCEPT ![t] = NoRow("deleted")]
        /\ lane' = [at |-> "deleting", batch |-> {}, tapped |-> m,
                    target |-> t, card |-> txn[t].card]
  BY <1>1 DEF TapDelete, TypeOK, Live
<1>3. txn'[t].status = "deleted" /\ \A s \in Txn \ {t} : txn'[s] = txn[s]
  BY <1>1, <1>2 DEF TypeOK, NoRow
<1>4. RememberedCardWorks'
  BY <1>1, <1>3 DEF CardsFit, RememberedCardWorks, Live
<1>5. txn[t].card # Null => shown[txn[t].card].txn = t
  BY <1>2 DEF CardsFit, RememberedCardWorks
<1> QED BY <1>1, <1>2, <1>3, <1>4, <1>5 DEF CardsFit

\* Buttons of a message of a row that is no more are taken away.
LEMMA ButtonsEnd ==
  ASSUME TypeOK, CardsFit, NEW t \in Txn, txn[t].status = "deleted",
         NEW m \in Message, shown[m].txn = t,
         shown' = [shown EXCEPT ![m].live = FALSE],
         \A s \in Txn : txn'[s].status = txn[s].status /\ txn'[s].card = txn[s].card
  PROVE  /\ RememberedCardWorks'
         /\ \A n \in Message : shown'[n].txn = shown[n].txn
<1>1. /\ \A n \in Message : shown'[n].txn = shown[n].txn
      /\ \A n \in Message \ {m} : shown'[n] = shown[n]
  BY DEF TypeOK
<1>2. ASSUME NEW s \in Txn, Live(txn', s), txn'[s].card # Null
      PROVE  shown'[txn'[s].card].txn = s /\ shown'[txn'[s].card].live
  <2>1. Live(txn, s) /\ txn'[s].card = txn[s].card
    BY <1>2 DEF Live
  <2>2. txn[s].card \in Message /\ shown[txn[s].card].txn = s /\ shown[txn[s].card].live
    BY <1>2, <2>1, LiveRow DEF CardsFit, RememberedCardWorks
  <2>3. s # t
    BY <2>1 DEF Live
  <2> QED BY <1>1, <2>1, <2>2, <2>3
<1> QED BY <1>1, <1>2 DEF RememberedCardWorks

LEMMA DeleteShownCards ==
  ASSUME IInv, CardsFit, DeleteShown
  PROVE  CardsFit'
<1>1. TypeOK /\ txn \in Table /\ lane.at = "deleting" /\ lane.target \in Txn
      /\ lane.tapped \in Message
  BY DEF IInv, LaneFits, DeleteShown, TypeOK, Table
<1>2. /\ txn' = Release(txn, lane.target)
      /\ shown' = [shown EXCEPT ![lane.tapped].live = FALSE]
  BY DEF DeleteShown
<1>3. \A s \in Txn : txn'[s].status = txn[s].status /\ txn'[s].card = txn[s].card
  BY <1>1, <1>2, ReleaseFacts
<1>4. /\ txn[lane.target].status = "deleted" /\ shown[lane.tapped].txn = lane.target
      /\ lane.card # Null => shown[lane.card].txn = lane.target
  BY <1>1 DEF CardsFit
<1>5. RememberedCardWorks' /\ \A n \in Message : shown'[n].txn = shown[n].txn
  BY <1>1, <1>2, <1>3, <1>4, ButtonsEnd
<1>6. lane'.at = "refreshing" /\ lane'.target = lane.target /\ lane'.card = lane.card
      /\ lane.card \in Message \cup {Null}
  BY <1>1 DEF DeleteShown, TypeOK
<1> QED BY <1>1, <1>3, <1>4, <1>5, <1>6 DEF CardsFit

LEMMA DeleteEndsCards ==
  ASSUME IInv, CardsFit, DeleteEnds
  PROVE  CardsFit'
<1>1. TypeOK /\ lane.at = "refreshing" /\ lane.target \in Txn /\ txn' = txn /\ lane' = Idle
  BY DEF IInv, LaneFits, DeleteEnds
<1>2. CASE UNCHANGED shown
  BY <1>1, <1>2 DEF CardsFit, RememberedCardWorks, Idle, Live
<1>3. CASE lane.card \in Message /\ shown' = [shown EXCEPT ![lane.card].live = FALSE]
  <2>1. txn[lane.target].status = "deleted" /\ shown[lane.card].txn = lane.target
    BY <1>1, <1>3, TxnNat DEF CardsFit
  <2>2. RememberedCardWorks'
    BY <1>1, <1>3, <2>1, ButtonsEnd
  <2> QED BY <1>1, <2>2 DEF CardsFit, Idle
<1> QED BY <1>2, <1>3 DEF DeleteEnds

LEMMA NextCards == (IInv /\ CardsFit /\ [Next]_vars) => CardsFit'
<1> SUFFICES ASSUME IInv, CardsFit, [Next]_vars PROVE CardsFit'
  OBVIOUS
<1>1. ASSUME NEW n \in 1..MaxBatch, LaneRecords(n) \/ ShortcutRecords(n) PROVE CardsFit'
  BY <1>1, RecordsCards
<1>2. CASE LaneStep
  BY <1>2, LaneFlagsCards, QuietCards, DeleteShownCards, RefreshCards, DeleteEndsCards
     DEF LaneStep
<1>3. ASSUME NEW m \in Message, TapDelete(m) PROVE CardsFit'
  BY <1>3, TapDeleteCards
<1>4. ASSUME NEW k \in Sender, Delivered(k) \/ SendFails(k) PROVE CardsFit'
  BY <1>4, DeliveredCards, LostCards
<1>5. CASE JobStarts
  BY <1>5, QuietCards
<1>6. CASE Crash
  BY <1>6, LostCards
<1>7. CASE UNCHANGED vars
  <2>1. TypeOK /\ LaneFits /\ txn' = txn /\ ChatStays /\ LaneStays
    BY <1>7 DEF vars, IInv, ChatStays, LaneStays
  <2> QED BY <2>1, NothingStored, CardsKept
<1> QED BY <1>1, <1>2, <1>3, <1>4, <1>5, <1>6, <1>7 DEF Next

-----------------------------------------------------------------------------
(* Every step, and the theorems.                                           *)

LEMMA NextIInv == (IInv /\ [Next]_vars) => IInv'
<1> SUFFICES ASSUME IInv, [Next]_vars PROVE IInv'
  OBVIOUS
<1>1. ASSUME NEW n \in 1..MaxBatch, LaneRecords(n) \/ ShortcutRecords(n) PROVE IInv'
  BY <1>1, LaneRecordsStep, ShortcutRecordsStep
<1>2. CASE LaneStep
  BY <1>2, LaneFlagsStep, LaneSendsStep, LaneFailsStep, DeleteShownStep, DeleteFailsStep,
     RefreshCopyStep, DeleteEndsStep DEF LaneStep
<1>3. ASSUME NEW m \in Message, TapDelete(m) PROVE IInv'
  BY <1>3, TapDeleteStep
<1>4. ASSUME NEW k \in Sender, Delivered(k) \/ SendFails(k) PROVE IInv'
  BY <1>4, DeliveredStep, SendFailsStep
<1>5. CASE JobStarts
  BY <1>5, JobStartsStep
<1>6. CASE Crash
  BY <1>6, CrashStep
<1>7. CASE UNCHANGED vars
  <2>1. txn' = txn /\ shown' = shown /\ todo' = todo /\ flight' = flight
        /\ lane' = lane /\ cut' = cut
    BY <1>7 DEF vars
  <2>2. shown \in [Message -> [txn: Txn \cup {Null}, warns: Txn \cup {Null}, live: BOOLEAN]]
        /\ lane \in [at: LaneStage, batch: SUBSET Txn, tapped: Message \cup {Null},
                     target: Txn \cup {Null}, card: Message \cup {Null}]
        /\ cut \in SUBSET Txn
    BY DEF IInv, TypeOK
  <2>3. LaneFits' /\ Remembered
    BY <2>1 DEF IInv, LaneFits, Live, Sending, Remembered
  <2> QED BY <2>1, <2>2, <2>3, LaneMoves
<1> QED BY <1>1, <1>2, <1>3, <1>4, <1>5, <1>6, <1>7 DEF Next

\* The invariant holds in every state the bot reaches.
LEMMA Invariance == Spec => []IInv
<1> QED BY InitIInv, NextIInv, PTL DEF Spec

\* Type correctness: the tables, the chat, what each of the three senders
\* holds and the lane's stage keep their types through recording, delivery,
\* deletion, refusals and restarts (cards.py, ingest.py, callbacks.py).
THEOREM TypeCorrect == Spec => []TypeOK
<1>1. IInv => TypeOK
  BY DEF IInv
<1> QED BY <1>1, Invariance, PTL

\* A "probably a duplicate" mark names a transaction that exists, unless the
\* deletion of that transaction is under way or was interrupted between its
\* commits (callbacks.py:136-140) - with however many rows and messages.
THEOREM OriginalsCorrect == Spec => []OriginalsExist
<1>1. IInv => OriginalsExist
  BY DEF IInv
<1> QED BY <1>1, Invariance, PTL

\* Rules 3 and 4 of the marks (duplicates.py:18-21): rows of one message never
\* mark each other, and no two of them the same row, whatever is recorded,
\* delivered or deleted between the recording of the message and its marking.
THEOREM OneToOneCorrect == Spec => []OneToOne
<1>1. IInv => OneToOne
  BY DEF IInv
<1> QED BY <1>1, Invariance, PTL

\* The card that a row remembers is its own and its buttons work, whichever
\* sender stored it last and whatever was deleted meanwhile (cards.py:91-99,
\* callbacks.py:136-150).
THEOREM CardsCorrect == Spec => []RememberedCardWorks
<1>1. Init => CardsFit
  BY DEF Init, CardsFit, RememberedCardWorks, Live, NoRow, Idle
<1>2. CardsFit => RememberedCardWorks
  BY DEF CardsFit
<1>3. Spec => []CardsFit
  BY <1>1, Invariance, NextCards, PTL DEF Spec
<1> QED BY <1>2, <1>3, PTL
=============================================================================
