-------------------------- MODULE GoalAlertsProofs --------------------------
(***************************************************************************)
(* Theorems about module GoalAlerts, for every set of topics, limits,      *)
(* members and tasks, and any number of goals.                             *)
(***************************************************************************)
EXTENDS GoalAlerts, TLAPS

USE NoneAssumption, LimitAssumption, BoundAssumption, FaultAssumption

\* A goal that was not created yet has nothing; what is read was created.
Fresh ==
  \A g \in Goal : g >= nextId =>
    /\ goal[g].status = "absent" /\ goal[g].level = 0
    /\ \A l \in AlertLevel, m \in Member : alerts[<<g, l, m>>] = 0
ReadIsCreated ==
  \A t \in Task :
    /\ sending[t] # None => sending[t].row.id < nextId
    /\ \A row \in todo[t] : row.id < nextId

GoalInv == TypeOK /\ ActiveIsComplete /\ Fresh /\ ReadIsCreated

-----------------------------------------------------------------------------
(* The rows and their levels.                                              *)

Level == {0} \cup AlertLevel

LEMMA LevelType ==
  ASSUME NEW sum \in Nat, NEW limit \in Nat
  PROVE  LevelFor(sum, limit) \in Level
<1>1. CASE sum >= limit
  BY <1>1 DEF LevelFor, Level, AlertLevel
<1>2. CASE sum < limit /\ 100 * sum >= 80 * limit
  BY <1>2 DEF LevelFor, Level, AlertLevel
<1>3. CASE 100 * sum < 80 * limit /\ 100 * sum >= 50 * limit
  <2>1. ~(sum >= limit)
    BY <1>3
  <2> QED BY <1>3, <2>1 DEF LevelFor, Level, AlertLevel
<1>4. CASE 100 * sum < 50 * limit
  <2>1. ~(sum >= limit) /\ ~(100 * sum >= 80 * limit)
    BY <1>4
  <2> QED BY <1>4, <2>1 DEF LevelFor, Level, AlertLevel
<1> QED BY <1>1, <1>2, <1>3, <1>4

LEMMA StatusType ==
  ASSUME NEW topic, NEW limit
  PROVE  /\ StatusFor(topic, limit) \in Status
         /\ StatusFor(topic, limit) = "active" => Complete(topic, limit)
BY DEF StatusFor, Status

\* The rows that an evaluation reads.
LEMMA ActiveRowsType ==
  ASSUME GoalInv
  PROVE  /\ ActiveRows \in SUBSET Snapshot
         /\ \A row \in ActiveRows : row.id \in Goal /\ row.last = goal[row.id].level
                                    /\ row.id < nextId
<1> SUFFICES ASSUME NEW g \in Goal, goal[g].status = "active"
             PROVE  /\ [id |-> g, topic |-> goal[g].topic, limit |-> goal[g].limit,
                        last |-> goal[g].level] \in Snapshot
                    /\ g < nextId
  BY DEF ActiveRows
<1>1. goal[g] \in GoalRow /\ goal[g].topic # None
  BY DEF GoalInv, TypeOK, ActiveIsComplete
<1>2. g < nextId
  BY DEF GoalInv, TypeOK, Fresh, Goal
<1> QED BY <1>1, <1>2 DEF GoalRow, Snapshot

\* From one alert to the next: what the task goes on with.
LEMMA ContinueShape ==
  ASSUME GoalInv, NEW t \in Task, NEW rows \in SUBSET Snapshot, Continue(t, rows)
  PROVE  /\ todo' \in [Task -> SUBSET Snapshot]
         /\ sending' \in [Task -> [row: Snapshot, level: AlertLevel] \cup {None}]
         /\ \A u \in Task \ {t} : todo'[u] = todo[u] /\ sending'[u] = sending[u]
         /\ todo'[t] \subseteq rows
         /\ sending'[t] # None =>
              /\ sending'[t].row \in rows
              /\ sending'[t].level > sending'[t].row.last
              /\ \A row \in todo'[t] : row.id > sending'[t].row.id
<1>1. todo \in [Task -> SUBSET Snapshot]
      /\ sending \in [Task -> [row: Snapshot, level: AlertLevel] \cup {None}]
  BY DEF GoalInv, TypeOK
<1>2. CASE todo' = [todo EXCEPT ![t] = {}] /\ sending' = [sending EXCEPT ![t] = None]
  BY <1>1, <1>2
<1>3. ASSUME NEW row \in rows, Due(row),
             todo' = [todo EXCEPT ![t] = {r \in rows : r.id > row.id}],
             sending' = [sending EXCEPT ![t] =
               [row |-> row, level |-> LevelFor(spent[row.topic], row.limit)]]
      PROVE  /\ todo' \in [Task -> SUBSET Snapshot]
             /\ sending' \in [Task -> [row: Snapshot, level: AlertLevel] \cup {None}]
             /\ \A u \in Task \ {t} : todo'[u] = todo[u] /\ sending'[u] = sending[u]
             /\ todo'[t] \subseteq rows
                 /\ sending'[t] # None =>
                  /\ sending'[t].row \in rows
                  /\ sending'[t].level > sending'[t].row.last
                  /\ \A r \in todo'[t] : r.id > sending'[t].row.id
  <2> DEFINE level == LevelFor(spent[row.topic], row.limit)
             rec == [row |-> row, level |-> level]
  <2>1. row \in Snapshot /\ row.limit \in Nat /\ spent[row.topic] \in Nat /\ row.last \in Level
    BY <1>3 DEF Due, Snapshot, GoalInv, TypeOK, Level
  <2>2. level \in Level /\ level > row.last
    BY <1>3, <2>1, LevelType DEF Due
  <2>3. level \in AlertLevel
    BY <2>1, <2>2 DEF Level, AlertLevel
  <2> HIDE DEF level
  <2>4. rec \in [row: Snapshot, level: AlertLevel] /\ rec.row = row /\ rec.level = level
    BY <2>1, <2>3
  <2>5. sending'[t] = rec /\ todo'[t] = {r \in rows : r.id > row.id}
    BY <1>1, <1>3 DEF level
  <2> QED BY <1>1, <1>3, <2>2, <2>3, <2>4, <2>5 DEF level
<1> QED BY <1>2, <1>3 DEF Continue

-----------------------------------------------------------------------------
(* The invariant.                                                          *)

LEMMA GoalInvInit == Init => GoalInv
<1> SUFFICES ASSUME Init PROVE GoalInv
  OBVIOUS
<1>1. TypeOK
  <2>1. goal \in [Goal -> GoalRow] /\ nextId \in 1..(MaxGoals + 1) /\ torn \in SUBSET Goal
    BY DEF Init, Goal, GoalRow, Status
  <2>2. /\ alerts \in [Goal \X AlertLevel \X Member -> Nat]
        /\ lost \in [Goal \X AlertLevel \X Member -> Nat]
    BY DEF Init
  <2>3. spent \in [Topic -> Sum] /\ todo \in [Task -> SUBSET Snapshot]
        /\ sending \in [Task -> [row: Snapshot, level: AlertLevel] \cup {None}]
    BY DEF Init
  <2>4. overlap \in BOOLEAN
    BY DEF Init
  <2> QED BY <2>1, <2>2, <2>3, <2>4 DEF TypeOK
<1>2. ActiveIsComplete /\ Fresh /\ ReadIsCreated
  BY DEF Init, ActiveIsComplete, Fresh, ReadIsCreated
<1> QED BY <1>1, <1>2 DEF GoalInv

\* What arrives is counted; what is not recorded is counted twice.
LEMMA DeliveredShape ==
  ASSUME GoalInv, NEW new, NEW recorded \in BOOLEAN, Delivered(new, recorded)
  PROVE  /\ alerts' \in [Goal \X AlertLevel \X Member -> Nat]
         /\ lost' \in [Goal \X AlertLevel \X Member -> Nat]
         /\ \A g \in Goal, l \in AlertLevel, m \in Member :
              /\ alerts'[<<g, l, m>>] =
                   IF <<g, l, m>> \in new THEN alerts[<<g, l, m>>] + 1 ELSE alerts[<<g, l, m>>]
              /\ lost'[<<g, l, m>>] =
                   IF <<g, l, m>> \in new /\ ~recorded THEN lost[<<g, l, m>>] + 1
                                                      ELSE lost[<<g, l, m>>]
<1>1. /\ alerts \in [Goal \X AlertLevel \X Member -> Nat]
      /\ lost \in [Goal \X AlertLevel \X Member -> Nat]
  BY DEF GoalInv, TypeOK
<1>2. alerts' = [a \in Goal \X AlertLevel \X Member |->
                   IF a \in new THEN alerts[a] + 1 ELSE alerts[a]]
  BY <1>1 DEF Delivered
<1>3. lost' = IF recorded THEN lost
              ELSE [a \in Goal \X AlertLevel \X Member |->
                      IF a \in new THEN lost[a] + 1 ELSE lost[a]]
  BY <1>1 DEF Delivered
<1>4. alerts' \in [Goal \X AlertLevel \X Member -> Nat]
  BY <1>1, <1>2
<1>5. lost' \in [Goal \X AlertLevel \X Member -> Nat]
  BY <1>1, <1>3
<1>6. \A g \in Goal, l \in AlertLevel, m \in Member :
        /\ alerts'[<<g, l, m>>] =
             IF <<g, l, m>> \in new THEN alerts[<<g, l, m>>] + 1 ELSE alerts[<<g, l, m>>]
        /\ lost'[<<g, l, m>>] =
             IF <<g, l, m>> \in new /\ ~recorded THEN lost[<<g, l, m>>] + 1
                                                ELSE lost[<<g, l, m>>]
  BY <1>1, <1>2, <1>3
<1> QED BY <1>4, <1>5, <1>6

\* A restart ends every evaluation; what had arrived counts as not recorded.
LEMMA DiesShape ==
  ASSUME GoalInv, Dies
  PROVE  /\ alerts' \in [Goal \X AlertLevel \X Member -> Nat]
         /\ lost' \in [Goal \X AlertLevel \X Member -> Nat]
         /\ \A g \in Goal, l \in AlertLevel, m \in Member :
              \/ /\ alerts'[<<g, l, m>>] = alerts[<<g, l, m>>]
                 /\ lost'[<<g, l, m>>] = lost[<<g, l, m>>]
              \/ /\ alerts'[<<g, l, m>>] = alerts[<<g, l, m>>] + 1
                 /\ lost'[<<g, l, m>>] = lost[<<g, l, m>>] + 1
                 /\ g < nextId
         /\ todo' = [t \in Task |-> {}] /\ sending' = [t \in Task |-> None]
         /\ UNCHANGED overlap
<1>1. PICK new \in SUBSET Out : Delivered(new, FALSE)
  BY DEF Dies
<1>2. \A g \in Goal, l \in AlertLevel, m \in Member : <<g, l, m>> \in new => g < nextId
  BY DEF GoalInv, ReadIsCreated, Out
<1>3. todo' = [t \in Task |-> {}] /\ sending' = [t \in Task |-> None] /\ UNCHANGED overlap
  BY DEF Dies
<1>4. /\ alerts \in [Goal \X AlertLevel \X Member -> Nat]
      /\ lost \in [Goal \X AlertLevel \X Member -> Nat]
  BY DEF GoalInv, TypeOK
<1>5. /\ alerts' = [a \in Goal \X AlertLevel \X Member |->
                      IF a \in new THEN alerts[a] + 1 ELSE alerts[a]]
      /\ lost' = [a \in Goal \X AlertLevel \X Member |->
                    IF a \in new THEN lost[a] + 1 ELSE lost[a]]
  BY <1>1, <1>4 DEF Delivered
<1>6. /\ alerts' \in [Goal \X AlertLevel \X Member -> Nat]
      /\ lost' \in [Goal \X AlertLevel \X Member -> Nat]
  BY <1>4, <1>5
<1> QED BY <1>2, <1>3, <1>4, <1>5, <1>6

\* A step that only writes the row of a goal that exists, or the next one, and
\* keeps it well formed; perhaps the process dies right after.
LEMMA GoalWritten ==
  ASSUME GoalInv, NEW g \in Goal, NEW row \in GoalRow,
         goal' = [goal EXCEPT ![g] = row],
         torn' \in SUBSET Goal, torn \ {g} \subseteq torn',
         row.status = "active" =>
           row.topic # None /\ (row.limit # None \/ g \in torn'),
         row.level = goal[g].level,
         \/ g < nextId /\ nextId' = nextId
         \/ g = nextId /\ nextId' = nextId + 1,
         UNCHANGED spent,
         UNCHANGED <<todo, sending, alerts, lost, overlap>> \/ Dies
  PROVE  GoalInv' /\ \A h \in Goal : goal'[h].level = goal[h].level
<1>1. goal' \in [Goal -> GoalRow] /\ nextId' \in 1..(MaxGoals + 1) /\ nextId' >= nextId
  BY DEF GoalInv, TypeOK, Goal
<1>2. /\ alerts' \in [Goal \X AlertLevel \X Member -> Nat]
      /\ lost' \in [Goal \X AlertLevel \X Member -> Nat]
      /\ todo' \in [Task -> SUBSET Snapshot]
      /\ sending' \in [Task -> [row: Snapshot, level: AlertLevel] \cup {None}]
      /\ overlap' \in BOOLEAN
  BY DiesShape DEF GoalInv, TypeOK
<1>3. TypeOK'
  BY <1>1, <1>2 DEF GoalInv, TypeOK
<1>4. \A h \in Goal : goal'[h].level = goal[h].level
  BY DEF GoalInv, TypeOK
<1>5. ActiveIsComplete'
  BY DEF GoalInv, TypeOK, ActiveIsComplete
<1>6. Fresh'
  <2> SUFFICES ASSUME NEW h \in Goal, h >= nextId'
               PROVE  /\ goal'[h].status = "absent" /\ goal'[h].level = 0
                      /\ \A l \in AlertLevel, m \in Member : alerts'[<<h, l, m>>] = 0
    BY DEF Fresh
  <2>1. h >= nextId /\ h # g /\ ~(h < nextId)
    BY <1>1 DEF GoalInv, TypeOK, Goal
  <2>2. goal'[h] = goal[h]
    BY <2>1 DEF GoalInv, TypeOK
  <2>3. \A l \in AlertLevel, m \in Member : alerts'[<<h, l, m>>] = alerts[<<h, l, m>>]
    BY <2>1, DiesShape
  <2> QED BY <2>1, <2>2, <2>3 DEF GoalInv, Fresh
<1>7. ReadIsCreated'
  <2>1. CASE UNCHANGED <<todo, sending>>
    BY <1>1, <2>1 DEF GoalInv, TypeOK, ReadIsCreated, Snapshot, Goal
  <2>2. CASE Dies
    BY <2>2, DiesShape DEF ReadIsCreated
  <2> QED BY <2>1, <2>2
<1> QED BY <1>3, <1>4, <1>5, <1>6, <1>7 DEF GoalInv

\* Setting, changing and deleting goals leaves every level alone.
SetGoals ==
  \/ \E p \in Topic \cup {None}, l \in Limit \cup {None} : CreateOrUpdate(p, l)
  \/ \E g \in Goal, p \in Topic \cup {None}, l \in Limit \cup {None}, u \in BOOLEAN :
       ApplyUpdate(g, p, l, u)
  \/ \E g \in Goal : Delete(g)

LEMMA LiveIsCreated == ASSUME GoalInv, NEW g \in Goal, Live(g) PROVE g < nextId
BY DEF GoalInv, TypeOK, Fresh, Live, Goal

LEMMA SetGoalsStep ==
  ASSUME GoalInv, SetGoals
  PROVE  /\ GoalInv' /\ \A h \in Goal : goal'[h].level = goal[h].level
         /\ UNCHANGED <<todo, sending, alerts, lost, overlap>> \/ Dies
<1>1. \A g \in Goal : goal[g] \in GoalRow
  BY DEF GoalInv, TypeOK
<1>2. ASSUME NEW p \in Topic \cup {None}, NEW l \in Limit \cup {None}, CreateOrUpdate(p, l)
      PROVE  GoalInv' /\ \A h \in Goal : goal'[h].level = goal[h].level
  <2>1. ASSUME NEW g \in Existing(p), UNCHANGED nextId, torn' = torn \ {g},
               goal' = [goal EXCEPT ![g].status = StatusFor(p, l), ![g].limit = Given(l, @)]
        PROVE  GoalInv' /\ \A h \in Goal : goal'[h].level = goal[h].level
    <3> DEFINE row == [goal[g] EXCEPT !.status = StatusFor(p, l), !.limit = Given(l, goal[g].limit)]
    <3>1. g \in Goal /\ Live(g) /\ p # None /\ goal[g].topic = p /\ g < nextId
      BY <2>1, LiveIsCreated DEF Existing
    <3>2. Given(l, goal[g].limit) \in Limit \cup {None} /\ StatusFor(p, l) \in Status
      BY <1>1, <3>1, StatusType DEF Given, GoalRow
    <3>3. row \in GoalRow /\ row.level = goal[g].level /\ row.status = StatusFor(p, l)
          /\ row.topic = p /\ row.limit = Given(l, goal[g].limit)
      BY <1>1, <3>1, <3>2 DEF GoalRow
    <3>4. row.status = "active" => Complete(row.topic, row.limit)
      BY <3>3, StatusType DEF Complete, Given
    <3>5. goal' = [goal EXCEPT ![g] = row]
      BY <2>1, <3>1 DEF GoalInv, TypeOK
    <3> HIDE DEF row
    <3> QED BY <1>2, <2>1, <3>1, <3>3, <3>4, <3>5, GoalWritten
             DEF CreateOrUpdate, Complete, GoalInv, TypeOK, tasks, heard
  <2>2. ASSUME nextId \in Goal, nextId' = nextId + 1, UNCHANGED torn,
               goal' = [goal EXCEPT ![nextId] = [status |-> StatusFor(p, l),
                                                 topic |-> p, limit |-> l, level |-> 0]]
        PROVE  GoalInv' /\ \A h \in Goal : goal'[h].level = goal[h].level
    <3> DEFINE row == [status |-> StatusFor(p, l), topic |-> p, limit |-> l, level |-> 0]
    <3>1. StatusFor(p, l) \in Status
      BY StatusType
    <3>2. row \in GoalRow
      BY <3>1 DEF GoalRow
    <3>3. row.status = "active" => Complete(row.topic, row.limit)
      BY StatusType
    <3>4. row.level = goal[nextId].level
      BY <2>2 DEF GoalInv, TypeOK, Fresh
    <3> HIDE DEF row
    <3> QED BY <1>2, <2>2, <3>2, <3>3, <3>4, GoalWritten
             DEF CreateOrUpdate, row, Complete, GoalInv, TypeOK, tasks, heard
  <2> QED BY <1>2, <2>1, <2>2 DEF CreateOrUpdate
<1>3. ASSUME NEW g \in Goal, NEW p \in Topic \cup {None}, NEW l \in Limit \cup {None},
             NEW u \in BOOLEAN, ApplyUpdate(g, p, l, u)
      PROVE  GoalInv' /\ \A h \in Goal : goal'[h].level = goal[h].level
  <2> DEFINE newTopic == Given(p, goal[g].topic)
             newLimit == IF u THEN None ELSE Given(l, goal[g].limit)
             fields == [goal[g] EXCEPT !.topic = newTopic, !.limit = newLimit]
             row == [fields EXCEPT !.status = StatusFor(newTopic, newLimit)]
  <2>1. newTopic \in Topic \cup {None} /\ newLimit \in Limit \cup {None}
        /\ (goal[g].topic # None => newTopic # None)
    BY <1>1 DEF Given, GoalRow
  <2>2. \/ /\ goal' = [goal EXCEPT ![g] = row] /\ torn' = torn \ {g}
           /\ UNCHANGED <<todo, sending, alerts, lost, overlap>>
        \/ goal' = [goal EXCEPT ![g] = fields] /\ torn' = torn \cup {g} /\ Dies
    BY <1>3 DEF ApplyUpdate, tasks, heard
  <2>3. g < nextId /\ UNCHANGED <<nextId, spent>> /\ torn \in SUBSET Goal
    BY <1>3, LiveIsCreated DEF ApplyUpdate, GoalInv, TypeOK
  <2> HIDE DEF newTopic, newLimit
  <2>4. StatusFor(newTopic, newLimit) \in Status
    BY StatusType
  <2>5. fields \in GoalRow /\ fields.level = goal[g].level /\ fields.topic = newTopic
        /\ fields.status = goal[g].status
    BY <1>1, <2>1 DEF GoalRow
  <2>6. row \in GoalRow /\ row.level = goal[g].level /\ row.topic = newTopic
        /\ row.limit = newLimit /\ row.status = StatusFor(newTopic, newLimit)
    BY <1>1, <2>1, <2>4 DEF GoalRow
  <2>7. row.status = "active" => row.topic # None /\ row.limit # None
    BY <2>6, StatusType DEF Complete
  <2>8. fields.status = "active" => fields.topic # None
    BY <2>1, <2>5 DEF GoalInv, ActiveIsComplete
  <2> HIDE DEF row, fields
  <2>9. CASE /\ goal' = [goal EXCEPT ![g] = row] /\ torn' = torn \ {g}
             /\ UNCHANGED <<todo, sending, alerts, lost, overlap>>
    BY <2>3, <2>6, <2>7, <2>9, GoalWritten
  <2>10. CASE goal' = [goal EXCEPT ![g] = fields] /\ torn' = torn \cup {g} /\ Dies
    BY <2>3, <2>5, <2>8, <2>10, GoalWritten
  <2> QED BY <2>2, <2>9, <2>10
<1>4. ASSUME NEW g \in Goal, Delete(g)
      PROVE  GoalInv' /\ \A h \in Goal : goal'[h].level = goal[h].level
  <2> DEFINE row == [goal[g] EXCEPT !.status = "deleted"]
  <2>1. goal' = [goal EXCEPT ![g] = row]
    BY <1>4 DEF Delete, GoalInv, TypeOK
  <2>2. row \in GoalRow /\ row.level = goal[g].level /\ row.status = "deleted"
    BY <1>1 DEF GoalRow, Status
  <2>3. g < nextId
    BY <1>4, LiveIsCreated DEF Delete
  <2> HIDE DEF row
  <2> QED BY <1>4, <2>1, <2>2, <2>3, GoalWritten DEF Delete, GoalInv, TypeOK, tasks, heard
<1>5. UNCHANGED <<todo, sending, alerts, lost, overlap>> \/ Dies
  <2>1. \A p \in Topic \cup {None}, l \in Limit \cup {None} :
          CreateOrUpdate(p, l) => UNCHANGED <<todo, sending, alerts, lost, overlap>>
    BY DEF CreateOrUpdate, tasks, heard
  <2>2. \A g \in Goal, p \in Topic \cup {None}, l \in Limit \cup {None}, u \in BOOLEAN :
          ApplyUpdate(g, p, l, u) => UNCHANGED <<todo, sending, alerts, lost, overlap>> \/ Dies
    BY DEF ApplyUpdate, tasks, heard
  <2>3. \A g \in Goal : Delete(g) => UNCHANGED <<todo, sending, alerts, lost, overlap>>
    BY DEF Delete, tasks, heard
  <2> QED BY <2>1, <2>2, <2>3 DEF SetGoals
<1>6. GoalInv' /\ \A h \in Goal : goal'[h].level = goal[h].level
  BY <1>2, <1>3, <1>4 DEF SetGoals
<1> QED BY <1>5, <1>6

\* A step of an evaluation, after its writes.
LEMMA EvaluationGoesOn ==
  ASSUME GoalInv, NEW t \in Task, NEW rows \in SUBSET Snapshot, Continue(t, rows),
         \A row \in rows : row.id < nextId, UNCHANGED nextId
  PROVE  /\ todo' \in [Task -> SUBSET Snapshot]
         /\ sending' \in [Task -> [row: Snapshot, level: AlertLevel] \cup {None}]
         /\ ReadIsCreated'
<1>1. /\ todo' \in [Task -> SUBSET Snapshot]
      /\ sending' \in [Task -> [row: Snapshot, level: AlertLevel] \cup {None}]
      /\ \A u \in Task \ {t} : todo'[u] = todo[u] /\ sending'[u] = sending[u]
      /\ todo'[t] \subseteq rows
      /\ sending'[t] # None => sending'[t].row \in rows
  BY ContinueShape
<1>2. ReadIsCreated'
  BY <1>1 DEF GoalInv, ReadIsCreated
<1> QED BY <1>1, <1>2

LEMMA EvaluateStep ==
  ASSUME GoalInv, NEW t \in Task, Evaluate(t)
  PROVE  GoalInv'
<1>1. /\ todo' \in [Task -> SUBSET Snapshot]
      /\ sending' \in [Task -> [row: Snapshot, level: AlertLevel] \cup {None}]
      /\ ReadIsCreated'
  BY ActiveRowsType, EvaluationGoesOn DEF Evaluate
<1>2. overlap' \in BOOLEAN
  BY DEF Evaluate, GoalInv, TypeOK
<1>3. UNCHANGED <<goal, nextId, spent, alerts, lost, torn>>
  BY DEF Evaluate
<1> QED BY <1>1, <1>2, <1>3 DEF GoalInv, TypeOK, ActiveIsComplete, Fresh

\* What an alert does to the columns.
AlertWrites(t, new, recorded) ==
  /\ \A g \in Goal, l \in AlertLevel, m \in Member :
       /\ <<g, l, m>> \in new => g = sending[t].row.id /\ l = sending[t].level
       /\ alerts'[<<g, l, m>>] =
            IF <<g, l, m>> \in new THEN alerts[<<g, l, m>>] + 1 ELSE alerts[<<g, l, m>>]
       /\ lost'[<<g, l, m>>] =
            IF <<g, l, m>> \in new /\ ~recorded THEN lost[<<g, l, m>>] + 1
                                               ELSE lost[<<g, l, m>>]
  /\ recorded => \E m \in Member : <<sending[t].row.id, sending[t].level, m>> \in new
  /\ IF recorded THEN goal' = [goal EXCEPT ![sending[t].row.id].level = sending[t].level]
                 ELSE UNCHANGED goal

LEMMA AlertShape ==
  ASSUME GoalInv, NEW t \in Task, Alert(t)
  PROVE  /\ sending[t] \in [row: Snapshot, level: AlertLevel]
         /\ sending[t].row.id \in Goal /\ sending[t].row.id < nextId
         /\ sending[t].level \in AlertLevel
         /\ alerts' \in [Goal \X AlertLevel \X Member -> Nat]
         /\ lost' \in [Goal \X AlertLevel \X Member -> Nat]
         /\ \E new, recorded : recorded \in BOOLEAN /\ AlertWrites(t, new, recorded)
<1>1. sending[t] # None
  BY DEF Alert, Sent
<1>2. sending[t] \in [row: Snapshot, level: AlertLevel]
  BY <1>1 DEF GoalInv, TypeOK
<1>3. sending[t].row.id \in Goal /\ sending[t].row.id < nextId /\ sending[t].level \in AlertLevel
  BY <1>1, <1>2 DEF GoalInv, ReadIsCreated, Snapshot
<1> DEFINE enough == (SUBSET Member) \ {{}}
<1>4. PICK got \in SUBSET Member, acked \in SUBSET Member :
        /\ acked \subseteq got
        /\ Delivered({<<sending[t].row.id, sending[t].level, m>> : m \in got}, acked \in enough)
        /\ IF acked \in enough THEN RecordLevel(sending[t].row.id, sending[t].level)
                                ELSE UNCHANGED goal
  BY DEF Alert, Sent
<1> DEFINE new == {<<sending[t].row.id, sending[t].level, m>> : m \in got}
           recorded == acked \in enough
<1>5. recorded \in BOOLEAN
  OBVIOUS
<1>6. \A g, l, m : <<g, l, m>> \in new => g = sending[t].row.id /\ l = sending[t].level
  OBVIOUS
<1>7. recorded => \E m \in Member : <<sending[t].row.id, sending[t].level, m>> \in new
  BY <1>4
<1>8. IF recorded THEN goal' = [goal EXCEPT ![sending[t].row.id].level = sending[t].level]
                  ELSE UNCHANGED goal
  BY <1>4 DEF RecordLevel
<1>9. Delivered(new, recorded)
  BY <1>4
<1> HIDE DEF new, recorded
<1>10. AlertWrites(t, new, recorded)
  BY <1>5, <1>6, <1>7, <1>8, <1>9, DeliveredShape DEF AlertWrites
<1>11. \E n, r : r \in BOOLEAN /\ AlertWrites(t, n, r)
  BY <1>5, <1>10
<1>12. /\ alerts' \in [Goal \X AlertLevel \X Member -> Nat]
       /\ lost' \in [Goal \X AlertLevel \X Member -> Nat]
  BY <1>5, <1>9, DeliveredShape
<1> QED BY <1>2, <1>3, <1>11, <1>12

LEMMA AlertStep ==
  ASSUME GoalInv, NEW t \in Task, Alert(t)
  PROVE  GoalInv'
<1>1. PICK new, recorded : recorded \in BOOLEAN /\ AlertWrites(t, new, recorded)
  BY AlertShape
<1>2. /\ sending[t].row.id \in Goal /\ sending[t].row.id < nextId
      /\ sending[t].level \in AlertLevel
      /\ alerts' \in [Goal \X AlertLevel \X Member -> Nat]
      /\ lost' \in [Goal \X AlertLevel \X Member -> Nat]
  BY AlertShape
<1>3. UNCHANGED <<nextId, spent, overlap, torn>> /\ Continue(t, todo[t])
  BY DEF Alert, Sent
<1>4. /\ todo' \in [Task -> SUBSET Snapshot]
      /\ sending' \in [Task -> [row: Snapshot, level: AlertLevel] \cup {None}]
      /\ ReadIsCreated'
  <2>1. todo[t] \in SUBSET Snapshot /\ \A row \in todo[t] : row.id < nextId
    BY DEF GoalInv, TypeOK, ReadIsCreated
  <2> QED BY <1>3, <2>1, EvaluationGoesOn
<1>5. goal' \in [Goal -> GoalRow]
  <2> DEFINE id == sending[t].row.id
             row == [goal[id] EXCEPT !.level = sending[t].level]
  <2>1. goal \in [Goal -> GoalRow] /\ id \in Goal
    BY <1>2 DEF GoalInv, TypeOK
  <2>2. row \in GoalRow
    BY <1>2, <2>1 DEF GoalRow
  <2>3. goal' = [goal EXCEPT ![id] = row] \/ goal' = goal
    BY <1>1, <2>1 DEF AlertWrites
  <2> HIDE DEF id, row
  <2> QED BY <2>1, <2>2, <2>3
<1>6. \A g \in Goal : /\ goal'[g].status = goal[g].status /\ goal'[g].topic = goal[g].topic
                      /\ goal'[g].limit = goal[g].limit
                      /\ g # sending[t].row.id => goal'[g].level = goal[g].level
  BY <1>1, <1>2 DEF AlertWrites, GoalInv, TypeOK, GoalRow
<1>7. ActiveIsComplete'
  BY <1>3, <1>6 DEF GoalInv, ActiveIsComplete
<1>8. Fresh'
  <2> SUFFICES ASSUME NEW g \in Goal, g >= nextId
               PROVE  /\ goal'[g].status = "absent" /\ goal'[g].level = 0
                      /\ \A l \in AlertLevel, m \in Member : alerts'[<<g, l, m>>] = 0
    BY <1>3 DEF Fresh
  <2>1. g # sending[t].row.id
    BY <1>2 DEF GoalInv, TypeOK, Goal
  <2> QED BY <1>1, <1>6, <2>1 DEF AlertWrites, GoalInv, Fresh
<1> QED BY <1>2, <1>3, <1>4, <1>5, <1>7, <1>8 DEF GoalInv, TypeOK

LEMMA CrashStep ==
  ASSUME GoalInv, Crash
  PROVE  GoalInv'
<1>1. UNCHANGED <<goal, nextId, spent, torn>> /\ Dies
  BY DEF Crash
<1>2. Fresh'
  <2> SUFFICES ASSUME NEW g \in Goal, g >= nextId, NEW l \in AlertLevel, NEW m \in Member
               PROVE  alerts'[<<g, l, m>>] = alerts[<<g, l, m>>]
    BY <1>1 DEF GoalInv, Fresh
  <2>1. ~(g < nextId)
    BY DEF GoalInv, TypeOK, Goal
  <2> QED BY <1>1, <2>1, DiesShape
<1>3. ReadIsCreated'
  BY <1>1, DiesShape DEF ReadIsCreated
<1> QED BY <1>1, <1>2, <1>3, DiesShape DEF GoalInv, TypeOK, ActiveIsComplete

LEMMA QuietStep ==
  ASSUME GoalInv, UNCHANGED vars \/ \E p \in Topic, sum \in Sum : Spend(p, sum)
  PROVE  /\ GoalInv'
         /\ UNCHANGED <<goal, nextId, todo, sending, alerts, lost, overlap, torn>>
<1>1. UNCHANGED <<goal, nextId, todo, sending, alerts, lost, overlap, torn>>
  BY DEF vars, Spend, tasks, heard
<1>2. spent' \in [Topic -> Sum]
  BY DEF vars, Spend, GoalInv, TypeOK
<1> QED BY <1>1, <1>2 DEF GoalInv, TypeOK, ActiveIsComplete, Fresh, ReadIsCreated

LEMMA GoalInvStep == GoalInv /\ [Next]_vars => GoalInv'
BY SetGoalsStep, EvaluateStep, AlertStep, CrashStep, QuietStep DEF Next, SetGoals

\* Every column keeps its type (schema.sql:58-74).
THEOREM TypeCorrect == Spec => []TypeOK
<1>1. GoalInv => TypeOK
  BY DEF GoalInv
<1> QED BY <1>1, GoalInvInit, GoalInvStep, PTL DEF Spec

\* An active goal has a topic, and a limit unless a restart cut its last edit off
\* between the fields and the status (goals.py:57, :97-98, :107).
THEOREM ActiveCorrect == Spec => []ActiveIsComplete
<1>1. GoalInv => ActiveIsComplete
  BY DEF GoalInv
<1> QED BY <1>1, GoalInvInit, GoalInvStep, PTL DEF Spec

LEMMA GoalsCorrect == Spec => []GoalInv
BY GoalInvInit, GoalInvStep, PTL DEF Spec

-----------------------------------------------------------------------------
(* The alerts.                                                             *)

\* A step that is not an alert leaves the levels alone; an alert that arrives in
\* it (a restart) is not recorded.
LEMMA OtherSteps ==
  ASSUME GoalInv, [Next]_vars, \A t \in Task : ~Alert(t)
  PROVE  /\ \A g \in Goal : goal'[g].level = goal[g].level
         /\ \A g \in Goal, l \in AlertLevel, m \in Member :
              \/ /\ alerts'[<<g, l, m>>] = alerts[<<g, l, m>>]
                 /\ lost'[<<g, l, m>>] = lost[<<g, l, m>>]
              \/ /\ alerts'[<<g, l, m>>] = alerts[<<g, l, m>>] + 1
                 /\ lost'[<<g, l, m>>] = lost[<<g, l, m>>] + 1
         /\ overlap => overlap'
<1>1. CASE SetGoals
  BY <1>1, SetGoalsStep, DiesShape
<1>2. CASE UNCHANGED vars \/ \E p \in Topic, sum \in Sum : Spend(p, sum)
  BY <1>2, QuietStep
<1>3. CASE \E t \in Task : Evaluate(t)
  BY <1>3 DEF Evaluate
<1>4. CASE Crash
  BY <1>4, DiesShape DEF Crash
<1> QED BY <1>1, <1>2, <1>3, <1>4 DEF Next, SetGoals

LEMMA DeliveredStep == GoalInv /\ LevelWasDelivered /\ [Next]_vars => LevelWasDelivered'
<1> SUFFICES ASSUME GoalInv, LevelWasDelivered, [Next]_vars, NEW g \in Goal, goal'[g].level > 0
             PROVE  \E m \in Member : alerts'[<<g, goal'[g].level, m>>] > 0
  BY DEF LevelWasDelivered
<1>1. \A h \in Goal : goal[h].level \in Level
  BY DEF GoalInv, TypeOK, GoalRow, Level
<1>2. \A h \in Goal, l \in AlertLevel, m \in Member : alerts[<<h, l, m>>] \in Nat
  BY DEF GoalInv, TypeOK
<1>3. ASSUME goal'[g].level = goal[g].level,
             \A l \in AlertLevel, m \in Member : alerts'[<<g, l, m>>] >= alerts[<<g, l, m>>],
             \A l \in AlertLevel, m \in Member : alerts'[<<g, l, m>>] \in Nat
      PROVE  \E m \in Member : alerts'[<<g, goal'[g].level, m>>] > 0
  <2>1. goal[g].level \in AlertLevel
    BY <1>1, <1>3 DEF Level
  <2>2. PICK m \in Member : alerts[<<g, goal[g].level, m>>] > 0
    BY <1>3 DEF LevelWasDelivered
  <2>3. /\ alerts'[<<g, goal[g].level, m>>] >= alerts[<<g, goal[g].level, m>>]
        /\ alerts'[<<g, goal[g].level, m>>] \in Nat /\ alerts[<<g, goal[g].level, m>>] \in Nat
    BY <1>2, <1>3, <2>1
  <2>4. alerts'[<<g, goal[g].level, m>>] > 0
    BY <2>2, <2>3
  <2> QED BY <1>3, <2>4
<1>4. \A h \in Goal, l \in AlertLevel, m \in Member : alerts'[<<h, l, m>>] \in Nat
  BY GoalInvStep DEF GoalInv, TypeOK
<1>5. CASE \A t \in Task : ~Alert(t)
  <2>1. /\ goal'[g].level = goal[g].level
        /\ \A l \in AlertLevel, m \in Member :
             alerts'[<<g, l, m>>] = alerts[<<g, l, m>>]
               \/ alerts'[<<g, l, m>>] = alerts[<<g, l, m>>] + 1
    BY <1>5, OtherSteps
  <2>2. \A l \in AlertLevel, m \in Member : alerts'[<<g, l, m>>] >= alerts[<<g, l, m>>]
    BY <1>2, <2>1
  <2> QED BY <1>3, <1>4, <2>1, <2>2
<1>6. ASSUME NEW t \in Task, Alert(t)
      PROVE  \E m \in Member : alerts'[<<g, goal'[g].level, m>>] > 0
  <2>1. PICK new, recorded : recorded \in BOOLEAN /\ AlertWrites(t, new, recorded)
    BY <1>6, AlertShape
  <2>2. sending[t].row.id \in Goal /\ sending[t].level \in AlertLevel
    BY <1>6, AlertShape
  <2>3. CASE recorded /\ g = sending[t].row.id
    <3>1. goal'[g].level = sending[t].level
      BY <2>1, <2>2, <2>3 DEF AlertWrites, GoalInv, TypeOK, GoalRow
    <3>2. PICK m \in Member : <<g, sending[t].level, m>> \in new
      BY <2>1, <2>3 DEF AlertWrites
    <3>3. alerts'[<<g, sending[t].level, m>>] = alerts[<<g, sending[t].level, m>>] + 1
      BY <2>1, <2>2, <3>2 DEF AlertWrites
    <3>4. alerts[<<g, sending[t].level, m>>] \in Nat
      BY <1>2, <2>2
    <3>5. alerts'[<<g, sending[t].level, m>>] > 0
      BY <3>3, <3>4
    <3> QED BY <3>1, <3>5
  <2>4. CASE ~recorded \/ g # sending[t].row.id
    <3>1. goal'[g].level = goal[g].level
      BY <2>1, <2>2, <2>4 DEF AlertWrites, GoalInv, TypeOK, GoalRow
    <3>2. \A l \in AlertLevel, m \in Member :
            alerts'[<<g, l, m>>] = alerts[<<g, l, m>>]
              \/ alerts'[<<g, l, m>>] = alerts[<<g, l, m>>] + 1
      BY <2>1 DEF AlertWrites
    <3>3. \A l \in AlertLevel, m \in Member : alerts'[<<g, l, m>>] >= alerts[<<g, l, m>>]
      BY <1>2, <3>2
    <3> QED BY <1>3, <1>4, <3>1, <3>3
  <2> QED BY <2>3, <2>4
<1> QED BY <1>5, <1>6

\* A recorded level was delivered to somebody (goals.py:171).
THEOREM DeliveredCorrect == Spec => []LevelWasDelivered
<1>1. Init => LevelWasDelivered
  BY DEF Init, LevelWasDelivered
<1> QED BY <1>1, DeliveredStep, GoalsCorrect, PTL DEF Spec

-----------------------------------------------------------------------------
(* Evaluations that do not overlap.                                        *)

\* One evaluation at a time, which knows the levels it compares with.
Solo ==
  ~overlap =>
    /\ \A t, u \in Task : sending[t] # None /\ sending[u] # None => t = u
    /\ \A t \in Task : sending[t] # None =>
         /\ sending[t].row.last = goal[sending[t].row.id].level
         /\ sending[t].level > sending[t].row.last
         /\ \A row \in todo[t] :
              row.last = goal[row.id].level /\ row.id > sending[t].row.id

\* What was alerted was recorded, but for what is counted as lost.
Recorded ==
  ~overlap =>
    \A g \in Goal, l \in AlertLevel, m \in Member :
      /\ alerts[<<g, l, m>>] <= 1 + lost[<<g, l, m>>]
      /\ alerts[<<g, l, m>>] > lost[<<g, l, m>>] => goal[g].level >= l

\* What Continue leaves behind, if the rows it goes on with are up to date and
\* nobody else is alerting.
LEMMA ContinueSolo ==
  ASSUME GoalInv, NEW t \in Task, NEW rows \in SUBSET Snapshot, Continue(t, rows),
         \A row \in rows : row.last = goal'[row.id].level,
         \A u \in Task \ {t} : sending[u] = None
  PROVE  Solo'
<1>1. /\ \A u \in Task \ {t} : sending'[u] = None
      /\ todo'[t] \subseteq rows
      /\ sending'[t] # None =>
           /\ sending'[t].row \in rows
           /\ sending'[t].level > sending'[t].row.last
           /\ \A row \in todo'[t] : row.id > sending'[t].row.id
  BY ContinueShape
<1> QED BY <1>1 DEF Solo

LEMMA SoloStep == GoalInv /\ Solo /\ [Next]_vars => Solo'
<1> SUFFICES ASSUME GoalInv, Solo, [Next]_vars PROVE Solo'
  OBVIOUS
<1>1. ASSUME UNCHANGED <<todo, sending, overlap>>,
             \A g \in Goal : goal'[g].level = goal[g].level
      PROVE  Solo'
  <2>1. \A t \in Task : sending[t] # None =>
          sending[t].row.id \in Goal /\ \A row \in todo[t] : row.id \in Goal
    BY DEF GoalInv, TypeOK, Snapshot
  <2> QED BY <1>1, <2>1 DEF Solo
<1>2. CASE SetGoals
  <2>1. CASE UNCHANGED <<todo, sending, overlap>>
    BY <1>1, <1>2, <2>1, SetGoalsStep
  <2>2. CASE Dies
    BY <2>2, DiesShape DEF Solo
  <2> QED BY <1>2, <2>1, <2>2, SetGoalsStep
<1>3. CASE UNCHANGED vars \/ \E p \in Topic, sum \in Sum : Spend(p, sum)
  BY <1>1, <1>3, QuietStep
<1>4. ASSUME NEW t \in Task, Evaluate(t) PROVE Solo'
  <2>1. CASE \E u \in Task : sending[u] # None
    BY <1>4, <2>1 DEF Evaluate, Solo
  <2>2. CASE \A u \in Task : sending[u] = None
    <3>1. UNCHANGED goal /\ Continue(t, ActiveRows)
      BY <1>4 DEF Evaluate
    <3> QED BY <2>2, <3>1, ActiveRowsType, ContinueSolo
  <2> QED BY <2>1, <2>2
<1>5. ASSUME NEW t \in Task, Alert(t) PROVE Solo'
  <2>1. CASE overlap
    BY <1>5, <2>1 DEF Alert, Sent, Solo
  <2>2. CASE ~overlap
    <3>1. sending[t] # None /\ Continue(t, todo[t])
      BY <1>5 DEF Alert, Sent
    <3>2. \A u \in Task \ {t} : sending[u] = None
      BY <2>2, <3>1 DEF Solo
    <3>3. todo[t] \in SUBSET Snapshot /\ sending[t].row.id \in Goal
      BY <1>5, AlertShape DEF GoalInv, TypeOK
    <3>4. \A row \in todo[t] : row.last = goal'[row.id].level
      <4> SUFFICES ASSUME NEW row \in todo[t] PROVE row.last = goal'[row.id].level
        OBVIOUS
      <4>1. row.id \in Goal /\ row.last = goal[row.id].level /\ row.id # sending[t].row.id
        BY <2>2, <3>1, <3>3 DEF Solo, Snapshot, Goal
      <4>2. goal' = goal \/ goal' = [goal EXCEPT ![sending[t].row.id].level = sending[t].level]
        BY <1>5, AlertShape DEF AlertWrites
      <4> QED BY <3>3, <4>1, <4>2 DEF GoalInv, TypeOK
    <3> QED BY <3>1, <3>2, <3>3, <3>4, ContinueSolo
  <2> QED BY <2>1, <2>2
<1>6. CASE Crash
  BY <1>6, DiesShape DEF Crash, Solo
<1> QED BY <1>2, <1>3, <1>4, <1>5, <1>6 DEF Next, SetGoals

LEMMA SoloInit == Init => Solo
BY DEF Init, Solo

LEMMA SoloCorrect == Spec => []Solo
BY SoloInit, SoloStep, GoalsCorrect, PTL DEF Spec

\* The level that an undisturbed alert records is above the recorded one.
LEMMA AlertRaises ==
  ASSUME GoalInv, Solo, ~overlap, NEW t \in Task, Alert(t)
  PROVE  /\ sending[t].row.id \in Goal /\ sending[t].level \in AlertLevel
         /\ sending[t].level > goal[sending[t].row.id].level
BY AlertShape DEF Solo, Alert, Sent

LEMMA NeverDropsStep ==
  GoalInv /\ Solo /\ [Next]_vars =>
    \A g \in Goal : goal'[g].level < goal[g].level => overlap
<1> SUFFICES ASSUME GoalInv, Solo, [Next]_vars, NEW g \in Goal, ~overlap
             PROVE  ~(goal'[g].level < goal[g].level)
  OBVIOUS
<1>1. goal[g].level \in Nat
  BY DEF GoalInv, TypeOK, GoalRow, AlertLevel
<1>2. CASE \A t \in Task : ~Alert(t)
  BY <1>1, <1>2, OtherSteps
<1>3. ASSUME NEW t \in Task, Alert(t) PROVE ~(goal'[g].level < goal[g].level)
  <2>1. /\ sending[t].row.id \in Goal /\ sending[t].level \in AlertLevel
        /\ sending[t].level > goal[sending[t].row.id].level
    BY <1>3, AlertRaises
  <2>2. goal' = goal \/ goal' = [goal EXCEPT ![sending[t].row.id].level = sending[t].level]
    BY <1>3, AlertShape DEF AlertWrites
  <2>3. goal'[g].level = goal[g].level
        \/ (g = sending[t].row.id /\ goal'[g].level = sending[t].level)
    BY <2>1, <2>2 DEF GoalInv, TypeOK, GoalRow
  <2>4. sending[t].level \in Nat
    BY <2>1 DEF AlertLevel
  <2> QED BY <1>1, <2>1, <2>3, <2>4
<1> QED BY <1>2, <1>3

\* A level drops only after two evaluations overlapped (goals.py:154-172).
THEOREM LevelsNeverDrop == Spec => LevelNeverDrops
<1>1. GoalInv /\ Solo /\ [Next]_vars =>
        [\A g \in Goal : goal'[g].level < goal[g].level => overlap]_vars
  BY NeverDropsStep
<1> QED BY <1>1, GoalsCorrect, SoloCorrect, PTL DEF Spec, LevelNeverDrops

LEMMA RecordedStep == GoalInv /\ Solo /\ Recorded /\ [Next]_vars => Recorded'
<1> SUFFICES ASSUME GoalInv, Solo, Recorded, [Next]_vars, ~overlap',
                    NEW g \in Goal, NEW l \in AlertLevel, NEW m \in Member
             PROVE  /\ alerts'[<<g, l, m>>] <= 1 + lost'[<<g, l, m>>]
                    /\ alerts'[<<g, l, m>>] > lost'[<<g, l, m>>] => goal'[g].level >= l
  BY DEF Recorded
<1>1. ~overlap
  <2>1. CASE \E t \in Task : Alert(t)
    BY <2>1 DEF Alert, Sent
  <2> QED BY <2>1, OtherSteps
<1>2. alerts[<<g, l, m>>] \in Nat /\ lost[<<g, l, m>>] \in Nat /\ l \in Nat
  BY DEF GoalInv, TypeOK, AlertLevel
<1>3. /\ alerts[<<g, l, m>>] <= 1 + lost[<<g, l, m>>]
      /\ alerts[<<g, l, m>>] > lost[<<g, l, m>>] => goal[g].level >= l
  BY <1>1 DEF Recorded
<1>4. goal[g].level \in Nat
  BY DEF GoalInv, TypeOK, GoalRow, AlertLevel
<1>5. CASE \A t \in Task : ~Alert(t)
  <2>1. /\ goal'[g].level = goal[g].level
        /\ \/ /\ alerts'[<<g, l, m>>] = alerts[<<g, l, m>>]
              /\ lost'[<<g, l, m>>] = lost[<<g, l, m>>]
           \/ /\ alerts'[<<g, l, m>>] = alerts[<<g, l, m>>] + 1
              /\ lost'[<<g, l, m>>] = lost[<<g, l, m>>] + 1
    BY <1>5, OtherSteps
  <2> QED BY <1>2, <1>3, <1>4, <2>1
<1>6. ASSUME NEW t \in Task, Alert(t)
      PROVE  /\ alerts'[<<g, l, m>>] <= 1 + lost'[<<g, l, m>>]
             /\ alerts'[<<g, l, m>>] > lost'[<<g, l, m>>] => goal'[g].level >= l
  <2>1. PICK new, recorded : recorded \in BOOLEAN /\ AlertWrites(t, new, recorded)
    BY <1>6, AlertShape
  <2>2. /\ sending[t].row.id \in Goal /\ sending[t].level \in AlertLevel
        /\ sending[t].level > goal[sending[t].row.id].level
    BY <1>1, <1>6, AlertRaises
  <2>3. sending[t].level \in Nat
    BY <2>2 DEF AlertLevel
  <2>4. goal'[g].level = IF recorded /\ g = sending[t].row.id THEN sending[t].level
                                                          ELSE goal[g].level
    BY <2>1, <2>2 DEF AlertWrites, GoalInv, TypeOK, GoalRow
  <2>5. CASE <<g, l, m>> \in new
    <3>1. g = sending[t].row.id /\ l = sending[t].level
      BY <2>1, <2>5 DEF AlertWrites
    <3>2. alerts[<<g, l, m>>] <= lost[<<g, l, m>>]
      BY <1>2, <1>3, <1>4, <2>2, <3>1
    <3>3. /\ alerts'[<<g, l, m>>] = alerts[<<g, l, m>>] + 1
          /\ lost'[<<g, l, m>>] = IF recorded THEN lost[<<g, l, m>>]
                                             ELSE lost[<<g, l, m>>] + 1
      BY <2>1, <2>5 DEF AlertWrites
    <3> QED BY <1>2, <2>1, <2>4, <3>1, <3>2, <3>3
  <2>6. CASE <<g, l, m>> \notin new
    <3>1. /\ alerts'[<<g, l, m>>] = alerts[<<g, l, m>>]
          /\ lost'[<<g, l, m>>] = lost[<<g, l, m>>]
      BY <2>1, <2>6 DEF AlertWrites
    <3>2. goal'[g].level >= goal[g].level
      BY <1>4, <2>2, <2>3, <2>4
    <3> QED BY <1>2, <1>3, <1>4, <2>3, <2>4, <3>1, <3>2
  <2> QED BY <2>5, <2>6
<1> QED BY <1>5, <1>6

\* Unless evaluations overlapped, nobody gets an alert again but for one that no
\* record was made of - every call raised, or a restart came before the record -
\* and once for each such alert (goals.py:154-172).
THEOREM AlertsCorrect == Spec => []AlertOnce
<1>1. Init => Recorded
  BY DEF Init, Recorded
<1>2. GoalInv /\ Recorded => AlertOnce
  <2> SUFFICES ASSUME GoalInv, Recorded, ~overlap, NEW a \in DOMAIN alerts
               PROVE  alerts[a] <= 1 + lost[a]
    BY DEF AlertOnce
  <2>1. DOMAIN alerts = Goal \X AlertLevel \X Member
    BY DEF GoalInv, TypeOK
  <2>2. a = <<a[1], a[2], a[3]>> /\ a[1] \in Goal /\ a[2] \in AlertLevel /\ a[3] \in Member
    BY <2>1
  <2>3. alerts[<<a[1], a[2], a[3]>>] <= 1 + lost[<<a[1], a[2], a[3]>>]
    BY <2>2 DEF Recorded
  <2> QED BY <2>2, <2>3
<1> QED BY <1>1, <1>2, RecordedStep, SoloCorrect, GoalsCorrect, PTL DEF Spec
=============================================================================
