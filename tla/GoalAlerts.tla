----------------------------- MODULE GoalAlerts -----------------------------
(***************************************************************************)
(* The budget goals of one household in one month (bot/services/goals.py)  *)
(* and the alerts sent when spending crosses 50, 80 and 100 percent.       *)
(*                                                                         *)
(* evaluate_and_alert runs after every effective change, in the Telegram   *)
(* lane, in the morning job and in every HTTP task: it reads the goals     *)
(* once, with the level last alerted, and then waits for Telegram before   *)
(* each write of that level.                                               *)
(***************************************************************************)
EXTENDS Naturals, FiniteSets

CONSTANTS
  Topic,       \* what a goal can be about (a tag, or a topic without a tag)
  Limit,       \* the budget limits users set, in toman
  None,        \* a NULL column
  MaxGoals,    \* bound: goals ever created
  Sum,         \* what the month's expenses on a topic may sum up to
  Member,      \* the members of the household, who all get the alerts
  Task,        \* tasks that may evaluate the goals at the same time
  MaxAlerts,   \* bound: no evaluation starts after an alert was repeated so often
  LostReplies, \* may a call raise although Telegram has done it?
  CanCrash     \* may the process restart between two commits, or at an await?

ASSUME NoneAssumption == None \notin Topic /\ None \notin Limit
ASSUME LimitAssumption == Limit \subseteq Nat
ASSUME BoundAssumption == MaxGoals \in Nat /\ Sum \subseteq Nat /\ 0 \in Sum /\ MaxAlerts \in Nat
ASSUME FaultAssumption == LostReplies \in BOOLEAN /\ CanCrash \in BOOLEAN

VARIABLES
  goal,      \* table goals, by id; ids are never used again
  nextId,    \* the next AUTOINCREMENT id
  spent,     \* the confirmed expenses of the month on each topic
  todo,      \* per task: the goal rows it read and has not evaluated yet
  sending,   \* per task: the goal row and the level it is alerting, or None
  alerts,    \* history: how often each member got each level of each goal
  lost,      \* history: how many of these are in no recorded level
  overlap,   \* history: was anything evaluated while another task was at it?
  torn       \* history: goals whose last edit a restart cut off before the status

tasks == <<todo, sending>>
heard == <<alerts, lost, overlap>>
vars == <<goal, nextId, spent, tasks, heard, torn>>

Goal == 1..MaxGoals
AlertLevel == {50, 80, 100}
Status == {"absent", "draft", "active", "deleted"}
GoalRow == [status: Status, topic: Topic \cup {None}, limit: Limit \cup {None},
            level: {0} \cup AlertLevel]
Snapshot == [id: Goal, topic: Topic, limit: Limit \cup {None}, last: {0} \cup AlertLevel]

TypeOK ==
  /\ goal \in [Goal -> GoalRow]
  /\ nextId \in 1..(MaxGoals + 1)
  /\ spent \in [Topic -> Sum]
  /\ todo \in [Task -> SUBSET Snapshot]
  /\ sending \in [Task -> [row: Snapshot, level: AlertLevel] \cup {None}]
  /\ alerts \in [Goal \X AlertLevel \X Member -> Nat]
  /\ lost \in [Goal \X AlertLevel \X Member -> Nat]
  /\ overlap \in BOOLEAN
  /\ torn \in SUBSET Goal

Init ==
  /\ goal = [g \in Goal |-> [status |-> "absent", topic |-> None, limit |-> None, level |-> 0]]
  /\ nextId = 1
  /\ spent = [p \in Topic |-> 0]
  /\ todo = [t \in Task |-> {}]
  /\ sending = [t \in Task |-> None]
  /\ alerts = [a \in Goal \X AlertLevel \X Member |-> 0]
  /\ lost = [a \in Goal \X AlertLevel \X Member |-> 0]
  /\ overlap = FALSE
  /\ torn = {}

\* Alerts that arrive, of a level that is recorded or not.
Delivered(new, recorded) ==
  LET count(f) == [a \in DOMAIN f |-> IF a \in new THEN f[a] + 1 ELSE f[a]] IN
  /\ alerts' = count(alerts)
  /\ lost' = IF recorded THEN lost ELSE count(lost)

\* The alerts that are out.
Out == {<<sending[t].row.id, sending[t].level, m>> :
          t \in {u \in Task : sending[u] # None}, m \in Member}

\* The process dies.  Of the alerts that were out, those that arrived are in no
\* recorded level.
Dies ==
  /\ CanCrash
  /\ \E new \in SUBSET Out : Delivered(new, FALSE)
  /\ todo' = [t \in Task |-> {}]
  /\ sending' = [t \in Task |-> None]
  /\ UNCHANGED overlap

-----------------------------------------------------------------------------
(* Setting goals.                                                          *)

Live(g) == goal[g].status \in {"draft", "active"}
\* Mutant of StatusFor: a goal is complete as soon as it has a topic.
StatusForTopicOnly(topic, limit) == IF topic # None THEN "active" ELSE "draft"
Complete(topic, limit) == topic # None /\ limit # None
StatusFor(topic, limit) == IF Complete(topic, limit) THEN "active" ELSE "draft"
Given(new, old) == IF new # None THEN new ELSE old

\* find_goal_by_tag_month; SQL's "topic = NULL" matches no row.
Existing(topic) == {g \in Goal : Live(g) /\ topic # None /\ goal[g].topic = topic}

\* The goals of a message: upsert.  The status of an existing goal is computed
\* from the item alone, not from the goal the item is merged into.
CreateOrUpdate(topic, limit) ==
  /\ topic # None \/ limit # None
  /\ \/ /\ Existing(topic) # {}
        /\ \E g \in Existing(topic) :
             /\ \A h \in Existing(topic) : g <= h
             /\ goal' = [goal EXCEPT
                  ![g].status = StatusFor(topic, limit),
                  ![g].limit = Given(limit, @)]
             /\ torn' = torn \ {g}
        /\ UNCHANGED nextId
     \/ /\ Existing(topic) = {}
        /\ nextId \in Goal
        /\ goal' = [goal EXCEPT ![nextId] = [status |-> StatusFor(topic, limit),
                                             topic |-> topic, limit |-> limit, level |-> 0]]
        /\ nextId' = nextId + 1
        /\ UNCHANGED torn
  /\ UNCHANGED <<spent, tasks, heard>>

\* A goal update of a message, or a button edit: the fields given are one
\* commit, the status that _sync_status then computes of them another.  An
\* unreadable limit clears the column.
ApplyUpdate(g, topic, limit, unreadable) ==
  /\ Live(g)
  /\ unreadable => limit = None
  /\ LET newTopic == Given(topic, goal[g].topic)
         newLimit == IF unreadable THEN None ELSE Given(limit, goal[g].limit)
         fields == [goal[g] EXCEPT !.topic = newTopic, !.limit = newLimit]
     IN  \/ /\ goal' = [goal EXCEPT ![g] = [fields EXCEPT !.status = StatusFor(newTopic, newLimit)]]
           /\ torn' = torn \ {g}
           /\ UNCHANGED <<tasks, heard>>
        \/ /\ goal' = [goal EXCEPT ![g] = fields]
           /\ torn' = torn \cup {g}
           /\ Dies
  /\ UNCHANGED <<nextId, spent>>

Delete(g) ==
  /\ Live(g)
  /\ goal' = [goal EXCEPT ![g].status = "deleted"]
  /\ torn' = torn \ {g}
  /\ UNCHANGED <<nextId, spent, tasks, heard>>

\* An expense is recorded, edited or deleted.
Spend(p, sum) ==
  /\ spent[p] # sum
  /\ spent' = [spent EXCEPT ![p] = sum]
  /\ UNCHANGED <<goal, nextId, tasks, heard, torn>>

-----------------------------------------------------------------------------
(* evaluate_and_alert.                                                     *)

LevelFor(sum, limit) ==
  CASE sum >= limit -> 100
    [] sum < limit /\ 100 * sum >= 80 * limit -> 80
    [] 100 * sum < 80 * limit /\ 100 * sum >= 50 * limit -> 50
    [] OTHER -> 0

\* Mutant of Due: any other level than the last one is alerted.
DueOnChange(row) ==
  row.limit # None /\ row.limit > 0 /\ LevelFor(spent[row.topic], row.limit) # row.last

\* An alert is due: the spending is read now, the rest was read before.  A goal
\* without a limit is passed over.
Due(row) ==
  row.limit # None /\ row.limit > 0 /\ LevelFor(spent[row.topic], row.limit) > row.last

\* From one await to the next: skip what is not due, stop at the first that is.
Continue(t, rows) ==
  LET due == {row \in rows : Due(row)} IN
  \/ /\ due = {}
     /\ todo' = [todo EXCEPT ![t] = {}]
     /\ sending' = [sending EXCEPT ![t] = None]
  \/ \E row \in due :
     /\ \A other \in due : row.id <= other.id
     /\ todo' = [todo EXCEPT ![t] = {r \in rows : r.id > row.id}]
     /\ sending' = [sending EXCEPT ![t] =
          [row |-> row, level |-> LevelFor(spent[row.topic], row.limit)]]

ActiveRows ==
  {[id |-> g, topic |-> goal[g].topic, limit |-> goal[g].limit, last |-> goal[g].level] :
     g \in {h \in Goal : goal[h].status = "active"}}

Evaluate(t) ==
  /\ sending[t] = None
  /\ \A a \in DOMAIN alerts : alerts[a] < MaxAlerts
  /\ \E row \in ActiveRows : Due(row)
  /\ Continue(t, ActiveRows)
  /\ overlap' = (overlap \/ \E u \in Task : sending[u] # None)
  /\ UNCHANGED <<goal, nextId, spent, alerts, lost, torn>>

\* Mutant of RecordLevel: the column last_alert_level is never written.
RecordNothing(g, level) == UNCHANGED goal

RecordLevel(g, level) == goal' = [goal EXCEPT ![g].level = level]

\* The alert goes to every member: those in `got` get it, and of those in
\* `acked` Telegram says so; any other call raises and is skipped.  The level is
\* kept if those are one of `enough`.
Sent(t, enough) ==
  /\ sending[t] # None
  /\ \E got \in SUBSET Member : \E acked \in SUBSET got :
       LET g == sending[t].row.id
           level == sending[t].level
           recorded == acked \in enough
       IN  /\ LostReplies \/ acked = got
           /\ Delivered({<<g, level, m>> : m \in got}, recorded)
           /\ IF recorded THEN RecordLevel(g, level) ELSE UNCHANGED goal
  /\ Continue(t, todo[t])
  /\ UNCHANGED <<nextId, spent, overlap, torn>>

\* Mutant of Alert: the level is kept whether or not anybody was reached.
AlertUnheard(t) == Sent(t, SUBSET Member)

\* The level is kept if a call went through.
Alert(t) == Sent(t, (SUBSET Member) \ {{}})

\* The process dies while alerts are out.
Crash ==
  /\ \E t \in Task : sending[t] # None
  /\ Dies
  /\ UNCHANGED <<goal, nextId, spent, torn>>

Next ==
  \/ \E p \in Topic \cup {None}, l \in Limit \cup {None} : CreateOrUpdate(p, l)
  \/ \E g \in Goal, p \in Topic \cup {None}, l \in Limit \cup {None}, u \in BOOLEAN :
       ApplyUpdate(g, p, l, u)
  \/ \E g \in Goal : Delete(g)
  \/ \E p \in Topic, sum \in Sum : Spend(p, sum)
  \/ \E t \in Task : Evaluate(t) \/ Alert(t)
  \/ Crash

Spec == Init /\ [][Next]_vars

-----------------------------------------------------------------------------
(* Properties.                                                             *)

\* An active goal has a topic and a limit, through upserts, partial edits and
\* unreadable limits (goals.py:57, :107).  Only an edit that a restart cuts
\* between its two commits leaves one without a limit, and no longer than until
\* the next edit.
ActiveIsComplete ==
  \A g \in Goal : goal[g].status = "active" =>
    /\ goal[g].topic # None
    /\ goal[g].limit # None \/ g \in torn

\* A recorded level was really delivered to somebody: a failed send never
\* silences the alert (goals.py:171).
LevelWasDelivered ==
  \A g \in Goal : goal[g].level > 0 =>
    \E m \in Member : alerts[<<g, goal[g].level, m>>] > 0

\* Unless two evaluations overlapped, nobody gets an alert again but for one
\* that arrived and was not recorded - all its calls raised, or the process died
\* before the record -, and once for each of those, however spending and limits
\* go up and down in between (goals.py:154-172).
AlertOnce == ~overlap => \A a \in DOMAIN alerts : alerts[a] <= 1 + lost[a]

\* After an alert nothing lower follows on the same goal (ROADMAP.md:160),
\* unless two evaluations overlapped: the slower one writes a stale level.
LevelNeverDrops ==
  [][\A g \in Goal : goal'[g].level < goal[g].level => overlap]_vars
=============================================================================
