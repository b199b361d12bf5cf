------------------------- MODULE PendingQueueProofs -------------------------
(***************************************************************************)
(* Proofs about PendingQueue: for any inputs of any kind, what was         *)
(* accepted for the morning is kept until it is settled, and nothing is    *)
(* recorded twice unless a flush was disturbed.                            *)
(***************************************************************************)
EXTENDS PendingQueue, TLAPS

Queueing(i) ==
  /\ pending' \in SUBSET Item /\ accepted' \in SUBSET Item /\ slipped' \in SUBSET Item
  /\ at' \in [Task -> FlushStage \cup {"idle", "direct"}]
  /\ inHand' \in Item \cup {NoItem}

LEMMA QueueOrAnswerType ==
  ASSUME TypeOK, NEW i \in Item, QueueOrAnswer(i)
  PROVE  Queueing(i)
BY DEF TypeOK, QueueOrAnswer, AddPending, Queueing, Task, FlushStage

LEMMA CommitType ==
  ASSUME TypeOK, NEW S, Commit(S)
  PROVE  recorded' \in [Item -> Nat]
BY DEF TypeOK, Commit

\* The lane has an input in hand as long as it is busy.
Held == at["lane"] # "idle" => inHand \in Item
Typed == TypeOK /\ Held

LEMMA LeaveType ==
  ASSUME Typed, NEW t \in Task, at[t] \in FlushStage, Leave(t)
  PROVE  /\ pending' \in SUBSET Item /\ accepted' \in SUBSET Item /\ slipped' \in SUBSET Item
         /\ at' \in [Task -> FlushStage \cup {"idle", "direct"}]
         /\ inHand' \in Item \cup {NoItem}
         /\ Held'
<1>1. CASE t = "lane"
  <2>1. inHand \in Item /\ QueueOrAnswer(inHand)
    BY <1>1 DEF Typed, Held, Leave, FlushStage
  <2>2. Queueing(inHand)
    BY <2>1, QueueOrAnswerType DEF Typed
  <2>3. Held'
    BY <2>1 DEF QueueOrAnswer, Held, Typed, TypeOK, Task
  <2> QED BY <2>2, <2>3 DEF Queueing
<1>2. CASE t # "lane"
  BY <1>2 DEF Leave, Typed, TypeOK, Held, Task
<1> QED BY <1>1, <1>2

LEMMA ClearType ==
  ASSUME Typed, NEW t \in Task, NEW rest \in SUBSET Photos, at[t] \in FlushStage,
         ClearWhenDone(t, rest)
  PROVE  /\ pending' \in SUBSET Item /\ usage' \in Nat
         /\ at' \in [Task -> FlushStage \cup {"idle", "direct"}]
         /\ photos' \in [Task -> SUBSET Photos]
         /\ at'["lane"] # "idle" => at["lane"] # "idle"
BY DEF Typed, TypeOK, ClearWhenDone, queueVars, Task, FlushStage

LEMMA TypeStep == Typed /\ [Next]_vars => Typed'
<1> SUFFICES ASSUME Typed, [Next]_vars PROVE Typed'
  OBVIOUS
<1>1. ASSUME NEW i \in Item, LaneReceives(i)
      PROVE  Typed'
  <2>1. CASE pending # {} /\ ~OverQuota
    <3>1. StartFlush("lane") /\ inHand' = i /\ UNCHANGED <<pending, accepted, slipped>>
      BY <1>1, <2>1 DEF LaneReceives
    <3>2. /\ at' \in [Task -> FlushStage \cup {"idle", "direct"}]
          /\ batch' \in [Task -> SUBSET (Texts \cup Voices)]
          /\ photos' \in [Task -> SUBSET Photos]
          /\ disturbed' \in SUBSET Disturbance
      BY <3>1 DEF StartFlush, Disturb, Disturbance, Typed, TypeOK, FlushStage, Item
    <3>3. sent' \in SUBSET Item /\ UNCHANGED <<usage, unread, recorded, refused>>
      BY <1>1 DEF LaneReceives, Typed, TypeOK
    <3> QED BY <3>1, <3>2, <3>3 DEF Typed, TypeOK, Held
  <2>2. CASE ~(pending # {} /\ ~OverQuota)
    <3>1. QueueOrAnswer(i) /\ UNCHANGED <<batch, photos, disturbed>>
      BY <1>1, <2>2 DEF LaneReceives
    <3>2. Queueing(i)
      BY <3>1, QueueOrAnswerType DEF Typed
    <3>3. Held'
      BY <3>1 DEF QueueOrAnswer, Held, Typed, TypeOK, Task
    <3> QED BY <1>1, <3>1, <3>2, <3>3 DEF LaneReceives, Queueing, Typed, TypeOK
  <2> QED BY <2>1, <2>2
<1>2. ASSUME NEW i \in Item, ShortcutQueued(i)
      PROVE  Typed'
  BY <1>2 DEF ShortcutQueued, AddPending, flushVars, Typed, TypeOK, Held
<1>3. CASE LaneAnswered
  <2>1. recorded' \in [Item -> Nat]
    BY <1>3, CommitType DEF LaneAnswered, Typed
  <2>2. usage' \in Nat
    <3>1. PICK w \in 1..MaxWeight : usage' = usage + w
      BY <1>3 DEF LaneAnswered
    <3> QED BY <3>1, LimitAssumption DEF Typed, TypeOK
  <2> QED BY <1>3, <2>1, <2>2 DEF LaneAnswered, Typed, TypeOK, Held, Task
<1>4. CASE LaneFailed
  <2>1. recorded' \in [Item -> Nat]
    BY <1>4, CommitType DEF LaneFailed, Typed, TypeOK
  <2> QED BY <1>4, <2>1 DEF LaneFailed, queueVars, Typed, TypeOK, Held, Task
<1>5. CASE MorningStarts
  BY <1>5 DEF MorningStarts, StartFlush, Disturb, Disturbance, queueVars, Typed, TypeOK, Held,
     Task, FlushStage, Item
<1>6. ASSUME NEW t \in Task, Greet(t)
      PROVE  Typed'
  BY <1>6 DEF Greet, queueVars, history, Typed, TypeOK, Held, Task, FlushStage
<1>7. ASSUME NEW t \in Task, GreetFails(t)
      PROVE  Typed'
  BY <1>7, LeaveType DEF GreetFails, Forget, Typed, TypeOK, FlushStage
<1>8. ASSUME NEW t \in Task, Download(t)
      PROVE  Typed'
  <2>1. PICK lost \in SUBSET (batch[t] \cap Voices) :
          /\ batch' = [batch EXCEPT ![t] = @ \ lost]
          /\ slipped' = slipped \cup lost
    BY <1>8 DEF Download
  <2>2. /\ batch' \in [Task -> SUBSET (Texts \cup Voices)]
        /\ slipped' \in SUBSET Item
    BY <2>1 DEF Typed, TypeOK, Item
  <2>3. CASE batch'[t] # {}
    BY <1>8, <2>2, <2>3 DEF Download, queueVars, Typed, TypeOK, Held, Task, FlushStage
  <2>4. CASE batch'[t] = {}
    <3>1. photos[t] \in SUBSET Photos /\ at[t] \in FlushStage /\ ClearWhenDone(t, photos[t])
      BY <1>8, <2>4 DEF Download, Typed, TypeOK, FlushStage
    <3> HIDE DEF ClearWhenDone
    <3> QED BY <1>8, <2>2, <3>1, ClearType DEF Download, Typed, TypeOK, Held
  <2> QED BY <2>3, <2>4
<1>9. ASSUME NEW t \in Task, BatchRecorded(t)
      PROVE  Typed'
  <2>1. photos[t] \in SUBSET Photos /\ at[t] \in FlushStage
    BY <1>9 DEF BatchRecorded, Typed, TypeOK, FlushStage
  <2>2. recorded' \in [Item -> Nat] /\ slipped' \in SUBSET Item
    <3>1. PICK made \in SUBSET batch[t] : Commit(made) /\ slipped' = slipped \cup (batch[t] \ made)
      BY <1>9 DEF BatchRecorded
    <3> QED BY <3>1, CommitType DEF Typed, TypeOK, Item
  <2> QED BY <1>9, <2>1, <2>2, ClearType DEF BatchRecorded, Typed, TypeOK, Held
<1>10. ASSUME NEW t \in Task, BatchFails(t)
       PROVE  Typed'
  <2>1. recorded' \in [Item -> Nat] /\ disturbed' \in SUBSET Disturbance
    BY <1>10, CommitType DEF BatchFails, Disturb, Disturbance, Typed, TypeOK
  <2> QED BY <1>10, <2>1, LeaveType DEF BatchFails, Forget, Typed, TypeOK, FlushStage
<1>11. ASSUME NEW t \in Task, NEW i \in Photos, Photo(t, i)
       PROVE  Typed'
  <2>1. photos[t] \ {i} \in SUBSET Photos /\ at[t] \in FlushStage
    BY <1>11 DEF Photo, Typed, TypeOK, FlushStage
  <2>2. recorded' \in [Item -> Nat]
    BY <1>11, CommitType DEF Photo, Typed, TypeOK
  <2>3. unread' \in [Task -> SUBSET Photos] /\ slipped' \in SUBSET Item
    BY <1>11 DEF Photo, Typed, TypeOK, Item
  <2> QED BY <1>11, <2>1, <2>2, <2>3, ClearType DEF Photo, Typed, TypeOK, Held
<1>12. ASSUME NEW t \in Task, Report(t)
       PROVE  Typed'
  <2>1. at[t] \in FlushStage
    BY <1>12 DEF Report, FlushStage
  <2>2. refused' \in SUBSET Item /\ unread' \in [Task -> SUBSET Photos]
    BY <1>12 DEF Report, Typed, TypeOK, Item
  <2> QED BY <1>12, <2>1, <2>2, LeaveType DEF Report, Typed, TypeOK
<1>13. CASE ShortcutCharged \/ Midnight
  BY <1>13 DEF ShortcutCharged, Midnight, flushVars, history, Typed, TypeOK, Held
<1>14. CASE Crash
  BY <1>14 DEF Crash, Disturb, Disturbance, queueVars, Typed, TypeOK, Held, Task
<1>15. CASE UNCHANGED vars
  BY <1>15 DEF vars, queueVars, flushVars, history, Typed, TypeOK, Held
<1> QED BY <1>1, <1>2, <1>3, <1>4, <1>5, <1>6, <1>7, <1>8, <1>9, <1>10, <1>11, <1>12, <1>13,
           <1>14, <1>15 DEF Next, FlushStep

\* Queue, tasks and histories keep their types, and the lane never goes to the
\* model or into a flush without an input in hand (messages.py:545-567).
THEOREM TypeCorrect == Spec => []Typed
<1>1. Init => Typed
  BY DEF Init, Typed, TypeOK, Held, Task, FlushStage
<1> QED BY <1>1, TypeStep, PTL DEF Spec
-----------------------------------------------------------------------------
(* What was accepted is kept.                                              *)

Reading == {"greet", "download", "batch", "photos"}

\* A flush that will clear the queue has in its hands every row it may clear,
\* but for the rows that came later and those it could not read.
Covered ==
  \A t \in Task : at[t] \in Reading =>
    \A i \in pending : i \in slipped \cup batch[t] \cup photos[t] \/ recorded[i] > 0
BatchFirst == \A t \in Task : at[t] = "photos" => batch[t] = {}
Kept == AcceptedIsKept /\ Covered /\ BatchFirst

Grows ==
  /\ \A i \in Item : recorded[i] > 0 => recorded'[i] > 0
  /\ slipped \subseteq slipped' /\ refused \subseteq refused'

LEMMA LeaveSlips ==
  ASSUME NEW t, Leave(t)
  PROVE  slipped \subseteq slipped'
BY DEF Leave, QueueOrAnswer, AddPending

LEMMA CommitGrows ==
  ASSUME Typed, NEW S, Commit(S)
  PROVE  /\ \A i \in Item : recorded[i] > 0 => recorded'[i] > 0
         /\ \A i \in Item : i \in S => recorded'[i] > 0
BY LimitAssumption DEF Commit, Typed, TypeOK

LEMMA ClearKeeps ==
  ASSUME Typed, Kept, NEW t \in Task, at[t] \in Reading, Grows,
         NEW rest, ClearWhenDone(t, rest), UNCHANGED accepted,
         batch' = [batch EXCEPT ![t] = {}],
         \A i \in pending : i \in slipped' \cup rest \/ recorded'[i] > 0
  PROVE  Kept'
<1>1. pending \subseteq Item /\ accepted \subseteq Item
  BY DEF Typed, TypeOK
<1>2. pending' \in {pending, {}} /\ (rest # {} => pending' = pending)
  BY DEF ClearWhenDone, queueVars
<1>3. /\ at' = [at EXCEPT ![t] = IF rest = {} THEN "report" ELSE "photos"]
      /\ photos' = [photos EXCEPT ![t] = rest]
      /\ rest = {} => pending' = {}
  BY DEF ClearWhenDone
<1>4. AcceptedIsKept'
  BY <1>1, <1>2, <1>3 DEF Kept, AcceptedIsKept, Settled, Grows
<1>5. ASSUME NEW u \in Task, at'[u] \in Reading, NEW i \in pending'
      PROVE  i \in slipped' \cup batch'[u] \cup photos'[u] \/ recorded'[i] > 0
  <2>1. i \in pending /\ i \in Item
    BY <1>1, <1>2, <1>5
  <2>2. CASE u = t
    BY <1>3, <2>1, <2>2 DEF Typed, TypeOK
  <2>3. CASE u # t
    <3>1. at'[u] = at[u] /\ batch'[u] = batch[u] /\ photos'[u] = photos[u]
      BY <1>3, <2>3 DEF Typed, TypeOK
    <3> QED BY <1>5, <2>1, <3>1 DEF Kept, Covered, Grows
  <2> QED BY <2>2, <2>3
<1>6. BatchFirst'
  BY <1>3 DEF Kept, BatchFirst, Typed, TypeOK
<1> QED BY <1>4, <1>5, <1>6 DEF Kept, Covered

LEMMA QueueOrAnswerKeeps ==
  ASSUME Typed, Kept, NEW i \in Item, QueueOrAnswer(i), Grows,
         \A t \in Task : t # "lane" => batch'[t] = batch[t] /\ photos'[t] = photos[t]
  PROVE  Kept'
<1>1. pending \subseteq Item /\ accepted \subseteq Item
  BY DEF Typed, TypeOK
<1>2. /\ pending \subseteq pending' /\ slipped \subseteq slipped'
      /\ accepted' \ accepted \subseteq pending'
  BY DEF QueueOrAnswer, AddPending
<1>3. \A j \in pending' : j \in pending \/ ~Flushing(Task \ {"lane"}) \/ j \in slipped'
  BY DEF QueueOrAnswer, AddPending
<1>4. /\ at'["lane"] \notin Reading
      /\ \A t \in Task : t # "lane" => at'[t] = at[t]
  BY DEF QueueOrAnswer, Typed, TypeOK, Task, Reading
<1>5. AcceptedIsKept'
  BY <1>1, <1>2 DEF Kept, AcceptedIsKept, Settled, Grows
<1>6. ASSUME NEW u \in Task, at'[u] \in Reading, NEW j \in pending'
      PROVE  j \in slipped' \cup batch'[u] \cup photos'[u] \/ recorded'[j] > 0
  <2>1. u # "lane" /\ at[u] \in Reading /\ Flushing(Task \ {"lane"})
    BY <1>4, <1>6 DEF Flushing, Reading, FlushStage
  <2>2. CASE j \in pending
    BY <1>1, <1>2, <2>1, <2>2 DEF Kept, Covered, Grows
  <2> QED BY <1>3, <2>1, <2>2
<1>7. BatchFirst'
  BY <1>4 DEF Kept, BatchFirst, Reading
<1> QED BY <1>5, <1>6, <1>7 DEF Kept, Covered

LEMMA LeaveKeeps ==
  ASSUME Typed, Kept, NEW t \in Task, at[t] \in FlushStage, Leave(t), Grows,
         \A u \in Task : u # t => batch'[u] = batch[u] /\ photos'[u] = photos[u]
  PROVE  Kept'
<1>1. CASE t = "lane"
  <2>1. inHand \in Item /\ QueueOrAnswer(inHand)
    BY <1>1 DEF Typed, Held, Leave, FlushStage
  <2> QED BY <1>1, <2>1, QueueOrAnswerKeeps
<1>2. CASE t # "lane"
  <2>1. at' = [at EXCEPT ![t] = "idle"] /\ UNCHANGED <<pending, accepted, slipped, inHand>>
    BY <1>2 DEF Leave
  <2>2. pending \subseteq Item /\ accepted \subseteq Item
    BY DEF Typed, TypeOK
  <2>3. AcceptedIsKept'
    BY <2>1, <2>2 DEF Kept, AcceptedIsKept, Settled, Grows
  <2>4. \A u \in Task : at'[u] \in Reading => u # t /\ at[u] \in Reading
    BY <2>1 DEF Typed, TypeOK, Reading
  <2>5. Covered' /\ BatchFirst'
    BY <2>1, <2>2, <2>4 DEF Kept, Covered, BatchFirst, Grows, Reading
  <2> QED BY <2>3, <2>5 DEF Kept
<1> QED BY <1>1, <1>2

LEMMA StartKeeps ==
  ASSUME Typed, Kept, NEW t \in Task, at[t] = "idle", StartFlush(t),
         UNCHANGED <<pending, accepted, slipped, recorded, refused>>
  PROVE  Kept'
<1>1. /\ at' = [at EXCEPT ![t] = "greet"]
      /\ batch' = [batch EXCEPT ![t] = pending \ Photos]
      /\ photos' = [photos EXCEPT ![t] = pending \cap Photos]
  BY DEF StartFlush
<1>2. \A u \in Task : u # t => at'[u] = at[u] /\ batch'[u] = batch[u] /\ photos'[u] = photos[u]
  BY <1>1 DEF Typed, TypeOK
<1>3. at'[t] = "greet" /\ batch'[t] \cup photos'[t] = pending
  BY <1>1 DEF Typed, TypeOK
<1> QED BY <1>2, <1>3 DEF Kept, AcceptedIsKept, Settled, Covered, BatchFirst, Reading

LEMMA KeptStep == Typed /\ Kept /\ [Next]_vars => Kept'
<1> SUFFICES ASSUME Typed, Kept, [Next]_vars PROVE Kept'
  OBVIOUS
<1>1. ASSUME NEW i \in Item, LaneReceives(i)
      PROVE  Kept'
  <2>1. at["lane"] = "idle" /\ "lane" \in Task /\ Grows
    BY <1>1 DEF LaneReceives, QueueOrAnswer, AddPending, Task, Grows
  <2>2. CASE pending # {} /\ ~OverQuota
    BY <1>1, <2>1, <2>2, StartKeeps DEF LaneReceives
  <2>3. CASE ~(pending # {} /\ ~OverQuota)
    BY <1>1, <2>1, <2>3, QueueOrAnswerKeeps DEF LaneReceives
  <2> QED BY <2>2, <2>3
<1>2. ASSUME NEW i \in Item, ShortcutQueued(i)
      PROVE  Kept'
  BY <1>2 DEF ShortcutQueued, AddPending, flushVars, Kept, AcceptedIsKept, Settled, Covered,
     BatchFirst, Reading, Flushing, FlushStage
<1>3. CASE LaneAnswered \/ LaneFailed
  <2>1. /\ UNCHANGED <<pending, batch, photos, accepted, slipped>>
        /\ refused \subseteq refused' /\ at' = [at EXCEPT !["lane"] = "idle"]
    BY <1>3 DEF LaneAnswered, LaneFailed, queueVars
  <2>2. \A i \in Item : recorded[i] > 0 => recorded'[i] > 0
    BY <1>3, CommitGrows DEF LaneAnswered, LaneFailed
  <2>3. \A u \in Task : at'[u] \in Reading => at[u] = at'[u]
    BY <2>1 DEF Typed, TypeOK, Reading
  <2>4. pending \subseteq Item /\ accepted \subseteq Item
    BY DEF Typed, TypeOK
  <2>5. AcceptedIsKept'
    BY <2>1, <2>2, <2>4 DEF Kept, AcceptedIsKept, Settled
  <2>6. Covered' /\ BatchFirst'
    BY <2>1, <2>2, <2>3, <2>4 DEF Kept, Covered, BatchFirst, Reading
  <2> QED BY <2>5, <2>6 DEF Kept
<1>5. CASE MorningStarts
  BY <1>5, StartKeeps DEF MorningStarts, queueVars, Task
<1>6. ASSUME NEW t \in Task, Greet(t)
      PROVE  Kept'
  <2>1. /\ at' = [at EXCEPT ![t] = "download"] /\ at[t] = "greet"
        /\ UNCHANGED <<pending, batch, photos, accepted, slipped, recorded, refused>>
    BY <1>6 DEF Greet, queueVars, history
  <2>2. \A u \in Task : at'[u] = at[u] \/ (u = t /\ at'[u] = "download")
    BY <2>1 DEF Typed, TypeOK
  <2> QED BY <2>1, <2>2 DEF Kept, AcceptedIsKept, Settled, Covered, BatchFirst, Reading
<1>7. ASSUME NEW t \in Task, GreetFails(t)
      PROVE  Kept'
  <2>1. Grows /\ at[t] \in FlushStage /\ Leave(t)
    BY <1>7, LeaveSlips DEF GreetFails, Grows, FlushStage
  <2>2. \A u \in Task : u # t => batch'[u] = batch[u] /\ photos'[u] = photos[u]
    BY <1>7 DEF GreetFails, Forget, Typed, TypeOK
  <2> QED BY <2>1, <2>2, LeaveKeeps
<1>8. ASSUME NEW t \in Task, Download(t)
      PROVE  Kept'
  <2>1. PICK lost \in SUBSET (batch[t] \cap Voices) :
          /\ batch' = [batch EXCEPT ![t] = @ \ lost]
          /\ slipped' = slipped \cup lost
    BY <1>8 DEF Download
  <2>2. /\ at[t] = "download" /\ Grows
        /\ UNCHANGED <<recorded, refused, accepted>>
    BY <1>8, <2>1 DEF Download, Grows
  <2>3. \A i \in pending :
          i \in slipped' \cup batch'[t] \cup photos[t] \/ recorded'[i] > 0
    BY <2>1, <2>2 DEF Kept, Covered, Reading, Typed, TypeOK
  <2>4. CASE batch'[t] # {}
    <3>1. /\ at' = [at EXCEPT ![t] = "batch"] /\ UNCHANGED <<pending, photos>>
      BY <1>8, <2>4 DEF Download, queueVars
    <3>2. \A u \in Task : u # t => at'[u] = at[u] /\ batch'[u] = batch[u]
      BY <2>1, <3>1 DEF Typed, TypeOK
    <3>3. at'[t] = "batch"
      BY <3>1 DEF Typed, TypeOK
    <3>4. AcceptedIsKept'
      BY <2>2, <3>1 DEF Kept, AcceptedIsKept, Settled, Grows
    <3>5. ASSUME NEW u \in Task, at'[u] \in Reading, NEW i \in pending'
          PROVE  i \in slipped' \cup batch'[u] \cup photos'[u] \/ recorded'[i] > 0
      BY <2>2, <2>3, <3>1, <3>2, <3>5 DEF Kept, Covered, Grows
    <3>6. BatchFirst'
      BY <3>2, <3>3 DEF Kept, BatchFirst
    <3> QED BY <3>4, <3>5, <3>6 DEF Kept, Covered
  <2>5. CASE batch'[t] = {}
    <3>1. ClearWhenDone(t, photos[t])
      BY <1>8, <2>5 DEF Download
    <3>2. batch' = [batch EXCEPT ![t] = {}]
      BY <2>1, <2>5 DEF Typed, TypeOK
    <3>3. at[t] \in Reading
      BY <2>2 DEF Reading
    <3> QED BY <2>2, <2>3, <2>5, <3>1, <3>2, <3>3, ClearKeeps
  <2> QED BY <2>4, <2>5
<1>9. ASSUME NEW t \in Task, BatchRecorded(t)
      PROVE  Kept'
  <2>1. /\ at[t] \in Reading /\ ClearWhenDone(t, photos[t])
        /\ batch' = [batch EXCEPT ![t] = {}]
        /\ UNCHANGED <<accepted, refused>>
    BY <1>9 DEF BatchRecorded, Reading
  <2> PICK made \in SUBSET batch[t] : Commit(made) /\ slipped' = slipped \cup (batch[t] \ made)
    BY <1>9 DEF BatchRecorded
  <2>2. Grows /\ \A i \in Item : i \in batch[t] => recorded'[i] > 0 \/ i \in slipped'
    BY <2>1, CommitGrows DEF Grows
  <2>3. \A i \in pending : i \in slipped' \cup photos[t] \/ recorded'[i] > 0
    BY <2>1, <2>2 DEF Kept, Covered, Grows, Typed, TypeOK
  <2> QED BY <2>1, <2>2, <2>3, ClearKeeps
<1>10. ASSUME NEW t \in Task, BatchFails(t)
       PROVE  Kept'
  <2>1. Leave(t) /\ at[t] \in FlushStage
    BY <1>10 DEF BatchFails, FlushStage
  <2>2. Grows
    BY <1>10, CommitGrows, LeaveSlips DEF BatchFails, Grows
  <2>3. \A u \in Task : u # t => batch'[u] = batch[u] /\ photos'[u] = photos[u]
    BY <1>10 DEF BatchFails, Forget, Typed, TypeOK
  <2> QED BY <2>1, <2>2, <2>3, LeaveKeeps
<1>11. ASSUME NEW t \in Task, NEW i \in Photos, Photo(t, i)
       PROVE  Kept'
  <2>1. /\ at[t] = "photos" /\ ClearWhenDone(t, photos[t] \ {i})
        /\ UNCHANGED <<batch, accepted, refused>>
    BY <1>11 DEF Photo
  <2>2. Grows
    BY <1>11, CommitGrows DEF Photo, Grows
  <2>3. recorded'[i] > 0 \/ i \in slipped'
    BY <1>11, CommitGrows DEF Photo, Item
  <2>4. batch[t] = {} /\ batch' = [batch EXCEPT ![t] = {}]
    BY <2>1 DEF Kept, BatchFirst, Typed, TypeOK
  <2>5. \A j \in pending : j \in slipped' \cup (photos[t] \ {i}) \/ recorded'[j] > 0
    BY <2>1, <2>2, <2>3, <2>4 DEF Kept, Covered, Reading, Grows, Typed, TypeOK
  <2>6. at[t] \in Reading
    BY <2>1 DEF Reading
  <2> QED BY <2>1, <2>2, <2>4, <2>5, <2>6, ClearKeeps
<1>12. ASSUME NEW t \in Task, Report(t)
       PROVE  Kept'
  <2>1. Leave(t) /\ at[t] \in FlushStage /\ Grows /\ UNCHANGED <<batch, photos>>
    BY <1>12, LeaveSlips DEF Report, FlushStage, Grows
  <2> QED BY <2>1, LeaveKeeps
<1>13. CASE ShortcutCharged \/ Midnight \/ UNCHANGED vars
  BY <1>13 DEF ShortcutCharged, Midnight, vars, queueVars, flushVars, history, Kept,
     AcceptedIsKept, Settled, Covered, BatchFirst
<1>14. CASE Crash
  BY <1>14 DEF Crash, queueVars, Kept, AcceptedIsKept, Settled, Covered, BatchFirst, Reading
<1> QED BY <1>1, <1>2, <1>3, <1>5, <1>6, <1>7, <1>8, <1>9, <1>10, <1>11, <1>12, <1>13, <1>14
    DEF Next, FlushStep

\* What was accepted for the morning stays queued until it is recorded or asked
\* for again, but for the three losses of pending.py:114, pending.py:86/126 and
\* agent.py:84-102/139-140.
THEOREM KeptCorrect == Spec => []AcceptedIsKept
<1>1. Init => Kept
  BY DEF Init, Kept, AcceptedIsKept, Covered, BatchFirst, Reading
<1>2. Kept => AcceptedIsKept
  BY DEF Kept
<1> QED BY <1>1, <1>2, TypeCorrect, KeptStep, PTL DEF Spec
-----------------------------------------------------------------------------
(* Nothing is recorded twice by an undisturbed flush.                      *)

\* A flush holds rows only as long as it has use for them, and everything the
\* bot knows of was sent.
Tidy ==
  /\ \A t \in Task :
       /\ at[t] \notin {"greet", "download", "batch"} => batch[t] = {}
       /\ at[t] \notin Reading => photos[t] = {}
       /\ batch[t] \cup photos[t] \subseteq sent
  /\ pending \subseteq sent
  /\ inHand \in Item => inHand \in sent
  /\ \A i \in Item \ sent : recorded[i] = 0

\* One flush at a time; what it, the queue and the lane hold is not in the
\* ledger yet, except for the queue while the photos are read.
Orderly ==
  /\ \A t, u \in Task : at[t] \in FlushStage /\ at[u] \in FlushStage => t = u
  /\ \A i \in Item : recorded[i] <= 1
  /\ \A t \in Task : \A i \in batch[t] \cup photos[t] : recorded[i] = 0 /\ i # inHand
  /\ \A i \in pending : i # inHand /\ (recorded[i] = 0 \/ \E t \in Task : at[t] = "photos")
  /\ inHand \in Item => recorded[inHand] = 0

Once == Tidy /\ (disturbed = {} => Orderly)

LEMMA CommitOnce ==
  ASSUME Typed, NEW S, Commit(S)
  PROVE  /\ \A i \in Item : i \notin S => recorded'[i] = recorded[i]
         /\ \A i \in Item : recorded[i] = 0 => recorded'[i] <= 1
         /\ \A i \in Item : recorded'[i] \in Nat
BY LimitAssumption DEF Commit, Typed, TypeOK

LEMMA ClearTidy ==
  ASSUME Typed, Tidy, NEW t \in Task, at[t] \in Reading, NEW rest \in SUBSET photos[t],
         ClearWhenDone(t, rest), batch' = [batch EXCEPT ![t] = {}],
         UNCHANGED <<sent, inHand>>, \A i \in Item \ sent : recorded'[i] = 0
  PROVE  Tidy'
<1>1. /\ at' = [at EXCEPT ![t] = IF rest = {} THEN "report" ELSE "photos"]
      /\ photos' = [photos EXCEPT ![t] = rest]
      /\ pending' \subseteq pending
  BY DEF ClearWhenDone, queueVars
<1>2. \A u \in Task : u # t => at'[u] = at[u] /\ batch'[u] = batch[u] /\ photos'[u] = photos[u]
  BY <1>1 DEF Typed, TypeOK
<1>3. /\ batch'[t] = {} /\ photos'[t] = rest
      /\ at'[t] \in Reading \/ rest = {}
  BY <1>1 DEF Typed, TypeOK, Reading
<1>4. \A u \in Task :
        /\ at'[u] \notin {"greet", "download", "batch"} => batch'[u] = {}
        /\ at'[u] \notin Reading => photos'[u] = {}
        /\ batch'[u] \cup photos'[u] \subseteq sent
  BY <1>2, <1>3 DEF Tidy
<1> QED BY <1>1, <1>4 DEF Tidy

LEMMA ClearOrderly ==
  ASSUME Typed, Tidy, Orderly, NEW t \in Task, at[t] \in Reading, NEW rest \in SUBSET photos[t],
         ClearWhenDone(t, rest), batch' = [batch EXCEPT ![t] = {}],
         UNCHANGED inHand,
         \A i \in Item : recorded'[i] <= 1,
         \A i \in rest : recorded'[i] = 0,
         inHand \in Item => recorded'[inHand] = 0
  PROVE  Orderly'
<1>1. /\ at' = [at EXCEPT ![t] = IF rest = {} THEN "report" ELSE "photos"]
      /\ photos' = [photos EXCEPT ![t] = rest]
      /\ pending' \subseteq pending /\ (rest = {} => pending' = {})
  BY DEF ClearWhenDone, queueVars
<1>2. \A u \in Task : u # t =>
        /\ at'[u] = at[u] /\ at[u] \notin FlushStage
        /\ batch'[u] = {} /\ photos'[u] = {}
  BY <1>1 DEF Typed, TypeOK, Orderly, Tidy, Reading, FlushStage
<1>3. /\ batch'[t] = {} /\ photos'[t] = rest
      /\ rest # {} => at'[t] = "photos"
  BY <1>1 DEF Typed, TypeOK
<1>4. \A u, v \in Task : at'[u] \in FlushStage /\ at'[v] \in FlushStage => u = v
  BY <1>2
<1>5. \A u \in Task : \A i \in batch'[u] \cup photos'[u] : recorded'[i] = 0 /\ i # inHand'
  BY <1>2, <1>3 DEF Orderly
<1>6. \A i \in pending' :
        i # inHand' /\ (recorded'[i] = 0 \/ \E u \in Task : at'[u] = "photos")
  BY <1>1, <1>3 DEF Orderly
<1> QED BY <1>4, <1>5, <1>6 DEF Orderly

LEMMA StartOnce ==
  ASSUME Typed, Once, NEW t \in Task, at[t] = "idle", StartFlush(t),
         UNCHANGED <<pending, recorded>>, sent \subseteq sent',
         inHand' = inHand \/ (inHand' \in sent' \ sent /\ inHand' \in Item)
  PROVE  Once'
<1>1. /\ at' = [at EXCEPT ![t] = "greet"]
      /\ batch' = [batch EXCEPT ![t] = pending \ Photos]
      /\ photos' = [photos EXCEPT ![t] = pending \cap Photos]
      /\ disturbed' = IF Flushing(Task) THEN disturbed \cup {"two flushes"} ELSE disturbed
  BY DEF StartFlush, Disturb
<1>2. \A u \in Task : u # t => at'[u] = at[u] /\ batch'[u] = batch[u] /\ photos'[u] = photos[u]
  BY <1>1 DEF Typed, TypeOK
<1>3. at'[t] = "greet" /\ batch'[t] \cup photos'[t] = pending
  BY <1>1 DEF Typed, TypeOK
<1>4. Tidy'
  <2>1. \A u \in Task :
          /\ at'[u] \notin {"greet", "download", "batch"} => batch'[u] = {}
          /\ at'[u] \notin Reading => photos'[u] = {}
          /\ batch'[u] \cup photos'[u] \subseteq sent
    BY <1>2, <1>3 DEF Once, Tidy, Reading
  <2> QED BY <2>1 DEF Once, Tidy
<1>5. ASSUME disturbed' = {} PROVE Orderly'
  <2>1. disturbed = {} /\ ~Flushing(Task) /\ Orderly
    BY <1>1, <1>5 DEF Once
  <2>2. \A u \in Task : at[u] \notin FlushStage
    BY <2>1 DEF Flushing
  <2>3. \A u \in Task : u # t => at'[u] \notin FlushStage /\ batch'[u] = {} /\ photos'[u] = {}
    BY <1>2, <2>2 DEF Once, Tidy, Reading, FlushStage
  <2>4. \A i \in pending : recorded[i] = 0 /\ i # inHand'
    BY <2>1, <2>2 DEF Orderly, Once, Tidy, FlushStage
  <2>5. \A u, v \in Task : at'[u] \in FlushStage /\ at'[v] \in FlushStage => u = v
    BY <2>3
  <2>6. \A u \in Task : \A i \in batch'[u] \cup photos'[u] : recorded'[i] = 0 /\ i # inHand'
    BY <1>3, <2>3, <2>4
  <2>7. inHand' \in Item => recorded'[inHand'] = 0
    BY <2>1 DEF Orderly, Once, Tidy
  <2> QED BY <2>1, <2>4, <2>5, <2>6, <2>7 DEF Orderly
<1> QED BY <1>4, <1>5 DEF Once

LEMMA QueueOrAnswerOnce ==
  ASSUME Typed, Once, NEW i \in Item, QueueOrAnswer(i), at["lane"] # "photos",
         i = inHand \/ i \notin sent, i \in sent', sent \subseteq sent',
         UNCHANGED recorded,
         \A t \in Task : t # "lane" => batch'[t] = batch[t] /\ photos'[t] = photos[t],
         batch'["lane"] = {} /\ photos'["lane"] = {},
         disturbed' = {} => disturbed = {}
  PROVE  Once'
<1>1. /\ pending' \subseteq pending \cup {i}
      /\ inHand' = i => pending' = pending
      /\ inHand' \in {i, NoItem} /\ NoItem \notin Item
  BY KindAssumption DEF QueueOrAnswer, AddPending
<1>2. /\ at'["lane"] \in {"idle", "direct"}
      /\ \A t \in Task : t # "lane" => at'[t] = at[t]
  BY DEF QueueOrAnswer, Typed, TypeOK, Task
<1>3. Tidy'
  <2>1. \A u \in Task :
          /\ at'[u] \notin {"greet", "download", "batch"} => batch'[u] = {}
          /\ at'[u] \notin Reading => photos'[u] = {}
          /\ batch'[u] \cup photos'[u] \subseteq sent'
    BY <1>2 DEF Once, Tidy, Reading
  <2> QED BY <1>1, <2>1 DEF Once, Tidy
<1>4. ASSUME disturbed' = {} PROVE Orderly'
  <2>1. Orderly
    BY <1>4 DEF Once
  <2>2. recorded[i] = 0
    BY <2>1 DEF Orderly, Once, Tidy
  <2>3. i \notin pending /\ \A t \in Task : i \notin batch[t] \cup photos[t]
    BY <2>1 DEF Orderly, Once, Tidy
  <2>4. pending \subseteq Item /\ \A t \in Task : batch[t] \cup photos[t] \subseteq Item
    BY DEF Typed, TypeOK, Item
  <2>5. \A u, v \in Task : at'[u] \in FlushStage /\ at'[v] \in FlushStage => u = v
    BY <1>2, <2>1 DEF Orderly, FlushStage
  <2>6. \A u \in Task : \A j \in batch'[u] \cup photos'[u] : recorded'[j] = 0 /\ j # inHand'
    <3>1. ASSUME NEW u \in Task, NEW j \in batch'[u] \cup photos'[u]
          PROVE  recorded'[j] = 0 /\ j # inHand'
      <4>1. u # "lane" /\ j \in batch[u] \cup photos[u]
        BY <3>1
      <4> QED BY <1>1, <2>1, <2>3, <2>4, <4>1 DEF Orderly
    <3> QED BY <3>1
  <2>7. ASSUME NEW j \in pending'
        PROVE  j # inHand' /\ (recorded'[j] = 0 \/ \E u \in Task : at'[u] = "photos")
    <3>1. CASE j = i
      BY <1>1, <2>2, <2>3, <2>7, <3>1
    <3>2. CASE j \in pending /\ j # i
      <4>1. recorded[j] = 0 \/ \E u \in Task : at[u] = "photos"
        BY <2>1, <3>2 DEF Orderly
      <4> QED BY <1>1, <1>2, <2>4, <3>2, <4>1
    <3> QED BY <1>1, <2>7, <3>1, <3>2
  <2> QED BY <1>1, <2>1, <2>2, <2>5, <2>6, <2>7 DEF Orderly
<1> QED BY <1>3, <1>4 DEF Once

LEMMA LeaveOnce ==
  ASSUME Typed, Once, NEW t \in Task, at[t] \in FlushStage, at[t] # "photos", Leave(t),
         UNCHANGED <<recorded, sent>>,
         \A u \in Task : u # t => batch'[u] = batch[u] /\ photos'[u] = photos[u],
         batch'[t] = {} /\ photos'[t] = {},
         disturbed' = {} => disturbed = {}
  PROVE  Once'
<1>1. CASE t = "lane"
  <2>1. inHand \in Item /\ QueueOrAnswer(inHand) /\ inHand \in sent
    BY <1>1 DEF Typed, Held, Leave, FlushStage, Once, Tidy
  <2> QED BY <1>1, <2>1, QueueOrAnswerOnce
<1>2. CASE t # "lane"
  <2>1. at' = [at EXCEPT ![t] = "idle"] /\ UNCHANGED <<pending, accepted, slipped, inHand>>
    BY <1>2 DEF Leave
  <2>2. \A u \in Task : u # t => at'[u] = at[u]
    BY <2>1 DEF Typed, TypeOK
  <2>3. at'[t] = "idle"
    BY <2>1 DEF Typed, TypeOK
  <2>4. Tidy'
    <3>1. \A u \in Task :
            /\ at'[u] \notin {"greet", "download", "batch"} => batch'[u] = {}
            /\ at'[u] \notin Reading => photos'[u] = {}
            /\ batch'[u] \cup photos'[u] \subseteq sent
      BY <2>2, <2>3 DEF Once, Tidy
    <3> QED BY <2>1, <3>1 DEF Once, Tidy
  <2>5. ASSUME disturbed' = {} PROVE Orderly'
    <3>1. Orderly
      BY <2>5 DEF Once
    <3>2. \A u, v \in Task : at'[u] \in FlushStage /\ at'[v] \in FlushStage => u = v
      BY <2>2, <2>3, <3>1 DEF Orderly, FlushStage
    <3>3. \A i \in pending : recorded[i] = 0 \/ \E u \in Task : at'[u] = "photos"
      BY <2>2, <3>1 DEF Orderly
    <3>4. \A u \in Task : \A i \in batch'[u] \cup photos'[u] : recorded[i] = 0 /\ i # inHand
      BY <3>1 DEF Orderly
    <3> QED BY <2>1, <3>1, <3>2, <3>3, <3>4 DEF Orderly
  <2> QED BY <2>4, <2>5 DEF Once
<1> QED BY <1>1, <1>2

LEMMA OnceStep == Typed /\ Once /\ [Next]_vars => Once'
<1> SUFFICES ASSUME Typed, Once, [Next]_vars PROVE Once'
  OBVIOUS
<1>1. ASSUME NEW i \in Item, LaneReceives(i)
      PROVE  Once'
  <2>1. at["lane"] = "idle" /\ "lane" \in Task /\ i \notin sent /\ sent' = sent \cup {i}
    BY <1>1 DEF LaneReceives, Task
  <2>2. CASE pending # {} /\ ~OverQuota
    BY <1>1, <2>1, <2>2, StartOnce DEF LaneReceives
  <2>3. CASE ~(pending # {} /\ ~OverQuota)
    <3>1. QueueOrAnswer(i) /\ UNCHANGED <<batch, photos, disturbed, recorded>>
      BY <1>1, <2>3 DEF LaneReceives
    <3>2. batch["lane"] = {} /\ photos["lane"] = {}
      BY <2>1 DEF Once, Tidy, Reading
    <3> QED BY <2>1, <3>1, <3>2, QueueOrAnswerOnce
  <2> QED BY <2>2, <2>3
<1>2. ASSUME NEW i \in Item, ShortcutQueued(i)
      PROVE  Once'
  <2>1. /\ pending' = pending \cup {i} /\ i \notin sent /\ sent' = sent \cup {i}
        /\ UNCHANGED <<at, batch, photos, inHand, recorded, disturbed>>
    BY <1>2 DEF ShortcutQueued, AddPending, flushVars
  <2>2. Tidy'
    BY <2>1 DEF Once, Tidy
  <2>3. i # inHand /\ recorded[i] = 0
    BY <2>1 DEF Once, Tidy
  <2> QED BY <2>1, <2>2, <2>3 DEF Once, Orderly
<1>3. CASE LaneAnswered \/ LaneFailed
  <2>1. /\ UNCHANGED <<pending, batch, photos, disturbed, sent>>
        /\ at' = [at EXCEPT !["lane"] = "idle"] /\ inHand' = NoItem /\ at["lane"] = "direct"
    BY <1>3 DEF LaneAnswered, LaneFailed, queueVars
  <2>2. inHand \in Item /\ inHand \in sent /\ NoItem \notin Item
    BY <2>1, KindAssumption DEF Typed, Held, Once, Tidy
  <2>3. recorded' = recorded \/ \E made \in SUBSET {inHand} : Commit(made)
    BY <1>3 DEF LaneAnswered, LaneFailed
  <2>4. /\ \A i \in Item : i # inHand => recorded'[i] = recorded[i]
        /\ recorded[inHand] = 0 => recorded'[inHand] <= 1
    <3>1. CASE recorded' = recorded
      BY <3>1
    <3>2. ASSUME NEW made \in SUBSET {inHand}, Commit(made)
          PROVE  /\ \A i \in Item : i # inHand => recorded'[i] = recorded[i]
                 /\ recorded[inHand] = 0 => recorded'[inHand] <= 1
      BY <2>2, <3>2, CommitOnce
    <3> QED BY <2>3, <3>1, <3>2
  <2>5. /\ \A u \in Task : u # "lane" => at'[u] = at[u]
        /\ at'["lane"] = "idle"
    BY <2>1 DEF Typed, TypeOK, Task
  <2>6. batch["lane"] = {} /\ photos["lane"] = {}
    BY <2>1 DEF Once, Tidy, Reading, Task
  <2>7. Tidy'
    <3>1. \A u \in Task :
            /\ at'[u] \notin {"greet", "download", "batch"} => batch'[u] = {}
            /\ at'[u] \notin Reading => photos'[u] = {}
            /\ batch'[u] \cup photos'[u] \subseteq sent
      BY <2>1, <2>5, <2>6 DEF Once, Tidy
    <3>2. \A i \in Item \ sent : recorded'[i] = 0
      BY <2>2, <2>4 DEF Once, Tidy
    <3> QED BY <2>1, <2>2, <3>1, <3>2 DEF Once, Tidy
  <2>8. ASSUME disturbed' = {} PROVE Orderly'
    <3>1. Orderly
      BY <2>1, <2>8 DEF Once
    <3>2. pending \subseteq Item /\ \A t \in Task : batch[t] \cup photos[t] \subseteq Item
      BY DEF Typed, TypeOK, Item
    <3>3. \A u, v \in Task : at'[u] \in FlushStage /\ at'[v] \in FlushStage => u = v
      BY <2>5, <3>1 DEF Orderly, FlushStage
    <3>4. \A i \in Item : recorded'[i] <= 1
      BY <2>2, <2>4, <3>1 DEF Orderly
    <3>5. \A u \in Task : \A i \in batch[u] \cup photos[u] : recorded'[i] = 0 /\ i # NoItem
      BY <2>2, <2>4, <3>1, <3>2 DEF Orderly
    <3>6. \A i \in pending : recorded'[i] = recorded[i] /\ i # NoItem
      BY <2>2, <2>4, <3>1, <3>2 DEF Orderly
    <3>7. \A i \in pending : recorded[i] = 0 \/ \E u \in Task : at'[u] = "photos"
      BY <2>1, <2>5, <3>1 DEF Orderly
    <3> QED BY <2>1, <2>2, <3>3, <3>4, <3>5, <3>6, <3>7 DEF Orderly
  <2> QED BY <2>7, <2>8 DEF Once
<1>5. CASE MorningStarts
  BY <1>5, StartOnce DEF MorningStarts, queueVars, Task
<1>6. ASSUME NEW t \in Task, Greet(t)
      PROVE  Once'
  <2>1. /\ at' = [at EXCEPT ![t] = "download"] /\ at[t] = "greet"
        /\ UNCHANGED <<pending, batch, photos, inHand, recorded, disturbed, sent>>
    BY <1>6 DEF Greet, queueVars, history
  <2>2. \A u \in Task : u # t => at'[u] = at[u]
    BY <2>1 DEF Typed, TypeOK
  <2>3. at'[t] = "download"
    BY <2>1 DEF Typed, TypeOK
  <2>4. Tidy'
    BY <2>1, <2>2, <2>3 DEF Once, Tidy, Reading
  <2> QED BY <2>1, <2>2, <2>3, <2>4 DEF Once, Orderly, FlushStage
<1>7. ASSUME NEW t \in Task, GreetFails(t)
      PROVE  Once'
  <2>1. /\ at[t] \in FlushStage /\ at[t] # "photos" /\ Leave(t)
        /\ UNCHANGED <<recorded, sent, disturbed>> /\ Forget(t)
    BY <1>7 DEF GreetFails, FlushStage
  <2>2. /\ \A u \in Task : u # t => batch'[u] = batch[u] /\ photos'[u] = photos[u]
        /\ batch'[t] = {} /\ photos'[t] = {}
    BY <2>1 DEF Forget, Typed, TypeOK
  <2> QED BY <2>1, <2>2, LeaveOnce
<1>8. ASSUME NEW t \in Task, Download(t)
      PROVE  Once'
  <2>1. PICK lost \in SUBSET (batch[t] \cap Voices) : batch' = [batch EXCEPT ![t] = @ \ lost]
    BY <1>8 DEF Download
  <2>2. at[t] = "download" /\ UNCHANGED <<recorded, inHand, disturbed, sent>>
    BY <1>8 DEF Download
  <2>3. CASE batch'[t] # {}
    <3>1. at' = [at EXCEPT ![t] = "batch"] /\ UNCHANGED <<pending, photos>>
      BY <1>8, <2>3 DEF Download, queueVars
    <3>2. \A u \in Task : u # t => at'[u] = at[u] /\ batch'[u] = batch[u]
      BY <2>1, <3>1 DEF Typed, TypeOK
    <3>3. at'[t] = "batch" /\ batch'[t] \subseteq batch[t]
      BY <2>1, <3>1 DEF Typed, TypeOK
    <3>4. Tidy'
      <4>1. \A u \in Task :
              /\ at'[u] \notin {"greet", "download", "batch"} => batch'[u] = {}
              /\ at'[u] \notin Reading => photos'[u] = {}
              /\ batch'[u] \cup photos'[u] \subseteq sent
        BY <3>1, <3>2, <3>3 DEF Once, Tidy, Reading
      <4> QED BY <2>2, <3>1, <4>1 DEF Once, Tidy
    <3>5. ASSUME disturbed = {} PROVE Orderly'
      <4>1. Orderly
        BY <3>5 DEF Once
      <4>2. \A u, v \in Task : at'[u] \in FlushStage /\ at'[v] \in FlushStage => u = v
        BY <2>2, <3>2, <3>3, <4>1 DEF Orderly, FlushStage
      <4>3. \A u \in Task : at'[u] = "photos" <=> at[u] = "photos"
        BY <2>2, <3>2, <3>3
      <4>4. \A u \in Task : \A i \in batch'[u] \cup photos'[u] : recorded[i] = 0 /\ i # inHand
        BY <3>1, <3>2, <3>3, <4>1 DEF Orderly
      <4> QED BY <2>2, <3>1, <4>1, <4>2, <4>3, <4>4 DEF Orderly
    <3> QED BY <2>2, <3>4, <3>5 DEF Once
  <2>4. CASE batch'[t] = {}
    <3>1. /\ ClearWhenDone(t, photos[t]) /\ at[t] \in Reading
          /\ batch' = [batch EXCEPT ![t] = {}]
      BY <1>8, <2>1, <2>2, <2>4 DEF Download, Reading, Typed, TypeOK
    <3>2. Tidy'
      BY <2>2, <3>1, ClearTidy DEF Once, Tidy
    <3>3. Orderly => Orderly'
      BY <2>2, <3>1, ClearOrderly DEF Once, Orderly
    <3> QED BY <2>2, <3>2, <3>3 DEF Once
  <2> QED BY <2>3, <2>4
<1>9. ASSUME NEW t \in Task, BatchRecorded(t)
      PROVE  Once'
  <2>1. /\ at[t] \in Reading /\ ClearWhenDone(t, photos[t])
        /\ batch' = [batch EXCEPT ![t] = {}]
        /\ UNCHANGED <<inHand, disturbed, sent>>
    BY <1>9 DEF BatchRecorded, Reading
  <2> PICK made \in SUBSET batch[t] : Commit(made)
    BY <1>9 DEF BatchRecorded
  <2>2. /\ \A i \in Item : i \notin batch[t] => recorded'[i] = recorded[i]
        /\ \A i \in Item : recorded[i] = 0 => recorded'[i] <= 1
    BY <2>1, CommitOnce
  <2>3. \A i \in Item \ sent : recorded'[i] = 0
    BY <2>2 DEF Once, Tidy
  <2>4. Tidy'
    BY <2>1, <2>3, ClearTidy DEF Once
  <2>5. ASSUME disturbed = {} PROVE Orderly'
    <3>1. Orderly
      BY <2>5 DEF Once
    <3>2. \A i \in Item : recorded'[i] <= 1
      BY <2>2, <3>1 DEF Orderly
    <3>3. \A i \in photos[t] : i \in Item /\ i \notin batch[t]
      BY KindAssumption DEF Typed, TypeOK, Item
    <3>4. \A i \in photos[t] : recorded'[i] = 0
      BY <2>2, <3>1, <3>3 DEF Orderly
    <3>5. inHand \in Item => recorded'[inHand] = 0
      BY <2>2, <3>1 DEF Orderly
    <3> QED BY <2>1, <3>1, <3>2, <3>4, <3>5, ClearOrderly DEF Once
  <2> QED BY <2>1, <2>4, <2>5 DEF Once
<1>10. ASSUME NEW t \in Task, BatchFails(t)
       PROVE  Once'
  <2>1. /\ at[t] = "batch" /\ at[t] \in FlushStage /\ Leave(t) /\ Forget(t)
        /\ UNCHANGED sent
    BY <1>10 DEF BatchFails, FlushStage
  <2>2. /\ \A u \in Task : u # t => batch'[u] = batch[u] /\ photos'[u] = photos[u]
        /\ batch'[t] = {} /\ photos'[t] = {}
    BY <2>1 DEF Forget, Typed, TypeOK
  <2>3. CASE UNCHANGED <<recorded, disturbed>>
    BY <2>1, <2>2, <2>3, LeaveOnce
  <2>4. ASSUME NEW made \in SUBSET batch[t], Commit(made),
               "failure after commit" \in disturbed'
        PROVE  Once'
    <3>1. batch[t] \subseteq sent
      BY DEF Once, Tidy
    <3>2. \A i \in Item \ sent : recorded'[i] = 0
      BY <2>4, <3>1, CommitOnce DEF Once, Tidy
    <3>3. /\ pending' \subseteq sent
          /\ inHand' \in Item => inHand' \in sent
          /\ at'[t] \in {"idle", "direct"}
          /\ \A u \in Task : u # t => at'[u] = at[u]
      <4>1. CASE t = "lane"
        <5>1. QueueOrAnswer(inHand) /\ inHand \in Item
          BY <2>1, <4>1 DEF Leave, Typed, Held
        <5> QED BY <4>1, <5>1, KindAssumption
                DEF QueueOrAnswer, AddPending, Once, Tidy, Typed, TypeOK
      <4>2. CASE t # "lane"
        BY <2>1, <4>2 DEF Leave, Once, Tidy, Typed, TypeOK
      <4> QED BY <4>1, <4>2
    <3>4. \A u \in Task :
            /\ at'[u] \notin {"greet", "download", "batch"} => batch'[u] = {}
            /\ at'[u] \notin Reading => photos'[u] = {}
            /\ batch'[u] \cup photos'[u] \subseteq sent
      BY <2>2, <3>3 DEF Once, Tidy
    <3> QED BY <2>1, <2>4, <3>2, <3>3, <3>4 DEF Once, Tidy
  <2> QED BY <1>10, <2>3, <2>4 DEF BatchFails, Disturb
<1>11. ASSUME NEW t \in Task, NEW i \in Photos, Photo(t, i)
       PROVE  Once'
  <2>1. /\ at[t] = "photos" /\ i \in photos[t] /\ ClearWhenDone(t, photos[t] \ {i})
        /\ UNCHANGED <<batch, inHand, disturbed, sent>>
        /\ recorded' = recorded \/ \E made \in SUBSET {i} : Commit(made)
    BY <1>11 DEF Photo
  <2>2. batch[t] = {} /\ batch' = [batch EXCEPT ![t] = {}]
    BY <2>1 DEF Once, Tidy, Typed, TypeOK
  <2>3. /\ \A j \in Item : j # i => recorded'[j] = recorded[j]
        /\ recorded[i] = 0 => recorded'[i] <= 1
    <3>1. CASE recorded' = recorded
      BY <3>1
    <3>2. ASSUME NEW made \in SUBSET {i}, Commit(made)
          PROVE  /\ \A j \in Item : j # i => recorded'[j] = recorded[j]
                 /\ recorded[i] = 0 => recorded'[i] <= 1
      BY <3>2, CommitOnce DEF Item
    <3> QED BY <2>1, <3>1, <3>2
  <2>4. i \in Item /\ i \in sent /\ at[t] \in Reading /\ photos[t] \subseteq Item
    BY <2>1 DEF Once, Tidy, Item, Reading, Typed, TypeOK
  <2>5. \A j \in Item \ sent : recorded'[j] = 0
    BY <2>3, <2>4 DEF Once, Tidy
  <2>6. Tidy'
    BY <2>1, <2>2, <2>4, <2>5, ClearTidy DEF Once
  <2>7. ASSUME disturbed = {} PROVE Orderly'
    <3>1. Orderly
      BY <2>7 DEF Once
    <3>2. recorded[i] = 0 /\ i # inHand
      BY <2>1, <3>1 DEF Orderly
    <3>3. \A j \in Item : recorded'[j] <= 1
      BY <2>3, <3>1, <3>2 DEF Orderly
    <3>4. \A j \in photos[t] \ {i} : recorded'[j] = 0
      BY <2>3, <2>4, <3>1 DEF Orderly
    <3>5. inHand \in Item => recorded'[inHand] = 0
      BY <2>3, <3>1, <3>2 DEF Orderly
    <3> QED BY <2>1, <2>2, <2>4, <3>1, <3>3, <3>4, <3>5, ClearOrderly DEF Once
  <2> QED BY <2>1, <2>6, <2>7 DEF Once
<1>12. ASSUME NEW t \in Task, Report(t)
       PROVE  Once'
  <2>1. /\ Leave(t) /\ at[t] = "report" /\ at[t] \in FlushStage
        /\ UNCHANGED <<batch, photos, recorded, sent, disturbed>>
    BY <1>12 DEF Report, FlushStage
  <2>2. batch[t] = {} /\ photos[t] = {}
    BY <2>1 DEF Once, Tidy, Reading
  <2> QED BY <2>1, <2>2, LeaveOnce
<1>13. CASE ShortcutCharged \/ Midnight \/ UNCHANGED vars
  BY <1>13 DEF ShortcutCharged, Midnight, vars, queueVars, flushVars, history, Once, Tidy, Orderly
<1>14. CASE Crash
  BY <1>14, KindAssumption DEF Crash, Disturb, queueVars, Once, Tidy
<1> QED BY <1>1, <1>2, <1>3, <1>5, <1>6, <1>7, <1>8, <1>9, <1>10, <1>11, <1>12, <1>13, <1>14
    DEF Next, FlushStep

\* Queue and ledger are read and written in five places of a flush, and still
\* nothing is recorded twice unless two flushes overlapped or one broke off
\* (pending.py:68-121).
THEOREM OnceCorrect == Spec => []OnceUndisturbed
<1>1. Init => Once
  BY KindAssumption DEF Init, Once, Tidy, Orderly, FlushStage
<1>2. Once => OnceUndisturbed
  BY DEF Once, Orderly, OnceUndisturbed
<1> QED BY <1>1, <1>2, TypeCorrect, OnceStep, PTL DEF Spec
=============================================================================
