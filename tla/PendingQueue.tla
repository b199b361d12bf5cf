---------------------------- MODULE PendingQueue ----------------------------
(***************************************************************************)
(* The after-hours queue of one user (bot/services/pending.py): once the   *)
(* day's quota is spent, inputs are kept as rows of pending_inputs and     *)
(* entered together, by the morning job or by the first Telegram message   *)
(* of a day with quota left.                                               *)
(*                                                                         *)
(* Three tasks touch the queue: the Telegram lane, which handles one       *)
(* update at a time; the morning job; and the HTTP door, which only adds   *)
(* rows.  Everything between two awaits is one action.                     *)
(***************************************************************************)
EXTENDS Naturals, FiniteSets

CONSTANTS
  Texts, Voices, Photos,   \* the inputs the user will send, by kind
  NoItem,                  \* the lane has no input in hand
  MorningRuns,             \* does the morning job run in this part of the day?
  DailyLimit,              \* settings.daily_llm_limit
  MaxWeight,               \* bound: coupons one long message may cost
  CanCrash,                \* may the process restart, once, between two awaits?
  LateFailure,             \* may extraction raise after it has committed?
  DownloadFails,           \* may the download of a queued voice fail?
  EntryMissed,             \* may an input come to nothing without an error?
  MaxRecords               \* bound: commits of an input are counted up to here

Item == Texts \cup Voices \cup Photos

ASSUME KindAssumption ==
  /\ Texts \cap Voices = {} /\ Photos \cap (Texts \cup Voices) = {}
  /\ NoItem \notin Item
ASSUME LimitAssumption ==
  DailyLimit \in Nat \ {0} /\ MaxWeight \in Nat \ {0} /\ MaxRecords \in Nat \ {0}
ASSUME FaultAssumption ==
  /\ CanCrash \in BOOLEAN /\ LateFailure \in BOOLEAN
  /\ DownloadFails \in BOOLEAN /\ EntryMissed \in BOOLEAN /\ MorningRuns \in BOOLEAN

VARIABLES
  pending,    \* pending_inputs: the rows of the user
  usage,      \* coupons charged today
  at,         \* where each task waits
  batch,      \* the texts and voices a flush read from the queue
  photos,     \* the photos a flush read and has not yet processed
  unread,     \* the failed photos a flush will ask for again in its report
  inHand,     \* the input the lane is handling
  recorded,   \* history: how often the expenses of an input were committed
  accepted,   \* history: inputs the user was told are saved for the morning
  refused,    \* history: inputs the user was asked to send again
  slipped,    \* history: inputs queued while another task was in a flush, or that
              \* a flush could not read, or read without recording anything of them
  disturbed,  \* history: did two flushes ever overlap, or one break off?
  sent        \* history: inputs sent so far

queueVars == <<pending, usage>>
flushVars == <<at, batch, photos, unread>>
history == <<recorded, accepted, refused, slipped, disturbed, sent>>
vars == <<queueVars, flushVars, inHand, history>>

Task == {"lane", "morning"}
Disturbance == {"two flushes", "failure after commit", "restart"}
FlushStage == {"greet", "download", "batch", "photos", "report"}

TypeOK ==
  /\ pending \in SUBSET Item
  /\ usage \in Nat
  /\ at \in [Task -> FlushStage \cup {"idle", "direct"}]
  /\ batch \in [Task -> SUBSET (Texts \cup Voices)]
  /\ photos \in [Task -> SUBSET Photos]
  /\ unread \in [Task -> SUBSET Photos]
  /\ inHand \in Item \cup {NoItem}
  /\ recorded \in [Item -> Nat]
  /\ accepted \in SUBSET Item /\ refused \in SUBSET Item
  /\ slipped \in SUBSET Item
  /\ disturbed \in SUBSET Disturbance
  /\ sent \in SUBSET Item

Init ==
  /\ pending = {} /\ usage = 0
  /\ at = [t \in Task |-> "idle"]
  /\ batch = [t \in Task |-> {}]
  /\ photos = [t \in Task |-> {}]
  /\ unread = [t \in Task |-> {}]
  /\ inHand = NoItem
  /\ recorded = [i \in Item |-> 0]
  /\ accepted = {} /\ refused = {} /\ slipped = {}
  /\ sent = {} /\ disturbed = {}

-----------------------------------------------------------------------------
OverQuota == usage >= DailyLimit
Flushing(tasks) == \E t \in tasks : at[t] \in FlushStage

\* add_pending, and the message that promises the morning, while one of the
\* other tasks may be in a flush.
AddPending(i, others) ==
  /\ pending' = pending \cup {i}
  /\ accepted' = accepted \cup {i}
  /\ slipped' = IF Flushing(others) THEN slipped \cup {i} ELSE slipped

\* The count stops at its bound: the commit happens all the same.
Commit(items) ==
  recorded' = [i \in Item |-> IF i \in items /\ recorded[i] < MaxRecords
                                THEN recorded[i] + 1 ELSE recorded[i]]

\* What the model makes of the items: an answer that cannot be parsed counts as
\* an empty one, a refused insert is logged, and of an input that is no expense
\* there is nothing to record.
Made(items, made) == made \subseteq items /\ (EntryMissed \/ made = items)

Disturb(what) == disturbed' = disturbed \cup what

\* The flush has read the rows (get_pending) and sends its "please wait".
StartFlush(t) ==
  /\ at' = [at EXCEPT ![t] = "greet"]
  /\ batch' = [batch EXCEPT ![t] = pending \ Photos]
  /\ photos' = [photos EXCEPT ![t] = pending \cap Photos]
  /\ Disturb(IF Flushing(Task) THEN {"two flushes"} ELSE {})

Forget(t) ==
  /\ batch' = [batch EXCEPT ![t] = {}]
  /\ photos' = [photos EXCEPT ![t] = {}]

-----------------------------------------------------------------------------
(* The Telegram lane: _process and _process_photo.                         *)

\* After the flush, or without one: the input in hand is queued if the quota
\* is spent and taken to the model otherwise.
QueueOrAnswer(i) ==
  \/ /\ OverQuota
     /\ AddPending(i, Task \ {"lane"})
     /\ at' = [at EXCEPT !["lane"] = "idle"]
     /\ inHand' = NoItem
  \/ /\ ~OverQuota
     /\ at' = [at EXCEPT !["lane"] = "direct"]
     /\ inHand' = i
     /\ UNCHANGED <<pending, accepted, slipped>>

LaneReceives(i) ==
  /\ at["lane"] = "idle"
  /\ i \notin sent
  /\ sent' = sent \cup {i}
  /\ IF pending # {} /\ ~OverQuota
       THEN /\ StartFlush("lane")
            /\ inHand' = i
            /\ UNCHANGED <<pending, accepted, slipped>>
       ELSE /\ QueueOrAnswer(i)
            /\ UNCHANGED <<batch, photos, disturbed>>
  /\ UNCHANGED <<usage, unread, recorded, refused>>

LaneAnswered ==
  /\ at["lane"] = "direct"
  /\ \E made \in SUBSET {inHand} : Made({inHand}, made) /\ Commit(made)
  /\ \E w \in 1..MaxWeight : usage' = usage + w
  /\ at' = [at EXCEPT !["lane"] = "idle"]
  /\ inHand' = NoItem
  /\ UNCHANGED <<pending, batch, photos, unread, accepted, refused, slipped, disturbed, sent>>

\* "Try again": possibly after some parts of the message were committed.
LaneFailed ==
  /\ at["lane"] = "direct"
  /\ \/ UNCHANGED recorded
     \/ LateFailure /\ Commit({inHand})
  /\ refused' = refused \cup {inHand}
  /\ at' = [at EXCEPT !["lane"] = "idle"]
  /\ inHand' = NoItem
  /\ UNCHANGED <<queueVars, batch, photos, unread, accepted, slipped, disturbed, sent>>

-----------------------------------------------------------------------------
(* flush_pending, as the task t runs it.                                   *)

\* flush_pending has returned or raised; both callers swallow the exception.
Leave(t) ==
  IF t = "lane" THEN QueueOrAnswer(inHand)
  ELSE /\ at' = [at EXCEPT ![t] = "idle"]
       /\ UNCHANGED <<pending, accepted, slipped, inHand>>

MorningStarts ==
  /\ MorningRuns
  /\ at["morning"] = "idle"
  /\ pending # {}
  /\ StartFlush("morning")
  /\ UNCHANGED <<queueVars, unread, inHand, recorded, accepted, refused, slipped, sent>>

Greet(t) ==
  /\ at[t] = "greet"
  /\ at' = [at EXCEPT ![t] = "download"]
  /\ UNCHANGED <<queueVars, batch, photos, unread, inHand, history>>

GreetFails(t) ==
  /\ at[t] = "greet"
  /\ Leave(t)
  /\ Forget(t)
  /\ UNCHANGED <<usage, unread, recorded, refused, disturbed, sent>>

\* Mutant of ClearWhenDone: the queue is cleared before its photos are read.
ClearAtOnce(t, rest) ==
  /\ photos' = [photos EXCEPT ![t] = rest]
  /\ pending' = {}
  /\ usage' = usage + 1
  /\ at' = [at EXCEPT ![t] = IF rest = {} THEN "report" ELSE "photos"]

\* Mutant of ClearWhenDone: clear_pending is forgotten.
NeverClear(t, rest) ==
  /\ photos' = [photos EXCEPT ![t] = rest]
  /\ usage' = IF rest = {} THEN usage + 1 ELSE usage
  /\ at' = [at EXCEPT ![t] = IF rest = {} THEN "report" ELSE "photos"]
  /\ UNCHANGED pending

\* clear_pending deletes every row of the user, whatever the flush had read,
\* and one coupon is charged; the photos left decide whether it is time.
ClearWhenDone(t, rest) ==
  /\ photos' = [photos EXCEPT ![t] = rest]
  /\ IF rest = {}
       THEN /\ pending' = {}
            /\ usage' = usage + 1
            /\ at' = [at EXCEPT ![t] = "report"]
       ELSE /\ UNCHANGED queueVars
            /\ at' = [at EXCEPT ![t] = "photos"]

\* A voice that cannot be downloaded is only logged; with no text and no
\* voice left, the model is not asked.
Download(t) ==
  /\ at[t] = "download"
  /\ \E lost \in SUBSET (batch[t] \cap Voices) :
       /\ DownloadFails \/ lost = {}
       /\ batch' = [batch EXCEPT ![t] = @ \ lost]
       /\ slipped' = slipped \cup lost
  /\ IF batch'[t] # {}
       THEN /\ at' = [at EXCEPT ![t] = "batch"]
            /\ UNCHANGED <<queueVars, photos>>
       ELSE ClearWhenDone(t, photos[t])
  /\ UNCHANGED <<unread, inHand, recorded, accepted, refused, disturbed, sent>>

\* What the model overlooked is cleared with the rest.
BatchRecorded(t) ==
  /\ at[t] = "batch"
  /\ \E made \in SUBSET batch[t] :
       /\ Made(batch[t], made)
       /\ Commit(made)
       /\ slipped' = slipped \cup (batch[t] \ made)
  /\ batch' = [batch EXCEPT ![t] = {}]
  /\ ClearWhenDone(t, photos[t])
  /\ UNCHANGED <<unread, inHand, accepted, refused, disturbed, sent>>

\* Any exception of the extraction: the queue is kept for another time.
BatchFails(t) ==
  /\ at[t] = "batch"
  /\ \/ UNCHANGED <<recorded, disturbed>>
     \/ /\ LateFailure
        /\ \E made \in SUBSET batch[t] : Commit(made)
        /\ Disturb({"failure after commit"})
  /\ Leave(t)
  /\ Forget(t)
  /\ UNCHANGED <<usage, unread, refused, sent>>

\* A photo that fails is skipped; the reply that asks for it waits in a list.
Photo(t, i) ==
  /\ at[t] = "photos"
  /\ i \in photos[t]
  /\ \/ /\ \E made \in SUBSET {i} :
             /\ Made({i}, made)
             /\ Commit(made)
             /\ slipped' = slipped \cup ({i} \ made)
        /\ UNCHANGED unread
     \/ /\ (UNCHANGED recorded) \/ (LateFailure /\ Commit({i}))
        /\ unread' = [unread EXCEPT ![t] = @ \cup {i}]
        /\ slipped' = slipped \cup {i}
  /\ ClearWhenDone(t, photos[t] \ {i})
  /\ UNCHANGED <<batch, inHand, accepted, refused, disturbed, sent>>

\* "Everything is recorded", the cards, the replies and the alerts: each may
\* fail and take the rest with it.
Report(t) ==
  /\ at[t] = "report"
  /\ refused' \in {refused, refused \cup unread[t]}
  /\ unread' = [unread EXCEPT ![t] = {}]
  /\ Leave(t)
  /\ UNCHANGED <<usage, batch, photos, recorded, disturbed, sent>>

-----------------------------------------------------------------------------
(* The surroundings.                                                       *)

\* The HTTP door over quota (Ingest!Enqueue): a text or a voice, no photo.
ShortcutQueued(i) ==
  /\ OverQuota
  /\ i \in (Texts \cup Voices) \ sent
  /\ sent' = sent \cup {i}
  /\ AddPending(i, Task)
  /\ UNCHANGED <<usage, flushVars, inHand, recorded, refused, disturbed>>

\* The HTTP door within quota charges the same coupons.
ShortcutCharged ==
  /\ ~OverQuota
  /\ usage' = usage + 1
  /\ UNCHANGED <<pending, flushVars, inHand, history>>

Midnight ==
  /\ usage # 0
  /\ usage' = 0
  /\ UNCHANGED <<pending, flushVars, inHand, history>>

\* A restart; one is enough to cut any flush short.
Crash ==
  /\ CanCrash /\ "restart" \notin disturbed
  /\ Disturb({"restart"})
  /\ \E t \in Task : at[t] # "idle"
  /\ at' = [t \in Task |-> "idle"]
  /\ batch' = [t \in Task |-> {}]
  /\ photos' = [t \in Task |-> {}]
  /\ unread' = [t \in Task |-> {}]
  /\ inHand' = NoItem
  /\ UNCHANGED <<queueVars, recorded, accepted, refused, slipped, sent>>

FlushStep(t) ==
  \/ Greet(t) \/ GreetFails(t) \/ Download(t) \/ BatchRecorded(t) \/ BatchFails(t)
  \/ (\E i \in Photos : Photo(t, i)) \/ Report(t)

Next ==
  \/ \E i \in Item : LaneReceives(i) \/ ShortcutQueued(i)
  \/ LaneAnswered \/ LaneFailed
  \/ MorningStarts
  \/ \E t \in Task : FlushStep(t)
  \/ ShortcutCharged \/ Midnight \/ Crash

Spec == Init /\ [][Next]_vars

\* The morning job runs every day and goes on when an await ends, and neither
\* Telegram nor the model fails it for ever; the lane may stand still.
FairSpec ==
  /\ Spec
  /\ WF_vars(MorningStarts)
  /\ WF_vars(FlushStep("morning"))
  /\ SF_vars(Greet("morning"))
  /\ SF_vars(BatchRecorded("morning"))

-----------------------------------------------------------------------------
(* Properties.                                                             *)

Settled(i) == recorded[i] > 0 \/ i \in refused

\* What was accepted for the morning stays in the queue until it is recorded
\* or the user is asked to send it again - unless it arrived while another task
\* was in a flush, a flush could not read its voice or photo, or a flush read it
\* and nothing came of it: the three ways the code loses an accepted input
\* (pending.py:114; pending.py:86 and 126; agent.py:84-102 and 139-140).
AcceptedIsKept ==
  \A i \in accepted \ slipped : i \in pending \/ Settled(i)

\* The queue is read long before it is cleared, and yet nothing is recorded
\* twice unless two flushes overlapped, or one broke off between its commit and
\* the clearing (pending.py:68-121).
OnceUndisturbed == disturbed = {} => \A i \in Item : recorded[i] <= 1

\* A queue does not stay: some morning empties it.
QueueDrains == pending # {} ~> pending = {}

\* What the user is told, which the runs refute: an accepted input will be
\* recorded in the morning (messages.py:66-70).
AcceptedIsNeverLost ==
  \A i \in accepted : i \in pending \/ Settled(i)
=============================================================================
