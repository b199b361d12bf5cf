------------------------------- MODULE Ingest -------------------------------
(***************************************************************************)
(* The second door: one user's POSTs to the HTTP server                    *)
(* (bot/ingest/server.py, bot/services/ingest.py) and the idempotency      *)
(* table ingest_requests that stands between a retry and a second record.  *)
(*                                                                         *)
(* Each connection is an asyncio task: what lies between two awaits is one *)
(* action.  A task waits in three places: for the model ("llm"), for the   *)
(* Telegram notice that nothing was found ("notify") and for the cards,    *)
(* notices and alerts of what was recorded ("cards").                      *)
(***************************************************************************)
EXTENDS Naturals, FiniteSets

CONSTANTS
  Request,       \* request ids, given by the client or hashed from the content
  Conn,          \* connections the server may be serving at the same time
  NoRequest,     \* what an idle connection is serving
  DailyLimit,    \* settings.daily_llm_limit
  CanCrash,      \* may the process be restarted between two awaits?
  LateFailure,   \* may an exception follow the commit of what was sent?
  MaxRecords     \* bound: entries of a request, but for one that ends queued

ASSUME RequestAssumption == NoRequest \notin Request
ASSUME ConnAssumption == IsFiniteSet(Conn)
ASSUME LimitAssumption == DailyLimit \in Nat \ {0}
ASSUME FaultAssumption == CanCrash \in BOOLEAN /\ LateFailure \in BOOLEAN
ASSUME BoundAssumption == MaxRecords \in Nat \ {0}

VARIABLES
  row,        \* ingest_requests: the status of each request, "absent" if no row
  stage,      \* where each connection's task waits
  serving,    \* the request each connection serves
  usage,      \* coupons charged today: the user's rows of table messages
  recorded,   \* number of times the transactions of a request were committed
  queued,     \* number of pending_inputs rows a request put in the queue
  told,       \* what the client was answered about each request
  expired     \* requests whose row the purge removed: too old to be retried

store == <<row, usage, recorded, queued, expired>>
vars == <<row, stage, serving, usage, recorded, queued, told, expired>>

Finished == {"recorded", "queued", "nothing"}
RowStatus == {"absent", "processing"} \cup Finished
Stage == {"idle", "llm", "notify", "cards"}
\* "error" and "late_error" are one answer to the client; the history keeps
\* apart whether what was sent had been committed when it was given.
Answer == Finished \cup {"already", "error", "late_error", "rate_limited"}

TypeOK ==
  /\ row \in [Request -> RowStatus]
  /\ stage \in [Conn -> Stage]
  /\ serving \in [Conn -> Request \cup {NoRequest}]
  /\ usage \in Nat
  /\ recorded \in [Request -> Nat]
  /\ queued \in [Request -> Nat]
  /\ told \in [Request -> SUBSET Answer]
  /\ expired \in SUBSET Request

Init ==
  /\ row = [r \in Request |-> "absent"]
  /\ stage = [c \in Conn |-> "idle"]
  /\ serving = [c \in Conn |-> NoRequest]
  /\ usage = 0
  /\ recorded = [r \in Request |-> 0]
  /\ queued = [r \in Request |-> 0]
  /\ told = [r \in Request |-> {}]
  /\ expired = {}

-----------------------------------------------------------------------------
(* The table: INSERT OR IGNORE, UPDATE, DELETE.                            *)

\* Mutant of Claimable: only a finished row answers a duplicate.
ClaimableUnlessFinished(r) == row[r] \notin Finished
Claimable(r) == row[r] = "absent"

\* Mutant of OverQuota: off by one.
OverQuotaLate == usage > DailyLimit
OverQuota == usage >= DailyLimit

Finish(r, status) == row' = [row EXCEPT ![r] = status]
Release(r) == row' = [row EXCEPT ![r] = "absent"]
Tell(r, answer) == told' = [told EXCEPT ![r] = @ \cup {answer}]

\* The message kept in the row; a row still 'processing' has an empty one and
\* the code falls back on "I have already recorded it".
KeptMessage(r) == IF row[r] = "processing" THEN "already" ELSE row[r]

Idle(c) ==
  /\ stage' = [stage EXCEPT ![c] = "idle"]
  /\ serving' = [serving EXCEPT ![c] = NoRequest]

Await(c, r, where) ==
  /\ stage' = [stage EXCEPT ![c] = where]
  /\ serving' = [serving EXCEPT ![c] = r]

-----------------------------------------------------------------------------
(* A POST arrives: all of handle() up to its first await.                  *)

Arrives(c, r) == stage[c] = "idle" /\ r \notin expired

Duplicate(c, r) ==
  /\ Arrives(c, r)
  /\ ~Claimable(r)
  /\ Tell(r, KeptMessage(r))
  /\ UNCHANGED <<store, stage, serving>>

\* Claimed and released in one go: the table is as it was.
RateLimited(c, r) ==
  /\ Arrives(c, r)
  /\ Claimable(r)
  /\ Tell(r, "rate_limited")
  /\ UNCHANGED <<store, stage, serving>>

\* Mutant of Enqueue: the row of a queued request is given back.
EnqueueAndRelease(c, r) ==
  /\ Arrives(c, r)
  /\ Claimable(r)
  /\ OverQuota
  /\ recorded[r] + queued[r] < MaxRecords
  /\ queued' = [queued EXCEPT ![r] = @ + 1]
  /\ Tell(r, "queued")
  /\ UNCHANGED <<row, stage, serving, usage, recorded, expired>>

Enqueue(c, r) ==
  /\ Arrives(c, r)
  /\ Claimable(r)
  /\ OverQuota
  /\ queued' = [queued EXCEPT ![r] = @ + 1]
  /\ Finish(r, "queued")
  /\ Tell(r, "queued")
  /\ UNCHANGED <<stage, serving, usage, recorded, expired>>

\* An exception between the two commits (181-185) gives the request back, though
\* it is queued already.
EnqueueFails(c, r) ==
  /\ LateFailure
  /\ Arrives(c, r)
  /\ Claimable(r)
  /\ OverQuota
  /\ recorded[r] + queued[r] < MaxRecords
  /\ queued' = [queued EXCEPT ![r] = @ + 1]
  /\ Tell(r, "late_error")
  /\ UNCHANGED <<row, stage, serving, usage, recorded, expired>>

\* A restart between them leaves it reserved.
EnqueueBreaksOff(c, r) ==
  /\ CanCrash
  /\ Arrives(c, r)
  /\ Claimable(r)
  /\ OverQuota
  /\ queued' = [queued EXCEPT ![r] = @ + 1]
  /\ Finish(r, "processing")
  /\ stage' = [d \in Conn |-> "idle"]
  /\ serving' = [d \in Conn |-> NoRequest]
  /\ UNCHANGED <<usage, recorded, told, expired>>

AskModel(c, r) ==
  /\ Arrives(c, r)
  /\ Claimable(r)
  /\ ~OverQuota
  /\ Finish(r, "processing")
  /\ Await(c, r, "llm")
  /\ UNCHANGED <<usage, recorded, queued, told, expired>>

-----------------------------------------------------------------------------
(* The model answers.                                                      *)

\* LLMUnavailableError, or any exception before a transaction is written.
ModelFails(c) ==
  /\ stage[c] = "llm"
  /\ Release(serving[c])
  /\ Tell(serving[c], "error")
  /\ Idle(c)
  /\ UNCHANGED <<usage, recorded, queued, expired>>

NothingFound(c) ==
  /\ stage[c] = "llm"
  /\ usage' = usage + 1
  /\ Await(c, serving[c], "notify")
  /\ UNCHANGED <<row, recorded, queued, told, expired>>

Commit(r) ==
  /\ recorded[r] + queued[r] < MaxRecords
  /\ recorded' = [recorded EXCEPT ![r] = @ + 1]

Record(c) ==
  /\ stage[c] = "llm"
  /\ Commit(serving[c])
  /\ usage' = usage + 1
  /\ Await(c, serving[c], "cards")
  /\ UNCHANGED <<row, queued, told, expired>>

\* An exception after the commit: handle() releases the row all the same.
FailAfterCommit(c) ==
  /\ LateFailure
  /\ \/ /\ stage[c] = "llm"
        /\ Commit(serving[c])
     \/ /\ stage[c] = "cards"
        /\ UNCHANGED recorded
  /\ Release(serving[c])
  /\ Tell(serving[c], "late_error")
  /\ Idle(c)
  /\ UNCHANGED <<usage, queued, expired>>

\* _notify swallows a Telegram failure, so the row is finished either way.
FinishNothing(c) ==
  /\ stage[c] = "notify"
  /\ Finish(serving[c], "nothing")
  /\ Tell(serving[c], "nothing")
  /\ Idle(c)
  /\ UNCHANGED <<usage, recorded, queued, expired>>

\* Cards and alerts swallow their failures too (module CardDelivery).
FinishRecorded(c) ==
  /\ stage[c] = "cards"
  /\ Finish(serving[c], "recorded")
  /\ Tell(serving[c], "recorded")
  /\ Idle(c)
  /\ UNCHANGED <<usage, recorded, queued, expired>>

-----------------------------------------------------------------------------
(* The surroundings.                                                       *)

\* A restart or a deploy: the tasks are gone, the database stays.
Crash ==
  /\ CanCrash
  /\ \E c \in Conn : stage[c] # "idle"
  /\ stage' = [c \in Conn |-> "idle"]
  /\ serving' = [c \in Conn |-> NoRequest]
  /\ UNCHANGED <<store, told>>

\* Mutant of Purge: only finished rows are deleted.
PurgeFinished(r) ==
  /\ row[r] \in Finished
  /\ Release(r)
  /\ expired' = expired \cup {r}
  /\ UNCHANGED <<stage, serving, usage, recorded, queued, told>>

\* purge_old_requests: rows older than RETRY_WINDOW_DAYS.  No task lives that
\* long, and no client retries that late (the bound of the promise).
Purge(r) ==
  /\ row[r] # "absent"
  /\ \A c \in Conn : serving[c] # r
  /\ Release(r)
  /\ expired' = expired \cup {r}
  /\ UNCHANGED <<stage, serving, usage, recorded, queued, told>>

\* usage_today counts from midnight.
Midnight ==
  /\ usage # 0
  /\ usage' = 0
  /\ UNCHANGED <<row, stage, serving, recorded, queued, told, expired>>

Arrival(c, r) ==
  \/ Duplicate(c, r) \/ RateLimited(c, r) \/ AskModel(c, r)
  \/ Enqueue(c, r) \/ EnqueueFails(c, r) \/ EnqueueBreaksOff(c, r)

Proceed(c) ==
  \/ ModelFails(c) \/ NothingFound(c) \/ Record(c)
  \/ FailAfterCommit(c) \/ FinishNothing(c) \/ FinishRecorded(c)

Next ==
  \/ \E c \in Conn, r \in Request : Arrival(c, r)
  \/ \E c \in Conn : Proceed(c)
  \/ Crash
  \/ \E r \in Request : Purge(r)
  \/ Midnight

Spec == Init /\ [][Next]_vars

\* The event loop runs every task whose await has ended (the model and the
\* Telegram calls have timeouts), and the purge job runs every night.
FairSpec ==
  /\ Spec
  /\ \A c \in Conn : WF_vars(Proceed(c))
  /\ \A r \in Request : WF_vars(Purge(r))

-----------------------------------------------------------------------------
(* Properties.                                                             *)

\* However often a request is sent, by however many connections at once, and
\* across restarts, its expenses enter the books at most once: recorded once,
\* or queued once for the morning, never both (schema.sql:92-93).
OnceOnly == \A r \in Request : recorded[r] + queued[r] <= 1

\* Whatever fails and wherever the process dies: a request is entered twice
\* only if an exception followed its commit and the client was then asked to
\* send it again.
TwiceOnlyAfterError ==
  \A r \in Request : recorded[r] + queued[r] > 1 => "late_error" \in told[r]

\* The quota is read before the model is asked and charged after it answered;
\* the tasks already waiting bound how far the day can run over its limit.
OvershootBounded == usage < DailyLimit + Cardinality(Conn)

\* The same request never has two tasks at work, whatever is retried while the
\* first is waiting for the model or for Telegram (ingest.py:158).
SoleServer ==
  \A c, d \in Conn : serving[c] = serving[d] /\ serving[c] # NoRequest => c = d

\* A reserved row never stays reserved: its task finishes or releases it, and
\* after a crash the nightly purge does.
ReservationEnds ==
  \A r \in Request : row[r] = "processing" ~> row[r] # "processing"

\* The promise of OnceOnlyInbox, seen in the tables and in the answers.
Inbox == INSTANCE OnceOnlyInbox WITH
  disposition <- [r \in Request |->
                    IF "late_error" \in told[r] THEN "unsure"
                    ELSE IF recorded[r] > 0 THEN "recorded"
                    ELSE IF queued[r] > 0 THEN "queued"
                    ELSE IF "nothing" \in told[r] THEN "nothing" ELSE "open"],
  acked <- [r \in Request |->
              IF "late_error" \in told[r] THEN "unsure"
              ELSE IF \E d \in Finished : d \in told[r]
                     THEN CHOOSE d \in Finished : d \in told[r] ELSE "open"]
ImplementsInbox == Inbox!Spec

\* The claims the code's own texts make, which a run refutes:
\* "I have already recorded it" (ingest.py:161): once no task serves the
\* request any more, something was indeed done about it.
AlreadyMeansDone ==
  \A r \in Request :
    "already" \in told[r] /\ (\A c \in Conn : serving[c] # r)
      => recorded[r] + queued[r] > 0 \/ "nothing" \in told[r]
=============================================================================
