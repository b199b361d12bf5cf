---------------------------- MODULE IngestProofs ----------------------------
(***************************************************************************)
(* Theorems about module Ingest, for every set of requests and             *)
(* connections, every limit and either choice of the fault constants.      *)
(***************************************************************************)
EXTENDS Ingest, FiniteSetTheorems, TLAPS

USE RequestAssumption, LimitAssumption, FaultAssumption, BoundAssumption

\* A request whose history holds no failure that may have followed a commit.
Clean(r) == LateFailure => "late_error" \notin told[r]

\* A task is at work exactly when it serves a request, and the request it
\* serves is reserved.
Reserved ==
  \A c \in Conn :
    /\ stage[c] = "idle" <=> serving[c] = NoRequest
    /\ serving[c] # NoRequest => row[serving[c]] = "processing"

\* Nothing is in the books for a clean request before its task commits, ...
NotYet ==
  \A c \in Conn :
    stage[c] \in {"llm", "notify"} /\ Clean(serving[c])
      => recorded[serving[c]] = 0 /\ queued[serving[c]] = 0

\* ... nor while the request can still be claimed.
NotReleasedLate ==
  \A r \in Request :
    row[r] = "absent" /\ r \notin expired /\ Clean(r)
      => recorded[r] = 0 /\ queued[r] = 0

CleanOnce == \A r \in Request : Clean(r) => recorded[r] + queued[r] <= 1

IInv == TypeOK /\ Reserved /\ SoleServer /\ NotYet /\ NotReleasedLate /\ CleanOnce

-----------------------------------------------------------------------------

LEMMA InitIInv == Init => IInv
BY DEF Init, IInv, TypeOK, Reserved, SoleServer, NotYet, NotReleasedLate,
       CleanOnce, RowStatus, Stage

LEMMA TypeStep == TypeOK /\ Reserved /\ [Next]_vars => TypeOK'
<1> SUFFICES ASSUME TypeOK, Reserved, [Next]_vars PROVE TypeOK'
  OBVIOUS
<1> USE DEF TypeOK, RowStatus, Stage, Answer, Finished
<1>1. ASSUME NEW c \in Conn, NEW r \in Request, Arrival(c, r) PROVE TypeOK'
  <2>1. CASE Duplicate(c, r)
    BY <2>1 DEF Duplicate, Arrives, Claimable, KeptMessage, Tell, store
  <2>2. CASE RateLimited(c, r)
    BY <2>2 DEF RateLimited, Tell, store
  <2>3. CASE Enqueue(c, r)
    BY <2>3 DEF Enqueue, Finish, Tell
  <2>4. CASE AskModel(c, r)
    BY <2>4 DEF AskModel, Finish, Await
  <2>5. CASE EnqueueFails(c, r)
    BY <2>5 DEF EnqueueFails, Tell
  <2>6. CASE EnqueueBreaksOff(c, r)
    BY <2>6 DEF EnqueueBreaksOff, Finish
  <2> QED BY <1>1, <2>1, <2>2, <2>3, <2>4, <2>5, <2>6 DEF Arrival
<1>2. ASSUME NEW c \in Conn, Proceed(c) PROVE TypeOK'
  <2>0. serving[c] \in Request
    BY <1>2 DEF Proceed, ModelFails, NothingFound, Record, FailAfterCommit,
                FinishNothing, FinishRecorded, Reserved
  <2>1. CASE ModelFails(c)
    BY <2>0, <2>1 DEF ModelFails, Release, Tell, Idle
  <2>2. CASE NothingFound(c)
    BY <2>0, <2>2 DEF NothingFound, Await
  <2>3. CASE Record(c)
    BY <2>0, <2>3 DEF Record, Commit, Await
  <2>4. CASE FailAfterCommit(c)
    BY <2>0, <2>4 DEF FailAfterCommit, Commit, Release, Tell, Idle
  <2>5. CASE FinishNothing(c)
    BY <2>0, <2>5 DEF FinishNothing, Finish, Tell, Idle
  <2>6. CASE FinishRecorded(c)
    BY <2>0, <2>6 DEF FinishRecorded, Finish, Tell, Idle
  <2> QED BY <1>2, <2>1, <2>2, <2>3, <2>4, <2>5, <2>6 DEF Proceed
<1>3. CASE Crash
  BY <1>3 DEF Crash, store
<1>4. ASSUME NEW r \in Request, Purge(r) PROVE TypeOK'
  BY <1>4 DEF Purge, Release
<1>5. CASE Midnight
  BY <1>5 DEF Midnight
<1>6. CASE UNCHANGED vars
  BY <1>6 DEF vars
<1> QED BY <1>1, <1>2, <1>3, <1>4, <1>5, <1>6 DEF Next

LEMMA IInvStep == IInv /\ [Next]_vars => IInv'
<1> SUFFICES ASSUME IInv, [Next]_vars PROVE IInv'
  OBVIOUS
<1>0. TypeOK'
  BY TypeStep DEF IInv
<1> USE DEF IInv, TypeOK, Reserved, SoleServer, NotYet, NotReleasedLate,
            CleanOnce, Clean, RowStatus, Stage
<1>1. ASSUME NEW c \in Conn, NEW r \in Request, Arrival(c, r) PROVE IInv'
  <2>1. CASE Duplicate(c, r)
    BY <1>0, <2>1 DEF Duplicate, Arrives, Claimable, KeptMessage, Tell, store
  <2>2. CASE RateLimited(c, r)
    BY <1>0, <2>2 DEF RateLimited, Tell, store
  <2>3. CASE Enqueue(c, r)
    <3> USE <2>3 DEF Enqueue, Arrives, Claimable, Finish, Tell
    <3>1. row[r] = "absent" /\ (\A d \in Conn : serving[d] # r)
      OBVIOUS
    <3>2. Reserved' /\ SoleServer'
      BY <3>1
    <3>3. \A q \in Request : Clean(q)' <=> Clean(q)
      OBVIOUS
    <3>4. NotYet'
      BY <3>1, <3>3
    <3>5. NotReleasedLate' /\ CleanOnce'
      BY <3>1, <3>3
    <3> QED BY <1>0, <3>2, <3>4, <3>5
  <2>4. CASE AskModel(c, r)
    BY <1>0, <2>4 DEF AskModel, Arrives, Claimable, Finish, Await
  <2>5. CASE EnqueueFails(c, r)
    <3> USE <2>5 DEF EnqueueFails, Arrives, Claimable, Tell
    <3>1. row[r] = "absent" /\ (\A d \in Conn : serving[d] # r)
      OBVIOUS
    <3>2. \A q \in Request : Clean(q)' => Clean(q) /\ q # r
      OBVIOUS
    <3>3. Reserved' /\ SoleServer' /\ NotYet'
      BY <3>1, <3>2
    <3>4. NotReleasedLate' /\ CleanOnce'
      BY <3>1, <3>2
    <3> QED BY <1>0, <3>3, <3>4
  <2>6. CASE EnqueueBreaksOff(c, r)
    <3> USE <2>6 DEF EnqueueBreaksOff, Arrives, Claimable, Finish
    <3>1. row[r] = "absent" /\ \A q \in Request : Clean(q)' <=> Clean(q)
      OBVIOUS
    <3>2. Reserved' /\ SoleServer' /\ NotYet'
      OBVIOUS
    <3>3. NotReleasedLate' /\ CleanOnce'
      BY <3>1
    <3> QED BY <1>0, <3>2, <3>3
  <2> QED BY <1>1, <2>1, <2>2, <2>3, <2>4, <2>5, <2>6 DEF Arrival
<1>2. ASSUME NEW c \in Conn, Proceed(c) PROVE IInv'
  <2>0. serving[c] \in Request /\ row[serving[c]] = "processing"
    BY <1>2 DEF Proceed, ModelFails, NothingFound, Record, FailAfterCommit,
                FinishNothing, FinishRecorded
  <2>1. CASE ModelFails(c)
    BY <1>0, <2>0, <2>1 DEF ModelFails, Release, Tell, Idle
  <2>2. CASE NothingFound(c)
    BY <1>0, <2>0, <2>2 DEF NothingFound, Await
  <2>3. CASE Record(c)
    BY <1>0, <2>0, <2>3 DEF Record, Commit, Await
  <2>4. CASE FailAfterCommit(c)
    BY <1>0, <2>0, <2>4 DEF FailAfterCommit, Commit, Release, Tell, Idle
  <2>5. CASE FinishNothing(c)
    BY <1>0, <2>0, <2>5 DEF FinishNothing, Finish, Tell, Idle
  <2>6. CASE FinishRecorded(c)
    BY <1>0, <2>0, <2>6 DEF FinishRecorded, Finish, Tell, Idle
  <2> QED BY <1>2, <2>1, <2>2, <2>3, <2>4, <2>5, <2>6 DEF Proceed
<1>3. CASE Crash
  BY <1>0, <1>3 DEF Crash, store
<1>4. ASSUME NEW r \in Request, Purge(r) PROVE IInv'
  BY <1>0, <1>4 DEF Purge, Release
<1>5. CASE Midnight
  BY <1>0, <1>5 DEF Midnight
<1>6. CASE UNCHANGED vars
  BY <1>0, <1>6 DEF vars
<1> QED BY <1>1, <1>2, <1>3, <1>4, <1>5, <1>6 DEF Next

\* The state of Ingest is always well-typed.
THEOREM TypeCorrect == Spec => []TypeOK
<1>1. IInv => TypeOK
  BY DEF IInv
<1> QED BY <1>1, InitIInv, IInvStep, PTL DEF Spec

\* No request ever has two tasks at work (claim_ingest_request's reservation).
THEOREM SoleServerCorrect == Spec => []SoleServer
<1>1. IInv => SoleServer
  BY DEF IInv
<1> QED BY <1>1, InitIInv, IInvStep, PTL DEF Spec

\* However it is retried, and whatever fails after a commit, a request enters
\* the books twice only if its client was told of an error after the first time.
THEOREM TwiceOnlyAfterErrorCorrect == Spec => []TwiceOnlyAfterError
<1>1. IInv => TwiceOnlyAfterError
  <2> SUFFICES ASSUME IInv, NEW r \in Request, recorded[r] + queued[r] > 1
               PROVE  "late_error" \in told[r]
    BY DEF TwiceOnlyAfterError
  <2>1. ~(recorded[r] + queued[r] <= 1)
    BY DEF IInv, TypeOK
  <2> QED BY <2>1 DEF IInv, CleanOnce, Clean
<1> QED BY <1>1, InitIInv, IInvStep, PTL DEF Spec

\* If no exception follows a commit, a request enters the books at most once,
\* across any retries, interleavings and crashes.
THEOREM OnceOnlyCorrect == ASSUME ~LateFailure PROVE Spec => []OnceOnly
<1>1. IInv => OnceOnly
  BY DEF IInv, CleanOnce, Clean, OnceOnly
<1> QED BY <1>1, InitIInv, IInvStep, PTL DEF Spec

-----------------------------------------------------------------------------
(* The quota: a coupon is promised to every task that waits for the model. *)

Waiting == {c \in Conn : stage[c] = "llm"}
PromisedBounded == usage + Cardinality(Waiting) < DailyLimit + Cardinality(Conn)

LEMMA WaitingFinite ==
  ASSUME NEW W \in SUBSET Conn
  PROVE  /\ IsFiniteSet(W)
         /\ Cardinality(W) \in Nat
         /\ Cardinality(Conn) \in Nat
         /\ Cardinality(W) <= Cardinality(Conn)
         /\ \A V \in SUBSET W : Cardinality(V) <= Cardinality(W) /\ Cardinality(V) \in Nat
         /\ \A c \in W : Cardinality(W \ {c}) = Cardinality(W) - 1
BY ConnAssumption, FS_Subset, FS_CardinalityType, FS_RemoveElement

LEMMA PromisedStep == TypeOK /\ PromisedBounded /\ [Next]_vars => PromisedBounded'
<1> SUFFICES ASSUME TypeOK, PromisedBounded, [Next]_vars PROVE PromisedBounded'
  OBVIOUS
<1> DEFINE W == Waiting
<1> DEFINE Wp == Waiting'
<1>1. W \in SUBSET Conn /\ Wp \in SUBSET Conn
  BY DEF Waiting
<1>2. /\ Cardinality(W) \in Nat /\ Cardinality(Wp) \in Nat
      /\ Cardinality(Conn) \in Nat /\ Cardinality(Wp) <= Cardinality(Conn)
  BY <1>1, WaitingFinite
<1>3. usage \in Nat /\ usage + Cardinality(W) < DailyLimit + Cardinality(Conn)
  BY DEF TypeOK, PromisedBounded
<1>4. CASE /\ usage' = usage
           /\ Wp \subseteq W
  <2>1. Cardinality(Wp) <= Cardinality(W)
    BY <1>1, <1>4, WaitingFinite
  <2> QED BY <1>2, <1>3, <1>4, <2>1 DEF PromisedBounded
<1>5. CASE usage' <= DailyLimit - 1 /\ usage' \in Nat
  BY <1>2, <1>5 DEF PromisedBounded
<1>6. ASSUME NEW c \in Conn, usage' = usage + 1, c \in W, Wp = W \ {c}
      PROVE  PromisedBounded'
  <2>1. Cardinality(Wp) = Cardinality(W) - 1
    BY <1>1, <1>6, WaitingFinite
  <2> QED BY <1>2, <1>3, <1>6, <2>1 DEF PromisedBounded
<1>7. ASSUME NEW c \in Conn, NEW r \in Request, Arrival(c, r) PROVE PromisedBounded'
  <2>1. CASE AskModel(c, r)
    <3>1. usage' = usage /\ usage < DailyLimit
      BY <1>3, <2>1 DEF AskModel, OverQuota
    <3> QED BY <1>3, <1>5, <3>1
  <2>2. CASE Duplicate(c, r) \/ RateLimited(c, r) \/ Enqueue(c, r)
    <3>1. usage' = usage /\ stage' = stage
      BY <2>2 DEF Duplicate, RateLimited, Enqueue, store, vars
    <3>2. Wp \subseteq W
      BY <3>1 DEF Waiting
    <3> QED BY <1>4, <3>1, <3>2
  <2>3. CASE EnqueueFails(c, r) \/ EnqueueBreaksOff(c, r)
    <3>1. /\ usage' = usage
          /\ stage' = stage \/ stage' = [d \in Conn |-> "idle"]
      BY <2>3 DEF EnqueueFails, EnqueueBreaksOff
    <3>2. Wp \subseteq W
      BY <3>1 DEF Waiting
    <3> QED BY <1>4, <3>1, <3>2
  <2> QED BY <1>7, <2>1, <2>2, <2>3 DEF Arrival
<1>8. ASSUME NEW c \in Conn, Proceed(c) PROVE PromisedBounded'
  <2>1. CASE NothingFound(c) \/ Record(c)
    <3>1. usage' = usage + 1 /\ c \in W /\ Wp = W \ {c}
      BY <2>1 DEF NothingFound, Record, Await, Waiting, TypeOK
    <3> QED BY <1>6, <3>1
  <2>2. CASE ModelFails(c) \/ FailAfterCommit(c) \/ FinishNothing(c) \/ FinishRecorded(c)
    <3>1. usage' = usage /\ stage' = [stage EXCEPT ![c] = "idle"]
      BY <2>2 DEF ModelFails, FailAfterCommit, FinishNothing, FinishRecorded, Idle
    <3>2. Wp \subseteq W
      BY <3>1 DEF Waiting, TypeOK
    <3> QED BY <1>4, <3>1, <3>2
  <2> QED BY <1>8, <2>1, <2>2 DEF Proceed
<1>9. CASE Crash \/ (\E r \in Request : Purge(r)) \/ UNCHANGED vars
  <2>1. usage' = usage /\ (stage' = stage \/ stage' = [c \in Conn |-> "idle"])
    BY <1>9 DEF Crash, Purge, vars, store
  <2>2. Wp \subseteq W
    BY <2>1 DEF Waiting
  <2> QED BY <1>4, <2>1, <2>2
<1>10. CASE Midnight
  <2>1. usage' = 0
    BY <1>10 DEF Midnight
  <2> QED BY <1>5, <2>1
<1> QED BY <1>7, <1>8, <1>9, <1>10 DEF Next

\* With n connections the day ends at most n - 1 coupons over its limit.
THEOREM OvershootCorrect == Spec => []OvershootBounded
<1>1. Init => PromisedBounded
  <2> SUFFICES ASSUME Init PROVE PromisedBounded
    OBVIOUS
  <2>1. Waiting = {}
    BY DEF Init, Waiting
  <2>2. usage = 0 /\ Cardinality(Waiting) = 0 /\ Cardinality(Conn) \in Nat
    BY <2>1, FS_EmptySet, ConnAssumption, FS_CardinalityType DEF Init
  <2> QED BY <2>2 DEF PromisedBounded
<1>2. TypeOK /\ PromisedBounded => OvershootBounded
  <2> SUFFICES ASSUME TypeOK, PromisedBounded PROVE OvershootBounded
    OBVIOUS
  <2>1. Cardinality(Waiting) \in Nat /\ Cardinality(Conn) \in Nat /\ usage \in Nat
    BY WaitingFinite DEF Waiting, TypeOK
  <2> QED BY <2>1 DEF PromisedBounded, OvershootBounded
<1>3. Spec => []TypeOK
  BY TypeCorrect
<1> QED BY <1>1, <1>2, <1>3, PromisedStep, PTL DEF Spec

-----------------------------------------------------------------------------
(* The door implements the once-only inbox.                                *)

Late(r) == "late_error" \in told[r]
Became(r) == IF recorded[r] > 0 THEN "recorded"
             ELSE IF queued[r] > 0 THEN "queued"
             ELSE IF "nothing" \in told[r] THEN "nothing" ELSE "open"

disp == [r \in Request |-> IF Late(r) THEN "unsure" ELSE Became(r)]
ack == [r \in Request |->
          IF Late(r) THEN "unsure"
          ELSE IF \E d \in Finished : d \in told[r]
                 THEN CHOOSE d \in Finished : d \in told[r] ELSE "open"]

\* The answers given and the row agree with what became of a request, and a
\* request under way, or never claimed, is still open to the client.
AgreeOn(r) ==
  ~Late(r) =>
    /\ \A d \in Finished : d \in told[r] => Became(r) = d
    /\ row[r] \in Finished => Became(r) = row[r]
    /\ row[r] = "absent" /\ r \notin expired => Became(r) = "open"
UnderwayAt(c) ==
  stage[c] # "idle" /\ ~Late(serving[c]) =>
    /\ \A d \in Finished : d \notin told[serving[c]]
    /\ stage[c] = "cards" => Became(serving[c]) = "recorded"
    /\ stage[c] # "cards" => Became(serving[c]) = "open"
Agree == \A r \in Request : AgreeOn(r)
Underway == \A c \in Conn : UnderwayAt(c)

RInv == IInv /\ Agree /\ Underway

LEMMA ServingIsReserved ==
  ASSUME IInv, NEW c \in Conn, stage[c] # "idle"
  PROVE  /\ serving[c] \in Request /\ row[serving[c]] = "processing"
         /\ \A d \in Conn : d # c => serving[d] # serving[c]
BY DEF IInv, TypeOK, Reserved, SoleServer

\* A step that changes nothing a client could notice about any request.
SameTo(q) ==
  /\ recorded'[q] = recorded[q] /\ queued'[q] = queued[q]
  /\ Late(q)' <=> Late(q)
  /\ \A d \in Finished : d \in told'[q] <=> d \in told[q]

LEMMA SameToKeeps ==
  ASSUME NEW q \in Request, SameTo(q)
  PROVE  Became(q)' = Became(q) /\ disp'[q] = disp[q] /\ ack'[q] = ack[q]
<1>1. ("nothing" \in told'[q]) <=> ("nothing" \in told[q])
  BY DEF SameTo, Finished
<1>2. Became(q)' = Became(q)
  BY <1>1 DEF SameTo, Became
<1>3. (CHOOSE d \in Finished : d \in told'[q]) = (CHOOSE d \in Finished : d \in told[q])
  BY DEF SameTo
<1> QED BY <1>2, <1>3 DEF disp, ack, SameTo

\* What the actions that touch one request leave of the others.
Only(r) == \A q \in Request \ {r} : SameTo(q) /\ row'[q] = row[q]

\* One request's step, as the inbox sees it.
Step(r) ==
  \/ disp[r] # "open" /\ ack' = [ack EXCEPT ![r] = disp[r]] /\ disp' = disp
  \/ ack[r] = "open" /\ disp' = [disp EXCEPT ![r] = "unsure"] /\ ack' = [ack EXCEPT ![r] = "unsure"]
  \/ \E d \in Finished :
       /\ disp[r] = "open" /\ disp' = [disp EXCEPT ![r] = d]
       /\ ack' \in {ack, [ack EXCEPT ![r] = d]}

LEMMA StepIsInbox ==
  ASSUME NEW r \in Request, Step(r)
  PROVE  Inbox!Next
<1>1. CASE disp[r] # "open" /\ ack' = [ack EXCEPT ![r] = disp[r]] /\ disp' = disp
  <2>1. Inbox!Acknowledge(r)
    BY <1>1 DEF Inbox!Acknowledge, disp, ack, Late, Became
  <2> QED BY <2>1 DEF Inbox!Next
<1>2. CASE ack[r] = "open" /\ disp' = [disp EXCEPT ![r] = "unsure"]
           /\ ack' = [ack EXCEPT ![r] = "unsure"]
  <2>1. Inbox!GiveUp(r)
    BY <1>2 DEF Inbox!GiveUp, disp, ack, Late, Became
  <2> QED BY <2>1 DEF Inbox!Next
<1>3. ASSUME NEW d \in Finished, disp[r] = "open", disp' = [disp EXCEPT ![r] = d],
             ack' \in {ack, [ack EXCEPT ![r] = d]}
      PROVE  Inbox!Next
  <2>1. Inbox!Settle(r, d)
    BY <1>3 DEF Inbox!Settle, disp, ack, Late, Became
  <2>2. d \in Inbox!Disposition
    BY DEF Finished, Inbox!Disposition
  <2> QED BY <2>1, <2>2 DEF Inbox!Next
<1> QED BY <1>1, <1>2, <1>3 DEF Step

LEMMA OnlyMaps ==
  ASSUME NEW r \in Request, Only(r)
  PROVE  /\ disp' = [disp EXCEPT ![r] = disp'[r]]
         /\ ack' = [ack EXCEPT ![r] = ack'[r]]
         /\ disp'[r] = (IF Late(r)' THEN "unsure" ELSE Became(r)')
         /\ disp[r] = (IF Late(r) THEN "unsure" ELSE Became(r))
<1>1. \A q \in Request \ {r} : disp'[q] = disp[q] /\ ack'[q] = ack[q]
  BY SameToKeeps DEF Only
<1>2. /\ disp = [q \in Request |-> disp[q]] /\ disp' = [q \in Request |-> disp'[q]]
      /\ ack = [q \in Request |-> ack[q]] /\ ack' = [q \in Request |-> ack'[q]]
  BY DEF disp, ack
<1>3. disp[r] = (IF Late(r) THEN "unsure" ELSE Became(r))
  BY DEF disp
<1>4. disp'[r] = (IF Late(r)' THEN "unsure" ELSE Became(r)')
  BY DEF disp
<1> HIDE DEF disp, ack
<1>5. disp' = [disp EXCEPT ![r] = disp'[r]]
  BY <1>1, <1>2
<1>6. ack' = [ack EXCEPT ![r] = ack'[r]]
  BY <1>1, <1>2
<1> QED BY <1>3, <1>4, <1>5, <1>6

LEMMA AckIs ==
  ASSUME NEW r \in Request
  PROVE  /\ Late(r) => ack[r] = "unsure"
         /\ ~Late(r) /\ (\A d \in Finished : d \notin told[r]) => ack[r] = "open"
         /\ \A d \in Finished :
              ~Late(r) /\ d \in told[r] /\ (\A e \in Finished : e \in told[r] => e = d)
                => ack[r] = d
BY DEF ack

\* After an error nothing is promised any more.
LEMMA LateStays ==
  ASSUME NEW r \in Request, Only(r), Late(r), Late(r)'
  PROVE  UNCHANGED <<disp, ack>>
<1>1. disp'[r] = "unsure" /\ disp[r] = "unsure"
  BY OnlyMaps
<1>2. ack[r] = "unsure"
  BY AckIs
<1>3. ack'[r] = "unsure"
  BY DEF ack
<1>4. /\ disp = [q \in Request |-> disp[q]] /\ ack = [q \in Request |-> ack[q]]
  BY DEF disp, ack
<1> HIDE DEF disp, ack
<1> QED BY <1>1, <1>2, <1>3, <1>4, OnlyMaps

LEMMA SameStays ==
  ASSUME \A q \in Request : SameTo(q)
  PROVE  UNCHANGED <<disp, ack>>
<1>1. \A q \in Request : disp'[q] = disp[q] /\ ack'[q] = ack[q]
  BY SameToKeeps
<1>2. /\ disp = [q \in Request |-> disp[q]] /\ disp' = [q \in Request |-> disp'[q]]
      /\ ack = [q \in Request |-> ack[q]] /\ ack' = [q \in Request |-> ack'[q]]
  BY DEF disp, ack
<1> HIDE DEF disp, ack
<1> QED BY <1>1, <1>2

LEMMA OthersAgree ==
  ASSUME RInv, NEW r \in Request, Only(r), expired \subseteq expired', AgreeOn(r)'
  PROVE  Agree'
<1> SUFFICES ASSUME NEW q \in Request, q # r PROVE AgreeOn(q)'
  BY DEF Agree
<1>1. SameTo(q) /\ row'[q] = row[q] /\ Became(q)' = Became(q)
  BY SameToKeeps DEF Only
<1>2. AgreeOn(q)
  BY DEF RInv, Agree
<1> QED BY <1>1, <1>2 DEF AgreeOn, SameTo

LEMMA OthersUnderway ==
  ASSUME RInv, NEW c \in Conn, NEW r \in Request, Only(r),
         \A d \in Conn \ {c} : stage'[d] = stage[d] /\ serving'[d] = serving[d],
         \A d \in Conn \ {c} : stage[d] # "idle" => serving[d] # r,
         UnderwayAt(c)'
  PROVE  Underway'
<1> SUFFICES ASSUME NEW d \in Conn, d # c, stage[d] # "idle" PROVE UnderwayAt(d)'
  BY DEF Underway, UnderwayAt
<1>1. serving[d] \in Request \ {r}
  BY ServingIsReserved DEF RInv
<1>2. SameTo(serving[d]) /\ Became(serving[d])' = Became(serving[d])
  BY <1>1, SameToKeeps DEF Only
<1>3. UnderwayAt(d)
  BY DEF RInv, Underway
<1>4. serving'[d] = serving[d] /\ stage'[d] = stage[d]
  OBVIOUS
<1> QED BY <1>2, <1>3, <1>4 DEF UnderwayAt, SameTo, Became, Late

\* A step that no client could notice.
LEMMA SilentStep ==
  ASSUME RInv, \A q \in Request : SameTo(q),
         \A q \in Request : row'[q] = row[q] \/ q \in expired'
                            \/ (row'[q] = "absent" /\ (Late(q) \/ Became(q) = "open"))
                            \/ row'[q] = "processing",
         expired \subseteq expired', \A q \in Request : row'[q] \in Finished => row'[q] = row[q],
         \A d \in Conn : \/ stage'[d] = "idle"
                         \/ stage'[d] = stage[d] /\ serving'[d] = serving[d]
                         \/ stage[d] # "idle" /\ stage'[d] # "cards" /\ stage[d] # "cards"
                              /\ serving'[d] = serving[d]
                         \/ /\ serving'[d] \in Request /\ stage'[d] = "llm"
                            /\ row[serving'[d]] = "absent" /\ serving'[d] \notin expired
  PROVE  Agree' /\ Underway' /\ UNCHANGED <<disp, ack>>
<1>1. ASSUME NEW q \in Request PROVE AgreeOn(q)'
  <2>1. Became(q)' = Became(q) /\ AgreeOn(q)
    BY SameToKeeps DEF RInv, Agree
  <2> QED BY <2>1 DEF AgreeOn, SameTo, Finished
<1>2. ASSUME NEW d \in Conn, stage'[d] # "idle" PROVE UnderwayAt(d)'
  <2>1. CASE stage[d] # "idle" /\ serving'[d] = serving[d]
             /\ (stage'[d] = stage[d] \/ (stage'[d] # "cards" /\ stage[d] # "cards"))
    <3>1. serving[d] \in Request
      BY <2>1, ServingIsReserved DEF RInv
    <3>2. SameTo(serving[d]) /\ Became(serving[d])' = Became(serving[d])
      BY <2>1, <3>1, SameToKeeps
    <3>3. UnderwayAt(d)
      BY DEF RInv, Underway
    <3> QED BY <2>1, <3>2, <3>3 DEF UnderwayAt, SameTo, Became, Late
  <2>2. CASE /\ serving'[d] \in Request /\ stage'[d] = "llm"
             /\ row[serving'[d]] = "absent" /\ serving'[d] \notin expired
    <3> DEFINE q == serving'[d]
    <3>1. /\ \A e \in Finished : (e \in told'[q]) <=> (e \in told[q])
          /\ Late(q) <=> "late_error" \in told'[q]
          /\ recorded'[q] = recorded[q] /\ queued'[q] = queued[q]
      BY <2>2 DEF SameTo, Late
    <3>2. AgreeOn(q)
      BY <2>2 DEF RInv, Agree
    <3>3. ~Late(q) => Became(q) = "open" /\ \A e \in Finished : e \notin told[q]
      BY <2>2, <3>2 DEF AgreeOn, Finished
    <3>4. ~Late(q) =>
            /\ \A e \in Finished : e \notin told'[q]
            /\ ~(recorded'[q] > 0) /\ ~(queued'[q] > 0) /\ "nothing" \notin told'[q]
      BY <3>1, <3>3 DEF Became, Finished
    <3> QED BY <2>2, <3>1, <3>4 DEF UnderwayAt, Became, Late
  <2>3. stage'[d] = stage[d] => stage[d] # "idle"
    BY <1>2
  <2> QED BY <1>2, <2>1, <2>2, <2>3
<1>3. Underway'
  BY <1>2 DEF Underway, UnderwayAt
<1>4. Agree'
  BY <1>1 DEF Agree
<1> QED BY <1>3, <1>4, SameStays

\* What a client is told, one request at a time.
LEMMA TellOnly ==
  ASSUME TypeOK, NEW r \in Request, NEW a, Tell(r, a)
  PROVE  /\ told'[r] = told[r] \cup {a}
         /\ \A q \in Request \ {r} : told'[q] = told[q]
BY DEF Tell, TypeOK

LEMMA AckWillBe ==
  ASSUME NEW r \in Request
  PROVE  /\ Late(r)' => ack'[r] = "unsure"
         /\ ~Late(r)' /\ (\A d \in Finished : d \notin told'[r]) => ack'[r] = "open"
         /\ \A d \in Finished :
              ~Late(r)' /\ d \in told'[r] /\ (\A e \in Finished : e \in told'[r] => e = d)
                => ack'[r] = d
BY DEF ack

LEMMA FreshIsOpen ==
  ASSUME RInv, NEW r \in Request, row[r] = "absent", r \notin expired, ~Late(r)
  PROVE  /\ Became(r) = "open" /\ \A d \in Finished : d \notin told[r]
         /\ disp[r] = "open" /\ ack[r] = "open"
<1>1. Became(r) = "open" /\ \A d \in Finished : d \notin told[r]
  BY DEF RInv, Agree, AgreeOn, Finished
<1>2. disp[r] = "open"
  BY <1>1 DEF disp
<1> QED BY <1>1, <1>2, AckIs

LEMMA NoOtherTask ==
  ASSUME RInv, NEW r \in Request, row[r] # "processing", NEW d \in Conn, stage[d] # "idle"
  PROVE  serving[d] # r
BY ServingIsReserved DEF RInv

LEMMA DuplicateStep ==
  ASSUME RInv, NEW c \in Conn, NEW r \in Request, Duplicate(c, r)
  PROVE  Agree' /\ Underway' /\ (Step(r) \/ UNCHANGED <<disp, ack>>)
<1>0. TypeOK
  BY DEF RInv, IInv
<1>1. /\ stage' = stage /\ serving' = serving /\ row' = row /\ expired' = expired
      /\ recorded' = recorded /\ queued' = queued /\ stage[c] = "idle"
      /\ row[r] # "absent" /\ Tell(r, KeptMessage(r))
  BY DEF Duplicate, Arrives, Claimable, store
<1>2. /\ told'[r] = told[r] \cup {KeptMessage(r)}
      /\ \A q \in Request \ {r} : told'[q] = told[q]
  BY <1>0, <1>1, TellOnly
<1>3. Only(r)
  BY <1>1, <1>2 DEF Only, SameTo, Late
<1>4. CASE row[r] = "processing"
  <2>1. \A q \in Request : SameTo(q)
    BY <1>1, <1>2, <1>3, <1>4 DEF SameTo, Late, KeptMessage, Finished, Only
  <2> QED BY <1>1, <2>1, SilentStep
<1>5. CASE row[r] # "processing"
  <2>1. row[r] \in Finished /\ told'[r] = told[r] \cup {row[r]}
    BY <1>0, <1>1, <1>2, <1>5 DEF KeptMessage, TypeOK, RowStatus
  <2>2. (Late(r)' <=> Late(r)) /\ AgreeOn(r)
    BY <2>1 DEF Late, RInv, Agree, Finished
  <2>3. ~Late(r) => Became(r) = row[r] /\ Became(r)' = row[r]
    BY <1>1, <2>1, <2>2 DEF AgreeOn, Became, Finished
  <2>4. AgreeOn(r)'
    BY <1>1, <2>1, <2>2, <2>3 DEF AgreeOn, Finished
  <2>5. UnderwayAt(c)'
    BY <1>1 DEF UnderwayAt
  <2>6. Agree'
    BY <1>1, <1>3, <2>4, OthersAgree
  <2>7. Underway'
    BY <1>1, <1>3, <1>5, <2>5, NoOtherTask, OthersUnderway
  <2>8. CASE Late(r)
    BY <1>3, <2>2, <2>6, <2>7, <2>8, LateStays
  <2>9. CASE ~Late(r)
    <3>1. disp[r] = row[r] /\ disp'[r] = row[r] /\ row[r] # "open"
      BY <1>3, <2>1, <2>2, <2>3, <2>9, OnlyMaps DEF Finished
    <3>2. \A e \in Finished : e \in told'[r] => e = row[r]
      BY <2>1, <2>2, <2>3, <2>9 DEF AgreeOn
    <3>3. ack'[r] = row[r]
      BY <2>1, <2>2, <2>9, <3>2, AckWillBe
    <3>4. disp' = disp
      <4>1. /\ disp = [q \in Request |-> disp[q]] /\ disp' = [q \in Request |-> disp'[q]]
        BY DEF disp
      <4> HIDE DEF disp
      <4> QED BY <1>3, <3>1, <4>1, OnlyMaps
    <3> HIDE DEF disp, ack
    <3> QED BY <1>3, <2>6, <2>7, <3>1, <3>3, <3>4, OnlyMaps DEF Step
  <2> QED BY <2>8, <2>9
<1> QED BY <1>4, <1>5

LEMMA EnqueueStep ==
  ASSUME RInv, NEW c \in Conn, NEW r \in Request, Enqueue(c, r)
  PROVE  Agree' /\ Underway' /\ (Step(r) \/ UNCHANGED <<disp, ack>>)
<1>0. TypeOK
  BY DEF RInv, IInv
<1>1. /\ stage' = stage /\ serving' = serving /\ expired' = expired
      /\ recorded' = recorded /\ stage[c] = "idle" /\ r \notin expired
      /\ row[r] = "absent" /\ Tell(r, "queued")
  BY DEF Enqueue, Arrives, Claimable, store
<1>2. /\ row'[r] = "queued" /\ \A q \in Request \ {r} : row'[q] = row[q]
      /\ queued'[r] = queued[r] + 1 /\ \A q \in Request \ {r} : queued'[q] = queued[q]
  BY <1>0 DEF Enqueue, Finish, TypeOK
<1>3. /\ told'[r] = told[r] \cup {"queued"}
      /\ \A q \in Request \ {r} : told'[q] = told[q]
  BY <1>0, <1>1, TellOnly
<1>4. Only(r)
  BY <1>1, <1>2, <1>3 DEF Only, SameTo, Late
<1>5. Late(r)' <=> Late(r)
  BY <1>3 DEF Late
<1>6. ~Late(r) => /\ Became(r) = "open" /\ \A d \in Finished : d \notin told[r]
                  /\ disp[r] = "open" /\ ack[r] = "open"
  BY <1>1, FreshIsOpen
<1>7. ~Late(r) => Became(r)' = "queued"
  <2>1. queued[r] \in Nat /\ recorded[r] \in Nat
    BY <1>0 DEF TypeOK
  <2>2. Became(r) = "open" => ~(recorded[r] > 0)
    BY DEF Became
  <2> QED BY <1>1, <1>2, <1>6, <2>1, <2>2 DEF Became
<1>8. ~Late(r) => \A e \in Finished : e \in told'[r] => e = "queued"
  BY <1>3, <1>6
<1>9. AgreeOn(r)'
  BY <1>2, <1>5, <1>7, <1>8 DEF AgreeOn
<1>10. Agree' /\ Underway'
  <2>1. UnderwayAt(c)'
    BY <1>1 DEF UnderwayAt
  <2>2. Agree'
    BY <1>1, <1>4, <1>9, OthersAgree
  <2>3. Underway'
    BY <1>1, <1>4, <2>1, NoOtherTask, OthersUnderway
  <2> QED BY <2>2, <2>3
<1>11. CASE Late(r)
  BY <1>4, <1>5, <1>10, <1>11, LateStays
<1>12. CASE ~Late(r)
  <2>1. disp'[r] = "queued" /\ disp[r] = "open"
    BY <1>4, <1>5, <1>6, <1>7, <1>12, OnlyMaps
  <2>2. ack'[r] = "queued"
    BY <1>3, <1>5, <1>8, <1>12, AckWillBe DEF Finished
  <2> HIDE DEF disp, ack
  <2> QED BY <1>4, <1>10, <2>1, <2>2, OnlyMaps DEF Step, Finished
<1> QED BY <1>11, <1>12

LEMMA EnqueueFailsStep ==
  ASSUME RInv, NEW c \in Conn, NEW r \in Request, EnqueueFails(c, r)
  PROVE  Agree' /\ Underway' /\ (Step(r) \/ UNCHANGED <<disp, ack>>)
<1>0. TypeOK
  BY DEF RInv, IInv
<1>1. /\ stage[c] = "idle" /\ r \notin expired /\ row[r] = "absent"
      /\ queued' = [queued EXCEPT ![r] = @ + 1] /\ Tell(r, "late_error")
      /\ UNCHANGED <<row, stage, serving, recorded, expired>>
  BY DEF EnqueueFails, Arrives, Claimable
<1>2. \A q \in Request \ {r} : queued'[q] = queued[q]
  BY <1>0, <1>1 DEF TypeOK
<1>3. /\ told'[r] = told[r] \cup {"late_error"}
      /\ \A q \in Request \ {r} : told'[q] = told[q]
  BY <1>0, <1>1, TellOnly
<1>4. Only(r) /\ Late(r)'
  BY <1>1, <1>2, <1>3 DEF Only, SameTo, Late
<1>5. Agree' /\ Underway'
  <2>1. UnderwayAt(c)'
    BY <1>1 DEF UnderwayAt
  <2>2. AgreeOn(r)'
    BY <1>4 DEF AgreeOn
  <2>3. Agree'
    BY <1>1, <1>4, <2>2, OthersAgree
  <2>4. Underway'
    BY <1>1, <1>4, <2>1, NoOtherTask, OthersUnderway
  <2> QED BY <2>3, <2>4
<1>6. CASE Late(r)
  BY <1>4, <1>5, <1>6, LateStays
<1>7. CASE ~Late(r)
  <2>1. ack[r] = "open"
    BY <1>1, <1>7, FreshIsOpen
  <2>2. disp'[r] = "unsure" /\ ack'[r] = "unsure"
    BY <1>4, OnlyMaps, AckWillBe
  <2> HIDE DEF disp, ack
  <2> QED BY <1>4, <1>5, <2>1, <2>2, OnlyMaps DEF Step
<1> QED BY <1>6, <1>7

LEMMA EnqueueBreaksOffStep ==
  ASSUME RInv, NEW c \in Conn, NEW r \in Request, EnqueueBreaksOff(c, r)
  PROVE  Agree' /\ Underway' /\ (Step(r) \/ UNCHANGED <<disp, ack>>)
<1>0. TypeOK
  BY DEF RInv, IInv
<1>1. /\ r \notin expired /\ row[r] = "absent"
      /\ queued' = [queued EXCEPT ![r] = @ + 1]
      /\ row' = [row EXCEPT ![r] = "processing"]
      /\ stage' = [d \in Conn |-> "idle"]
      /\ UNCHANGED <<recorded, told, expired>>
  BY DEF EnqueueBreaksOff, Arrives, Claimable, Finish
<1>2. /\ queued'[r] = queued[r] + 1 /\ queued[r] \in Nat /\ row'[r] = "processing"
      /\ \A q \in Request \ {r} : queued'[q] = queued[q] /\ row'[q] = row[q]
  BY <1>0, <1>1 DEF TypeOK
<1>3. Only(r) /\ (Late(r)' <=> Late(r))
  BY <1>1, <1>2 DEF Only, SameTo, Late
<1>4. ~Late(r) => /\ Became(r) = "open" /\ \A d \in Finished : d \notin told[r]
                  /\ disp[r] = "open" /\ ack[r] = "open"
  BY <1>1, FreshIsOpen
<1>5. ~Late(r) => Became(r)' = "queued"
  <2>1. Became(r) = "open" => ~(recorded[r] > 0)
    BY DEF Became
  <2> QED BY <1>1, <1>2, <1>4, <2>1 DEF Became
<1>6. Agree' /\ Underway'
  <2>1. AgreeOn(r)'
    BY <1>1, <1>2, <1>3, <1>4 DEF AgreeOn, Finished
  <2>2. Agree'
    BY <1>1, <1>3, <2>1, OthersAgree
  <2>3. Underway'
    BY <1>1 DEF Underway, UnderwayAt
  <2> QED BY <2>2, <2>3
<1>7. CASE Late(r)
  BY <1>3, <1>6, <1>7, LateStays
<1>8. CASE ~Late(r)
  <2>1. disp'[r] = "queued" /\ disp[r] = "open"
    BY <1>3, <1>4, <1>5, <1>8, OnlyMaps
  <2>2. ack' = ack
    BY <1>1 DEF ack, Late
  <2>3. disp' = [disp EXCEPT ![r] = "queued"]
    BY <1>3, <2>1, OnlyMaps
  <2> HIDE DEF disp, ack
  <2> QED BY <1>6, <2>1, <2>2, <2>3 DEF Step, Finished
<1> QED BY <1>7, <1>8

LEMMA FinishStep ==
  ASSUME RInv, NEW c \in Conn, NEW r \in Request, r = serving[c],
         FinishNothing(c) \/ FinishRecorded(c)
  PROVE  Agree' /\ Underway' /\ (Step(r) \/ UNCHANGED <<disp, ack>>)
<1>0. TypeOK
  BY DEF RInv, IInv
<1>1. PICK a \in {"nothing", "recorded"} :
        /\ stage[c] = (IF a = "nothing" THEN "notify" ELSE "cards")
        /\ row' = [row EXCEPT ![r] = a] /\ Tell(r, a)
        /\ stage' = [stage EXCEPT ![c] = "idle"]
        /\ serving' = [serving EXCEPT ![c] = NoRequest]
        /\ UNCHANGED <<usage, recorded, queued, expired>>
  BY DEF FinishNothing, FinishRecorded, Finish, Idle
<1>2. /\ r \in Request /\ row[r] = "processing"
      /\ \A d \in Conn : d # c => serving[d] # r
  BY <1>1, ServingIsReserved DEF RInv
<1>3. /\ row'[r] = a /\ \A q \in Request \ {r} : row'[q] = row[q]
      /\ stage'[c] = "idle"
      /\ \A d \in Conn \ {c} : stage'[d] = stage[d] /\ serving'[d] = serving[d]
  BY <1>0, <1>1, <1>2 DEF TypeOK
<1>4. /\ told'[r] = told[r] \cup {a}
      /\ \A q \in Request \ {r} : told'[q] = told[q]
  BY <1>0, <1>1, <1>2, TellOnly
<1>5. Only(r)
  BY <1>1, <1>3, <1>4 DEF Only, SameTo, Late
<1>6. Late(r)' <=> Late(r)
  BY <1>4 DEF Late
<1>7. ~Late(r) => /\ \A d \in Finished : d \notin told[r]
                  /\ Became(r) = (IF a = "nothing" THEN "open" ELSE "recorded")
  <2>1. UnderwayAt(c)
    BY DEF RInv, Underway
  <2> QED BY <1>1, <2>1 DEF UnderwayAt
<1>8. ~Late(r) => Became(r)' = a
  BY <1>1, <1>4, <1>7 DEF Became
<1>9. ~Late(r) => \A e \in Finished : e \in told'[r] => e = a
  BY <1>4, <1>7
<1>10. AgreeOn(r)'
  BY <1>3, <1>6, <1>8, <1>9 DEF AgreeOn
<1>11. Agree' /\ Underway'
  <2>1. UnderwayAt(c)'
    BY <1>3 DEF UnderwayAt
  <2>2. Agree'
    BY <1>1, <1>2, <1>5, <1>10, OthersAgree
  <2>3. Underway'
    BY <1>2, <1>3, <1>5, <2>1, OthersUnderway
  <2> QED BY <2>2, <2>3
<1>12. CASE Late(r)
  BY <1>2, <1>5, <1>6, <1>11, <1>12, LateStays
<1>13. CASE ~Late(r)
  <2>1. disp'[r] = a /\ disp[r] = (IF a = "nothing" THEN "open" ELSE "recorded")
    BY <1>2, <1>5, <1>6, <1>7, <1>8, <1>13, OnlyMaps
  <2>2. ack'[r] = a
    BY <1>2, <1>4, <1>6, <1>9, <1>13, AckWillBe DEF Finished
  <2>3. /\ disp = [q \in Request |-> disp[q]] /\ disp' = [q \in Request |-> disp'[q]]
    BY DEF disp
  <2> HIDE DEF disp, ack
  <2>4. disp' = [disp EXCEPT ![r] = a] /\ ack' = [ack EXCEPT ![r] = a]
    BY <1>2, <1>5, <2>1, <2>2, OnlyMaps
  <2>5. a = "recorded" => disp' = disp
    BY <1>2, <2>1, <2>3, <2>4
  <2>6. CASE a = "recorded"
    BY <1>11, <2>1, <2>4, <2>5, <2>6 DEF Step
  <2>7. CASE a = "nothing"
    BY <1>11, <2>1, <2>4, <2>7 DEF Step, Finished
  <2> QED BY <2>6, <2>7
<1> QED BY <1>12, <1>13

LEMMA RecordStep ==
  ASSUME RInv, NEW c \in Conn, NEW r \in Request, r = serving[c],
         Record(c)
  PROVE  Agree' /\ Underway' /\ (Step(r) \/ UNCHANGED <<disp, ack>>)
<1>0. TypeOK
  BY DEF RInv, IInv
<1>1. /\ stage[c] = "llm" /\ recorded' = [recorded EXCEPT ![r] = @ + 1]
      /\ stage' = [stage EXCEPT ![c] = "cards"]
      /\ serving' = [serving EXCEPT ![c] = r]
      /\ UNCHANGED <<row, queued, told, expired>>
  BY DEF Record, Commit, Await
<1>2. /\ r \in Request /\ row[r] = "processing"
      /\ \A d \in Conn : d # c => serving[d] # r
  BY <1>1, ServingIsReserved DEF RInv
<1>3. /\ recorded'[r] = recorded[r] + 1 /\ recorded[r] \in Nat
      /\ \A q \in Request \ {r} : recorded'[q] = recorded[q]
      /\ stage'[c] = "cards" /\ serving'[c] = r
      /\ \A d \in Conn \ {c} : stage'[d] = stage[d] /\ serving'[d] = serving[d]
  BY <1>0, <1>1, <1>2 DEF TypeOK
<1>5. Only(r)
  BY <1>1, <1>3 DEF Only, SameTo, Late
<1>6. Late(r)' <=> Late(r)
  BY <1>1 DEF Late
<1>7. ~Late(r) => /\ \A d \in Finished : d \notin told[r]
                  /\ Became(r) = "open"
  <2>1. UnderwayAt(c)
    BY DEF RInv, Underway
  <2> QED BY <1>1, <2>1 DEF UnderwayAt
<1>8. Became(r)' = "recorded"
  BY <1>3 DEF Became
<1>10. AgreeOn(r)'
  BY <1>1, <1>2, <1>6, <1>7 DEF AgreeOn, Finished
<1>11. Agree' /\ Underway'
  <2>1. UnderwayAt(c)'
    BY <1>1, <1>3, <1>6, <1>7, <1>8 DEF UnderwayAt, Late, Became
  <2>2. Agree'
    BY <1>1, <1>2, <1>5, <1>10, OthersAgree
  <2>3. Underway'
    BY <1>2, <1>3, <1>5, <2>1, OthersUnderway
  <2> QED BY <2>2, <2>3
<1>12. CASE Late(r)
  BY <1>2, <1>5, <1>6, <1>11, <1>12, LateStays
<1>13. CASE ~Late(r)
  <2>1. disp'[r] = "recorded" /\ disp[r] = "open"
    BY <1>2, <1>5, <1>6, <1>7, <1>8, <1>13, OnlyMaps
  <2>2. ack' = ack
    BY <1>1 DEF ack, Late
  <2>3. disp' = [disp EXCEPT ![r] = "recorded"]
    BY <1>2, <1>5, <2>1, OnlyMaps
  <2> HIDE DEF disp, ack
  <2> QED BY <1>11, <2>1, <2>2, <2>3 DEF Step, Finished
<1> QED BY <1>12, <1>13

LEMMA LateFailureStep ==
  ASSUME RInv, NEW c \in Conn, NEW r \in Request, r = serving[c],
         FailAfterCommit(c)
  PROVE  Agree' /\ Underway' /\ (Step(r) \/ UNCHANGED <<disp, ack>>)
<1>0. TypeOK
  BY DEF RInv, IInv
<1>1. /\ stage[c] # "idle"
      /\ recorded' \in {recorded, [recorded EXCEPT ![r] = @ + 1]}
      /\ row' = [row EXCEPT ![r] = "absent"] /\ Tell(r, "late_error")
      /\ stage' = [stage EXCEPT ![c] = "idle"]
      /\ serving' = [serving EXCEPT ![c] = NoRequest]
      /\ UNCHANGED <<queued, expired>>
  BY DEF FailAfterCommit, Commit, Release, Idle
<1>2. /\ r \in Request /\ \A d \in Conn : d # c => serving[d] # r
  BY <1>1, ServingIsReserved DEF RInv
<1>3. /\ \A q \in Request \ {r} : recorded'[q] = recorded[q] /\ row'[q] = row[q]
      /\ stage'[c] = "idle"
      /\ \A d \in Conn \ {c} : stage'[d] = stage[d] /\ serving'[d] = serving[d]
  BY <1>0, <1>1, <1>2 DEF TypeOK
<1>4. /\ told'[r] = told[r] \cup {"late_error"}
      /\ \A q \in Request \ {r} : told'[q] = told[q]
  BY <1>0, <1>1, <1>2, TellOnly
<1>5. Only(r) /\ Late(r)'
  BY <1>1, <1>3, <1>4 DEF Only, SameTo, Late
<1>6. Agree' /\ Underway'
  <2>1. UnderwayAt(c)'
    BY <1>3 DEF UnderwayAt
  <2>2. AgreeOn(r)'
    BY <1>5 DEF AgreeOn
  <2>3. Agree'
    BY <1>1, <1>2, <1>5, <2>2, OthersAgree
  <2>4. Underway'
    BY <1>2, <1>3, <1>5, <2>1, OthersUnderway
  <2> QED BY <2>3, <2>4
<1>7. CASE Late(r)
  BY <1>2, <1>5, <1>6, <1>7, LateStays
<1>8. CASE ~Late(r)
  <2>1. UnderwayAt(c)
    BY DEF RInv, Underway
  <2>2. ack[r] = "open"
    BY <1>1, <1>2, <1>8, <2>1, AckIs DEF UnderwayAt
  <2>3. disp'[r] = "unsure" /\ ack'[r] = "unsure"
    BY <1>2, <1>5, OnlyMaps, AckWillBe
  <2> HIDE DEF disp, ack
  <2> QED BY <1>2, <1>5, <1>6, <2>2, <2>3, OnlyMaps DEF Step
<1> QED BY <1>7, <1>8

LEMMA TasksSilent ==
  ASSUME RInv, NEW c \in Conn, NEW r \in Request, r = serving[c],
         ModelFails(c) \/ NothingFound(c)
  PROVE  Agree' /\ Underway' /\ UNCHANGED <<disp, ack>>
<1>0. TypeOK
  BY DEF RInv, IInv
<1>1. /\ stage[c] = "llm" /\ UNCHANGED <<recorded, queued, expired>>
      /\ \/ /\ row' = [row EXCEPT ![r] = "absent"] /\ Tell(r, "error")
            /\ stage' = [stage EXCEPT ![c] = "idle"]
            /\ serving' = [serving EXCEPT ![c] = NoRequest]
         \/ /\ UNCHANGED <<row, told>>
            /\ stage' = [stage EXCEPT ![c] = "notify"]
            /\ serving' = [serving EXCEPT ![c] = r]
  BY DEF ModelFails, NothingFound, Await, Idle, Release
<1>2. r \in Request /\ UnderwayAt(c)
  BY <1>1, ServingIsReserved DEF RInv, Underway
<1>3. ~Late(r) => Became(r) = "open"
  BY <1>1, <1>2 DEF UnderwayAt
<1>4. \A q \in Request : row'[q] = row[q] \/ (q = r /\ row'[q] = "absent")
  BY <1>0, <1>1, <1>2 DEF TypeOK
<1>5. \A d \in Conn : \/ stage'[d] = "idle"
                      \/ stage'[d] = stage[d] /\ serving'[d] = serving[d]
                      \/ stage[d] # "idle" /\ stage'[d] # "cards" /\ stage[d] # "cards"
                           /\ serving'[d] = serving[d]
  BY <1>0, <1>1, <1>2 DEF TypeOK
<1>6. told' = told \/ (/\ told'[r] = told[r] \cup {"error"}
                       /\ \A q \in Request \ {r} : told'[q] = told[q])
  BY <1>0, <1>1, <1>2, TellOnly
<1>7. \A q \in Request : SameTo(q)
  BY <1>1, <1>2, <1>6 DEF SameTo, Late, Finished
<1>8. \A q \in Request : row'[q] \in Finished => row'[q] = row[q]
  BY <1>4 DEF Finished
<1>9. \A q \in Request : row'[q] = row[q] \/ q \in expired'
                         \/ (row'[q] = "absent" /\ (Late(q) \/ Became(q) = "open"))
                         \/ row'[q] = "processing"
  BY <1>3, <1>4
<1> QED BY <1>1, <1>5, <1>7, <1>8, <1>9, SilentStep

LEMMA ArrivalSilent ==
  ASSUME RInv, NEW c \in Conn, NEW r \in Request, RateLimited(c, r) \/ AskModel(c, r)
  PROVE  Agree' /\ Underway' /\ UNCHANGED <<disp, ack>>
<1>0. TypeOK
  BY DEF RInv, IInv
<1>1. CASE RateLimited(c, r)
  <2>1. /\ row' = row /\ recorded' = recorded /\ queued' = queued /\ expired' = expired
        /\ stage' = stage /\ serving' = serving /\ Tell(r, "rate_limited")
    BY <1>1 DEF RateLimited, store
  <2>2. /\ told'[r] = told[r] \cup {"rate_limited"}
        /\ \A q \in Request \ {r} : told'[q] = told[q]
    BY <1>0, <2>1, TellOnly
  <2>3. \A q \in Request : SameTo(q)
    BY <2>1, <2>2 DEF SameTo, Late, Finished
  <2> QED BY <2>1, <2>3, SilentStep
<1>2. CASE AskModel(c, r)
  <2>1. /\ r \notin expired /\ row[r] = "absent" /\ row' = [row EXCEPT ![r] = "processing"]
        /\ stage' = [stage EXCEPT ![c] = "llm"]
        /\ serving' = [serving EXCEPT ![c] = r]
        /\ UNCHANGED <<usage, recorded, queued, told, expired>>
    BY <1>2 DEF AskModel, Arrives, Claimable, Finish, Await
  <2>2. \A q \in Request : row'[q] = row[q] \/ row'[q] = "processing"
    BY <1>0, <2>1 DEF TypeOK
  <2>3. \A d \in Conn : \/ stage'[d] = stage[d] /\ serving'[d] = serving[d]
                        \/ /\ serving'[d] = r /\ stage'[d] = "llm"
    BY <1>0, <2>1 DEF TypeOK
  <2>4. \A q \in Request : SameTo(q)
    BY <2>1 DEF SameTo, Late
  <2>5. \A q \in Request : row'[q] \in Finished => row'[q] = row[q]
    BY <2>2 DEF Finished
  <2>6. \A d \in Conn : \/ stage'[d] = stage[d] /\ serving'[d] = serving[d]
                        \/ /\ serving'[d] \in Request /\ stage'[d] = "llm"
                           /\ row[serving'[d]] = "absent" /\ serving'[d] \notin expired
    BY <2>1, <2>3
  <2> QED BY <2>1, <2>2, <2>4, <2>5, <2>6, SilentStep
<1> QED BY <1>1, <1>2

LEMMA WorldSilent ==
  ASSUME RInv, Crash \/ (\E r \in Request : Purge(r)) \/ Midnight \/ UNCHANGED vars
  PROVE  Agree' /\ Underway' /\ UNCHANGED <<disp, ack>>
<1>0. TypeOK
  BY DEF RInv, IInv
<1>1. /\ recorded' = recorded /\ queued' = queued /\ told' = told
      /\ expired \subseteq expired'
      /\ \A q \in Request : row'[q] = row[q] \/ (q \in expired' /\ row'[q] = "absent")
      /\ \A d \in Conn : stage'[d] = "idle" \/ (stage'[d] = stage[d] /\ serving'[d] = serving[d])
  BY <1>0 DEF Crash, Purge, Midnight, Release, vars, store, TypeOK
<1>2. \A q \in Request : SameTo(q)
  BY <1>1 DEF SameTo, Late
<1>3. \A q \in Request : row'[q] \in Finished => row'[q] = row[q]
  BY <1>1 DEF Finished
<1> QED BY <1>1, <1>2, <1>3, SilentStep

LEMMA RefinementStep ==
  RInv /\ IInv' /\ [Next]_vars => RInv' /\ (Inbox!Next \/ UNCHANGED <<disp, ack>>)
<1> SUFFICES ASSUME RInv, IInv', [Next]_vars
             PROVE  RInv' /\ (Inbox!Next \/ UNCHANGED <<disp, ack>>)
  OBVIOUS
<1>1. ASSUME NEW r \in Request, Agree' /\ Underway' /\ (Step(r) \/ UNCHANGED <<disp, ack>>)
      PROVE  RInv' /\ (Inbox!Next \/ UNCHANGED <<disp, ack>>)
  BY <1>1, StepIsInbox DEF RInv
<1>2. ASSUME NEW c \in Conn, NEW r \in Request, Arrival(c, r)
      PROVE  RInv' /\ (Inbox!Next \/ UNCHANGED <<disp, ack>>)
  <2>1. CASE Duplicate(c, r)
    BY <1>1, <2>1, DuplicateStep
  <2>2. CASE Enqueue(c, r)
    BY <1>1, <2>2, EnqueueStep
  <2>3. CASE RateLimited(c, r) \/ AskModel(c, r)
    BY <2>3, ArrivalSilent DEF RInv
  <2>4. CASE EnqueueFails(c, r)
    BY <1>1, <2>4, EnqueueFailsStep
  <2>5. CASE EnqueueBreaksOff(c, r)
    BY <1>1, <2>5, EnqueueBreaksOffStep
  <2> QED BY <1>2, <2>1, <2>2, <2>3, <2>4, <2>5 DEF Arrival
<1>3. ASSUME NEW c \in Conn, Proceed(c)
      PROVE  RInv' /\ (Inbox!Next \/ UNCHANGED <<disp, ack>>)
  <2>1. stage[c] # "idle"
    BY <1>3 DEF Proceed, ModelFails, NothingFound, Record, FailAfterCommit,
                FinishNothing, FinishRecorded
  <2>2. PICK r \in Request : r = serving[c]
    BY <2>1, ServingIsReserved DEF RInv
  <2>3. CASE FinishNothing(c) \/ FinishRecorded(c)
    BY <1>1, <2>2, <2>3, FinishStep
  <2>4. CASE Record(c)
    BY <1>1, <2>2, <2>4, RecordStep
  <2>5. CASE FailAfterCommit(c)
    BY <1>1, <2>2, <2>5, LateFailureStep
  <2>6. CASE ModelFails(c) \/ NothingFound(c)
    BY <2>2, <2>6, TasksSilent DEF RInv
  <2> QED BY <1>3, <2>3, <2>4, <2>5, <2>6 DEF Proceed
<1>4. CASE Crash \/ (\E r \in Request : Purge(r)) \/ Midnight \/ UNCHANGED vars
  BY <1>4, WorldSilent DEF RInv
<1> QED BY <1>2, <1>3, <1>4 DEF Next

\* Every behaviour of the door is, in what it records and in what it answers,
\* a behaviour of the once-only inbox: a disposition is final, and a client is
\* told only the one its request has.
THEOREM InboxImplemented == Spec => ImplementsInbox
<1>1. Init => RInv
  <2> SUFFICES ASSUME Init PROVE RInv
    OBVIOUS
  <2>1. IInv
    BY InitIInv
  <2>2. \A r \in Request : Became(r) = "open" /\ told[r] = {} /\ row[r] = "absent"
    BY DEF Init, Became
  <2> QED BY <2>1, <2>2 DEF RInv, Agree, AgreeOn, Underway, UnderwayAt, Finished, Init
<1>2. Init => Inbox!Init
  <2> SUFFICES ASSUME Init PROVE Inbox!Init
    OBVIOUS
  <2>1. \A r \in Request : Became(r) = "open" /\ told[r] = {} /\ ~Late(r)
    BY DEF Init, Became, Late
  <2>2. disp = [r \in Request |-> "open"] /\ ack = [r \in Request |-> "open"]
    BY <2>1 DEF disp, ack
  <2> QED BY <2>2 DEF Inbox!Init, disp, ack, Late, Became
<1>3. RInv /\ IInv' /\ [Next]_vars => RInv' /\ [Inbox!Next]_<<disp, ack>>
  BY RefinementStep
<1>4. Spec => []IInv
  BY InitIInv, IInvStep, PTL DEF Spec
<1> QED
  BY <1>1, <1>2, <1>3, <1>4, PTL
     DEF Spec, ImplementsInbox, Inbox!Spec, disp, ack, Late, Became
=============================================================================
