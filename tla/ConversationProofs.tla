-------------------------- MODULE ConversationProofs --------------------------
(***************************************************************************)
(* Theorems about module Conversation, for every set of things, every      *)
(* limit and any choice of the fault constants.                            *)
(***************************************************************************)
EXTENDS Conversation, SequenceTheorems, TLAPS

USE LimitAssumption, FaultAssumption

\* The stages before any commit.
Before == {"flush", "queued", "status", "oneshot", "hear", "read", "route", "data"}

\* The parts still to be extracted: they do not overlap, and nothing was made
\* of what is in them.
PartsLeft ==
  /\ lane.left # <<>>
  /\ lane.parts + Len(lane.left) <= MaxParts
  /\ \A i \in 1..Len(lane.left) : \A t \in lane.left[i] : t \in lane.said /\ lane.made[t] = "none"
  /\ \A i, j \in 1..Len(lane.left) : i # j => lane.left[i] \cap lane.left[j] = {}

\* What the stage says of the rest of the lane's record.
LaneShape ==
  /\ lane.at = "idle" => lane = Idle
  /\ lane.at \in Before => lane.made = Nothing /\ lane.parts = 0
  /\ lane.at # "show" => lane.out = {}
  /\ lane.at = "extract" => PartsLeft
  /\ lane.parts <= MaxParts
  /\ lane.claims => lane.record

LaneInv == TypeOK /\ LaneShape

-----------------------------------------------------------------------------
(* The operators.                                                          *)

LEMMA EnterType ==
  ASSUME NEW ts \in SUBSET Thing, NEW times \in [Thing -> Times], TypeOK, Enter(ts, times)
  PROVE  entries' \in [Thing -> Times]
BY DEF TypeOK, Enter, Upto2, Times

LEMMA CommitType ==
  ASSUME NEW part \in SUBSET Thing, NEW made, TypeOK, Commit(made, part)
  PROVE  entries' \in [Thing -> Times] /\ questions' \subseteq Thing
<1>1. Once \in [Thing -> Times]
  BY DEF Once, Times
<1> QED BY <1>1, EnterType DEF Commit, TypeOK

\* A lane that is left keeps what was said and made, and nothing else.
LEMMA LeftFields ==
  ASSUME NEW l \in Lane, NEW m \in [Thing -> Outcome]
  PROVE  /\ Left(l, m) \in Lane
         /\ Left(l, m).said = l.said /\ Left(l, m).made = m /\ Left(l, m).out = {}
         /\ Left(l, m).parts = 0 /\ ~Left(l, m).claims
         /\ Fails(l, m) \in Lane
         /\ Fails(l, m).at = "failing"
         /\ Fails(l, m).said = l.said /\ Fails(l, m).made = m /\ Fails(l, m).out = {}
         /\ Fails(l, m).parts = 0 /\ Fails(l, m).claims = FALSE
<1>1. <<>> \in Seq(SUBSET Thing)
  OBVIOUS
<1> QED BY <1>1 DEF Left, Fails, Idle, Lane, Stage, Kind, Reply, Outcome, Answer

LEMMA IdleType == Idle \in Lane /\ Nothing \in [Thing -> Outcome]
<1>1. <<>> \in Seq(SUBSET Thing)
  OBVIOUS
<1>2. Nothing \in [Thing -> Outcome]
  BY DEF Nothing, Outcome
<1> QED BY <1>1, <1>2 DEF Idle, Lane, Stage, Kind, Reply, Answer

\* A text is cut into at least one part and at most MaxParts.
LEMMA PartingShape ==
  ASSUME NEW said \in SUBSET Thing, NEW parts \in Partings(said)
  PROVE  /\ parts \in Seq(SUBSET Thing) /\ parts # <<>>
         /\ Len(parts) \in 1..MaxParts
         /\ \A i \in 1..Len(parts) : parts[i] \subseteq said
         /\ \A i, j \in 1..Len(parts) : i # j => parts[i] \cap parts[j] = {}
<1>1. PICK n \in 1..MaxParts : parts \in [1..n -> SUBSET said]
  BY DEF Partings
<1>2. parts \in Seq(SUBSET said) /\ Len(parts) = n
  BY <1>1
<1>3. parts \in Seq(SUBSET Thing)
  BY <1>1, <1>2
<1>4. parts # <<>>
  BY <1>1, <1>2
<1> QED BY <1>1, <1>2, <1>3, <1>4 DEF Partings

\* Taking the first part off.
LEMMA TailShape ==
  ASSUME NEW s \in Seq(SUBSET Thing), s # <<>>
  PROVE  /\ Head(s) \subseteq Thing /\ Head(s) = s[1] /\ 1 \in 1..Len(s)
         /\ Tail(s) \in Seq(SUBSET Thing) /\ Len(Tail(s)) = Len(s) - 1
         /\ Len(s) \in Nat
         /\ \A i \in 1..Len(Tail(s)) : i + 1 \in 1..Len(s) /\ Tail(s)[i] = s[i + 1]
BY HeadTailProperties

-----------------------------------------------------------------------------
(* The lane.                                                               *)

\* A step that leaves the things' columns alone and puts a good record in the
\* lane.
LEMMA Take ==
  ASSUME LaneInv, NEW l \in Lane, NEW q \in [Thing -> Times], NEW used,
         l.made = Nothing, l.parts = 0, l.out = {}, l.claims = FALSE,
         Admit(l, used, q)
  PROVE  lane' \in Lane /\ LaneShape' /\ queue' \in [Thing -> Times]
<1> USE DEF Admit, LaneShape, Before, Lane, Stage, Times, Upto2
<1>1. lane' \in Lane /\ queue' \in [Thing -> Times]
  OBVIOUS
<1>2. lane'.at \in {"queued", "status"}
  OBVIOUS
<1>3. lane'.made = Nothing /\ lane'.parts = 0 /\ lane'.out = {} /\ lane'.claims = FALSE
  OBVIOUS
<1> QED BY <1>1, <1>2, <1>3

LEMMA ReceiveStep == LaneInv /\ Receive => LaneInv'
<1> SUFFICES ASSUME LaneInv, Receive PROVE LaneInv'
  OBVIOUS
<1> USE DEF LaneInv, TypeOK
<1>1. ASSUME NEW l \in Lane, Process(l),
             l.made = Nothing, l.parts = 0, l.out = {}, l.claims = FALSE
      PROVE  lane' \in Lane /\ LaneShape' /\ queue' \in [Thing -> Times] /\ served' \in BOOLEAN
  <2>1. CASE lane' = [l EXCEPT !.at = "flush"] /\ UNCHANGED queue
    <3>1. lane' \in Lane
      BY <1>1, <2>1 DEF Lane, Stage
    <3>2. lane'.at = "flush" /\ lane'.made = Nothing /\ lane'.parts = 0 /\ lane'.out = {}
          /\ lane'.claims = FALSE
      BY <1>1, <2>1 DEF Lane
    <3> QED BY <1>1, <2>1, <3>1, <3>2 DEF LaneShape, Before, Process
  <2>2. CASE Admit(l, usage, queue)
    BY <1>1, <2>2, Take DEF Process
  <2> QED BY <1>1, <2>1, <2>2 DEF Process
<1> DEFINE Good == /\ lane' \in Lane /\ LaneShape' /\ queue' \in [Thing -> Times]
                   /\ served' \in BOOLEAN /\ hinted' \in BOOLEAN /\ awaiting' \in BOOLEAN
<1>2. ASSUME NEW kind \in Kind, NEW said \in SUBSET Thing, NEW refers \in BOOLEAN,
             RateLimited \/ Process(Message(kind, said, refers)),
             hinted' \in BOOLEAN, awaiting' \in BOOLEAN
      PROVE  Good
  <2>1. CASE RateLimited
    BY <1>2, <2>1 DEF RateLimited, LaneShape, PartsLeft, Before
  <2>2. CASE Process(Message(kind, said, refers))
    <3>1. /\ Message(kind, said, refers) \in Lane
          /\ Message(kind, said, refers).made = Nothing
          /\ Message(kind, said, refers).parts = 0
          /\ Message(kind, said, refers).out = {}
          /\ Message(kind, said, refers).claims = FALSE
      BY IdleType DEF Message, Idle, Lane
    <3> QED BY <1>1, <1>2, <2>2, <3>1
  <2> QED BY <1>2, <2>1, <2>2
<1>3. Good
  <2>1. PICK said \in (SUBSET (Thing \ settled)) \ {{}} :
          \/ \E refers \in BOOLEAN :
               \/ HandleText(said, refers)
               \/ \E kind \in {"voice", "longVoice"} : HandleVoice(kind, said, refers)
          \/ HandlePhoto(said)
    BY DEF Receive
  <2>2. said \in SUBSET Thing
    OBVIOUS
  <2>3. ASSUME NEW refers \in BOOLEAN, HandleText(said, refers) PROVE Good
    <3>1. CASE UNCHANGED <<lane, hinted, queue, served>> /\ awaiting' \in BOOLEAN
      BY <3>1 DEF LaneShape, PartsLeft, Before
    <3>2. CASE UNCHANGED awaiting /\ RateLimited /\ UNCHANGED hinted
      BY <3>2 DEF LaneShape, PartsLeft, Before, RateLimited
    <3>3. CASE UNCHANGED awaiting /\ Process(Message("text", said, refers)) /\ hinted' = FALSE
      BY <1>2, <2>2, <3>3 DEF Kind
    <3> QED BY <2>3, <3>1, <3>2, <3>3 DEF HandleText
  <2>4. ASSUME NEW refers \in BOOLEAN, NEW kind \in {"voice", "longVoice"},
               HandleVoice(kind, said, refers)
        PROVE  Good
    BY <1>2, <2>2, <2>4 DEF HandleVoice, Kind
  <2>5. CASE HandlePhoto(said)
    BY <1>2, <2>2, <2>5 DEF HandlePhoto, Kind
  <2> HIDE DEF Good
  <2> QED BY <2>1, <2>3, <2>4, <2>5
<1> QED BY <1>3 DEF Receive, mind

\* The flush is over: the message in the lane is queued or taken on.
LEMMA FlushStep == LaneInv /\ (FlushDone \/ FlushFails) => LaneInv'
<1> SUFFICES ASSUME LaneInv, FlushDone \/ FlushFails PROVE LaneInv'
  OBVIOUS
<1> USE DEF LaneInv, TypeOK
<1>1. lane \in Lane /\ lane.made = Nothing /\ lane.parts = 0 /\ lane.out = {}
  BY DEF FlushDone, FlushFails, LaneShape, Before
<1>2. lane.claims = FALSE \/ lane.claims = TRUE
  BY DEF Lane
<1>3. [t \in Thing |-> 0] \in [Thing -> Times]
  BY DEF Times
<1>4. ASSUME NEW used, NEW q \in [Thing -> Times], Admit(lane, used, q)
      PROVE  lane' \in Lane /\ LaneShape' /\ queue' \in [Thing -> Times]
  <2>1. lane' \in Lane /\ queue' \in [Thing -> Times]
    BY SMTT(30), <1>1, <1>4 DEF Admit, Lane, Stage, Times, Upto2
  <2>2. /\ lane'.at \in {"queued", "status"} /\ lane'.made = Nothing /\ lane'.parts = 0
        /\ lane'.out = {} /\ lane'.claims = lane.claims /\ lane'.record = lane.record
    BY <1>1, <1>4 DEF Admit, Lane
  <2> QED BY <2>1, <2>2 DEF LaneShape, Before
<1>5. lane' \in Lane /\ LaneShape' /\ queue' \in [Thing -> Times]
  <2>1. CASE FlushDone
    BY <1>3, <1>4, <2>1 DEF FlushDone
  <2>2. CASE FlushFails
    BY <1>4, <2>2 DEF FlushFails
  <2> QED BY <2>1, <2>2
<1>6. entries' \in [Thing -> Times]
  BY EnterType DEF FlushDone, FlushFails
<1> QED BY <1>5, <1>6 DEF FlushDone, FlushFails

\* The handling ends.
LEMMA EndStep ==
  ASSUME LaneInv, NEW l \in Lane, EndOf(l)
  PROVE  lane' \in Lane /\ LaneShape' /\ settled' \subseteq Thing
<1>1. lane' = Idle /\ lane' \in Lane
  BY IdleType DEF EndOf
<1>2. LaneShape'
  BY <1>1 DEF LaneShape, PartsLeft, Before, Idle
<1> QED BY <1>1, <1>2 DEF EndOf, LaneInv, TypeOK, Lane

LEMMA UnshownType == ASSUME NEW l \in Lane PROVE Unshown(l) \subseteq Thing
BY DEF Unshown, Lane

LEMMA EndingStep ==
  LaneInv /\ (QueuedReply \/ Failing \/ Crash) => LaneInv'
<1> SUFFICES ASSUME LaneInv, QueuedReply \/ Failing \/ Crash PROVE LaneInv'
  OBVIOUS
<1> USE DEF LaneInv, TypeOK
<1>1. lane \in Lane /\ [lane EXCEPT !.heard = "later"] \in Lane /\ lane.said \subseteq Thing
  BY DEF Lane, Reply
<1>2. lane' \in Lane /\ LaneShape' /\ settled' \subseteq Thing
  BY <1>1, EndStep DEF QueuedReply, Failing, Crash, BreaksOff
<1>3. broken' \subseteq Thing
  BY <1>1, UnshownType DEF QueuedReply, Failing, Crash, BreaksOff
<1>4. CASE QueuedReply
  BY <1>2, <1>3, <1>4 DEF QueuedReply, books
<1>5. CASE Failing
  BY <1>2, <1>3, <1>5 DEF Failing, books
<1>6. CASE Crash
  BY <1>2, <1>3, <1>6 DEF Crash, books
<1> QED BY <1>4, <1>5, <1>6

LEMMA StatusStep == LaneInv /\ StatusSent => LaneInv'
<1> SUFFICES ASSUME LaneInv, StatusSent PROVE LaneInv'
  OBVIOUS
<1> USE DEF LaneInv, TypeOK
<1>1. CASE EndOf(lane)
  BY <1>1, EndStep DEF StatusSent, books
<1>2. CASE lane' = [lane EXCEPT !.at = FirstCall[lane.kind], !.kind = "text"] /\ UNCHANGED settled
  <2>1. lane.kind \in Kind /\ lane.at = "status"
    BY DEF Lane, StatusSent
  <2>2. FirstCall[lane.kind] \in {"route", "oneshot", "hear", "read"}
    BY <2>1 DEF FirstCall, Kind
  <2>3. /\ lane' \in Lane /\ lane'.at \in {"route", "oneshot", "hear", "read"}
        /\ lane'.made = lane.made /\ lane'.parts = lane.parts /\ lane'.out = lane.out
        /\ lane'.claims = lane.claims /\ lane'.record = lane.record
    BY <1>2, <2>2 DEF Lane, Stage, Kind
  <2>4. LaneShape'
    BY <2>1, <2>3 DEF LaneShape, Before
  <2> QED BY <1>2, <2>3, <2>4 DEF StatusSent, books
<1> QED BY <1>1, <1>2 DEF StatusSent

\* What one call of the model makes of a part.
LEMMA ReadingType ==
  ASSUME NEW part \in SUBSET Thing, NEW outcomes \in SUBSET Outcome,
         NEW made \in Readings(part, outcomes)
  PROVE  made \in [Thing -> Outcome] /\ \A t \in Thing \ part : made[t] = "none"
BY DEF Readings, Outcome

LEMMA OneShotStep == LaneInv /\ OneShot => LaneInv'
<1> SUFFICES ASSUME LaneInv, OneShot PROVE LaneInv'
  OBVIOUS
<1> USE DEF LaneInv, TypeOK
<1>1. PICK made \in Readings(lane.said, Outcome) :
        /\ Commit(made, lane.said)
        /\ lane' = IF HeardOut([lane EXCEPT !.made = made])
                     THEN [[lane EXCEPT !.made = made] EXCEPT
                             !.at = "clean", !.parts = 1, !.record = TRUE]
                     ELSE [lane EXCEPT !.at = "route"]
  BY DEF OneShot
<1>2. lane \in Lane /\ lane.said \in SUBSET Thing /\ lane.at = "oneshot"
  BY DEF Lane, OneShot
<1>3. made \in [Thing -> Outcome]
  BY <1>2, ReadingType
<1>4. entries' \in [Thing -> Times] /\ questions' \subseteq Thing
  BY <1>1, <1>2, CommitType
<1>5. lane' \in Lane /\ LaneShape'
  <2>1. CASE lane' = [lane EXCEPT !.at = "route"]
    <3>1. lane' \in Lane
      BY <2>1 DEF Lane, Stage
    <3> QED BY <1>2, <2>1, <3>1 DEF LaneShape, Before, Lane
  <2>2. CASE lane' = [[lane EXCEPT !.made = made] EXCEPT
                        !.at = "clean", !.parts = 1, !.record = TRUE]
    <3>1. lane' \in Lane
      BY <1>3, <2>2 DEF Lane, Stage
    <3>2. lane'.at = "clean" /\ lane'.parts = 1 /\ lane'.record = TRUE /\ lane'.out = lane.out
      BY <2>2 DEF Lane
    <3> QED BY <1>2, <3>1, <3>2 DEF LaneShape, Before
  <2> QED BY <1>1, <2>1, <2>2
<1> QED BY <1>4, <1>5 DEF OneShot, mind

LEMMA TranscribedStep == LaneInv /\ Transcribed => LaneInv'
<1> SUFFICES ASSUME LaneInv, Transcribed PROVE LaneInv'
  OBVIOUS
<1> USE DEF LaneInv, TypeOK
<1>1. lane' \in Lane
  BY DEF Transcribed, Lane, Stage
<1>2. LaneShape'
  BY <1>1 DEF Transcribed, LaneShape, Before, Lane
<1> QED BY <1>1, <1>2 DEF Transcribed, books, mind

LEMMA FailingShape ==
  ASSUME LaneInv, NEW l \in Lane, NEW m \in [Thing -> Outcome], lane' = Fails(l, m)
  PROVE  lane' \in Lane /\ LaneShape'
<1>1. /\ lane' \in Lane /\ lane'.at = "failing" /\ lane'.out = {} /\ lane'.parts = 0
      /\ lane'.claims = FALSE
  <2>1. /\ Fails(l, m) \in Lane /\ Fails(l, m).at = "failing" /\ Fails(l, m).out = {}
        /\ Fails(l, m).parts = 0 /\ Fails(l, m).claims = FALSE
    BY ZenonT(60), LeftFields
  <2> QED BY <2>1
<1> QED BY <1>1 DEF LaneShape, Before

LEMMA PhotoStep == LaneInv /\ PhotoRead => LaneInv'
<1> SUFFICES ASSUME LaneInv, PhotoRead PROVE LaneInv'
  OBVIOUS
<1> USE DEF LaneInv, TypeOK
<1>1. CASE lane' = Fails(lane, Nothing) /\ UNCHANGED <<entries, questions>>
  BY <1>1, FailingShape, IdleType DEF PhotoRead, mind
<1>2. ASSUME NEW made \in Readings(lane.said, {"row"}), Commit(made, lane.said),
             lane' = [lane EXCEPT !.at = "clean", !.made = made, !.parts = 1, !.record = TRUE]
      PROVE  LaneInv'
  <2>1. lane.said \in SUBSET Thing /\ lane.at = "read"
    BY DEF Lane, PhotoRead
  <2>2. {"row"} \in SUBSET Outcome
    BY DEF Outcome
  <2>3. made \in [Thing -> Outcome]
    BY <2>1, <2>2, ReadingType
  <2>4. entries' \in [Thing -> Times] /\ questions' \subseteq Thing
    BY <1>2, <2>1, CommitType
  <2>5. lane' \in Lane
    BY <1>2, <2>3 DEF Lane, Stage
  <2>6. lane'.at = "clean" /\ lane'.parts = 1 /\ lane'.record = TRUE /\ lane'.out = lane.out
    BY <1>2 DEF Lane
  <2>7. LaneShape'
    BY <2>1, <2>5, <2>6 DEF LaneShape, Before
  <2> QED BY <2>4, <2>5, <2>7 DEF PhotoRead, mind
<1> QED BY <1>1, <1>2 DEF PhotoRead

\* After the router's decision, with or without an answer from the books.
LEMMA DecidedShape ==
  ASSUME LaneInv, NEW l \in Lane, lane' \in Decided(l),
         l.made = Nothing, l.parts = 0, l.out = {}, l.claims => l.record
  PROVE  lane' \in Lane /\ LaneShape'
<1>1. CASE lane' = Fails(l, Nothing)
  BY <1>1, FailingShape, IdleType
<1>2. CASE lane' = [l EXCEPT !.at = "clean"]
  <2>1. /\ lane' \in Lane /\ lane'.at = "clean" /\ lane'.out = {} /\ lane'.parts = 0
        /\ lane'.claims = l.claims /\ lane'.record = l.record
    BY <1>2 DEF Lane, Stage
  <2> QED BY <2>1 DEF LaneShape, Before
<1>3. ASSUME NEW parts \in Partings(l.said), lane' = [l EXCEPT !.at = "extract", !.left = parts]
      PROVE  lane' \in Lane /\ LaneShape'
  <2>1. l.said \in SUBSET Thing
    BY DEF Lane
  <2>2. /\ parts \in Seq(SUBSET Thing) /\ parts # <<>> /\ Len(parts) \in 1..MaxParts
        /\ \A i \in 1..Len(parts) : parts[i] \subseteq l.said
        /\ \A i, j \in 1..Len(parts) : i # j => parts[i] \cap parts[j] = {}
    BY <2>1, PartingShape
  <2>3. /\ lane' \in Lane /\ lane'.at = "extract" /\ lane'.out = {} /\ lane'.parts = 0
        /\ lane'.claims = l.claims /\ lane'.record = l.record
        /\ lane'.left = parts /\ lane'.said = l.said /\ lane'.made = Nothing
    BY <1>3, <2>2 DEF Lane, Stage
  <2>4. PartsLeft'
    <3>1. \A i \in 1..Len(parts) : \A t \in parts[i] : t \in l.said /\ Nothing[t] = "none"
      BY <2>1, <2>2 DEF Nothing
    <3> QED BY <2>2, <2>3, <3>1 DEF PartsLeft
  <2> QED BY <2>3, <2>4 DEF LaneShape, Before
<1> QED BY <1>1, <1>2, <1>3 DEF Decided

LEMMA RouteStep == LaneInv /\ Route => LaneInv'
<1> SUFFICES ASSUME LaneInv, Route PROVE LaneInv'
  OBVIOUS
<1>1. PICK wants \in BOOLEAN, query \in BOOLEAN, claims \in BOOLEAN :
        IF query
          THEN lane' = [[lane EXCEPT !.record = ToRecord(lane.record, wants, claims),
                                     !.claims = claims] EXCEPT !.at = "data"]
          ELSE lane' \in Decided([lane EXCEPT !.record = ToRecord(lane.record, wants, claims),
                                              !.claims = claims])
  BY DEF Route
<1> DEFINE l == [lane EXCEPT !.record = ToRecord(lane.record, wants, claims), !.claims = claims]
<1>2. lane \in Lane /\ lane.made = Nothing /\ lane.parts = 0 /\ lane.out = {}
  BY DEF Route, LaneInv, TypeOK, LaneShape, Before
<1>3. ToRecord(lane.record, wants, claims) \in BOOLEAN
      /\ (claims => ToRecord(lane.record, wants, claims))
  BY <1>2 DEF ToRecord, Lane
<1>4. /\ l \in Lane /\ l.made = Nothing /\ l.parts = 0 /\ l.out = {}
      /\ l.claims = claims /\ l.record = ToRecord(lane.record, wants, claims)
  BY <1>2, <1>3 DEF Lane
<1>5. lane' \in Lane /\ LaneShape'
  <2>1. CASE lane' \in Decided(l)
    <3>1. l.claims => l.record
      BY <1>3, <1>4
    <3> HIDE DEF l
    <3> QED BY <1>4, <2>1, <3>1, DecidedShape
  <2>2. CASE lane' = [l EXCEPT !.at = "data"]
    <3> HIDE DEF l
    <3>1. /\ lane' \in Lane /\ lane'.at = "data" /\ lane'.made = Nothing /\ lane'.parts = 0
          /\ lane'.out = {} /\ lane'.claims = l.claims /\ lane'.record = l.record
      BY <1>4, <2>2 DEF Lane, Stage
    <3>2. lane'.claims => lane'.record
      BY <1>3, <1>4, <3>1
    <3> QED BY <3>1, <3>2 DEF LaneShape, Before
  <2> QED BY <1>1, <2>1, <2>2
<1> QED BY <1>5 DEF LaneInv, TypeOK, Route, books, mind

LEMMA DataStep == LaneInv /\ Data => LaneInv'
<1> SUFFICES ASSUME LaneInv, Data PROVE LaneInv'
  OBVIOUS
<1>1. PICK answer \in Answer : lane' \in Decided([lane EXCEPT !.answer = answer])
  BY DEF Data
<1> DEFINE l == [lane EXCEPT !.answer = answer]
<1>2. lane \in Lane /\ lane.made = Nothing /\ lane.parts = 0 /\ lane.out = {}
      /\ (lane.claims => lane.record)
  BY DEF Data, LaneInv, TypeOK, LaneShape, Before
<1>3. /\ l \in Lane /\ l.made = Nothing /\ l.parts = 0 /\ l.out = {}
      /\ l.claims = lane.claims /\ l.record = lane.record
  BY <1>2 DEF Lane
<1>4. l.claims => l.record
  BY <1>2, <1>3
<1>5. lane' \in Lane /\ LaneShape'
  <2> HIDE DEF l
  <2> QED BY <1>1, <1>3, <1>4, DecidedShape DEF l
<1> QED BY <1>5 DEF LaneInv, TypeOK, Data, books, mind

\* The first of the parts that are left.
LEMMA FirstPart ==
  ASSUME LaneInv, lane.at = "extract"
  PROVE  /\ lane.left \in Seq(SUBSET Thing) /\ lane.left # <<>>
         /\ Head(lane.left) \subseteq lane.said /\ Head(lane.left) \subseteq Thing
         /\ \A t \in Head(lane.left) : lane.made[t] = "none"
<1>1. lane.left \in Seq(SUBSET Thing) /\ lane.left # <<>>
  BY DEF LaneInv, TypeOK, Lane, LaneShape, PartsLeft
<1>2. Head(lane.left) = lane.left[1] /\ 1 \in 1..Len(lane.left) /\ Head(lane.left) \subseteq Thing
  BY <1>1, TailShape
<1> QED BY <1>1, <1>2 DEF LaneInv, LaneShape, PartsLeft

LEMMA ExtractStep == LaneInv /\ ExtractPart => LaneInv'
<1> SUFFICES ASSUME LaneInv, ExtractPart PROVE LaneInv'
  OBVIOUS
<1> DEFINE head == Head(lane.left)
           made2(made) == [t \in Thing |-> IF t \in head THEN made[t] ELSE lane.made[t]]
           at2 == IF Tail(lane.left) = <<>> THEN "clean" ELSE "extract"
<1>1. PICK made \in Readings(head, Outcome) :
        /\ Commit(made, head)
        /\ lane' = [lane EXCEPT !.made = made2(made), !.left = Tail(lane.left),
                                !.parts = lane.parts + 1, !.at = at2]
  BY DEF ExtractPart
<1>2. /\ lane.at = "extract" /\ lane \in Lane /\ lane.out = {} /\ PartsLeft
      /\ (lane.claims => lane.record)
  BY DEF ExtractPart, LaneInv, TypeOK, LaneShape
<1>3. /\ lane.left \in Seq(SUBSET Thing) /\ lane.left # <<>> /\ head \subseteq Thing
  BY <1>2, FirstPart
<1>4. /\ Tail(lane.left) \in Seq(SUBSET Thing) /\ Len(Tail(lane.left)) = Len(lane.left) - 1
      /\ Len(lane.left) \in Nat /\ head = lane.left[1] /\ 1 \in 1..Len(lane.left)
      /\ \A i \in 1..Len(Tail(lane.left)) :
           i + 1 \in 1..Len(lane.left) /\ Tail(lane.left)[i] = lane.left[i + 1]
  BY <1>3, TailShape
<1>5. made2(made) \in [Thing -> Outcome] /\ lane.parts \in Nat
  <2>1. made \in [Thing -> Outcome]
    BY <1>1, <1>3, ReadingType
  <2> QED BY <1>2, <2>1 DEF Lane
<1>6. /\ lane' \in Lane /\ lane'.at = at2 /\ lane'.out = {} /\ lane'.parts = lane.parts + 1
      /\ lane'.left = Tail(lane.left) /\ lane'.said = lane.said /\ lane'.made = made2(made)
      /\ lane'.claims = lane.claims /\ lane'.record = lane.record
  <2>1. at2 \in Stage
    BY DEF Stage
  <2>2. lane' = [lane EXCEPT !.made = made2(made), !.left = Tail(lane.left),
                             !.parts = lane.parts + 1, !.at = at2]
    BY <1>1
  <2>3. lane \in Lane /\ lane.out = {} /\ lane.parts + 1 \in Nat
        /\ Tail(lane.left) \in Seq(SUBSET Thing)
    BY <1>2, <1>4, <1>5
  <2> HIDE DEF at2, made2
  <2> QED BY <1>5, <2>1, <2>2, <2>3 DEF Lane
<1>7. at2 = "extract" => PartsLeft'
  <2> SUFFICES ASSUME Tail(lane.left) # <<>> PROVE PartsLeft'
    BY DEF at2
  <2>1. ASSUME NEW i \in 1..Len(Tail(lane.left)), NEW t \in Tail(lane.left)[i]
        PROVE  t \in lane.said /\ made2(made)[t] = "none"
    <3>1. /\ i + 1 \in 1..Len(lane.left) /\ t \in lane.left[i + 1] /\ i + 1 # 1
      BY <1>4, <2>1
    <3>2. t \in lane.said /\ lane.made[t] = "none" /\ t \notin head
      BY <1>2, <1>4, <3>1 DEF PartsLeft
    <3> QED BY <1>2, <3>2 DEF Lane
  <2>2. ASSUME NEW i \in 1..Len(Tail(lane.left)), NEW j \in 1..Len(Tail(lane.left)), i # j
        PROVE  Tail(lane.left)[i] \cap Tail(lane.left)[j] = {}
    <3>1. i + 1 # j + 1
      BY <1>4, <2>2
    <3>2. /\ i + 1 \in 1..Len(lane.left) /\ Tail(lane.left)[i] = lane.left[i + 1]
          /\ j + 1 \in 1..Len(lane.left) /\ Tail(lane.left)[j] = lane.left[j + 1]
      BY <1>4
    <3>3. lane.left[i + 1] \cap lane.left[j + 1] = {}
      BY <1>2, <3>1, <3>2 DEF PartsLeft
    <3> QED BY <3>2, <3>3
  <2>3. lane.parts + 1 + Len(Tail(lane.left)) <= MaxParts
    BY <1>2, <1>4, <1>5 DEF PartsLeft
  <2> HIDE DEF made2
  <2> QED BY <1>6, <2>1, <2>2, <2>3 DEF PartsLeft
<1>8. lane.parts + 1 <= MaxParts
  <2>1. Len(lane.left) >= 1
    BY <1>4
  <2> QED BY <1>2, <1>4, <1>5, <2>1 DEF PartsLeft
<1>9. LaneShape'
  <2>1. at2 \in {"clean", "extract"}
    OBVIOUS
  <2> HIDE DEF at2, made2
  <2> QED BY <1>2, <1>6, <1>7, <1>8, <2>1 DEF LaneShape, Before
<1>10. entries' \in [Thing -> Times] /\ questions' \subseteq Thing
  BY <1>1, <1>3, CommitType DEF LaneInv
<1> HIDE DEF at2, made2
<1> QED BY <1>6, <1>9, <1>10 DEF LaneInv, TypeOK, ExtractPart, mind

\* What a call that raises may have committed.
LateCommit == {"row", "clarify"}

LEMMA RaisesStep == LaneInv /\ Raises => LaneInv'
<1> SUFFICES ASSUME LaneInv, Raises PROVE LaneInv'
  OBVIOUS
<1>1. lane \in Lane /\ lane.made \in [Thing -> Outcome] /\ lane.said \in SUBSET Thing
  BY DEF LaneInv, TypeOK, Lane
<1>2. CASE lane' = Fails(lane, lane.made) /\ UNCHANGED <<entries, questions>>
  <2>1. lane' \in Lane /\ LaneShape'
    BY <1>1, <1>2, FailingShape
  <2> QED BY <1>2, <2>1 DEF LaneInv, TypeOK, Raises, mind
<1>3. ASSUME NEW part \in SUBSET Thing, NEW made \in Readings(part, LateCommit),
             Commit(made, part),
             lane' = Fails(lane, [t \in Thing |-> IF t \in part THEN made[t] ELSE lane.made[t]])
      PROVE  LaneInv'
  <2>1. made \in [Thing -> Outcome]
    <3>1. LateCommit \in SUBSET Outcome
      BY DEF Outcome, LateCommit
    <3> QED BY <3>1, ReadingType
  <2>2. [t \in Thing |-> IF t \in part THEN made[t] ELSE lane.made[t]] \in [Thing -> Outcome]
    BY <1>1, <2>1
  <2>3. lane' \in Lane /\ LaneShape'
    BY <1>1, <1>3, <2>2, FailingShape
  <2>4. entries' \in [Thing -> Times] /\ questions' \subseteq Thing
    BY <1>3, CommitType DEF LaneInv
  <2> QED BY <2>3, <2>4 DEF LaneInv, TypeOK, Raises, mind
<1>4. ASSUME lane.at \in {"oneshot", "read", "extract"},
             NEW part, part = IF lane.at = "extract" THEN Head(lane.left) ELSE lane.said
      PROVE  part \in SUBSET Thing
  BY <1>1, <1>4, FirstPart
<1> QED BY <1>2, <1>3, <1>4 DEF Raises, LateCommit

LEMMA BreaksOffStep ==
  ASSUME LaneInv, BreaksOff(lane)
  PROVE  lane' \in Lane /\ LaneShape' /\ settled' \subseteq Thing /\ broken' \subseteq Thing
BY EndStep, UnshownType DEF BreaksOff, LaneInv, TypeOK

LEMMA CleanStep == LaneInv /\ Clean => LaneInv'
<1> SUFFICES ASSUME LaneInv, Clean PROVE LaneInv'
  OBVIOUS
<1> USE DEF LaneInv, TypeOK
<1>1. CASE BreaksOff(lane) /\ UNCHANGED usage
  BY <1>1, BreaksOffStep DEF Clean, books
<1>2. CASE /\ usage' = usage + (IF lane.record THEN lane.parts ELSE 1)
           /\ lane' = [lane EXCEPT !.at = "reply"]
           /\ UNCHANGED <<settled, broken>>
  <2>1. usage' \in Nat
    BY <1>2 DEF Lane
  <2>2. /\ lane' \in Lane /\ lane'.at = "reply" /\ lane'.out = lane.out /\ lane.at = "clean"
        /\ lane'.parts = lane.parts /\ lane'.claims = lane.claims /\ lane'.record = lane.record
    BY <1>2 DEF Lane, Stage, Clean
  <2>3. LaneShape'
    BY <2>2 DEF LaneShape, Before
  <2> QED BY <1>2, <2>1, <2>2, <2>3 DEF Clean, books
<1> QED BY <1>1, <1>2 DEF Clean

LEMMA ReplyStep == LaneInv /\ ReplySent => LaneInv'
<1> SUFFICES ASSUME LaneInv, ReplySent PROVE LaneInv'
  OBVIOUS
<1> USE DEF LaneInv, TypeOK
<1>1. CASE BreaksOff(lane)
  BY <1>1, BreaksOffStep DEF ReplySent, books
<1>2. ASSUME NEW reply \in Replies(lane),
             lane' = [Left(lane, lane.made) EXCEPT !.at = "show", !.heard = reply,
                                                   !.answer = lane.answer],
             UNCHANGED <<settled, broken>>
      PROVE  LaneInv'
  <2>1. lane \in Lane /\ lane.made \in [Thing -> Outcome]
    BY DEF Lane
  <2>2. reply \in Reply /\ lane.answer \in Answer
    BY <1>2 DEF Replies, Reply, Lane
  <2>3. lane' \in Lane /\ lane'.at = "show" /\ lane'.parts = 0 /\ ~lane'.claims
    <3> HIDE DEF TypeOK, LaneInv
    <3>1. Left(lane, lane.made) \in Lane
      BY <2>1, LeftFields
    <3>2. lane' \in Lane /\ lane'.at = "show"
      BY <1>2, <2>2, <3>1 DEF Lane, Stage
    <3>3. lane'.parts = 0 /\ ~lane'.claims
      BY <1>2 DEF Left, Idle
    <3> QED BY <3>2, <3>3
  <2>4. LaneShape'
    BY <2>3 DEF LaneShape, Before
  <2> QED BY <1>2, <2>3, <2>4 DEF ReplySent, books
<1> QED BY <1>1, <1>2 DEF ReplySent

LEMMA ShowStep == LaneInv /\ Show => LaneInv'
<1> SUFFICES ASSUME LaneInv, Show PROVE LaneInv'
  OBVIOUS
<1> USE DEF LaneInv, TypeOK
<1>1. CASE BreaksOff(lane) /\ UNCHANGED shown
  BY <1>1, BreaksOffStep DEF Show, books
<1>2. CASE EndOf(lane) /\ UNCHANGED <<shown, broken>>
  BY <1>2, EndStep DEF Show, books
<1>3. ASSUME NEW t \in First(lane), lane' = [lane EXCEPT !.out = lane.out \cup {t}],
             shown' = shown \cup {t}, UNCHANGED <<settled, broken>>
      PROVE  LaneInv'
  <2>1. t \in Thing /\ lane.at = "show"
    BY <1>3 DEF First, ToShow, Lane, Show
  <2>2. /\ lane' \in Lane /\ lane'.at = "show" /\ lane'.parts = lane.parts
        /\ lane'.claims = lane.claims /\ lane'.record = lane.record
    BY <1>3, <2>1 DEF Lane
  <2>3. LaneShape'
    BY <2>2 DEF LaneShape, Before
  <2> QED BY <1>3, <2>1, <2>2, <2>3 DEF Show, books
<1> QED BY <1>1, <1>2, <1>3 DEF Show

\* The steps beside the lane.
LEMMA OtherStep ==
  LaneInv /\ (PressHint \/ PressEdit \/ InputArrives \/ InputAnswered \/ Midnight \/ UNCHANGED vars)
    => LaneInv'
<1> SUFFICES ASSUME LaneInv, PressHint \/ PressEdit \/ InputArrives \/ InputAnswered
                             \/ Midnight \/ UNCHANGED vars
             PROVE  LaneInv'
  OBVIOUS
<1>1. UNCHANGED <<lane, books, mind>>
  BY DEF PressHint, PressEdit, InputArrives, InputAnswered, Midnight, vars
<1>2. LaneShape'
  BY <1>1 DEF LaneInv, LaneShape, PartsLeft, Before
<1>3. usage' \in Nat /\ inputs' \in Nat
  BY DEF LaneInv, TypeOK, PressHint, PressEdit, InputArrives, InputAnswered, Midnight, vars
<1>4. hinted' \in BOOLEAN /\ served' \in BOOLEAN
  BY DEF LaneInv, TypeOK, PressHint, PressEdit, InputArrives, InputAnswered, Midnight, vars
<1>5. awaiting' \in BOOLEAN
  <2>1. UNCHANGED awaiting \/ awaiting' = ~awaiting
    BY DEF PressHint, PressEdit, InputArrives, InputAnswered, Midnight, vars
  <2> QED BY <2>1 DEF LaneInv, TypeOK
<1> QED BY <1>1, <1>2, <1>3, <1>4, <1>5 DEF LaneInv, TypeOK, books, mind

LEMMA LaneInvStep == LaneInv /\ [Next]_vars => LaneInv'
BY ReceiveStep, FlushStep, EndingStep, StatusStep, OneShotStep, TranscribedStep, PhotoStep,
   RouteStep, DataStep, ExtractStep, RaisesStep, CleanStep, ReplyStep, ShowStep, OtherStep
   DEF Next

LEMMA LaneInvInit == Init => LaneInv
<1> SUFFICES ASSUME Init PROVE LaneInv
  OBVIOUS
<1>1. lane = Idle /\ lane \in Lane
  BY IdleType DEF Init
<1>2. LaneShape
  BY <1>1 DEF LaneShape, PartsLeft, Before, Idle
<1>3. [t \in Thing |-> 0] \in [Thing -> Times]
  BY DEF Times
<1> QED BY <1>1, <1>2, <1>3 DEF Init, LaneInv, TypeOK

\* Every variable keeps its type (messages.py, the whole lane).
THEOREM TypeCorrect == Spec => []TypeOK
<1>1. LaneInv => TypeOK
  BY DEF LaneInv
<1> QED BY <1>1, LaneInvInit, LaneInvStep, PTL DEF Spec

LEMMA LaneCorrect == Spec => []LaneInv
BY LaneInvInit, LaneInvStep, PTL DEF Spec

-----------------------------------------------------------------------------
(* What the steps do to the lane.                                          *)

\* A step that takes a message, or lets it wait, from the flush.
Taken(l) ==
  /\ lane' \in Lane /\ lane'.at \in {"queued", "status"}
  /\ lane'.said = l.said /\ lane'.made = l.made /\ lane'.out = l.out

LEMMA TakenShape ==
  ASSUME NEW l \in Lane, NEW used, NEW q, Admit(l, used, q)
  PROVE  /\ Taken(l)
         /\ lane'.at = "status" => used < DailyLimit /\ queue' = q
         /\ lane'.at = "queued" =>
              queue' = [t \in Thing |-> IF t \in l.said THEN Upto2(q[t] + 1) ELSE q[t]]
BY DEF Admit, Taken, Lane, Stage

\* A message that is received is one the user has reason to send.
Received ==
  /\ lane' \in Lane /\ lane'.at \in {"flush", "queued", "status"}
  /\ lane'.said \subseteq Thing \ settled /\ lane'.made = Nothing /\ lane'.out = {}
  /\ lane'.at # "queued" => usage < DailyLimit /\ UNCHANGED queue
  /\ lane'.at = "queued" =>
       queue' = [t \in Thing |-> IF t \in lane'.said THEN Upto2(queue[t] + 1) ELSE queue[t]]

LEMMA ReceivedShape == Receive => UNCHANGED <<lane, queue>> \/ Received
<1> SUFFICES ASSUME Receive PROVE UNCHANGED <<lane, queue>> \/ Received
  OBVIOUS
<1>1. ASSUME NEW kind \in Kind, NEW said \in SUBSET (Thing \ settled), NEW refers \in BOOLEAN,
             Process(Message(kind, said, refers))
      PROVE  Received
  <2> DEFINE l == Message(kind, said, refers)
  <2>1. /\ l \in Lane /\ l.said = said /\ l.made = Nothing /\ l.out = {}
    BY IdleType DEF Message, Idle, Lane
  <2> HIDE DEF l
  <2>2. CASE usage < DailyLimit /\ lane' = [l EXCEPT !.at = "flush"] /\ UNCHANGED queue
    <3>1. lane' \in Lane /\ lane'.at = "flush" /\ lane'.said = said /\ lane'.made = Nothing
          /\ lane'.out = {}
      BY <2>1, <2>2 DEF Lane, Stage
    <3> QED BY <2>2, <3>1 DEF Received
  <2>3. CASE Admit(l, usage, queue)
    <3>1. /\ Taken(l)
          /\ lane'.at = "status" => usage < DailyLimit /\ queue' = queue
          /\ lane'.at = "queued" =>
               queue' = [t \in Thing |-> IF t \in l.said THEN Upto2(queue[t] + 1) ELSE queue[t]]
      BY <2>1, <2>3, TakenShape
    <3> QED BY <2>1, <3>1 DEF Received, Taken
  <2> QED BY <1>1, <2>2, <2>3 DEF Process, l
<1>2. PICK said \in SUBSET (Thing \ settled) :
        \/ \E refers \in BOOLEAN :
             \/ HandleText(said, refers)
             \/ \E kind \in {"voice", "longVoice"} : HandleVoice(kind, said, refers)
        \/ HandlePhoto(said)
  BY DEF Receive
<1>3. ASSUME NEW refers \in BOOLEAN, HandleText(said, refers)
      PROVE  UNCHANGED <<lane, queue>> \/ Received
  BY <1>1, <1>3 DEF HandleText, RateLimited, Kind
<1>4. ASSUME NEW refers \in BOOLEAN, NEW kind \in {"voice", "longVoice"},
             HandleVoice(kind, said, refers)
      PROVE  UNCHANGED <<lane, queue>> \/ Received
  BY <1>1, <1>4 DEF HandleVoice, RateLimited, Kind
<1>5. CASE HandlePhoto(said)
  BY <1>1, <1>5 DEF HandlePhoto, RateLimited, Kind
<1> QED BY <1>2, <1>3, <1>4, <1>5

\* A step to another stage, of a message of which nothing was made yet.
OnTheWay == {"route", "oneshot", "hear", "read", "data", "extract", "clean", "failing"}
Moved ==
  /\ lane.made = Nothing /\ lane'.made = Nothing
  /\ lane'.said = lane.said /\ lane.out = {} /\ lane'.out = {}
  /\ lane.at \in Before \ {"flush", "queued"}
  /\ lane'.at \in OnTheWay

LEMMA DecidedMoves ==
  ASSUME NEW l \in Lane, l.made = Nothing, l.out = {}, lane' \in Decided(l)
  PROVE  lane'.at \in OnTheWay /\ lane'.said = l.said /\ lane'.made = Nothing /\ lane'.out = {}
<1>1. CASE lane' = Fails(l, Nothing)
  BY ZenonT(30), <1>1, LeftFields, IdleType DEF OnTheWay
<1>2. ASSUME NEW parts, lane' = [l EXCEPT !.at = "extract", !.left = parts]
      PROVE  lane'.at \in OnTheWay /\ lane'.said = l.said /\ lane'.made = Nothing /\ lane'.out = {}
  BY <1>2 DEF Lane, OnTheWay
<1>3. CASE lane' = [l EXCEPT !.at = "clean"]
  BY <1>3 DEF Lane, OnTheWay
<1> QED BY <1>1, <1>2, <1>3 DEF Decided

LEMMA MovedShape ==
  ASSUME LaneInv, Transcribed \/ Route \/ Data \/ (StatusSent /\ ~EndOf(lane))
  PROVE  Moved
<1>1. /\ lane \in Lane /\ lane.made = Nothing /\ lane.out = {} /\ lane.kind \in Kind
      /\ lane.at \in Before \ {"flush", "queued"}
  BY DEF LaneInv, TypeOK, LaneShape, Lane, Transcribed, Route, Data, StatusSent, Before
<1>2. CASE Transcribed
  BY <1>1, <1>2 DEF Transcribed, Moved, OnTheWay, Lane
<1>3. CASE StatusSent /\ ~EndOf(lane)
  <2>1. FirstCall[lane.kind] \in OnTheWay
    BY <1>1 DEF FirstCall, Kind, OnTheWay
  <2> QED BY <1>1, <1>3, <2>1 DEF StatusSent, Moved, Lane
<1>4. CASE Data
  <2>1. PICK answer \in Answer : lane' \in Decided([lane EXCEPT !.answer = answer])
    BY <1>4 DEF Data
  <2> DEFINE l == [lane EXCEPT !.answer = answer]
  <2>2. l \in Lane /\ l.made = Nothing /\ l.out = {} /\ l.said = lane.said
    BY <1>1 DEF Lane
  <2> HIDE DEF l
  <2>3. lane'.at \in OnTheWay /\ lane'.said = l.said /\ lane'.made = Nothing /\ lane'.out = {}
    BY <2>1, <2>2, DecidedMoves DEF l
  <2> QED BY <1>1, <2>2, <2>3 DEF Moved
<1>5. CASE Route
  <2>1. PICK wants \in BOOLEAN, query \in BOOLEAN, claims \in BOOLEAN :
          LET l == [lane EXCEPT !.record = ToRecord(lane.record, wants, claims), !.claims = claims]
          IN  lane' = [l EXCEPT !.at = "data"] \/ lane' \in Decided(l)
    BY <1>5 DEF Route
  <2> DEFINE l == [lane EXCEPT !.record = ToRecord(lane.record, wants, claims), !.claims = claims]
  <2>2. ToRecord(lane.record, wants, claims) \in BOOLEAN
    BY <1>1 DEF ToRecord, Lane
  <2>3. l \in Lane /\ l.made = Nothing /\ l.out = {} /\ l.said = lane.said
    BY <1>1, <2>2 DEF Lane
  <2>4. lane' = [l EXCEPT !.at = "data"] \/ lane' \in Decided(l)
    BY <2>1
  <2> HIDE DEF l
  <2>5. lane'.at \in OnTheWay /\ lane'.said = l.said /\ lane'.made = Nothing /\ lane'.out = {}
    <3>1. CASE lane' = [l EXCEPT !.at = "data"]
      BY <2>3, <3>1 DEF Lane, OnTheWay
    <3> QED BY <2>3, <2>4, <3>1, DecidedMoves
  <2> QED BY <1>1, <2>3, <2>5 DEF Moved
<1> QED BY <1>2, <1>3, <1>4, <1>5

\* One call of the model, which makes m of the things of a part.
Made(part, m) ==
  /\ part \subseteq lane.said
  /\ m \in [Thing -> Outcome] /\ \A t \in Thing \ part : m[t] = "none"
  /\ \A t \in part : lane.made[t] = "none"
  /\ Commit(m, part)
  /\ lane.out = {} /\ lane'.out = {} /\ lane'.said = lane.said
  /\ \A t \in Thing : lane'.made[t] = IF t \in part THEN m[t] ELSE lane.made[t]
  /\ lane.at \in {"oneshot", "read", "extract"}
  /\ lane'.at \in OnTheWay

LEMMA MadeShape ==
  ASSUME LaneInv, OneShot \/ PhotoRead \/ ExtractPart \/ Raises
  PROVE  \/ \E part \in SUBSET Thing, m \in [Thing -> Outcome] : Made(part, m)
         \/ /\ UNCHANGED <<entries, questions>> /\ lane'.said = lane.said
            /\ lane'.made = lane.made /\ lane.out = {} /\ lane'.out = {}
            /\ lane.at \in {"oneshot", "hear", "read", "route", "data", "extract"}
            /\ lane'.at \in OnTheWay
<1> DEFINE Still == /\ UNCHANGED <<entries, questions>> /\ lane'.said = lane.said
                    /\ lane'.made = lane.made /\ lane.out = {} /\ lane'.out = {}
                    /\ lane.at \in {"oneshot", "hear", "read", "route", "data", "extract"}
                    /\ lane'.at \in OnTheWay
           Goal == Still \/ \E part \in SUBSET Thing, m \in [Thing -> Outcome] : Made(part, m)
<1>1. /\ lane \in Lane /\ lane.said \in SUBSET Thing /\ lane.made \in [Thing -> Outcome]
      /\ lane.out = {}
  BY DEF LaneInv, TypeOK, LaneShape, Lane, OneShot, PhotoRead, ExtractPart, Raises
<1>2. lane.at \in {"oneshot", "read"} => \A t \in lane.said : lane.made[t] = "none"
  BY <1>1 DEF LaneInv, LaneShape, Before, Nothing
<1>3. lane.at = "extract" =>
        /\ Head(lane.left) \in SUBSET Thing /\ Head(lane.left) \subseteq lane.said
        /\ \A t \in Head(lane.left) : lane.made[t] = "none"
  BY FirstPart
<1>4. CASE OneShot
  <2>1. PICK made \in Readings(lane.said, Outcome) :
          /\ Commit(made, lane.said)
          /\ lane' = IF HeardOut([lane EXCEPT !.made = made])
                       THEN [[lane EXCEPT !.made = made] EXCEPT
                               !.at = "clean", !.parts = 1, !.record = TRUE]
                       ELSE [lane EXCEPT !.at = "route"]
    BY <1>4 DEF OneShot
  <2>2. made \in [Thing -> Outcome] /\ \A t \in Thing \ lane.said : made[t] = "none"
    BY <1>1, ReadingType
  <2>3. CASE HeardOut([lane EXCEPT !.made = made])
    <3>1. lane'.made = made /\ lane'.out = {} /\ lane'.said = lane.said /\ lane'.at = "clean"
      BY <1>1, <2>1, <2>3 DEF Lane
    <3>2. \A t \in Thing : lane'.made[t] = IF t \in lane.said THEN made[t] ELSE lane.made[t]
      <4>1. \A t \in Thing : lane.made[t] = "none"
        BY <1>4 DEF OneShot, LaneInv, LaneShape, Before, Nothing
      <4> QED BY <2>2, <3>1, <4>1
    <3>3. Made(lane.said, made)
      BY <1>1, <1>2, <1>4, <2>1, <2>2, <3>1, <3>2 DEF Made, OnTheWay, OneShot
    <3> QED BY <1>1, <2>2, <3>3
  <2>4. CASE ~HeardOut([lane EXCEPT !.made = made])
    <3>1. lane'.made = lane.made /\ lane'.out = {} /\ lane'.said = lane.said /\ lane'.at = "route"
      BY <1>1, <2>1, <2>4 DEF Lane
    <3>2. \A t \in lane.said : made[t] = "none"
      BY <1>1, <2>4 DEF HeardOut, Lane
    <3>3. UNCHANGED <<entries, questions>>
      <4>1. {t \in lane.said : made[t] \in NewEntry} = {}
        BY <3>2 DEF NewEntry
      <4>2. {t \in lane.said : made[t] = "clarify"} = {}
        BY <3>2
      <4>3. entries \in [Thing -> Times]
        BY DEF LaneInv, TypeOK
      <4>4. entries' = [t \in Thing |-> entries[t]]
        BY <2>1, <4>1 DEF Commit, Enter
      <4> QED BY <2>1, <4>2, <4>3, <4>4 DEF Commit
    <3> QED BY <1>1, <1>4, <3>1, <3>3 DEF OneShot, OnTheWay
  <2> QED BY <2>3, <2>4
<1>5. CASE PhotoRead
  <2>1. lane.at = "read" /\ lane.made = Nothing
    BY <1>5 DEF PhotoRead, LaneInv, LaneShape, Before
  <2>2. CASE lane' = Fails(lane, Nothing) /\ UNCHANGED <<entries, questions>>
    <3>1. lane'.said = lane.said /\ lane'.made = Nothing /\ lane'.out = {} /\ lane'.at = "failing"
      BY <1>1, <2>2 DEF Fails, Left, Idle
    <3> QED BY <1>1, <2>1, <2>2, <3>1 DEF OnTheWay
  <2>3. ASSUME NEW made \in Readings(lane.said, {"row"}), Commit(made, lane.said),
               lane' = [lane EXCEPT !.at = "clean", !.made = made, !.parts = 1, !.record = TRUE]
        PROVE  Goal
    <3>1. made \in [Thing -> Outcome] /\ \A t \in Thing \ lane.said : made[t] = "none"
      <4>1. {"row"} \in SUBSET Outcome
        BY DEF Outcome
      <4> QED BY <1>1, <4>1, ReadingType
    <3>2. lane'.made = made /\ lane'.out = {} /\ lane'.said = lane.said /\ lane'.at = "clean"
      BY <1>1, <2>3 DEF Lane
    <3>3. \A t \in Thing : lane'.made[t] = IF t \in lane.said THEN made[t] ELSE lane.made[t]
      BY <2>1, <3>1, <3>2 DEF Nothing
    <3>4. Made(lane.said, made)
      BY <1>1, <1>2, <2>1, <2>3, <3>1, <3>2, <3>3 DEF Made, OnTheWay
    <3> QED BY <1>1, <3>1, <3>4
  <2> QED BY <1>5, <2>2, <2>3 DEF PhotoRead
<1>6. CASE ExtractPart
  <2> DEFINE head == Head(lane.left)
             at2 == IF Tail(lane.left) = <<>> THEN "clean" ELSE "extract"
  <2>1. PICK made \in Readings(head, Outcome) :
          /\ Commit(made, head)
          /\ lane' = [lane EXCEPT
                !.made = [t \in Thing |-> IF t \in head THEN made[t] ELSE lane.made[t]],
                !.left = Tail(lane.left), !.parts = lane.parts + 1, !.at = at2]
    BY <1>6 DEF ExtractPart
  <2>2. lane.at = "extract"
    BY <1>6 DEF ExtractPart
  <2>3. made \in [Thing -> Outcome] /\ \A t \in Thing \ head : made[t] = "none"
    BY <1>3, <2>2, ReadingType
  <2>4. at2 \in OnTheWay
    BY DEF OnTheWay
  <2>5. /\ lane'.out = {} /\ lane'.said = lane.said /\ lane'.at = at2
        /\ \A t \in Thing : lane'.made[t] = IF t \in head THEN made[t] ELSE lane.made[t]
    <3> HIDE DEF at2, head
    <3> QED BY <1>1, <2>1 DEF Lane
  <2>6. Made(head, made)
    <3> HIDE DEF at2
    <3> QED BY <1>1, <1>3, <2>1, <2>2, <2>3, <2>4, <2>5 DEF Made
  <2> QED BY <1>3, <2>2, <2>3, <2>6
<1>7. CASE Raises
  <2>1. CASE /\ lane.at \in {"oneshot", "hear", "read", "route", "data", "extract"}
             /\ lane' = Fails(lane, lane.made)
             /\ UNCHANGED <<entries, questions>>
    <3>1. /\ lane'.said = lane.said /\ lane'.made = lane.made /\ lane'.out = {}
          /\ lane'.at = "failing"
      BY <1>1, <2>1 DEF Fails, Left, Idle
    <3> QED BY <1>1, <2>1, <3>1 DEF OnTheWay
  <2>2. ASSUME lane.at \in {"oneshot", "read", "extract"},
               NEW part \in SUBSET lane.said, \A t \in part : lane.made[t] = "none",
               NEW made \in Readings(part, LateCommit), Commit(made, part),
               lane' = Fails(lane, [t \in Thing |-> IF t \in part THEN made[t] ELSE lane.made[t]])
        PROVE  Goal
    <3> DEFINE m2 == [t \in Thing |-> IF t \in part THEN made[t] ELSE lane.made[t]]
    <3>1. made \in [Thing -> Outcome] /\ \A t \in Thing \ part : made[t] = "none"
      <4>1. LateCommit \in SUBSET Outcome
        BY DEF Outcome, LateCommit
      <4> QED BY <1>1, <2>2, <4>1, ReadingType
    <3>2. m2 \in [Thing -> Outcome] /\ \A t \in Thing : m2[t] = IF t \in part THEN made[t] ELSE lane.made[t]
      BY <1>1, <3>1
    <3>3. lane' = Fails(lane, m2)
      BY <2>2
    <3> HIDE DEF m2
    <3>4. lane'.said = lane.said /\ lane'.made = m2 /\ lane'.out = {} /\ lane'.at = "failing"
      BY <1>1, <3>3 DEF Fails, Left, Idle
    <3>5. Made(part, made)
      BY <1>1, <2>2, <3>1, <3>2, <3>4 DEF Made, OnTheWay
    <3> QED BY <1>1, <2>2, <3>1, <3>5
  <2>3. ASSUME lane.at \in {"oneshot", "read", "extract"},
               NEW part, part = IF lane.at = "extract" THEN Head(lane.left) ELSE lane.said
        PROVE  part \in SUBSET lane.said /\ \A t \in part : lane.made[t] = "none"
    BY <1>2, <1>3, <2>3
  <2> HIDE DEF Goal
  <2> QED BY <1>7, <2>1, <2>2, <2>3 DEF Raises, LateCommit, Goal
<1> QED BY <1>4, <1>5, <1>6, <1>7

-----------------------------------------------------------------------------
(* The hint.                                                               *)

LEMMA ReceiveKeepsHint == HintIsFresh /\ Receive => HintIsFresh'
<1>1. ASSUME HintIsFresh, NEW said, NEW refers, HandleText(said, refers) PROVE HintIsFresh'
  BY <1>1 DEF HintIsFresh, HandleText, RateLimited
<1>2. ASSUME HintIsFresh, NEW kind, NEW said, NEW refers, HandleVoice(kind, said, refers)
      PROVE  HintIsFresh'
  BY <1>2 DEF HintIsFresh, HandleVoice, RateLimited
<1>3. ASSUME NEW said, HandlePhoto(said) PROVE HintIsFresh'
  BY <1>3 DEF HintIsFresh, HandlePhoto
<1> QED BY <1>1, <1>2, <1>3 DEF Receive

\* The hint of a menu button reaches at most one message (messages.py:280, :545).
THEOREM HintReachesOne == Spec => []HintIsFresh
<1>1. Init => HintIsFresh
  BY DEF Init, HintIsFresh
<1>2. HintIsFresh /\ [Next]_vars => HintIsFresh'
  <2> SUFFICES ASSUME HintIsFresh, [Next]_vars PROVE HintIsFresh'
    OBVIOUS
  <2>1. CASE Receive
    BY <2>1, ReceiveKeepsHint
  <2>2. CASE PressHint \/ Crash
    BY <2>2 DEF HintIsFresh, PressHint, Crash
  <2>3. CASE UNCHANGED <<hinted, served>>
    BY <2>3 DEF HintIsFresh
  <2>4. CASE PressEdit \/ FlushDone \/ FlushFails \/ QueuedReply \/ StatusSent
             \/ InputArrives \/ InputAnswered \/ Midnight \/ UNCHANGED vars
    BY <2>3, <2>4 DEF PressEdit, FlushDone, FlushFails, QueuedReply, StatusSent,
       InputArrives, InputAnswered, Midnight, vars
  <2>5. CASE OneShot \/ Transcribed \/ PhotoRead \/ Route \/ Data \/ ExtractPart \/ Raises
             \/ Failing \/ Clean \/ ReplySent \/ Show
    BY <2>3, <2>5 DEF OneShot, Transcribed, PhotoRead, Route, Data, ExtractPart, Raises,
       Failing, Clean, ReplySent, Show
  <2> QED BY <2>1, <2>2, <2>4, <2>5 DEF Next
<1> QED BY <1>1, <1>2, PTL DEF Spec

-----------------------------------------------------------------------------
(* The reply.                                                              *)

\* "Recorded" is a reply only where something was named or the answer from the
\* books says it: a claim of the router makes the message one for the books.
LEMMA DoneIsTrue ==
  ASSUME NEW l, l.claims => l.record, "done" \in Replies(l)
  PROVE  Changed(l) \/ l.answer = "claim"
BY DEF Replies

\* What the user hears as recorded changed the books, or named a record without
\* changing it, or came with the answer to his question (messages.py:433, :470,
\* :482, :604).
THEOREM PromiseIsKept == Spec => []NoEmptyPromise
<1>1. Init => NoEmptyPromise
  BY DEF Init, Idle, NoEmptyPromise
<1>2. LaneInv /\ NoEmptyPromise /\ [Next]_vars => NoEmptyPromise'
  <2> SUFFICES ASSUME LaneInv, NoEmptyPromise, [Next]_vars PROVE NoEmptyPromise'
    OBVIOUS
  <2>1. CASE lane'.at # "show"
    BY <2>1 DEF NoEmptyPromise
  <2>2. CASE UNCHANGED lane
    BY <2>2 DEF NoEmptyPromise
  <2>3. ASSUME NEW l \in Lane, EndOf(l) PROVE lane'.at # "show"
    BY <2>3 DEF EndOf, Idle
  <2>4. lane \in Lane
    BY DEF LaneInv, TypeOK
  <2>5. CASE ReplySent
    <3>1. CASE BreaksOff(lane)
      BY <2>1, <2>3, <2>4, <3>1 DEF BreaksOff
    <3>2. ASSUME NEW reply \in Replies(lane),
                 lane' = [Left(lane, lane.made) EXCEPT !.at = "show", !.heard = reply,
                                                       !.answer = lane.answer]
          PROVE  NoEmptyPromise'
      <4>1. lane'.heard = reply /\ lane'.said = lane.said /\ lane'.made = lane.made
            /\ lane'.answer = lane.answer
        BY <3>2 DEF Left, Idle
      <4>2. reply = "done" => Changed(lane) \/ lane.answer = "claim"
        BY DoneIsTrue DEF LaneInv, LaneShape
      <4> QED BY <4>1, <4>2 DEF NoEmptyPromise, Changed
    <3> QED BY <2>5, <3>1, <3>2 DEF ReplySent
  <2>6. CASE Show
    <3>1. CASE EndOf(lane)
      BY <2>1, <2>3, <2>4, <3>1
    <3>2. ASSUME NEW t, lane' = [lane EXCEPT !.out = @ \cup {t}] PROVE NoEmptyPromise'
      <4>1. lane'.heard = lane.heard /\ lane'.said = lane.said /\ lane'.made = lane.made
            /\ lane'.at = lane.at /\ lane'.answer = lane.answer
        BY <2>4, <3>2 DEF Lane
      <4> QED BY <4>1 DEF NoEmptyPromise
    <3> QED BY <2>6, <3>1, <3>2 DEF Show, BreaksOff
  <2>7. CASE Receive
    BY <2>1, <2>2, <2>7, ReceivedShape DEF Received
  <2>8. CASE FlushDone \/ FlushFails
    BY <2>1, <2>4, <2>8 DEF FlushDone, FlushFails, Admit, Lane
  <2>9. CASE QueuedReply \/ Failing \/ Crash \/ EndOf(lane) \/ BreaksOff(lane)
    BY <2>1, <2>9 DEF QueuedReply, Failing, Crash, BreaksOff, EndOf, Idle
  <2>10. CASE Clean
    BY <2>1, <2>4, <2>9, <2>10 DEF Clean, Lane
  <2>11. CASE OneShot \/ PhotoRead \/ ExtractPart \/ Raises
    BY <2>1, <2>11, MadeShape DEF Made, OnTheWay
  <2>12. CASE Transcribed \/ Route \/ Data \/ StatusSent
    BY <2>1, <2>9, <2>12, MovedShape DEF Moved, OnTheWay
  <2>13. CASE PressHint \/ PressEdit \/ InputArrives \/ InputAnswered \/ Midnight
              \/ UNCHANGED vars
    BY <2>2, <2>13 DEF PressHint, PressEdit, InputArrives, InputAnswered, Midnight, vars
  <2> QED BY <2>5, <2>6, <2>7, <2>8, <2>9, <2>10, <2>11, <2>12, <2>13 DEF Next
<1> QED BY <1>1, <1>2, LaneCorrect, PTL DEF Spec

-----------------------------------------------------------------------------
(* Nothing is hidden.                                                      *)

\* What is in the books, or waits for an answer, was shown, or its handling
\* broke off, or is still to be shown by the lane.
Entered == {t \in Thing : entries[t] > 0} \cup questions
ShownOrToCome == Entered \subseteq shown \cup broken \cup Unshown(lane)

\* Before anything is made, nothing is to be shown.
LEMMA NothingUnshown == ASSUME NEW l, l.made = Nothing, l.said \subseteq Thing PROVE Unshown(l) = {}
BY DEF Unshown, Nothing, NewEntry

\* A commit enters what it makes and nothing else.
LEMMA Committed ==
  ASSUME TypeOK, NEW part \in SUBSET Thing, NEW m \in [Thing -> Outcome], Commit(m, part)
  PROVE  /\ Entered' \subseteq Entered \cup {t \in part : m[t] \in NewEntry \cup {"clarify"}}
         /\ \A t \in Thing : entries'[t] = IF t \in part /\ m[t] \in NewEntry
                                             THEN Upto2(entries[t] + 1) ELSE entries[t]
<1>1. \A t \in Thing : entries'[t] = IF t \in part /\ m[t] \in NewEntry
                                       THEN Upto2(entries[t] + 1) ELSE entries[t]
  BY DEF Commit, Enter, Once
<1>2. questions' = questions \cup {t \in part : m[t] = "clarify"}
  BY DEF Commit
<1>3. \A t \in Thing : entries'[t] > 0 => entries[t] > 0 \/ (t \in part /\ m[t] \in NewEntry)
  BY <1>1
<1> QED BY <1>1, <1>2, <1>3 DEF Entered, NewEntry

LEMMA BreakKeepsShown ==
  ASSUME LaneInv, ShownOrToCome, UNCHANGED <<entries, questions, shown>>,
         broken' = broken \cup Unshown(lane) \/ (broken' = broken /\ lane.made = Nothing)
  PROVE  ShownOrToCome'
<1>1. CASE broken' = broken \cup Unshown(lane)
  BY <1>1 DEF ShownOrToCome, Entered
<1>2. CASE broken' = broken /\ lane.made = Nothing
  <2>1. Unshown(lane) = {}
    BY <1>2, NothingUnshown DEF LaneInv, TypeOK, Lane
  <2> QED BY <1>2, <2>1 DEF ShownOrToCome, Entered
<1> QED BY <1>1, <1>2

LEMMA SameColumns ==
  ASSUME ShownOrToCome, UNCHANGED <<entries, questions, shown, broken>>,
         Unshown(lane) \subseteq Unshown(lane')
  PROVE  ShownOrToCome'
BY DEF ShownOrToCome, Entered

LEMMA ShownStep == LaneInv /\ ShownOrToCome /\ [Next]_vars => ShownOrToCome'
<1> SUFFICES ASSUME LaneInv, ShownOrToCome, [Next]_vars PROVE ShownOrToCome'
  OBVIOUS
<1>1. lane \in Lane /\ lane.said \subseteq Thing /\ entries \in [Thing -> Times]
      /\ lane.made \in [Thing -> Outcome]
  BY DEF LaneInv, TypeOK, Lane
<1>2. CASE UNCHANGED <<lane, entries, questions, shown, broken>>
  BY <1>2, SameColumns
<1>3. CASE Receive
  <2>1. Unshown(lane) = {}
    BY <1>3 DEF Receive, Idle, Unshown
  <2> QED BY <1>3, <2>1, SameColumns DEF Receive, mind
<1>4. CASE FlushDone \/ FlushFails
  <2>1. lane.made = Nothing
    BY <1>4 DEF FlushDone, FlushFails, LaneInv, LaneShape, Before
  <2>2. PICK new \in SUBSET Thing : /\ Enter(new, queue)
                                    /\ shown' \cup broken' = shown \cup broken \cup new
    BY <1>4 DEF FlushDone, FlushFails
  <2>3. UNCHANGED questions
    BY <1>4 DEF FlushDone, FlushFails
  <2>4. Unshown(lane) = {}
    BY <1>1, <2>1, NothingUnshown
  <2>5. \A t \in Thing : entries'[t] > 0 => entries[t] > 0 \/ t \in new
    BY <1>1, <2>2 DEF Enter
  <2> QED BY <2>2, <2>3, <2>4, <2>5 DEF ShownOrToCome, Entered
<1>5. CASE QueuedReply
  <2>1. Unshown(lane) = {}
    BY <1>1, <1>5, NothingUnshown DEF QueuedReply, LaneInv, LaneShape, Before
  <2>2. broken \subseteq broken' /\ UNCHANGED <<entries, questions, shown>>
    BY <1>5 DEF QueuedReply, books
  <2> QED BY <2>1, <2>2 DEF ShownOrToCome, Entered
<1>6. CASE StatusSent
  <2>1. lane.made = Nothing /\ UNCHANGED <<entries, questions, shown, broken>>
    BY <1>6 DEF StatusSent, LaneInv, LaneShape, Before, books
  <2> QED BY <2>1, BreakKeepsShown
<1>7. CASE OneShot \/ PhotoRead \/ ExtractPart \/ Raises
  <2>1. UNCHANGED <<shown, broken>>
    BY <1>7 DEF OneShot, PhotoRead, ExtractPart, Raises, mind
  <2>2. ASSUME NEW part \in SUBSET Thing, NEW m \in [Thing -> Outcome], Made(part, m)
        PROVE  ShownOrToCome'
    <3>1. Entered' \subseteq Entered \cup {t \in part : m[t] \in NewEntry \cup {"clarify"}}
      BY <2>2, Committed DEF Made, LaneInv
    <3>2. {t \in part : m[t] \in NewEntry \cup {"clarify"}} \subseteq Unshown(lane')
      BY <2>2 DEF Made, Unshown
    <3>3. Unshown(lane) \subseteq Unshown(lane')
      BY <1>1, <2>2 DEF Made, Unshown, NewEntry
    <3> QED BY <2>1, <3>1, <3>2, <3>3 DEF ShownOrToCome
  <2>3. CASE /\ UNCHANGED <<entries, questions>> /\ lane'.said = lane.said
             /\ lane'.made = lane.made /\ lane.out = {} /\ lane'.out = {}
    BY <2>1, <2>3, SameColumns DEF Unshown
  <2> QED BY <1>7, <2>2, <2>3, MadeShape
<1>8. CASE Transcribed \/ Route \/ Data
  <2>1. UNCHANGED <<entries, questions, shown, broken>>
    BY <1>8 DEF Transcribed, Route, Data, books, mind
  <2>2. lane.made = Nothing
    BY <1>8, MovedShape DEF Moved
  <2> QED BY <2>1, <2>2, BreakKeepsShown
<1>9. CASE BreaksOff(lane) /\ UNCHANGED <<entries, questions, shown>>
  BY <1>9, BreakKeepsShown DEF BreaksOff
<1>10. CASE Failing
  BY <1>9, <1>10 DEF Failing, books
<1>11. CASE Clean
  <2>1. UNCHANGED <<entries, questions, shown>>
    BY <1>11 DEF Clean, books
  <2>2. CASE lane' = [lane EXCEPT !.at = "reply"] /\ UNCHANGED broken
    <3>1. Unshown(lane') = Unshown(lane)
      BY <1>1, <2>2 DEF Unshown, Lane
    <3> QED BY <2>1, <2>2, <3>1, SameColumns
  <2> QED BY <1>9, <1>11, <2>1, <2>2 DEF Clean
<1>12. CASE ReplySent
  <2>1. UNCHANGED <<entries, questions, shown>>
    BY <1>12 DEF ReplySent, books
  <2>2. ASSUME NEW reply,
               lane' = [Left(lane, lane.made) EXCEPT !.at = "show", !.heard = reply,
                                                     !.answer = lane.answer],
               UNCHANGED broken
        PROVE  ShownOrToCome'
    <3>1. lane'.said = lane.said /\ lane'.made = lane.made /\ lane'.out = {}
      BY <2>2 DEF Left, Idle
    <3>2. Unshown(lane) \subseteq Unshown(lane')
      BY <3>1 DEF Unshown
    <3> QED BY <2>1, <2>2, <3>2, SameColumns
  <2> QED BY <1>9, <1>12, <2>1, <2>2 DEF ReplySent
<1>13. CASE Show
  <2>1. UNCHANGED <<entries, questions>>
    BY <1>13 DEF Show, books
  <2>2. ASSUME NEW t, lane' = [lane EXCEPT !.out = lane.out \cup {t}],
               shown' = shown \cup {t}, UNCHANGED broken
        PROVE  ShownOrToCome'
    <3>1. lane'.said = lane.said /\ lane'.made = lane.made /\ lane'.out = lane.out \cup {t}
      BY <1>1, <2>2 DEF Lane
    <3>2. Unshown(lane) \subseteq Unshown(lane') \cup {t}
      BY <3>1 DEF Unshown
    <3> QED BY <2>1, <2>2, <3>2 DEF ShownOrToCome, Entered
  <2>3. CASE ToShow(lane) = {} /\ UNCHANGED <<shown, broken>>
    <3>1. Unshown(lane) = {}
      BY <2>3 DEF ToShow, Unshown, NewEntry
    <3> QED BY <2>1, <2>3, <3>1 DEF ShownOrToCome, Entered
  <2> QED BY <1>9, <1>13, <2>1, <2>2, <2>3 DEF Show
<1>14. CASE Crash
  <2>1. UNCHANGED <<entries, questions, shown>>
    BY <1>14 DEF Crash, books
  <2>2. CASE lane.at = "queued"
    <3>1. Unshown(lane) = {}
      BY <1>1, <2>2, NothingUnshown DEF LaneInv, LaneShape, Before
    <3> QED BY <1>14, <2>1, <3>1 DEF Crash, ShownOrToCome, Entered
  <2>3. CASE lane.at # "queued"
    BY <1>14, <2>1, <2>3, BreakKeepsShown DEF Crash
  <2> QED BY <2>2, <2>3
<1>15. CASE PressHint \/ PressEdit \/ InputArrives \/ InputAnswered \/ Midnight \/ UNCHANGED vars
  BY <1>2, <1>15 DEF PressHint, PressEdit, InputArrives, InputAnswered, Midnight, vars, books, mind
<1> QED BY <1>3, <1>4, <1>5, <1>6, <1>7, <1>8, <1>10, <1>11, <1>12, <1>13, <1>14, <1>15 DEF Next

\* When the lane is at rest every entry has its card and every question was
\* asked, unless the handling broke off (messages.py:431-533, :567, :643).
THEOREM EverythingIsShown == Spec => []NothingHidden
<1>1. Init => ShownOrToCome
  BY DEF Init, ShownOrToCome, Entered
<1>2. ShownOrToCome => NothingHidden
  <2> SUFFICES ASSUME ShownOrToCome, lane = Idle
               PROVE  /\ \A t \in Thing : entries[t] > 0 => t \in shown \cup broken
                      /\ questions \subseteq shown \cup broken
    BY DEF NothingHidden
  <2>1. Unshown(lane) = {}
    BY DEF Unshown, Idle
  <2> QED BY <2>1 DEF ShownOrToCome, Entered
<1> QED BY <1>1, <1>2, ShownStep, LaneCorrect, PTL DEF Spec

-----------------------------------------------------------------------------
(* The day's limit.                                                        *)

\* What the message in the lane may still be charged.
Pending == IF lane.at \in {"idle", "queued", "failing", "reply", "show"} THEN 0 ELSE MaxParts
Budget ==
  /\ inputs <= MaxInputs
  /\ usage + Pending + inputs < DailyLimit + MaxParts + MaxInputs

LEMMA SmallerCharge ==
  ASSUME LaneInv, Budget, UNCHANGED usage, inputs' \in {0, inputs},
         Pending' = 0 \/ (Pending' = MaxParts /\ (Pending = MaxParts \/ usage < DailyLimit))
  PROVE  Budget'
<1>1. usage \in Nat /\ inputs \in Nat /\ Pending \in {0, MaxParts}
  BY DEF LaneInv, TypeOK, Pending
<1> QED BY <1>1 DEF Budget

LEMMA BudgetStep == LaneInv /\ Budget /\ [Next]_vars => Budget'
<1> SUFFICES ASSUME LaneInv, Budget, [Next]_vars PROVE Budget'
  OBVIOUS
<1>1. /\ lane \in Lane /\ usage \in Nat /\ inputs \in Nat /\ lane.parts \in Nat
      /\ lane.parts <= MaxParts /\ Pending \in {0, MaxParts}
  BY DEF LaneInv, TypeOK, LaneShape, Lane, Pending
<1>2. CASE UNCHANGED <<lane, usage, inputs>>
  BY <1>2 DEF Budget, Pending
<1>3. Pending' \in {0, MaxParts}
  BY DEF Pending
<1>4. CASE EndOf(lane) /\ UNCHANGED <<usage, inputs>>
  <2>1. Pending' = 0
    BY <1>4 DEF EndOf, Idle, Pending
  <2> QED BY <1>4, <2>1, SmallerCharge
<1>5. CASE Receive
  <2>1. UNCHANGED <<usage, inputs>>
    BY <1>5 DEF Receive
  <2>2. CASE UNCHANGED lane
    BY <1>2, <2>1, <2>2
  <2>3. CASE Received
    <3>1. lane'.at = "queued" => Pending' = 0
      BY DEF Pending
    <3> QED BY <1>3, <2>1, <2>3, <3>1, SmallerCharge DEF Received
  <2> QED BY <1>5, <2>2, <2>3, ReceivedShape
<1>6. CASE FlushDone
  <2>1. PICK q : Admit(lane, usage + 1, q)
    BY <1>6 DEF FlushDone
  <2>2. Taken(lane) /\ (lane'.at = "status" => usage + 1 < DailyLimit)
    BY <1>1, <2>1, TakenShape
  <2>3. usage' = usage + 1 /\ UNCHANGED inputs /\ Pending = MaxParts
    BY <1>6 DEF FlushDone, Pending
  <2>4. CASE lane'.at = "queued"
    <3>1. Pending' = 0
      BY <2>4 DEF Pending
    <3> QED BY <1>1, <2>3, <3>1 DEF Budget
  <2>5. CASE lane'.at = "status"
    <3>1. usage + 1 < DailyLimit
      BY <2>2, <2>5
    <3>3. Pending' = 0 \/ Pending' = MaxParts
      BY <1>3
    <3>2. inputs' <= MaxInputs /\ usage' < DailyLimit /\ usage' \in Nat /\ inputs' \in Nat
      BY <1>1, <2>3, <3>1 DEF Budget
    <3> HIDE DEF Pending
    <3> QED BY <3>2, <3>3 DEF Budget
  <2> QED BY <2>2, <2>4, <2>5 DEF Taken
<1>7. CASE FlushFails
  <2>1. UNCHANGED <<usage, inputs>> /\ Pending = MaxParts
    BY <1>7 DEF FlushFails, Pending
  <2> QED BY <1>3, <2>1, SmallerCharge
<1>8. CASE QueuedReply \/ Failing
  <2>1. UNCHANGED <<usage, inputs>>
    BY <1>8 DEF QueuedReply, Failing
  <2>2. Pending' = 0
    BY <1>8 DEF QueuedReply, Failing, BreaksOff, EndOf, Idle, Pending
  <2> QED BY <2>1, <2>2, SmallerCharge
<1>9. CASE StatusSent
  <2>1. UNCHANGED <<usage, inputs>> /\ Pending = MaxParts
    BY <1>9 DEF StatusSent, Pending
  <2> QED BY <1>3, <2>1, SmallerCharge
<1>10. CASE OneShot \/ PhotoRead \/ ExtractPart \/ Raises \/ Transcribed \/ Route \/ Data
  <2>1. UNCHANGED <<usage, inputs>>
    BY <1>10 DEF OneShot, PhotoRead, ExtractPart, Raises, Transcribed, Route, Data
  <2>2. Pending = MaxParts
    BY <1>10 DEF OneShot, PhotoRead, ExtractPart, Raises, Transcribed, Route, Data, Pending
  <2> QED BY <1>3, <2>1, <2>2, SmallerCharge
<1>11. CASE Clean
  <2>1. UNCHANGED inputs /\ Pending = MaxParts
    BY <1>11 DEF Clean, Pending
  <2>2. CASE BreaksOff(lane) /\ UNCHANGED usage
    BY <1>4, <2>1, <2>2 DEF BreaksOff
  <2>3. CASE usage' = usage + (IF lane.record THEN lane.parts ELSE 1)
             /\ lane' = [lane EXCEPT !.at = "reply"]
    <3>1. lane'.at = "reply"
      BY <1>1, <2>3 DEF Lane
    <3>2. Pending' = 0
      BY <3>1 DEF Pending
    <3> QED BY <1>1, <2>1, <2>3, <3>2 DEF Budget
  <2> QED BY <1>11, <2>2, <2>3 DEF Clean
<1>12. CASE ReplySent \/ Show
  <2>1. UNCHANGED <<usage, inputs>>
    BY <1>12 DEF ReplySent, Show
  <2>2. lane'.at \in {"show", "idle"}
    <3>1. CASE EndOf(lane)
      BY <3>1 DEF EndOf, Idle
    <3>2. CASE ReplySent /\ ~EndOf(lane)
      BY <3>2 DEF ReplySent, BreaksOff, Left, Idle
    <3>3. CASE Show /\ ~EndOf(lane)
      BY <1>1, <3>3 DEF Show, BreaksOff, Lane
    <3> QED BY <1>12, <3>1, <3>2, <3>3
  <2>3. Pending' = 0
    BY <2>2 DEF Pending
  <2> QED BY <2>1, <2>3, SmallerCharge
<1>13. CASE Crash
  <2>1. Pending' = 0 /\ UNCHANGED usage /\ inputs' = 0
    BY <1>13 DEF Crash, EndOf, Idle, Pending
  <2> QED BY <2>1, SmallerCharge
<1>14. CASE InputArrives \/ InputAnswered \/ Midnight
  <2>1. Pending' = Pending
    BY <1>14 DEF InputArrives, InputAnswered, Midnight, Pending
  <2> QED BY <1>1, <1>14, <2>1 DEF InputArrives, InputAnswered, Midnight, Budget
<1>15. CASE PressHint \/ PressEdit \/ UNCHANGED vars
  BY <1>2, <1>15 DEF PressHint, PressEdit, vars
<1> QED BY <1>5, <1>6, <1>7, <1>8, <1>9, <1>10, <1>11, <1>12, <1>13, <1>14, <1>15 DEF Next

\* The day runs over its limit by less than the parts of a message and the
\* inputs under way (messages.py:551, :566; ingest.py:181).
THEOREM LimitHolds == Spec => []OvershootBounded
<1>1. Init => Budget
  BY DEF Init, Idle, Budget, Pending
<1>2. LaneInv /\ Budget => OvershootBounded
  BY DEF LaneInv, TypeOK, Budget, Pending, OvershootBounded
<1> QED BY <1>1, <1>2, BudgetStep, LaneCorrect, PTL DEF Spec

-----------------------------------------------------------------------------
(* Nothing is entered twice, unless a handling broke off.                  *)

\* A thing that did not break off is in one place at most: nowhere, with a user
\* who knows of it, in the queue and in the lane that says so, or in the books
\* and in the lane that is to show it.
Nowhere(t) == entries[t] = 0 /\ queue[t] = 0
Known(t) == t \in settled /\ t \notin lane.said /\ entries[t] + queue[t] <= 1
Waits(t) == t \in lane.said /\ lane.at = "queued" /\ entries[t] = 0 /\ queue[t] = 1
Shows(t) == t \in lane.said /\ lane.made[t] \in NewEntry /\ entries[t] = 1 /\ queue[t] = 0
OnePlace(t) == t \in broken \/ Nowhere(t) \/ Known(t) \/ Waits(t) \/ Shows(t)
InOnePlace ==
  /\ lane.said \cap settled = {}
  /\ \A t \in Thing : OnePlace(t)

LEMMA NothingToShow == ASSUME LaneInv, lane.made = Nothing PROVE ToShow(lane) = {}
BY DEF ToShow, Nothing, LaneInv, TypeOK, Lane

\* The handling ends, and the user knows what he was shown or told.
LEMMA EndPlace ==
  ASSUME LaneInv, InOnePlace, UNCHANGED <<entries, queue>>, broken \subseteq broken',
         NEW l, l.said = lane.said, l.out = lane.out, EndOf(l),
         lane.at = "queued" => l.heard = "later" \/ lane.said \subseteq broken',
         ToShow(lane) = {} \/ Unshown(lane) \subseteq broken'
  PROVE  InOnePlace'
<1>1. lane'.said = {}
  BY DEF EndOf, Idle
<1>2. ASSUME NEW t \in Thing PROVE OnePlace(t)'
  <2>1. CASE t \in broken \/ Nowhere(t)
    BY <2>1 DEF OnePlace, Nowhere
  <2>2. CASE Known(t)
    BY <1>1, <2>2 DEF OnePlace, Known, EndOf
  <2>3. CASE Waits(t)
    BY <1>1, <2>3 DEF OnePlace, Waits, Known, EndOf
  <2>4. CASE Shows(t)
    <3>1. CASE t \in lane.out
      BY <1>1, <2>4, <3>1 DEF OnePlace, Known, Shows, EndOf
    <3>2. CASE t \notin lane.out
      <4>1. t \in Unshown(lane) /\ t \in ToShow(lane)
        BY <2>4, <3>2 DEF Shows, Unshown, ToShow, NewEntry
      <4> QED BY <4>1 DEF OnePlace
    <3> QED BY <3>1, <3>2
  <2> QED BY <2>1, <2>2, <2>3, <2>4 DEF InOnePlace, OnePlace
<1> QED BY <1>1, <1>2 DEF InOnePlace

\* The lane goes on, or stays.
LEMMA SamePlace ==
  ASSUME InOnePlace, UNCHANGED <<entries, queue, settled, broken>>,
         lane'.said = lane.said, lane'.made = lane.made,
         lane.at = "queued" => lane'.at = "queued"
  PROVE  InOnePlace'
<1>1. ASSUME NEW t \in Thing PROVE OnePlace(t)'
  <2>1. OnePlace(t)
    BY DEF InOnePlace
  <2> QED BY <2>1 DEF OnePlace, Nowhere, Known, Waits, Shows
<1> QED BY <1>1 DEF InOnePlace

\* A new message: what it says is nowhere yet, unless it broke off.
LEMMA ReceivedPlace ==
  ASSUME LaneInv, InOnePlace, lane = Idle, UNCHANGED <<entries, settled, broken>>, Received
  PROVE  InOnePlace'
<1>1. lane.said = {} /\ lane'.said \cap settled = {} /\ queue \in [Thing -> Times]
  BY DEF Idle, Received, LaneInv, TypeOK
<1>2. ASSUME NEW t \in Thing PROVE OnePlace(t)'
  <2>1. CASE t \in broken
    BY <2>1 DEF OnePlace
  <2>2. CASE Known(t)
    <3>1. t \notin lane'.said /\ queue'[t] = queue[t]
      BY <1>1, <2>2 DEF Known, Received
    <3> QED BY <2>2, <3>1 DEF Known, OnePlace
  <2>3. CASE Nowhere(t)
    <3>1. CASE lane'.at = "queued" /\ t \in lane'.said
      <4>1. queue'[t] = 1
        BY <2>3, <3>1 DEF Nowhere, Received, Upto2
      <4> QED BY <2>3, <3>1, <4>1 DEF Nowhere, Waits, OnePlace
    <3>2. CASE ~(lane'.at = "queued" /\ t \in lane'.said)
      <4>1. queue'[t] = queue[t]
        BY <3>2 DEF Received
      <4> QED BY <2>3, <4>1 DEF Nowhere, OnePlace
    <3> QED BY <3>1, <3>2
  <2> QED BY <1>1, <2>1, <2>2, <2>3 DEF InOnePlace, OnePlace, Waits, Shows
<1> QED BY <1>1, <1>2 DEF InOnePlace

\* The flush: what waits in the queue is known to the user, and what the lane
\* says is nowhere yet.
LEMMA FlushPlace ==
  ASSUME LaneInv, InOnePlace, FlushDone \/ FlushFails
  PROVE  InOnePlace'
<1>1. /\ lane \in Lane /\ lane.at = "flush" /\ lane.made = Nothing /\ lane.said \subseteq Thing
      /\ entries \in [Thing -> Times] /\ queue \in [Thing -> Times]
  BY DEF FlushDone, FlushFails, LaneInv, TypeOK, LaneShape, Before, Lane
<1>2. PICK new \in SUBSET Thing, used \in Nat, q \in [Thing -> Times] :
        /\ Enter(new, queue) /\ Admit(lane, used, q)
        /\ UNCHANGED settled /\ broken \subseteq broken'
        /\ \/ q = [t \in Thing |-> 0] /\ \A t \in new : queue[t] > 0
           \/ q = queue /\ new \subseteq broken'
  <2>1. CASE FlushDone
    <3>1. [t \in Thing |-> 0] \in [Thing -> Times] /\ usage + 1 \in Nat
      BY DEF Times, LaneInv, TypeOK
    <3> QED BY <2>1, <3>1 DEF FlushDone
  <2>2. CASE FlushFails
    BY <1>1, <2>2 DEF FlushFails, LaneInv, TypeOK
  <2> QED BY <2>1, <2>2
<1>3. /\ Taken(lane)
      /\ lane'.at = "status" => queue' = q
      /\ lane'.at = "queued" =>
           queue' = [t \in Thing |-> IF t \in lane.said THEN Upto2(q[t] + 1) ELSE q[t]]
  BY <1>1, <1>2, TakenShape
<1>4. ASSUME NEW t \in Thing PROVE OnePlace(t)'
  <2>1. CASE t \in broken
    BY <1>2, <2>1 DEF OnePlace
  <2>2. CASE t \in new /\ q = queue
    BY <1>2, <2>2 DEF OnePlace
  <2>3. CASE Known(t) /\ ~(t \in new /\ q = queue) /\ t \notin broken
    <3>1. t \notin lane'.said /\ queue'[t] = q[t] /\ t \in settled'
      BY <1>2, <1>3, <2>3 DEF Known, Taken
    <3>2. entries'[t] = IF t \in new THEN Upto2(entries[t] + queue[t]) ELSE entries[t]
      BY <1>2 DEF Enter
    <3>3. entries[t] \in 0..2 /\ queue[t] \in 0..2 /\ entries[t] + queue[t] <= 1
      BY <1>1, <2>3 DEF Times, Known
    <3>4. Upto2(entries[t] + queue[t]) = entries[t] + queue[t]
      BY <3>3 DEF Upto2
    <3>5. entries'[t] + queue'[t] <= 1
      BY <1>2, <2>3, <3>1, <3>2, <3>3, <3>4
    <3> QED BY <3>1, <3>5 DEF Known, OnePlace
  <2>4. CASE Nowhere(t) /\ ~(t \in new /\ q = queue)
    <3>1. t \notin new \/ queue[t] = 0
      BY <2>4 DEF Nowhere
    <3>2. entries'[t] = 0
      BY <1>2, <2>4, <3>1 DEF Enter, Nowhere, Upto2
    <3>3. q[t] = 0
      BY <1>2, <2>4 DEF Nowhere
    <3>4. CASE lane'.at = "queued" /\ t \in lane.said
      <4>1. queue'[t] = 1
        BY <1>3, <3>3, <3>4 DEF Upto2
      <4> QED BY <1>3, <3>2, <3>4, <4>1 DEF Taken, Waits, OnePlace
    <3>5. CASE ~(lane'.at = "queued" /\ t \in lane.said)
      <4>1. queue'[t] = 0
        BY <1>3, <3>3, <3>5 DEF Taken
      <4> QED BY <3>2, <4>1 DEF Nowhere, OnePlace
    <3> QED BY <3>4, <3>5
  <2>5. ~Waits(t) /\ ~Shows(t)
    BY <1>1 DEF Waits, Shows, Nothing, NewEntry
  <2> QED BY <2>1, <2>2, <2>3, <2>4, <2>5 DEF InOnePlace, OnePlace
<1> QED BY <1>2, <1>3, <1>4 DEF InOnePlace, Taken

\* A call of the model: what it makes something of was nowhere yet.
LEMMA MadePlace ==
  ASSUME LaneInv, InOnePlace, UNCHANGED <<queue, settled, broken>>,
         NEW part \in SUBSET Thing, NEW m \in [Thing -> Outcome], Made(part, m)
  PROVE  InOnePlace'
<1>1. \A t \in Thing : entries'[t] = IF t \in part /\ m[t] \in NewEntry
                                       THEN Upto2(entries[t] + 1) ELSE entries[t]
  BY Committed DEF Made, LaneInv
<1>2. lane'.said = lane.said /\ lane.at # "queued"
  BY DEF Made
<1>3. ASSUME NEW t \in Thing PROVE OnePlace(t)'
  <2>1. CASE t \in broken
    BY <2>1 DEF OnePlace
  <2>2. CASE Known(t)
    <3>1. t \notin part
      BY <2>2 DEF Known, Made
    <3> QED BY <1>1, <1>2, <2>2, <3>1 DEF Known, OnePlace
  <2>3. CASE Nowhere(t)
    <3>1. CASE t \in part /\ m[t] \in NewEntry
      <4>1. entries'[t] = 1
        BY <1>1, <2>3, <3>1 DEF Nowhere, Upto2
      <4>2. lane'.made[t] = m[t] /\ t \in lane'.said
        BY <3>1 DEF Made
      <4> QED BY <2>3, <3>1, <4>1, <4>2 DEF Shows, Nowhere, OnePlace
    <3>2. CASE ~(t \in part /\ m[t] \in NewEntry)
      <4>1. entries'[t] = 0 /\ queue'[t] = 0
        BY <1>1, <2>3, <3>2 DEF Nowhere
      <4> QED BY <4>1 DEF Nowhere, OnePlace
    <3> QED BY <3>1, <3>2
  <2>4. CASE Shows(t)
    <3>1. t \notin part /\ lane'.made[t] = lane.made[t]
      BY <2>4 DEF Shows, Made, NewEntry
    <3> QED BY <1>1, <1>2, <2>4, <3>1 DEF Shows, OnePlace
  <2> QED BY <1>2, <2>1, <2>2, <2>3, <2>4 DEF InOnePlace, OnePlace, Waits
<1> QED BY <1>2, <1>3 DEF InOnePlace

LEMMA BreakPlace ==
  ASSUME LaneInv, InOnePlace, UNCHANGED <<entries, queue>>, BreaksOff(lane), lane.at # "queued"
  PROVE  InOnePlace'
BY EndPlace DEF BreaksOff

LEMMA OnePlaceStep == LaneInv /\ InOnePlace /\ [Next]_vars => InOnePlace'
<1> SUFFICES ASSUME LaneInv, InOnePlace, [Next]_vars PROVE InOnePlace'
  OBVIOUS
<1>1. lane \in Lane
  BY DEF LaneInv, TypeOK
<1>2. CASE UNCHANGED <<lane, entries, queue, settled, broken>>
  BY <1>2, SamePlace
<1>3. CASE Receive
  <2>1. lane = Idle /\ UNCHANGED <<entries, settled, broken>>
    BY <1>3 DEF Receive, mind
  <2> QED BY <1>2, <1>3, <2>1, ReceivedShape, ReceivedPlace
<1>4. CASE QueuedReply
  <2>1. lane.at = "queued" /\ UNCHANGED <<entries, queue>> /\ ToShow(lane) = {}
    BY <1>4, NothingToShow DEF QueuedReply, books, LaneInv, LaneShape, Before
  <2>2. CASE EndOf(lane) /\ broken' = broken \cup lane.said
    BY <2>1, <2>2, EndPlace
  <2>3. CASE EndOf([lane EXCEPT !.heard = "later"]) /\ UNCHANGED broken
    <3> DEFINE l == [lane EXCEPT !.heard = "later"]
    <3>1. l.said = lane.said /\ l.out = lane.out /\ l.heard = "later"
      BY <1>1 DEF Lane
    <3>2. EndOf(l)
      BY <2>3
    <3> HIDE DEF l
    <3> QED BY <2>1, <2>3, <3>1, <3>2, EndPlace
  <2> QED BY <1>4, <2>2, <2>3 DEF QueuedReply
<1>5. CASE StatusSent /\ EndOf(lane)
  <2>1. /\ lane.at = "status" /\ UNCHANGED <<entries, queue, broken>> /\ ToShow(lane) = {}
    BY <1>5, NothingToShow DEF StatusSent, books, LaneInv, LaneShape, Before
  <2> QED BY <1>5, <2>1, EndPlace
<1>6. CASE OneShot \/ PhotoRead \/ ExtractPart \/ Raises
  <2>1. UNCHANGED <<queue, settled, broken>>
    BY <1>6 DEF OneShot, PhotoRead, ExtractPart, Raises, mind
  <2>2. CASE /\ UNCHANGED <<entries, questions>> /\ lane'.said = lane.said
             /\ lane'.made = lane.made
             /\ lane.at \in {"oneshot", "hear", "read", "route", "data", "extract"}
    BY <2>1, <2>2, SamePlace
  <2> QED BY <1>6, <2>1, <2>2, MadeShape, MadePlace
<1>7. CASE Transcribed \/ Route \/ Data \/ (StatusSent /\ ~EndOf(lane))
  <2>1. UNCHANGED <<entries, queue, settled, broken>>
    BY <1>7 DEF Transcribed, Route, Data, StatusSent, books, mind
  <2>2. Moved
    BY <1>7, MovedShape
  <2> QED BY <2>1, <2>2, SamePlace DEF Moved, Before
<1>8. CASE BreaksOff(lane) /\ UNCHANGED <<entries, queue>> /\ lane.at # "queued"
  BY <1>8, BreakPlace
<1>9. CASE Failing
  BY <1>8, <1>9 DEF Failing, books
<1>10. CASE Clean
  <2>1. lane.at = "clean" /\ UNCHANGED <<entries, queue>>
    BY <1>10 DEF Clean, books
  <2>2. CASE lane' = [lane EXCEPT !.at = "reply"] /\ UNCHANGED <<settled, broken>>
    <3>1. lane'.said = lane.said /\ lane'.made = lane.made
      BY <1>1, <2>2 DEF Lane
    <3> QED BY <2>1, <2>2, <3>1, SamePlace
  <2> QED BY <1>8, <1>10, <2>1, <2>2 DEF Clean
<1>11. CASE ReplySent
  <2>1. lane.at = "reply" /\ UNCHANGED <<entries, queue>>
    BY <1>11 DEF ReplySent, books
  <2>2. ASSUME NEW reply,
               lane' = [Left(lane, lane.made) EXCEPT !.at = "show", !.heard = reply,
                                                     !.answer = lane.answer],
               UNCHANGED <<settled, broken>>
        PROVE  InOnePlace'
    <3>1. lane'.said = lane.said /\ lane'.made = lane.made
      BY <2>2 DEF Left, Idle
    <3> QED BY <2>1, <2>2, <3>1, SamePlace
  <2> QED BY <1>8, <1>11, <2>1, <2>2 DEF ReplySent
<1>12. CASE Show
  <2>1. lane.at = "show" /\ UNCHANGED <<entries, queue>>
    BY <1>12 DEF Show, books
  <2>2. ASSUME NEW t, lane' = [lane EXCEPT !.out = @ \cup {t}], UNCHANGED <<settled, broken>>
        PROVE  InOnePlace'
    <3>1. lane'.said = lane.said /\ lane'.made = lane.made
      BY <1>1, <2>2 DEF Lane
    <3> QED BY <2>1, <2>2, <3>1, SamePlace
  <2>3. CASE ToShow(lane) = {} /\ EndOf(lane) /\ UNCHANGED broken
    BY <2>1, <2>3, EndPlace
  <2> QED BY <1>8, <1>12, <2>1, <2>2, <2>3 DEF Show
<1>13. CASE Crash
  <2>1. EndOf(lane) /\ UNCHANGED <<entries, queue>>
    BY <1>13 DEF Crash, books
  <2>2. CASE lane.at = "queued"
    <3>1. ToShow(lane) = {}
      BY <2>2, NothingToShow DEF LaneInv, LaneShape, Before
    <3>2. broken' = broken \cup lane.said
      BY <1>13, <2>2 DEF Crash
    <3> QED BY <2>1, <3>1, <3>2, EndPlace
  <2>3. CASE lane.at # "queued"
    <3>1. broken' = broken \cup Unshown(lane)
      BY <1>13, <2>3 DEF Crash
    <3> QED BY <2>1, <2>3, <3>1, EndPlace
  <2> QED BY <2>2, <2>3
<1>14. CASE PressHint \/ PressEdit \/ InputArrives \/ InputAnswered \/ Midnight \/ UNCHANGED vars
  BY <1>2, <1>14 DEF PressHint, PressEdit, InputArrives, InputAnswered, Midnight, vars, books, mind
<1> QED BY <1>3, <1>4, <1>5, <1>6, <1>7, <1>9, <1>10, <1>11, <1>12, <1>13, <1>14, FlushPlace
    DEF Next

\* What the user says again only where he has reason to is entered twice only
\* if its handling broke off (messages.py:350, :567, :586; pending.py:113-131).
THEOREM TwiceNeedsBreak == Spec => []TwiceOnlyAfterBreak
<1>1. Init => InOnePlace
  BY DEF Init, Idle, InOnePlace, OnePlace, Nowhere
<1>2. LaneInv /\ InOnePlace => TwiceOnlyAfterBreak
  <2> SUFFICES ASSUME LaneInv, InOnePlace, NEW t \in Thing, entries[t] > 1 PROVE t \in broken
    BY DEF TwiceOnlyAfterBreak
  <2>1. entries[t] \in 0..2 /\ queue[t] \in 0..2
    BY DEF LaneInv, TypeOK, Times
  <2>2. OnePlace(t)
    BY DEF InOnePlace
  <2> QED BY <2>1, <2>2 DEF OnePlace, Nowhere, Known, Waits, Shows
<1> QED BY <1>1, <1>2, OnePlaceStep, LaneCorrect, PTL DEF Spec
=============================================================================
