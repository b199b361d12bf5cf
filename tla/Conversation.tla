---------------------------- MODULE Conversation ----------------------------
(***************************************************************************)
(* From a message in Telegram to the user's knowledge of what became of it *)
(* (bot/handlers/messages.py, with the extraction of bot/llm/agent.py).    *)
(*                                                                         *)
(* The lane handles one message at a time.  Its stage names what it awaits:*)
(* Telegram, the model, or the flush of the queue.  A message says some    *)
(* things; of each of them one call of the model makes an Outcome.  What   *)
(* the model answers is a choice, but it does not make two of one thing.   *)
(* The user is a reasonable one: a thing that he was told is recorded or   *)
(* kept, or of which he got a card or a question, he does not say again;   *)
(* any other he may.  The shortcut's inputs run beside the lane; of them   *)
(* only the coupons matter here (Ingest).  The nightly and morning jobs    *)
(* are in Records and PendingQueue.                                        *)
(***************************************************************************)
EXTENDS Naturals, FiniteSets, Sequences

CONSTANTS
  Thing,         \* what the user wants to have in the books
  DailyLimit,    \* coupons a day (settings.daily_llm_limit)
  MaxParts,      \* parts a long text is cut into (settings.max_parts)
  MaxInputs,     \* bound: shortcut inputs that await the model at once
  TelegramFails, \* may Telegram refuse a call?
  ModelFails,    \* may a call of the model, or what follows it, raise?
  CanCrash       \* may the process restart at an await?

ASSUME LimitAssumption ==
  DailyLimit \in Nat \ {0} /\ MaxParts \in Nat \ {0} /\ MaxInputs \in Nat
ASSUME FaultAssumption ==
  TelegramFails \in BOOLEAN /\ ModelFails \in BOOLEAN /\ CanCrash \in BOOLEAN

VARIABLES
  lane,      \* the message being handled
  hinted,    \* user_data[INTENT_HINT_KEY] is set
  awaiting,  \* user_data[AWAITING_KEY] is set: the next text is an edit
  usage,     \* coupons used today
  inputs,    \* inputs of the shortcut that passed the quota and are not charged yet
  queue,     \* pending_inputs: how many times a thing waits in it
  entries,   \* how often a thing was entered in the books (2: twice or more)
  questions, \* things with a row in pending_clarifications made for a message
  shown,     \* history: things whose card or question reached the chat
  settled,   \* history: things the user has no reason to say again
  broken,    \* history: things committed by a handling that broke off unshown
  served     \* history: a message was taken since the hint's button was pressed

books == <<queue, entries, questions>>
mind == <<shown, settled, broken>>
vars == <<lane, hinted, awaiting, usage, inputs, books, mind, served>>

Kind == {"text", "voice", "longVoice", "photo"}
\* A touch is an update that names a record and changes nothing of it.
Outcome == {"none", "row", "update", "touch", "debt", "goal", "clarify", "delete"}
NewEntry == {"row", "debt", "goal"}
Change == NewEntry \cup {"update"}
\* Whether the answer to a question about the books is empty, or says of
\* something that it was recorded.
Answer == {"none", "fact", "claim"}
Question == {"clarify", "delete"}
Stage == {"idle", "flush", "queued", "status", "oneshot", "hear", "read", "route", "data",
          "extract", "failing", "clean", "reply", "show"}
Reply == {"silence", "done", "talk", "nothing", "later"}
Times == 0..2

Nothing == [t \in Thing |-> "none"]
Idle == [at |-> "idle", kind |-> "text", said |-> {}, left |-> <<>>, made |-> Nothing,
         out |-> {}, parts |-> 0, record |-> FALSE, answer |-> "none", claims |-> FALSE,
         heard |-> "silence"]

Init ==
  /\ lane = Idle
  /\ hinted = FALSE /\ awaiting = FALSE /\ served = FALSE
  /\ usage = 0 /\ inputs = 0
  /\ queue = [t \in Thing |-> 0]
  /\ entries = [t \in Thing |-> 0]
  /\ questions = {} /\ shown = {} /\ settled = {} /\ broken = {}

-----------------------------------------------------------------------------
(* What is written to the books.                                           *)

Upto2(n) == IF n > 2 THEN 2 ELSE n
Enter(ts, times) ==
  entries' = [t \in Thing |-> IF t \in ts THEN Upto2(entries[t] + times[t]) ELSE entries[t]]
Once == [t \in Thing |-> 1]

\* The commits of one extraction (_run_extraction, converse_image), which
\* makes made[t] of each thing t of the part.
Commit(made, part) ==
  /\ Enter({t \in part : made[t] \in NewEntry}, Once)
  /\ questions' = questions \cup {t \in part : made[t] = "clarify"}

Readings(part, outcomes) ==
  {made \in [Thing -> outcomes \cup {"none"}] : \A t \in Thing \ part : made[t] = "none"}

\* What a handling has committed and not shown.
Unshown(l) == {t \in l.said \ l.out : l.made[t] \in NewEntry \cup {"clarify"}}

\* What matters of a message once nothing more is asked of the model.
Left(l, made) == [Idle EXCEPT !.said = l.said, !.made = made]

\* The handler returns or raises: the user takes stock of what he got.
EndOf(l) ==
  /\ lane' = Idle
  /\ settled' = (settled \ l.said) \cup
       {t \in l.said : t \in l.out \/ l.heard \in {"done", "later"}}

BreaksOff(l) ==
  /\ EndOf(l)
  /\ broken' = broken \cup Unshown(l)

-----------------------------------------------------------------------------
(* Taking a message (handle_text, handle_voice, handle_photo).             *)

\* Mutant of Admit: the quota is read once, before the flush.
AdmitAlways(l, used, q) == lane' = [l EXCEPT !.at = "status"] /\ queue' = q

\* The quota decides between the model and the queue.
Admit(l, used, q) ==
  \/ /\ used >= DailyLimit
     /\ queue' = [t \in Thing |-> IF t \in l.said THEN Upto2(q[t] + 1) ELSE q[t]]
     /\ lane' = [l EXCEPT !.at = "queued"]
  \/ /\ used < DailyLimit
     /\ queue' = q
     /\ lane' = [l EXCEPT !.at = "status"]

\* What waits in the queue is recorded first, if the quota allows it.
Process(l) ==
  /\ served' = TRUE
  /\ \/ /\ usage < DailyLimit /\ \E t \in Thing : queue[t] > 0
        /\ lane' = [l EXCEPT !.at = "flush"]
        /\ UNCHANGED queue
     \/ /\ usage >= DailyLimit \/ \A t \in Thing : queue[t] = 0
        /\ Admit(l, usage, queue)

\* The lane with a new message; one that answers a record is for the books.
Message(kind, said, refers) == [Idle EXCEPT !.kind = kind, !.said = said, !.record = refers]

RateLimited == UNCHANGED <<lane, queue, served>>

\* A text answers the open edit, if there is one; else it is processed, and
\* takes the hint with it.
HandleText(said, refers) ==
  \/ /\ awaiting
     /\ awaiting' \in BOOLEAN
     /\ UNCHANGED <<lane, hinted, queue, served>>
  \/ /\ ~awaiting
     /\ UNCHANGED awaiting
     /\ \/ RateLimited /\ UNCHANGED hinted
        \/ /\ Process(Message("text", said, refers))
           /\ hinted' = FALSE

\* A voice cancels the edit; one that is too long changes nothing.
HandleVoice(kind, said, refers) ==
  /\ awaiting' = FALSE
  /\ \/ RateLimited /\ UNCHANGED hinted
     \/ /\ Process(Message(kind, said, refers))
        /\ hinted' = FALSE

\* Mutant of HandlePhoto: the hint is left for the next message.
HandlePhotoKeepsHint(said) ==
  /\ awaiting' = FALSE
  /\ UNCHANGED hinted
  /\ RateLimited \/ Process(Message("photo", said, FALSE))

\* A photo cancels the edit, and the hint is not for it.
HandlePhoto(said) ==
  /\ awaiting' = FALSE
  /\ hinted' = FALSE
  /\ RateLimited \/ Process(Message("photo", said, FALSE))

Receive ==
  /\ lane = Idle
  /\ \E said \in (SUBSET (Thing \ settled)) \ {{}} :
       \/ \E refers \in BOOLEAN :
            \/ HandleText(said, refers)
            \/ \E kind \in {"voice", "longVoice"} : HandleVoice(kind, said, refers)
       \/ HandlePhoto(said)
  /\ UNCHANGED <<usage, inputs, entries, questions, mind>>

\* The buttons "debt" and "goal" of the menu leave a hint for the next message.
PressHint ==
  /\ lane = Idle
  /\ hinted' = TRUE
  /\ served' = FALSE
  /\ UNCHANGED <<lane, awaiting, usage, inputs, books, mind>>

\* The edit buttons of the cards ask for a text; another button cancels that.
PressEdit ==
  /\ lane = Idle
  /\ awaiting' = ~awaiting
  /\ UNCHANGED <<lane, hinted, usage, inputs, books, mind, served>>

-----------------------------------------------------------------------------
(* The queue (services/pending.py; PendingQueue has its details).          *)

\* The batch is recorded, the queue cleared, one coupon charged.  New entries
\* are shown unless the report fails; its questions, which nobody asks, are
\* left out.
FlushDone ==
  /\ lane.at = "flush"
  /\ \E new \in SUBSET {t \in Thing : queue[t] > 0} :
       /\ Enter(new, queue)
       /\ \/ shown' = shown \cup new /\ UNCHANGED broken
          \/ TelegramFails /\ broken' = broken \cup new /\ UNCHANGED shown
  /\ usage' = usage + 1
  /\ Admit(lane, usage', [t \in Thing |-> 0])
  /\ UNCHANGED <<hinted, awaiting, inputs, questions, settled, served>>

\* It fails, before or after a commit: the queue is kept.  The exception is
\* swallowed, and the message goes on.
FlushFails ==
  /\ lane.at = "flush" /\ (ModelFails \/ TelegramFails)
  /\ \E new \in SUBSET {t \in Thing : queue[t] > 0} :
       /\ Enter(new, queue)
       /\ broken' = broken \cup new
  /\ Admit(lane, usage, queue)
  /\ UNCHANGED <<hinted, awaiting, usage, inputs, questions, shown, settled, served>>

\* "Do not worry, it is kept until the morning" arrives, or not.
QueuedReply ==
  /\ lane.at = "queued"
  /\ \/ EndOf([lane EXCEPT !.heard = "later"]) /\ UNCHANGED broken
     \/ TelegramFails /\ EndOf(lane) /\ broken' = broken \cup lane.said
  /\ UNCHANGED <<hinted, awaiting, usage, inputs, books, shown, served>>

-----------------------------------------------------------------------------
(* Understanding the message (_process, _process_photo).                   *)

\* Where the understanding begins; what is heard goes on as a text.
FirstCall == [text |-> "route", voice |-> "oneshot", longVoice |-> "hear", photo |-> "read"]

\* The status message is sent outside the try: if Telegram refuses it, the
\* handler ends there.
StatusSent ==
  /\ lane.at = "status"
  /\ \/ /\ lane' = [lane EXCEPT !.at = FirstCall[lane.kind], !.kind = "text"]
        /\ UNCHANGED settled
     \/ TelegramFails /\ EndOf(lane)
  /\ UNCHANGED <<hinted, awaiting, usage, inputs, books, shown, broken, served>>

\* Mutant of HeardOut: only new expenses count.
HeardOutRowsOnly(l) == l.record \/ \E t \in l.said : l.made[t] = "row"

\* Something came of a short voice, or it answers a record: no router.
HeardOut(l) == l.record \/ \E t \in l.said : l.made[t] # "none"

\* A short voice is transcribed and extracted by one call.
OneShot ==
  /\ lane.at = "oneshot"
  /\ \E made \in Readings(lane.said, Outcome) :
       /\ Commit(made, lane.said)
       /\ LET heard == [lane EXCEPT !.made = made] IN
          lane' = IF HeardOut(heard)
                    THEN [heard EXCEPT !.at = "clean", !.parts = 1, !.record = TRUE]
                    ELSE [lane EXCEPT !.at = "route"]
  /\ UNCHANGED <<hinted, awaiting, usage, inputs, queue, mind, served>>

\* A long voice is only transcribed.
Transcribed ==
  /\ lane.at = "hear"
  /\ lane' = [lane EXCEPT !.at = "route"]
  /\ UNCHANGED <<hinted, awaiting, usage, inputs, books, mind, served>>

\* The handling gives up; the status message is still to be edited.
Fails(l, made) == [Left(l, made) EXCEPT !.at = "failing"]

\* A photo is read by one call, which makes expenses only, unless it turns out
\* to be too large.
PhotoRead ==
  /\ lane.at = "read"
  /\ \/ lane' = Fails(lane, Nothing) /\ UNCHANGED <<entries, questions>>
     \/ \E made \in Readings(lane.said, {"row"}) :
          /\ Commit(made, lane.said)
          /\ lane' = [lane EXCEPT !.at = "clean", !.made = made, !.parts = 1, !.record = TRUE]
  /\ UNCHANGED <<hinted, awaiting, usage, inputs, queue, mind, served>>

\* Mutant of ToRecord: the router's promise is passed on.
ToRecordAsAsked(refers, wants, claims) == refers \/ wants

\* A message that answers a record is for the books, and so is one that the
\* router promises to act upon: the router itself does nothing.
ToRecord(refers, wants, claims) == refers \/ wants \/ claims

\* A text is whole, or cut into parts; what the cutting drops is in no part.
Partings(said) ==
  {parts \in UNION {[1..n -> SUBSET said] : n \in 1..MaxParts} :
     /\ Len(parts) = 1 => parts[1] = said
     /\ \A i, j \in 1..Len(parts) : i # j => parts[i] \cap parts[j] = {}}

\* From the router's decision: to the extraction, unless the text is too long,
\* or to the answer.
Decided(l) ==
  IF l.record
    THEN {Fails(l, Nothing)} \cup
         {[l EXCEPT !.at = "extract", !.left = parts] : parts \in Partings(l.said)}
    ELSE {[l EXCEPT !.at = "clean"]}

Route ==
  /\ lane.at = "route"
  /\ \E wants, query, claims \in BOOLEAN :
       LET l == [lane EXCEPT !.record = ToRecord(lane.record, wants, claims),
                             !.claims = claims]
       IN  IF query THEN lane' = [l EXCEPT !.at = "data"] ELSE lane' \in Decided(l)
  /\ UNCHANGED <<hinted, awaiting, usage, inputs, books, mind, served>>

\* The answer to a question about the books; nobody looks at its words.
Data ==
  /\ lane.at = "data"
  /\ \E answer \in Answer : lane' \in Decided([lane EXCEPT !.answer = answer])
  /\ UNCHANGED <<hinted, awaiting, usage, inputs, books, mind, served>>

\* One part after the other, each committed before the next is asked for.
ExtractPart ==
  /\ lane.at = "extract"
  /\ \E made \in Readings(Head(lane.left), Outcome) :
       /\ Commit(made, Head(lane.left))
       /\ lane' = [lane EXCEPT
            !.made = [t \in Thing |-> IF t \in Head(lane.left) THEN made[t] ELSE @[t]],
            !.left = Tail(@),
            !.parts = @ + 1,
            !.at = IF Tail(lane.left) = <<>> THEN "clean" ELSE "extract"]
  /\ UNCHANGED <<hinted, awaiting, usage, inputs, queue, mind, served>>

\* A call of the model fails; or what the extraction does after its commits.
Raises ==
  /\ ModelFails
  /\ \/ /\ lane.at \in {"oneshot", "hear", "read", "route", "data", "extract"}
        /\ lane' = Fails(lane, lane.made)
        /\ UNCHANGED <<entries, questions>>
     \/ /\ lane.at \in {"oneshot", "read", "extract"}
        /\ LET part == IF lane.at = "extract" THEN Head(lane.left) ELSE lane.said IN
           \E made \in Readings(part, {"row", "clarify"}) :
             /\ Commit(made, part)
             /\ lane' = Fails(lane, [t \in Thing |-> IF t \in part THEN made[t] ELSE lane.made[t]])
  /\ UNCHANGED <<hinted, awaiting, usage, inputs, queue, mind, served>>

\* "Try again", or not even that; what was committed is not shown.
Failing ==
  /\ lane.at = "failing"
  /\ BreaksOff(lane)
  /\ UNCHANGED <<hinted, awaiting, usage, inputs, books, shown, served>>

-----------------------------------------------------------------------------
(* The answer and the cards (_emit, and the end of _process).              *)

\* A touched record counts, too.
Changed(l) == \E t \in l.said : l.made[t] \in Change \cup {"touch"}
Asks(l) == \E t \in l.said : l.made[t] \in Question

\* The reply follows what was done, whatever the model says; where nothing was
\* done, a reply of the model that claims an action is not passed on.  The answer
\* from the books goes with it as it is.
Replies(l) ==
  IF l.answer = "claim" THEN {"done"}
  ELSE IF ~l.record THEN {IF l.claims THEN "done" ELSE "talk"}
  ELSE IF Changed(l) THEN IF l.parts > 1 THEN {"done"} ELSE {"done", "talk"}
  ELSE (IF l.parts > 1 THEN {} ELSE {"talk"}) \cup
       {IF Asks(l) \/ l.answer = "fact" THEN "silence" ELSE "nothing"}

\* The status message is deleted, outside the try; then the coupons are charged.
Clean ==
  /\ lane.at = "clean"
  /\ \/ /\ usage' = usage + (IF lane.record THEN lane.parts ELSE 1)
        /\ lane' = [lane EXCEPT !.at = "reply"]
        /\ UNCHANGED <<settled, broken>>
     \/ TelegramFails /\ BreaksOff(lane) /\ UNCHANGED usage
  /\ UNCHANGED <<hinted, awaiting, inputs, books, shown, served>>

\* Notes and the notice about the capacity may go with it, or alone.
ReplySent ==
  /\ lane.at = "reply"
  /\ \/ /\ \E reply \in Replies(lane) :
             lane' = [Left(lane, lane.made) EXCEPT !.at = "show", !.heard = reply,
                                                     !.answer = lane.answer]
        /\ UNCHANGED <<settled, broken>>
     \/ TelegramFails /\ BreaksOff(lane)
  /\ UNCHANGED <<hinted, awaiting, usage, inputs, books, shown, served>>

\* Mutant of ToShow: no question is asked.
ToShowCards(l) == {t \in l.said \ l.out : l.made[t] \in Change \cup {"touch"}}

ToShow(l) == {t \in l.said \ l.out : l.made[t] # "none"}

\* Cards of expenses first, then their updates, debts, questions, deletions, goals.
Rank == [row |-> 1, update |-> 2, touch |-> 2, debt |-> 3, clarify |-> 4, delete |-> 5, goal |-> 6]
First(l) ==
  {t \in ToShow(l) : \A u \in ToShow(l) : Rank[l.made[t]] <= Rank[l.made[u]]}

Show ==
  /\ lane.at = "show"
  /\ \/ \E t \in First(lane) :
          \/ /\ lane' = [lane EXCEPT !.out = @ \cup {t}]
             /\ shown' = shown \cup {t}
             /\ UNCHANGED <<settled, broken>>
          \/ TelegramFails /\ BreaksOff(lane) /\ UNCHANGED shown
     \/ ToShow(lane) = {} /\ EndOf(lane) /\ UNCHANGED <<shown, broken>>
  /\ UNCHANGED <<hinted, awaiting, usage, inputs, books, served>>

-----------------------------------------------------------------------------
(* Beside the lane.                                                        *)

\* The process restarts: what it held in memory is gone.
Crash ==
  /\ CanCrash /\ lane.at # "idle"
  /\ EndOf(lane)
  /\ broken' = broken \cup (IF lane.at = "queued" THEN lane.said ELSE Unshown(lane))
  /\ hinted' = FALSE /\ awaiting' = FALSE
  /\ inputs' = 0
  /\ UNCHANGED <<usage, books, shown, served>>

\* The shortcut reads the quota before it asks the model ...
InputArrives ==
  /\ usage < DailyLimit
  /\ inputs < MaxInputs
  /\ inputs' = inputs + 1
  /\ UNCHANGED <<lane, hinted, awaiting, usage, books, mind, served>>

\* ... and is charged when the model has answered.
InputAnswered ==
  /\ inputs > 0
  /\ inputs' = inputs - 1
  /\ usage' \in {usage, usage + 1}
  /\ UNCHANGED <<lane, hinted, awaiting, books, mind, served>>

Midnight ==
  /\ usage # 0
  /\ usage' = 0
  /\ UNCHANGED <<lane, hinted, awaiting, inputs, books, mind, served>>

Next ==
  \/ Receive \/ PressHint \/ PressEdit
  \/ FlushDone \/ FlushFails \/ QueuedReply
  \/ StatusSent \/ OneShot \/ Transcribed \/ PhotoRead
  \/ Route \/ Data \/ ExtractPart \/ Raises \/ Failing
  \/ Clean \/ ReplySent \/ Show
  \/ Crash \/ InputArrives \/ InputAnswered \/ Midnight

Spec == Init /\ [][Next]_vars

-----------------------------------------------------------------------------
(* Properties.                                                             *)

Lane == [at : Stage, kind : Kind, said : SUBSET Thing,
         left : Seq(SUBSET Thing), made : [Thing -> Outcome], out : SUBSET Thing,
         parts : Nat, record : BOOLEAN, answer : Answer,
         claims : BOOLEAN, heard : Reply]

TypeOK ==
  /\ lane \in Lane
  /\ hinted \in BOOLEAN /\ awaiting \in BOOLEAN /\ served \in BOOLEAN
  /\ usage \in Nat /\ inputs \in Nat
  /\ queue \in [Thing -> Times] /\ entries \in [Thing -> Times]
  /\ questions \subseteq Thing /\ shown \subseteq Thing /\ settled \subseteq Thing
  /\ broken \subseteq Thing

\* A promise of the router or of the extraction that nothing came of never reaches
\* the user (messages.py:433, :604, :470): if he hears "recorded", then this message
\* changed the books, or it named a record and changed nothing of it, or the words
\* came with the answer to his question, which no filter sees (messages.py:482, :619).
NoEmptyPromise ==
  lane.at = "show" /\ lane.heard = "done" =>
    \/ \E t \in lane.said : lane.made[t] \in Change
    \/ \E t \in lane.said : lane.made[t] = "touch"
    \/ lane.answer = "claim"

\* A user who says a thing again only when he has reason to gets it into the
\* books twice only if a handling that had committed it broke off before he
\* saw it: a reply, a card, the status message or the flush's report failed, a
\* later part or call raised, or the process died.
TwiceOnlyAfterBreak == \A t \in Thing : entries[t] > 1 => t \in broken

\* When the lane is at rest, every entry has its card in the chat and every
\* question was asked, save those of a handling that broke off; the questions
\* of the queue, which nobody asks (pending.py:130-142), are left out.
NothingHidden ==
  lane = Idle =>
    /\ \A t \in Thing : entries[t] > 0 => t \in shown \cup broken
    /\ questions \subseteq shown \cup broken

\* The hint of a menu button reaches one message and no later one, across
\* photos, voices, edits, refusals and restarts (messages.py:280, :545).
HintIsFresh == hinted => ~served

\* However flush, parts and shortcut interleave with the reading of the quota,
\* the day never runs further over its limit than by the parts of one message
\* and the inputs that were waiting.
OvershootBounded == usage < DailyLimit + MaxParts + MaxInputs
=============================================================================
