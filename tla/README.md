# Pocket CFO: specification, model checking and proofs

Pocket CFO (`bot/`) is a Telegram bot that keeps a household's expenses, debts
and monthly goals. This directory holds TLA+ modules translated from its source,
the TLC configurations that check them on small instances, and proofs that TLAPS
checks for every value of the constants. Paths below are relative to the
repository.

## 1. Inventory

### How the program executes

One asyncio loop, one SQLite file. Every `repo` function opens a connection and
commits (`bot/db/repo.py`), so a commit is atomic, and what lies between two
`await`s runs without interleaving. Three kinds of tasks interleave at awaits:

* the **Telegram lane**: updates are handled one at a time (`main.py:70-76`);
* the **jobs** of the JobQueue (`main.py:96-125`): `morning_job` (10:00),
  `nightly_reminder` (22:00), `nightly_profile_update`, card delivery every five
  minutes, the purge of old requests (04:00);
* one task for **each HTTP POST** of the phone's shortcut (`ingest/server.py`).

The container restarts whenever it dies (`docker-compose.yml:2-6`), so a crash
may come between any two commits and at any await.

### Components

| Component | State it keeps | Operations | Correct when |
|---|---|---|---|
| Shortcut ingest (`services/ingest.py`, `ingest/server.py`) | `ingest_requests`, `ingest_tokens` | claim, process, finish, release, purge | a retry is not recorded twice, an answer is true, no reservation stays |
| Pending queue (`services/pending.py`) | `pending_inputs`, audio files | queue over the quota, flush by morning job or first message | what was accepted is recorded once |
| Cards and duplicate flags (`handlers/cards.py`, `services/duplicates.py`) | `card_*_message_id`, `duplicate_of` | send, refresh, retry, flag, delete, release | every row gets a card; flags point to rows that exist, one to one |
| Goals and alerts (`services/goals.py`) | `goals` | create/update, edit, evaluate and alert | no alert twice, none recorded that nobody got |
| Households (`services/household.py`) | `households`, `household_members`, `household_invites`, `household_id` of every entry | authorize, invite, accept, join | nobody's ledger is stranded, no right without invitation |
| Ledger rows (`services/transactions.py`, `debts.py`, `clarify.py`, `reminders.py`, button edits) | `transactions`, `debts`, `pending_clarifications`, `user_data` | create, update, settle, reopen, delete, ask, answer, remind | status fits the row, asked once, answered once |
| Pure rules (`vision.normalize`, `duplicates.find_match`, `money`, `reports`, `ratelimit`, `splitter`, `tags`, `jalali`) | only the limiter's deque | see section 3 | reference definitions agree |
| Message pipeline (`handlers/messages.py`, `llm/agent.py`) | `user_data` (hint, open edit), the message being handled | rate limit, edit, hint, flush, quota, transcription, routing, extraction part by part, cards | nothing done unsaid, nothing said undone, nothing twice |
| Router, prompts, tools, client (`llm/`) | - | calls of the model; sums for its answers | an answer agrees with the report |
| Memory, profile, ledger context (`services/memory.py`, `ledger.py`) | `messages`, `profiles` | append, count, summarize, picture of the ledger | the day's coupons are counted; what was asked about is in sight |
| Commands, keyboards, card texts, start-up, audio | - | formatting, I/O | - |

### How they interact

The three kinds of tasks share the tables. A text goes `messages._process` -> flush
of what waits -> quota check (over: `pending.enqueue`) -> `router.route` -> for each
part `agent.converse` (awaits the model, then commits rows through `transactions`,
`debts`, `goals`, `clarify`) -> `duplicates.flag_new` -> reply -> cards and questions ->
`goals.evaluate_and_alert`. A shortcut request does the same in its own
task, for expenses only; the morning job does it for the queue. The reminder job
reads drafts of every user, waits for Telegram and marks them.

### What is hard here

State read before an await and used after it (queue, quota, goal levels, the list
of undelivered cards, the reminder's list); several commits per handler with a
restart between them (clarification, invitation, row and status, delete and
release); Telegram refusing calls, or taking them although they failed; the
phone's retries; boundaries of amounts, months and windows. `PROJECT.json`
lists each at its line under `hazards`, with the property that would catch it.

## 2. The modules

| Module | Models | State and actions |
|---|---|---|
| `Ingest` | `services/ingest.py` with `ingest_requests` and the quota | one stage per connection (`idle`, `llm`, `notify`, `cards`); an action per stretch between awaits |
| `OnceOnlyInbox` | the promise of `schema.sql:92-93`, abstractly | a disposition per request, and what was acknowledged; `Ingest` implements it |
| `PendingQueue` | `services/pending.py`, quota branch of `messages.py`, batch commits of `agent.py` | two flushing tasks (lane, morning job), the HTTP door that only adds |
| `CardDelivery` | `handlers/cards.py`, delivery job, `duplicate_of`, delete button | senders `lane`, `http`, `job`, each with its list and its card in flight |
| `Conversation` | `handlers/messages.py`, extraction of `agent.py` | the lane's message with its stage (what it awaits); an action per stretch between awaits; the books as counts per thing the user wants recorded |
| `GoalAlerts` | `services/goals.py` | several evaluation tasks, each with the rows it read; one action per write |
| `Household` | `services/household.py`, `repo.join_household`, invitation wizard | one action per handler; accepting is two commits |
| `Records` | `transactions.py`, `debts.py`, `clarify.py`, `reminders.py`, button edits | one action per handler, with the cut between its commits as a disjunct |
| `Money` | `utils/money.py`, sums of `services/reports.py` | operators |
| `Duplicates` | `services/duplicates.py` | operators |
| `Photo` | `normalize` of `llm/vision.py` | operators |
| `Answers` | sums of the assistant's tools (`llm/tools.py`), open debts (`services/debts.py`) | operators |
| `LedgerView` | picture of the ledger (`services/ledger.py`), the reminder's rows | operators |
| `RateLimit`, `Splitter`, `Tags` | the functions of that name | operators |
| `Rules` | the rules above as steps from an input to an output | an input, well-formed (`WellFormed`: what the callers can pass), and the output; one action per rule |
| `MCRules`, `MCConversation`, `MCGoalAlerts`, `MCHousehold` | inputs and symmetry for TLC | - |
| `IngestProofs`, `PendingQueueProofs`, `CardDeliveryProofs`, `ConversationProofs`, `GoalAlertsProofs`, `HouseholdProofs`, `RecordsProofs`, `RulesProofs` | theorems | - |

Names follow the source. Variables marked `history` in their declaration are not
in the program: they remember what a property is about (how often something was
committed, whether two flushes overlapped) and no guard of a code action reads
them, except where a bound is named.

Abstractions: an input, a message or a name is a model value or an id. What the
language model answers is a nondeterministic choice over the shapes its schema
allows. Of an expense `Records` keeps which obligatory fields are filled. In
`CardDelivery` all rows have one amount and one day, the case in which flags
bite; which rows match in general is `Duplicates`. In `Conversation` the contents of a
message are *things*, and one call of the model makes one outcome of each (a row, an
update, an update that names a row and changes nothing of it, a debt, a goal, a question,
a deletion, nothing); the model does not make two
of one thing, and the user does not say again what he was told is recorded or kept.
A flush in `Conversation` is one step that records all, or fails part-way: its
interleavings are in `PendingQueue`. In `LedgerView` the lines on goals are left out.

In `Photo` amounts are whole numbers (the source also takes decimals of foreign
currencies), and the totals that a receipt prints agree with its lines: a receipt that
prints net lines under a gross `items_total` (`vision.py:350`) is not among the inputs. In
`Splitter` texts are clauses without blanks; a comma at which the code cuts is dropped
with the blanks, and the cut that its pattern makes inside a number like `250,000`
(`splitter.py:39`) is not modelled. `Tags` starts from whole similarity scores, suggestions
with an empty name left out; the search itself is the code's loop with its strict
comparison and its early exit at 100. `BuildReport` gives the sums in rials; the `// 10` with
which the reports print them (`reports.py:79, 95, 110, 216`) rounds each printed line
down, so that printed parts may fall short of the printed total by a toman each.

Amounts are hundredths, where the source has doubles, which tell hundredths apart up to
ten trillions; whole numbers it keeps as integers of any size. Doubles matter where they are
multiplied, added and cut: `GrandTotals` (`tools.py:298-311`) is the set of whole tomans
that the doubles may come to, the exact one or, with a fraction among the summands, one
less when the exact sum is whole. Rates are whole tomans. What a card shows has two
decimals (`money.py:94`): `Written` rounds, and TLC tries it on amounts in eighths of
hundredths, the proof on any fractions. In `Answers` a category is a known tag or none, and the
fallback that searches a category's name in titles is left out.

## 3. The runs

Passing runs (TLC explores the whole state space of the instance):

| Run | Question | Bounds, and why they are enough |
|---|---|---|
| `Ingest_door` | Is a request recorded twice only after an error the client was told of? Do reservations end? Does the quota overshoot by more than the tasks in flight? Is the abstract inbox implemented? | 2 requests, 2 connections: a retry beside its original, and another request; quota 2; exceptions and restarts after either kind of commit (expense or queue row); `MaxRecords` 2, "twice" needs no more |
| `PendingQueue_flush` | Does every accepted input get recorded, or is its sender told? Once, if nothing was disturbed? | one text, one voice, one photo (the code treats each kind apart), coupons of weight 1, quota 2; downloads, model, inserts and Telegram may fail, the process restart |
| `GoalAlerts_month` | Do alerts and recorded levels agree? Is an active goal complete? | 1 goal (no action relates two) whose topic may change between 2, 2 tasks, 2 members, so that a call may fail for one and not for the other; spending 0, 4, 5 of a limit of 5 (levels 0, 80, 100), limits set and unset; calls that raise though delivered, and restarts, on; no evaluation starts after an alert was sent twice |
| `CardDelivery_cards` | Do flags point to rows that exist, one to one? Is the card that a row remembers its own? Does every shortcut row that nobody deletes get its card? | 3 rows (an original, two doubles), batches of 2, 2 messages (two cards of one row, or cards of two), refusals, lost replies and restarts on |
| `Conversation_lane` | Is everything entered shown, everything promised done, nothing entered twice unless a handling broke off? Does a hint reach only the next message? How far does the quota overshoot? | 2 things (one part fails while the other is in the books), limit 1, up to 2 parts, 1 shortcut input beside the lane, every failure on; counts stop at 2, which is "twice" |
| `Household_invites` | Can joining, leaving, restarting lose a ledger, strand a household, lock somebody out or give rights away? | 3 users (one off the allow list), 3 tokens, 3 households, 1 entry |
| `Records_ledger` | Do status, reminders and answered questions stay right across all writers and restarts? | 1 expense, 1 debt, 1 question, amounts 0 and 1 (zero, partial and over-payment all occur), 1 party; an answer may be an expense, a debt or a payment on one |
| `Rules_inputs` | Do the pure rules meet their reference definitions? | 166758 inputs: amounts at and around the 2% and 0.3% tolerances, rows dated up to the day after they were recorded, shown amounts with fractions below a hundredth, photos of up to 3 lines with a limit of 2, months at both ends of a year, requests 0 to 4 seconds apart with a window of 2, texts of up to 4 clauses, two debts unpaid, paid and overpaid, questions with and without a rate for dollars, two suggestions against three tags of up to two names that score below and above the threshold and 100, 3 rows or 2 debts against a ledger picture of 1 row of today, 2 drafts and 1 debt |

`CHECK_DEADLOCK FALSE` is set where a bounded run stops when its ids, messages or
inputs are used up; `Conversation_lane` has no such bound and checks deadlock.

The type invariants of six modules are proved (section 4) and no longer run; the
same holds for `CardDelivery`. Every other property of a passing run is both run and,
unless it is about liveness, proved.

Runs that end in a violation, each a disagreement between the code and what the
repository says of it (`findings` in `PROJECT.json`):

| Run | What it shows |
|---|---|
| `Ingest_already` | a retry that meets the first request still in work, or cut off by a restart, is told that it is recorded already although nothing is |
| `PendingQueue_late_row` | a row queued while a flush waits is deleted by `clear_pending` unread |
| `CardDelivery_orphan` | the delivery job and the handler send two cards for one row; deleting leaves one with live buttons |
| `Household_ledger` | whoever leaves a household of several takes the others' entries with him |

### Fairness

Awaits end: the model and Telegram have timeouts, so each task's next step is
weakly fair. Jobs come back on schedule: weak fairness of their start. Where the
outcome of a call is Telegram's or the model's choice, success is strongly fair:
"not refused for ever". Users are never fair: they may stop at any time. So
`Ingest` (`ReservationEnds`) needs only weak fairness of tasks and of the purge;
`PendingQueue` (`QueueDrains`) needs strong fairness of the morning job's message
and of its batch; `CardDelivery` (`CardArrives`) and `Records`
(`IncompleteIsAskedFor`) of a send of the job.

### Conditions that the properties state

Some properties hold only outside a window the code leaves open, and say so with
a history variable:

* `OnceUndisturbed`: no two flushes at once, none broken off (`disturbed`).
* `AcceptedIsKept`: `slipped` holds the inputs lost in one of the three ways the code
  loses them: queued while another task was in a flush, a voice or photo a flush could
  not read, an input a flush read and nothing came of.
* `AlertOnce` and `LevelNeverDrops`: no two evaluations at once (`overlap`); and for each
  member one repetition per alert that arrived without its level being recorded, as all
  calls raised or the process died (`lost`).
* `ActiveIsComplete`: an active goal without a limit only where a restart fell between the two
  commits of its last edit (`torn`); `StatusIsTrue` and `AnswerBecomesOneRow`
  likewise (`torn`), and an answer becomes one row or one payment on a row.
* `OriginalsExist`: a restart between delete and release (`cut`).
* `RemindedOnce`: Telegram's answer was lost or a restart fell among the marks (`doubtful`).
* `NothingHidden` and `TwiceOnlyAfterBreak`: things committed by a handling that raised or
  was cut off before it showed them (`broken`).
* `NoEmptyPromise`: when the user hears "recorded", the message changed the books, or it
  named a record and changed nothing of it, or the words came with the answer to his
  question, which no filter sees.
* `DoublesAreFound`: `LeftOut`, the rows that the query over the day of recording does not
  read, which are rows dated after that day.
* `AmountsRoundTrip`: up to half a hundredth. `AnswersAgree`: up to one toman where
  fractions are added, besides what the report cuts off.

Each condition names exactly that window; the mutants in `PROJECT.json` show that the
properties fail when the code's own guard is taken away. Three more limits of what is said:
`ImplementsInbox` is silent about the answer "recorded already", which `Ingest_already` is
about; `IncompleteIsAskedFor` accepts a reminder from before the row was last complete; `SplitKeepsAll` counts what remains of the text without the commas.

### Divergences seen while modelling, without a run of their own

* `ingest.py:165-168` releases the reservation after any exception, also one after
  the commit: the retry records again (`TwiceOnlyAfterError` is the weaker truth;
  `schema.sql:92-93` promises more).
* `ingest.py:179` / `messages.py`: the quota is checked before and charged after
  the await; tasks in flight overshoot it (`OvershootBounded` bounds by how much).
* `pending.py:85-92` skips a voice it cannot read, then clears the queue and says
  that everything was recorded (`pending.py:128`). So it does when the model's answer cannot
  be parsed (`agent.py:84-102`) or an insert is refused (`agent.py:139-140`).
* `ingest.py:182-185`: an exception between the queue row and the end of the reservation
  gives the request back; the retry queues it again.
* `messages.py:437-441` says that nothing is called recorded unless it happened; an update
  that names a row and changes none of its fields returns an id (`transactions.py:120-123`,
  `debts.py:144-147`, `goals.py:96-99`) and is reported as recorded, and the answer to
  a question (`messages.py:482, 619`) passes no filter at all.
* `goals.py:163-172`: an alert that Telegram delivered but whose call raised, for every
  member, is not recorded and comes again.
* `goals.py:97, 107` (and `messages.py:708, 714`): a restart between the two commits leaves an
  active goal without a limit.
* `duplicates.py:96-97` says that an expense is never dated after its recording;
  `vision.py:233-235` accepts tomorrow. Such a row is not read for a new row dated exactly
  one window after it, and the double goes unnoticed.
* `tools.py:298-311`: the assistant's total truncates a sum of doubles: 1.15 dollars at a rate of 100
  are 114 tomans. `net_toman` (`debts.py:177-186`) likewise loses a toman.
* `money.py:94`: a card shows 0.0005 of a currency as 0.00, and so it is read back.
* `reports.py:79, 95, 110, 216`: printed parts may fall short of the printed total.
* `pending.py:68`: two flushes may read the same queue.
* `goals.py:172`: of two evaluations the slower one may write a lower level over a
  higher one only if its read was older; `LevelNeverDrops` states what still holds.
* `goals.py:57`: an item without a limit makes an active goal a draft again.
* `duplicates.py:120-121` says that pairing large amounts first keeps a near row from
  taking another's exact pair; a larger new row (100) can still take the exact
  pair (98) of a smaller one.
* `cards.py:97`: a card rendered before an await may warn of a row deleted since.
* `callbacks.py:211-213`: reopening a debt of amount 0 leaves it settled, while the
  user is told that it is open again.
* `repo.py:948-958`: `find_open_debt` also finds drafts, so a payment may go to one.
* `callbacks.py:46-49`: a second edit prompt overwrites the state of the first, whose
  cancel button then cancels the second.
* `repo.py:496-500` says that the drafts in the ledger picture are exactly the rows the
  reminder asked about; `needs_later_completion` is never reset, so the reminder also
  asks about complete rows, which from the next day on are not in the picture.
* `messages.py:51` tells the user of a long text that everything was recorded
  although a part of it yielded nothing.
* `messages.py:55-56` promises that a menu hint is attached to the next message; an
  open edit swallows that message, and one that is queued drops the hint.
* `pending.py:98-143` records the questions and deletion requests of queued inputs but
  asks none of them, and says that all is recorded (128).
* Queued inputs of the shortcut are extracted like chat messages, debts and goals
  included, against `ingest.py:9-10`.
* `ingest.py:88-96`: a request without an id gets one from its content and the minute;
  a repetition in the next minute is recorded again, against the comment there.
* `main.py` starts the profile update at 22:30 and it reads what was said since
  midnight: what is said after 22:30 is in no profile.
* `messages.py:145-155`: the notice that the quota is nearly used up compares with the
  use read at the start; coupons of a flush or the shortcut are never announced.
* `client.py`: `run_chain` goes to the next model on an empty answer, `chat` returns it.
* A row cut between write and status (`transactions.py:120-122`) that is complete but
  still `draft` is in no reminder (`repo.py:488`) and in no report until touched.

## 4. The proofs

TLAPS checks the eight proof modules without assumptions beyond the named `ASSUME`s
of the component: for any users, tokens, entries, requests, connections, things, rows
and messages, with and without crashes and refusals. In each but `RulesProofs`, `TypeCorrect` is the
type invariant; the other theorems follow from an inductive invariant with one lemma
per action.

`ConversationProofs` (`HintReachesOne`, `PromiseIsKept`, `EverythingIsShown`,
`LimitHolds`, `TwiceNeedsBreak`). `LaneInv` says of each stage what the handling holds
by then: nothing is made before the extraction, the parts still to be extracted do not
overlap and are as many as the limit leaves.
`ShownOrToCome`: a thing in the books or asked about is shown, still to be shown by
this handling, or broken off. `InOnePlace`: unless broken off, a thing is in the
queue, in the books or in the lane once - the same thing in two places is what a
repetition would enter twice. `Budget`: used coupons, those of the lane's parts and
of the shortcut's inputs under way, together, stay in the bound.

`CardDeliveryProofs` (`OriginalsCorrect`, `OneToOneCorrect`, `CardsCorrect`). Marks are
made from a table that may have changed since the rows were recorded, so `OneToOne`
alone is not inductive: `Prefix` (ids in use are the first ones), `BatchFirst` (a
row's batch is not numbered after it, so a later row cannot fall into an earlier
batch) and `LaneFits` (the rows the lane holds are live and are all of their batch)
are needed. That a deleted original is still named needs `lane` and `cut` to remember
it. `CardsFit` carries `RememberedCardWorks`: the messages a deletion holds are of the
row it deleted.

`PendingQueueProofs` (`KeptCorrect`, `OnceCorrect`). What was accepted is in the queue, in
the hands of a flush, recorded or `slipped` (`Kept`, `Covered`), where a flush has recorded its batch before it comes to its photos
(`BatchFirst`). `Once`: nothing is recorded that was not sent (`Tidy`), and while
flushes neither overlapped nor broke off, one flush is at work and what it, the queue
and the lane hold is not in the ledger yet (`Orderly`).

`GoalAlertsProofs` (`ActiveCorrect`, `DeliveredCorrect`, `AlertsCorrect`, `LevelsNeverDrop`).
`GoalInv` keeps rows that were not created free of levels and alerts, and has the two
commits of an edit: what is active without a limit is `torn`. `Solo`: without
overlap one evaluation is alerting, and the levels it compares with are the table's;
`Recorded`: every alert that is not among the `lost` is covered by the level in the row,
and there is one of them.

`RecordsProofs` (`StatusCorrect`, `RemindersCorrect`, `AnswersCorrect`). `Sound` ties the
status to the fields or to a cut writer, `Reminded` the mark to the messages that
arrived, `Asked` the question's row to how often the answer was entered, as a row or as a
payment.

`HouseholdProofs`. The inductive invariant is `IInv`: `TypeOK`; `Fresh` (households
from `next` on have no owner, member, entry or invitation: without it a newly made
household could inherit rows); `NoEntryStranded`; `HouseholdsArePeopled`;
`StrangersOwnNothing`. The parts need each other: that a household is deleted only
when nobody is left in it keeps entries readable only because joining first moves
the entries, and the owner's household must be his alone if he is off the allow
list for the move to be of his rows only. One lemma per action and conjunct; the
theorems `TypeCorrect`, `NoEntryStrandedCorrect`, `HouseholdsArePeopledCorrect`,
`StrangersOwnNothingCorrect` follow, and the action properties `AccessIsKept` and
`RightComesFromInvite` from the invariant of the state before the step.

`IngestProofs`. `IInv`: `TypeOK`; `Reserved` (a request that a connection is working
on has a row in `processing`); `SoleServer` (two connections never work on one
request - a second claim finds the row); `NotYet` and `NotReleasedLate` (what a
stage says about the commits so far, expense or queue row, and about errors told); `CleanOnce` (without a
late error a request has at most one disposition). `OnceOnlyCorrect` is the
statement for a program in which no exception follows a commit:
`~LateFailure => []OnceOnly`, restarts included. `OvershootCorrect` has an invariant of
its own, `PromisedBounded`: what is used plus what the waiting connections will still
add stays below the quota plus the number of connections. `InboxImplemented` is the
refinement `Spec => ImplementsInbox`: the mapping takes the rows and the answers to the
disposition of a request; `Agree` says that what clients were told is what it has,
`Underway` that a request at work is still open, and each kind of step maps to
a step of `OnceOnlyInbox` or to a stutter.

`RulesProofs` (`DoublesCorrect`, `SpendingCorrect`, `TotalsCorrect`, `PeriodCorrect`,
`AmountsCorrect`, `ReportCorrect`, `AnswersCorrect`, `WindowCorrect`, `SplitCorrect`,
`BestTagCorrect`): the ten properties of `Rules_inputs` for every set of well-formed
inputs. The inductive invariant `ResultInv` says that the output is what the rule makes
of the input; then each theorem is a lemma on data. The assumptions are
`NamesAssumption` (tags, members and foreign currencies are finite sets, and their
names are not the reserved ones), `NoRowAssumption` (what stands for "no row" is
none), `InputsAssumption` (the inputs are well-formed) and those of the limits
(`RateLimitAssumption`, `LedgerViewAssumption` and the like). How the data is reasoned about:

* *Recursion.* A theorem of the library that takes an operator cannot be instantiated,
  so induction is over sets: a set of numbers that has 0 and, with each number, the next
  has them all (`NatInd`, `StrongInd`), and the same for finite sets. A recursive
  function is shown to exist on each initial stretch and to be unique there
  (`RecursiveExists`, `RecursiveUnique`), so that its defining equation may be used; a
  fold is the last value of such a function.
* *Sums* over finite sets are shown to be additive over disjoint sets, monotone and equal
  when their terms are; the report adds up because its parts partition the
  transactions, and "loses less than one unit per row" is a comparison of two sums
  term by term.
* *Order.* `flag_new` and the ledger picture take rows in an order. A finite set with a
  strict total order is in one-to-one correspondence with its ranks; that makes
  `ByAmount` a sequence of all new rows, and what is claimed grows along it.
* *Window.* The deque is at any time the allowed requests not older than the window
  (times do not decrease), hence its length is the count in `WindowIsBounded`.
* *Cutting.* What a naive split returns, put end to end, is the text, by induction on the
  number of cuts.
* *The tag search.* The state of the loop after each tag and name is an invariant over
  their order: the best so far beats all before it, and an early exit has found 100, which
  nothing beats.
* *Amounts.* Rounding moves a value by at most half a hundredth, and a sum of fractions
  cut to whole tomans by at most one. A number is the number its groups of three spell, by strong induction on it;
  the point of what is written is the only decimal character and has two digits
  after it, or there is none and no group after the first is shorter than three.

The proofs found that the first form of `BalanceAgrees` was false outside the instance
that TLC had run on: `net_toman` (`debts.py:177-186`) cuts fractions off, and the bound
has to allow one unit for each debt with a fraction; and that an unknown amount, row
and match must not be confused with a value (`NoRowAssumption`).

Model-checked only: liveness (`ReservationEnds`, `QueueDrains`, `CardArrives`,
`IncompleteIsAskedFor`), which is beyond the prover.

## 5. Not modelled

Formatting and wording, menus and the texts of cards; prompts and the chain of models
behind a call (an answer or a failure is a choice where the model is called); string
similarity and regular expressions; HTTP parsing and tokens (one lookup, one commit);
profiles and the text of the history; debts of the other kind, currencies and tags of
a row in `Records`; the calendar library; migrations of the schema, start-up,
configuration and audio conversion. The schedule of the jobs is the fairness of the
modules whose actions they are.

## 6. Plan

Order: what can lose or double a user's money first, then what can mislead him. Done:
`Ingest` with `OnceOnlyInbox`, `PendingQueue`, `CardDelivery`, `GoalAlerts`, `Household`,
`Records`, the pure rules, `Conversation`, and the proofs of all safety properties that
the runs check.

What is left: an abstract ledger ("every input accepted is recorded, refused or still
queued") that `PendingQueue` and `Conversation` together implement; `Records` with two
debts per party and the other kind; the day's profile against the hour of its job.
