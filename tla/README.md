# Schedula: a TLA+ verification project

Schedula plans university timetables. Lecturers write constraints in prose, a
pipeline turns them into rules, secretaries edit them and ask for a schedule; a
solver service computes one for a semester and reports the constraints it had to
break; a notification service tells lecturers what happened. The parts talk
through PostgreSQL and RabbitMQ. This directory holds TLA+ modules that model
these parts, TLC configurations that check them on small instances, and proofs
that TLAPS checks.

Contents: [inventory](#inventory) · [modules](#modules) ·
[runs](#runs-and-what-they-show) · [bounds](#bounds) · [fairness](#fairness) ·
[proofs](#proofs) · [findings](#where-code-and-documents-disagree) ·
[observations](#further-observations) · [not modelled](#what-is-not-modelled) ·
[plan](#plan)

## Inventory

Paths are under `src/SchedulaBackend/src`, `src/SchedulaDeployment` or
`src/SchedulaFrontend/src`.

| Component | Code | State | Operations | Interacts with |
|---|---|---|---|---|
| Solver service | `solver/src/main.py` | `pending_batch`, timer task, `batch_lock`, deliveries in the iterator | `_handle_message`, `_batch_timer`, `_process_batch`, `_solve_semester` | request and response queues, database, CSP solver |
| Solver database access | `solver/src/db.py` | rows of `schedules`, `courses_schedules`, `breaking_constraints` | read a semester, resolve the draft, replace sessions, clean and save breaking constraints | PostgreSQL, shared with the Backend |
| CSP solver | `solver/src/solver.py` | of one call: assumptions left, conflicts found | feasibility and pre-flight checks, model, loop over unsatisfiable cores, answer | CP-SAT; called synchronously by the service |
| Solve requests | `routes/external/secretary/{schedules,manage_constraints}.py`, `scheduler.py` | rows of `schedules` and `solver_runs` | trigger, edit, nightly job, metadata update, manual sessions | request queue, notification queue |
| Solver runs | `repositories/solver_runs.py` | rows of `solver_runs` | create, complete by semester | consumer of the response queue |
| Queue routes | `routes/rabbitmq.py` | none | publish any body, take a response | both queues |
| Stored constraints | `routes/external/lecturer/constraints.py`, `repositories/constraints.py` | rows of `lecturer_constraints` | preview, save, delete, override, edit | text pipeline, breaking constraints, solve requests |
| Breaking constraints | `repositories/breaking_constraints.py` | rows of `breaking_constraints` | recompute, create, mark as seen, delete | the solver writes and cleans the same rows |
| Report pages | `routes/external/secretary/{breaking_constraints,fairness}.py`, `repositories/fairness.py` | none | lists of broken constraints, unseen count, full report, fairness of each lecturer | computed from the rows of constraints and of the report |
| Text pipeline | `llm_pipeline`, `utils/llm_process.py` | of one preview: items, negated sentences, atomics | atomize, clarify, negate, extract, prioritise, deduplicate, look for conflicts | language model; progress sockets |
| Validators | `validators`, `llm_pipeline/**/{rule_validator,conflict_detector,deduplicator}.py` | none | rule check, duplicates, overlaps, the editor's check | text pipeline, edit route |
| Pipeline progress | `websocket/manager.py`, `routes/ws.py`, the browser's hook | connections and last stage per session | connect, disconnect, broadcast | text pipeline |
| Period notices | `notifications/period_events.py`, `repositories/{period_notification_events,semester_period_state,semesters}.py`, `routes/external/secretary/semester.py` | event rows, last seen status, the semester | half-hourly check, update of a semester | notification queue |
| Lecturer events | `notifications/lecturer_events.py` | none | three publishers that swallow errors | notification queue |
| Notification service | `notification_service/src/main.py`, `notifiers` | the message in hand | normalise, dispatch to urls or recipients, two channels | notification queue, SMTP, Telegram |
| Telegram linking | `notification_service/src/{main.py,notifiers/telegram.py,repositories}` | rows of `user_notifications` with tokens | start, status, link by token or by credentials | the Backend writes the same rows |
| Schedule page | `pages/Schedule/SecretarySchedulePage.jsx` with its grid and dialogs | of one page: status, grid, polling, dialogs, drafts and originals of an edit, calls under way | open, poll, generate, refresh, edit, drop, save, discard | dashboard and schedule routes, other pages, the solver's results |
| Others | Excel import, authentication, dashboards and set-up routes, development routes, other pages of the frontend, deployment | | | see `PROJECT.json` |

What is hard in this code:

* **Interleaving at every await.** The solver service is one asyncio process
  whose message handler cancels a timer task that may be in the middle of
  solving. The Backend's routes and jobs read, decide and write in separate
  statements without a transaction; so do the notification service's.
* **Shared tables.** The solver rewrites `breaking_constraints` from rules it
  read before it solved, while an edit recomputes the same rows; saves in two
  tabs delete and create the same lecturer's rows.
* **Redelivery.** Requests and notices are acknowledged after the work is done.
  A crash or a lost connection hands them out again, while copies of a request
  may still be in the service's memory.
* **Answers without a name.** A response carries the semester and not the run,
  so the Backend completes whichever run is the latest pending one.
* **Stale reads.** The draft to fill, the published flag, the status of a
  semester and the rules of a row are read before an await and used after it.
* **Check-then-act on rows**: the empty draft, the event row, the link token,
  the manual session.
* **Several readers of one rule.** The pipeline's validator, the editor's, the
  solver and the report each have their own idea of what an atomic says.
* **Answers that come late** to a page that has gone on: its calls overlap, each
  with what its handler read when it began, and other pages and the solver write
  what it is editing.
* **A client that comes late** to a preview under way, and one that leaves in
  the middle of a broadcast.

What makes each modelled component correct:

* *Solver service*: no request is lost; one is acknowledged only when a result
  at least as new as its edit is stored and answered; an answer is repeated only
  when the request was delivered anew; every request is served in the end.
* *CSP solver*: a solved answer is a timetable that breaks no block; a refusal
  is right; the atomics it blames explain the failure.
* *Requests and runs*: pending runs match outstanding work; a completed run is
  final; a solved run points at a stored solution; runs complete.
* *Stored constraints and their report*: what a lecturer saved last is stored;
  the original kept beside an edit is the lecturer's; when everything has come
  to rest and the rules as they are have been solved, no page finds fault with
  the schedule; whenever it has come to rest, the fairness page and the list of
  broken constraints tell the same of each lecturer.
* *Text pipeline*: an unavailability the model extracted ends up in the rules, or
  the result of the pipeline has a warning or an error for it; so has a result with
  two rules that overlap; the secretary's editor accepts what a preview made; stages
  come in order, whatever fails. (The answer to the lecturer has no room for
  warnings, see [observations](#further-observations).)
* *Progress*: every client hears every stage; one that joins late hears the
  current one; nothing is left of a finished session.
* *Notices*: a notice marked published was sent; repeats are bounded; what is due
  is sent as long as the day lasts; the status last seen catches up.
* *Delivery and links*: what was acknowledged as finished was tried on every
  channel it needed; nobody is told twice without a crash; a link works when a page
  says so, and once for each time that its token was put in a row.
* *Schedule page*: a save stores what its secretary moved and nothing else.

## Modules

| Module | Models | EXTENDS / uses |
|---|---|---|
| `SolverService` | the solver's consumer, batch, timer and settlement, with broker, crashes and lost connections | instantiates `RequestLedger` |
| `RequestLedger` | what a producer of requests is promised: the abstract specification | |
| `CspSolver` | one call of `CSPSolver.solve` | `ConstraintRules` |
| `ConstraintRules` | what an atomic constraint means to each program that reads one: operators, no state | |
| `ScheduleRequests` | calls, schedules, runs, draft resolution and completion of runs | |
| `ConstraintStore` | lecturers' constraints and the report of broken ones, with everybody who writes them | |
| `ReportViews` | what secretaries are shown of the report: operators on the state of `ConstraintStore` | `ConstraintStore` |
| `TextPipeline` | a preview, from a text to atomics | `ConstraintRules`; instantiates `PipelineStages` |
| `PipelineStages` | the stages a preview announces: the abstract specification | |
| `ProgressSockets` | the live progress of a preview | instantiates `PipelineStages`, whose steps it takes |
| `PeriodEvents` | notices of a semester's periods and status | |
| `Notifications` | the notification service and the linking of Telegram chats | |
| `SchedulePage` | the secretaries' schedule pages and the Backend they call | |
| `SolverServiceProofs`, `CspSolverProofs`, `ScheduleRequestsProofs`, `SchedulePageProofs` | theorems about the module of their name | that module |
| `ConstraintStoreProofs` | theorems about the store and about what is shown of it | `ReportViews` |
| `PreviewProofs` | theorems about a preview: its pipeline and its live progress | `TextPipeline`, `ProgressSockets` |
| `NoticesProofs` | theorems about notices: their events, their delivery and the links of their recipients | `PeriodEvents`, `Notifications` |
| `LoopLemmas` | what the proofs about loops share: lemmas on the natural numbers | |
| `MCBackendParts` | five parts that share no variables, in one run | `ScheduleRequests`, `ReportViews`, `TextPipeline`, `ProgressSockets`, `Notifications` |
| `MCSolverAndPages` | the solver's call and the pages, in one run | `MCCspSolver`, `SchedulePage` |
| other `MC*` | symmetry and constant values for TLC | the module of their name |

### SolverService

`ready`, `unacked`, `acked` and `discarded` are where a request is as the broker
sees it; `inbox`, `pending_batch` and `batch` are where the service holds copies
of its delivery. A delivery is a request and the number of the connection it
came on: after a reconnect an old delivery cannot be settled, which the actions
`AckStale`, `AckRaises`, `RejectStale` and `RejectRaises` take up (the client
library ignores the call or raises; both are allowed).

`phase` is the await at which the timer task stands: `sleeping` in
`_batch_timer`, `solve` before a semester is read, `save` and `publish` in
`_solve_semester`, `ack` and `reject` in the loops over the semester's messages.
Everything between two awaits is one action. `CSPSolver().solve` does not await,
so reading a semester and solving it is one action, and no message can arrive
during a solve. Messages arrive at any other await: `BufferRequest` and
`FlushBatch` cancel the task whatever its phase (`NoTask`).

The data are versions. `rules[s]` counts the committed edits of semester `s`,
`asked[r]` is the version request `r` followed, `version` the one a solve read,
`saved[s]` the one the stored result was computed from, `answers[r]` the
versions answered. What the solver decides about a version is the business of
`CspSolver`: these properties only ask whether it looked at new enough data.

`RequestLedger` has no queue and no batch: edits, requests, results that never go
back, requests closed only once a new enough result is stored. `SolverService`
implements it by mapping `acked` to closed and everything before it to waiting
(`KeepsLedger`); with fairness it implements the fair ledger (`ServesLedger`).

### CspSolver

A call is a state machine over `pc`: `preflight` (`RefuseData`, or `BuildModel`,
which splits the blocks into hard ones and assumptions), `search` (one answer of
CP-SAT for the assumptions that remain: `SolveFeasible`, `SolveInfeasible` with a
core, `SolveUnknown`; or `StopSearching`, at a limit) and `report` (`Report`).
`Finished` repeats the end of a call. The input is chosen once, in `Init`.
The offerings' hours come from credits (`CourseHours`, in half points); a
placement is a day and a first slot that ends within the day. CP-SAT is external:
asked with assumptions it gives any timetable that satisfies the model and them,
any sufficient subset of them that cannot be satisfied, or nothing when its time
is over. The model has what the code posts: a lecturer's sessions do not overlap, a
cohort's *first* group of each course and day does not, and no session starts
where a block would meet it.

### ScheduleRequests

One semester. A call of the Backend is a row of `call` with the statement it is
at: `FindEmptyDraft`, `CreateSchedule`, `CreateRun`, `SendRequest` are the trigger
route; `LatestSchedule` begins the edit of a constraint and `StartNightly` the
nightly job; `ReadSchedule`, `WriteSchedule`, `NotifyPublished` are the metadata
update. The solver is sequential here, which is what `SolverService` shows of it
(`SingleFlight`, at-least-once, in order): `Serve`, the three steps of
`get_or_create_draft_schedule`, `SaveSolution`, `Respond`, `AckRequest`, and
`Requeue` for everything that hands the request out again. The consumer is
`FindRun` and `UpdateRun`, the two statements of `update_run_by_semester`; its own
module is not in the repository, so that it takes one response at a time is an
assumption.

### ConstraintStore

One semester. `rows` is `lecturer_constraints` in order of their id, `breaking`
the report by row. A text is the set of sentences it combines, a rule list a
sequence of atomics, a schedule is known by the atomics that its sessions break
(`broken`). Each SQL statement is an action; `tab`, `edit` and `run` hold where
the handlers stand. Tabs preview, save (list, delete one by one, create) and
delete; secretaries override, edit (read, store, recompute in its three
statements, any of which may raise and be logged (`RecomputeFails`), request a
run), place sessions, mark as seen and delete; the
development routes create and delete; the solver reads the rules, solves, cleans
the stale rows, removes the resolved ones and saves what it found, and a run may
end at any of its statements. A row keeps, as a ghost, the text its lecturer
said; `confirmed` is the text whose save was answered last, `solved` the rules the
last run solved.

`ReportViews` has no state of its own. The lists, the unseen count, the full report
and the fairness page are computed anew from `rows` and `breaking` whenever they are
opened. Fairness takes the constraints linked to a schedule, or all of the semester
if there are none, and reads the report in the same scope (`BreakingRows`); which
constraints are linked is a parameter, for nothing in the code changes that column.
An atomic counts as broken if its index is among the indices reported of its row,
whatever the rules at that index were when it was reported. Scores are
fractions; their rounding is formatting.

### TextPipeline, PipelineStages and ConstraintRules

`items`, `negated` and `atomics` are the lists the stages hand on, `pos` how far
the stage has come, `stage` the one announced last. The language model is
external: it gives any answer of `Answers`, one that cannot be parsed, or an
exception. The texts are known by identity and by whether they have one of the
words that make them absolute. Every loss is an explicit step: an item whose
answer cannot be read, an atomic the validator refuses, a duplicate removed by
text or by content, a list cut to the length of another. `noted` says whether
`process()` recorded a warning or an error about it, `warnings` what the detection of
conflicts found; neither is in the answer of the route (`Answered`). A slot the
model leaves out becomes the whole day; a slot that is an empty object becomes none
at all (`EmptySlot`), passes the rule check and makes the detection raise as soon as
its atomic shares a day with another one that does not block the whole of it
(`Incomparable`, `DetectionFails`). A clarification is announced as
complete and answered with a 500, since it does not fit the route's response model
(reply `"invalid"`). `AnnouncesStages` is the refinement of `PipelineStages`, which
has the order of `constraint_pipeline.py` and its way out by the last `except`.

`ConstraintRules` has the operators the programs differ in: extraction and its
defaults, the pipeline's rule check and the editor's, the two keys by which
duplicates are found, the overlap of two rules, and what the Backend takes for a
broken rule. `TextPipeline` sets them against each other.

### ProgressSockets

One session. The lock of `ConnectionManager` guards the dictionaries and is never
held while something is sent, so a broadcast is `Announces`, then one step per
copied connection, then the removal of the dead ones, then, after the last
stage, `_current_stages.pop`. A client goes through `socket`: registered, greeting
(the stage was read), in, gone. The stages come from `PipelineStages`, whose
actions the module takes. `owed` (what a client must still hear) and `informed` are
ghosts.

### PeriodEvents

One semester. Two kinds of actor, the scheduler's job and an update of the
semester, each with an *agenda*: the events and statements it has still to run,
in the order of the code. `reserved` and `published` are the event rows, `sent`
says how many copies of each notice (`Notice`: an event and whom it is for) went
to the notification queue. An event key is the pair of a boundary and an offset
in days. `history` records every status the semester has had and is there for
the properties only.

### Notifications

*Links*: `accounts` is `user_notifications`. A start reads the row (`starting`) and
writes a token in a later statement. The age of a token is the age of its row,
which every write renews. The development route writes chat and token as its body
gives them (`DevUpserts`; only the fields in `given`): a token never seen, or one
that was used before, in anybody's row, as long as no other row has it at the time
(the column is `UNIQUE`). `issued` is a ghost that lists every write of a token and
for whom; the token is the number of its first write, `source` the write a row's
token comes from. *Delivery*: a
worker, the consumer or a direct request, turns a message into the attempts it
needs, reading the profiles once, and makes them one by one; the head of
`waiting` stays until it is acknowledged, which happens whatever became of it. A
crash delivers it again, a graceful stop drops it. `planned`, `tried`, `taken` and
`fate` are ghosts that count.

### SchedulePage

One semester, several pages. `page[p]` has the React state of a page: the status
and schedule it was told last, the grid, whether it polls, the two dialogs, and of
an edit the drafts, the originals and the flag of unsaved changes. `calls[p]` are
the requests under way, one of each kind and several polls, each with a `pc` (the
statement of the server that is next, or the answer on its way back) and with
what the handler had read when it began: after another answer has changed the
state of the page, a handler that has not returned still has the old value. The
server's steps read the latest run, read the rows of a schedule, create a run or
store one session (`upsert_manual_session`, which finds a row by its offering
only; every offering of a solved schedule has one, so its `INSERT` is reached only
after `DELETE /{schedule_id}/sessions/{session_id}` took the row away, a route that
`ConstraintStore` has and this module has not). The solver and the runs are those of `ScheduleRequests`, taken as an
environment: any pending run that is the latest may be completed with any
schedule that has a solution. Overlaps are those of lecturers; those of a cohort
are checked only while the filter names one. `wishes` is a ghost: where sessions
of which offering were dropped since the edit began.

## Runs and what they show

| Run | Properties | Result |
|---|---|---|
| `SolverServiceSafety` | `TypeOK`, `SingleFlight`, `AckedIsSolved`, `NoRequestLost`, `AnsweredOncePerDelivery`, `KeepsLedger` | hold, 215,511 states: an error, two lost connections, a crash, and the deadlock of `FlushBatch` are all reached |
| `SolverServiceLive` | `NothingLeaks`, `EveryRequestAnswered`, `ServesLedger` | hold, 95,486 states, while the connection holds |
| `SolverServiceCoalescing` | `CoalescesSemester` | fails: the window of one keeps a batch from holding two requests |
| `SolverServiceStall` | `EveryRequestAnswered` | fails with a message that names no semester |
| `SolverAndPages` | *solver*: `SolvedIsTimetable`, `SolvedBreaksNothing`, `ReportExplainsFailure`, `RefusalIsRight`; *pages*: `SavesOnlyHerMoves` | hold, 227,984 states. Solver (16,358): solved at once, after one or more cores, refused, unsolvable without blocks, out of time and out of iterations are all reached. Pages (211,626): another page saves, and a run is solved, in the middle of an edit |
| `CspSolverOverride` | `OverrideBinds` | fails: a preference is never posted, overridden or not |
| `ScheduleRequestsLive` | `EveryRunCompletes` | holds, 143,775 states |
| `ScheduleRequestsLatestRun` | `LatestRunMeansAllSolved` | fails: a response completes the latest run, not its own |
| `ScheduleRequestsDraftRace` | `WritesOnlyDrafts` | fails: the flag is not looked at again before the save |
| `PeriodEvents` | `TypeOK`, `PublishedWasSent`, `RepeatsBounded`, `SeenCatchesUp`, `DueNoticesPublished` | hold, 643,928 states |
| `PeriodEventsStaleCheck` | `AnnouncedChangeHappened` | fails: a check with a stale row announces the change backwards |
| `BackendParts` | *requests*: `TypeOK`, `RunsAccounted`, `SolvedRunIsStored`, `CompletedIsFinal`; *store*: `StoreTypeOK`, `SavedIsKept`, `OriginalIsTheLecturers`, `SolvedLooksFair`, `PagesAgree`; *pipeline*: `EditorAcceptsPreview`, `UnavailableIsKept`, `OverlapIsRecorded`, `AnnouncesStages`; *sockets*: `TellsEveryStage`, `LateJoinerHearsCurrent`, `SessionForgotten`; *notices*: `ShownLinkWorks`, `LinkOpensOnce`, `RepeatsNeedACrash`, `FinishedWasTried` | hold, 655,741 states |

`BackendParts` explores each of its five parts while the others rest: they share
no variable, and what one would tell another (the rules a preview made, the
notice a call publishes, the stages a preview announces) is an input the receiving
module leaves open, so nothing is lost by it. `SolverAndPages` does the same with the
solver's call and the pages: to a page a solution is any of `Solutions`.

Every property of a run that holds has a mutant: a definition ending in the name
of the mistake (`RejectMessage_NoRequeue`), or standing before the one it spoils
with a comment that says so, that changes the code's definition the way a slip
would, and with which TLC finds the property violated.

Run one with, for instance,
`tlc -config SolverServiceSafety.cfg MCSolverService.tla`.

## Bounds

* `SolverServiceSafety`: two requests, two semesters, one edit, a batch limit of
  three. Two requests are the fewest that can meet in a batch. Three entries in
  `pending_batch`, which reach the limit, need two redeliveries, hence two lost
  connections. `MAX_BATCH_SIZE` is 100 in the code; the limit matters only in
  being reached or not, and the proofs hold for every value.
* `SolverServiceLive`: three requests, so that one waits behind a failing one
  and another behind it. No lost connection: see Fairness.
* A tick is 1.5 s, so the quiet time is one tick and the longest wait two, the
  ratio of `BATCH_TIMEOUT_SECONDS` and `MAX_BATCH_WAIT_SECONDS`. Time passes only
  for the sleeping timer; the wait time is consulted only when a message arrives.
* `SolverAndPages`, solver: a week of a Thursday with three hours and a Friday with two, the
  smallest in which the days differ and a lecture of one, two or three hours
  still fits somewhere. Three offerings, two of them groups of one course (so that
  only the first joins the cohort's set, and both have the credits of the course),
  two lecturers, mixtures of credits from one hour to more than the week holds
  (one lone offering fits in no day), and up to three atomics in two rows, hard,
  soft, overridden, half past the hour, whole day and without days.
  `MAX_ITERATIONS` is three, so that it is both reached and not.
* `SolverAndPages`, pages: three sessions, two of them of one offering with two
  lecturers, one of two hours; three places, two of them adjoining and one on
  Friday, of which an overlap and an end too late can be made; two solutions, two
  schedules. A behaviour starts with one of four budgets: two editors of one drop
  and one save each; one editor of two beside a solution that is stored meanwhile;
  one who starts a run in the middle of an edit, polls and sees it solved; one with
  a request of somebody else, a refresh, a poll and a failure. It takes two actors
  to make an edit stale, and one save to show it.
* `ScheduleRequests`: two calls (three in the two runs that end in a violation),
  each of any kind. Two runs in flight are the fewest whose responses can be
  mixed up. `MaxMishaps` (one in `BackendParts`) bounds failures, redeliveries,
  taken responses and manual sessions together.
* `ConstraintStore`: one lecturer with two tabs, two secretaries, a developer and
  the solver; a first row with a preference and a block, texts of two sentences,
  three rule lists, one of the atomics of priority "hard", one failure, and any
  set of constraints linked to the schedule a page is about. Everybody at once is
  out of reach, so a behaviour starts with one of five budgets, each a pair of actors
  that write the same rows: saves in both tabs (and another in the first), a save
  with a secretary's override, deletion or edit and the run it asks for, two of these
  by different secretaries, two by one and a run, one beside a developer.
* `TextPipeline`: two sentences, one of them absolute; splits into none, one or
  two; none, one or two inversions; ten answers chosen to agree, to overlap, to
  repeat a day, to name a day or a time that is none, to have an empty slot, and to
  meet the defaults of a missing slot and of an afternoon. Working hours are those of the code.
* `ProgressSockets`: two clients: one whose leaving can disturb the other.
* `Notifications`: four budgets. Links: two tokens and two seconds, with a time to
  live of one, so that a token can be used before and after it ages and while another
  is made; beside them one edit of a row, which may put a used token back, or a login
  with credentials. Messages: a queue
  of one with a user named twice and one with urls as well as recipients, beside
  a direct one; and a message for nobody (the default) before one for
  recipients. One breakdown.
* `PeriodEvents`: a job that runs without end, one update, one lecturer, two
  statuses, two calendars, two days, one failure. Two days let an event be
  reserved on one and looked for on the next. The calendars put a start of the
  change period (broadcast and snapshots) on day 0 and a warning and a start of
  the constraint period on day 1.

`CHECK_DEADLOCK FALSE` stands where the system really comes to rest: requests,
calls, operations, messages and what may happen to a page are finite.
`PeriodEvents` never rests, so its run checks deadlock.

## Fairness

* `SolverService`: the broker delivers what it may and the event loop runs what is
  runnable (`WF` on delivery and on `Service`). Nothing obliges producers, errors,
  lost connections or crashes. The liveness run allows errors and crashes but no
  lost connection: after one, a settlement that raises may leave a redelivered
  copy unsettled (`RejectRaises`), and no progress is claimed then.
* `ScheduleRequests`: a call that has begun runs to its end, the solver and the
  consumer run. Beginning a call, failing and taking responses are never owed.
* `PeriodEvents`: the cron trigger starts the job again and again and one job runs
  at a time (APScheduler's default of one instance); what has begun goes on. The
  day may change at any moment and need never change.
* The other modules claim safety only and assume no fairness. Nothing in the code
  promises progress to a preview, an edit or a delivery: each is a request that
  may fail at any statement.

## Proofs

All theorems hold for every value of the constants that the named assumptions of
the modules allow. TLC evaluates the same assumptions in the runs.

| Module | Theorem | States |
|---|---|---|
| `SolverServiceProofs` | `TypeCorrect` | `Spec => []TypeOK` |
| | `ServesOneAtATime` | `Spec => []SingleFlight` |
| | `LosesNoRequest` | `Spec => []NoRequestLost` |
| | `AcknowledgedIsSolved` | `Spec => []AckedIsSolved` |
| | `ImplementsLedger` | `Spec => KeepsLedger`, the refinement of `RequestLedger` |
| | `AnswersAreBounded` | `Spec => []AnsweredOncePerDelivery` |
| | `OwedIsHeld` | `Spec => []NothingLeaks`, if `MaxDrops = 0` and every body names a semester |
| `ScheduleRequestsProofs` | `RequestsInvariant`, `RequestsAreTyped` | the inductive invariant; `TypeOK` |
| | `SolvedRunsAreStored` | `Spec => []SolvedRunIsStored` |
| | `CompletedRunsAreFinal` | `Spec => CompletedIsFinal` |
| | `RunsAreAccounted` | `Spec => []RunsAccounted` |
| `ConstraintStoreProofs` | `StoreInvariant`, `StoreIsTyped` | the inductive invariant; `StoreTypeOK` |
| | `OriginalIsKept` | `StoreSpec => []OriginalIsTheLecturers` |
| | `ChangeIsUnseen` | `StoreSpec => ChangedReportIsUnseen` |
| | `SavedTextIsKept` | `StoreSpec => []SavedIsKept` |
| | `SolvedScheduleLooksFair` | `StoreSpec => []SolvedLooksFair` |
| | `IndexInvariant` | indices that are reported lie within the rules, or a run to come removes them |
| | `PagesTellTheSame` | `StoreSpec => []PagesAgree` |
| `CspSolverProofs` | `CspInvariant` | the inductive invariant |
| | `SolvedTimetables` | `Spec => []SolvedIsTimetable` |
| | `SolvedBreaksNone` | `Spec => []SolvedBreaksNothing` |
| | `ReportsExplain` | `Spec => []ReportExplainsFailure` |
| | `RefusalsAreRight` | `Spec => []RefusalIsRight` |
| `PreviewProofs` | `PipelineInvariant` | the inductive invariant of the pipeline |
| | `UnavailableIsKeptHolds` | `PipelineSpec => []UnavailableIsKept` |
| | `OverlapIsRecordedHolds` | `PipelineSpec => []OverlapIsRecorded` |
| | `EditorAcceptsPreviewHolds` | `PipelineSpec => []EditorAcceptsPreview` |
| | `PipelineAnnouncesStages` | `PipelineSpec => AnnouncesStages`, the refinement of `PipelineStages` |
| | `SocketsInvariant` | the inductive invariant of the sockets |
| | `EveryStageIsTold` | `SocketsSpec => []TellsEveryStage` |
| | `LateJoinersHearCurrent` | `SocketsSpec => []LateJoinerHearsCurrent` |
| | `SessionsAreForgotten` | `SocketsSpec => []SessionForgotten` |
| `NoticesProofs` | `LinkInvariant` | the inductive invariant of tokens |
| | `LinkIsUsedOnce` | `NoticesSpec => []LinkOpensOnce` |
| | `ShownLinkIsAccepted` | `NoticesSpec => []ShownLinkWorks` |
| | `DeliveryInvariant` | the inductive invariant of deliveries |
| | `RepeatsNeedACrashHolds` | `NoticesSpec => []RepeatsNeedACrash` |
| | `FinishedWasTriedHolds` | `NoticesSpec => []FinishedWasTried` |
| | `EventsAreTyped` | `Spec => []TypeOK` |
| | `PublishedNoticesWereSent` | `Spec => []PublishedWasSent` |
| | `RepeatsAreBounded` | `Spec => []RepeatsBounded` |
| `SchedulePageProofs` | `PageInvariant` | the inductive invariant |
| | `OnlyHerMovesAreSaved` | `PagesSpec => SavesOnlyHerMoves` |

Each property of a run that holds is stated by one of them, except those about
liveness. `ChangeIsUnseen` states one that no run repeats.

Assumptions: `SolverServiceAssumption`, `ScheduleRequestsAssumption` (`Callers`
finite), `StoreConstants`, `StoreData` and `ViewConstants`, `PageConstants`,
`PeriodEventsAssumption` (`Updates` and `Lecturers` finite), and

* `CspConstants` and `CspRequests`: a call has offerings, credits and slots, and the
  groups of a course have the same credits, which are those of the course
  (`courses.credit_points`, `db.py:44`);
* `WorkingHours` and `NoSlotIsNone`: the hours of the configuration, and that having
  no slot is neither a slot nor an empty one;
* `PipelineConstants`: what the language model may answer is a sequence of texts, or
  days and a slot: none, an empty object, or any four integers, of which one that is
  not given is 0 (an answer of another type makes the stage raise, which `ItemFails`,
  `NothingExtracted` and `ExtractionFails` are);
* `NotificationsAssumption`: recipients are users, and a message is one delivery of
  the broker or one request, not both.

`ProgressSockets` needs none. The numbers of requests, callers, tabs, clients, pages,
offerings, constraints, texts, messages, updates and failures are arbitrary.

**Solver service.** Three layers, each inductive relative to the one before:

1. `TypeOK`.
2. `QueueInv`: `SingleFlight` and `NoRequestLost` with what makes them inductive.
   Copies of a request can outlive its connection, so the window of one bounds
   only what is *unsettled*. Two requests still never meet in memory: the request
   in flight is unsettled or was taken back to the head of the queue, so the next
   delivery is that request again (`HeadOfQueue`). It can leave the system only
   through a delivery that is live; a delivery of the current connection that is
   in memory is live (`CurrentIsLive`) and is the last one in memory
   (`LiveIsLast`), so when it is settled no copy is left behind. The task solves
   the semester its batch names (`TaskIsForBatch`).
3. `FreshInv`: versions only grow, a request asks for no version newer than its
   semester has, and from the solve to the acknowledgement `version` is at least
   what every request of the batch asked for; `AckedIsSolved` follows.

`ImplementsLedger` maps every action to a step of the ledger or a stutter; the
acknowledgement is the step that needs `FreshInv`. No theorem relies on
`PREFETCH_COUNT` beyond its being one: with two, `SingleFlight` is false, as its
mutant shows.

`AnswerInv`, a layer of its own, counts answers: from the batch over `pending_batch` to the
inbox, the copies in memory form a line along which connections get newer
(`NewerBehind`), and an unanswered copy finds no more answers to its request than
the number of its connection. `HeldInv` says where an unsettled delivery is;
it needs a connection that is never replaced and a semester in every body, and
both are necessary: their absence is what `SolverServiceStall` and `RejectRaises`
show.

**Requests and runs.** `Inv` says that whatever names a run or a schedule names one
that exists, and that an answer of "solved" names a schedule with a solution; the
second is why completing the *wrong* run still keeps `SolvedRunIsStored`.
`RunsAccounted` is a count over all callers, so its invariant `Books` is an
equation between the pending runs and `Owed`, and every action moves both sides
alike (`Balanced`). The latest pending run is a maximum of a finite set; that
it exists (`MaxIsMember`) is shown from the well-foundedness of strict subsets, as
the library's induction theorems cannot be used.

**Stored constraints.** `StoreInv` is about each part of the store: a row that was
edited has in `original` what its lecturer said, one that was not has it as its
text (`RowsInv`); a save under way deletes only rows of its own lecturer
(`TabsInv`); the row an edit has fetched, however old, still knows the lecturer's
text (`EditsInv`); a report is about a row that exists (`ReportInv`).
`SavedIsKept` is inductive relative to it. So is `RunInv`: what the solver has read
and what it solved last are older versions of the rows (`Older`, what was gone
then is gone now), nothing counts as solved while it reports, and once everybody
is at rest and the rules are the solved ones (`Settled`) nothing is reported. The
last part is `SolvedLooksFair` but for the arithmetic of the score.

`IndexInv` is about the index of an atomic, which is all the report keeps of its
place. The rules of a row may get shorter at any time, so that an index lies within
them only where nobody is between storing an edit and requesting its run, no run is
requested and nothing failed (`Calm`). It is enough, for a run begins by removing
what lies beyond (`RunCleans`), and one that is reporting has read the rules after
that: those it still has to report are the rules of today while it is calm. At
rest it is calm, and then an index that is listed is one that fairness counts
(`PagesAgree`).

**CSP solver.** `CspInv` says of the search that what was found to be in conflict
cannot be satisfied together: each core joins what is already excluded, and with
more assumptions there are fewer timetables. Of the answer it says which of the
three it is. What a solved answer promises is then a matter of the model
that was posted; the interesting point is the cohorts, whose first groups are
those of least index. That a refusal is right is a pigeonhole: sessions that do
not overlap occupy as many slots of the week as they last in all (`FitsTheWeek`),
which needs what the sum of the code counts (`SumCounts`, `SumsExist`). It also
needs the groups of a course to have one length: the check counts the last group of
each course, the model posts the first.

**Text pipeline.** `PipelineInv` says that every atomic passes `rule_validator.py`,
that every item the model found unavailable is among the atomics or noted, that
what the conflict detection passed without a conflict does not overlap, and that
what the last deduplication passed has distinct keys. It rests on what the loops
compute. An atomic without a slot gets past the detection only if it shares no day
with another, or only with blocks of the whole day, which are conflicts
(`MissingSlot`); so what is left without a conflict has each slotless atomic on days
of its own, and the rest compares by minutes. `PipelineAnnouncesStages` maps each
step to one of `PipelineStages` or a stutter; the failure of the detection is one of
these steps.

**Loops.** The recursions of the models are recursive functions over a prefix or a
set. The library's induction theorems take an operator as a parameter and cannot be
used, so each such fact is shown of the least prefix for which it would be
false (`LoopLemmas`), once for the definition and once for what it computes.

**Links and delivery.** `LinkInv` speaks of writes and not of tokens, since a used
token may be written back: what a row holds is what its latest write put there for
its user (`TokensInv`), and a write whose token was opened is the source of no row
any more (`OpenedInv`). Every opening is charged to a write, so that a write links
one chat, and a token that is written once links one chat in all. Two rows never
share a token: a new one is the number of its write (`IssuedInv`), and one that is
written by hand the database refuses while another row has it. `DeliveryInv` follows a message: the consumer's is the head of the
queue and a request's is nowhere else, so that no two workers send the same; what a
worker has still to send was not tried since it took the message, and it was taken
once more at most for each breakdown; what it was found to need is tried or still
to be done.

**Progress.** `SocketsInv` says who is in `connections` (every live client that has
registered), that nothing is being sent outside a broadcast and that what is
stored for late joiners outlives the last stage only until it is forgotten.
`MidwayInv`, on which `LateJoinersHearCurrent` rests, holds between the first stage
and the end and until somebody leaves: the stored stage is the one announced, and
every live client is in the copied list, has been told, or is being greeted with
it. A client that leaves may take the stored stage along.

**Period notices.** `SentInv` follows a row from its reservation to its mark: an
actor that is about to mark has sent what it had to, but for the failures it was
charged. `CountInv` counts copies: before the mark no more than the actors that
have told this notice plus failures, after it no more than all actors plus
failures, less those still to tell. Nobody is both, so the mark is the step that
turns one bound into the other.

**Schedule page.** `PageInv` says that a draft differs from the copy its edit began
with only where a session was dropped (`DraftsOK`), and that an edit goes on as
long as its save is under way (`SaveOK`): every way out of an edit needs either
no unsaved change, which a save has, or no save. So what a save posts was dropped
in the edit it belongs to. `OnePage` reduces a step to the one page and the one
call it changes; schedules only come, so that none that is named disappears.

Only model-checked: liveness (`EveryRequestAnswered`, `ServesLedger`,
`EveryRunCompletes`, `SeenCatchesUp`, `DueNoticesPublished`), which is out of the
prover's reach like `ENABLED`.

## Where code and documents disagree

Each is a run that ends in a violation; `PROJECT.json` quotes the lines.

1. Batching by semester cannot happen with `prefetch_count=1`, although the edit
   route's comment and the solver's own rely on it (the solver's README notes the
   window in its list of limits).
2. A message without a semester is never settled and stops the solver until its
   next restart, and after it again.
3. The wait helper of the integration tests takes the completion of the latest
   run for the completion of all requests; the Backend completes the latest
   pending run with whichever response comes first.
4. The solver overwrites a schedule that stopped being a draft after it was
   chosen.
5. A half-hourly check that overlaps an update of the status announces the change
   backwards, and saves the old status as seen until the next check.
6. An override is to make all atomics of a row hard; one of type "preference" is
   never posted to the model, so nothing is.

## Further observations

Met while reading for the models; they are in the models as the code has them,
and no run is about them.

* Everything the pipeline finds soft becomes a preference (`constraint_pipeline.py:91`);
  the solver neither keeps nor reports preferences, while `recompute_for_constraint`
  ignores the type and reports them after an edit.
* A block of the whole day defaults to 8–20, which on days that include a Friday
  the pipeline's own validator refuses; the constraint is dropped with a warning.
* A question put to the model whose answer cannot be read loses its sentence
  without a message in the negation stage; the conflict handler cuts its lists to
  the shorter one; of two duplicates the more confident stays, be it the soft one.
* A pipeline that fails is announced as complete and then as an error.
* The warnings and errors of a pipeline that succeeds, overlapping rules and lost items
  among them, do not leave the route: the answer has no field for them
  (`routes/external/lecturer/constraints.py:246-259`).
* A request for clarification is returned without the field `data`, which the response
  model requires (`constraints.py:31-33`, `231`): the lecturer gets a 500, and the
  page's branch for `clarification_needed` is never taken.
* A `time_slot` that is an empty object is neither replaced by the whole day nor refused
  by `rule_validator.py`; a second item on its day then ends the pipeline with an
  error in the detection of conflicts (`conflict_detector.py:117`).
* The preview sorts existing constraints newest first where it says oldest first.
* A save deletes the rows of the moment and not those that were previewed, and
  resets their override; if its last statement fails the lecturer has no row
  (`SavedIsKept` expects nothing of a save that failed, so it does not show this).
* `save_breaking_constraints` (`db.py:488`) looks up today's rules with indices
  found in the rules that were solved; the solver ignores the minutes of a slot.
* Every manual session is stored and then answered with 400, for a field its
  request model does not have (`schedules.py:602`).
* The page takes the 400 of such a post for a failure: the edit goes on, and the
  rest of the changed sessions is not posted. Moved back by hand, the session is no
  longer different from the original and is not posted, so that what was stored
  stays.
* A session of an offering with two lecturers is looked up by its offering: its
  move may overwrite the other lecturer's row (`repositories/schedules.py:113`).
* Polls are not awaited by the next one: a late answer may put an older status or
  grid over a newer one. One that fails ends the polling, and the page keeps saying
  that it is generating.
* A run started in the middle of an edit may change the schedule a page shows; its
  save then goes to that schedule, with moves made on the other.
* A secretary's edit or the solver may leave a report whose index holds another
  atomic by now; it survives at rest, and fairness then marks that other one
  (`repositories/fairness.py:161`). A preference that a solved schedule breaks is shown by no
  page.
* The list of one lecturer's broken constraints takes `unseen_only` and does not use
  it (`routes/external/secretary/breaking_constraints.py:317`).
* The development route that creates a report inserts a column that the table does
  not have, and always answers 400.
* `rule_validator.py` does not look at minutes, which the editor wants to be 0 to 59:
  `EditorAcceptsPreview` is about slots whose minutes are.
* A late joiner may be greeted with an older stage than it has just been sent, and
  the last client to leave takes the stored stage along.
* Two overlapping starts of a Telegram link kill the link of the first; any write
  of the row makes its token young again.
* `POST /dev/user-notifications` writes a Telegram token as it is told: a token that was
  used works again, for whom it is written to (`repositories/user_notifications.py:21`).
* A message of the notification queue is acknowledged whatever became of it; one
  with urls and recipients reaches the urls only; a graceful stop drops the one in
  hand.

## What is not modelled

* `src/rabbitmq` (the Backend's queue client and its consumer) is not in the
  repository; its behaviour is external. So are CP-SAT, the language model, SMTP
  and Telegram: any outcome they may have is an input.
* `wrap_conflict_handler_stage.py` is part of the pipeline's package and is called
  by nothing.
* Several semesters at once in `ScheduleRequests`, `ConstraintStore` and
  `PeriodEvents`: every query filters by semester. One thing does cross over: an
  exception in the check of one semester keeps the check from the semesters after
  it until the next pass.
* The individual sessions of a schedule: `ConstraintStore` knows it by the atomics
  it breaks, so the doubled row of two overlapping manual sessions is not seen.
* Texts, formatting, logging, the wording of notices, response bodies beyond the
  fields that are used.
* Of the development routes, `PATCH` of a constraint and those of solver runs and
  period notices.
* Of the schedule page, filters, mock mode, a change of the semester and the deletion
  of a single session, which no page of the frontend asks for.
* Of the solver service, the general `except` around `_handle_message`
  (`main.py:144-146`): every publisher in the repository sends a JSON object, and for
  one nothing that it guards raises but the settlement of messages, which has
  steps of its own.

## Plan

Done: the solver service with its abstract ledger; requests and runs; period
notices; the CSP solver; the stored constraints and their report; the text
pipeline and the validators; live progress; delivery and links; the schedule
page; the report and fairness pages; theorems about every safety property the
runs check.

Left, in order of importance:

1. The sessions of a schedule in `ConstraintStore`, to bound the duplicates of
   overlapping manual sessions.
2. A bound on the announcements of a schedule by overlapping metadata updates,
   which `NotifyPublished` already counts.
3. Several semesters in one half-hourly check, for the exception that crosses over.
