-------------------------- MODULE ScheduleRequests --------------------------
(***************************************************************************)
(* How a solve is asked for, carried out and accounted for, for the        *)
(* schedules and solver_runs rows of one semester (every query involved    *)
(* filters by semester): the Backend routes and nightly job that create a  *)
(* run and publish a request, the draft the solver resolves and fills, and *)
(* the consumer that completes a run when a response arrives.  Every await *)
(* is a step.  The solver takes requests one at a time, in order and at    *)
(* least once, which SolverService and its theorems establish.             *)
(***************************************************************************)
EXTENDS Naturals, Sequences, FiniteSetsExt

CONSTANTS
    Callers,     \* API calls and nightly jobs: each runs one operation
    MaxMishaps   \* bound: calls that fail, requests handed out anew, responses
                 \* taken by GET /rabbitmq/consume-response, and manual changes
                 \* of a schedule's sessions, all together

ASSUME ScheduleRequestsAssumption ==
    /\ IsFiniteSet(Callers)
    /\ MaxMishaps \in Nat

\* No row, no message.
None == 0

VARIABLES
    schedules,   \* schedules[s]: the row, and whether courses_schedules has
                 \* sessions for it; by: the last run whose solution it holds
    runs,        \* runs[r]: the solver_runs row
    call,        \* call[c]: what caller c does and what it has read
    requests,    \* constraints_request_queue: [run, schedule]
    serving,     \* the request the solver works on, and how far it is
    responses,   \* constraints_response_queue: [status, schedule]
    handling,    \* the response the consumer works on, and the run it found
    notified,    \* schedule_published events sent so far
    \* what was lost, and the bound
    stranded,    \* runs created by a call that failed before it published
    stolen,      \* responses the consumer never saw
    repeated,    \* requests handed out again after they were answered
    mishaps

losses == <<stranded, stolen, repeated, mishaps>>
vars == <<schedules, runs, call, requests, serving, responses, handling,
          notified, losses>>

ScheduleIds == 1 .. Len(schedules)
RunIds == 1 .. Len(runs)
Pending == {r \in RunIds : runs[r].status = "pending"}
Drafts == {s \in ScheduleIds : schedules[s].draft}

TypeOK ==
    /\ \A s \in ScheduleIds :
          schedules[s] \in [draft : BOOLEAN, published : BOOLEAN,
                            filled : BOOLEAN, by : RunIds \cup {None}]
    /\ \A r \in RunIds :
          runs[r] \in [status : {"pending", "solved", "failed"},
                       schedule : ScheduleIds \cup {None}]
    /\ call \in [Callers -> [pc : {"idle", "create", "run", "send",
                                   "write", "reread", "done"},
                             schedule : ScheduleIds \cup {None},
                             run : RunIds \cup {None},
                             previously : BOOLEAN]]
    /\ \A i \in DOMAIN requests :
          requests[i] \in [run : RunIds, schedule : ScheduleIds \cup {None}]
    /\ serving \in [pc : {"idle"}] \cup
                   [pc : {"requested", "newest", "insert", "save", "respond", "ack"},
                    request : [run : RunIds, schedule : ScheduleIds \cup {None}],
                    status : {"solved", "failed"},
                    target : ScheduleIds \cup {None}]
    /\ serving.pc \in {"save", "respond", "ack"} => serving.target # None
    /\ \A i \in DOMAIN responses :
          responses[i] \in [status : {"solved", "failed"}, schedule : ScheduleIds]
    /\ handling \in [pc : {"idle"}] \cup
                    [pc : {"update"}, status : {"solved", "failed"},
                     schedule : ScheduleIds, found : RunIds]
    /\ {notified, stranded, stolen, repeated, mishaps} \subseteq Nat

Init ==
    /\ schedules = <<>> /\ runs = <<>>
    /\ call = [c \in Callers |-> [pc |-> "idle", schedule |-> None,
                                  run |-> None, previously |-> FALSE]]
    /\ requests = <<>> /\ responses = <<>>
    /\ serving = [pc |-> "idle"] /\ handling = [pc |-> "idle"]
    /\ notified = 0
    /\ stranded = 0 /\ stolen = 0 /\ repeated = 0
    /\ mishaps = 0

-----------------------------------------------------------------------------
(* Callers *)

\* Something goes wrong or comes from elsewhere, within the bound.
Mishap == mishaps < MaxMishaps /\ mishaps' = mishaps + 1

\* A call moves on to step pc and nothing else changes about it.
Goto(c, pc) == call' = [call EXCEPT ![c].pc = pc]

\* create_schedule_and_trigger_csp starts with find_empty_draft_for_semester:
\* the newest one, if any.
FindEmptyDraft(c) ==
    LET empty == {s \in Drafts : ~schedules[s].published /\ ~schedules[s].filled} IN
    /\ call[c].pc = "idle"
    /\ IF empty = {}
       THEN Goto(c, "create")
       ELSE call' = [call EXCEPT ![c].pc = "run", ![c].schedule = Max(empty)]
    /\ UNCHANGED <<schedules, runs, requests, serving, responses, handling,
                   notified, losses>>

\* create_schedule, with the is_draft flag of the payload.
CreateSchedule(c) ==
    /\ call[c].pc = "create"
    /\ \E draft \in BOOLEAN :
          schedules' = Append(schedules, [draft |-> draft, published |-> FALSE,
                                          filled |-> FALSE, by |-> None])
    /\ call' = [call EXCEPT ![c].pc = "run", ![c].schedule = Len(schedules')]
    /\ UNCHANGED <<runs, requests, serving, responses, handling, notified, losses>>

\* edit_structured_rules, once the edit is committed: the schedule the
\* constraint is tied to, or get_latest_schedule_for_semester, draft or not.
LatestSchedule(c, tied) ==
    /\ call[c].pc = "idle"
    /\ call' = [call EXCEPT ![c].pc = "run",
                            ![c].schedule = IF tied # None THEN tied
                                            ELSE Len(schedules)]
    /\ UNCHANGED <<schedules, runs, requests, serving, responses, handling,
                   notified, losses>>

\* create_run: a pending row for the semester.
NewRun(c) ==
    /\ runs' = Append(runs, [status |-> "pending", schedule |-> None])
    /\ call' = [call EXCEPT ![c].pc = "send", ![c].run = Len(runs')]
    /\ UNCHANGED <<schedules, requests, serving, responses, handling, notified,
                   losses>>

CreateRun(c) == call[c].pc = "run" /\ NewRun(c)

\* nightly_solver_run starts with the run and names no schedule.
StartNightly(c) == call[c].pc = "idle" /\ NewRun(c)

\* rabbitmq.publish(REQUEST_QUEUE_NAME, ...)
SendRequest(c) ==
    /\ call[c].pc = "send"
    /\ requests' = Append(requests, [run |-> call[c].run,
                                     schedule |-> call[c].schedule])
    /\ Goto(c, "done")
    /\ UNCHANGED <<schedules, runs, serving, responses, handling, notified, losses>>

\* update_schedule_metadata: the published flag as it is before ...
ReadSchedule(c, s) ==
    /\ call[c].pc = "idle"
    /\ call' = [call EXCEPT ![c].pc = "write", ![c].schedule = s,
                            ![c].previously = schedules[s].published]
    /\ UNCHANGED <<schedules, runs, requests, serving, responses, handling,
                   notified, losses>>

\* ... the update, of either flag or both ...
WriteSchedule(c) ==
    /\ call[c].pc = "write"
    /\ \E draft, published \in BOOLEAN :
          schedules' = [schedules EXCEPT ![call[c].schedule].draft = draft,
                                         ![call[c].schedule].published = published]
    /\ Goto(c, "reread")
    /\ UNCHANGED <<runs, requests, serving, responses, handling, notified, losses>>

\* ... and, if the row now says published and did not, the notification.
NotifyPublished(c) ==
    /\ call[c].pc = "reread"
    /\ notified' = IF ~call[c].previously /\ schedules[call[c].schedule].published
                   THEN notified + 1 ELSE notified
    /\ Goto(c, "done")
    /\ UNCHANGED <<schedules, runs, requests, serving, responses, handling, losses>>

\* A statement or the publish raises: the call ends, what it did stays done.
CallFails(c) ==
    /\ call[c].pc \notin {"idle", "done"}
    /\ Mishap
    /\ stranded' = IF call[c].pc = "send" THEN stranded + 1 ELSE stranded
    /\ Goto(c, "done")
    /\ UNCHANGED <<schedules, runs, requests, serving, responses, handling,
                   notified, stolen, repeated>>

\* upsert_manual_session, or delete_session of the last session.
ManualSession(s) ==
    /\ Mishap
    /\ schedules' = [schedules EXCEPT ![s].filled = ~@]
    /\ UNCHANGED <<runs, call, requests, serving, responses, handling, notified,
                   stranded, stolen, repeated>>

-----------------------------------------------------------------------------
(* The solver *)

\* A request is taken and solved; _solve_semester goes on to the draft.
Serve(status) ==
    /\ serving.pc = "idle"
    /\ requests # <<>>
    /\ requests' = Tail(requests)
    /\ serving' = [pc |-> IF Head(requests).schedule = None THEN "newest"
                          ELSE "requested",
                   request |-> Head(requests), status |-> status, target |-> None]
    /\ UNCHANGED <<schedules, runs, call, responses, handling, notified, losses>>

\* get_or_create_draft_schedule, 1: the requested one, while it is a draft.
UseRequested ==
    LET s == serving.request.schedule IN
    /\ serving.pc = "requested"
    /\ serving' = IF s \in Drafts
                  THEN [serving EXCEPT !.pc = "save", !.target = s]
                  ELSE [serving EXCEPT !.pc = "newest"]
    /\ UNCHANGED <<schedules, runs, call, requests, responses, handling, notified,
                   losses>>

\* Not the code: no draft, and none is inserted.
UseNewest_NoInsert ==
    /\ serving.pc = "newest"
    /\ serving' = [serving EXCEPT !.pc = "save",
                                 !.target = IF Drafts # {} THEN Max(Drafts) ELSE None]
    /\ UNCHANGED <<schedules, runs, call, requests, responses, handling, notified,
                   losses>>

\* 2: else the newest draft of the semester.
UseNewest ==
    /\ serving.pc = "newest"
    /\ serving' = IF Drafts # {}
                  THEN [serving EXCEPT !.pc = "save", !.target = Max(Drafts)]
                  ELSE [serving EXCEPT !.pc = "insert"]
    /\ UNCHANGED <<schedules, runs, call, requests, responses, handling, notified,
                   losses>>

\* 3: else a new one.
InsertDraft ==
    /\ serving.pc = "insert"
    /\ schedules' = Append(schedules, [draft |-> TRUE, published |-> FALSE,
                                       filled |-> FALSE, by |-> None])
    /\ serving' = [serving EXCEPT !.pc = "save", !.target = Len(schedules')]
    /\ UNCHANGED <<runs, call, requests, responses, handling, notified, losses>>

\* Not the code: the response goes out as solved before anything is stored.
SaveSolution_Skipped ==
    /\ serving.pc = "save"
    /\ serving' = [serving EXCEPT !.pc = "respond"]
    /\ UNCHANGED <<schedules, runs, call, requests, responses, handling, notified,
                   losses>>

\* save_solution replaces the sessions; an unsolved semester leaves them.
SaveSolution ==
    /\ serving.pc = "save"
    /\ schedules' = IF serving.status = "solved"
                    THEN [schedules EXCEPT ![serving.target].filled = TRUE,
                                           ![serving.target].by = serving.request.run]
                    ELSE schedules
    /\ serving' = [serving EXCEPT !.pc = "respond"]
    /\ UNCHANGED <<runs, call, requests, responses, handling, notified, losses>>

\* The response names the semester, the outcome and the schedule; no run.
Respond ==
    /\ serving.pc = "respond"
    /\ responses' = Append(responses, [status |-> serving.status,
                                       schedule |-> serving.target])
    /\ serving' = [serving EXCEPT !.pc = "ack"]
    /\ UNCHANGED <<schedules, runs, call, requests, handling, notified, losses>>

AckRequest ==
    /\ serving.pc = "ack"
    /\ serving' = [pc |-> "idle"]
    /\ UNCHANGED <<schedules, runs, call, requests, responses, handling, notified,
                   losses>>

\* An exception, a lost connection or a crash: the request returns to the head.
Requeue ==
    /\ serving.pc # "idle"
    /\ Mishap
    /\ repeated' = IF serving.pc = "ack" THEN repeated + 1 ELSE repeated
    /\ requests' = <<serving.request>> \o requests
    /\ serving' = [pc |-> "idle"]
    /\ UNCHANGED <<schedules, runs, call, responses, handling, notified,
                   stranded, stolen>>

-----------------------------------------------------------------------------
(* The Backend's consumer of responses *)

\* Not the code: the latest run, pending or not.
FindRun_Latest ==
    /\ handling.pc = "idle"
    /\ responses # <<>>
    /\ responses' = Tail(responses)
    /\ handling' = IF runs = <<>> THEN [pc |-> "idle"]
                   ELSE [pc |-> "update", status |-> Head(responses).status,
                         schedule |-> Head(responses).schedule,
                         found |-> Len(runs)]
    /\ UNCHANGED <<schedules, runs, call, requests, serving, notified, losses>>

\* Not the code: the response is dropped unless the latest run is pending.
FindRun_LatestPending ==
    /\ handling.pc = "idle"
    /\ responses # <<>>
    /\ responses' = Tail(responses)
    /\ handling' = IF Len(runs) \notin Pending THEN [pc |-> "idle"]
                   ELSE [pc |-> "update", status |-> Head(responses).status,
                         schedule |-> Head(responses).schedule,
                         found |-> Len(runs)]
    /\ UNCHANGED <<schedules, runs, call, requests, serving, notified, losses>>

\* update_run_by_semester: the latest pending run, whichever was answered.
\* With none pending the response is dropped.
FindRun ==
    /\ handling.pc = "idle"
    /\ responses # <<>>
    /\ responses' = Tail(responses)
    /\ handling' = IF Pending = {} THEN [pc |-> "idle"]
                   ELSE [pc |-> "update", status |-> Head(responses).status,
                         schedule |-> Head(responses).schedule,
                         found |-> Max(Pending)]
    /\ UNCHANGED <<schedules, runs, call, requests, serving, notified, losses>>

\* Not the code: a failed outcome leaves the run pending.
UpdateRun_SuccessOnly ==
    /\ handling.pc = "update"
    /\ runs' = IF handling.status = "solved"
               THEN [runs EXCEPT ![handling.found] =
                       [status |-> "solved", schedule |-> handling.schedule]]
               ELSE runs
    /\ handling' = [pc |-> "idle"]
    /\ UNCHANGED <<schedules, call, requests, serving, responses, notified, losses>>

\* update_run_success or update_run_failure.
UpdateRun ==
    /\ handling.pc = "update"
    /\ runs' = [runs EXCEPT ![handling.found] =
                  [status |-> handling.status,
                   schedule |-> IF handling.status = "solved"
                                THEN handling.schedule ELSE None]]
    /\ handling' = [pc |-> "idle"]
    /\ UNCHANGED <<schedules, call, requests, serving, responses, notified, losses>>

\* GET /rabbitmq/consume-response acknowledges the response at the head.
StealResponse ==
    /\ Mishap
    /\ responses # <<>>
    /\ stolen' = stolen + 1
    /\ responses' = Tail(responses)
    /\ UNCHANGED <<schedules, runs, call, requests, serving, handling, notified,
                   stranded, repeated>>

-----------------------------------------------------------------------------

Begin(c) ==
    \/ FindEmptyDraft(c) \/ StartNightly(c)
    \/ \E tied \in ScheduleIds \cup {None} : LatestSchedule(c, tied)
    \/ \E s \in ScheduleIds : ReadSchedule(c, s)

CallStep(c) ==
    \/ CreateSchedule(c) \/ CreateRun(c) \/ SendRequest(c)
    \/ WriteSchedule(c) \/ NotifyPublished(c)

Solver ==
    \/ \E status \in {"solved", "failed"} : Serve(status)
    \/ UseRequested \/ UseNewest \/ InsertDraft
    \/ SaveSolution \/ Respond \/ AckRequest

Consumer == FindRun \/ UpdateRun

Next ==
    \/ \E c \in Callers :
          \/ Begin(c) \/ CallStep(c)
          \/ CallFails(c)
    \/ \E s \in ScheduleIds : ManualSession(s)
    \/ Solver \/ Requeue
    \/ Consumer \/ StealResponse

Spec == Init /\ [][Next]_vars

\* A call that has begun runs to its end, the solver and the consumer run;
\* nobody is obliged to call, to fail, or to take responses.
Fairness ==
    /\ \A c \in Callers : WF_vars(CallStep(c))
    /\ WF_vars(Solver)
    /\ WF_vars(Consumer)

FairSpec == Spec /\ Fairness

-----------------------------------------------------------------------------
(* Properties *)

\* Requests and responses still to be turned into the completion of a run.
Outstanding ==
      Cardinality({c \in Callers : call[c].pc = "send"})
    + Len(requests)
    + (IF serving.pc \in {"idle", "ack"} THEN 0 ELSE 1)
    + Len(responses)
    + (IF handling.pc = "idle" THEN 0 ELSE 1)

\* Although responses name no run, the books balance: the pending runs are the
\* outstanding requests and responses, plus those whose request was never
\* published or whose response was taken, but for the requests answered twice.
RunsAccounted ==
    LET owed == Outstanding + stranded + stolen IN
    /\ Cardinality(Pending) <= owed
    /\ owed <= Cardinality(Pending) + repeated

\* A completed run is never touched again, though the consumer looks for the
\* pending run in one statement and updates it in another.
CompletedIsFinal ==
    [][ \A r \in RunIds \ Pending : runs'[r] = runs[r] ]_vars

\* A run marked solved points at a schedule some solution was stored in.
SolvedRunIsStored ==
    \A r \in RunIds :
        runs[r].status = "solved" => schedules[runs[r].schedule].by # None

\* Every run is completed in the end, unless a request or response was lost.
EveryRunCompletes ==
    \A r \in 1 .. Cardinality(Callers) :
        r \in RunIds ~> (r \notin Pending \/ stranded + stolen > 0)

\* "This function waits for the solver to finish processing all pending
\* constraint updates" by polling the latest run of the semester: once that one
\* is completed, nothing published for the semester is left to be solved.
\* (It fails: the first response completes the latest run, not its own.)
LatestRunMeansAllSolved ==
    runs # <<>> /\ Len(runs) \notin Pending
        => requests = <<>> /\ serving.pc \in {"idle", "ack"}

\* "Resolve which draft schedule to write the next solution to": a solution is
\* only ever written to a schedule that is a draft.  (It fails: the flag is not
\* looked at again after the draft was chosen.)
WritesOnlyDrafts ==
    [][ \A s \in ScheduleIds :
          schedules'[s].by # schedules[s].by => schedules[s].draft ]_vars

=============================================================================
