---------------------------- MODULE SchedulePage ----------------------------
(***************************************************************************)
(* The schedule page of the secretaries (SecretarySchedulePage.jsx with    *)
(* EditableWeeklyScheduleGrid.jsx and ConfirmModal.jsx) and the requests   *)
(* it makes of the Backend: one semester, several pages that are open at   *)
(* the same time.                                                          *)
(*                                                                         *)
(* Each call of a page is a request, a step of the server and an answer    *)
(* that arrives later; the calls of a page overlap, and so do those of     *)
(* different pages.  What a handler read when it was called (schedule,     *)
(* drafts, originals) travels with its call.  The solver and the runs are  *)
(* the business of ScheduleRequests: here any run that is pending may be   *)
(* completed with any schedule that holds a solution.                      *)
(***************************************************************************)
EXTENDS Naturals, Sequences, FiniteSets

CONSTANTS
    Pages,
    Polls,          \* polls a page may have under way at once
    Sessions,       \* one for each lecturer of each offering
    OfferingOf,
    LengthOf,       \* hours of a session
    Places,         \* where a session may be dropped: [day, hour]
    Seats,          \* what courses_schedules says of a session: [lecturer, place]
    Solutions,      \* what the solver may store
    MaxSchedules,
    PageBudgets     \* what pages, solver and other requests may still do

ASSUME PageConstants ==
    /\ Places \subseteq [day : 1 .. 6, hour : Nat]
    /\ \A x \in Seats : x = [lecturer |-> x.lecturer, place |-> x.place]
    /\ \A x \in Seats, q \in Places : [x EXCEPT !.place = q] \in Seats
    /\ Solutions \subseteq [Sessions -> Seats]
    /\ LengthOf \in [Sessions -> Nat]
    /\ Polls \cap {"check", "refresh", "generate", "save"} = {}

VARIABLES
    solverRuns,     \* of the semester, in order of created_at: [status, schedule]
    stored,         \* courses_schedules of each schedule: Sessions -> Seats
    page,           \* the state of each page
    calls,          \* the calls of each page that are under way
    wishes,         \* (ghost) where sessions of an offering were dropped in this edit
    allowed         \* what is left of a budget

pageVars == <<solverRuns, stored, page, calls, wishes, allowed>>

Names == Polls \cup {"check", "refresh", "generate", "save"}
NoSessions == [s \in {} |-> s]
NoCall == [pc |-> "idle", status |-> "none", schedule |-> 0, body |-> NoSessions]

NewPage ==
    [open |-> FALSE, status |-> "unknown", schedule |-> 0, sessions |-> NoSessions, polling |-> FALSE,
     confirm |-> FALSE, edit |-> FALSE, drafts |-> NoSessions,
     originals |-> NoSessions, unsaved |-> FALSE, asked |-> "nothing"]

PagesInit ==
    /\ \/ solverRuns = << >> /\ stored = << >>
       \/ /\ solverRuns = <<[status |-> "solved", schedule |-> 1]>>
          /\ \E x \in Solutions : stored = <<x>>
    /\ page = [p \in Pages |-> NewPage]
    /\ calls = [p \in Pages |-> [c \in Names |-> NoCall]]
    /\ wishes = [p \in Pages |-> {}]
    /\ allowed \in PageBudgets

\* Actor a does something of kind k.
Spends(a, k) == allowed[a][k] > 0 /\ allowed' = [allowed EXCEPT ![a][k] = @ - 1]

------------------------------------------------------------------------------
(* Solver and Backend *)

PendingRuns == {r \in DOMAIN solverRuns : solverRuns[r].status = "pending"}

\* A new solution goes to a schedule that there is or to a new one.
SolverStores ==
    /\ Spends("solver", "solves")
    /\ \E x \in Solutions :
          \/ \E n \in DOMAIN stored : stored' = [stored EXCEPT ![n] = x]
          \/ Len(stored) < MaxSchedules /\ stored' = Append(stored, x)
    /\ UNCHANGED <<solverRuns, page, calls, wishes>>

\* A response completes the latest pending run.
RunCompletes ==
    /\ \E r \in PendingRuns :
          /\ \A q \in PendingRuns : q <= r
          /\ \/ solverRuns' = [solverRuns EXCEPT ![r].status = "failed"]
             \/ \E n \in DOMAIN stored :
                   solverRuns' = [solverRuns EXCEPT ![r] = [status |-> "solved", schedule |-> n]]
    /\ UNCHANGED <<stored, page, calls, wishes, allowed>>

PendingRun == [status |-> "pending", schedule |-> 0]

\* A run of the nightly job or of an edited constraint.
OthersRequest ==
    /\ Spends("others", "requests")
    /\ solverRuns' = Append(solverRuns, PendingRun)
    /\ UNCHANGED <<stored, page, calls, wishes>>

\* publish_request: the answer may be an error although the run was created.
AnswersTrigger(p) ==
    /\ calls[p]["generate"].pc = "trigger"
    /\ solverRuns' = Append(solverRuns, PendingRun)
    /\ \E pc \in {"accepted", "failed"} : calls' = [calls EXCEPT ![p]["generate"].pc = pc]
    /\ UNCHANGED <<stored, page, wishes, allowed>>

\* get_solver_status: the latest run of the semester.
AnswersStatus(p, c) ==
    /\ calls[p][c].pc = "status"
    /\ LET latest == IF solverRuns = << >> THEN [status |-> "none", schedule |-> 0]
                     ELSE solverRuns[Len(solverRuns)]
       IN  calls' = [calls EXCEPT ![p][c].pc = "statusBack", ![p][c].status = latest.status,
                                  ![p][c].schedule = latest.schedule]
    /\ UNCHANGED <<solverRuns, stored, page, wishes, allowed>>

AnswersDetails(p, c) ==
    /\ calls[p][c].pc = "details"
    /\ calls' = [calls EXCEPT ![p][c].pc = "detailsBack",
                              ![p][c].body = stored[calls[p][c].schedule]]
    /\ UNCHANGED <<solverRuns, stored, page, wishes, allowed>>

\* Any call may fail before it has done anything.
FailsCall(p, c) ==
    /\ calls[p][c].pc \in {"status", "details", "trigger", "post"}
    /\ Spends(p, "failures")
    /\ calls' = [calls EXCEPT ![p][c].pc = "failed"]
    /\ UNCHANGED <<solverRuns, stored, page, wishes>>

\* upsert_manual_session takes the first row it finds of the offering and makes
\* it the session of the body, unless that would be the same row twice
\* (uq_session).  The schedule of a solved run has a row of every offering, so none
\* is inserted.  The answer is an error even then (schedules.py:602).
StoresSession(p) ==
    LET call == calls[p]["save"]  n == call.schedule IN
    /\ call.pc = "post"
    /\ \E s \in DOMAIN call.body, t \in Sessions :
          /\ OfferingOf[t] = OfferingOf[s]
          /\ \A u \in Sessions \ {t} :
                OfferingOf[u] = OfferingOf[s] => stored[n][u] # call.body[s]
          /\ stored' = [stored EXCEPT ![n][t] = call.body[s]]
    /\ calls' = [calls EXCEPT ![p]["save"].pc = "failed"]
    /\ UNCHANGED <<solverRuns, page, wishes, allowed>>

------------------------------------------------------------------------------
(* What arrives *)

EndsCall(p, c) == calls' = [calls EXCEPT ![p][c] = NoCall]

\* The schedule of a run that was solved is asked for, by the call that learned of it.
AsksForDetails(p, c) == calls' = [calls EXCEPT ![p][c].pc = "details"]

\* The page asks for the status of the solver first.
Opens(p) ==
    /\ ~page[p].open
    /\ Spends(p, "opens")
    /\ page' = [page EXCEPT ![p].open = TRUE]
    /\ calls' = [calls EXCEPT ![p]["check"].pc = "status"]
    /\ UNCHANGED <<solverRuns, stored, wishes>>

\* The answer to check().
CheckArrives(p) ==
    LET call == calls[p]["check"] IN
    /\ call.pc = "statusBack"
    /\ IF call.status = "solved"
       THEN /\ page' = [page EXCEPT ![p].status = call.status, ![p].schedule = call.schedule]
            /\ AsksForDetails(p, "check")
       ELSE /\ page' = [page EXCEPT ![p].status = call.status, ![p].schedule = call.schedule,
                                    ![p].sessions = NoSessions,
                                    ![p].polling = @ \/ call.status = "pending"]
            /\ EndsCall(p, "check")
    /\ UNCHANGED <<solverRuns, stored, wishes, allowed>>

\* Every five seconds, whether or not the poll before has been answered.
PollStarts(p, c) ==
    /\ page[p].polling
    /\ calls[p][c].pc = "idle"
    /\ Spends(p, "polls")
    /\ calls' = [calls EXCEPT ![p][c].pc = "status"]
    /\ UNCHANGED <<solverRuns, stored, page, wishes>>

PollArrives(p, c) ==
    LET call == calls[p][c] IN
    /\ call.pc = "statusBack"
    /\ page' = [page EXCEPT ![p].status = call.status, ![p].schedule = call.schedule,
                            ![p].polling = @ /\ call.status = "pending"]
    /\ IF call.status = "solved" THEN AsksForDetails(p, c) ELSE EndsCall(p, c)
    /\ UNCHANGED <<solverRuns, stored, wishes, allowed>>

\* Details for the check, a poll or a refresh; drafts and originals of an edit stay.
DetailsArrive(p, c) ==
    /\ c # "save"
    /\ calls[p][c].pc = "detailsBack"
    /\ page' = [page EXCEPT ![p].sessions = calls[p][c].body]
    /\ EndsCall(p, c)
    /\ UNCHANGED <<solverRuns, stored, wishes, allowed>>

\* A poll that fails is the last one.  After a save that fails the edit goes on
\* and its question stays open.
ErrorArrives(p, c) ==
    /\ calls[p][c].pc = "failed"
    /\ page' = [page EXCEPT ![p].polling = @ /\ c \notin Polls]
    /\ EndsCall(p, c)
    /\ UNCHANGED <<solverRuns, stored, wishes, allowed>>

------------------------------------------------------------------------------
(* Generate and Refresh *)

\* A modal covers the page.
Uncovered(p) == page[p].open /\ ~page[p].confirm /\ page[p].asked = "nothing"

\* The button starts a run at once unless there is a schedule already.
AsksToRegenerate(p) ==
    /\ Uncovered(p)
    /\ page[p].status = "solved" /\ calls[p]["generate"].pc = "idle"
    /\ allowed[p].generates > 0
    /\ page' = [page EXCEPT ![p].confirm = TRUE]
    /\ UNCHANGED <<solverRuns, stored, calls, wishes, allowed>>

ClosesConfirm(p) ==
    /\ page[p].confirm
    /\ page' = [page EXCEPT ![p].confirm = FALSE]
    /\ UNCHANGED <<solverRuns, stored, calls, wishes, allowed>>

Generates(p) ==
    /\ page[p].confirm \/ (Uncovered(p) /\ page[p].status # "solved")
    /\ page[p].status # "pending" /\ calls[p]["generate"].pc = "idle"
    /\ Spends(p, "generates")
    /\ page' = [page EXCEPT ![p].confirm = FALSE]
    /\ calls' = [calls EXCEPT ![p]["generate"].pc = "trigger"]
    /\ UNCHANGED <<solverRuns, stored, wishes>>

\* The run was requested: its status is asked for.
GenerateAccepted(p) ==
    /\ calls[p]["generate"].pc = "accepted"
    /\ page' = [page EXCEPT ![p].confirm = FALSE]
    /\ calls' = [calls EXCEPT ![p]["generate"].pc = "status"]
    /\ UNCHANGED <<solverRuns, stored, wishes, allowed>>

GenerateArrives(p) ==
    LET call == calls[p]["generate"] IN
    /\ call.pc = "statusBack"
    /\ page' = [page EXCEPT ![p].status = call.status, ![p].schedule = call.schedule,
                            ![p].polling = @ \/ call.status = "pending"]
    /\ EndsCall(p, "generate")
    /\ UNCHANGED <<solverRuns, stored, wishes, allowed>>

Refreshes(p) ==
    /\ Uncovered(p)
    /\ page[p].schedule # 0 /\ calls[p]["refresh"].pc = "idle"
    /\ Spends(p, "refreshes")
    /\ calls' = [calls EXCEPT ![p]["refresh"].pc = "details",
                              ![p]["refresh"].schedule = page[p].schedule]
    /\ UNCHANGED <<solverRuns, stored, page, wishes>>

------------------------------------------------------------------------------
(* Editing *)

EntersEdit(p) ==
    /\ Uncovered(p)
    /\ ~page[p].edit /\ page[p].status = "solved"
    /\ Spends(p, "edits")
    /\ page' = [page EXCEPT ![p].edit = TRUE, ![p].unsaved = FALSE,
                            ![p].drafts = page[p].sessions, ![p].originals = page[p].sessions]
    /\ wishes' = [wishes EXCEPT ![p] = {}]
    /\ UNCHANGED <<solverRuns, stored, calls>>

\* handleDrop; the grid is there while a solved schedule is shown.
Drops(p, s, q) ==
    /\ Uncovered(p)
    /\ page[p].edit /\ page[p].status = "solved" /\ page[p].sessions # NoSessions
    /\ s \in DOMAIN page[p].drafts
    /\ Spends(p, "drops")
    /\ page' = [page EXCEPT ![p].drafts[s].place = q, ![p].unsaved = TRUE]
    /\ wishes' = [wishes EXCEPT ![p] = @ \cup {<<OfferingOf[s], page'[p].drafts[s]>>}]
    /\ UNCHANGED <<solverRuns, stored, calls>>

\* Sessions s and t at places q and r have an hour in common.
ShareAnHour(s, q, t, r) ==
    /\ q.day = r.day
    /\ q.hour < r.hour + LengthOf[t]
    /\ r.hour < q.hour + LengthOf[s]

LecturerConflicts(drafts) ==
    \E s, t \in DOMAIN drafts :
        /\ s # t /\ drafts[s].lecturer = drafts[t].lecturer
        /\ ShareAnHour(s, drafts[s].place, t, drafts[t].place)

\* askToSaveEditChanges.  The check of a cohort is left out: it is made only while
\* the filter names one, and the filter may be changed at any time.
AsksToSave(p) ==
    /\ Uncovered(p)
    /\ page[p].edit
    /\ \/ /\ ~page[p].unsaved
          /\ page' = [page EXCEPT ![p].edit = FALSE]
       \/ /\ page[p].unsaved /\ ~LecturerConflicts(page[p].drafts)
          /\ page' = [page EXCEPT ![p].asked = "save"]
    /\ UNCHANGED <<solverRuns, stored, calls, wishes, allowed>>

AsksToCancel(p) ==
    /\ Uncovered(p)
    /\ page[p].edit
    /\ page' = IF page[p].unsaved THEN [page EXCEPT ![p].asked = "discard"]
               ELSE [page EXCEPT ![p].drafts = page[p].originals, ![p].edit = FALSE]
    /\ UNCHANGED <<solverRuns, stored, calls, wishes, allowed>>

\* The buttons of the modal are disabled during a save, a click beside it is not.
ClosesQuestion(p) ==
    /\ page[p].asked # "nothing"
    /\ page' = [page EXCEPT ![p].asked = "nothing"]
    /\ UNCHANGED <<solverRuns, stored, calls, wishes, allowed>>

Discards(p) ==
    /\ page[p].asked = "discard" /\ calls[p]["save"].pc = "idle"
    /\ page' = [page EXCEPT ![p].drafts = page[p].originals, ![p].unsaved = FALSE,
                            ![p].edit = FALSE, ![p].asked = "nothing"]
    /\ UNCHANGED <<solverRuns, stored, calls, wishes, allowed>>

\* Mutant: every session of the draft is posted.
ChangedAll(p) == DOMAIN page[p].drafts

\* The sessions that are elsewhere than when the edit began.
Changed(p) ==
    {s \in DOMAIN page[p].drafts : page[p].drafts[s].place # page[p].originals[s].place}

Before(q, r) == q.day < r.day \/ (q.day = r.day /\ q.hour < r.hour)

\* The first of them in the order of the list, which is that of get_detailed_schedule.
FirstChanged(p) ==
    {s \in Changed(p) : \A t \in Changed(p) :
        ~Before(page[p].originals[t].place, page[p].originals[s].place)}

\* "Friday sessions must end by 14:00", others by 20:00.
TooLate(s, q) == q.hour + LengthOf[s] > IF q.day = 6 THEN 14 ELSE 20

\* saveEditedSchedule.  The loop posts the changed sessions one by one and ends at
\* the first error; as every post is answered with one, it is left at the first.
\* With nothing changed the schedule is read again.  The modal stays open.
Saves(p) ==
    /\ page[p].asked = "save" /\ calls[p]["save"].pc = "idle"
    /\ page[p].schedule # 0
    /\ Spends(p, "saves")
    /\ \/ /\ Changed(p) = {}
          /\ calls' = [calls EXCEPT ![p]["save"].pc = "details",
                                    ![p]["save"].schedule = page[p].schedule]
       \/ \E s \in FirstChanged(p) :
             /\ ~TooLate(s, page[p].drafts[s].place)
             /\ calls' = [calls EXCEPT ![p]["save"].pc = "post",
                                       ![p]["save"].schedule = page[p].schedule,
                                       ![p]["save"].body = [t \in {s} |-> page[p].drafts[t]]]
    /\ UNCHANGED <<solverRuns, stored, page, wishes>>

\* What was stored takes the place of drafts and originals, and the edit ends.
SaveArrives(p) ==
    LET details == calls[p]["save"].body IN
    /\ calls[p]["save"].pc = "detailsBack"
    /\ page' = [page EXCEPT ![p].sessions = details, ![p].drafts = details,
                            ![p].originals = details, ![p].unsaved = FALSE,
                            ![p].edit = FALSE, ![p].asked = "nothing"]
    /\ EndsCall(p, "save")
    /\ UNCHANGED <<solverRuns, stored, wishes, allowed>>

PageStep(p) ==
    \/ AnswersTrigger(p) \/ StoresSession(p)
    \/ \E c \in Names :
          \/ AnswersStatus(p, c) \/ AnswersDetails(p, c) \/ FailsCall(p, c)
          \/ DetailsArrive(p, c) \/ ErrorArrives(p, c)
    \/ \E c \in Polls : PollStarts(p, c) \/ PollArrives(p, c)
    \/ Opens(p) \/ CheckArrives(p)
    \/ AsksToRegenerate(p) \/ ClosesConfirm(p) \/ Generates(p)
    \/ GenerateAccepted(p) \/ GenerateArrives(p) \/ Refreshes(p)
    \/ EntersEdit(p) \/ AsksToSave(p) \/ AsksToCancel(p) \/ ClosesQuestion(p)
    \/ \E s \in Sessions, q \in Places : Drops(p, s, q)
    \/ Discards(p) \/ Saves(p) \/ SaveArrives(p)

PagesNext ==
    \/ SolverStores \/ RunCompletes \/ OthersRequest
    \/ \E p \in Pages : PageStep(p)

PagesSpec == PagesInit /\ [][PagesNext]_pageVars

------------------------------------------------------------------------------
(* Properties *)

\* A stored session changes only when the solver stores a solution, or to where a
\* secretary dropped a session of that offering in the edit she is saving: what
\* another page has saved, or a run has solved, since she entered it is not put
\* back to what her page still shows.
SavesOnlyHerMoves ==
    [][\A n \in DOMAIN stored, s \in Sessions :
          (n \in DOMAIN stored' /\ stored'[n][s] # stored[n][s]) =>
              \/ SolverStores
              \/ \E p \in Pages : <<OfferingOf[s], stored'[n][s]>> \in wishes[p]]_pageVars
=============================================================================
