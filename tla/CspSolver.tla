----------------------------- MODULE CspSolver -----------------------------
(***************************************************************************)
(* One call of CSPSolver.solve (SchedulaDeployment/solver/src/solver.py):  *)
(* the pre-flight check of the data, the model that is built from the      *)
(* offerings and the lecturers' constraints, the loop that looks for       *)
(* unsatisfiable cores, and the answer.                                    *)
(*                                                                         *)
(* The constraint solver itself (OR-tools CP-SAT) is external: asked with  *)
(* a set of assumptions it returns any timetable that satisfies the model  *)
(* and them, or any of them that together cannot be satisfied, or nothing  *)
(* when its 60 seconds are over.  Time is in whole hours, as in the code   *)
(* ("Assuming 1-hour granularity").                                        *)
(***************************************************************************)
EXTENDS ConstraintRules

CONSTANTS
    MAX_ITERATIONS, \* MUS_MAX_ITERATIONS
    Requests,       \* the inputs of solve: [offerings |-> .., constraints |-> ..]
    NoDays, NoId    \* missing days or constraints_id

ASSUME CspConstants == MAX_ITERATIONS \in Nat \ {0}

\* The credits are those of the course (courses.credit_points), and so the same
\* for each of its groups.
ASSUME CspRequests ==
    \A r \in Requests :
        /\ Len(r.offerings) \in Nat /\ DOMAIN r.offerings = 1 .. Len(r.offerings)
        /\ \A i \in DOMAIN r.offerings : r.offerings[i].credits \in Nat
        /\ \A i, j \in DOMAIN r.offerings :
              r.offerings[i].course = r.offerings[j].course =>
                  r.offerings[i].credits = r.offerings[j].credits
        /\ \A c \in DOMAIN r.constraints : \A x \in DOMAIN r.constraints[c].rules :
              r.constraints[c].rules[x].slot \in TimeSlots \cup {NoSlot}

VARIABLES
    offerings,      \* sequence of [id, credits, course, lecturers, cohorts]
    constraints,    \* sequence of [id, lecturer, override, rules]
    pc,             \* "preflight", "search", "report", "done"
    remaining,      \* remaining_assumptions
    conflicts,      \* all_conflict_constraints
    iteration,
    status,         \* of the last Solve: "none", "feasible", "infeasible", "unknown"
    plan,           \* the values of the last feasible Solve
    answer          \* what solve returns

vars == <<offerings, constraints, pc, remaining, conflicts, iteration, status,
          plan, answer>>

Unanswered == [status |-> "none", reason |-> "none", conflicts |-> {},
               sessions |-> {}, used |-> {}]

------------------------------------------------------------------------------
(* Hours and days *)

\* Lecture hours of a course; credits are counted in half points.
CourseHours(credits) ==
    CASE credits <= 2 -> 1
      [] credits > 2 /\ credits <= 4 -> 2
      [] credits > 4 /\ credits <= 9 -> 3
      [] credits > 9 /\ credits <= 10 -> 4
      [] OTHER -> (credits + 1) \div 2

hours(i) == CourseHours(offerings[i].credits)

\* Hours of the working day; slots are counted from StartHour.
Slots(d) == EndOf(d) - StartHour

\* "Total schedulable hours in one week (matches the day windows above)."
WeeklyCapacity == MapThenSumSet(Slots, Days)

Offerings == DOMAIN offerings
OfferingsOf(l) == {i \in Offerings : l \in offerings[i].lecturers}
Lecturers == UNION {offerings[i].lecturers : i \in Offerings}
Cohorts == UNION {offerings[i].cohorts : i \in Offerings}
CoursesOf(c) == {offerings[i].course : i \in {j \in Offerings : c \in offerings[j].cohorts}}

\* The groups of a course that a cohort may attend.
Groups(c, k) == {i \in Offerings : c \in offerings[i].cohorts /\ offerings[i].course = k}

------------------------------------------------------------------------------
(* The model *)

\* A day and a first slot such that the session ends within the day.
Placements(i) ==
    {p \in [day : Days, start : 0 .. (EndRegular - StartHour)] :
        p.start + hours(i) <= Slots(p.day)}

\* Exactly one day is chosen for each offering, and a start on it.
Timetables ==
    {t \in [Offerings -> UNION {Placements(i) : i \in Offerings}] :
        \A i \in Offerings : t[i] \in Placements(i)}

NoOverlap(t, i, j) ==
    \/ t[i].day # t[j].day
    \/ t[i].start + hours(i) <= t[j].start
    \/ t[j].start + hours(j) <= t[i].start

LecturersFree(t) ==
    \A l \in Lecturers : \A i, j \in OfferingsOf(l) : i = j \/ NoOverlap(t, i, j)

\* The one interval per course that takes part in a cohort's day: that of the
\* first group which fits in the day.
Representative(c, k, d) ==
    LET fit == {i \in Groups(c, k) : hours(i) <= Slots(d)}
    IN  IF fit = {} THEN {} ELSE {Min(fit)}

CohortsFree(t) ==
    \A c \in Cohorts, d \in Days :
        \A i, j \in UNION {Representative(c, k, d) : k \in CoursesOf(c)} :
            (i # j /\ t[i].day = d /\ t[j].day = d) => NoOverlap(t, i, j)

------------------------------------------------------------------------------
(* The lecturers' constraints *)

\* Rows without an id, without atomics (or malformed, which is the same here)
\* and those of lecturers who teach nothing are skipped.
Considered(c) ==
    /\ constraints[c].id # NoId
    /\ constraints[c].rules # << >>
    /\ OfferingsOf(constraints[c].lecturer) # {}

rule(a) == constraints[a[1]].rules[a[2]]

\* The atomics the model is built from: only those of type "block".
Blocks ==
    {a \in UNION {{c} \X DOMAIN constraints[c].rules : c \in DOMAIN constraints} :
        Considered(a[1]) /\ rule(a).type = "block" /\ rule(a).days # NoDays}

\* The secretary's override goes before the priority of the atomic itself,
\* which is soft unless it says hard.
IsHard(a) ==
    LET override == constraints[a[1]].override
    IN  IF override # "none" THEN override = "hard" ELSE rule(a).priority = "hard"

Assumptions == {a \in Blocks : ~IsHard(a)}

\* No time slot, or the whole working day.
IsFullDay(slot, d) ==
    \/ slot = NoSlot
    \/ /\ slot.start_hour = StartHour
       /\ slot.end_hour = EndOf(d)

\* Mutant: the last hour of a session may lie in the block.
ForbiddenStartsOffByOne(slot, h) ==
    LET first == slot.start_hour - StartHour - h + 2
        last == slot.end_hour - StartHour - 1
    IN  (IF first > 0 THEN first ELSE 0) .. last

\* Starts at which a session of h hours would run into the block.
ForbiddenStarts(slot, h) ==
    LET first == slot.start_hour - StartHour - h + 1
        last == slot.end_hour - StartHour - 1
    IN  (IF first > 0 THEN first ELSE 0) .. last

Respects(t, a) ==
    \A i \in OfferingsOf(constraints[a[1]].lecturer) :
        LET p == t[i] IN
        p.day \in rule(a).days =>
            /\ ~IsFullDay(rule(a).slot, p.day)
            /\ p.start \notin ForbiddenStarts(rule(a).slot, hours(i))

\* The timetables that satisfy the model under the assumptions S.
Satisfying(S) ==
    {t \in Timetables :
        /\ LecturersFree(t)
        /\ CohortsFree(t)
        /\ \A a \in (Blocks \ Assumptions) \cup S : Respects(t, a)}

------------------------------------------------------------------------------
(* Pre-flight check *)

HoursOfGroups(c, k) == hours(Max(Groups(c, k)))   \* the last group read wins

CohortHours(c) ==
    LET course(k) == HoursOfGroups(c, k) IN MapThenSumSet(course, CoursesOf(c))

LecturerHours(l) == MapThenSumSet(hours, OfferingsOf(l))

\* Mutant: a cohort attends every group of a course.
DataInfeasibleAllGroups ==
    \E c \in Cohorts :
        MapThenSumSet(hours, {i \in Offerings : c \in offerings[i].cohorts}) > WeeklyCapacity

DataInfeasible ==
    \/ \E c \in Cohorts : CohortHours(c) > WeeklyCapacity
    \/ \E l \in Lecturers : LecturerHours(l) > WeeklyCapacity

\* An offering longer than every day.
NoDayFits == \E i \in Offerings : \A d \in Days : hours(i) > Slots(d)

------------------------------------------------------------------------------
(* The call *)

Init ==
    /\ \E r \in Requests : offerings = r.offerings /\ constraints = r.constraints
    /\ pc = "preflight"
    /\ remaining = {} /\ conflicts = {} /\ iteration = 0
    /\ status = "none" /\ plan = << >> /\ answer = Unanswered

\* The data are refused before any model is solved.
RefuseData ==
    /\ pc = "preflight"
    /\ DataInfeasible \/ NoDayFits
    /\ answer' = [Unanswered EXCEPT !.status = "failed", !.reason = "data_infeasible"]
    /\ pc' = "done"
    /\ UNCHANGED <<offerings, constraints, remaining, conflicts, iteration, status, plan>>

\* Mutant: hard blocks are posted as assumptions too.
BuildModelAllAssumed ==
    /\ pc = "preflight"
    /\ ~DataInfeasible /\ ~NoDayFits
    /\ remaining' = Blocks
    /\ pc' = "search"
    /\ UNCHANGED <<offerings, constraints, conflicts, iteration, status, plan, answer>>

BuildModel ==
    /\ pc = "preflight"
    /\ ~DataInfeasible /\ ~NoDayFits
    /\ remaining' = Assumptions
    /\ pc' = "search"
    /\ UNCHANGED <<offerings, constraints, conflicts, iteration, status, plan, answer>>

\* What is common to the Solves: with nothing to relax there is one, of the
\* base model, and it counts for no iteration.
CanSolve ==
    /\ pc = "search"
    /\ remaining # {} => iteration < MAX_ITERATIONS

Count == iteration' = IF remaining = {} THEN iteration ELSE iteration + 1

SolveFeasible ==
    /\ CanSolve
    /\ \E t \in Satisfying(remaining) : plan' = t
    /\ status' = "feasible"
    /\ pc' = "report"
    /\ Count
    /\ UNCHANGED <<offerings, constraints, remaining, conflicts, answer>>

\* Mutant: the core found last takes the place of those found before.
SolveInfeasibleLastCore ==
    /\ CanSolve
    /\ Satisfying(remaining) = {}
    /\ \E core \in SUBSET remaining :
          /\ Satisfying(core) = {}
          /\ conflicts' = core
          /\ remaining' = remaining \ core
          /\ pc' = IF core = {} \/ remaining' = {} THEN "report" ELSE "search"
    /\ status' = "infeasible"
    /\ Count
    /\ UNCHANGED <<offerings, constraints, plan, answer>>

\* The core is any sufficient set of the assumptions, minimal or not.  All of it
\* is taken out; the loop goes on unless the core is empty or nothing is left.
SolveInfeasible ==
    /\ CanSolve
    /\ Satisfying(remaining) = {}
    /\ \E core \in SUBSET remaining :
          /\ Satisfying(core) = {}
          /\ conflicts' = conflicts \cup core
          /\ remaining' = remaining \ core
          /\ pc' = IF core = {} \/ remaining' = {} THEN "report" ELSE "search"
    /\ status' = "infeasible"
    /\ Count
    /\ UNCHANGED <<offerings, constraints, plan, answer>>

\* 60 seconds were not enough.
SolveUnknown ==
    /\ CanSolve
    /\ status' = "unknown"
    /\ pc' = "report"
    /\ Count
    /\ UNCHANGED <<offerings, constraints, remaining, conflicts, plan, answer>>

\* MUS_MAX_WALL_TIME or MUS_MAX_ITERATIONS ends the loop.
StopSearching ==
    /\ pc = "search"
    /\ remaining # {}
    /\ iteration > 0
    /\ pc' = "report"
    /\ UNCHANGED <<offerings, constraints, remaining, conflicts, iteration, status, plan, answer>>

\* Mutant: slots are counted from one.
SessionsOfFromOne(t) ==
    {[offering |-> offerings[il[1]].id, lecturer |-> il[2], day |-> t[il[1]].day,
      from |-> StartHour + t[il[1]].start - 1,
      until |-> StartHour + t[il[1]].start + hours(il[1]) - 1] :
        il \in {x \in Offerings \X Lecturers : x[2] \in offerings[x[1]].lecturers}}

\* One session for each lecturer of each offering.
SessionsOf(t) ==
    {[offering |-> offerings[il[1]].id, lecturer |-> il[2], day |-> t[il[1]].day,
      from |-> StartHour + t[il[1]].start,
      until |-> StartHour + t[il[1]].start + hours(il[1])] :
        il \in {x \in Offerings \X Lecturers : x[2] \in offerings[x[1]].lecturers}}

Failed == conflicts # {} \/ status # "feasible"

Report ==
    /\ pc = "report"
    /\ answer' =
          IF Failed
          THEN [Unanswered EXCEPT
                  !.status = "failed",
                  !.reason = IF conflicts # {} THEN "user_constraints" ELSE "base_model",
                  !.conflicts = conflicts]
          ELSE [Unanswered EXCEPT
                  !.status = "solved",
                  !.sessions = SessionsOf(plan),
                  !.used = {constraints[c].id : c \in DOMAIN constraints} \ {NoId}]
    /\ pc' = "done"
    /\ UNCHANGED <<offerings, constraints, remaining, conflicts, iteration, status, plan>>

Finished == pc = "done" /\ UNCHANGED vars

Next == \/ RefuseData \/ BuildModel
        \/ SolveFeasible \/ SolveInfeasible \/ SolveUnknown \/ StopSearching
        \/ Report \/ Finished

Spec == Init /\ [][Next]_vars

------------------------------------------------------------------------------
(* Properties, stated in hours of the week and not in slots and intervals *)

TypeOK ==
    /\ [offerings |-> offerings, constraints |-> constraints] \in Requests
    /\ pc \in {"preflight", "search", "report", "done"}
    /\ remaining \subseteq Assumptions
    /\ conflicts \subseteq Assumptions
    /\ iteration \in 0 .. MAX_ITERATIONS
    /\ status \in {"none", "feasible", "infeasible", "unknown"}
    /\ answer.status \in {"none", "solved", "failed"}

HoursOf(p, h) == (StartHour + p.start) .. (StartHour + p.start + h - 1)

WholeHours(slot) == slot = NoSlot \/ (slot.start_minute = 0 /\ slot.end_minute = 0)

BlockedHours(slot) ==
    IF slot = NoSlot THEN StartHour .. EndRegular - 1
    ELSE slot.start_hour .. slot.end_hour - 1

\* Two offerings use one hour of the week.
Clash(i, j) ==
    /\ plan[i].day = plan[j].day
    /\ HoursOf(plan[i], hours(i)) \cap HoursOf(plan[j], hours(j)) # {}

\* Somebody who takes all courses of c can attend a group of each.
Attendable(c) ==
    \E group \in [CoursesOf(c) -> Offerings] :
        /\ \A k \in CoursesOf(c) : group[k] \in Groups(c, k)
        /\ \A k, m \in CoursesOf(c) : k = m \/ ~Clash(group[k], group[m])

\* What is answered as solved is a timetable: within the working hours, no
\* lecturer in two places, every cohort able to attend one group of each of its
\* courses, and no session in an hour that a block in the model takes, hard or
\* soft, whatever the number of cores found and the slot arithmetic.
SolvedIsTimetable ==
    answer.status = "solved" =>
        /\ \A i \in Offerings :
              HoursOf(plan[i], hours(i)) \subseteq StartHour .. StartHour + Slots(plan[i].day) - 1
        /\ \A l \in Lecturers : \A i, j \in OfferingsOf(l) : i = j \/ ~Clash(i, j)
        /\ \A c \in Cohorts : Attendable(c)
        /\ \A a \in Blocks : \A i \in OfferingsOf(constraints[a[1]].lecturer) :
              plan[i].day \in rule(a).days =>
                  HoursOf(plan[i], hours(i)) \cap BlockedHours(rule(a).slot) = {}

\* The atomics reported to the secretaries explain the failure: they are soft
\* blocks, the hard ones leave no timetable that keeps them all, and when the
\* search ended with a timetable, taking out just these is enough.
ReportExplainsFailure ==
    answer.reason = "user_constraints" =>
        /\ answer.conflicts # {}
        /\ \A a \in answer.conflicts : rule(a).type = "block" /\ ~IsHard(a)
        /\ Satisfying(answer.conflicts) = {}
        /\ status = "feasible" => Satisfying(Assumptions \ answer.conflicts) # {}

\* Data refused by the pre-flight check have no timetable, even with every
\* constraint of the lecturers left out.
RefusalIsRight ==
    answer.reason = "data_infeasible" =>
        ~ \E t \in Timetables : LecturersFree(t) /\ CohortsFree(t)

\* What save_solution stores after a solved run breaks, as the Backend counts it
\* when a secretary edits a constraint (_atomic_breaks_session, which knows
\* nothing of starts and slots), no block that the solver was given, as long as
\* blocks begin and end on the hour.
SolvedBreaksNothing ==
    \A s \in answer.sessions : \A a \in Blocks :
        (s.lecturer = constraints[a[1]].lecturer /\ WholeHours(rule(a).slot)) =>
            ~atomic_breaks_session(rule(a).days, rule(a).slot,
                 [day |-> s.day, slot |-> TimeSlot(s.from, s.until)])

\* "If override=True, ALL atomics are hard (no assumptions)" (solver.py:366):
\* what a secretary made hard is kept by every solved timetable.
OverrideBinds ==
    answer.status = "solved" =>
        \A c \in DOMAIN constraints :
            (Considered(c) /\ constraints[c].override = "hard") =>
                \A x \in DOMAIN constraints[c].rules :
                    constraints[c].rules[x].days # NoDays => Respects(plan, <<c, x>>)
=============================================================================
