---------------------------- MODULE ReportViews ----------------------------
(***************************************************************************)
(* What secretaries are shown of a semester's constraints and of those     *)
(* that its schedule breaks: the list of broken constraints with its count *)
(* of unseen ones and the full report (routes/external/secretary/          *)
(* breaking_constraints.py, repositories/breaking_constraints.py), and the *)
(* fairness page (routes/external/secretary/fairness.py,                   *)
(* repositories/fairness.py).  Each is computed from the tables anew; the  *)
(* functions are of the state of ConstraintStore and change nothing.       *)
(*                                                                         *)
(* An atomic's place in its rules is its index, counted from one; a        *)
(* constraint may be linked to a schedule by a column that nobody changes, *)
(* so the constraints linked to the schedule of a report are a parameter.  *)
(***************************************************************************)
EXTENDS ConstraintStore

CONSTANT HardAtomics    \* the atomics whose priority is "hard"

ASSUME ViewConstants == HardAtomics \subseteq Atomics

------------------------------------------------------------------------------
(* The broken constraints *)

\* Each with its constraint, which the foreign key keeps for it.
ListBySemester(unseenOnly) ==
    {i \in DOMAIN breaking \cap Ids : unseenOnly => ~breaking[i].seen}

\* The route has a parameter unseen_only, too, but does not hand it on.
ListByLecturer(l) == ListBySemester(FALSE) \cap RowsOf(l)

\* Those of the constraints that are linked to a schedule.
ListBySchedule(linked) == ListBySemester(FALSE) \cap linked

\* Counted in breaking_constraints alone.
UnseenCount == Cardinality({i \in DOMAIN breaking : ~breaking[i].seen})

\* All constraints of the semester, each "broken" if it is in the list.
FullReport == [i \in Ids |-> IF i \in ListBySemester(FALSE) THEN "broken" ELSE "satisfied"]

------------------------------------------------------------------------------
(* Fairness *)

\* The constraints of the schedule, or of the semester if none is linked to it.
ConstraintRows(linked) == IF linked # {} THEN linked ELSE Ids

\* Not the code: always from the scope of the schedule.
BreakingRowsLinked(linked) == ListBySchedule(linked)

\* What is reported of them, from the same scope ("so the two sides never disagree").
BreakingRows(linked) ==
    IF linked # {} THEN ListBySchedule(linked) ELSE ListBySemester(FALSE)

\* The broken indices by constraint.
BrokenIndices(linked) ==
    [i \in BreakingRows(linked) |-> {atom[1] : atom \in breaking[i].atoms}]

\* The secretary's override decides for all atomics of a constraint.
ResolvedHard(i, n) ==
    IF rows[i].override = "none" THEN rows[i].rules[n] \in HardAtomics
    ELSE rows[i].override = "hard"

IsBroken(linked, i, n) == i \in DOMAIN BrokenIndices(linked) /\ n \in BrokenIndices(linked)[i]

\* The atomics of a lecturer, each a constraint and an index.
AtomicDetails(linked, l) ==
    UNION {{i} \X DOMAIN rows[i].rules : i \in ConstraintRows(linked) \cap RowsOf(l)}

\* How many there are, and how many of them are broken, hard or soft.
Stats(linked, l) ==
    LET all == AtomicDetails(linked, l)
        broke == {d \in all : IsBroken(linked, d[1], d[2])}
        hard == {d \in all : ResolvedHard(d[1], d[2])}
    IN [total |-> Cardinality(all), broken |-> Cardinality(broke),
        satisfied |-> Cardinality(all \ broke),
        hardTotal |-> Cardinality(hard), softTotal |-> Cardinality(all \ hard),
        hardBroken |-> Cardinality(hard \cap broke), softBroken |-> Cardinality(broke \ hard)]

NoStats == [total |-> 0, broken |-> 0, satisfied |-> 0, hardTotal |-> 0, softTotal |-> 0,
            hardBroken |-> 0, softBroken |-> 0]

\* A fraction: a soft atomic that is broken counts as half satisfied.
Score(stats) ==
    IF stats.total = 0 THEN [part |-> 1, whole |-> 1]
    ELSE [part |-> 2 * stats.satisfied + stats.softBroken, whole |-> 2 * stats.total]

\* An entry for every lecturer; without a schedule there is nothing to count.
LecturerFairness(hasSchedule, linked) ==
    [l \in Lecturers |->
        LET stats == IF hasSchedule THEN Stats(linked, l) ELSE NoStats IN
        [stats |-> stats, score |-> Score(stats), fair |-> stats.hardBroken = 0]]

\* The route: of the schedule it is asked for, which must be one of the semester,
\* or of the latest, if there is any.  Without an answer there is no entry.
FairnessReport(asked, latest, linked) ==
    LET schedule == IF asked # "none" THEN asked ELSE latest IN
    IF schedule = "foreign" THEN << >> ELSE LecturerFairness(schedule = "ours", linked)

------------------------------------------------------------------------------
(* Properties *)

AtRest == Quiet /\ failures = 0

\* The page as it opens, of the latest schedule.
FairnessPage(linked, l) == FairnessReport("none", "ours", linked)[l]

\* Once the rules as they are have been solved and everybody has come to rest, no
\* page finds fault, whatever the schedule is linked to: nothing is broken or
\* unseen, and every lecturer is fair with a perfect score.  recompute may have
\* looked at the sessions of before and may report preferences, which the solver
\* ignores, but the run that it asks for cleans up after it ("so the schedule,
\* breaking constraints, and fairness report all converge to the new rules").
SolvedLooksFair ==
    AtRest /\ solved = RulesOf(rows) =>
        /\ UnseenCount = 0
        /\ \A i \in Ids : FullReport[i] = "satisfied"
        /\ \A linked \in SUBSET Ids, l \in Lecturers :
              FairnessPage(linked, l).fair
              /\ FairnessPage(linked, l).score.part = FairnessPage(linked, l).score.whole

\* At rest, after a run that was solved or one that was not, the pages tell the
\* same story: fairness counts a broken atomic of a lecturer just if one of the
\* lecturer's constraints is listed as broken.  An index that an edit has left
\* beyond the rules would be listed and not counted: clean_stale and the run that
\* every edit asks for are there to remove it.
PagesAgree ==
    AtRest =>
        \A linked \in SUBSET Ids, l \in Lecturers :
            FairnessPage(linked, l).stats.broken > 0
                <=> ListByLecturer(l) \cap ConstraintRows(linked) # {}
=============================================================================
