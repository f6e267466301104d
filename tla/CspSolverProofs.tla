--------------------------- MODULE CspSolverProofs ---------------------------
(***************************************************************************)
(* What the solver answers is right, for any data of any requests and any  *)
(* week.                                                                   *)
(*                                                                         *)
(* CspInv is inductive.  Of the search it says that what was found to be   *)
(* in conflict cannot be satisfied together (SearchInv): each core that    *)
(* the solver gives joins what is already excluded, and with more          *)
(* assumptions there are fewer timetables.  Of the answer it says which of *)
(* the three it is, and that a refusal without a solve is right            *)
(* (AnswerInv).  The properties follow from it:                            *)
(*                                                                         *)
(*   - a solved answer is read off the plan, a timetable of the model, and *)
(*     the groups of a course that a cohort attends are those with the     *)
(*     least index (SolvedIsTimetable), on which nothing that was kept is  *)
(*     broken (SolvedBreaksNothing);                                       *)
(*   - a report of conflicts names what cannot be satisfied                *)
(*     (ReportExplainsFailure);                                            *)
(*   - the preflight refuses only what has no timetable (RefusalIsRight):  *)
(*     sessions that do not overlap take as many slots of the week as they *)
(*     last in all, and the week has no more (FitsTheWeek).  That needs    *)
(*     what the sum of the code counts, which is a recursion over sets     *)
(*     (SumCounts).                                                        *)
(***************************************************************************)
EXTENDS CspSolver, LoopLemmas, FiniteSetTheorems

\* The data of the period stay as they are.
SameData == UNCHANGED <<offerings, constraints>>

\* With the same data there are the same courses, groups and hours.
LEMMA SameOfferings ==
    ASSUME SameData
    PROVE  /\ Offerings' = Offerings /\ Lecturers' = Lecturers /\ Cohorts' = Cohorts
           /\ \A i : hours(i)' = hours(i)
           /\ \A l : OfferingsOf(l)' = OfferingsOf(l)
           /\ \A c : CoursesOf(c)' = CoursesOf(c)
           /\ \A c, k : Groups(c, k)' = Groups(c, k)
<1>1. offerings' = offerings
  BY DEF SameData
<1>2. Offerings' = Offerings
  BY <1>1 DEF Offerings
<1>3. QED
  BY <1>1, <1>2 DEF Lecturers, Cohorts, hours, OfferingsOf, CoursesOf, Groups

\* ... the same timetables,
LEMMA SameTimetables ==
    ASSUME SameData
    PROVE  Timetables' = Timetables
<1>1. \A i : Placements(i)' = Placements(i)
  BY SameOfferings DEF Placements
<1>2. QED
  BY <1>1, SameOfferings DEF Timetables

\* ... the same rules of them,
LEMMA SameRules ==
    ASSUME SameData, NEW t
    PROVE  /\ LecturersFree(t)' = LecturersFree(t)
           /\ CohortsFree(t)' = CohortsFree(t)
           /\ Blocks' = Blocks /\ Assumptions' = Assumptions
           /\ \A a : Respects(t, a)' = Respects(t, a)
<1>1. offerings' = offerings /\ constraints' = constraints
  BY DEF SameData
<1>2. \A i, j : NoOverlap(t, i, j)' = NoOverlap(t, i, j)
  BY SameOfferings DEF NoOverlap
<1>3. \A c, k, d : Representative(c, k, d)' = Representative(c, k, d)
  BY SameOfferings DEF Representative
<1>4. LecturersFree(t)' = LecturersFree(t)
  BY <1>2, SameOfferings DEF LecturersFree
<1>5. CohortsFree(t)' = CohortsFree(t)
  BY <1>2, <1>3, SameOfferings DEF CohortsFree
<1>6. \A a : rule(a)' = rule(a) /\ IsHard(a)' = IsHard(a)
  BY <1>1 DEF rule, IsHard
<1>7. Blocks' = Blocks
  BY <1>1, <1>6, SameOfferings DEF Blocks, Considered
<1>8. Assumptions' = Assumptions
  BY <1>6, <1>7 DEF Assumptions
<1>9. \A a : Respects(t, a)' = Respects(t, a)
  BY <1>1, <1>6, SameOfferings DEF Respects
<1>10. QED
  BY <1>4, <1>5, <1>7, <1>8, <1>9

\* ... and the same timetables that satisfy some of the constraints.
LEMMA SameSatisfying ==
    ASSUME SameData
    PROVE  \A S : Satisfying(S)' = Satisfying(S)
  BY SameTimetables, SameRules DEF Satisfying

-----------------------------------------------------------------------------
(* What is left of a sum over a set *)

\* What MapThenSumSet computes of the values w of the members of S: a sum for
\* each subset.
Pick(s) == CHOOSE x \in s : TRUE
Without(s) == s \ {Pick(s)}
SumsOn(g, w, D) == g = [s \in D |-> IF s = {} THEN 0 ELSE w[Pick(s)] + g[Without(s)]]

Subsets(S, m) == {s \in SUBSET S : Cardinality(s) <= m}

\* Taking the chosen member out of a finite set leaves one less.
LEMMA SmallerWithout ==
    ASSUME NEW S, IsFiniteSet(S), NEW s \in SUBSET S, s # {}
    PROVE  /\ Pick(s) \in s /\ Without(s) \in SUBSET S /\ Without(s) \subseteq s
           /\ s = Without(s) \cup {Pick(s)} /\ Pick(s) \notin Without(s)
           /\ Cardinality(s) \in Nat /\ Cardinality(Without(s)) = Cardinality(s) - 1
<1>1. Pick(s) \in s
  BY DEF Pick
<1>2. IsFiniteSet(s)
  BY FS_Subset
<1>3. /\ Without(s) \in SUBSET S /\ Without(s) \subseteq s
      /\ s = Without(s) \cup {Pick(s)} /\ Pick(s) \notin Without(s)
  BY <1>1 DEF Without
<1>4. Cardinality(s) \in Nat
  BY <1>2, FS_CardinalityType
<1>5. Cardinality(Without(s)) = Cardinality(s) - 1
  BY <1>1, <1>2, FS_RemoveElement DEF Without
<1>6. QED
  BY <1>1, <1>3, <1>4, <1>5

\* The subsets of at most m members, from the empty one on.
LEMMA SubsetsGrow ==
    ASSUME NEW S, IsFiniteSet(S), NEW m \in Nat
    PROVE  /\ Subsets(S, m) \subseteq Subsets(S, m + 1)
           /\ Subsets(S, 0) = {{}}
           /\ \A s \in Subsets(S, m + 1) : s # {} => Without(s) \in Subsets(S, m)
<1>1. \A s \in SUBSET S : IsFiniteSet(s) /\ Cardinality(s) \in Nat
  BY FS_Subset, FS_CardinalityType
<1>2. Subsets(S, m) \subseteq Subsets(S, m + 1)
  BY <1>1 DEF Subsets
<1>3. Subsets(S, 0) = {{}}
  BY <1>1, FS_EmptySet DEF Subsets
<1>4. ASSUME NEW s \in Subsets(S, m + 1), s # {}
      PROVE  Without(s) \in Subsets(S, m)
  <2>1. s \in SUBSET S /\ Cardinality(s) <= m + 1
    BY DEF Subsets
  <2>2. Cardinality(s) \in Nat /\ Without(s) \in SUBSET S /\ Cardinality(Without(s)) = Cardinality(s) - 1
    BY <1>4, <2>1, SmallerWithout
  <2>3. QED
    BY <2>1, <2>2 DEF Subsets
<1>5. QED
  BY <1>2, <1>3, <1>4

\* The sums that MapThenSumSet describes exist: they do for the subsets of at
\* most m members, for every m.
LEMMA SumsExist ==
    ASSUME NEW S, IsFiniteSet(S), NEW w
    PROVE  \E g : SumsOn(g, w, SUBSET S)
<1> DEFINE n == Cardinality(S)
           T == {m \in 0 .. n : \E g : SumsOn(g, w, Subsets(S, m))}
<1>1. n \in Nat
  BY FS_CardinalityType
<1>2. 0 \in T
  <2>1. SumsOn([s \in {{}} |-> 0], w, {{}})
    BY DEF SumsOn
  <2>2. \E g : SumsOn(g, w, Subsets(S, 0))
    BY <2>1, SubsetsGrow
  <2>3. QED
    BY <1>1, <2>2
<1>3. ASSUME NEW m \in 0 .. n - 1, m \in T
      PROVE  m + 1 \in T
  <2>1. m \in Nat /\ m + 1 \in 0 .. n
    BY <1>1
  <2>2. PICK g : SumsOn(g, w, Subsets(S, m))
    BY <1>3
  <2> DEFINE h == [s \in Subsets(S, m + 1) |->
                      IF s = {} THEN 0 ELSE w[Pick(s)] + g[Without(s)]]
  <2>3. \A s \in Subsets(S, m) : h[s] = g[s]
    BY <2>1, <2>2, SubsetsGrow DEF SumsOn
  <2>4. \A s \in Subsets(S, m + 1) : s # {} => h[Without(s)] = g[Without(s)]
    BY <2>1, <2>3, SubsetsGrow
  <2>5. SumsOn(h, w, Subsets(S, m + 1))
    BY <2>4 DEF SumsOn
  <2>6. \E f : SumsOn(f, w, Subsets(S, m + 1))
    BY <2>5
  <2>7. QED
    BY <2>1, <2>6
<1>4. n \in T
  <2> HIDE DEF T
  <2>1. QED
    BY <1>1, <1>2, <1>3, UpTo
<1>5. Subsets(S, n) = SUBSET S
  BY FS_Subset, FS_CardinalityType DEF Subsets
<1>6. QED
  BY <1>4, <1>5

AllOf(cells, s) == UNION {cells[x] : x \in s}

\* The sum counts what the members hold, if they hold nothing in common.
LEMMA SumCounts ==
    ASSUME NEW S, IsFiniteSet(S), NEW w, NEW g, SumsOn(g, w, SUBSET S), NEW cells,
           \A x \in S : IsFiniteSet(cells[x]) /\ Cardinality(cells[x]) = w[x],
           \A x, y \in S : x # y => cells[x] \cap cells[y] = {}
    PROVE  IsFiniteSet(AllOf(cells, S)) /\ g[S] = Cardinality(AllOf(cells, S))
<1> DEFINE n == Cardinality(S)
           Held(s) == AllOf(cells, s)
           T == {m \in 0 .. n : \A s \in Subsets(S, m) :
                                   IsFiniteSet(Held(s)) /\ g[s] = Cardinality(Held(s))}
<1>1. n \in Nat
  BY FS_CardinalityType
<1>2. 0 \in T
  <2>1. Held({}) = {} /\ g[{}] = 0
    BY DEF SumsOn, AllOf
  <2>2. \A s \in Subsets(S, 0) : IsFiniteSet(Held(s)) /\ g[s] = Cardinality(Held(s))
    BY <2>1, SubsetsGrow, FS_EmptySet
  <2>3. QED
    <3> HIDE DEF Held, n
    <3>1. 0 \in 0 .. n
      BY <1>1
    <3>2. QED
      BY <2>2, <3>1
<1>3. ASSUME NEW m \in 0 .. n - 1, m \in T
      PROVE  m + 1 \in T
  <2>1. m \in Nat /\ m + 1 \in 0 .. n
    BY <1>1
  <2>2. ASSUME NEW s \in Subsets(S, m + 1)
        PROVE  IsFiniteSet(Held(s)) /\ g[s] = Cardinality(Held(s))
    <3>1. s \in SUBSET S
      BY DEF Subsets
    <3>2. CASE s = {}
      <4>1. Held({}) = {} /\ g[{}] = 0
        BY DEF SumsOn, AllOf
      <4>2. QED
        BY <3>2, <4>1, FS_EmptySet
    <3>3. CASE s # {}
      <4> DEFINE x == Pick(s)
                 r == Without(s)
      <4>1. x \in S /\ r \in SUBSET S /\ s = r \cup {x} /\ x \notin r
        BY <3>1, <3>3, SmallerWithout
      <4>2. g[s] = w[x] + g[r]
        BY <3>1, <3>3 DEF SumsOn
      <4>3. r \in Subsets(S, m)
        BY <2>1, <3>3, SubsetsGrow
      <4> HIDE DEF x, r
      <4>4. IsFiniteSet(Held(r)) /\ g[r] = Cardinality(Held(r))
        BY <1>3, <4>3
      <4>5. Held(s) = Held(r) \cup cells[x]
        BY <4>1 DEF AllOf
      <4>6. Held(r) \cap cells[x] = {}
        BY <4>1 DEF AllOf
      <4>7. IsFiniteSet(cells[x]) /\ Cardinality(cells[x]) = w[x]
        BY <4>1
      <4> HIDE DEF Held
      <4>8. Cardinality(Held(r)) \in Nat /\ Cardinality(cells[x]) \in Nat
        BY <4>4, <4>7, FS_CardinalityType
      <4>9. IsFiniteSet(Held(s)) /\ Cardinality(Held(s)) = Cardinality(Held(r)) + Cardinality(cells[x])
        <5>1. /\ IsFiniteSet(Held(r) \cup cells[x])
              /\ Cardinality(Held(r) \cup cells[x]) =
                    Cardinality(Held(r)) + Cardinality(cells[x]) - Cardinality(Held(r) \cap cells[x])
          BY <4>4, <4>7, FS_Union
        <5>2. Cardinality(Held(r) \cap cells[x]) = 0
          BY <4>6, FS_EmptySet
        <5>3. QED
          BY <4>5, <4>8, <5>1, <5>2
      <4>10. QED
        BY <4>2, <4>4, <4>7, <4>8, <4>9
    <3>4. QED
      BY <3>2, <3>3
  <2>3. QED
    BY <2>1, <2>2
<1>4. n \in T
  <2> HIDE DEF T
  <2>1. QED
    BY <1>1, <1>2, <1>3, UpTo
<1>5. S \in Subsets(S, n)
  BY <1>1 DEF Subsets
<1>6. QED
  BY <1>4, <1>5

-----------------------------------------------------------------------------
(* The inductive invariant *)

\* The three answers: refused unsolved, unsatisfiable, solved.
Refused == [Unanswered EXCEPT !.status = "failed", !.reason = "data_infeasible"]

Explained == [Unanswered EXCEPT !.status = "failed",
                 !.reason = IF conflicts # {} THEN "user_constraints" ELSE "base_model",
                 !.conflicts = conflicts]

Solved == [Unanswered EXCEPT !.status = "solved", !.sessions = SessionsOf(plan),
              !.used = {constraints[c].id : c \in DOMAIN constraints} \ {NoId}]

\* No timetable of the model, however few of the lecturers' constraints it keeps.
Impossible == ~ \E t \in Timetables : LecturersFree(t) /\ CohortsFree(t)

\* The data are those of one of the requests.
RequestInv == \E r \in Requests : offerings = r.offerings /\ constraints = r.constraints

\* The search: what is still assumed and what it was found to conflict with.
SearchInv ==
    /\ RequestInv
    /\ pc \in {"preflight", "search", "report", "done"}
    /\ conflicts \subseteq Assumptions
    /\ conflicts # {} => Satisfying(conflicts) = {}
    /\ pc = "preflight" => conflicts = {} /\ status = "none"
    /\ pc \in {"search", "report"} => remaining = Assumptions \ conflicts
    /\ status = "feasible" =>
          pc \in {"report", "done"} /\ plan \in Satisfying(Assumptions \ conflicts)

\* The answer says what became of the search.
AnswerInv ==
    \/ pc # "done" /\ answer = Unanswered
    \/ pc = "done" /\ answer = Refused /\ Impossible
    \/ pc = "done" /\ Failed /\ answer = Explained
    \/ pc = "done" /\ ~Failed /\ answer = Solved

CspInv == SearchInv /\ AnswerInv

\* More assumptions leave fewer timetables.
LEMMA FewerSatisfying ==
    ASSUME NEW S, NEW U, S \subseteq U
    PROVE  Satisfying(U) \subseteq Satisfying(S)
  BY DEF Satisfying

\* The invariant holds before the preflight.
LEMMA CspInvInit ==
    ASSUME Init
    PROVE  CspInv
  BY DEF Init, CspInv, SearchInv, RequestInv, AnswerInv

\* Data that stay the same say the same of a timetable.
LEMMA SamePossible ==
    ASSUME SameData
    PROVE  Impossible' = Impossible
  BY SameTimetables, SameRules DEF Impossible

\* No step but the answer touches it, and the data stay.
LEMMA SearchStep ==
    ASSUME SearchInv, SameData
    PROVE  /\ RequestInv'
           /\ Assumptions' = Assumptions
           /\ \A S : Satisfying(S)' = Satisfying(S)
<1>1. RequestInv'
  BY DEF SearchInv, RequestInv, SameData
<1>2. QED
  BY <1>1, SameRules, SameSatisfying

\* Building the model assumes every constraint that is a lecturer's wish.
LEMMA BuildModelKeeps ==
    ASSUME CspInv, BuildModel
    PROVE  CspInv'
<1>1. /\ pc = "preflight" /\ pc' = "search" /\ remaining' = Assumptions /\ SameData
      /\ UNCHANGED <<conflicts, status, plan, answer>>
  BY DEF BuildModel, SameData
<1>2. SearchInv /\ answer = Unanswered
  BY <1>1 DEF CspInv, AnswerInv
<1>3. SearchInv'
  BY <1>1, <1>2, SearchStep DEF SearchInv
<1>4. AnswerInv'
  BY <1>1, <1>2 DEF AnswerInv
<1>5. QED
  BY <1>3, <1>4 DEF CspInv

\* A solution satisfies what is still assumed.
LEMMA SolveFeasibleKeeps ==
    ASSUME CspInv, SolveFeasible
    PROVE  CspInv'
<1>1. /\ pc = "search" /\ pc' = "report" /\ SameData /\ status' = "feasible"
      /\ plan' \in Satisfying(remaining)
      /\ UNCHANGED <<remaining, conflicts, answer>>
  BY DEF SolveFeasible, CanSolve, SameData
<1>2. SearchInv /\ answer = Unanswered
  BY <1>1 DEF CspInv, AnswerInv
<1>3. remaining = Assumptions \ conflicts
  BY <1>1, <1>2 DEF SearchInv
<1>4. SearchInv'
  BY <1>1, <1>2, <1>3, SearchStep DEF SearchInv
<1>5. AnswerInv'
  BY <1>1, <1>2 DEF AnswerInv
<1>6. QED
  BY <1>4, <1>5 DEF CspInv

\* A core is added to the conflicts: with it they cannot be satisfied.
LEMMA SolveInfeasibleKeeps ==
    ASSUME CspInv, SolveInfeasible
    PROVE  CspInv'
<1>1. PICK core \in SUBSET remaining :
          /\ Satisfying(core) = {} /\ conflicts' = conflicts \cup core
          /\ remaining' = remaining \ core /\ pc' \in {"report", "search"}
  BY DEF SolveInfeasible
<1>2. /\ pc = "search" /\ SameData /\ status' = "infeasible" /\ UNCHANGED answer
  BY DEF SolveInfeasible, CanSolve, SameData
<1>3. SearchInv /\ answer = Unanswered /\ remaining = Assumptions \ conflicts
  BY <1>2 DEF CspInv, AnswerInv, SearchInv
<1>4. Satisfying(conflicts') = {}
  BY <1>1, FewerSatisfying
<1>5. conflicts' \subseteq Assumptions /\ remaining' = Assumptions \ conflicts'
  BY <1>1, <1>3 DEF SearchInv
<1>6. SearchInv'
  BY <1>1, <1>2, <1>3, <1>4, <1>5, SearchStep DEF SearchInv
<1>7. AnswerInv'
  BY <1>1, <1>2, <1>3 DEF AnswerInv
<1>8. QED
  BY <1>6, <1>7 DEF CspInv

\* Giving up the search keeps what it found.
LEMMA StoppingKeeps ==
    ASSUME CspInv, SolveUnknown \/ StopSearching
    PROVE  CspInv'
<1>1. /\ pc = "search" /\ pc' = "report" /\ SameData /\ status' \in {status, "unknown"}
      /\ UNCHANGED <<remaining, conflicts, plan, answer>>
  BY DEF SolveUnknown, StopSearching, CanSolve, SameData
<1>2. SearchInv /\ answer = Unanswered
  BY <1>1 DEF CspInv, AnswerInv
<1>3. SearchInv'
  BY <1>1, <1>2, SearchStep DEF SearchInv
<1>4. AnswerInv'
  BY <1>1, <1>2 DEF AnswerInv
<1>5. QED
  BY <1>3, <1>4 DEF CspInv

\* The sessions of a plan are the same while the data are.
LEMMA SameSessions ==
    ASSUME SameData, plan' = plan, conflicts' = conflicts, status' = status
    PROVE  Solved' = Solved /\ Explained' = Explained /\ Failed' = Failed
<1>1. offerings' = offerings /\ constraints' = constraints
  BY DEF SameData
<1>2. SessionsOf(plan)' = SessionsOf(plan)
  BY <1>1, SameOfferings DEF SessionsOf
<1>3. Explained' = Explained /\ Failed' = Failed
  BY DEF Explained, Failed
<1>4. QED
  BY <1>1, <1>2, <1>3 DEF Solved

\* The answer is made of what the search found.
LEMMA ReportKeeps ==
    ASSUME CspInv, Report
    PROVE  CspInv'
<1>1. /\ pc = "report" /\ pc' = "done" /\ SameData
      /\ UNCHANGED <<remaining, conflicts, status, plan>>
      /\ answer' = IF Failed THEN Explained ELSE Solved
  BY DEF Report, SameData, Explained, Solved
<1>2. SearchInv
  BY DEF CspInv
<1>3. SearchInv'
  BY <1>1, <1>2, SearchStep DEF SearchInv
<1>4. AnswerInv'
  BY <1>1, SameSessions DEF AnswerInv
<1>5. QED
  BY <1>3, <1>4 DEF CspInv

\* Where nothing changes, nothing does.
LEMMA UnchangedKeeps ==
    ASSUME CspInv, UNCHANGED vars
    PROVE  CspInv'
<1>1. SameData /\ UNCHANGED <<pc, remaining, conflicts, status, plan, answer>>
  BY DEF vars, SameData
<1>2. SearchInv'
  BY <1>1, SearchStep DEF SearchInv, CspInv
<1>3. AnswerInv'
  BY <1>1, SameSessions, SamePossible DEF AnswerInv, CspInv, Refused
<1>4. QED
  BY <1>2, <1>3 DEF CspInv

-----------------------------------------------------------------------------
(* What a timetable is *)

\* Every group that is to be placed has a number of hours.
LEMMA OfferingsAre ==
    ASSUME RequestInv
    PROVE  /\ Len(offerings) \in Nat /\ Offerings = 1 .. Len(offerings) /\ Offerings \subseteq Nat
           /\ IsFiniteSet(Offerings)
           /\ \A i \in Offerings : offerings[i].credits \in Nat /\ hours(i) \in Nat \ {0}
           /\ \A i, j \in Offerings :
                 offerings[i].course = offerings[j].course => hours(i) = hours(j)
<1>1. /\ Len(offerings) \in Nat /\ Offerings = 1 .. Len(offerings)
      /\ \A i \in Offerings : offerings[i].credits \in Nat
      /\ \A i, j \in Offerings : offerings[i].course = offerings[j].course =>
            offerings[i].credits = offerings[j].credits
  BY CspRequests DEF RequestInv, Offerings
<1>2. ASSUME NEW i \in Offerings
      PROVE  hours(i) \in Nat \ {0}
  <2> DEFINE n == offerings[i].credits
  <2>1. n \in Nat
    BY <1>1
  <2> HIDE DEF n
  <2>2. CourseHours(n) \in Nat \ {0}
    <3>1. n > 10 => (n + 1) \div 2 \in Nat \ {0}
      BY <2>1
    <3>2. CASE n <= 10
      BY <2>1, <3>2 DEF CourseHours
    <3>3. CASE n > 10
      BY <2>1, <3>1, <3>3 DEF CourseHours
    <3>4. QED
      BY <2>1, <3>2, <3>3
  <2>3. QED
    BY <2>2 DEF hours, n
<1>3. IsFiniteSet(Offerings)
  BY <1>1, FS_Interval
<1>4. \A i, j \in Offerings : offerings[i].course = offerings[j].course => hours(i) = hours(j)
  BY <1>1 DEF hours
<1>5. QED
  BY <1>1, <1>2, <1>3, <1>4

\* A day has a number of slots.
LEMMA SlotsAre ==
    ASSUME NEW d \in Days
    PROVE  Slots(d) \in Nat /\ EndOf(d) \in Nat
  BY WorkingHours DEF Slots, EndOf

\* A timetable places every group within its day.
LEMMA PlacementsAre ==
    ASSUME RequestInv, NEW t \in Timetables, NEW i \in Offerings
    PROVE  /\ t[i].day \in Days /\ t[i].start \in Nat
           /\ t[i].start + hours(i) <= Slots(t[i].day)
<1>1. t[i] \in Placements(i)
  BY DEF Timetables
<1>2. StartHour \in Nat /\ EndRegular \in Nat
  BY WorkingHours
<1>3. QED
  BY <1>1, <1>2 DEF Placements

\* Two placements that do not overlap share no slot of the day.
LEMMA NoOverlapIsDisjoint ==
    ASSUME RequestInv, NEW t \in Timetables, NEW i \in Offerings, NEW j \in Offerings,
           NoOverlap(t, i, j), t[i].day = t[j].day, NEW x \in Int,
           t[i].start <= x, x < t[i].start + hours(i),
           t[j].start <= x, x < t[j].start + hours(j)
    PROVE  FALSE
<1>1. /\ t[i].start \in Nat /\ t[j].start \in Nat /\ hours(i) \in Nat /\ hours(j) \in Nat
  BY PlacementsAre, OfferingsAre
<1>2. \/ t[i].start + hours(i) <= t[j].start
      \/ t[j].start + hours(j) <= t[i].start
  BY DEF NoOverlap
<1>3. QED
  BY <1>1, <1>2

\* The group of a course that stands for it is the first of those that fit.
LEMMA RepresentativeIsMin ==
    ASSUME RequestInv, NEW c, NEW k, NEW d \in Days, Groups(c, k) # {},
           hours(Min(Groups(c, k))) <= Slots(d)
    PROVE  Representative(c, k, d) = {Min(Groups(c, k))}
<1> DEFINE all == Groups(c, k)
           fit == {i \in all : hours(i) <= Slots(d)}
<1>1. all \subseteq Nat
  BY OfferingsAre DEF Groups
<1>2. Min(all) \in fit /\ fit \subseteq Nat
  BY <1>1, MinOfNaturals
<1>3. Min(fit) \in fit /\ (\A x \in fit : Min(fit) <= x)
  BY <1>2, MinOfNaturals
<1>4. Min(fit) = Min(all)
  <2>1. Min(all) <= Min(fit) /\ Min(fit) <= Min(all)
    BY <1>1, <1>2, <1>3, MinOfNaturals
  <2>2. QED
    BY <1>1, <1>2, <1>3, <2>1
<1>5. QED
  BY <1>2, <1>4 DEF Representative

\* A cohort can attend the first group of each of its courses.
LEMMA FirstGroupsDoNotOverlap ==
    ASSUME RequestInv, NEW t \in Timetables, CohortsFree(t), NEW c \in Cohorts,
           NEW k \in CoursesOf(c), NEW m \in CoursesOf(c), k # m
    PROVE  LET i == Min(Groups(c, k))
               j == Min(Groups(c, m))
           IN  i \in Groups(c, k) /\ j \in Groups(c, m) /\ NoOverlap(t, i, j)
<1> DEFINE i == Min(Groups(c, k))
           j == Min(Groups(c, m))
<1>1. Groups(c, k) # {} /\ Groups(c, m) # {}
  BY DEF CoursesOf, Groups
<1>2. Groups(c, k) \subseteq Nat /\ Groups(c, m) \subseteq Nat
  BY OfferingsAre DEF Groups
<1>3. i \in Groups(c, k) /\ j \in Groups(c, m)
  BY <1>1, <1>2, MinOfNaturals
<1>4. i \in Offerings /\ j \in Offerings /\ i # j
  BY <1>3 DEF Groups
<1>5. CASE t[i].day # t[j].day
  BY <1>3, <1>5 DEF NoOverlap
<1>6. CASE t[i].day = t[j].day
  <2> DEFINE d == t[i].day
  <2>1. /\ d \in Days /\ t[i].start \in Nat /\ t[j].start \in Nat
        /\ hours(i) \in Nat /\ hours(j) \in Nat /\ Slots(d) \in Nat
        /\ t[i].start + hours(i) <= Slots(d) /\ t[j].start + hours(j) <= Slots(d)
    BY <1>4, <1>6, PlacementsAre, OfferingsAre, SlotsAre
  <2>2. hours(i) <= Slots(d) /\ hours(j) <= Slots(d)
    BY <2>1
  <2>3. Representative(c, k, d) = {i} /\ Representative(c, m, d) = {j}
    BY <1>1, <2>1, <2>2, RepresentativeIsMin
  <2>4. i \in UNION {Representative(c, x, d) : x \in CoursesOf(c)}
        /\ j \in UNION {Representative(c, x, d) : x \in CoursesOf(c)}
    BY <2>3
  <2>5. NoOverlap(t, i, j)
    BY <1>4, <1>6, <2>1, <2>4 DEF CohortsFree
  <2>6. QED
    BY <1>3, <2>5
<1>7. QED
  BY <1>5, <1>6

-----------------------------------------------------------------------------
(* What an answer says *)

\* The three answers differ in what they say.
LEMMA AnswerFields ==
    /\ Unanswered.status = "none" /\ Unanswered.reason = "none" /\ Unanswered.sessions = {}
    /\ Refused.status = "failed" /\ Refused.reason = "data_infeasible" /\ Refused.sessions = {}
    /\ Explained.status = "failed" /\ Explained.sessions = {} /\ Explained.conflicts = conflicts
    /\ Explained.reason = IF conflicts # {} THEN "user_constraints" ELSE "base_model"
    /\ Solved.status = "solved" /\ Solved.reason = "none" /\ Solved.sessions = SessionsOf(plan)
<1>1. Unanswered.status = "none" /\ Unanswered.reason = "none" /\ Unanswered.sessions = {}
  BY DEF Unanswered
<1>2. Refused.status = "failed" /\ Refused.reason = "data_infeasible" /\ Refused.sessions = {}
  BY DEF Unanswered, Refused
<1>3. /\ Explained.status = "failed" /\ Explained.sessions = {} /\ Explained.conflicts = conflicts
      /\ Explained.reason = IF conflicts # {} THEN "user_constraints" ELSE "base_model"
  BY DEF Unanswered, Explained
<1>4. Solved.status = "solved" /\ Solved.reason = "none" /\ Solved.sessions = SessionsOf(plan)
  BY DEF Unanswered, Solved
<1>5. QED
  BY <1>1, <1>2, <1>3, <1>4

\* A rule that is considered is of a day and a slot of the configuration.
LEMMA RuleSlots ==
    ASSUME RequestInv, NEW a \in Blocks
    PROVE  rule(a).slot \in TimeSlots \cup {NoSlot}
<1>1. PICK c \in DOMAIN constraints : a \in {c} \X DOMAIN constraints[c].rules
  BY DEF Blocks
<1>2. a[1] = c /\ a[2] \in DOMAIN constraints[c].rules
  BY <1>1
<1>3. constraints[c].rules[a[2]].slot \in TimeSlots \cup {NoSlot}
  BY <1>2, CspRequests DEF RequestInv
<1>4. QED
  BY <1>2, <1>3 DEF rule

\* A start that is not forbidden keeps every hour of the session out of a slot.
LEMMA AllowedStarts ==
    ASSUME NEW slot \in TimeSlots, NEW start \in Nat, NEW h \in Nat,
           start \notin ForbiddenStarts(slot, h)
    PROVE  \/ StartHour + start + h <= slot.start_hour
           \/ slot.end_hour <= StartHour + start
<1>1. slot.start_hour \in Int /\ slot.end_hour \in Int /\ StartHour \in Nat
  BY WorkingHours DEF TimeSlots
<1> DEFINE first == slot.start_hour - StartHour - h + 1
           last == slot.end_hour - StartHour - 1
<1>2. first \in Int /\ last \in Int
  BY <1>1
<1>3. ~(first <= start /\ start <= last)
  BY <1>2 DEF ForbiddenStarts
<1>4. QED
  BY <1>1, <1>3

\* What a placement keeps of a block.
LEMMA RespectedBlock ==
    ASSUME RequestInv, NEW t \in Timetables, NEW a \in Blocks, Respects(t, a),
           NEW i \in OfferingsOf(constraints[a[1]].lecturer), t[i].day \in rule(a).days
    PROVE  /\ rule(a).slot \in TimeSlots
           /\ \/ StartHour + t[i].start + hours(i) <= rule(a).slot.start_hour
              \/ rule(a).slot.end_hour <= StartHour + t[i].start
<1>1. /\ ~IsFullDay(rule(a).slot, t[i].day)
      /\ t[i].start \notin ForbiddenStarts(rule(a).slot, hours(i))
  BY DEF Respects
<1>2. rule(a).slot \in TimeSlots
  BY <1>1, RuleSlots DEF IsFullDay
<1>3. i \in Offerings
  BY DEF OfferingsOf
<1>4. t[i].start \in Nat /\ hours(i) \in Nat
  BY <1>3, PlacementsAre, OfferingsAre
<1>5. QED
  BY <1>1, <1>2, <1>4, AllowedStarts

\* What the invariant says of an answer with a timetable.
LEMMA SolvedPlan ==
    ASSUME CspInv, answer.status = "solved"
    PROVE  /\ RequestInv /\ plan \in Timetables /\ LecturersFree(plan) /\ CohortsFree(plan)
           /\ \A a \in Blocks : Respects(plan, a)
           /\ answer = Solved
<1>1. answer = Solved /\ ~Failed
  BY AnswerFields DEF CspInv, AnswerInv
<1>2. conflicts = {} /\ status = "feasible"
  BY <1>1 DEF Failed
<1>3. plan \in Satisfying(Assumptions)
  BY <1>2 DEF CspInv, SearchInv
<1>4. RequestInv
  BY DEF CspInv, SearchInv
<1>5. QED
  BY <1>1, <1>3, <1>4 DEF Satisfying

\* A solved answer gives every group one session and keeps lecturers and cohorts
\* free of overlaps.
LEMMA SolvedPlanIsTimetable ==
    ASSUME CspInv
    PROVE  SolvedIsTimetable
<1> SUFFICES ASSUME answer.status = "solved"
             PROVE  /\ \A i \in Offerings : HoursOf(plan[i], hours(i)) \subseteq
                          StartHour .. StartHour + Slots(plan[i].day) - 1
                    /\ \A l \in Lecturers : \A i, j \in OfferingsOf(l) : i = j \/ ~Clash(i, j)
                    /\ \A c \in Cohorts : Attendable(c)
                    /\ \A a \in Blocks : \A i \in OfferingsOf(constraints[a[1]].lecturer) :
                          plan[i].day \in rule(a).days =>
                              HoursOf(plan[i], hours(i)) \cap BlockedHours(rule(a).slot) = {}
  BY DEF SolvedIsTimetable
<1>1. /\ RequestInv /\ plan \in Timetables /\ LecturersFree(plan) /\ CohortsFree(plan)
      /\ \A a \in Blocks : Respects(plan, a)
  BY SolvedPlan
<1>2. StartHour \in Nat
  BY WorkingHours
<1>3. ASSUME NEW i \in Offerings
      PROVE  /\ plan[i].day \in Days /\ plan[i].start \in Nat /\ hours(i) \in Nat
             /\ Slots(plan[i].day) \in Nat
             /\ plan[i].start + hours(i) <= Slots(plan[i].day)
  BY <1>1, PlacementsAre, OfferingsAre, SlotsAre
<1>4. ASSUME NEW i \in Offerings, NEW x \in HoursOf(plan[i], hours(i))
      PROVE  /\ x \in Int /\ plan[i].start <= x - StartHour
             /\ x - StartHour < plan[i].start + hours(i)
             /\ x \in StartHour .. StartHour + Slots(plan[i].day) - 1
  BY <1>2, <1>3 DEF HoursOf
<1>5. ASSUME NEW i \in Offerings, NEW j \in Offerings, NoOverlap(plan, i, j)
      PROVE  ~Clash(i, j)
  <2> SUFFICES ASSUME plan[i].day = plan[j].day, NEW x \in HoursOf(plan[i], hours(i)),
                      x \in HoursOf(plan[j], hours(j))
               PROVE  FALSE
    BY DEF Clash
  <2>1. /\ x - StartHour \in Int
        /\ plan[i].start <= x - StartHour /\ x - StartHour < plan[i].start + hours(i)
        /\ plan[j].start <= x - StartHour /\ x - StartHour < plan[j].start + hours(j)
    BY <1>2, <1>4
  <2>2. QED
    BY <1>1, <1>5, <2>1, NoOverlapIsDisjoint
<1>6. \A i \in Offerings : HoursOf(plan[i], hours(i)) \subseteq
          StartHour .. StartHour + Slots(plan[i].day) - 1
  BY <1>4
<1>7. \A l \in Lecturers : \A i, j \in OfferingsOf(l) : i = j \/ ~Clash(i, j)
  BY <1>1, <1>5 DEF LecturersFree, OfferingsOf
<1>8. ASSUME NEW c \in Cohorts
      PROVE  Attendable(c)
  <2> DEFINE group == [k \in CoursesOf(c) |-> Min(Groups(c, k))]
  <2>1. ASSUME NEW k \in CoursesOf(c)
        PROVE  group[k] \in Groups(c, k) /\ group[k] \in Offerings
    <3>1. Groups(c, k) # {} /\ Groups(c, k) \subseteq Offerings
      BY DEF CoursesOf, Groups
    <3>2. Groups(c, k) \subseteq Nat
      BY <1>1, <3>1, OfferingsAre
    <3>3. QED
      BY <3>1, <3>2, MinOfNaturals
  <2>2. ASSUME NEW k \in CoursesOf(c), NEW m \in CoursesOf(c), k # m
        PROVE  ~Clash(group[k], group[m])
    BY <1>1, <1>5, <2>1, <2>2, FirstGroupsDoNotOverlap
  <2>3. group \in [CoursesOf(c) -> Offerings]
    BY <2>1
  <2> HIDE DEF group
  <2>4. QED
    BY <2>1, <2>2, <2>3 DEF Attendable
<1>9. ASSUME NEW a \in Blocks, NEW i \in OfferingsOf(constraints[a[1]].lecturer),
             plan[i].day \in rule(a).days
      PROVE  HoursOf(plan[i], hours(i)) \cap BlockedHours(rule(a).slot) = {}
  <2>1. i \in Offerings
    BY DEF OfferingsOf
  <2>2. /\ rule(a).slot \in TimeSlots
        /\ \/ StartHour + plan[i].start + hours(i) <= rule(a).slot.start_hour
           \/ rule(a).slot.end_hour <= StartHour + plan[i].start
    BY <1>1, <1>9, RespectedBlock
  <2>3. /\ rule(a).slot.start_hour \in Int /\ rule(a).slot.end_hour \in Int
        /\ rule(a).slot # NoSlot
    BY <2>2, NoSlotIsNone DEF TimeSlots
  <2>4. plan[i].start \in Nat /\ hours(i) \in Nat
    BY <1>3, <2>1
  <2>5. BlockedHours(rule(a).slot) = rule(a).slot.start_hour .. rule(a).slot.end_hour - 1
    BY <2>3 DEF BlockedHours
  <2>6. \A x, h, f, t \in Int : x + h <= f \/ t <= x => (x .. x + h - 1) \cap (f .. t - 1) = {}
    OBVIOUS
  <2>7. StartHour + plan[i].start \in Int
    BY <1>2, <2>4
  <2>8. QED
    BY <2>2, <2>3, <2>4, <2>5, <2>6, <2>7 DEF HoursOf
<1>10. QED
  BY <1>6, <1>7, <1>8, <1>9

\* The sessions of a solved answer break no constraint that was not given up.
LEMMA SolvedSessionsBreakNothing ==
    ASSUME CspInv
    PROVE  SolvedBreaksNothing
<1> SUFFICES ASSUME NEW s \in answer.sessions, NEW a \in Blocks,
                    s.lecturer = constraints[a[1]].lecturer, WholeHours(rule(a).slot),
                    atomic_breaks_session(rule(a).days, rule(a).slot,
                        [day |-> s.day, slot |-> TimeSlot(s.from, s.until)])
             PROVE  FALSE
  BY DEF SolvedBreaksNothing
<1>1. answer.status = "solved"
  BY AnswerFields DEF CspInv, AnswerInv
<1>2. /\ RequestInv /\ plan \in Timetables /\ \A x \in Blocks : Respects(plan, x)
      /\ answer.sessions = SessionsOf(plan)
  BY <1>1, SolvedPlan, AnswerFields
<1>3. PICK i \in Offerings, l \in Lecturers :
          /\ l \in offerings[i].lecturers /\ s.lecturer = l /\ s.day = plan[i].day
          /\ s.from = StartHour + plan[i].start
          /\ s.until = StartHour + plan[i].start + hours(i)
  BY <1>2 DEF SessionsOf
<1>4. i \in OfferingsOf(constraints[a[1]].lecturer)
  BY <1>3 DEF OfferingsOf
<1>5. plan[i].day \in rule(a).days
  BY <1>3 DEF atomic_breaks_session
<1>6. /\ rule(a).slot \in TimeSlots
      /\ \/ StartHour + plan[i].start + hours(i) <= rule(a).slot.start_hour
         \/ rule(a).slot.end_hour <= StartHour + plan[i].start
  BY <1>2, <1>4, <1>5, RespectedBlock
<1>7. /\ rule(a).slot # NoSlot
      /\ rule(a).slot.start_hour \in Int /\ rule(a).slot.end_hour \in Int
      /\ rule(a).slot.start_minute = 0 /\ rule(a).slot.end_minute = 0
  BY <1>6, NoSlotIsNone DEF TimeSlots, WholeHours
<1>8. /\ plan[i].start \in Nat /\ hours(i) \in Nat /\ StartHour \in Nat
  BY <1>2, PlacementsAre, OfferingsAre, WorkingHours
<1>9. Meet(rule(a).slot, TimeSlot(s.from, s.until))
  BY <1>7 DEF atomic_breaks_session
<1>10. /\ rule(a).slot.start_hour * 60 < s.until * 60
       /\ s.from * 60 < rule(a).slot.end_hour * 60
  BY <1>3, <1>7, <1>8, <1>9 DEF Meet, TimeSlot, from_minutes, to_minutes
<1>11. rule(a).slot.start_hour < s.until /\ s.from < rule(a).slot.end_hour
  BY <1>3, <1>7, <1>8, <1>10
<1>12. QED
  BY <1>3, <1>6, <1>7, <1>8, <1>11

\* A report of conflicts names constraints that no timetable satisfies together.
LEMMA ReportExplains ==
    ASSUME CspInv
    PROVE  ReportExplainsFailure
<1> SUFFICES ASSUME answer.reason = "user_constraints"
             PROVE  /\ answer.conflicts # {}
                    /\ \A a \in answer.conflicts : rule(a).type = "block" /\ ~IsHard(a)
                    /\ Satisfying(answer.conflicts) = {}
                    /\ status = "feasible" => Satisfying(Assumptions \ answer.conflicts) # {}
  BY DEF ReportExplainsFailure
<1>1. answer = Explained /\ conflicts # {}
  BY AnswerFields DEF CspInv, AnswerInv
<1>2. answer.conflicts = conflicts
  BY <1>1, AnswerFields
<1>3. conflicts \subseteq Assumptions /\ Satisfying(conflicts) = {}
  BY <1>1 DEF CspInv, SearchInv
<1>4. status = "feasible" => plan \in Satisfying(Assumptions \ conflicts)
  BY DEF CspInv, SearchInv
<1>5. QED
  BY <1>1, <1>2, <1>3, <1>4 DEF Assumptions, Blocks

\* What is refused without a solve has no timetable at all.
LEMMA RefusalIsForGood ==
    ASSUME CspInv
    PROVE  RefusalIsRight
<1>1. answer.reason = "data_infeasible" => Impossible
  BY AnswerFields DEF CspInv, AnswerInv
<1>2. QED
  BY <1>1 DEF RefusalIsRight, Impossible

-----------------------------------------------------------------------------
(* What the preflight refuses has no timetable *)

\* The slots of the week, and those a session takes of them.
Cells(d, from, n) == {d} \X (from .. from + n - 1)
DayCells == [d \in Days |-> Cells(d, 0, Slots(d))]
Week == AllOf(DayCells, Days)
CellsOf(t, i) == Cells(t[i].day, t[i].start, hours(i))

\* A session of n hours takes n slots of its day.
LEMMA CellsCounted ==
    ASSUME NEW d, NEW from \in Nat, NEW n \in Nat
    PROVE  IsFiniteSet(Cells(d, from, n)) /\ Cardinality(Cells(d, from, n)) = n
<1> DEFINE days == {d}
           starts == from .. from + n - 1
<1>1. IsFiniteSet(days) /\ Cardinality(days) = 1
  BY FS_Singleton
<1>2. IsFiniteSet(starts) /\ Cardinality(starts) = n
  BY FS_Interval
<1> HIDE DEF days, starts
<1>3. IsFiniteSet(days \X starts) /\ Cardinality(days \X starts) = 1 * n
  BY <1>1, <1>2, FS_Product
<1>4. QED
  BY <1>3 DEF Cells, days, starts

\* The week has as many slots as its days have.
LEMMA WeekCounted ==
    IsFiniteSet(Week) /\ Cardinality(Week) = WeeklyCapacity /\ WeeklyCapacity \in Nat
<1> DEFINE w == [d \in Days |-> Slots(d)]
           Sums(g) == g = [s \in SUBSET Days |-> IF s = {} THEN 0
                         ELSE Slots(CHOOSE x \in s : TRUE) + g[s \ {CHOOSE x \in s : TRUE}]]
<1>1. IsFiniteSet(Days)
  BY WorkingHours
<1>2. \A g : SumsOn(g, w, SUBSET Days) <=> Sums(g)
  BY DEF SumsOn, Pick, Without
<1>3. \E g : Sums(g)
  <2> HIDE DEF Sums, w
  <2>1. \E g : SumsOn(g, w, SUBSET Days)
    BY <1>1, SumsExist
  <2>2. QED
    BY <1>2, <2>1
<1>4. WeeklyCapacity = (CHOOSE g : Sums(g))[Days]
  BY DEF WeeklyCapacity, MapThenSumSet, MapThenFoldSet
<1> DEFINE g == CHOOSE f : Sums(f)
<1>5. SumsOn(g, w, SUBSET Days)
  <2> HIDE DEF Sums, w
  <2>1. QED
    BY <1>2, <1>3
<1>6. \A d \in Days : IsFiniteSet(DayCells[d]) /\ Cardinality(DayCells[d]) = w[d]
  <2> TAKE d \in Days
  <2>1. Slots(d) \in Nat /\ 0 \in Nat
    BY SlotsAre
  <2>2. QED
    BY <2>1, CellsCounted DEF DayCells
<1>7. \A d, e \in Days : d # e => DayCells[d] \cap DayCells[e] = {}
  BY DEF DayCells, Cells
<1> HIDE DEF g, w
<1>8. IsFiniteSet(Week) /\ g[Days] = Cardinality(Week)
  BY <1>1, <1>5, <1>6, <1>7, SumCounts DEF Week
<1>9. QED
  BY <1>4, <1>8, FS_CardinalityType DEF g

\* Sessions that do not overlap fit into the week together.
LEMMA FitsTheWeek ==
    ASSUME RequestInv, NEW t \in Timetables, NEW S, IsFiniteSet(S),
           NEW of \in [S -> Offerings],
           \A x, y \in S : x # y => NoOverlap(t, of[x], of[y]),
           NEW g, SumsOn(g, [x \in S |-> hours(of[x])], SUBSET S)
    PROVE  g[S] \in Nat /\ g[S] <= WeeklyCapacity
<1> DEFINE w == [x \in S |-> hours(of[x])]
           cells == [x \in S |-> CellsOf(t, of[x])]
           all == AllOf(cells, S)
<1>1. ASSUME NEW x \in S
      PROVE  /\ of[x] \in Offerings /\ t[of[x]].day \in Days /\ t[of[x]].start \in Nat
             /\ hours(of[x]) \in Nat
             /\ t[of[x]].start + hours(of[x]) <= Slots(t[of[x]].day)
             /\ Slots(t[of[x]].day) \in Nat
  BY PlacementsAre, OfferingsAre, SlotsAre
<1>2. ASSUME NEW x \in S
      PROVE  IsFiniteSet(cells[x]) /\ Cardinality(cells[x]) = w[x]
  BY <1>1, CellsCounted DEF CellsOf
<1>3. ASSUME NEW x \in S, NEW y \in S, x # y
      PROVE  cells[x] \cap cells[y] = {}
  <2> SUFFICES ASSUME NEW cell \in CellsOf(t, of[x]), cell \in CellsOf(t, of[y])
               PROVE  FALSE
    OBVIOUS
  <2>1. /\ t[of[x]].day = t[of[y]].day /\ cell[2] \in Int
        /\ t[of[x]].start <= cell[2] /\ cell[2] < t[of[x]].start + hours(of[x])
        /\ t[of[y]].start <= cell[2] /\ cell[2] < t[of[y]].start + hours(of[y])
    BY <1>1 DEF CellsOf, Cells
  <2>2. NoOverlap(t, of[x], of[y])
    BY <1>3
  <2>3. QED
    BY <1>1, <2>1, <2>2, NoOverlapIsDisjoint
<1>4. ASSUME NEW x \in S
      PROVE  cells[x] \subseteq Week
  <2> DEFINE d == t[of[x]].day
  <2>1. cells[x] \subseteq DayCells[d]
    BY <1>1 DEF CellsOf, DayCells, Cells
  <2>2. QED
    BY <1>1, <2>1 DEF Week, AllOf
<1> HIDE DEF w, cells
<1>5. IsFiniteSet(all) /\ g[S] = Cardinality(all)
  <2>1. SumsOn(g, w, SUBSET S)
    BY DEF w
  <2>2. QED
    BY <1>2, <1>3, <2>1, SumCounts
<1>6. all \subseteq Week
  BY <1>4 DEF AllOf
<1> HIDE DEF all
<1>7. QED
  BY <1>5, <1>6, WeekCounted, FS_Subset, FS_CardinalityType

\* A lecturer's sessions fit into the week.
LEMMA LecturerFits ==
    ASSUME RequestInv, NEW t \in Timetables, LecturersFree(t), NEW l \in Lecturers
    PROVE  ~(LecturerHours(l) > WeeklyCapacity)
<1> DEFINE S == OfferingsOf(l)
           of == [i \in S |-> i]
           w == [i \in S |-> hours(of[i])]
           Sums(g) == g = [s \in SUBSET S |-> IF s = {} THEN 0
                         ELSE hours(CHOOSE x \in s : TRUE) + g[s \ {CHOOSE x \in s : TRUE}]]
           g == CHOOSE f : Sums(f)
<1>1. S \subseteq Offerings /\ IsFiniteSet(S) /\ of \in [S -> Offerings]
  BY OfferingsAre, FS_Subset DEF OfferingsOf
<1>2. \A f : SumsOn(f, w, SUBSET S) <=> Sums(f)
  BY DEF SumsOn, Pick, Without
<1>3. \E f : Sums(f)
  <2> HIDE DEF Sums, w, S
  <2>1. \E f : SumsOn(f, w, SUBSET S)
    BY <1>1, SumsExist
  <2>2. QED
    BY <1>2, <2>1
<1>4. LecturerHours(l) = g[S]
  BY DEF LecturerHours, MapThenSumSet, MapThenFoldSet
<1>5. SumsOn(g, w, SUBSET S)
  <2> HIDE DEF Sums, w
  <2>1. QED
    BY <1>2, <1>3
<1>6. \A x, y \in S : x # y => NoOverlap(t, of[x], of[y])
  BY DEF LecturersFree
<1> HIDE DEF g, S, of
<1>7. g[S] \in Nat /\ g[S] <= WeeklyCapacity
  BY <1>1, <1>5, <1>6, FitsTheWeek
<1>8. QED
  BY <1>4, <1>7, WeekCounted

\* The groups of a course last equally long, and so does the last one read.
LEMMA GroupsLast ==
    ASSUME RequestInv, NEW c, NEW k \in CoursesOf(c)
    PROVE  /\ Min(Groups(c, k)) \in Offerings
           /\ HoursOfGroups(c, k) = hours(Min(Groups(c, k)))
<1> DEFINE all == Groups(c, k)
           n == Len(offerings)
           bounds == {m \in Nat : \A x \in all : x <= m}
<1>1. all # {} /\ all \subseteq Offerings
  BY DEF CoursesOf, Groups
<1>2. n \in Nat /\ Offerings = 1 .. n
  BY OfferingsAre
<1>3. n \in bounds /\ bounds \subseteq Nat /\ all \subseteq Nat
  BY <1>1, <1>2
<1> HIDE DEF n
<1> DEFINE m == Min(bounds)
<1>4. m \in bounds /\ (\A b \in bounds : m <= b)
  BY <1>3, MinOfNaturals
<1> HIDE DEF m
<1>5. m \in all
  <2> SUFFICES ASSUME m \notin all PROVE FALSE
    OBVIOUS
  <2>1. m # 0
    BY <1>1, <1>2, <1>4
  <2>2. m - 1 \in Nat /\ \A x \in all : x <= m - 1
    BY <1>3, <1>4, <2>1
  <2>3. QED
    BY <1>4, <2>2
<1>6. Max(all) \in all
  <2>1. \E x \in all : \A y \in all : x >= y
    BY <1>3, <1>4, <1>5
  <2>2. QED
    BY <2>1 DEF Max
<1>7. Min(all) \in all
  BY <1>1, <1>3, MinOfNaturals
<1>8. hours(Max(all)) = hours(Min(all))
  <2>1. offerings[Max(all)].course = k /\ offerings[Min(all)].course = k
    BY <1>6, <1>7 DEF Groups
  <2>2. QED
    BY <1>1, <1>6, <1>7, <2>1, OfferingsAre
<1>9. QED
  BY <1>1, <1>7, <1>8 DEF HoursOfGroups

\* So do the courses of a cohort.
LEMMA CohortFits ==
    ASSUME RequestInv, NEW t \in Timetables, CohortsFree(t), NEW c \in Cohorts
    PROVE  ~(CohortHours(c) > WeeklyCapacity)
<1> DEFINE S == CoursesOf(c)
           of == [k \in S |-> Min(Groups(c, k))]
           w == [k \in S |-> hours(of[k])]
           Sums(g) == g = [s \in SUBSET S |-> IF s = {} THEN 0
                         ELSE HoursOfGroups(c, CHOOSE x \in s : TRUE)
                              + g[s \ {CHOOSE x \in s : TRUE}]]
           g == CHOOSE f : Sums(f)
<1>1. of \in [S -> Offerings] /\ \A k \in S : HoursOfGroups(c, k) = w[k]
  BY GroupsLast
<1>2. IsFiniteSet(S)
  <2> DEFINE taken == {j \in Offerings : c \in offerings[j].cohorts}
             course == [i \in taken |-> offerings[i].course]
  <2>1. IsFiniteSet(taken)
    BY OfferingsAre, FS_Subset
  <2>2. course \in Surjection(taken, S)
    BY DEF CoursesOf, Surjection
  <2>3. QED
    BY <2>1, <2>2, FS_Surjection
<1>3. \A f : SumsOn(f, w, SUBSET S) <=> Sums(f)
  <2> HIDE DEF w, S
  <2>1. ASSUME NEW f, NEW s \in SUBSET S, s # {}
        PROVE  w[CHOOSE x \in s : TRUE] = HoursOfGroups(c, CHOOSE x \in s : TRUE)
    BY <1>1, <2>1
  <2>2. QED
    BY <2>1 DEF SumsOn, Pick, Without
<1>4. \E f : Sums(f)
  <2> HIDE DEF Sums, w, S
  <2>1. \E f : SumsOn(f, w, SUBSET S)
    BY <1>2, SumsExist
  <2>2. QED
    BY <1>3, <2>1
<1>5. CohortHours(c) = g[S]
  BY DEF CohortHours, MapThenSumSet, MapThenFoldSet
<1>6. SumsOn(g, w, SUBSET S)
  <2> HIDE DEF Sums, w
  <2>1. QED
    BY <1>3, <1>4
<1>7. \A x, y \in S : x # y => NoOverlap(t, of[x], of[y])
  BY FirstGroupsDoNotOverlap
<1> HIDE DEF g, S, of
<1>8. g[S] \in Nat /\ g[S] <= WeeklyCapacity
  BY <1>1, <1>2, <1>6, <1>7, FitsTheWeek
<1>9. QED
  BY <1>5, <1>8, WeekCounted

\* The preflight refuses only data that have no timetable.
LEMMA RefusedIsImpossible ==
    ASSUME RequestInv, DataInfeasible \/ NoDayFits
    PROVE  Impossible
<1> SUFFICES ASSUME NEW t \in Timetables, LecturersFree(t), CohortsFree(t)
             PROVE  FALSE
  BY DEF Impossible
<1>1. CASE DataInfeasible
  BY <1>1, LecturerFits, CohortFits DEF DataInfeasible
<1>2. CASE NoDayFits
  <2>1. PICK i \in Offerings : \A d \in Days : hours(i) > Slots(d)
    BY <1>2 DEF NoDayFits
  <2>2. /\ t[i].day \in Days /\ t[i].start \in Nat /\ hours(i) \in Nat
        /\ Slots(t[i].day) \in Nat /\ t[i].start + hours(i) <= Slots(t[i].day)
    BY <2>1, PlacementsAre, OfferingsAre, SlotsAre
  <2>3. hours(i) > Slots(t[i].day)
    BY <2>1, <2>2
  <2>4. QED
    BY <2>2, <2>3
<1>3. QED
  BY <1>1, <1>2

\* The refusal keeps the invariant.
LEMMA RefuseDataKeeps ==
    ASSUME CspInv, RefuseData
    PROVE  CspInv'
<1>1. /\ pc = "preflight" /\ pc' = "done" /\ SameData /\ answer' = Refused
      /\ UNCHANGED <<remaining, conflicts, status, plan>>
      /\ DataInfeasible \/ NoDayFits
  BY DEF RefuseData, SameData, Refused
<1>2. SearchInv /\ RequestInv
  BY DEF CspInv, SearchInv
<1>3. Impossible'
  BY <1>1, <1>2, RefusedIsImpossible, SamePossible
<1>4. SearchInv'
  <2>1. conflicts' = {} /\ status' = "none"
    BY <1>1, <1>2 DEF SearchInv
  <2>2. QED
    BY <1>1, <1>2, <2>1, SearchStep DEF SearchInv
<1>5. AnswerInv'
  BY <1>1, <1>3 DEF AnswerInv, Refused
<1>6. QED
  BY <1>4, <1>5 DEF CspInv

\* Every step of the solver keeps the invariant.
LEMMA CspInvNext ==
    ASSUME CspInv, [Next]_vars
    PROVE  CspInv'
<1>1. CASE UNCHANGED vars
  BY <1>1, UnchangedKeeps
<1>2. CASE RefuseData
  BY <1>2, RefuseDataKeeps
<1>3. CASE BuildModel
  BY <1>3, BuildModelKeeps
<1>4. CASE SolveFeasible
  BY <1>4, SolveFeasibleKeeps
<1>5. CASE SolveInfeasible
  BY <1>5, SolveInfeasibleKeeps
<1>6. CASE SolveUnknown \/ StopSearching
  BY <1>6, StoppingKeeps
<1>7. CASE Report
  BY <1>7, ReportKeeps
<1>8. CASE Finished
  BY <1>8, UnchangedKeeps DEF Finished
<1>9. QED
  BY <1>1, <1>2, <1>3, <1>4, <1>5, <1>6, <1>7, <1>8 DEF Next

\* The inductive invariant of the solver: conflicts cannot be satisfied together,
\* a plan keeps what is assumed, and the answer is the one the search led to.
THEOREM CspInvariant == Spec => []CspInv
<1>1. Init => CspInv
  BY CspInvInit
<1>2. CspInv /\ [Next]_vars => CspInv'
  BY CspInvNext
<1>3. QED
  BY <1>1, <1>2, PTL DEF Spec

\* A solved answer is a timetable of the period: every group is placed once, in
\* its day, and neither a lecturer nor a cohort is in two places at a time.
THEOREM SolvedTimetables == Spec => []SolvedIsTimetable
  BY CspInvariant, SolvedPlanIsTimetable, PTL

\* A solved answer breaks no constraint but those it reports as given up.
THEOREM SolvedBreaksNone == Spec => []SolvedBreaksNothing
  BY CspInvariant, SolvedSessionsBreakNothing, PTL

\* A failure that reports conflicts names a set of constraints that really cannot
\* be kept together.
THEOREM ReportsExplain == Spec => []ReportExplainsFailure
  BY CspInvariant, ReportExplains, PTL

\* Data that are refused without a solve have no timetable, however few of the
\* lecturers' constraints are kept.
THEOREM RefusalsAreRight == Spec => []RefusalIsRight
  BY CspInvariant, RefusalIsForGood, PTL
==============================================================================
