----------------------- MODULE ScheduleRequestsProofs -----------------------
(***************************************************************************)
(* What holds of ScheduleRequests for any number of callers and mishaps.   *)
(*                                                                         *)
(* RequestsInv is inductive: everything that names a run or a schedule     *)
(* names one that there is, what was answered as solved names a schedule   *)
(* that holds a solution, and the run the consumer is about to complete is *)
(* still pending.  The books (RunsAccounted) are inductive relative to it. *)
(***************************************************************************)
EXTENDS ScheduleRequests, FiniteSetTheorems, SequenceTheorems, WellFoundedInduction, TLAPS

ScheduleRow == [draft : BOOLEAN, published : BOOLEAN, filled : BOOLEAN, by : Nat]
RunRow == [status : {"pending", "solved", "failed"}, schedule : Nat]
CallRecord == [pc : {"idle", "create", "run", "send", "write", "reread", "done"},
               schedule : Nat, run : Nat, previously : BOOLEAN]
Outcomes == {"solved", "failed"}
RequestRecord == [run : Nat, schedule : Nat]
ResponseRecord == [status : Outcomes, schedule : Nat]
ServingRecord == [pc : {"requested", "newest", "insert", "save", "respond", "ack"},
                  request : RequestRecord, status : Outcomes, target : Nat]
HandlingRecord == [pc : {"update"}, status : Outcomes, schedule : Nat, found : Nat]

\* The schedules that a solution was stored in.
Stored == {s \in ScheduleIds : schedules[s].by # None}

RowsInv ==
    /\ schedules \in Seq(ScheduleRow)
    /\ \A s \in ScheduleIds : schedules[s].by \in RunIds \cup {None}
    /\ runs \in Seq(RunRow)
    /\ \A r \in RunIds :
          /\ runs[r].schedule \in ScheduleIds \cup {None}
          /\ runs[r].status = "solved" => runs[r].schedule \in Stored

\* What a call, a request and a response may name, S being the schedules, R the
\* runs and T the schedules that hold a solution.
CallNames(x, S, R) ==
    /\ x.schedule \in S \cup {None}
    /\ x.run \in R \cup {None}
    /\ x.pc = "send" => x.run \in R
    /\ x.pc \in {"write", "reread"} => x.schedule \in S

RequestNames(x, S, R) == x.run \in R /\ x.schedule \in S \cup {None}
ResponseNames(x, S, T) == x.schedule \in S /\ (x.status = "solved" => x.schedule \in T)

CallsInv == call \in [Callers -> CallRecord] /\ \A c \in Callers : CallNames(call[c], ScheduleIds, RunIds)

QueuesInv ==
    /\ requests \in Seq(RequestRecord)
    /\ \A i \in DOMAIN requests : RequestNames(requests[i], ScheduleIds, RunIds)
    /\ responses \in Seq(ResponseRecord)
    /\ \A i \in DOMAIN responses : ResponseNames(responses[i], ScheduleIds, Stored)

ServingInv ==
    \/ serving = [pc |-> "idle"]
    \/ /\ serving \in ServingRecord
       /\ RequestNames(serving.request, ScheduleIds, RunIds)
       /\ serving.target \in ScheduleIds \cup {None}
       /\ serving.pc \in {"save", "respond", "ack"} => serving.target \in ScheduleIds
       /\ serving.pc \in {"respond", "ack"} /\ serving.status = "solved" =>
             serving.target \in Stored

HandlingInv ==
    \/ handling = [pc |-> "idle"]
    \/ /\ handling \in HandlingRecord
       /\ ResponseNames(handling, ScheduleIds, Stored)
       /\ handling.found \in Pending

CountsInv ==
    /\ notified \in Nat /\ mishaps \in Nat
    /\ stranded \in Nat /\ stolen \in Nat /\ repeated \in Nat

RequestsInv ==
    RowsInv /\ CallsInv /\ QueuesInv /\ ServingInv /\ HandlingInv /\ CountsInv

------------------------------------------------------------------------------
(* Sets and sequences *)

\* The largest of some of the numbers up to n is one of them: of the sets of
\* those that are at least as large as one of them, the smallest is its own.
LEMMA MaxIsMember ==
    ASSUME NEW n \in Nat, NEW S \in SUBSET (1 .. n), S # {}
    PROVE  Max(S) \in S
<1> DEFINE From(x) == {y \in S : y >= x}
           F == {From(x) : x \in S}
<1>1. IsFiniteSet(S)
  <2>1. IsFiniteSet(1 .. n)
    BY FS_Interval
  <2>2. QED
    BY <2>1, FS_Subset
<1>2. F \subseteq FiniteSubsetsOf(S)
  BY <1>1, FS_Subset DEF FiniteSubsetsOf
<1>3. F # {}
  OBVIOUS
<1>4. PICK T \in F : \A U \in F : <<U, T>> \notin StrictSubsetOrdering(S)
  <2> HIDE DEF F
  <2>1. QED
    BY <1>2, <1>3, FS_StrictSubsetOrderingWellFounded, WFMin
<1>5. PICK x \in S : T = From(x)
  BY <1>4
<1>6. ASSUME NEW y \in S, ~(x >= y)
      PROVE  FALSE
  <2>1. x \in Nat /\ y \in Nat /\ y > x
    BY <1>6
  <2>2. From(y) \subseteq From(x) /\ x \in From(x) /\ x \notin From(y)
    <3>1. \A z \in S : z \in Nat /\ (z >= y => z >= x)
      BY <2>1
    <3>2. x >= x /\ ~(x >= y)
      BY <2>1
    <3>3. QED
      BY <3>1, <3>2
  <2>3. From(y) \in F /\ From(y) \in SUBSET S /\ From(x) \in SUBSET S
    OBVIOUS
  <2>4. <<From(y), From(x)>> \in StrictSubsetOrdering(S)
    <3> HIDE DEF From, F
    <3>1. QED
      BY <2>2, <2>3 DEF StrictSubsetOrdering
  <2>5. QED
    BY <1>4, <1>5, <2>3, <2>4
<1>7. \A y \in S : x >= y
  BY <1>6
<1>8. QED
  BY <1>5, <1>7 DEF Max

\* The rows are numbered from one, and each is of its kind.
LEMMA Numbered ==
    ASSUME RowsInv
    PROVE  /\ Len(schedules) \in Nat /\ DOMAIN schedules = ScheduleIds
           /\ Len(runs) \in Nat /\ DOMAIN runs = RunIds
           /\ ScheduleIds \subseteq Nat \ {0} /\ RunIds \subseteq Nat \ {0}
           /\ \A s \in ScheduleIds : schedules[s] \in ScheduleRow
           /\ \A r \in RunIds : runs[r] \in RunRow
<1>1. schedules \in Seq(ScheduleRow) /\ runs \in Seq(RunRow)
  BY DEF RowsInv
<1>2. QED
  BY <1>1, ElementOfSeq DEF ScheduleIds, RunIds

\* Some of the schedules, or the pending runs: the newest is one of them.
LEMMA NewestIsThere ==
    ASSUME RowsInv
    PROVE  /\ \A S \in SUBSET ScheduleIds : S # {} => Max(S) \in S
           /\ Pending # {} => Max(Pending) \in Pending
<1>1. \A S \in SUBSET ScheduleIds : S # {} => Max(S) \in S
  BY Numbered, MaxIsMember DEF ScheduleIds
<1>2. Pending \in SUBSET (1 .. Len(runs)) /\ Len(runs) \in Nat
  BY Numbered DEF Pending, RunIds
<1>3. QED
  BY <1>1, <1>2, MaxIsMember

\* What leaves a queue and what stays.
LEMMA Dequeued ==
    ASSUME NEW S, NEW q \in Seq(S), q # << >>
    PROVE  /\ Head(q) = q[1] /\ Head(q) \in S
           /\ Tail(q) \in Seq(S) /\ Len(Tail(q)) = Len(q) - 1 /\ Len(q) \in Nat \ {0}
           /\ \A i \in DOMAIN Tail(q) : i + 1 \in DOMAIN q /\ Tail(q)[i] = q[i + 1]
           /\ 1 \in DOMAIN q
<1>1. Len(q) \in Nat \ {0} /\ DOMAIN q = 1 .. Len(q)
  BY EmptySeq
<1>2. Tail(q) \in Seq(S) /\ Len(Tail(q)) = Len(q) - 1
  BY <1>1, HeadTailProperties
<1>3. QED
  BY <1>1, <1>2, HeadTailProperties

\* What a queue holds after a message was published to it.
LEMMA Enqueued ==
    ASSUME NEW S, NEW q \in Seq(S), NEW x \in S
    PROVE  /\ Append(q, x) \in Seq(S) /\ Len(Append(q, x)) = Len(q) + 1
           /\ DOMAIN Append(q, x) = 1 .. Len(q) + 1
           /\ \A i \in DOMAIN Append(q, x) :
                 (i \in DOMAIN q /\ Append(q, x)[i] = q[i]) \/ (i = Len(q) + 1 /\ Append(q, x)[i] = x)
<1>1. /\ Append(q, x) \in Seq(S) /\ Len(Append(q, x)) = Len(q) + 1
      /\ \A i \in 1 .. Len(q) : Append(q, x)[i] = q[i]
      /\ Append(q, x)[Len(q) + 1] = x
  BY AppendProperties
<1>2. DOMAIN q = 1 .. Len(q) /\ Len(q) \in Nat /\ DOMAIN Append(q, x) = 1 .. Len(q) + 1
  BY <1>1
<1>3. QED
  BY <1>1, <1>2

------------------------------------------------------------------------------
(* Growth *)

\* Rows are added and never removed, and what is stored stays stored.
Grows ==
    /\ RowsInv'
    /\ Len(schedules) <= Len(schedules') /\ Len(runs) <= Len(runs')
    /\ Stored \subseteq Stored'

\* A row that there was is there still.
LEMMA GrowsIds ==
    ASSUME RowsInv, Grows
    PROVE  ScheduleIds \subseteq ScheduleIds' /\ RunIds \subseteq RunIds'
<1>1. /\ Len(schedules) \in Nat /\ Len(runs) \in Nat
      /\ Len(schedules') \in Nat /\ Len(runs') \in Nat
  BY Numbered DEF RowsInv, Grows
<1>2. QED
  BY <1>1 DEF Grows, ScheduleIds, RunIds

\* A step that touches no row.
LEMMA RowsUntouched ==
    ASSUME RowsInv, UNCHANGED <<schedules, runs>>
    PROVE  Grows
BY DEF RowsInv, Grows, Stored, ScheduleIds, RunIds

\* INSERT INTO schedules.
LEMMA ScheduleAdded ==
    ASSUME RowsInv, NEW x \in ScheduleRow, x.by = None,
           schedules' = Append(schedules, x), UNCHANGED runs
    PROVE  Grows /\ Len(schedules') \in ScheduleIds'
<1>1. schedules \in Seq(ScheduleRow) /\ Len(schedules) \in Nat
  BY Numbered DEF RowsInv
<1>2. /\ schedules' \in Seq(ScheduleRow) /\ Len(schedules') = Len(schedules) + 1
      /\ \A i \in 1 .. Len(schedules) : schedules'[i] = schedules[i]
      /\ schedules'[Len(schedules) + 1] = x
  BY <1>1, AppendProperties
<1>3. ScheduleIds' = ScheduleIds \cup {Len(schedules) + 1} /\ RunIds' = RunIds
  BY <1>1, <1>2 DEF ScheduleIds, RunIds
<1>4. Stored \subseteq Stored'
  BY <1>2, <1>3 DEF Stored, ScheduleIds
<1>5. RowsInv'
  BY <1>2, <1>3, <1>4 DEF RowsInv, ScheduleIds
<1>6. QED
  BY <1>1, <1>2, <1>3, <1>4, <1>5 DEF Grows

\* An update of a schedule that takes no solution away.
LEMMA ScheduleChanged ==
    ASSUME RowsInv, NEW s \in ScheduleIds, NEW x \in ScheduleRow,
           x.by \in RunIds \cup {None}, x.by = None => schedules[s].by = None,
           schedules' = [schedules EXCEPT ![s] = x], UNCHANGED runs
    PROVE  Grows
<1>1. schedules \in Seq(ScheduleRow) /\ Len(schedules) \in Nat /\ s \in 1 .. Len(schedules)
  BY Numbered DEF RowsInv, ScheduleIds
<1>2. /\ schedules' \in Seq(ScheduleRow) /\ Len(schedules') = Len(schedules)
      /\ \A i \in 1 .. Len(schedules) : schedules'[i] = IF i = s THEN x ELSE schedules[i]
  BY <1>1, ExceptSeq
<1>3. ScheduleIds' = ScheduleIds /\ RunIds' = RunIds
  BY <1>1, <1>2 DEF ScheduleIds, RunIds
<1>4. Stored \subseteq Stored'
  BY <1>2, <1>3 DEF Stored, ScheduleIds
<1>5. RowsInv'
  BY <1>2, <1>3, <1>4 DEF RowsInv, ScheduleIds
<1>6. QED
  BY <1>1, <1>2, <1>3, <1>4, <1>5 DEF Grows

\* create_run: INSERT INTO solver_runs.
LEMMA RunAdded ==
    ASSUME RowsInv, UNCHANGED schedules,
           runs' = Append(runs, [status |-> "pending", schedule |-> None])
    PROVE  /\ Grows /\ Len(runs') \in RunIds' \ RunIds
           /\ Pending' = Pending \cup {Len(runs')}
           /\ \A r \in RunIds : runs'[r] = runs[r]
<1> DEFINE x == [status |-> "pending", schedule |-> None]
<1>1. runs \in Seq(RunRow) /\ Len(runs) \in Nat /\ x \in RunRow
  BY Numbered DEF RowsInv, RunRow, None
<1>2. /\ runs' \in Seq(RunRow) /\ Len(runs') = Len(runs) + 1
      /\ \A i \in 1 .. Len(runs) : runs'[i] = runs[i]
      /\ runs'[Len(runs) + 1] = x
  <2> HIDE DEF x
  <2>1. runs' = Append(runs, x)
    BY DEF x
  <2>2. QED
    BY <1>1, <2>1, AppendProperties
<1>3. /\ RunIds' = RunIds \cup {Len(runs) + 1} /\ ScheduleIds' = ScheduleIds
      /\ Len(runs) + 1 \notin RunIds
  BY <1>1, <1>2 DEF ScheduleIds, RunIds
<1>4. Stored \subseteq Stored'
  BY <1>3 DEF Stored
<1>5. RowsInv'
  BY <1>2, <1>3, <1>4 DEF RowsInv, RunIds
<1>6. Pending' = Pending \cup {Len(runs')}
  BY <1>2, <1>3 DEF Pending, RunIds
<1>7. QED
  BY <1>1, <1>2, <1>3, <1>4, <1>5, <1>6 DEF Grows, RunIds

\* The completion of a pending run.
LEMMA RunCompleted ==
    ASSUME RowsInv, NEW r \in Pending, NEW status \in Outcomes,
           NEW s \in ScheduleIds \cup {None}, status = "solved" => s \in Stored,
           runs' = [runs EXCEPT ![r] = [status |-> status, schedule |-> s]],
           UNCHANGED schedules
    PROVE  /\ Grows /\ RunIds' = RunIds
           /\ Pending' = Pending \ {r}
           /\ \A q \in RunIds : q # r => runs'[q] = runs[q]
<1> DEFINE x == [status |-> status, schedule |-> s]
<1>1. /\ runs \in Seq(RunRow) /\ Len(runs) \in Nat /\ r \in 1 .. Len(runs)
      /\ s \in Nat
  BY Numbered DEF RowsInv, RunIds, Pending, None
<1>2. x \in RunRow /\ x.status = status /\ x.schedule = s /\ x.status # "pending"
  BY <1>1 DEF RunRow, Outcomes
<1> HIDE DEF x
<1>3. runs' = [runs EXCEPT ![r] = x]
  BY DEF x
<1>4. /\ runs' \in Seq(RunRow) /\ Len(runs') = Len(runs)
      /\ \A i \in 1 .. Len(runs) : runs'[i] = IF i = r THEN x ELSE runs[i]
  BY <1>1, <1>2, <1>3, ExceptSeq
<1>5. RunIds' = RunIds /\ ScheduleIds' = ScheduleIds
  BY <1>4 DEF ScheduleIds, RunIds
<1>6. Stored \subseteq Stored'
  BY <1>5 DEF Stored
<1>7. RowsInv'
  BY <1>2, <1>4, <1>5, <1>6 DEF RowsInv, RunIds
<1>8. Pending' = Pending \ {r}
  BY <1>2, <1>4, <1>5 DEF Pending, RunIds
<1>9. QED
  BY <1>1, <1>4, <1>5, <1>6, <1>7, <1>8 DEF Grows, RunIds

------------------------------------------------------------------------------
(* Every step *)

\* Steps that touch no row.
ElsewhereOfCall(c) ==
    \/ FindEmptyDraft(c) \/ (\E tied \in ScheduleIds \cup {None} : LatestSchedule(c, tied))
    \/ (\E s \in ScheduleIds : ReadSchedule(c, s))
    \/ SendRequest(c) \/ NotifyPublished(c) \/ CallFails(c)

\* They leave the solver and the consumer alone, too.
LEMMA CallsElsewhere ==
    ASSUME NEW c, ElsewhereOfCall(c)
    PROVE  UNCHANGED <<schedules, runs, serving, responses, handling>>
BY DEF ElsewhereOfCall, FindEmptyDraft, LatestSchedule, ReadSchedule, SendRequest,
       NotifyPublished, CallFails, losses

ElsewhereOfServices ==
    \/ (\E status \in {"solved", "failed"} : Serve(status))
    \/ UseRequested \/ UseNewest \/ Respond \/ AckRequest \/ Requeue
    \/ FindRun \/ StealResponse \/ UNCHANGED vars

\* They leave the calls alone, too.
LEMMA ServicesElsewhere ==
    ASSUME ElsewhereOfServices
    PROVE  UNCHANGED <<schedules, runs, call>>
BY DEF ElsewhereOfServices, Serve, UseRequested, UseNewest, Respond, AckRequest, Requeue,
       FindRun, StealResponse, vars, losses



\* The steps of Next, by what they do to the rows.
LEMMA Steps ==
    ASSUME [Next]_vars
    PROVE  \/ \E c \in Callers :
                 \/ ElsewhereOfCall(c) \/ CreateSchedule(c) \/ CreateRun(c)
                 \/ StartNightly(c) \/ WriteSchedule(c)
           \/ \E s \in ScheduleIds : ManualSession(s)
           \/ ElsewhereOfServices \/ InsertDraft \/ SaveSolution \/ UpdateRun
BY DEF Next, Begin, CallStep, Solver, Consumer, ElsewhereOfCall, ElsewhereOfServices

\* The row that create_schedule or the solver inserts.
LEMMA FreshRow ==
    ASSUME NEW draft \in BOOLEAN
    PROVE  /\ [draft |-> draft, published |-> FALSE, filled |-> FALSE, by |-> None] \in ScheduleRow
           /\ [draft |-> draft, published |-> FALSE, filled |-> FALSE, by |-> None].by = None
BY DEF ScheduleRow, None

\* No step removes a row, or a solution from one.
LEMMA RowsGrow ==
    ASSUME RequestsInv, [Next]_vars
    PROVE  Grows
<1> USE DEF RequestsInv
<1>0. /\ \A s \in ScheduleIds : schedules[s] \in ScheduleRow
                               /\ schedules[s].by \in RunIds \cup {None}
      /\ schedules \in Seq(ScheduleRow)
  BY Numbered DEF RowsInv
<1>1. ASSUME NEW c \in Callers, ElsewhereOfCall(c)
      PROVE  Grows
  BY <1>1, CallsElsewhere, RowsUntouched
<1>2. ASSUME NEW c \in Callers, CreateSchedule(c)
      PROVE  Grows
  <2>1. PICK draft \in BOOLEAN :
            schedules' = Append(schedules, [draft |-> draft, published |-> FALSE,
                                            filled |-> FALSE, by |-> None])
    BY <1>2 DEF CreateSchedule
  <2> DEFINE x == [draft |-> draft, published |-> FALSE, filled |-> FALSE, by |-> None]
  <2>2. x \in ScheduleRow /\ x.by = None
    BY FreshRow
  <2>3. UNCHANGED runs
    BY <1>2 DEF CreateSchedule
  <2>4. schedules' = Append(schedules, x)
    BY <2>1
  <2> HIDE DEF x
  <2>5. QED
    BY <2>2, <2>3, <2>4, ScheduleAdded
<1>3. ASSUME NEW c \in Callers, NewRun(c)
      PROVE  Grows
  BY <1>3, RunAdded DEF NewRun
<1>4. ASSUME NEW c \in Callers, WriteSchedule(c)
      PROVE  Grows
  <2>1. PICK draft \in BOOLEAN, published \in BOOLEAN :
            schedules' = [schedules EXCEPT ![call[c].schedule].draft = draft,
                                           ![call[c].schedule].published = published]
    BY <1>4 DEF WriteSchedule
  <2>2. call[c].schedule \in ScheduleIds
    BY <1>4 DEF WriteSchedule, CallsInv, CallNames
  <2> DEFINE s == call[c].schedule
             x == [schedules[s] EXCEPT !.draft = draft, !.published = published]
  <2>3. x \in ScheduleRow /\ x.by = schedules[s].by
    BY <1>0, <2>2 DEF ScheduleRow
  <2>4. schedules' = [schedules EXCEPT ![s] = x]
    BY <1>0, <2>1, <2>2, <2>3
  <2>5. s \in ScheduleIds /\ x.by \in RunIds \cup {None}
    BY <1>0, <2>2, <2>3
  <2>6. UNCHANGED runs
    BY <1>4 DEF WriteSchedule
  <2> HIDE DEF x, s
  <2>7. QED
    BY <2>3, <2>4, <2>5, <2>6, ScheduleChanged
<1>5. ASSUME NEW s \in ScheduleIds, ManualSession(s)
      PROVE  Grows
  <2> DEFINE x == [schedules[s] EXCEPT !.filled = ~@]
  <2>1. x \in ScheduleRow /\ x.by = schedules[s].by
    BY <1>0 DEF ScheduleRow
  <2>2. schedules' = [schedules EXCEPT ![s] = x] /\ UNCHANGED runs
    BY <1>5 DEF ManualSession
  <2>3. x.by \in RunIds \cup {None}
    BY <1>0, <2>1
  <2> HIDE DEF x
  <2>4. QED
    BY <2>1, <2>2, <2>3, ScheduleChanged
<1>6. ASSUME ElsewhereOfServices
      PROVE  Grows
  BY <1>6, ServicesElsewhere, RowsUntouched
<1>7. ASSUME InsertDraft
      PROVE  Grows
  <2> DEFINE x == [draft |-> TRUE, published |-> FALSE, filled |-> FALSE, by |-> None]
  <2>1. x \in ScheduleRow /\ x.by = None
    BY FreshRow
  <2>2. schedules' = Append(schedules, x) /\ UNCHANGED runs
    BY <1>7 DEF InsertDraft
  <2> HIDE DEF x
  <2>3. QED
    BY <2>1, <2>2, ScheduleAdded
<1>8. ASSUME SaveSolution
      PROVE  Grows
  <2>1. CASE serving.status # "solved"
    BY <1>8, <2>1, RowsUntouched DEF SaveSolution
  <2>2. CASE serving.status = "solved"
    <3> DEFINE s == serving.target
               r == serving.request.run
               x == [schedules[s] EXCEPT !.filled = TRUE, !.by = r]
    <3>1. s \in ScheduleIds /\ r \in RunIds
      BY <1>8 DEF SaveSolution, ServingInv, RequestNames
    <3>2. r \in Nat \ {0}
      BY <3>1, Numbered
    <3>3. x \in ScheduleRow /\ x.by = r
      BY <1>0, <3>1, <3>2 DEF ScheduleRow
    <3>4. schedules' = [schedules EXCEPT ![s] = x] /\ UNCHANGED runs
      BY <1>0, <1>8, <2>2, <3>1 DEF SaveSolution
    <3>5. x.by \in RunIds \cup {None} /\ x.by # None
      BY <3>1, <3>2, <3>3 DEF None
    <3> HIDE DEF s, r, x
    <3>6. QED
      BY <3>1, <3>3, <3>4, <3>5, ScheduleChanged
  <2>3. QED
    BY <2>1, <2>2
<1>9. ASSUME UpdateRun
      PROVE  Grows
  <2> DEFINE s == IF handling.status = "solved" THEN handling.schedule ELSE None
  <2>1. /\ handling.found \in Pending /\ handling.status \in Outcomes
        /\ s \in ScheduleIds \cup {None} /\ (handling.status = "solved" => s \in Stored)
    BY <1>9 DEF UpdateRun, HandlingInv, HandlingRecord, ResponseNames
  <2>2. /\ runs' = [runs EXCEPT ![handling.found] = [status |-> handling.status, schedule |-> s]]
        /\ UNCHANGED schedules
    BY <1>9 DEF UpdateRun
  <2> HIDE DEF s
  <2>3. QED
    BY <2>1, <2>2, RunCompleted
<1>10. QED
  BY <1>1, <1>2, <1>3, <1>4, <1>5, <1>6, <1>7, <1>8, <1>9, Steps DEF CreateRun, StartNightly

\* What named a row still names one.
LEMMA StillNamed ==
    ASSUME RequestsInv, Grows
    PROVE  /\ \A x : CallNames(x, ScheduleIds, RunIds) => CallNames(x, ScheduleIds', RunIds')
           /\ \A x : RequestNames(x, ScheduleIds, RunIds) => RequestNames(x, ScheduleIds', RunIds')
           /\ \A x : ResponseNames(x, ScheduleIds, Stored) => ResponseNames(x, ScheduleIds', Stored')
<1>1. ScheduleIds \subseteq ScheduleIds' /\ RunIds \subseteq RunIds' /\ Stored \subseteq Stored'
  BY GrowsIds DEF RequestsInv, Grows
<1> HIDE DEF Stored
<1>2. QED
  BY <1>1 DEF CallNames, RequestNames, ResponseNames

\* The calls when none of them moves.
LEMMA CallsUntouched ==
    ASSUME RequestsInv, Grows, UNCHANGED call
    PROVE  CallsInv'
BY StillNamed DEF RequestsInv, CallsInv

\* One call moves, to a record that names what there is.
LEMMA CallMoved ==
    ASSUME RequestsInv, Grows, NEW c \in Callers, NEW x \in CallRecord,
           CallNames(x, ScheduleIds', RunIds'), call' = [call EXCEPT ![c] = x]
    PROVE  CallsInv'
<1>1. call' \in [Callers -> CallRecord]
  BY DEF RequestsInv, CallsInv
<1>2. \A d \in Callers : call'[d] = IF d = c THEN x ELSE call[d]
  BY DEF RequestsInv, CallsInv
<1>3. \A d \in Callers : CallNames(call[d], ScheduleIds', RunIds')
  BY StillNamed DEF RequestsInv, CallsInv
<1>4. \A d \in Callers : CallNames(call'[d], ScheduleIds', RunIds')
  BY <1>2, <1>3
<1>5. QED
  BY <1>1, <1>4 DEF CallsInv

\* A call that moves on to step pc: what it has read stays.
LEMMA CallGoes ==
    ASSUME RequestsInv, Grows, NEW c \in Callers, NEW pc, Goto(c, pc),
           pc \in {"create", "done"} \/ (pc = "reread" /\ call[c].pc = "write")
    PROVE  CallsInv'
<1> DEFINE x == [call[c] EXCEPT !.pc = pc]
<1>1. call[c] \in CallRecord /\ CallNames(call[c], ScheduleIds', RunIds')
  BY StillNamed DEF RequestsInv, CallsInv
<1>2. /\ x \in CallRecord /\ x.pc = pc /\ x.schedule = call[c].schedule /\ x.run = call[c].run
  BY <1>1 DEF CallRecord
<1>3. call' = [call EXCEPT ![c] = x]
  BY <1>1 DEF Goto, RequestsInv, CallsInv
<1> HIDE DEF x
<1>4. CallNames(x, ScheduleIds', RunIds')
  BY <1>1, <1>2 DEF CallNames
<1>5. QED
  BY <1>2, <1>3, <1>4, CallMoved

\* A call that goes on to create its run, for schedule s or none.
LEMMA CallRuns ==
    ASSUME RequestsInv, Grows, NEW c \in Callers, NEW s \in ScheduleIds' \cup {None},
           call' = [call EXCEPT ![c].pc = "run", ![c].schedule = s]
    PROVE  CallsInv'
<1> DEFINE x == [call[c] EXCEPT !.pc = "run", !.schedule = s]
<1>1. call[c] \in CallRecord /\ CallNames(call[c], ScheduleIds', RunIds')
  BY StillNamed DEF RequestsInv, CallsInv
<1>2. s \in Nat
  BY DEF ScheduleIds, None
<1>3. x \in CallRecord /\ x.pc = "run" /\ x.schedule = s /\ x.run = call[c].run
  BY <1>1, <1>2 DEF CallRecord
<1>4. call' = [call EXCEPT ![c] = x]
  BY <1>1 DEF RequestsInv, CallsInv
<1> HIDE DEF x
<1>5. CallNames(x, ScheduleIds', RunIds')
  BY <1>1, <1>3 DEF CallNames
<1>6. QED
  BY <1>3, <1>4, <1>5, CallMoved

\* Every step keeps what is known of the calls.
LEMMA CallsInvStep ==
    ASSUME RequestsInv, [Next]_vars
    PROVE  CallsInv'
<1>1. Grows
  BY RowsGrow
<1>2. /\ \A c \in Callers : call[c] \in CallRecord /\ CallNames(call[c], ScheduleIds', RunIds')
      /\ call \in [Callers -> CallRecord] /\ RowsInv
  BY <1>1, StillNamed DEF CallsInv, RequestsInv
<1>3. ScheduleIds \subseteq ScheduleIds' /\ RunIds \subseteq RunIds'
  BY <1>1, <1>2, GrowsIds
<1>4. /\ Len(schedules) \in ScheduleIds \cup {None}
      /\ \A S \in SUBSET ScheduleIds : S # {} => Max(S) \in S
  BY <1>2, Numbered, NewestIsThere DEF ScheduleIds, None
<1>5. ASSUME NEW c \in Callers, FindEmptyDraft(c)
      PROVE  CallsInv'
  <2> DEFINE empty == {s \in Drafts : ~schedules[s].published /\ ~schedules[s].filled}
  <2>1. empty \in SUBSET ScheduleIds
    BY DEF Drafts
  <2>2. CASE empty = {}
    BY <1>1, <1>5, <2>2, CallGoes DEF FindEmptyDraft
  <2>3. CASE empty # {}
    <3>1. Max(empty) \in ScheduleIds'
      BY <1>3, <1>4, <2>1, <2>3
    <3>2. call' = [call EXCEPT ![c].pc = "run", ![c].schedule = Max(empty)]
      BY <1>5, <2>3 DEF FindEmptyDraft
    <3> HIDE DEF empty
    <3>3. QED
      BY <1>1, <3>1, <3>2, CallRuns
  <2>4. QED
    BY <2>2, <2>3
<1>6. ASSUME NEW c \in Callers, NEW tied \in ScheduleIds \cup {None}, LatestSchedule(c, tied)
      PROVE  CallsInv'
  <2>1. (IF tied # None THEN tied ELSE Len(schedules)) \in ScheduleIds' \cup {None}
    BY <1>3, <1>4
  <2>2. QED
    BY <1>1, <1>6, <2>1, CallRuns DEF LatestSchedule
<1>7. ASSUME NEW c \in Callers, NEW s \in ScheduleIds, ReadSchedule(c, s)
      PROVE  CallsInv'
  <2> DEFINE x == [call[c] EXCEPT !.pc = "write", !.schedule = s,
                                  !.previously = schedules[s].published]
  <2>1. s \in Nat /\ schedules[s].published \in BOOLEAN
    BY <1>2, Numbered DEF ScheduleRow
  <2>2. x \in CallRecord /\ x.pc = "write" /\ x.schedule = s /\ x.run = call[c].run
    BY <1>2, <2>1 DEF CallRecord
  <2>3. call' = [call EXCEPT ![c] = x]
    BY <1>2, <1>7 DEF ReadSchedule
  <2> HIDE DEF x
  <2>4. CallNames(x, ScheduleIds', RunIds')
    BY <1>2, <1>3, <2>2 DEF CallNames
  <2>5. QED
    BY <1>1, <2>2, <2>3, <2>4, CallMoved
<1>8. ASSUME NEW c \in Callers, SendRequest(c) \/ NotifyPublished(c) \/ CallFails(c)
      PROVE  CallsInv'
  BY <1>1, <1>8, CallGoes DEF SendRequest, NotifyPublished, CallFails
<1>9. ASSUME NEW c \in Callers, CreateSchedule(c)
      PROVE  CallsInv'
  <2>1. PICK draft \in BOOLEAN :
            schedules' = Append(schedules, [draft |-> draft, published |-> FALSE,
                                            filled |-> FALSE, by |-> None])
    BY <1>9 DEF CreateSchedule
  <2> DEFINE x == [draft |-> draft, published |-> FALSE, filled |-> FALSE, by |-> None]
  <2>2. x \in ScheduleRow /\ x.by = None
    BY FreshRow
  <2>3. UNCHANGED runs
    BY <1>9 DEF CreateSchedule
  <2>4. schedules' = Append(schedules, x)
    BY <2>1
  <2> HIDE DEF x
  <2>5. Len(schedules') \in ScheduleIds'
    BY <1>2, <2>2, <2>3, <2>4, ScheduleAdded
  <2>6. QED
    BY <1>1, <1>9, <2>5, CallRuns DEF CreateSchedule
<1>10. ASSUME NEW c \in Callers, NewRun(c)
      PROVE  CallsInv'
  <2> DEFINE x == [call[c] EXCEPT !.pc = "send", !.run = Len(runs')]
  <2>1. Len(runs') \in RunIds'
    BY <1>2, <1>10, RunAdded DEF NewRun
  <2>2. Len(runs') \in Nat
    BY <2>1 DEF RunIds
  <2>3. x \in CallRecord /\ x.pc = "send" /\ x.schedule = call[c].schedule /\ x.run = Len(runs')
    BY <1>2, <2>2 DEF CallRecord
  <2>4. call' = [call EXCEPT ![c] = x]
    BY <1>2, <1>10 DEF NewRun
  <2> HIDE DEF x
  <2>5. CallNames(x, ScheduleIds', RunIds')
    BY <1>2, <2>1, <2>3 DEF CallNames
  <2>6. QED
    BY <1>1, <2>3, <2>4, <2>5, CallMoved
<1>11. ASSUME NEW c \in Callers, WriteSchedule(c)
      PROVE  CallsInv'
  BY <1>1, <1>11, CallGoes DEF WriteSchedule
<1>12. CASE \E s \in ScheduleIds : ManualSession(s)
  BY <1>1, <1>12, CallsUntouched DEF ManualSession
<1>13. CASE ElsewhereOfServices
  BY <1>1, <1>13, ServicesElsewhere, CallsUntouched
<1>14. CASE InsertDraft \/ SaveSolution \/ UpdateRun
  BY <1>1, <1>14, CallsUntouched DEF InsertDraft, SaveSolution, UpdateRun
<1>15. QED
  BY <1>5, <1>6, <1>7, <1>8, <1>9, <1>10, <1>11, <1>12, <1>13, <1>14, Steps
     DEF ElsewhereOfCall, CreateRun, StartNightly

------------------------------------------------------------------------------
(* The queues *)

RequestsOK == /\ requests \in Seq(RequestRecord)
              /\ \A i \in DOMAIN requests : RequestNames(requests[i], ScheduleIds, RunIds)
ResponsesOK == /\ responses \in Seq(ResponseRecord)
               /\ \A i \in DOMAIN responses : ResponseNames(responses[i], ScheduleIds, Stored)

\* Every step keeps what is known of the queue of requests.
LEMMA RequestsOKStep ==
    ASSUME RequestsInv, [Next]_vars
    PROVE  RequestsOK'
<1>1. Grows
  BY RowsGrow
<1>2. /\ requests \in Seq(RequestRecord)
      /\ \A i \in DOMAIN requests : RequestNames(requests[i], ScheduleIds', RunIds')
  BY <1>1, StillNamed DEF RequestsInv, QueuesInv
<1>3. CASE UNCHANGED requests
  BY <1>2, <1>3 DEF RequestsOK
<1>4. ASSUME NEW c \in Callers, SendRequest(c)
      PROVE  RequestsOK'
  <2> DEFINE x == [run |-> call[c].run, schedule |-> call[c].schedule]
  <2>1. /\ call[c] \in CallRecord /\ call[c].pc = "send"
        /\ CallNames(call[c], ScheduleIds', RunIds')
    BY <1>1, <1>4, StillNamed DEF RequestsInv, CallsInv, SendRequest
  <2>2. x \in RequestRecord /\ RequestNames(x, ScheduleIds', RunIds')
    BY <2>1 DEF CallRecord, RequestRecord, CallNames, RequestNames
  <2>3. requests' = Append(requests, x)
    BY <1>4 DEF SendRequest
  <2> HIDE DEF x
  <2>4. QED
    BY <1>2, <2>2, <2>3, Enqueued DEF RequestsOK
<1>5. ASSUME NEW status \in {"solved", "failed"}, Serve(status)
      PROVE  RequestsOK'
  <2>1. requests # <<>> /\ requests' = Tail(requests)
    BY <1>5 DEF Serve
  <2>2. QED
    BY <1>2, <2>1, Dequeued DEF RequestsOK
<1>6. CASE Requeue
  <2> DEFINE x == serving.request
  <2>1. x \in RequestRecord /\ RequestNames(x, ScheduleIds', RunIds')
    BY <1>1, <1>6, StillNamed DEF Requeue, RequestsInv, ServingInv, ServingRecord
  <2>2. requests' = <<x>> \o requests
    BY <1>6 DEF Requeue
  <2> HIDE DEF x
  <2>3. <<x>> \in Seq(RequestRecord) /\ Len(<<x>>) = 1 /\ <<x>>[1] = x
    BY <2>1
  <2>4. /\ requests' \in Seq(RequestRecord) /\ Len(requests') = 1 + Len(requests)
        /\ \A i \in 1 .. 1 + Len(requests) :
              requests'[i] = IF i <= 1 THEN <<x>>[i] ELSE requests[i - 1]
    BY <1>2, <2>2, <2>3, ConcatProperties
  <2>5. /\ DOMAIN requests = 1 .. Len(requests) /\ Len(requests) \in Nat
        /\ DOMAIN requests' = 1 .. 1 + Len(requests)
    BY <1>2, <2>4
  <2>6. \A i \in DOMAIN requests' : \/ requests'[i] = x
                                    \/ i - 1 \in DOMAIN requests /\ requests'[i] = requests[i - 1]
    BY <2>3, <2>4, <2>5
  <2>7. QED
    BY <1>2, <2>1, <2>4, <2>6 DEF RequestsOK
<1>7. UNCHANGED requests \/ (\E c \in Callers : SendRequest(c)) \/ Requeue
         \/ \E status \in {"solved", "failed"} : Serve(status)
  BY Steps DEF ElsewhereOfCall, ElsewhereOfServices, FindEmptyDraft, LatestSchedule, ReadSchedule,
     NotifyPublished, CallFails, CreateSchedule, CreateRun, StartNightly, NewRun, WriteSchedule,
     ManualSession, UseRequested, UseNewest, Respond, AckRequest, FindRun, StealResponse,
     InsertDraft, SaveSolution, UpdateRun, vars
<1>8. QED
  BY <1>3, <1>4, <1>5, <1>6, <1>7

\* Every step keeps what is known of the queue of responses.
LEMMA ResponsesOKStep ==
    ASSUME RequestsInv, [Next]_vars
    PROVE  ResponsesOK'
<1>1. Grows
  BY RowsGrow
<1>2. /\ responses \in Seq(ResponseRecord)
      /\ \A i \in DOMAIN responses : ResponseNames(responses[i], ScheduleIds', Stored')
  BY <1>1, StillNamed DEF RequestsInv, QueuesInv
<1>3. CASE UNCHANGED responses
  BY <1>2, <1>3 DEF ResponsesOK
<1>4. CASE Respond
  <2> DEFINE x == [status |-> serving.status, schedule |-> serving.target]
  <2>1. x \in ResponseRecord /\ ResponseNames(x, ScheduleIds, Stored)
    BY <1>4 DEF Respond, RequestsInv, ServingInv, ServingRecord, ResponseRecord, ResponseNames
  <2>2. ResponseNames(x, ScheduleIds', Stored')
    BY <1>1, <2>1, StillNamed
  <2>3. responses' = Append(responses, x)
    BY <1>4 DEF Respond
  <2> HIDE DEF x
  <2>4. QED
    BY <1>2, <2>1, <2>2, <2>3, Enqueued DEF ResponsesOK
<1>5. CASE FindRun \/ StealResponse
  <2>1. responses # <<>> /\ responses' = Tail(responses)
    BY <1>5 DEF FindRun, StealResponse
  <2>2. QED
    BY <1>2, <2>1, Dequeued DEF ResponsesOK
<1>6. UNCHANGED responses \/ Respond \/ FindRun \/ StealResponse
  BY Steps, CallsElsewhere
  DEF ElsewhereOfServices, CreateSchedule, CreateRun, StartNightly, NewRun, WriteSchedule,
     ManualSession, Serve, UseRequested, UseNewest, AckRequest, Requeue,
     InsertDraft, SaveSolution, UpdateRun, vars
<1>7. QED
  BY <1>3, <1>4, <1>5, <1>6

------------------------------------------------------------------------------
(* The solver, the consumer and the counters *)

\* Every row the solver chooses is there, and what it answers is stored.
LEMMA ServingInvStep ==
    ASSUME RequestsInv, [Next]_vars
    PROVE  ServingInv'
<1>1. Grows
  BY RowsGrow
<1>2. RowsInv /\ ScheduleIds \subseteq ScheduleIds' /\ RunIds \subseteq RunIds' /\ Stored \subseteq Stored'
  BY <1>1, GrowsIds DEF RequestsInv, Grows
<1>3. \A x : RequestNames(x, ScheduleIds, RunIds) => RequestNames(x, ScheduleIds', RunIds')
  BY <1>1, StillNamed
<1>4. CASE UNCHANGED serving
  <2> HIDE DEF Stored
  <2>1. QED
    BY <1>2, <1>3, <1>4 DEF ServingInv, RequestsInv
<1>5. ASSUME NEW status \in {"solved", "failed"}, Serve(status)
      PROVE  ServingInv'
  <2>1. requests \in Seq(RequestRecord) /\ requests # <<>>
    BY <1>5 DEF Serve, RequestsInv, QueuesInv
  <2>2. Head(requests) \in RequestRecord /\ RequestNames(Head(requests), ScheduleIds', RunIds')
    BY <1>3, <2>1, Dequeued DEF RequestsInv, QueuesInv
  <2>3. /\ serving' \in ServingRecord /\ serving'.pc \in {"newest", "requested"}
        /\ serving'.request = Head(requests) /\ serving'.target = None
    BY <1>5, <2>2 DEF Serve, ServingRecord, Outcomes, None
  <2>4. QED
    BY <2>2, <2>3 DEF ServingInv
<1>6. ASSUME NEW pc \in {"newest", "insert", "save", "respond", "ack"},
             NEW s \in ScheduleIds' \cup {None},
             serving # [pc |-> "idle"],
             serving' = [serving EXCEPT !.pc = pc, !.target = s],
             pc \in {"save", "respond", "ack"} => s \in ScheduleIds',
             pc \in {"respond", "ack"} /\ serving.status = "solved" => s \in Stored'
      PROVE  ServingInv'
  <2>1. serving \in ServingRecord /\ RequestNames(serving.request, ScheduleIds', RunIds')
    BY <1>3, <1>6 DEF RequestsInv, ServingInv
  <2>2. s \in Nat
    BY <1>6 DEF ScheduleIds, None
  <2>3. /\ serving' \in ServingRecord /\ serving'.pc = pc /\ serving'.target = s
        /\ serving'.request = serving.request /\ serving'.status = serving.status
    BY <1>6, <2>1, <2>2 DEF ServingRecord
  <2> HIDE DEF Stored
  <2>4. QED
    BY <1>6, <2>1, <2>3 DEF ServingInv
<1>7. ASSUME serving # [pc |-> "idle"]
      PROVE  /\ serving.target \in ScheduleIds' \cup {None}
             /\ serving.pc \in {"save", "respond", "ack"} => serving.target \in ScheduleIds'
             /\ serving.pc \in {"respond", "ack"} /\ serving.status = "solved" =>
                   serving.target \in Stored'
             /\ \A pc : [serving EXCEPT !.pc = pc] = [serving EXCEPT !.pc = pc, !.target = serving.target]
             /\ serving \in ServingRecord
  <2>1. serving \in ServingRecord
    BY <1>7 DEF RequestsInv, ServingInv
  <2>2. \A pc : [serving EXCEPT !.pc = pc] = [serving EXCEPT !.pc = pc, !.target = serving.target]
    BY <2>1 DEF ServingRecord
  <2> HIDE DEF Stored
  <2>3. QED
    BY <1>2, <1>7, <2>1, <2>2 DEF RequestsInv, ServingInv
<1>8. Drafts # {} => Max(Drafts) \in ScheduleIds'
  BY <1>2, NewestIsThere DEF Drafts
<1>9. CASE UseRequested
  <2>1. serving # [pc |-> "idle"]
    BY <1>9 DEF UseRequested
  <2>2. CASE serving.request.schedule \in Drafts
    <3>1. serving.request.schedule \in ScheduleIds'
      BY <1>2, <2>2 DEF Drafts
    <3>2. QED
      BY <1>6, <1>9, <2>1, <2>2, <3>1 DEF UseRequested
  <2>3. CASE serving.request.schedule \notin Drafts
    BY <1>6, <1>7, <1>9, <2>1, <2>3 DEF UseRequested
  <2>4. QED
    BY <2>2, <2>3
<1>10. CASE UseNewest
  <2>1. serving # [pc |-> "idle"]
    BY <1>10 DEF UseNewest
  <2>2. CASE Drafts # {}
    BY <1>6, <1>8, <1>10, <2>1, <2>2 DEF UseNewest
  <2>3. CASE Drafts = {}
    BY <1>6, <1>7, <1>10, <2>1, <2>3 DEF UseNewest
  <2>4. QED
    BY <2>2, <2>3
<1>11. CASE InsertDraft
  <2> DEFINE x == [draft |-> TRUE, published |-> FALSE, filled |-> FALSE, by |-> None]
  <2>1. x \in ScheduleRow /\ x.by = None
    BY FreshRow
  <2>2. schedules' = Append(schedules, x) /\ UNCHANGED runs
    BY <1>11 DEF InsertDraft
  <2> HIDE DEF x
  <2>3. Len(schedules') \in ScheduleIds'
    BY <1>2, <2>1, <2>2, ScheduleAdded
  <2>4. /\ serving # [pc |-> "idle"]
        /\ serving' = [serving EXCEPT !.pc = "save", !.target = Len(schedules')]
    BY <1>11 DEF InsertDraft
  <2> HIDE DEF Stored
  <2>5. QED
    BY <1>6, <2>3, <2>4
<1>12. CASE SaveSolution
  <2>1. serving # [pc |-> "idle"] /\ serving.pc = "save"
    BY <1>12 DEF SaveSolution
  <2>2. serving.target \in ScheduleIds /\ serving.target \in ScheduleIds'
    BY <1>7, <2>1 DEF RequestsInv, ServingInv
  <2>3. ASSUME serving.status = "solved"
        PROVE  serving.target \in Stored'
    <3>1. schedules' = [schedules EXCEPT ![serving.target].filled = TRUE,
                                         ![serving.target].by = serving.request.run]
      BY <1>12, <2>3 DEF SaveSolution
    <3>2. schedules[serving.target] \in ScheduleRow /\ serving.target \in DOMAIN schedules
      BY <1>2, <2>2, Numbered
    <3>3. schedules'[serving.target].by = serving.request.run
      BY <3>1, <3>2 DEF ScheduleRow
    <3>4. serving.request.run \in Nat \ {0}
      BY <1>2, <2>1, Numbered DEF RequestsInv, ServingInv, RequestNames
    <3>5. QED
      BY <2>2, <3>3, <3>4 DEF Stored, None
  <2>4. serving' = [serving EXCEPT !.pc = "respond", !.target = serving.target]
    BY <1>7, <1>12, <2>1 DEF SaveSolution
  <2> HIDE DEF Stored
  <2>5. QED
    BY <1>6, <1>7, <2>1, <2>2, <2>3, <2>4
<1>13. CASE Respond
  <2>1. serving # [pc |-> "idle"] /\ serving.pc = "respond"
    BY <1>13 DEF Respond
  <2>2. serving' = [serving EXCEPT !.pc = "ack", !.target = serving.target]
    BY <1>7, <1>13, <2>1 DEF Respond
  <2> HIDE DEF Stored
  <2>3. QED
    BY <1>6, <1>7, <2>1, <2>2
<1>14. CASE AckRequest \/ Requeue
  BY <1>14 DEF AckRequest, Requeue, ServingInv
<1>15. \/ UNCHANGED serving \/ (\E status \in {"solved", "failed"} : Serve(status))
       \/ UseRequested \/ UseNewest \/ InsertDraft \/ SaveSolution \/ Respond
       \/ AckRequest \/ Requeue
  BY Steps, CallsElsewhere
  DEF ElsewhereOfServices, CreateSchedule, CreateRun, StartNightly, NewRun, WriteSchedule,
      ManualSession, FindRun, StealResponse, UpdateRun, vars
<1>16. QED
  BY <1>4, <1>5, <1>9, <1>10, <1>11, <1>12, <1>13, <1>14, <1>15

\* The steps that touch the runs: a new one, or the one the consumer found.
LEMMA RunsOnlyGrowOrComplete ==
    ASSUME RequestsInv, [Next]_vars
    PROVE  \/ UNCHANGED runs
           \/ (\E c \in Callers : NewRun(c)) /\ (\A r \in RunIds : runs'[r] = runs[r])
           \/ /\ UpdateRun /\ handling.found \in Pending
              /\ \A r \in RunIds : r # handling.found => runs'[r] = runs[r]
<1>1. ASSUME NEW c \in Callers, NewRun(c)
      PROVE  \A r \in RunIds : runs'[r] = runs[r]
  BY <1>1, RunAdded DEF NewRun, RequestsInv
<1>2. ASSUME UpdateRun
      PROVE  /\ handling.found \in Pending
             /\ \A r \in RunIds : r # handling.found => runs'[r] = runs[r]
  BY <1>2 DEF UpdateRun, RequestsInv, HandlingInv, HandlingRecord, RowsInv, RunIds, Pending
<1>3. UNCHANGED runs \/ (\E c \in Callers : NewRun(c)) \/ UpdateRun
  BY Steps, CallsElsewhere, ServicesElsewhere
  DEF CreateSchedule, CreateRun, StartNightly, WriteSchedule, ManualSession, InsertDraft,
      SaveSolution
<1>4. QED
  BY <1>1, <1>2, <1>3

\* The run that was found stays pending until the consumer completes it: it is
\* the only one that completes runs.
LEMMA HandlingInvStep ==
    ASSUME RequestsInv, [Next]_vars
    PROVE  HandlingInv'
<1>1. Grows
  BY RowsGrow
<1>2. RowsInv /\ \A x : ResponseNames(x, ScheduleIds, Stored) => ResponseNames(x, ScheduleIds', Stored')
  BY <1>1, StillNamed DEF RequestsInv
<1>3. CASE UNCHANGED handling /\ ~UpdateRun
  <2>1. CASE handling = [pc |-> "idle"]
    BY <1>3, <2>1 DEF HandlingInv
  <2>2. CASE handling # [pc |-> "idle"]
    <3>1. /\ handling \in HandlingRecord /\ ResponseNames(handling, ScheduleIds', Stored')
          /\ handling.found \in Pending
      BY <1>2, <2>2 DEF RequestsInv, HandlingInv
    <3>2. RunIds \subseteq RunIds' /\ \A r \in RunIds : runs'[r] = runs[r]
      BY <1>1, <1>2, <1>3, RunsOnlyGrowOrComplete, GrowsIds
    <3>3. handling.found \in Pending'
      BY <3>1, <3>2 DEF Pending
    <3>4. QED
      BY <1>3, <3>1, <3>3 DEF HandlingInv
  <2>3. QED
    BY <2>1, <2>2
<1>4. CASE UpdateRun
  BY <1>4 DEF UpdateRun, HandlingInv
<1>5. CASE FindRun
  <2>1. CASE Pending = {}
    BY <1>5, <2>1 DEF FindRun, HandlingInv
  <2>2. CASE Pending # {}
    <3>1. Max(Pending) \in Pending /\ Max(Pending) \in Nat
      BY <1>2, <2>2, NewestIsThere DEF Pending, RunIds
    <3>2. responses \in Seq(ResponseRecord) /\ responses # <<>>
      BY <1>5 DEF FindRun, RequestsInv, QueuesInv
    <3>3. Head(responses) \in ResponseRecord /\ ResponseNames(Head(responses), ScheduleIds', Stored')
      BY <1>2, <3>2, Dequeued DEF RequestsInv, QueuesInv
    <3>4. /\ handling' \in HandlingRecord /\ handling'.found = Max(Pending)
          /\ handling'.status = Head(responses).status
          /\ handling'.schedule = Head(responses).schedule
      BY <1>5, <2>2, <3>1, <3>3 DEF FindRun, HandlingRecord, ResponseRecord
    <3>5. ResponseNames(handling', ScheduleIds', Stored')
      BY <3>3, <3>4 DEF ResponseNames
    <3>6. Pending' = Pending
      BY <1>5 DEF FindRun, Pending, RunIds
    <3>7. QED
      BY <3>1, <3>4, <3>5, <3>6 DEF HandlingInv
  <2>3. QED
    BY <2>1, <2>2
<1>6. UNCHANGED handling \/ UpdateRun \/ FindRun
  BY Steps, CallsElsewhere
  DEF ElsewhereOfServices, CreateSchedule, CreateRun, StartNightly, NewRun, WriteSchedule,
      ManualSession, Serve, UseRequested, UseNewest, Respond, AckRequest, Requeue, StealResponse,
      InsertDraft, SaveSolution, vars
<1>7. QED
  BY <1>3, <1>4, <1>5, <1>6

\* The counters count.
LEMMA CountsInvStep ==
    ASSUME RequestsInv, [Next]_vars
    PROVE  CountsInv'
<1>1. CASE UNCHANGED <<notified, losses>>
  BY <1>1 DEF RequestsInv, CountsInv, losses
<1>2. ASSUME NEW c \in Callers, NotifyPublished(c)
      PROVE  CountsInv'
  BY <1>2 DEF NotifyPublished, RequestsInv, CountsInv, losses
<1>3. ASSUME NEW c \in Callers, CallFails(c)
      PROVE  CountsInv'
  BY <1>3 DEF CallFails, Mishap, RequestsInv, CountsInv
<1>4. ASSUME NEW s \in ScheduleIds, ManualSession(s)
      PROVE  CountsInv'
  BY <1>4 DEF ManualSession, Mishap, RequestsInv, CountsInv
<1>5. CASE Requeue \/ StealResponse
  BY <1>5 DEF Requeue, StealResponse, Mishap, RequestsInv, CountsInv
<1>6. \/ UNCHANGED <<notified, losses>>
      \/ \E c \in Callers : NotifyPublished(c) \/ CallFails(c)
      \/ \E s \in ScheduleIds : ManualSession(s)
      \/ Requeue \/ StealResponse
  BY Steps
  DEF ElsewhereOfCall, ElsewhereOfServices, FindEmptyDraft, LatestSchedule, ReadSchedule,
     CreateSchedule, CreateRun, StartNightly, NewRun, WriteSchedule,
     UseRequested, UseNewest, Respond, AckRequest, FindRun,
     InsertDraft, SaveSolution, UpdateRun, Serve, SendRequest, vars
<1>7. QED
  BY <1>1, <1>2, <1>3, <1>4, <1>5, <1>6

------------------------------------------------------------------------------
(* The invariant and what it gives *)

\* Whatever a step does, what names a row names one that there is, and the run
\* about to be completed is pending.
THEOREM RequestsInvariant == Spec => []RequestsInv
<1>1. Init => RequestsInv
  <2> SUFFICES ASSUME Init
               PROVE  RequestsInv
    OBVIOUS
  <2>1. RowsInv
    BY DEF Init, RowsInv, ScheduleIds, RunIds
  <2>2. CallsInv
    BY DEF Init, CallsInv, CallNames, CallRecord, None
  <2>3. QueuesInv
    BY DEF Init, QueuesInv
  <2>4. ServingInv /\ HandlingInv
    BY DEF Init, ServingInv, HandlingInv
  <2>5. CountsInv
    BY DEF Init, CountsInv
  <2>6. QED
    BY <2>1, <2>2, <2>3, <2>4, <2>5 DEF RequestsInv
<1>2. RequestsInv /\ [Next]_vars => RequestsInv'
  <2> SUFFICES ASSUME RequestsInv, [Next]_vars
               PROVE  RequestsInv'
    OBVIOUS
  <2>1. RowsInv'
    BY RowsGrow DEF Grows
  <2>2. QueuesInv'
    BY RequestsOKStep, ResponsesOKStep DEF QueuesInv, RequestsOK, ResponsesOK
  <2>3. QED
    BY <2>1, <2>2, CallsInvStep, ServingInvStep, HandlingInvStep, CountsInvStep DEF RequestsInv
<1>3. QED
  BY <1>1, <1>2, PTL DEF Spec

\* Every row, message and step of a call is of its kind and names rows that
\* there are.
THEOREM RequestsAreTyped == Spec => []TypeOK
<1>1. RequestsInv => TypeOK
  <2> SUFFICES ASSUME RequestsInv
               PROVE  TypeOK
    OBVIOUS
  <2>0. RowsInv /\ CallsInv /\ QueuesInv /\ ServingInv /\ HandlingInv /\ CountsInv
    BY DEF RequestsInv
  <2>1. \A s \in ScheduleIds :
            schedules[s] \in [draft : BOOLEAN, published : BOOLEAN,
                              filled : BOOLEAN, by : RunIds \cup {None}]
    BY <2>0, Numbered DEF RowsInv, ScheduleRow
  <2>2. \A r \in RunIds :
            runs[r] \in [status : {"pending", "solved", "failed"},
                         schedule : ScheduleIds \cup {None}]
    BY <2>0, Numbered DEF RowsInv, RunRow
  <2>3. call \in [Callers -> [pc : {"idle", "create", "run", "send",
                                    "write", "reread", "done"},
                              schedule : ScheduleIds \cup {None},
                              run : RunIds \cup {None},
                              previously : BOOLEAN]]
    BY <2>0 DEF CallsInv, CallRecord, CallNames
  <2>4. \A i \in DOMAIN requests :
            requests[i] \in [run : RunIds, schedule : ScheduleIds \cup {None}]
    <3>1. ASSUME NEW i \in DOMAIN requests
          PROVE  requests[i] \in RequestRecord /\ RequestNames(requests[i], ScheduleIds, RunIds)
      BY <2>0, ElementOfSeq DEF QueuesInv
    <3>2. QED
      BY <3>1 DEF RequestRecord, RequestNames
  <2>5. \A i \in DOMAIN responses :
            responses[i] \in [status : {"solved", "failed"}, schedule : ScheduleIds]
    <3>1. ASSUME NEW i \in DOMAIN responses
          PROVE  responses[i] \in ResponseRecord /\ ResponseNames(responses[i], ScheduleIds, Stored)
      BY <2>0, ElementOfSeq DEF QueuesInv
    <3>2. QED
      BY <3>1 DEF ResponseRecord, ResponseNames, Outcomes
  <2>6. /\ serving \in [pc : {"idle"}] \cup
                    [pc : {"requested", "newest", "insert", "save", "respond", "ack"},
                     request : [run : RunIds, schedule : ScheduleIds \cup {None}],
                     status : {"solved", "failed"},
                     target : ScheduleIds \cup {None}]
        /\ serving.pc \in {"save", "respond", "ack"} => serving.target # None
    <3>1. CASE serving = [pc |-> "idle"]
      BY <3>1
    <3>2. CASE serving # [pc |-> "idle"]
      <4>1. /\ serving \in ServingRecord /\ RequestNames(serving.request, ScheduleIds, RunIds)
            /\ serving.target \in ScheduleIds \cup {None}
            /\ serving.pc \in {"save", "respond", "ack"} => serving.target \in ScheduleIds
        BY <2>0, <3>2 DEF ServingInv
      <4>2. None \notin ScheduleIds
        BY DEF ScheduleIds, None
      <4>3. serving.request \in [run : RunIds, schedule : ScheduleIds \cup {None}]
        BY <4>1 DEF ServingRecord, RequestRecord, RequestNames
      <4>4. QED
        BY <4>1, <4>2, <4>3 DEF ServingRecord, Outcomes
    <3>3. QED
      BY <3>1, <3>2
  <2>7. handling \in [pc : {"idle"}] \cup
                     [pc : {"update"}, status : {"solved", "failed"},
                      schedule : ScheduleIds, found : RunIds]
    BY <2>0 DEF HandlingInv, HandlingRecord, ResponseNames, Outcomes, Pending
  <2>8. {notified, stranded, stolen, repeated, mishaps} \subseteq Nat
    BY <2>0 DEF CountsInv
  <2>9. QED
    BY <2>1, <2>2, <2>3, <2>4, <2>5, <2>6, <2>7, <2>8 DEF TypeOK
<1>2. QED
  BY <1>1, RequestsInvariant, PTL

\* A run marked solved points at a schedule that some solution was stored in,
\* however runs and responses were mixed up.
THEOREM SolvedRunsAreStored == Spec => []SolvedRunIsStored
<1>1. RequestsInv => SolvedRunIsStored
  BY DEF RequestsInv, RowsInv, SolvedRunIsStored, Stored
<1>2. QED
  BY <1>1, RequestsInvariant, PTL

\* A completed run is never touched again: the run found pending is still
\* pending when it is updated.
THEOREM CompletedRunsAreFinal == Spec => CompletedIsFinal
<1>1. RequestsInv /\ [Next]_vars => [\A r \in RunIds \ Pending : runs'[r] = runs[r]]_vars
  BY RunsOnlyGrowOrComplete
<1>2. QED
  BY <1>1, RequestsInvariant, PTL DEF Spec, CompletedIsFinal

------------------------------------------------------------------------------
(* The books *)

\* Calls about to publish, and the solver and the consumer, as 0 or 1.
Sending == {c \in Callers : call[c].pc = "send"}
Sendings == Cardinality(Sending)
Pendings == Cardinality(Pending)
AtSolver == IF serving.pc \in {"idle", "ack"} THEN 0 ELSE 1
AtConsumer == IF handling.pc = "idle" THEN 0 ELSE 1

\* There are finitely many calls about to publish, and pending runs.
LEMMA Finite ==
    ASSUME RequestsInv
    PROVE  IsFiniteSet(Sending) /\ IsFiniteSet(Pending)
<1>1. IsFiniteSet(Sending)
  BY ScheduleRequestsAssumption, FS_Subset DEF Sending
<1>2. IsFiniteSet(RunIds)
  BY Numbered, FS_Interval DEF RequestsInv, RunIds
<1>3. IsFiniteSet(Pending)
  BY <1>2, FS_Subset DEF Pending
<1>4. QED
  BY <1>1, <1>3

Owed == Sendings + Len(requests) + AtSolver + Len(responses) + AtConsumer
        + stranded + stolen

Books == Pendings <= Owed /\ Owed <= Pendings + repeated

\* All that is added up are natural numbers.
LEMMA Counted ==
    ASSUME RequestsInv
    PROVE  /\ Sendings \in Nat /\ Pendings \in Nat /\ Owed \in Nat
           /\ Len(requests) \in Nat /\ Len(responses) \in Nat
           /\ AtSolver \in Nat /\ AtConsumer \in Nat
           /\ stranded \in Nat /\ stolen \in Nat /\ repeated \in Nat
<1>1. /\ Len(requests) \in Nat /\ Len(responses) \in Nat
      /\ stranded \in Nat /\ stolen \in Nat /\ repeated \in Nat
  BY DEF RequestsInv, QueuesInv, CountsInv
<1>2. AtSolver \in Nat /\ AtConsumer \in Nat
  BY DEF AtSolver, AtConsumer
<1>3. Sendings \in Nat /\ Pendings \in Nat
  BY Finite, FS_CardinalityType DEF Sendings, Pendings
<1>4. Owed \in Nat
  BY <1>1, <1>2, <1>3 DEF Owed
<1>5. QED
  BY <1>1, <1>2, <1>3, <1>4

\* The books are in order after a step that changes what is owed by m, and by one
\* less than it changes the pending runs if it answers a request once more.
LEMMA Balanced ==
    ASSUME RequestsInv, Books, NEW m \in Int, NEW k \in {0, 1},
           Owed' = Owed + m, Pendings' = Pendings + m - k, repeated' = repeated + k
    PROVE  Books'
<1>1. Owed \in Nat /\ Pendings \in Nat /\ repeated \in Nat
  BY Counted
<1>2. QED
  BY <1>1 DEF Books

\* The property, in these terms.
LEMMA BooksAreTheBooks == RunsAccounted <=> Books
<1>1. Outstanding = Sendings + Len(requests) + AtSolver + Len(responses) + AtConsumer
  BY DEF Outstanding, Sendings, Sending, AtSolver, AtConsumer
<1>2. QED
  BY <1>1 DEF RunsAccounted, Books, Owed, Pendings

\* How the number of calls about to publish changes when call c moves.
LEMMA SendingMoves ==
    ASSUME RequestsInv, NEW c \in Callers,
           \A d \in Callers \ {c} : call'[d] = call[d]
    PROVE  Sendings' =
              IF call'[c].pc = "send"
              THEN IF call[c].pc = "send" THEN Sendings ELSE Sendings + 1
              ELSE IF call[c].pc = "send" THEN Sendings - 1 ELSE Sendings
<1>1. IsFiniteSet(Sending)
  BY Finite
<1>2. CASE call'[c].pc = "send"
  <2>1. Sending' = Sending \cup {c}
    BY <1>2 DEF Sending
  <2>2. c \in Sending <=> call[c].pc = "send"
    BY DEF Sending
  <2>3. QED
    BY <1>1, <1>2, <2>1, <2>2, FS_AddElement DEF Sendings
<1>3. CASE call'[c].pc # "send"
  <2>1. Sending' = Sending \ {c}
    BY <1>3 DEF Sending
  <2>2. c \in Sending <=> call[c].pc = "send"
    BY DEF Sending
  <2>3. QED
    BY <1>1, <1>3, <2>1, <2>2, FS_RemoveElement DEF Sendings
<1>4. QED
  BY <1>2, <1>3

\* The steps of calls.
LEMMA BooksOfCalls ==
    ASSUME RequestsInv, Books, NEW c \in Callers,
           ElsewhereOfCall(c) \/ CreateSchedule(c) \/ CreateRun(c) \/ StartNightly(c)
               \/ WriteSchedule(c)
    PROVE  Books'
<1>1. call \in [Callers -> CallRecord] /\ requests \in Seq(RequestRecord)
  BY DEF RequestsInv, CallsInv, QueuesInv
<1>n. /\ Sendings \in Nat /\ Pendings \in Nat /\ Owed \in Nat
      /\ Len(requests) \in Nat /\ Len(responses) \in Nat
      /\ AtSolver \in Nat /\ AtConsumer \in Nat
      /\ stranded \in Nat /\ stolen \in Nat /\ repeated \in Nat
  BY Counted
<1>2. CASE SendRequest(c)
  <2>1. /\ call[c].pc = "send" /\ call'[c].pc = "done"
        /\ \A d \in Callers \ {c} : call'[d] = call[d]
    BY <1>1, <1>2 DEF SendRequest, Goto, CallRecord
  <2>2. Sendings' = Sendings - 1
    BY <2>1, SendingMoves
  <2> DEFINE x == [run |-> call[c].run, schedule |-> call[c].schedule]
  <2>3. x \in RequestRecord /\ requests' = Append(requests, x)
    BY <1>1, <1>2 DEF SendRequest, CallRecord, RequestRecord
  <2> HIDE DEF x
  <2>4. Len(requests') = Len(requests) + 1
    BY <1>1, <2>3, Enqueued
  <2>5. /\ Pendings' = Pendings /\ AtSolver' = AtSolver /\ AtConsumer' = AtConsumer
        /\ UNCHANGED <<responses, stranded, stolen, repeated>>
    BY <1>2 DEF SendRequest, Pendings, Pending, RunIds, AtSolver, AtConsumer, losses
  <2>6. QED
    BY <2>2, <2>4, <2>5, <1>n DEF Books, Owed
<1>3. CASE CallFails(c)
  <2>1. /\ call'[c].pc = "done" /\ \A d \in Callers \ {c} : call'[d] = call[d]
    BY <1>1, <1>3 DEF CallFails, Goto, CallRecord
  <2>2. \/ Sendings' = Sendings - 1 /\ stranded' = stranded + 1
        \/ Sendings' = Sendings /\ stranded' = stranded
    BY <1>3, <2>1, SendingMoves DEF CallFails
  <2>3. /\ Pendings' = Pendings /\ AtSolver' = AtSolver /\ AtConsumer' = AtConsumer
        /\ UNCHANGED <<requests, responses, stolen, repeated>>
    BY <1>3 DEF CallFails, Pendings, Pending, RunIds, AtSolver, AtConsumer
  <2>4. CASE Sendings' = Sendings - 1 /\ stranded' = stranded + 1
    BY <2>3, <2>4, <1>n DEF Books, Owed
  <2>5. CASE Sendings' = Sendings /\ stranded' = stranded
    BY <2>3, <2>5 DEF Books, Owed
  <2>6. QED
    BY <2>2, <2>4, <2>5
<1>4. CASE NewRun(c) /\ call[c].pc # "send"
  <2>1. /\ call'[c].pc = "send" /\ \A d \in Callers \ {c} : call'[d] = call[d]
    BY <1>1, <1>4 DEF NewRun, CallRecord
  <2>2. Sendings' = Sendings + 1
    BY <1>4, <2>1, SendingMoves
  <2>3. Pending' = Pending \cup {Len(runs')} /\ Len(runs') \notin Pending
    BY <1>4, RunAdded DEF NewRun, RequestsInv, Pending
  <2>4. Pendings' = Pendings + 1
    BY <2>3, Finite, FS_AddElement DEF Pendings
  <2>5. /\ AtSolver' = AtSolver /\ AtConsumer' = AtConsumer
        /\ UNCHANGED <<requests, responses, stranded, stolen, repeated>>
    BY <1>4 DEF NewRun, AtSolver, AtConsumer, losses
  <2>6. QED
    BY <2>2, <2>4, <2>5, <1>n DEF Books, Owed
<1>5. CASE /\ call[c].pc # "send" /\ call'[c].pc # "send"
           /\ \A d \in Callers \ {c} : call'[d] = call[d]
           /\ UNCHANGED <<runs, requests, serving, responses, handling, losses>>
  <2>1. Sendings' = Sendings
    BY <1>5, SendingMoves
  <2>2. /\ Pendings' = Pendings /\ AtSolver' = AtSolver /\ AtConsumer' = AtConsumer
        /\ UNCHANGED <<requests, responses, stranded, stolen, repeated>>
    BY <1>5 DEF Pendings, Pending, RunIds, AtSolver, AtConsumer, losses
  <2>3. QED
    BY <2>1, <2>2 DEF Books, Owed
<1>6. ASSUME FindEmptyDraft(c) \/ NotifyPublished(c) \/ CreateSchedule(c) \/ WriteSchedule(c)
      PROVE  Books'
  <2>1. /\ call[c].pc # "send" /\ call'[c].pc # "send"
        /\ \A d \in Callers \ {c} : call'[d] = call[d]
    BY <1>1, <1>6 DEF FindEmptyDraft, NotifyPublished, CreateSchedule, WriteSchedule, Goto, CallRecord
  <2>2. UNCHANGED <<runs, requests, serving, responses, handling, losses>>
    BY <1>6 DEF FindEmptyDraft, NotifyPublished, CreateSchedule, WriteSchedule
  <2>3. QED
    BY <1>5, <2>1, <2>2
<1>7. ASSUME NEW s, LatestSchedule(c, s) \/ ReadSchedule(c, s)
      PROVE  Books'
  <2>1. /\ call[c].pc = "idle" /\ \A d \in Callers \ {c} : call'[d] = call[d]
    BY <1>1, <1>7 DEF LatestSchedule, ReadSchedule
  <2>2. call'[c].pc # "send"
    <3>1. CASE LatestSchedule(c, s)
      BY <1>1, <3>1 DEF LatestSchedule, CallRecord
    <3>2. CASE ReadSchedule(c, s)
      BY <1>1, <3>2 DEF ReadSchedule, CallRecord
    <3>3. QED
      BY <1>7, <3>1, <3>2
  <2>3. UNCHANGED <<runs, requests, serving, responses, handling, losses>>
    BY <1>7 DEF LatestSchedule, ReadSchedule
  <2>4. QED
    BY <1>5, <2>1, <2>2, <2>3
<1>8. CreateRun(c) \/ StartNightly(c) => NewRun(c) /\ call[c].pc # "send"
  BY DEF CreateRun, StartNightly
<1>9. QED
  BY <1>2, <1>3, <1>4, <1>6, <1>7, <1>8 DEF ElsewhereOfCall

\* The steps of the solver and of the consumer, and what befalls the queues.
LEMMA BooksOfServices ==
    ASSUME RequestsInv, Books,
           \/ \E s \in ScheduleIds : ManualSession(s)
           \/ ElsewhereOfServices \/ InsertDraft \/ SaveSolution \/ UpdateRun
    PROVE  Books'
<1>1. /\ requests \in Seq(RequestRecord) /\ responses \in Seq(ResponseRecord)
      /\ ServingInv /\ HandlingInv /\ RowsInv
  BY DEF RequestsInv, QueuesInv
<1>n. /\ Sendings \in Nat /\ Pendings \in Nat /\ Owed \in Nat
      /\ Len(requests) \in Nat /\ Len(responses) \in Nat
      /\ AtSolver \in Nat /\ AtConsumer \in Nat
      /\ stranded \in Nat /\ stolen \in Nat /\ repeated \in Nat
  BY Counted
<1>2. UNCHANGED call
  BY ServicesElsewhere DEF ManualSession, InsertDraft, SaveSolution, UpdateRun
<1>3. Sendings' = Sendings
  BY <1>2 DEF Sendings, Sending
<1>4. UNCHANGED runs => Pendings' = Pendings
  BY DEF Pendings, Pending, RunIds
<1>5. serving # [pc |-> "idle"] => serving \in ServingRecord
  BY <1>1 DEF ServingInv
<1>6. ASSUME NEW status \in {"solved", "failed"}, Serve(status)
      PROVE  Books'
  <2>1. Len(requests') = Len(requests) - 1
    BY <1>1, <1>6, Dequeued DEF Serve
  <2>2. AtSolver = 0 /\ AtSolver' = 1
    BY <1>6 DEF Serve, AtSolver
  <2>3. /\ AtConsumer' = AtConsumer
        /\ UNCHANGED <<runs, responses, stranded, stolen, repeated>>
    BY <1>6 DEF Serve, AtConsumer, losses
  <2>4. QED
    BY <1>3, <1>4, <2>1, <2>2, <2>3, <1>n DEF Books, Owed
<1>7. CASE UseRequested \/ UseNewest \/ InsertDraft \/ SaveSolution \/ AckRequest
  <2>1. serving \in ServingRecord
    BY <1>5, <1>7 DEF UseRequested, UseNewest, InsertDraft, SaveSolution, AckRequest
  <2>a. ASSUME AckRequest PROVE AtSolver' = AtSolver
    BY <2>a DEF AckRequest, AtSolver
  <2>b. ASSUME UseRequested PROVE AtSolver' = AtSolver
    BY <2>1, <2>b DEF UseRequested, AtSolver, ServingRecord
  <2>c. ASSUME UseNewest PROVE AtSolver' = AtSolver
    BY <2>1, <2>c DEF UseNewest, AtSolver, ServingRecord
  <2>d. ASSUME InsertDraft \/ SaveSolution PROVE AtSolver' = AtSolver
    BY <2>1, <2>d DEF InsertDraft, SaveSolution, AtSolver, ServingRecord
  <2>2. AtSolver' = AtSolver
    BY <1>7, <2>a, <2>b, <2>c, <2>d
  <2>3. /\ AtConsumer' = AtConsumer
        /\ UNCHANGED <<runs, requests, responses, stranded, stolen, repeated>>
    BY <1>7 DEF UseRequested, UseNewest, InsertDraft, SaveSolution, AckRequest, AtConsumer, losses
  <2>4. QED
    BY <1>3, <1>4, <2>2, <2>3 DEF Books, Owed
<1>8. CASE Respond
  <2> DEFINE x == [status |-> serving.status, schedule |-> serving.target]
  <2>1. serving \in ServingRecord
    BY <1>5, <1>8 DEF Respond
  <2>2. x \in ResponseRecord /\ responses' = Append(responses, x)
    BY <1>8, <2>1 DEF Respond, ServingRecord, ResponseRecord
  <2> HIDE DEF x
  <2>3. Len(responses') = Len(responses) + 1
    BY <1>1, <2>2, Enqueued
  <2>4. AtSolver = 1 /\ AtSolver' = 0
    BY <1>8, <2>1 DEF Respond, AtSolver, ServingRecord
  <2>5. AtConsumer' = AtConsumer /\ UNCHANGED <<runs, requests, stranded, stolen, repeated>>
    BY <1>8 DEF Respond, AtConsumer, losses
  <2>6. QED
    BY <1>3, <1>4, <2>3, <2>4, <2>5, <1>n DEF Books, Owed
<1>9. CASE Requeue
  <2> DEFINE x == serving.request
  <2>1. x \in RequestRecord /\ requests' = <<x>> \o requests
    BY <1>5, <1>9 DEF Requeue, ServingRecord
  <2> HIDE DEF x
  <2>2. <<x>> \in Seq(RequestRecord) /\ Len(<<x>>) = 1
    BY <2>1
  <2>3. Len(requests') = Len(requests) + 1
    BY <1>1, <2>1, <2>2, ConcatProperties
  <2>4. /\ AtSolver' = 0 /\ AtConsumer' = AtConsumer
        /\ UNCHANGED <<runs, responses, stranded, stolen>>
    BY <1>9 DEF Requeue, AtSolver, AtConsumer
  <2>5. IF AtSolver = 0 THEN repeated' = repeated + 1 ELSE repeated' = repeated /\ AtSolver = 1
    BY <1>9 DEF Requeue, AtSolver
  <2>6. QED
    BY <1>3, <1>4, <2>3, <2>4, <2>5, <1>n DEF Books, Owed
<1>10. CASE FindRun
  <2>1. Len(responses') = Len(responses) - 1
    BY <1>1, <1>10, Dequeued DEF FindRun
  <2>2. /\ AtSolver' = AtSolver /\ AtConsumer = 0
        /\ UNCHANGED <<runs, requests, stranded, stolen, repeated>>
    BY <1>10 DEF FindRun, AtSolver, AtConsumer, losses
  <2>3. IF Pending = {} THEN AtConsumer' = 0 ELSE AtConsumer' = 1
    BY <1>10 DEF FindRun, AtConsumer
  <2>4. Pending = {} => Pendings = 0
    BY FS_EmptySet DEF Pendings
  <2>5. Len(responses') \in Nat
    BY <1>1, <1>10, Dequeued DEF FindRun
  <2>6. QED
    BY <1>3, <1>4, <2>1, <2>2, <2>3, <2>4, <2>5, <1>n DEF Books, Owed
<1>11. CASE UpdateRun
  <2> DEFINE s == IF handling.status = "solved" THEN handling.schedule ELSE None
  <2>1. /\ handling.found \in Pending /\ handling.status \in Outcomes
        /\ s \in ScheduleIds \cup {None} /\ (handling.status = "solved" => s \in Stored)
    BY <1>1, <1>11 DEF UpdateRun, HandlingInv, HandlingRecord, ResponseNames
  <2>2. /\ runs' = [runs EXCEPT ![handling.found] = [status |-> handling.status, schedule |-> s]]
        /\ UNCHANGED schedules
    BY <1>11 DEF UpdateRun
  <2> HIDE DEF s
  <2>3. Pending' = Pending \ {handling.found}
    BY <1>1, <2>1, <2>2, RunCompleted
  <2>4. Pendings' = Pendings - 1
    BY <2>1, <2>3, Finite, FS_RemoveElement DEF Pendings
  <2>5. /\ AtSolver' = AtSolver /\ AtConsumer = 1 /\ AtConsumer' = 0
        /\ UNCHANGED <<requests, responses, stranded, stolen, repeated>>
    BY <1>11 DEF UpdateRun, AtSolver, AtConsumer, losses
  <2>6. QED
    BY <1>3, <2>4, <2>5, <1>n DEF Books, Owed
<1>12. CASE StealResponse
  <2>1. Len(responses') = Len(responses) - 1
    BY <1>1, <1>12, Dequeued DEF StealResponse
  <2>2. /\ AtSolver' = AtSolver /\ AtConsumer' = AtConsumer /\ stolen' = stolen + 1
        /\ UNCHANGED <<runs, requests, stranded, repeated>>
    BY <1>12 DEF StealResponse, AtSolver, AtConsumer
  <2>3. Owed' = Owed + 0
    BY <1>3, <1>4, <2>1, <2>2, <1>n DEF Owed
  <2>4. QED
    BY <1>4, <2>2, <2>3, <1>n, Balanced
<1>13. CASE UNCHANGED vars \/ \E s \in ScheduleIds : ManualSession(s)
  <2>1. /\ AtSolver' = AtSolver /\ AtConsumer' = AtConsumer
        /\ UNCHANGED <<runs, requests, responses, stranded, stolen, repeated>>
    BY <1>13 DEF vars, losses, ManualSession, AtSolver, AtConsumer
  <2>2. QED
    BY <1>3, <1>4, <2>1 DEF Books, Owed
<1>14. QED
  BY <1>6, <1>7, <1>8, <1>9, <1>10, <1>11, <1>12, <1>13 DEF ElsewhereOfServices

\* The pending runs are the outstanding requests and responses, plus what was
\* lost, but for requests answered twice.
THEOREM RunsAreAccounted == Spec => []RunsAccounted
<1>1. Init => Books
  <2> SUFFICES ASSUME Init
               PROVE  Books
    OBVIOUS
  <2>1. Pending = {} /\ Sending = {}
    BY DEF Init, Pending, RunIds, Sending
  <2>2. /\ AtSolver = 0 /\ AtConsumer = 0 /\ Len(requests) = 0 /\ Len(responses) = 0
        /\ stranded = 0 /\ stolen = 0 /\ repeated = 0
    BY DEF Init, AtSolver, AtConsumer
  <2>3. QED
    BY <2>1, <2>2, FS_EmptySet DEF Books, Owed, Pendings, Sendings
<1>2. RequestsInv /\ Books /\ [Next]_vars => Books'
  BY Steps, BooksOfCalls, BooksOfServices
<1>3. Spec => []Books
  BY <1>1, <1>2, RequestsInvariant, PTL DEF Spec
<1>4. QED
  BY <1>3, BooksAreTheBooks, PTL
=============================================================================
