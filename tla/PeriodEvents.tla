---------------------------- MODULE PeriodEvents ----------------------------
(***************************************************************************)
(* The notices lecturers get about a semester's periods and status         *)
(* (SchedulaBackend/src/notifications/period_events.py), for the rows of   *)
(* one semester.  A job of the scheduler looks at the semester every half  *)
(* hour, and a secretary's update of the semester looks at it at once; a   *)
(* row of period_notification_events per key and day keeps them from       *)
(* sending a notice twice.  Every await is a step.                         *)
(***************************************************************************)
EXTENDS Integers, Sequences, FiniteSets

CONSTANTS
    Scheduler,    \* the half-hourly job: APScheduler runs one at a time
    Updates,      \* PUT /secretary/semesters calls, one update each
    Lecturers,    \* lecturers with courses in the semester
    Statuses,     \* values of the status column
    Calendars,    \* dates the semester can have: a day for each of Boundaries
    Unknown,      \* no row in semester_period_state yet
    LastDay,      \* bound: days 0 .. LastDay
    MaxFailures   \* bound: statements or publishes that raise, and crashes

Boundaries == {"constraint_start", "constraint_end", "change_start", "change_end"}

ASSUME PeriodEventsAssumption ==
    /\ Scheduler \notin Updates
    /\ IsFiniteSet(Updates) /\ IsFiniteSet(Lecturers)
    /\ Unknown \notin Statuses
    /\ \A c \in Calendars :
          /\ c \in [Boundaries -> Int]
          /\ c.constraint_start <= c.constraint_end
          /\ c.change_start <= c.change_end
    /\ LastDay \in Nat
    /\ MaxFailures \in Nat

Actors == {Scheduler} \cup Updates

\* What process_semester_time_events looks for, in its order: so many days
\* before or after a boundary.  The pair is the event key.
Triggers ==
    << <<"constraint_start", -2>>, <<"constraint_start", 0>>,
       <<"constraint_end", -2>>, <<"constraint_end", -1>>, <<"constraint_end", 1>>,
       <<"change_start", -2>>, <<"change_start", 0>>,
       <<"change_end", -2>>, <<"change_end", -1>>, <<"change_end", 1>> >>

SnapshotKey == <<"snapshot">>
StatusKey(old, new) == <<"status", old, new>>

VARIABLES
    day,        \* the UTC date
    semester,   \* the semesters row: [status, dates]
    schedule,   \* whether a schedule exists for the semester
    seen,       \* semester_period_state: last_seen_status
    reserved,   \* rows of period_notification_events: [key, date]
    published,  \* those with published_at
    sent,       \* how many copies of a notice [key, date, to] were published
    actors,     \* what each actor has read and has still to do
    history,    \* every status the semester has had, in order
    failures    \* bound

database == <<semester, schedule, seen, reserved, published>>
vars == <<day, database, sent, actors, history, failures>>

\* Recipient of a notice that goes to every lecturer.
Everyone == "everyone"

(* An agenda is what an actor has still to do: *)
Event(key, date) == [do |-> "event", key |-> key, date |-> date]
TimeEvents == [do |-> "time events"]    \* process_semester_time_events
CheckStatus == [do |-> "check status"]  \* get_status_state and what follows
SaveStatus == [do |-> "save status"]    \* upsert_status_state

\* Nothing to do now, or any more: the job comes again, an update does not.
Idle == [pc |-> "idle"]
Done == [pc |-> "done"]

TypeOK ==
    /\ day \in 0 .. LastDay
    /\ semester \in [status : Statuses, dates : Calendars]
    /\ schedule \in BOOLEAN
    /\ seen \in Statuses \cup {Unknown}
    /\ published \subseteq reserved
    /\ \A e \in reserved : e.date \in 0 .. day
    /\ \A n \in DOMAIN sent : sent[n] \in Nat \ {0}
    /\ DOMAIN actors = Actors
    /\ \A a \in Actors :
          /\ \/ actors[a] \in {Idle, Done}
             \/ /\ actors[a].pc \in {"write", "reread", "next", "publish",
                                     "fan out", "mark"}
                /\ actors[a].row \in [status : Statuses, dates : Calendars]
                /\ actors[a].left \subseteq Lecturers
          /\ actors[a].pc = "next" => actors[a].agenda # <<>>
          /\ actors[a].pc \in {"publish", "fan out", "mark"} =>
                /\ Head(actors[a].agenda).do = "event"
                /\ [key |-> Head(actors[a].agenda).key,
                    date |-> Head(actors[a].agenda).date] \in reserved
    /\ failures \in 0 .. MaxFailures

Init ==
    /\ day = 0
    /\ semester \in [status : Statuses, dates : Calendars]
    /\ schedule = FALSE
    /\ seen = Unknown
    /\ reserved = {} /\ published = {}
    /\ sent = << >>
    /\ actors = [a \in Actors |-> Idle]
    /\ history = <<semester.status>>
    /\ failures = 0

-----------------------------------------------------------------------------
(* Agendas *)

\* The events due on date d by the dates the actor has read; on change_start
\* the snapshots are sent while the list is being made, so they come first.
Due(dates, d) ==
    LET Snapshots == IF d = dates.change_start THEN <<Event(SnapshotKey, d)>> ELSE <<>>
        At(i) == IF d = dates[Triggers[i][1]] + Triggers[i][2]
                 THEN <<Event(Triggers[i], d)>> ELSE <<>>
    IN  Snapshots \o At(1) \o At(2) \o At(3) \o At(4) \o At(5)
                  \o At(6) \o At(7) \o At(8) \o At(9) \o At(10)

\* Not the code: the status last seen is not saved.
StatusChange_NotSaved(old, new, d) ==
    IF old = new THEN <<>> ELSE <<Event(StatusKey(old, new), d)>>

\* process_status_change_event, then upsert_status_state.
StatusChange(old, new, d) ==
    IF old = new THEN <<>> ELSE <<Event(StatusKey(old, new), d), SaveStatus>>

\* Actor a goes on with this agenda.
Continue(a, agenda) ==
    actors' = [actors EXCEPT ![a] =
        IF agenda # <<>> THEN [@ EXCEPT !.pc = "next", !.agenda = agenda]
        ELSE IF a = Scheduler THEN Idle ELSE Done]

Agenda(a) == actors[a].agenda
HasNext(a, what) == actors[a].pc = "next" /\ Head(Agenda(a)).do = what

\* The row of the event the actor is busy with.
RowOf(a) == [key |-> Head(Agenda(a)).key, date |-> Head(Agenda(a)).date]

-----------------------------------------------------------------------------
(* Where the work comes from *)

\* run_period_transition_checks: list_semesters.
StartCheck ==
    /\ actors[Scheduler].pc = "idle"
    /\ actors' = [actors EXCEPT ![Scheduler] =
          [pc |-> "next", row |-> semester, agenda |-> <<TimeEvents, CheckStatus>>,
           left |-> {}]]
    /\ UNCHANGED <<day, database, sent, history, failures>>

\* update_semester: the row as it is before ...
ReadSemester(u) ==
    /\ actors[u].pc = "idle"
    /\ actors' = [actors EXCEPT ![u] = [pc |-> "write", row |-> semester,
                                        agenda |-> <<>>, left |-> {}]]
    /\ UNCHANGED <<day, database, sent, history, failures>>

\* ... the update of the status, the dates or both ...
WriteSemester(u) ==
    /\ actors[u].pc = "write"
    /\ \E s \in Statuses, c \in Calendars :
          /\ semester' = [status |-> s, dates |-> c]
          /\ history' = IF s = semester.status THEN history ELSE Append(history, s)
    /\ actors' = [actors EXCEPT ![u].pc = "reread"]
    /\ UNCHANGED <<day, schedule, seen, reserved, published, sent, failures>>

\* ... and the row as it is after, with which
\* process_semester_update_transition begins.
RereadSemester(u) ==
    /\ actors[u].pc = "reread"
    /\ actors' = [actors EXCEPT
          ![u].pc = "next",
          ![u].row = semester,
          ![u].agenda = StatusChange(actors[u].row.status, semester.status, day)
                            \o <<TimeEvents>>]
    /\ UNCHANGED <<day, database, sent, history, failures>>

-----------------------------------------------------------------------------
(* What an actor does with its agenda *)

\* process_semester_time_events reads the date and lists what is due.
ListTimeEvents(a) ==
    /\ HasNext(a, "time events")
    /\ Continue(a, Due(actors[a].row.dates, day) \o Tail(Agenda(a)))
    /\ UNCHANGED <<day, database, sent, history, failures>>

\* process_semester_status_from_state, with the status it was handed: a first
\* look only saves it.
CheckStatusState(a) ==
    /\ HasNext(a, "check status")
    /\ Continue(a, IF seen = Unknown THEN <<SaveStatus>>
                   ELSE StatusChange(seen, actors[a].row.status, day))
    /\ UNCHANGED <<day, database, sent, history, failures>>

UpsertStatusState(a) ==
    /\ HasNext(a, "save status")
    /\ seen' = actors[a].row.status
    /\ Continue(a, Tail(Agenda(a)))
    /\ UNCHANGED <<day, semester, schedule, reserved, published, sent, history,
                   failures>>

\* Snapshots need a schedule; without one nothing is reserved.
SkipSnapshot(a) ==
    /\ HasNext(a, "event")
    /\ RowOf(a).key = SnapshotKey
    /\ ~schedule
    /\ Continue(a, Tail(Agenda(a)))
    /\ UNCHANGED <<day, database, sent, history, failures>>

\* Not the code: published_at is not looked at.
ReserveEvent_Always(a) ==
    /\ HasNext(a, "event")
    /\ RowOf(a).key = SnapshotKey => schedule
    /\ reserved' = reserved \cup {RowOf(a)}
    /\ IF RowOf(a).key = SnapshotKey
       THEN actors' = [actors EXCEPT ![a].pc = "fan out", ![a].left = Lecturers]
       ELSE actors' = [actors EXCEPT ![a].pc = "publish"]
    /\ UNCHANGED <<day, semester, schedule, seen, published, sent, history, failures>>

\* Not the code: no row is inserted.
ReserveEvent_NoInsert(a) ==
    /\ HasNext(a, "event")
    /\ RowOf(a).key = SnapshotKey => schedule
    /\ IF RowOf(a) \in published
       THEN Continue(a, Tail(Agenda(a)))
       ELSE IF RowOf(a).key = SnapshotKey
       THEN actors' = [actors EXCEPT ![a].pc = "fan out", ![a].left = Lecturers]
       ELSE actors' = [actors EXCEPT ![a].pc = "publish"]
    /\ UNCHANGED <<day, database, sent, history, failures>>

\* Not the code: a row that is there counts as published.
ReserveEvent_InsertOnly(a) ==
    /\ HasNext(a, "event")
    /\ RowOf(a).key = SnapshotKey => schedule
    /\ reserved' = reserved \cup {RowOf(a)}
    /\ IF RowOf(a) \in reserved
       THEN Continue(a, Tail(Agenda(a)))
       ELSE IF RowOf(a).key = SnapshotKey
       THEN actors' = [actors EXCEPT ![a].pc = "fan out", ![a].left = Lecturers]
       ELSE actors' = [actors EXCEPT ![a].pc = "publish"]
    /\ UNCHANGED <<day, semester, schedule, seen, published, sent, history, failures>>

\* reserve_event: the row is inserted, or read if it is there; one that is
\* published is done with.
ReserveEvent(a) ==
    /\ HasNext(a, "event")
    /\ RowOf(a).key = SnapshotKey => schedule
    /\ reserved' = reserved \cup {RowOf(a)}
    /\ IF RowOf(a) \in published
       THEN Continue(a, Tail(Agenda(a)))
       ELSE IF RowOf(a).key = SnapshotKey
       THEN actors' = [actors EXCEPT ![a].pc = "fan out", ![a].left = Lecturers]
       ELSE actors' = [actors EXCEPT ![a].pc = "publish"]
    /\ UNCHANGED <<day, semester, schedule, seen, published, sent, history, failures>>

Notice(row, recipient) == [key |-> row.key, date |-> row.date, to |-> recipient]

Copies(n) == IF n \in DOMAIN sent THEN sent[n] ELSE 0

\* The notice about a row goes into the notification queue.
Enqueue(n) == sent' = [m \in DOMAIN sent \cup {n} |-> IF m = n THEN Copies(n) + 1 ELSE sent[m]]

\* _publish_period_notification: one notice to all lecturers, if there are any.
PublishNotice(a) ==
    /\ actors[a].pc = "publish"
    /\ IF Lecturers = {} THEN UNCHANGED sent ELSE Enqueue(Notice(RowOf(a), Everyone))
    /\ actors' = [actors EXCEPT ![a].pc = "mark"]
    /\ UNCHANGED <<day, database, history, failures>>

\* One lecturer's snapshot; one that cannot be published is logged and skipped.
PublishSnapshot(a, l) ==
    /\ actors[a].pc = "fan out"
    /\ l \in actors[a].left
    /\ actors' = [actors EXCEPT ![a].left = @ \ {l}]
    /\ \/ Enqueue(Notice(RowOf(a), l)) /\ UNCHANGED failures
       \/ /\ failures < MaxFailures
          /\ failures' = failures + 1
          /\ UNCHANGED sent
    /\ UNCHANGED <<day, database, history>>

FanOutEnds(a) ==
    /\ actors[a].pc = "fan out"
    /\ actors[a].left = {}
    /\ actors' = [actors EXCEPT ![a].pc = "mark"]
    /\ UNCHANGED <<day, database, sent, history, failures>>

MarkPublished(a) ==
    /\ actors[a].pc = "mark"
    /\ published' = published \cup {RowOf(a)}
    /\ Continue(a, Tail(Agenda(a)))
    /\ UNCHANGED <<day, semester, schedule, seen, reserved, sent, history, failures>>

-----------------------------------------------------------------------------
(* Failures and surroundings *)

Failure == failures < MaxFailures /\ failures' = failures + 1

\* Not the code: marked as published although publishing failed.
NoticeFails_Marked(a) ==
    /\ Failure
    /\ actors[a].pc \in {"publish", "mark"}
    /\ RowOf(a).key # SnapshotKey
    /\ published' = published \cup {RowOf(a)}
    /\ Continue(a, Tail(Agenda(a)))
    /\ UNCHANGED <<day, semester, schedule, seen, reserved, sent, history>>

\* _process_event_candidate logs what its publish or its mark raises, and the
\* actor goes on.
NoticeFails(a) ==
    /\ Failure
    /\ actors[a].pc \in {"publish", "mark"}
    /\ RowOf(a).key # SnapshotKey
    /\ Continue(a, Tail(Agenda(a)))
    /\ UNCHANGED <<day, database, sent, history>>

\* Any other statement raises: the check or the update is over.
ActorFails(a) ==
    /\ Failure
    /\ actors[a].pc \notin {"idle", "done"}
    /\ actors[a].pc \in {"publish", "mark"} => RowOf(a).key = SnapshotKey
    /\ Continue(a, <<>>)
    /\ UNCHANGED <<day, database, sent, history>>

\* The Backend dies and is restarted.
Crash ==
    /\ Failure
    /\ actors' = [a \in Actors |->
          IF a = Scheduler \/ actors[a] = Idle THEN Idle ELSE Done]
    /\ UNCHANGED <<day, database, sent, history>>

NextDay ==
    /\ day < LastDay
    /\ day' = day + 1
    /\ UNCHANGED <<database, sent, actors, history, failures>>

\* A schedule of the semester is created.
CreateSchedule ==
    /\ ~schedule
    /\ schedule' = TRUE
    /\ UNCHANGED <<day, semester, seen, reserved, published, sent, actors, history,
                   failures>>

-----------------------------------------------------------------------------

Work(a) ==
    \/ ListTimeEvents(a) \/ CheckStatusState(a) \/ UpsertStatusState(a)
    \/ SkipSnapshot(a) \/ ReserveEvent(a)
    \/ PublishNotice(a) \/ (\E l \in Lecturers : PublishSnapshot(a, l))
    \/ FanOutEnds(a) \/ MarkPublished(a)

Update(u) == WriteSemester(u) \/ RereadSemester(u) \/ Work(u)

Next ==
    \/ StartCheck \/ Work(Scheduler)
    \/ \E u \in Updates : ReadSemester(u) \/ Update(u)
    \/ \E a \in Actors : NoticeFails(a) \/ ActorFails(a)
    \/ Crash \/ NextDay \/ CreateSchedule

Spec == Init /\ [][Next]_vars

\* The cron trigger starts a check again and again, and what is begun goes on;
\* nobody is obliged to update, to fail, or to create a schedule.
Fairness ==
    /\ WF_vars(StartCheck \/ Work(Scheduler))
    /\ \A u \in Updates : WF_vars(Update(u))

FairSpec == Spec /\ Fairness

-----------------------------------------------------------------------------
(* Properties *)

\* A row is marked published only when its notices are in the queue: all of
\* them for a broadcast, all but the failed ones for the snapshots; so no check
\* passes over a notice nobody was sent, crashes included.
PublishedWasSent ==
    \A e \in published :
        IF e.key = SnapshotKey
        THEN Cardinality({l \in Lecturers : Copies(Notice(e, l)) = 0}) <= failures
        ELSE Lecturers # {} => Copies(Notice(e, Everyone)) > 0

\* However checks and updates overlap, nobody gets a notice more often than
\* there are actors that could read its row before the first marked it, plus
\* once for each failure.
RepeatsBounded ==
    \A n \in DOMAIN sent : sent[n] <= Cardinality(Actors) + failures

\* Whatever updates, stale reads and failures do to it, the status last seen
\* comes to be the status the semester has.
SeenCatchesUp == <>[](seen = semester.status)

\* The notices due on the last day are published in the end, however often a
\* check fails before: what is not published is tried again as long as the day
\* lasts, and updates of the calendar are looked at too.
DueNoticesPublished ==
    <>[]( day = LastDay =>
            \A i \in DOMAIN Triggers :
                semester.dates[Triggers[i][1]] + Triggers[i][2] = day
                    => [key |-> Triggers[i], date |-> day] \in published )

\* "Semester {semester_label} status changed from {old_status} to {new_status}":
\* the semester did have the old status before the new one.
\* (It fails: a check that listed the semester before an update finds the
\* status the update saved and announces the change backwards.)
AnnouncedChangeHappened ==
    \A n \in DOMAIN sent :
        n.key[1] = "status" =>
            \E i, j \in DOMAIN history :
                i < j /\ history[i] = n.key[2] /\ history[j] = n.key[3]

=============================================================================
