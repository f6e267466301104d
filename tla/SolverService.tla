--------------------------- MODULE SolverService ---------------------------
(***************************************************************************)
(* The solver service's consumer (SchedulaDeployment/solver/src/main.py):  *)
(* an asyncio process that takes requests from constraints_request_queue,  *)
(* gathers them in pending_batch, and after a quiet period has a timer     *)
(* task solve every semester of the batch, answer, and acknowledge.        *)
(*                                                                         *)
(* Everything between two awaits is one action: asyncio runs it without    *)
(* interleaving.  CSPSolver.solve is synchronous, so reading the semester  *)
(* and solving it is one action too.  The broker is external: a durable    *)
(* queue that redelivers what was not settled when a connection goes.      *)
(***************************************************************************)
EXTENDS Naturals, Sequences, FiniteSets

CONSTANTS
    Semesters,       \* semesters a request can name
    Bodies,          \* what producers publish: semesters, NoSemester, BadJson
    NoSemester,      \* valid JSON without a semester (POST /rabbitmq/publish)
    BadJson,         \* a body that json.loads refuses
    BATCH_TIMEOUT,   \* quiet time after the last message, in ticks
    MAX_BATCH_WAIT,  \* longest wait since the first message, in ticks
    MAX_BATCH_SIZE,  \* batch size that is processed at once
    MaxRequests,     \* bound: requests published
    MaxEdits,        \* bound: versions of a semester's rules
    MaxErrors,       \* bound: exceptions while solving a semester
    MaxDrops,        \* bound: lost connections
    MaxCrashes       \* bound: crashes of the solver process

ASSUME SolverServiceAssumption ==
    /\ NoSemester \notin Semesters
    /\ BadJson \notin Semesters
    /\ NoSemester # BadJson
    /\ Bodies \subseteq Semesters \cup {NoSemester, BadJson}
    /\ BATCH_TIMEOUT \in Nat \ {0}
    /\ MAX_BATCH_WAIT \in Nat \ {0}
    /\ MAX_BATCH_SIZE \in Nat \ {0}
    /\ MaxRequests \in Nat
    /\ MaxEdits \in Nat
    /\ MaxErrors \in Nat
    /\ MaxDrops \in Nat
    /\ MaxCrashes \in Nat

\* Not the code: a window of two.
PREFETCH_COUNT_Two == 2

\* channel.set_qos(prefetch_count=1)
PREFETCH_COUNT == 1

Requests == 1 .. MaxRequests

AnyBody == Semesters \cup {NoSemester, BadJson}

\* An IncomingMessage: the request, and the connection it arrived on.
Deliveries == [req : Requests, conn : Nat]

VARIABLES
    \* PostgreSQL
    rules,          \* rules[s]: version of the constraints and offerings of s
    saved,          \* saved[s]: version the stored result of s was computed from
    \* the request queue
    published,      \* number of requests published so far
    body,           \* body[r]: the body of request r
    asked,          \* asked[r]: rules[body[r]] when r was published
    ready,          \* requests waiting in the queue; the smallest is its head
    unacked,        \* requests delivered on this connection and not settled
    acked,          \* requests acknowledged
    discarded,      \* requests rejected without requeue
    conn,           \* number of the connection in use
    \* the response queue
    answers,        \* answers[r]: versions answered to r, in order
    \* the service's memory
    inbox,          \* deliveries in the queue iterator, not yet handled
    pending_batch,  \* self.pending_batch
    batch_age,      \* time since self.batch_start_time
    batch_lock,     \* TRUE when the handler waits for the lock it holds
    phase,          \* where self.batch_timer_task is
    timer_age,      \* how long it has slept
    batch,          \* _process_batch: the copied batch
    todo,           \* _process_batch: semesters not solved yet
    semester,       \* _process_batch: the semester being solved
    version,        \* _solve_semester: version read by get_semester_data
    at,             \* _process_batch: index of the next message to settle
    \* bounds
    errors, drops, crashes

database == <<rules, saved>>
broker == <<published, body, asked, ready, unacked, acked, discarded, conn>>
task == <<phase, timer_age, batch, todo, semester, version, at>>
memory == <<inbox, pending_batch, batch_age, batch_lock>>
bounds == <<errors, drops, crashes>>
vars == <<database, broker, answers, memory, task, bounds>>

Phases == {"idle", "sleeping", "solve", "save", "publish", "ack", "reject"}

TypeOK ==
    /\ rules \in [Semesters -> 0 .. MaxEdits]
    /\ saved \in [Semesters -> 0 .. MaxEdits]
    /\ published \in 0 .. MaxRequests
    /\ body \in [Requests -> AnyBody]
    /\ asked \in [Requests -> 0 .. MaxEdits]
    /\ ready \subseteq Requests
    /\ unacked \subseteq Requests
    /\ acked \subseteq Requests
    /\ discarded \subseteq Requests
    /\ conn \in Nat
    /\ answers \in [Requests -> Seq(Nat)]
    /\ inbox \in Seq(Deliveries)
    /\ pending_batch \in Seq(Deliveries)
    /\ batch_age \in 0 .. MAX_BATCH_WAIT
    /\ batch_lock \in BOOLEAN
    /\ phase \in Phases
    /\ timer_age \in 0 .. BATCH_TIMEOUT
    /\ batch \in Seq(Deliveries)
    /\ todo \subseteq Semesters
    /\ semester \in Semesters \cup {NoSemester}
    /\ version \in 0 .. MaxEdits
    /\ at \in Nat \ {0}
    /\ errors \in 0 .. MaxErrors
    /\ drops \in 0 .. MaxDrops
    /\ crashes \in 0 .. MaxCrashes

Init ==
    /\ rules = [s \in Semesters |-> 0]
    /\ saved = [s \in Semesters |-> 0]
    /\ published = 0
    /\ body = [r \in Requests |-> NoSemester]
    /\ asked = [r \in Requests |-> 0]
    /\ ready = {} /\ unacked = {} /\ acked = {} /\ discarded = {}
    /\ conn = 0
    /\ answers = [r \in Requests |-> <<>>]
    /\ inbox = <<>> /\ pending_batch = <<>>
    /\ batch_age = 0
    /\ batch_lock = FALSE
    /\ phase = "idle" /\ timer_age = 0
    /\ batch = <<>> /\ todo = {} /\ semester = NoSemester /\ version = 0 /\ at = 1
    /\ errors = 0 /\ drops = 0 /\ crashes = 0

-----------------------------------------------------------------------------
(* Producers *)

\* A secretary rewrites a constraint of semester s.
EditRules(s) ==
    /\ rules[s] < MaxEdits
    /\ rules' = [rules EXCEPT ![s] = @ + 1]
    /\ UNCHANGED <<saved, broker, answers, memory, task, bounds>>

\* A route, or the nightly job, publishes a request once its edit is committed.
PublishRequest(b) ==
    LET r == published + 1 IN
    /\ published < MaxRequests
    /\ published' = r
    /\ body' = [body EXCEPT ![r] = b]
    /\ asked' = [asked EXCEPT ![r] = IF b \in Semesters THEN rules[b] ELSE 0]
    /\ ready' = ready \cup {r}
    /\ UNCHANGED <<unacked, acked, discarded, conn>>
    /\ UNCHANGED <<database, answers, memory, task, bounds>>

-----------------------------------------------------------------------------
(* The broker *)

\* The head of the queue goes to the consumer, within the prefetch window.
\* A requeued message returns to its place, so order is order of publication.
Deliver(r) ==
    /\ Cardinality(unacked) < PREFETCH_COUNT
    /\ r \in ready
    /\ \A q \in ready : r <= q
    /\ ready' = ready \ {r}
    /\ unacked' = unacked \cup {r}
    /\ inbox' = Append(inbox, [req |-> r, conn |-> conn])
    /\ UNCHANGED <<published, body, asked, acked, discarded, conn>>
    /\ UNCHANGED <<database, answers, pending_batch, batch_age, batch_lock>>
    /\ UNCHANGED <<task, bounds>>

\* A delivery that can still be settled: of this connection, and not settled.
Live(d) == d.conn = conn /\ d.req \in unacked

-----------------------------------------------------------------------------
(* _handle_message *)

\* task.cancel(): whatever the timer task was doing, it stops at its await.
NoTask ==
    /\ batch' = <<>>
    /\ todo' = {}
    /\ semester' = NoSemester
    /\ version' = 0
    /\ at' = 1

\* Time since the first message of the batch that d joins.
AgeOnArrival == IF pending_batch = <<>> THEN 0 ELSE batch_age

LimitReached ==
    \/ Len(pending_batch) + 1 >= MAX_BATCH_SIZE
    \/ AgeOnArrival >= MAX_BATCH_WAIT

Arrive ==
    /\ ~batch_lock
    /\ inbox # <<>>
    /\ body[Head(inbox).req] # BadJson
    /\ inbox' = Tail(inbox)
    /\ pending_batch' = Append(pending_batch, Head(inbox))
    /\ batch_age' = AgeOnArrival
    /\ NoTask
    /\ UNCHANGED <<database, broker, answers, bounds>>

\* Not the code: a message is buffered and no timer armed for it.
BufferRequest_NoTimer ==
    /\ ~LimitReached
    /\ Arrive
    /\ phase' = "idle"
    /\ timer_age' = 0
    /\ UNCHANGED batch_lock

\* Below the limits: the timer, asleep or already solving, is cancelled and
\* a new one starts.
BufferRequest ==
    /\ ~LimitReached
    /\ Arrive
    /\ phase' = "sleeping"
    /\ timer_age' = 0
    /\ UNCHANGED batch_lock

\* At a limit: the timer is cancelled and the handler, inside "async with
\* self.batch_lock", awaits _process_batch, whose first statement takes the
\* same lock.  asyncio.Lock is not reentrant: neither ever returns.
FlushBatch ==
    /\ LimitReached
    /\ Arrive
    /\ phase' = "idle"
    /\ timer_age' = 0
    /\ batch_lock' = TRUE

\* json.loads fails: rejected without requeue.  On a dead connection the
\* reject has no effect (if it raises, the service exits: Crash).
RefuseRequest ==
    LET d == Head(inbox) IN
    /\ ~batch_lock
    /\ inbox # <<>>
    /\ body[d.req] = BadJson
    /\ inbox' = Tail(inbox)
    /\ unacked' = IF Live(d) THEN unacked \ {d.req} ELSE unacked
    /\ discarded' = IF Live(d) THEN discarded \cup {d.req} ELSE discarded
    /\ UNCHANGED <<published, body, asked, ready, acked, conn>>
    /\ UNCHANGED <<database, answers, pending_batch, batch_age, batch_lock>>
    /\ UNCHANGED <<task, bounds>>

-----------------------------------------------------------------------------
(* _batch_timer and _process_batch *)

\* Not the code: the sleep overruns by a tick.
Tick_Overrun ==
    /\ phase = "sleeping"
    /\ timer_age <= BATCH_TIMEOUT
    /\ timer_age' = timer_age + 1
    /\ batch_age' = IF batch_age < MAX_BATCH_WAIT THEN batch_age + 1 ELSE batch_age
    /\ UNCHANGED <<database, broker, answers, inbox, pending_batch, batch_lock>>
    /\ UNCHANGED <<phase, batch, todo, semester, version, at, bounds>>

\* A tick passes for the sleeping timer; it is never left a tick overdue,
\* because no solve occupies the event loop while it sleeps.
Tick ==
    /\ phase = "sleeping"
    /\ timer_age < BATCH_TIMEOUT
    /\ timer_age' = timer_age + 1
    /\ batch_age' = IF batch_age < MAX_BATCH_WAIT THEN batch_age + 1 ELSE batch_age
    /\ UNCHANGED <<database, broker, answers, inbox, pending_batch, batch_lock>>
    /\ UNCHANGED <<phase, batch, todo, semester, version, at, bounds>>

\* Not the code: the list is cleared before it is copied.
TakeBatch_ClearFirst ==
    LET named == {body[pending_batch[i].req] : i \in DOMAIN pending_batch}
                     \cap Semesters
    IN  /\ phase = "sleeping"
        /\ timer_age = BATCH_TIMEOUT
        /\ pending_batch' = <<>>
        /\ batch' = <<>>
        /\ todo' = named
        /\ phase' = IF named = {} THEN "idle" ELSE "solve"
        /\ UNCHANGED <<timer_age, semester, version, at>>
        /\ UNCHANGED <<database, broker, answers>>
        /\ UNCHANGED <<inbox, batch_age, batch_lock, bounds>>

\* The batch is copied and cleared under the lock; messages are grouped by
\* semester, and a message that names none is in no group.
TakeBatch ==
    LET named == {body[pending_batch[i].req] : i \in DOMAIN pending_batch}
                     \cap Semesters
    IN  /\ phase = "sleeping"
        /\ timer_age = BATCH_TIMEOUT
        /\ pending_batch' = <<>>
        /\ batch' = IF named = {} THEN <<>> ELSE pending_batch
        /\ todo' = named
        /\ phase' = IF named = {} THEN "idle" ELSE "solve"
        /\ UNCHANGED <<timer_age, semester, version, at>>
        /\ UNCHANGED <<database, broker, answers>>
        /\ UNCHANGED <<inbox, batch_age, batch_lock, bounds>>

\* Not the code: the semester's data are those of the last solve.
SolveSemester_Cached(s) ==
    /\ phase = "solve"
    /\ s \in todo
    /\ semester' = s
    /\ version' = saved[s]
    /\ phase' = "save"
    /\ UNCHANGED <<timer_age, batch, todo, at>>
    /\ UNCHANGED <<database, broker, answers, memory, bounds>>

\* clean_stale_breaking_constraints, get_semester_data, CSPSolver().solve.
\* get_semester_data reads in several statements: the version is the oldest it
\* can have read, what it reads later is only newer.
SolveSemester(s) ==
    /\ phase = "solve"
    /\ s \in todo
    /\ semester' = s
    /\ version' = rules[s]
    /\ phase' = "save"
    /\ UNCHANGED <<timer_age, batch, todo, at>>
    /\ UNCHANGED <<database, broker, answers, memory, bounds>>

\* get_or_create_draft_schedule, then save_solution and
\* remove_resolved_constraints, or save_breaking_constraints.
SaveResult ==
    /\ phase = "save"
    /\ saved' = [saved EXCEPT ![semester] = version]
    /\ phase' = "publish"
    /\ UNCHANGED <<timer_age, batch, todo, semester, version, at>>
    /\ UNCHANGED <<rules, broker, answers, memory, bounds>>

\* messages_by_semester[semester], as indices of the batch from k on.
MessagesFrom(k) ==
    {i \in DOMAIN batch : i >= k /\ body[batch[i].req] = semester}

\* The response names the semester, not the request: it answers them all.
PublishResponse ==
    /\ phase = "publish"
    /\ answers' = [r \in Requests |->
                     IF \E i \in MessagesFrom(1) : batch[i].req = r
                     THEN Append(answers[r], version)
                     ELSE answers[r]]
    /\ phase' = "ack"
    /\ at' = 1
    /\ UNCHANGED <<timer_age, batch, todo, semester, version>>
    /\ UNCHANGED <<database, broker, memory, bounds>>

\* Message i is settled: on to the next of this semester, else to the next
\* semester, else the task is done.
Settled(i) ==
    IF MessagesFrom(i + 1) # {}
    THEN /\ at' = i + 1
         /\ UNCHANGED <<phase, batch, todo, semester, version>>
    ELSE IF todo \ {semester} # {}
    THEN /\ phase' = "solve"
         /\ todo' = todo \ {semester}
         /\ at' = 1
         /\ UNCHANGED <<batch, semester, version>>
    ELSE phase' = "idle" /\ NoTask

\* Message i is the next one the loop over the semester's messages reaches.
IsNext(i) == i \in MessagesFrom(at) /\ \A j \in MessagesFrom(at) : i <= j

\* msg.ack() on a live delivery.
AckMessage(i) ==
    /\ phase = "ack"
    /\ IsNext(i)
    /\ Live(batch[i])
    /\ unacked' = unacked \ {batch[i].req}
    /\ acked' = acked \cup {batch[i].req}
    /\ Settled(i)
    /\ UNCHANGED <<published, body, asked, ready, discarded, conn>>
    /\ UNCHANGED <<database, answers, memory, timer_age, bounds>>

\* msg.ack() after the connection it came on is gone: it has no effect.
AckStale(i) ==
    /\ phase = "ack"
    /\ IsNext(i)
    /\ ~Live(batch[i])
    /\ Settled(i)
    /\ UNCHANGED <<database, broker, answers, memory, timer_age, bounds>>

\* ... or it raises, and every message of the semester is to be rejected.
AckRaises(i) ==
    /\ phase = "ack"
    /\ IsNext(i)
    /\ ~Live(batch[i])
    /\ phase' = "reject"
    /\ at' = 1
    /\ UNCHANGED <<timer_age, batch, todo, semester, version>>
    /\ UNCHANGED <<database, broker, answers, memory, bounds>>

\* Not the code: the except clause swallows the error and goes on to ack.
SolveFails_Swallowed ==
    /\ phase \in {"save", "publish"}
    /\ errors < MaxErrors
    /\ errors' = errors + 1
    /\ phase' = "ack"
    /\ at' = 1
    /\ UNCHANGED <<timer_age, batch, todo, semester, version>>
    /\ UNCHANGED <<database, broker, answers, memory, drops, crashes>>

\* Not the code: something after the answer still raises inside the try.
SolveFails_AfterAnswer ==
    /\ phase \in {"save", "publish", "ack"}
    /\ errors < MaxErrors
    /\ errors' = errors + 1
    /\ phase' = "reject"
    /\ at' = 1
    /\ UNCHANGED <<timer_age, batch, todo, semester, version>>
    /\ UNCHANGED <<database, broker, answers, memory, drops, crashes>>

\* An exception in _solve_semester, before or after the result is stored
\* (one raised while reading has stored nothing either).
SolveFails ==
    /\ phase \in {"save", "publish"}
    /\ errors < MaxErrors
    /\ errors' = errors + 1
    /\ phase' = "reject"
    /\ at' = 1
    /\ UNCHANGED <<timer_age, batch, todo, semester, version>>
    /\ UNCHANGED <<database, broker, answers, memory, drops, crashes>>

\* Not the code: reject(requeue=False).
RejectMessage_NoRequeue(i) ==
    /\ phase = "reject"
    /\ IsNext(i)
    /\ Live(batch[i])
    /\ unacked' = unacked \ {batch[i].req}
    /\ discarded' = discarded \cup {batch[i].req}
    /\ Settled(i)
    /\ UNCHANGED <<published, body, asked, ready, acked, conn>>
    /\ UNCHANGED <<database, answers, memory, timer_age, bounds>>

\* msg.reject(requeue=True) on a live delivery: it returns to the queue.
RejectMessage(i) ==
    /\ phase = "reject"
    /\ IsNext(i)
    /\ Live(batch[i])
    /\ unacked' = unacked \ {batch[i].req}
    /\ ready' = ready \cup {batch[i].req}
    /\ Settled(i)
    /\ UNCHANGED <<published, body, asked, acked, discarded, conn>>
    /\ UNCHANGED <<database, answers, memory, timer_age, bounds>>

\* msg.reject on a dead connection has no effect ...
RejectStale(i) ==
    /\ phase = "reject"
    /\ IsNext(i)
    /\ ~Live(batch[i])
    /\ Settled(i)
    /\ UNCHANGED <<database, broker, answers, memory, timer_age, bounds>>

\* ... or raises out of the except clause: the task dies, its other messages
\* are neither acknowledged nor rejected.
RejectRaises(i) ==
    /\ phase = "reject"
    /\ IsNext(i)
    /\ ~Live(batch[i])
    /\ phase' = "idle"
    /\ NoTask
    /\ UNCHANGED <<database, broker, answers, memory, timer_age, bounds>>

-----------------------------------------------------------------------------
(* Failures of the surroundings *)

\* The connection is lost and connect_robust opens another: the broker takes
\* back what was not settled, the service's memory is as it was.
DropConnection ==
    /\ drops < MaxDrops
    /\ drops' = drops + 1
    /\ conn' = conn + 1
    /\ ready' = ready \cup unacked
    /\ unacked' = {}
    /\ UNCHANGED <<published, body, asked, acked, discarded>>
    /\ UNCHANGED <<database, answers, memory, task, errors, crashes>>

\* The process dies and docker restarts it (restart: unless-stopped).
Crash ==
    /\ crashes < MaxCrashes
    /\ crashes' = crashes + 1
    /\ conn' = conn + 1
    /\ ready' = ready \cup unacked
    /\ unacked' = {}
    /\ inbox' = <<>> /\ pending_batch' = <<>>
    /\ batch_age' = 0
    /\ batch_lock' = FALSE
    /\ phase' = "idle" /\ timer_age' = 0
    /\ NoTask
    /\ UNCHANGED <<published, body, asked, acked, discarded>>
    /\ UNCHANGED <<database, answers, errors, drops>>

-----------------------------------------------------------------------------

\* What the event loop does on its own, exceptions apart.
Service ==
    \/ BufferRequest \/ FlushBatch \/ RefuseRequest
    \/ Tick \/ TakeBatch
    \/ \E s \in Semesters : SolveSemester(s)
    \/ SaveResult \/ PublishResponse
    \/ \E i \in DOMAIN batch :
          \/ AckMessage(i) \/ AckStale(i) \/ AckRaises(i)
          \/ RejectMessage(i) \/ RejectStale(i) \/ RejectRaises(i)

Next ==
    \/ \E s \in Semesters : EditRules(s)
    \/ \E b \in Bodies : PublishRequest(b)
    \/ \E r \in Requests : Deliver(r)
    \/ Service
    \/ SolveFails
    \/ DropConnection
    \/ Crash

Spec == Init /\ [][Next]_vars

\* The broker delivers what it may, and the event loop runs what is runnable;
\* producers, errors and failures are never obliged to happen.
Fairness ==
    /\ WF_vars(\E r \in Requests : Deliver(r))
    /\ WF_vars(Service)

FairSpec == Spec /\ Fairness

-----------------------------------------------------------------------------
(* Properties *)

DeliveriesOf(seq) == {seq[i] : i \in DOMAIN seq}

\* Every delivery the service holds in memory.
Held == DeliveriesOf(inbox) \cup DeliveriesOf(pending_batch) \cup DeliveriesOf(batch)

\* Requests in the service's hands, or delivered and not settled.
InFlight == {d.req : d \in Held} \cup unacked

\* At any moment the service works on one request at most, whatever number of
\* redelivered copies of it lie in the iterator, the pending batch and the
\* batch being solved, and through lost connections and crashes: batching never
\* brings two requests together.
SingleFlight == \A q, r \in InFlight : q = r

\* A request is acknowledged only when a result at least as new as the rules it
\* followed was answered and is stored: the edit a secretary commits before
\* triggering a solve is in the schedule once its request is gone from the
\* queue, whatever was requeued, redelivered or cancelled on the way.
AckedIsSolved ==
    \A r \in acked :
        /\ body[r] \in Semesters
        /\ saved[body[r]] >= asked[r]
        /\ \E i \in DOMAIN answers[r] : answers[r][i] >= asked[r]

\* No request is lost: each one published is in the queue, on its way, or
\* settled, and only one place at a time; and only a body that is not JSON is
\* thrown away.
NoRequestLost ==
    /\ 1 .. published = ready \cup unacked \cup acked \cup discarded
    /\ ready \cap unacked = {}
    /\ (ready \cup unacked) \cap (acked \cup discarded) = {}
    /\ \A r \in discarded : body[r] = BadJson

\* While the connection holds, what the broker waits for is really being worked
\* on: a delivery not settled is in the iterator, in the pending batch with a
\* timer armed, or in the batch being solved.
NothingLeaks ==
    unacked \subseteq {d.req : d \in {e \in Held : e.conn = conn}}

\* A request is answered once for each time the broker hands it over anew, and
\* an error makes no second answer: a second one would complete the solver run
\* of another request.
AnsweredOncePerDelivery ==
    \A r \in Requests :
        /\ Len(answers[r]) <= 1 + drops + crashes
        /\ r \in acked => Len(answers[r]) >= 1

\* "Multiple constraint updates for same semester = solve once": when a solve
\* begins, no request for its semester is kept in the queue by the service's
\* own prefetch window.  (It fails: the window of one is full from the first
\* message of a batch until that message is settled.)
CoalescesSemester ==
    [][ \A s \in Semesters :
          phase = "sleeping" /\ phase' = "solve" /\ s \in todo'
              => \A r \in ready :
                    body[r] = s => Cardinality(unacked) < PREFETCH_COUNT ]_vars

\* Every request that names a semester is acknowledged in the end.
EveryRequestAnswered ==
    \A r \in Requests :
        (r <= published /\ body[r] \in Semesters) ~> (r \in acked)

\* The ledger's view of a request.
LedgerStatus ==
    [r \in Requests |->
        IF r > published THEN "none"
        ELSE IF r \in acked THEN "closed"
        ELSE IF r \in discarded THEN "discarded"
        ELSE "waiting"]

Ledger == INSTANCE RequestLedger WITH status <- LedgerStatus, Bodies <- AnyBody

\* The consumer keeps the ledger's safety promise, drops and crashes included.
KeepsLedger == Ledger!Spec

\* While the connection holds it keeps all of it: what is owed gets solved.
ServesLedger == Ledger!FairSpec

=============================================================================
