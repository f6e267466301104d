------------------------ MODULE SolverServiceProofs ------------------------
(***************************************************************************)
(* What holds of SolverService for every number of semesters, requests,    *)
(* edits, errors, lost connections and crashes, and for every setting of   *)
(* the batching limits.                                                    *)
(*                                                                         *)
(* AnswerInv, at the end, counts answers against connections.  The copies  *)
(* of a request that are in memory came on connections that get newer      *)
(* along the line; one that is not answered yet finds no more answers than *)
(* the number of the connection it came on.                                *)
(***************************************************************************)
EXTENDS SolverService, FiniteSetTheorems, SequenceTheorems, TLAPS

-----------------------------------------------------------------------------
(* Sequences of deliveries *)

\* A sequence with one more delivery holds the old ones, then that one.
LEMMA Appended ==
    ASSUME NEW s \in Seq(Deliveries), NEW d \in Deliveries
    PROVE  /\ Append(s, d) \in Seq(Deliveries)
           /\ DOMAIN Append(s, d) = 1 .. Len(s) + 1
           /\ Len(Append(s, d)) = Len(s) + 1
           /\ \A i \in 1 .. Len(s) : Append(s, d)[i] = s[i]
           /\ Append(s, d)[Len(s) + 1] = d
           /\ DeliveriesOf(Append(s, d)) = DeliveriesOf(s) \cup {d}
<1>1. /\ Append(s, d) \in Seq(Deliveries)
      /\ Len(Append(s, d)) = Len(s) + 1
      /\ \A i \in 1 .. Len(s) : Append(s, d)[i] = s[i]
      /\ Append(s, d)[Len(s) + 1] = d
  OBVIOUS
<1>2. DOMAIN Append(s, d) = 1 .. Len(s) + 1 /\ Len(s) \in Nat /\ DOMAIN s = 1 .. Len(s)
  BY <1>1
<1>3. DeliveriesOf(Append(s, d)) = DeliveriesOf(s) \cup {d}
  BY <1>1, <1>2 DEF DeliveriesOf
<1>4. QED
  BY <1>1, <1>2, <1>3

\* A sequence without its head holds the rest, one place earlier.
LEMMA Dequeued ==
    ASSUME NEW s \in Seq(Deliveries), s # <<>>
    PROVE  /\ Head(s) \in Deliveries
           /\ Head(s) = s[1]
           /\ Len(s) \in Nat \ {0}
           /\ DOMAIN s = 1 .. Len(s)
           /\ Tail(s) \in Seq(Deliveries)
           /\ DOMAIN Tail(s) = 1 .. Len(s) - 1
           /\ Len(Tail(s)) = Len(s) - 1
           /\ \A i \in 1 .. Len(s) - 1 : Tail(s)[i] = s[i + 1]
           /\ Head(s) \in DeliveriesOf(s)
           /\ DeliveriesOf(Tail(s)) \subseteq DeliveriesOf(s)
<1>1. Len(s) \in Nat \ {0} /\ DOMAIN s = 1 .. Len(s)
  OBVIOUS
<1>2. Head(s) = s[1] /\ s[1] \in Deliveries
  BY <1>1
<1>3. /\ Tail(s) \in Seq(Deliveries)
      /\ Len(Tail(s)) = Len(s) - 1
      /\ \A i \in 1 .. Len(s) - 1 : Tail(s)[i] = s[i + 1]
  BY <1>1
<1>4. DOMAIN Tail(s) = 1 .. Len(s) - 1
  BY <1>3
<1>5. Head(s) \in DeliveriesOf(s) /\ DeliveriesOf(Tail(s)) \subseteq DeliveriesOf(s)
  BY <1>1, <1>2, <1>3, <1>4 DEF DeliveriesOf
<1>6. QED
  BY <1>1, <1>2, <1>3, <1>4, <1>5

-----------------------------------------------------------------------------
(* Types *)

\* Zero is a value of every bounded counter.
LEMMA Zeroes ==
    /\ 0 \in 0 .. MaxEdits
    /\ 0 \in 0 .. MaxRequests
    /\ 0 \in 0 .. MAX_BATCH_WAIT
    /\ 0 \in 0 .. BATCH_TIMEOUT
    /\ 0 \in 0 .. MaxErrors
    /\ 0 \in 0 .. MaxDrops
    /\ 0 \in 0 .. MaxCrashes
BY SolverServiceAssumption DEF SolverServiceAssumption

\* The initial state is well typed.
LEMMA InitTyped == Init => TypeOK
<1> SUFFICES ASSUME Init PROVE TypeOK
  OBVIOUS
<1>1. /\ rules \in [Semesters -> 0 .. MaxEdits]
      /\ saved \in [Semesters -> 0 .. MaxEdits]
      /\ body \in [Requests -> AnyBody]
      /\ asked \in [Requests -> 0 .. MaxEdits]
      /\ answers \in [Requests -> Seq(Nat)]
  BY Zeroes DEF Init, AnyBody
<1>2. /\ inbox \in Seq(Deliveries)
      /\ pending_batch \in Seq(Deliveries)
      /\ batch \in Seq(Deliveries)
  BY DEF Init
<1>3. phase \in Phases /\ batch_lock \in BOOLEAN
  BY DEF Init, Phases
<1>4. QED
  BY <1>1, <1>2, <1>3, Zeroes DEF Init, TypeOK

\* NoTask leaves the task's variables at values of their types.
LEMMA NoTaskTyped ==
    ASSUME NoTask
    PROVE  /\ batch' \in Seq(Deliveries)
           /\ todo' \subseteq Semesters
           /\ semester' \in Semesters \cup {NoSemester}
           /\ version' \in 0 .. MaxEdits
           /\ at' \in Nat \ {0}
BY SolverServiceAssumption DEF NoTask

\* So does moving on from a settled message.
LEMMA SettledTyped ==
    ASSUME TypeOK, NEW i \in DOMAIN batch, Settled(i)
    PROVE  /\ phase' \in Phases
           /\ batch' \in Seq(Deliveries)
           /\ todo' \subseteq Semesters
           /\ semester' \in Semesters \cup {NoSemester}
           /\ version' \in 0 .. MaxEdits
           /\ at' \in Nat \ {0}
<1>1. i \in Nat \ {0}
  BY DEF TypeOK
<1>2. CASE MessagesFrom(i + 1) # {}
  BY <1>1, <1>2 DEF Settled, TypeOK
<1>3. CASE MessagesFrom(i + 1) = {} /\ todo \ {semester} # {}
  BY <1>3 DEF Settled, TypeOK, Phases
<1>4. CASE MessagesFrom(i + 1) = {} /\ todo \ {semester} = {}
  BY <1>4, NoTaskTyped DEF Settled, Phases
<1>5. QED
  BY <1>2, <1>3, <1>4

\* Every step keeps the types.
LEMMA NextTyped == TypeOK /\ [Next]_vars => TypeOK'
<1> SUFFICES ASSUME TypeOK, [Next]_vars PROVE TypeOK'
  OBVIOUS
<1> USE SolverServiceAssumption
<1> USE DEF database, broker, task, memory, bounds
<1>1. ASSUME NEW s \in Semesters, EditRules(s) PROVE TypeOK'
  BY <1>1 DEF EditRules, TypeOK
<1>2. ASSUME NEW b \in Bodies, PublishRequest(b) PROVE TypeOK'
  <2>1. published' \in 1 .. MaxRequests /\ published + 1 \in Requests
    BY <1>2 DEF PublishRequest, TypeOK, Requests
  <2>2. (IF b \in Semesters THEN rules[b] ELSE 0) \in 0 .. MaxEdits
    BY DEF TypeOK
  <2>3. b \in AnyBody
    BY DEF AnyBody
  <2>4. QED
    BY <1>2, <2>1, <2>2, <2>3 DEF PublishRequest, TypeOK
<1>3. ASSUME NEW r \in Requests, Deliver(r) PROVE TypeOK'
  <2>1. [req |-> r, conn |-> conn] \in Deliveries
    BY DEF TypeOK, Deliveries
  <2>2. inbox' \in Seq(Deliveries)
    BY <1>3, <2>1, Appended DEF Deliver, TypeOK
  <2>3. QED
    BY <1>3, <2>2 DEF Deliver, TypeOK
<1>4. ASSUME Arrive, phase' \in Phases, timer_age' = 0, batch_lock' \in BOOLEAN
      PROVE  TypeOK'
  <2>1. /\ inbox' \in Seq(Deliveries)
        /\ pending_batch' \in Seq(Deliveries)
    BY <1>4, Appended, Dequeued DEF Arrive, TypeOK
  <2>2. batch_age' \in 0 .. MAX_BATCH_WAIT
    BY <1>4 DEF Arrive, AgeOnArrival, TypeOK
  <2>3. QED
    BY <1>4, <2>1, <2>2, NoTaskTyped DEF Arrive, TypeOK
<1>5. CASE BufferRequest
  BY <1>4, <1>5 DEF BufferRequest, TypeOK, Phases
<1>6. CASE FlushBatch
  BY <1>4, <1>6 DEF FlushBatch, TypeOK, Phases
<1>7. CASE RefuseRequest
  <2>1. inbox' \in Seq(Deliveries) /\ Head(inbox).req \in Requests
    BY <1>7, Dequeued DEF RefuseRequest, TypeOK, Deliveries
  <2>2. QED
    BY <1>7, <2>1 DEF RefuseRequest, TypeOK
<1>8. CASE Tick
  <2>1. timer_age' \in 0 .. BATCH_TIMEOUT
    BY <1>8 DEF Tick, TypeOK
  <2>2. batch_age' \in 0 .. MAX_BATCH_WAIT
    BY <1>8 DEF Tick, TypeOK
  <2>3. QED
    BY <1>8, <2>1, <2>2 DEF Tick, TypeOK
<1>9. CASE TakeBatch
  <2>1. pending_batch' \in Seq(Deliveries) /\ batch' \in Seq(Deliveries)
    BY <1>9 DEF TakeBatch, TypeOK
  <2>2. todo' \subseteq Semesters /\ phase' \in Phases
    BY <1>9 DEF TakeBatch, Phases
  <2>3. UNCHANGED <<timer_age, semester, version, at, database, broker, answers,
                    inbox, batch_age, batch_lock, bounds>>
    BY <1>9 DEF TakeBatch
  <2>4. QED
    BY <2>1, <2>2, <2>3 DEF TypeOK
<1>10. ASSUME NEW s \in Semesters, SolveSemester(s) PROVE TypeOK'
  BY <1>10 DEF SolveSemester, TypeOK, Phases
<1>11. CASE SaveResult
  BY <1>11 DEF SaveResult, TypeOK, Phases
<1>12. CASE PublishResponse
  <2>1. answers' \in [Requests -> Seq(Nat)]
    <3>1. \A r \in Requests : Append(answers[r], version) \in Seq(Nat)
      BY DEF TypeOK
    <3>2. QED
      BY <1>12, <3>1 DEF PublishResponse, TypeOK
  <2>2. QED
    BY <1>12, <2>1 DEF PublishResponse, TypeOK, Phases
<1>13. ASSUME NEW i \in DOMAIN batch,
              \/ AckMessage(i) \/ AckStale(i)
              \/ RejectMessage(i) \/ RejectStale(i)
       PROVE  TypeOK'
  <2>1. Settled(i)
    BY <1>13 DEF AckMessage, AckStale, RejectMessage, RejectStale
  <2>2. batch[i].req \in Requests
    <3>1. batch \in Seq(Deliveries)
      BY DEF TypeOK
    <3>2. batch[i] \in Deliveries
      BY <3>1
    <3>3. QED
      BY <3>2 DEF Deliveries
  <2>3. /\ ready' \subseteq Requests
        /\ unacked' \subseteq Requests
        /\ acked' \subseteq Requests
    BY <1>13, <2>2 DEF AckMessage, AckStale, RejectMessage, RejectStale, TypeOK
  <2>4. UNCHANGED <<database, answers, memory, timer_age, bounds,
                    published, body, asked, discarded, conn>>
    BY <1>13 DEF AckMessage, AckStale, RejectMessage, RejectStale
  <2>5. QED
    BY <2>1, <2>3, <2>4, SettledTyped DEF TypeOK
<1>14. ASSUME NEW i \in DOMAIN batch, AckRaises(i) PROVE TypeOK'
  BY <1>14 DEF AckRaises, TypeOK, Phases
<1>15. ASSUME NEW i \in DOMAIN batch, RejectRaises(i) PROVE TypeOK'
  BY <1>15, NoTaskTyped DEF RejectRaises, TypeOK, Phases
<1>16. CASE SolveFails
  BY <1>16 DEF SolveFails, TypeOK, Phases
<1>17. CASE DropConnection
  BY <1>17 DEF DropConnection, TypeOK
<1>18. CASE Crash
  <2>1. NoTask /\ inbox' = <<>> /\ pending_batch' = <<>>
    BY <1>18 DEF Crash
  <2>2. ready' \subseteq Requests /\ unacked' \subseteq Requests /\ conn' \in Nat
    BY <1>18 DEF Crash, TypeOK
  <2>3. /\ crashes' \in 0 .. MaxCrashes
        /\ batch_age' \in 0 .. MAX_BATCH_WAIT
        /\ timer_age' \in 0 .. BATCH_TIMEOUT
        /\ batch_lock' \in BOOLEAN
        /\ phase' \in Phases
    <3>1. crashes' \in 0 .. MaxCrashes
      BY <1>18 DEF Crash, TypeOK
    <3>2. QED
      BY <1>18, <3>1, Zeroes DEF Crash, Phases
  <2>4. UNCHANGED <<database, answers, errors, drops,
                    published, body, asked, acked, discarded>>
    BY <1>18 DEF Crash
  <2>5. inbox' \in Seq(Deliveries) /\ pending_batch' \in Seq(Deliveries)
    BY <2>1
  <2>6. QED
    BY <2>1, <2>2, <2>3, <2>4, <2>5, NoTaskTyped DEF TypeOK
<1>19. CASE UNCHANGED vars
  BY <1>19 DEF vars, TypeOK
<1>20. QED
  BY <1>1, <1>2, <1>3, <1>5, <1>6, <1>7, <1>8, <1>9, <1>10, <1>11, <1>12,
     <1>13, <1>14, <1>15, <1>16, <1>17, <1>18, <1>19 DEF Next, Service

\* Every reachable state is well typed.
THEOREM TypeCorrect == Spec => []TypeOK
BY InitTyped, NextTyped, PTL DEF Spec

-----------------------------------------------------------------------------
(* The inductive invariant *)

\* What is in flight is the head of the queue, or was taken from there.
HeadOfQueue ==
    \A q \in InFlight :
        /\ q \in ready \cup unacked
        /\ \A p \in ready : q <= p

\* A delivery of this connection is settled only when memory lets go of it.
CurrentIsLive ==
    \A d \in Held :
        /\ d.conn <= conn
        /\ d.conn = conn => d.req \in unacked

\* Batch, pending batch and iterator are one line, the oldest delivery first:
\* a delivery that can still be settled is the very last of it.
LiveIsLast ==
    /\ \A i \in DOMAIN inbox : Live(inbox[i]) => i = Len(inbox)
    /\ \A i \in DOMAIN pending_batch :
          Live(pending_batch[i]) => i = Len(pending_batch) /\ inbox = <<>>
    /\ \A i \in DOMAIN batch :
          Live(batch[i]) => i = Len(batch) /\ pending_batch = <<>> /\ inbox = <<>>

\* The task solves the semester its batch names, and no buffered body is bad.
TaskIsForBatch ==
    /\ \A i \in DOMAIN pending_batch : body[pending_batch[i].req] # BadJson
    /\ \A i \in DOMAIN batch :
          /\ body[batch[i].req] # BadJson
          /\ todo \subseteq {body[batch[i].req]}
    /\ phase \in {"save", "publish", "ack", "reject"} => semester \in todo

QueueInv ==
    /\ SingleFlight
    /\ NoRequestLost
    /\ HeadOfQueue
    /\ CurrentIsLive
    /\ LiveIsLast
    /\ TaskIsForBatch

\* Versions never run ahead of the rules, and what the task has read, stored
\* or answered is as new as the requests it is to acknowledge.
Solving == MessagesFrom(1)

FreshInv ==
    /\ \A s \in Semesters : saved[s] <= rules[s]
    /\ \A r \in 1 .. published :
          body[r] \in Semesters => asked[r] <= rules[body[r]]
    /\ phase = "save" =>
          saved[semester] <= version /\ version <= rules[semester]
    /\ phase \in {"save", "publish"} =>
          \A i \in Solving : asked[batch[i].req] <= version
    /\ phase = "publish" => saved[semester] = version
    /\ phase = "ack" =>
          \A i \in Solving :
             /\ saved[semester] >= asked[batch[i].req]
             /\ \E k \in DOMAIN answers[batch[i].req] :
                   answers[batch[i].req][k] >= asked[batch[i].req]
    /\ AckedIsSolved

-----------------------------------------------------------------------------
(* The queue part is inductive *)

\* The types the proofs below work with.
LEMMA Known ==
    ASSUME TypeOK
    PROVE  /\ inbox \in Seq(Deliveries)
           /\ pending_batch \in Seq(Deliveries)
           /\ batch \in Seq(Deliveries)
           /\ Held \subseteq Deliveries
           /\ InFlight \subseteq Requests
           /\ ready \subseteq Requests
           /\ unacked \subseteq Requests
           /\ conn \in Nat
           /\ published \in Nat
           /\ Requests \subseteq Nat
<1>1. /\ inbox \in Seq(Deliveries)
      /\ pending_batch \in Seq(Deliveries)
      /\ batch \in Seq(Deliveries)
  BY DEF TypeOK
<1>2. ready \subseteq Requests /\ unacked \subseteq Requests /\ conn \in Nat
  BY DEF TypeOK
<1>3. published \in Nat /\ Requests \subseteq Nat
  BY SolverServiceAssumption DEF TypeOK, Requests
<1>4. Held \subseteq Deliveries
  BY <1>1 DEF Held, DeliveriesOf
<1>5. InFlight \subseteq Requests
  BY <1>2, <1>4 DEF InFlight, Deliveries
<1>6. QED
  BY <1>1, <1>2, <1>3, <1>4, <1>5

\* At most one request is unsettled: the prefetch window of one is full.
LEMMA WindowFull ==
    ASSUME TypeOK, Cardinality(unacked) < PREFETCH_COUNT
    PROVE  unacked = {}
<1>1. IsFiniteSet(Requests)
  BY FS_Interval, SolverServiceAssumption DEF Requests
<1>2. IsFiniteSet(unacked)
  BY <1>1, FS_Subset, Known
<1>3. Cardinality(unacked) = 0
  BY <1>2, FS_CardinalityType DEF PREFETCH_COUNT
<1>4. QED
  BY <1>2, <1>3, FS_EmptySet

\* A step that leaves the broker and the line of deliveries alone.
LEMMA SameLine ==
    ASSUME QueueInv,
           UNCHANGED <<broker, inbox, pending_batch, batch>>,
           todo' \subseteq todo,
           phase' \in {"save", "publish", "ack", "reject"} => semester' \in todo'
    PROVE  QueueInv'
<1> USE DEF broker
<1>1. Held' = Held /\ InFlight' = InFlight
  BY DEF Held, InFlight, DeliveriesOf
<1>2. SingleFlight' /\ NoRequestLost' /\ HeadOfQueue' /\ CurrentIsLive'
  BY <1>1 DEF QueueInv, SingleFlight, NoRequestLost, HeadOfQueue, CurrentIsLive
<1>3. LiveIsLast'
  BY DEF QueueInv, LiveIsLast, Live
<1>4. TaskIsForBatch'
  BY DEF QueueInv, TaskIsForBatch
<1>5. QED
  BY <1>2, <1>3, <1>4 DEF QueueInv

\* A step that drops the batch and nothing else from the line.
LEMMA BatchDropped ==
    ASSUME TypeOK, QueueInv,
           UNCHANGED <<broker, inbox, pending_batch>>,
           NoTask, phase' = "idle"
    PROVE  QueueInv'
<1> USE DEF broker
<1>1. batch' = <<>> /\ DOMAIN batch' = {}
  BY DEF NoTask
<1>2. Held' \subseteq Held /\ InFlight' \subseteq InFlight
  BY <1>1 DEF Held, InFlight, DeliveriesOf
<1>3. SingleFlight' /\ NoRequestLost' /\ HeadOfQueue' /\ CurrentIsLive'
  BY <1>2 DEF QueueInv, SingleFlight, NoRequestLost, HeadOfQueue, CurrentIsLive
<1>4. LiveIsLast'
  BY <1>1 DEF QueueInv, LiveIsLast, Live
<1>5. TaskIsForBatch'
  BY <1>1 DEF QueueInv, TaskIsForBatch
<1>6. QED
  BY <1>3, <1>4, <1>5 DEF QueueInv

\* A step after which nothing is in flight.
LEMMA LineEmptied ==
    ASSUME inbox' = <<>>, pending_batch' = <<>>, batch' = <<>>,
           unacked' = {}, phase' = "idle", NoRequestLost'
    PROVE  QueueInv'
<1>1. Held' = {} /\ InFlight' = {}
  BY DEF Held, InFlight, DeliveriesOf
<1>2. SingleFlight' /\ HeadOfQueue' /\ CurrentIsLive'
  BY <1>1 DEF SingleFlight, HeadOfQueue, CurrentIsLive
<1>3. LiveIsLast' /\ TaskIsForBatch'
  BY DEF LiveIsLast, TaskIsForBatch
<1>4. QED
  BY <1>2, <1>3 DEF QueueInv

\* A live message of the batch is the last of the line and the only request in
\* flight: settling it ends the task.
LEMMA LiveEndsTask ==
    ASSUME TypeOK, QueueInv,
           NEW i \in DOMAIN batch,
           phase \in {"ack", "reject"}, IsNext(i), Live(batch[i]), Settled(i)
    PROVE  /\ inbox = <<>> /\ pending_batch = <<>> /\ batch' = <<>>
           /\ phase' = "idle"
           /\ NoTask
           /\ unacked = {batch[i].req}
           /\ body[batch[i].req] = semester
           /\ semester \in Semesters
<1>1. i = Len(batch) /\ pending_batch = <<>> /\ inbox = <<>>
  BY DEF QueueInv, LiveIsLast
<1>2. batch \in Seq(Deliveries) /\ DOMAIN batch = 1 .. Len(batch) /\ Len(batch) \in Nat
  BY Known
<1>3. MessagesFrom(i + 1) = {}
  BY <1>1, <1>2 DEF MessagesFrom
<1>4. body[batch[i].req] = semester /\ semester \in todo
  BY DEF IsNext, MessagesFrom, QueueInv, TaskIsForBatch
<1>5. todo \ {semester} = {}
  BY <1>4 DEF QueueInv, TaskIsForBatch
<1>6. phase' = "idle" /\ NoTask
  BY <1>3, <1>5 DEF Settled
<1>7. batch[i].req \in unacked /\ unacked \subseteq InFlight
  BY DEF Live, InFlight
<1>8. unacked = {batch[i].req}
  BY <1>7 DEF QueueInv, SingleFlight
<1>9. QED
  BY <1>1, <1>4, <1>6, <1>8 DEF NoTask, TypeOK

\* A new request goes to the end of the queue.
LEMMA PublishKeepsQueue ==
    ASSUME TypeOK, QueueInv, NEW b \in Bodies, PublishRequest(b)
    PROVE  QueueInv'
<1> USE DEF task, memory
<1>1. /\ published' = published + 1
      /\ ready' = ready \cup {published + 1}
      /\ UNCHANGED <<unacked, acked, discarded, conn>>
      /\ UNCHANGED <<inbox, pending_batch, batch, phase, todo, semester>>
  BY DEF PublishRequest
<1>2. \A q \in 1 .. published : body'[q] = body[q]
  BY Known DEF PublishRequest, TypeOK, Requests
<1>3. Held' = Held /\ InFlight' = InFlight
  BY <1>1 DEF Held, InFlight, DeliveriesOf
<1>4. InFlight \subseteq 1 .. published
  BY DEF QueueInv, HeadOfQueue, NoRequestLost
<1>5. published + 1 \notin 1 .. published
  BY Known
<1>6. 1 .. published' = 1 .. published \cup {published + 1}
  BY <1>1, Known
<1>7. NoRequestLost'
  BY <1>1, <1>2, <1>5, <1>6 DEF QueueInv, NoRequestLost
<1>8. HeadOfQueue' /\ SingleFlight'
  BY <1>1, <1>3, <1>4, Known DEF QueueInv, HeadOfQueue, SingleFlight
<1>9. CurrentIsLive' /\ LiveIsLast'
  BY <1>1, <1>3 DEF QueueInv, CurrentIsLive, LiveIsLast, Live
<1>10. /\ \A i \in DOMAIN pending_batch : pending_batch[i].req \in InFlight
       /\ \A i \in DOMAIN batch : batch[i].req \in InFlight
  BY DEF InFlight, Held, DeliveriesOf
<1>11. TaskIsForBatch'
  BY <1>1, <1>2, <1>4, <1>10 DEF QueueInv, TaskIsForBatch
<1>12. QED
  BY <1>7, <1>8, <1>9, <1>11 DEF QueueInv

\* The head of the queue is delivered while no other request is in flight:
\* every copy still held is of that same request.
LEMMA DeliverKeepsQueue ==
    ASSUME TypeOK, QueueInv, NEW r \in Requests, Deliver(r)
    PROVE  QueueInv'
<1> USE DEF task
<1> DEFINE d == [req |-> r, conn |-> conn]
<1>1. /\ unacked = {}
      /\ r \in ready
      /\ \A q \in ready : r <= q
      /\ ready' = ready \ {r}
      /\ unacked' = {r}
      /\ inbox' = Append(inbox, d)
      /\ UNCHANGED <<published, body, acked, discarded, conn>>
      /\ UNCHANGED <<pending_batch, batch, phase, todo, semester>>
  BY WindowFull DEF Deliver
<1>2. d \in Deliveries
  BY Known DEF Deliveries
<1>3. /\ DOMAIN inbox' = 1 .. Len(inbox) + 1
      /\ Len(inbox') = Len(inbox) + 1
      /\ \A i \in 1 .. Len(inbox) : inbox'[i] = inbox[i]
      /\ inbox'[Len(inbox) + 1] = d
      /\ DeliveriesOf(inbox') = DeliveriesOf(inbox) \cup {d}
  BY <1>1, <1>2, Appended, Known
<1>4. Held' = Held \cup {d}
  BY <1>1, <1>3 DEF Held, DeliveriesOf
<1>5. \A q \in InFlight : q = r
  BY <1>1, Known DEF QueueInv, HeadOfQueue
<1>6. InFlight' = {r}
  BY <1>1, <1>4, <1>5 DEF InFlight
<1>7. SingleFlight' /\ HeadOfQueue'
  BY <1>1, <1>6 DEF SingleFlight, HeadOfQueue
<1>8. NoRequestLost'
  BY <1>1 DEF QueueInv, NoRequestLost
<1>9. \A e \in Held : e.conn # conn
  BY <1>1 DEF QueueInv, CurrentIsLive
<1>10. CurrentIsLive'
  BY <1>1, <1>4, <1>9, Known DEF QueueInv, CurrentIsLive
<1>11. /\ \A i \in DOMAIN inbox : inbox[i].conn # conn
       /\ \A i \in DOMAIN pending_batch : pending_batch[i].conn # conn
       /\ \A i \in DOMAIN batch : batch[i].conn # conn
  BY <1>9 DEF Held, DeliveriesOf
<1>12. DOMAIN inbox = 1 .. Len(inbox) /\ Len(inbox) \in Nat
  BY Known
<1>13. LiveIsLast'
  <2>1. \A i \in DOMAIN inbox' : Live(inbox[i])' => i = Len(inbox')
    BY <1>1, <1>3, <1>11, <1>12 DEF Live
  <2>2. /\ \A i \in DOMAIN pending_batch' : ~Live(pending_batch[i])'
        /\ \A i \in DOMAIN batch' : ~Live(batch[i])'
    BY <1>1, <1>11 DEF Live
  <2>3. QED
    BY <2>1, <2>2 DEF LiveIsLast
<1>14. TaskIsForBatch'
  BY <1>1 DEF QueueInv, TaskIsForBatch
<1>15. QED
  BY <1>7, <1>8, <1>10, <1>13, <1>14 DEF QueueInv

\* A delivery moves from the iterator to the pending batch; the batch being
\* solved, if any, is dropped with its task.
LEMMA ArriveKeepsQueue ==
    ASSUME TypeOK, QueueInv, Arrive, phase' \in {"sleeping", "idle"}
    PROVE  QueueInv'
<1> USE DEF broker
<1> DEFINE d == Head(inbox)
<1>1. /\ inbox # <<>>
      /\ body[d.req] # BadJson
      /\ inbox' = Tail(inbox)
      /\ pending_batch' = Append(pending_batch, d)
      /\ batch' = <<>>
      /\ UNCHANGED broker
  BY DEF Arrive, NoTask
<1>2. /\ d \in Deliveries
      /\ d = inbox[1]
      /\ Len(inbox) \in Nat \ {0}
      /\ DOMAIN inbox = 1 .. Len(inbox)
      /\ Tail(inbox) \in Seq(Deliveries)
      /\ DOMAIN inbox' = 1 .. Len(inbox) - 1
      /\ Len(inbox') = Len(inbox) - 1
      /\ \A i \in 1 .. Len(inbox) - 1 : inbox'[i] = inbox[i + 1]
      /\ d \in DeliveriesOf(inbox)
      /\ DeliveriesOf(inbox') \subseteq DeliveriesOf(inbox)
  BY <1>1, Dequeued, Known
<1>3. /\ DOMAIN pending_batch' = 1 .. Len(pending_batch) + 1
      /\ Len(pending_batch') = Len(pending_batch) + 1
      /\ \A i \in 1 .. Len(pending_batch) : pending_batch'[i] = pending_batch[i]
      /\ pending_batch'[Len(pending_batch) + 1] = d
      /\ DeliveriesOf(pending_batch') = DeliveriesOf(pending_batch) \cup {d}
  BY <1>1, <1>2, Appended, Known
<1>4. DOMAIN pending_batch = 1 .. Len(pending_batch) /\ Len(pending_batch) \in Nat
  BY Known
<1>5. Held' \subseteq Held /\ InFlight' \subseteq InFlight
  BY <1>1, <1>2, <1>3 DEF Held, InFlight, DeliveriesOf
<1>6. SingleFlight' /\ NoRequestLost' /\ HeadOfQueue' /\ CurrentIsLive'
  BY <1>1, <1>5 DEF QueueInv, SingleFlight, NoRequestLost, HeadOfQueue, CurrentIsLive
<1>7. LiveIsLast'
  <2>1. \A i \in DOMAIN inbox' : Live(inbox[i])' => i = Len(inbox')
    BY <1>1, <1>2 DEF QueueInv, LiveIsLast, Live
  <2>2. \A i \in DOMAIN pending_batch : ~Live(pending_batch[i])
    BY <1>1 DEF QueueInv, LiveIsLast
  <2>3. Live(d) => inbox' = <<>>
    BY <1>1, <1>2 DEF QueueInv, LiveIsLast
  <2>4. ASSUME NEW i \in DOMAIN pending_batch', Live(pending_batch[i])'
        PROVE  i = Len(pending_batch') /\ inbox' = <<>>
    BY <2>2, <2>3, <2>4, <1>1, <1>3, <1>4 DEF Live
  <2>5. QED
    BY <1>1, <2>1, <2>4 DEF LiveIsLast
<1>8. TaskIsForBatch'
  BY <1>1, <1>3, <1>4 DEF QueueInv, TaskIsForBatch
<1>9. QED
  BY <1>6, <1>7, <1>8 DEF QueueInv

\* A refused body leaves the iterator; when it was live, nothing else is held.
LEMMA RefuseKeepsQueue ==
    ASSUME TypeOK, QueueInv, RefuseRequest
    PROVE  QueueInv'
<1> USE DEF broker, task
<1> DEFINE d == Head(inbox)
<1>1. /\ inbox # <<>>
      /\ body[d.req] = BadJson
      /\ inbox' = Tail(inbox)
      /\ UNCHANGED <<published, body, ready, acked, conn>>
      /\ UNCHANGED <<pending_batch, batch, phase, todo, semester>>
  BY DEF RefuseRequest
<1>2. /\ d = inbox[1]
      /\ Len(inbox) \in Nat \ {0}
      /\ DOMAIN inbox = 1 .. Len(inbox)
      /\ DOMAIN inbox' = 1 .. Len(inbox) - 1
      /\ Len(inbox') = Len(inbox) - 1
      /\ \A i \in 1 .. Len(inbox) - 1 : inbox'[i] = inbox[i + 1]
      /\ d \in DeliveriesOf(inbox)
      /\ DeliveriesOf(inbox') \subseteq DeliveriesOf(inbox)
      /\ Tail(inbox) \in Seq(Deliveries)
  BY <1>1, Dequeued, Known
<1>3. CASE ~Live(d)
  <2>1. UNCHANGED <<unacked, discarded>>
    BY <1>3 DEF RefuseRequest
  <2>2. Held' \subseteq Held /\ InFlight' \subseteq InFlight
    BY <1>1, <1>2, <2>1 DEF Held, InFlight, DeliveriesOf
  <2>3. SingleFlight' /\ NoRequestLost' /\ HeadOfQueue' /\ CurrentIsLive'
    BY <1>1, <2>1, <2>2
       DEF QueueInv, SingleFlight, NoRequestLost, HeadOfQueue, CurrentIsLive
  <2>4. \A i \in DOMAIN inbox' : Live(inbox[i])' => i = Len(inbox')
    BY <1>1, <1>2, <2>1 DEF QueueInv, LiveIsLast, Live
  <2>5. inbox = <<>> => inbox' = <<>>
    BY <1>1
  <2>6. LiveIsLast'
    BY <1>1, <2>1, <2>4, <2>5 DEF QueueInv, LiveIsLast, Live
  <2>7. TaskIsForBatch'
    BY <1>1 DEF QueueInv, TaskIsForBatch
  <2>8. QED
    BY <2>3, <2>6, <2>7 DEF QueueInv
<1>4. CASE Live(d)
  <2>1. unacked' = unacked \ {d.req} /\ discarded' = discarded \cup {d.req}
    BY <1>4 DEF RefuseRequest
  <2>2. d.req \in unacked /\ d.req \in InFlight /\ unacked \subseteq InFlight
    BY <1>4 DEF Live, InFlight
  <2>3. unacked = {d.req}
    BY <2>2 DEF QueueInv, SingleFlight
  <2>4. inbox' = <<>>
    BY <1>1, <1>2, <1>4 DEF QueueInv, LiveIsLast
  <2>5. /\ \A i \in DOMAIN pending_batch : pending_batch[i].req \in InFlight
        /\ \A i \in DOMAIN batch : batch[i].req \in InFlight
    BY DEF InFlight, Held, DeliveriesOf
  <2>6. DOMAIN pending_batch = {} /\ DOMAIN batch = {}
    <3>1. \A q \in InFlight : body[q] = BadJson
      BY <1>1, <2>2 DEF QueueInv, SingleFlight
    <3>2. QED
      BY <3>1, <2>5 DEF QueueInv, TaskIsForBatch
  <2>7. Held' = {} /\ InFlight' = {}
    BY <1>1, <2>1, <2>3, <2>4, <2>6 DEF Held, InFlight, DeliveriesOf
  <2>8. SingleFlight' /\ HeadOfQueue' /\ CurrentIsLive'
    BY <2>7 DEF SingleFlight, HeadOfQueue, CurrentIsLive
  <2>9. NoRequestLost'
    BY <1>1, <2>1, <2>2, <2>3 DEF QueueInv, NoRequestLost
  <2>10. LiveIsLast'
    BY <1>1, <2>4, <2>6 DEF LiveIsLast
  <2>11. TaskIsForBatch'
    BY <1>1 DEF QueueInv, TaskIsForBatch
  <2>12. QED
    BY <2>8, <2>9, <2>10, <2>11 DEF QueueInv
<1>5. QED
  BY <1>3, <1>4

\* The pending batch becomes the batch, in place of an old one.
LEMMA TakeKeepsQueue ==
    ASSUME TypeOK, QueueInv, TakeBatch
    PROVE  QueueInv'
<1> USE DEF broker
<1> DEFINE named == {body[pending_batch[i].req] : i \in DOMAIN pending_batch}
                        \cap Semesters
<1>1. /\ pending_batch' = <<>>
      /\ batch' = IF named = {} THEN <<>> ELSE pending_batch
      /\ todo' = named
      /\ phase' \in {"idle", "solve"}
      /\ UNCHANGED <<broker, inbox>>
  BY DEF TakeBatch
<1> HIDE DEF named
<1>2. batch' = <<>> \/ batch' = pending_batch
  BY <1>1
<1>3. Held' \subseteq Held /\ InFlight' \subseteq InFlight
  BY <1>1, <1>2 DEF Held, InFlight, DeliveriesOf
<1>4. SingleFlight' /\ NoRequestLost' /\ HeadOfQueue' /\ CurrentIsLive'
  BY <1>1, <1>3 DEF QueueInv, SingleFlight, NoRequestLost, HeadOfQueue, CurrentIsLive
<1>5. LiveIsLast'
  BY <1>1, <1>2 DEF QueueInv, LiveIsLast, Live
<1>6. \A i, j \in DOMAIN pending_batch : pending_batch[i].req = pending_batch[j].req
  <2>1. \A i \in DOMAIN pending_batch : pending_batch[i].req \in InFlight
    BY DEF InFlight, Held, DeliveriesOf
  <2>2. QED
    BY <2>1 DEF QueueInv, SingleFlight
<1>7. \A j \in DOMAIN pending_batch : named \subseteq {body[pending_batch[j].req]}
  BY <1>6 DEF named
<1>8. TaskIsForBatch'
  BY <1>1, <1>2, <1>7 DEF QueueInv, TaskIsForBatch
<1>9. QED
  BY <1>4, <1>5, <1>8 DEF QueueInv

\* Moving on from a message that has no effect on the broker.
LEMMA StaleKeepsQueue ==
    ASSUME TypeOK, QueueInv, NEW i \in DOMAIN batch, AckStale(i) \/ RejectStale(i)
    PROVE  QueueInv'
<1> USE DEF memory
<1>1. Settled(i) /\ UNCHANGED <<broker, inbox, pending_batch>>
  BY DEF AckStale, RejectStale
<1>2. phase \in {"ack", "reject"}
  BY DEF AckStale, RejectStale
<1>3. CASE MessagesFrom(i + 1) # {}
  <2>1. UNCHANGED <<phase, batch, todo, semester>>
    BY <1>1, <1>3 DEF Settled
  <2>2. phase' \in {"save", "publish", "ack", "reject"} => semester' \in todo'
    BY <2>1 DEF QueueInv, TaskIsForBatch
  <2>3. QED
    BY <1>1, <2>1, <2>2, SameLine
<1>4. CASE MessagesFrom(i + 1) = {} /\ todo \ {semester} # {}
  BY <1>1, <1>4, SameLine DEF Settled
<1>5. CASE MessagesFrom(i + 1) = {} /\ todo \ {semester} = {}
  BY <1>1, <1>5, BatchDropped DEF Settled
<1>6. QED
  BY <1>3, <1>4, <1>5

\* The live message is acknowledged.
LEMMA AckKeepsQueue ==
    ASSUME TypeOK, QueueInv, NEW i \in DOMAIN batch, AckMessage(i)
    PROVE  QueueInv'
<1> USE DEF memory
<1> DEFINE r == batch[i].req
<1>1. /\ inbox = <<>> /\ pending_batch = <<>> /\ batch' = <<>> /\ phase' = "idle"
      /\ unacked = {r} /\ body[r] = semester /\ semester \in Semesters
  BY LiveEndsTask DEF AckMessage
<1>2. /\ unacked' = unacked \ {r}
      /\ acked' = acked \cup {r}
      /\ UNCHANGED <<inbox, pending_batch, published, body, ready, discarded>>
  BY DEF AckMessage
<1>3. NoRequestLost'
  BY <1>1, <1>2 DEF QueueInv, NoRequestLost
<1>4. QED
  BY <1>1, <1>2, <1>3, LineEmptied

\* The live message is returned to the queue.
LEMMA RejectKeepsQueue ==
    ASSUME TypeOK, QueueInv, NEW i \in DOMAIN batch, RejectMessage(i)
    PROVE  QueueInv'
<1> USE DEF memory
<1> DEFINE r == batch[i].req
<1>1. /\ inbox = <<>> /\ pending_batch = <<>> /\ batch' = <<>> /\ phase' = "idle"
      /\ unacked = {r}
  BY LiveEndsTask DEF RejectMessage
<1>2. /\ unacked' = unacked \ {r}
      /\ ready' = ready \cup {r}
      /\ UNCHANGED <<inbox, pending_batch, published, body, acked, discarded>>
  BY DEF RejectMessage
<1>3. NoRequestLost'
  BY <1>1, <1>2 DEF QueueInv, NoRequestLost
<1>4. QED
  BY <1>1, <1>2, <1>3, LineEmptied

\* The broker takes everything back.  What the service still holds is stale.
LEMMA DropKeepsQueue ==
    ASSUME TypeOK, QueueInv, DropConnection
    PROVE  QueueInv'
<1> USE DEF memory, task
<1>1. /\ conn' = conn + 1
      /\ ready' = ready \cup unacked
      /\ unacked' = {}
      /\ UNCHANGED <<published, body, acked, discarded>>
      /\ UNCHANGED <<inbox, pending_batch, batch, phase, todo, semester>>
  BY DEF DropConnection
<1>2. Held' = Held /\ InFlight' \subseteq InFlight
  BY <1>1 DEF Held, InFlight, DeliveriesOf
<1>3. SingleFlight' /\ NoRequestLost'
  BY <1>1, <1>2 DEF QueueInv, SingleFlight, NoRequestLost
<1>4. \A q \in InFlight : \A p \in ready \cup unacked : q <= p
  <2>1. unacked \subseteq InFlight
    BY DEF InFlight
  <2>2. \A q \in InFlight : q \in Nat
    BY Known
  <2>3. \A q \in InFlight : \A p \in unacked : q <= p
    BY <2>1, <2>2 DEF QueueInv, SingleFlight
  <2>4. QED
    BY <2>3 DEF QueueInv, HeadOfQueue
<1>5. HeadOfQueue'
  BY <1>1, <1>2, <1>4 DEF QueueInv, HeadOfQueue
<1>6. CurrentIsLive'
  BY <1>1, <1>2, Known DEF QueueInv, CurrentIsLive, Deliveries
<1>7. LiveIsLast'
  BY <1>1 DEF LiveIsLast, Live
<1>8. TaskIsForBatch'
  BY <1>1 DEF QueueInv, TaskIsForBatch
<1>9. QED
  BY <1>3, <1>5, <1>6, <1>7, <1>8 DEF QueueInv

\* A restart empties the service's memory; the broker takes everything back.
LEMMA CrashKeepsQueue ==
    ASSUME TypeOK, QueueInv, Crash
    PROVE  QueueInv'
<1>1. NoRequestLost'
  BY DEF Crash, QueueInv, NoRequestLost
<1>2. QED
  BY <1>1, LineEmptied DEF Crash, NoTask

\* Nothing is published, delivered or held at the start.
LEMMA InitQueue == Init => QueueInv
<1> SUFFICES ASSUME Init PROVE QueueInv
  OBVIOUS
<1>1. Held = {} /\ InFlight = {}
  BY DEF Init, Held, InFlight, DeliveriesOf
<1>2. SingleFlight /\ HeadOfQueue /\ CurrentIsLive
  BY <1>1 DEF SingleFlight, HeadOfQueue, CurrentIsLive
<1>3. NoRequestLost /\ LiveIsLast /\ TaskIsForBatch
  BY DEF Init, NoRequestLost, LiveIsLast, TaskIsForBatch
<1>4. QED
  BY <1>2, <1>3 DEF QueueInv

\* Every step keeps the queue part.
LEMMA NextQueue == TypeOK /\ QueueInv /\ [Next]_vars => QueueInv'
<1> SUFFICES ASSUME TypeOK, QueueInv, [Next]_vars PROVE QueueInv'
  OBVIOUS
<1> USE DEF database, memory, task
<1>1. ASSUME NEW s \in Semesters, EditRules(s) PROVE QueueInv'
  BY <1>1, SameLine DEF EditRules, QueueInv, TaskIsForBatch
<1>2. ASSUME NEW s \in Semesters, SolveSemester(s) PROVE QueueInv'
  BY <1>2, SameLine DEF SolveSemester
<1>3. CASE Tick
  BY <1>3, SameLine DEF Tick
<1>4. CASE SaveResult
  BY <1>4, SameLine DEF SaveResult, QueueInv, TaskIsForBatch
<1>5. CASE PublishResponse
  BY <1>5, SameLine DEF PublishResponse, QueueInv, TaskIsForBatch
<1>6. CASE SolveFails
  BY <1>6, SameLine DEF SolveFails, QueueInv, TaskIsForBatch
<1>7. ASSUME NEW i \in DOMAIN batch, AckRaises(i) PROVE QueueInv'
  BY <1>7, SameLine DEF AckRaises, QueueInv, TaskIsForBatch
<1>8. ASSUME NEW i \in DOMAIN batch, RejectRaises(i) PROVE QueueInv'
  BY <1>8, BatchDropped DEF RejectRaises
<1>9. CASE BufferRequest \/ FlushBatch
  BY <1>9, ArriveKeepsQueue DEF BufferRequest, FlushBatch
<1>10. CASE UNCHANGED vars
  BY <1>10, SameLine DEF vars, QueueInv, TaskIsForBatch
<1>11. QED
  BY <1>1, <1>2, <1>3, <1>4, <1>5, <1>6, <1>7, <1>8, <1>9, <1>10,
     PublishKeepsQueue, DeliverKeepsQueue, RefuseKeepsQueue, TakeKeepsQueue,
     StaleKeepsQueue, AckKeepsQueue, RejectKeepsQueue, DropKeepsQueue,
     CrashKeepsQueue DEF Next, Service

\* The service works on one request at a time: batching never brings two
\* together, whatever the limits, the lost connections and the crashes.
THEOREM ServesOneAtATime == Spec => []SingleFlight
<1>1. QueueInv => SingleFlight
  BY DEF QueueInv
<1>2. QED
  BY <1>1, TypeCorrect, InitQueue, NextQueue, PTL DEF Spec

\* Every request published is in the queue, on its way or settled, once.
THEOREM LosesNoRequest == Spec => []NoRequestLost
<1>1. QueueInv => NoRequestLost
  BY DEF QueueInv
<1>2. QED
  BY <1>1, TypeCorrect, InitQueue, NextQueue, PTL DEF Spec

-----------------------------------------------------------------------------
(* Acknowledged is solved *)

\* The requests of the batch were published, and the semester being solved is one.
LEMMA BatchKnown ==
    ASSUME TypeOK, QueueInv
    PROVE  /\ \A i \in DOMAIN batch :
                 batch[i].req \in Requests /\ batch[i].req \in 1 .. published
           /\ acked \subseteq 1 .. published
           /\ phase \in {"save", "publish", "ack"} => semester \in Semesters
<1>1. \A i \in DOMAIN batch : batch[i].req \in InFlight
  BY DEF InFlight, Held, DeliveriesOf
<1>2. InFlight \subseteq 1 .. published
  BY DEF QueueInv, HeadOfQueue, NoRequestLost
<1>3. acked \subseteq 1 .. published
  BY DEF QueueInv, NoRequestLost
<1>4. phase \in {"save", "publish", "ack"} => semester \in Semesters
  BY DEF QueueInv, TaskIsForBatch, TypeOK
<1>5. QED
  BY <1>1, <1>2, <1>3, <1>4, Known

\* The versions, as numbers.
LEMMA VersionsKnown ==
    ASSUME TypeOK
    PROVE  /\ \A s \in Semesters : rules[s] \in Nat /\ saved[s] \in Nat
           /\ \A r \in Requests : asked[r] \in Nat
           /\ version \in Nat
           /\ \A r \in Requests : answers[r] \in Seq(Nat)
BY SolverServiceAssumption DEF TypeOK

\* A step that touches neither the database nor a request, and leaves the task
\* where it is or takes it out of solving.
LEMMA SameVersions ==
    ASSUME FreshInv,
           UNCHANGED <<database, published, body, asked, acked, answers>>,
           \/ phase' \notin {"save", "publish", "ack"}
           \/ UNCHANGED <<phase, batch, semester, version>>
    PROVE  FreshInv'
<1> USE DEF database
<1>1. /\ \A s \in Semesters : saved'[s] <= rules'[s]
      /\ \A r \in 1 .. published' :
            body'[r] \in Semesters => asked'[r] <= rules'[body'[r]]
      /\ AckedIsSolved'
  BY DEF FreshInv, AckedIsSolved
<1>2. CASE phase' \notin {"save", "publish", "ack"}
  BY <1>1, <1>2 DEF FreshInv
<1>3. CASE UNCHANGED <<phase, batch, semester, version>>
  <2>1. Solving' = Solving
    BY <1>3 DEF Solving, MessagesFrom
  <2>2. QED
    BY <1>1, <1>3, <2>1 DEF FreshInv
<1>4. QED
  BY <1>2, <1>3

\* An edit only makes the rules newer.
LEMMA EditKeepsFresh ==
    ASSUME TypeOK, QueueInv, FreshInv, NEW s \in Semesters, EditRules(s)
    PROVE  FreshInv'
<1> USE DEF task, broker
<1>1. UNCHANGED <<saved, published, body, asked, acked, answers,
                  phase, batch, semester, version>>
  BY DEF EditRules
<1>2. \A t \in Semesters : rules'[t] \in Nat /\ rules[t] <= rules'[t]
  BY VersionsKnown DEF EditRules, TypeOK
<1>3. Solving' = Solving
  BY <1>1 DEF Solving, MessagesFrom
<1>4. \A t \in Semesters : saved'[t] <= rules'[t]
  BY <1>1, <1>2, VersionsKnown DEF FreshInv
<1>5. \A r \in 1 .. published' : body'[r] \in Semesters => asked'[r] <= rules'[body'[r]]
  <2> SUFFICES ASSUME NEW r \in 1 .. published, body[r] \in Semesters
               PROVE  asked[r] <= rules'[body[r]]
    BY <1>1
  <2>1. r \in Requests
    BY SolverServiceAssumption DEF TypeOK, Requests
  <2>2. asked[r] <= rules[body[r]]
    BY DEF FreshInv
  <2>3. QED
    BY <1>2, <2>1, <2>2, VersionsKnown
<1>6. phase' = "save" => saved'[semester'] <= version' /\ version' <= rules'[semester']
  BY <1>1, <1>2, VersionsKnown, BatchKnown DEF FreshInv
<1>7. AckedIsSolved'
  BY <1>1 DEF FreshInv, AckedIsSolved
<1>8. QED
  BY <1>1, <1>3, <1>4, <1>5, <1>6, <1>7 DEF FreshInv

\* A new request follows rules that are committed; older ones are as they were.
LEMMA PublishKeepsFresh ==
    ASSUME TypeOK, QueueInv, FreshInv, NEW b \in Bodies, PublishRequest(b)
    PROVE  FreshInv'
<1> USE DEF task, database
<1> DEFINE n == published + 1
<1>1. /\ n \in Requests
      /\ n \notin 1 .. published
      /\ 1 .. published' = 1 .. published \cup {n}
      /\ 1 .. published \subseteq Requests
  <2>1. published' = n /\ published < MaxRequests
    BY DEF PublishRequest
  <2>2. published \in Nat /\ MaxRequests \in Nat
    BY Known, SolverServiceAssumption
  <2>3. n \in Requests /\ 1 .. published \subseteq Requests
    BY <2>1, <2>2 DEF Requests
  <2>4. QED
    BY <2>1, <2>2, <2>3
<1>2. /\ UNCHANGED <<rules, saved, acked, answers, phase, batch, semester, version>>
      /\ body'[n] = b
      /\ asked'[n] = IF b \in Semesters THEN rules[b] ELSE 0
      /\ \A r \in 1 .. published : body'[r] = body[r] /\ asked'[r] = asked[r]
  BY <1>1 DEF PublishRequest, TypeOK
<1>3. \A r \in 1 .. published' : body'[r] \in Semesters => asked'[r] <= rules'[body'[r]]
  BY <1>1, <1>2, VersionsKnown DEF FreshInv
<1>4. Solving' = Solving /\ Solving \subseteq DOMAIN batch
  BY <1>2, BatchKnown DEF Solving, MessagesFrom
<1>5. \A i \in Solving : /\ body'[batch[i].req] = body[batch[i].req]
                         /\ asked'[batch[i].req] = asked[batch[i].req]
  BY <1>2, <1>4, BatchKnown
<1>6. AckedIsSolved'
  BY <1>2, BatchKnown DEF FreshInv, AckedIsSolved
<1>7. QED
  BY <1>2, <1>3, <1>4, <1>5, <1>6 DEF FreshInv

\* The rules are read as they stand, after every edit a request followed.
LEMMA SolveKeepsFresh ==
    ASSUME TypeOK, QueueInv, FreshInv, NEW s \in Semesters, SolveSemester(s)
    PROVE  FreshInv'
<1> USE DEF broker, database
<1>1. /\ phase' = "save" /\ semester' = s /\ version' = rules[s]
      /\ UNCHANGED <<rules, saved, published, body, asked, acked, answers, batch>>
  BY DEF SolveSemester
<1>2. \A i \in Solving' : i \in DOMAIN batch /\ body[batch[i].req] = s
  BY <1>1 DEF Solving, MessagesFrom
<1>3. \A i \in Solving' : asked[batch[i].req] <= rules[s]
  BY <1>2, BatchKnown DEF FreshInv
<1>4. saved[s] <= rules[s] /\ rules[s] <= rules[s]
  BY VersionsKnown DEF FreshInv
<1>5. QED
  BY <1>1, <1>3, <1>4 DEF FreshInv, AckedIsSolved

\* What is stored is never older than what it replaces.
LEMMA SaveKeepsFresh ==
    ASSUME TypeOK, QueueInv, FreshInv, SaveResult
    PROVE  FreshInv'
<1> USE DEF broker
<1>1. /\ phase = "save" /\ phase' = "publish" /\ semester \in Semesters
      /\ UNCHANGED <<rules, published, body, asked, acked, answers,
                     batch, semester, version>>
  BY BatchKnown DEF SaveResult
<1>2. /\ saved'[semester] = version
      /\ \A t \in Semesters : t # semester => saved'[t] = saved[t]
  BY <1>1 DEF SaveResult, TypeOK
<1>3. \A t \in Semesters : saved[t] <= saved'[t] /\ saved'[t] <= rules[t]
  BY <1>1, <1>2, VersionsKnown DEF FreshInv
<1>4. Solving' = Solving
  BY <1>1 DEF Solving, MessagesFrom
<1>5. AckedIsSolved'
  <2> SUFFICES ASSUME NEW r \in acked, body[r] \in Semesters, saved[body[r]] >= asked[r]
               PROVE  saved'[body[r]] >= asked[r]
    BY <1>1 DEF FreshInv, AckedIsSolved
  <2>1. saved'[body[r]] \in Nat
    BY <1>2, VersionsKnown
  <2>2. r \in Requests
    BY DEF TypeOK
  <2>3. QED
    BY <1>3, <2>1, <2>2, VersionsKnown
<1>6. QED
  BY <1>1, <1>2, <1>3, <1>4, <1>5 DEF FreshInv

\* The answer carries the version that was stored.
LEMMA AnswerKeepsFresh ==
    ASSUME TypeOK, QueueInv, FreshInv, PublishResponse
    PROVE  FreshInv'
<1> USE DEF broker, database
<1>1. /\ phase = "publish" /\ phase' = "ack"
      /\ UNCHANGED <<rules, saved, published, body, asked, acked,
                     batch, semester, version>>
      /\ saved[semester] = version
  BY DEF PublishResponse, FreshInv
<1>2. Solving' = Solving
  BY <1>1 DEF Solving, MessagesFrom
<1>3. \A r \in Requests :
         /\ answers'[r] = Append(answers[r], version) \/ answers'[r] = answers[r]
         /\ (\E i \in Solving : batch[i].req = r)
               => answers'[r] = Append(answers[r], version)
  BY DEF PublishResponse, Solving
<1>4. ASSUME NEW r \in Requests
      PROVE  LET a == Append(answers[r], version)
             IN  /\ \A k \in DOMAIN answers[r] : k \in DOMAIN a /\ a[k] = answers[r][k]
                 /\ Len(answers[r]) + 1 \in DOMAIN a
                 /\ a[Len(answers[r]) + 1] = version
  BY VersionsKnown
<1>5. AckedIsSolved'
  <2> SUFFICES ASSUME NEW r \in acked,
                      NEW k \in DOMAIN answers[r], answers[r][k] >= asked[r]
               PROVE  \E j \in DOMAIN answers'[r] : answers'[r][j] >= asked[r]
    BY <1>1 DEF FreshInv, AckedIsSolved
  <2>1. r \in Requests
    BY DEF TypeOK
  <2>2. k \in DOMAIN answers'[r] /\ answers'[r][k] = answers[r][k]
    BY <1>3, <1>4, <2>1
  <2>3. QED
    BY <2>2
<1>6. ASSUME NEW i \in Solving
      PROVE  /\ saved[semester] >= asked[batch[i].req]
             /\ \E k \in DOMAIN answers'[batch[i].req] :
                   answers'[batch[i].req][k] >= asked[batch[i].req]
  <2> DEFINE r == batch[i].req
  <2>1. r \in Requests
    BY BatchKnown DEF Solving, MessagesFrom
  <2>2. asked[r] <= version
    BY <1>1 DEF FreshInv
  <2>3. version >= asked[r]
    BY <2>1, <2>2, VersionsKnown
  <2>4. /\ Len(answers[r]) + 1 \in DOMAIN answers'[r]
        /\ answers'[r][Len(answers[r]) + 1] = version
    BY <1>3, <1>4, <2>1
  <2>5. QED
    BY <1>1, <2>3, <2>4
<1>7. QED
  BY <1>1, <1>2, <1>5, <1>6 DEF FreshInv

\* The acknowledged request is one of those just answered.
LEMMA AckKeepsFresh ==
    ASSUME TypeOK, QueueInv, FreshInv, NEW i \in DOMAIN batch, AckMessage(i)
    PROVE  FreshInv'
<1> USE DEF database
<1> DEFINE r == batch[i].req
<1>1. phase' = "idle" /\ body[r] = semester /\ semester \in Semesters
  BY LiveEndsTask DEF AckMessage
<1>2. /\ phase = "ack"
      /\ acked' = acked \cup {r}
      /\ UNCHANGED <<database, published, body, asked, answers>>
  BY DEF AckMessage
<1>3. i \in Solving
  BY DEF AckMessage, IsNext, Solving, MessagesFrom, TypeOK
<1>4. AckedIsSolved'
  BY <1>1, <1>2, <1>3 DEF FreshInv, AckedIsSolved
<1>5. QED
  BY <1>1, <1>2, <1>4 DEF FreshInv

\* The versions are in order at the start.
LEMMA InitFresh == Init => FreshInv
BY SolverServiceAssumption DEF Init, FreshInv, AckedIsSolved

\* Every step keeps them in order.
LEMMA NextFresh == TypeOK /\ QueueInv /\ FreshInv /\ [Next]_vars => FreshInv'
<1> SUFFICES ASSUME TypeOK, QueueInv, FreshInv, [Next]_vars PROVE FreshInv'
  OBVIOUS
<1> USE DEF database, broker, task, memory
<1>1. ASSUME NEW r \in Requests, Deliver(r) PROVE FreshInv'
  BY <1>1, SameVersions DEF Deliver
<1>2. CASE BufferRequest \/ FlushBatch
  BY <1>2, SameVersions DEF BufferRequest, FlushBatch, Arrive
<1>3. CASE RefuseRequest
  BY <1>3, SameVersions DEF RefuseRequest
<1>4. CASE Tick
  BY <1>4, SameVersions DEF Tick
<1>5. CASE TakeBatch
  BY <1>5, SameVersions DEF TakeBatch
<1>6. ASSUME NEW i \in DOMAIN batch, AckStale(i) \/ RejectStale(i) \/ RejectMessage(i)
      PROVE  FreshInv'
  <2>1. Settled(i) /\ UNCHANGED <<database, published, body, asked, acked, answers>>
    BY <1>6 DEF AckStale, RejectStale, RejectMessage
  <2>2. \/ phase' \notin {"save", "publish", "ack"}
        \/ UNCHANGED <<phase, batch, semester, version>>
    BY <2>1 DEF Settled
  <2>3. QED
    BY <2>1, <2>2, SameVersions
<1>7. ASSUME NEW i \in DOMAIN batch, AckRaises(i) \/ RejectRaises(i) PROVE FreshInv'
  BY <1>7, SameVersions DEF AckRaises, RejectRaises
<1>8. CASE SolveFails
  BY <1>8, SameVersions DEF SolveFails
<1>9. CASE DropConnection
  BY <1>9, SameVersions DEF DropConnection
<1>10. CASE Crash
  BY <1>10, SameVersions DEF Crash
<1>11. CASE UNCHANGED vars
  BY <1>11, SameVersions DEF vars
<1>12. QED
  BY <1>1, <1>2, <1>3, <1>4, <1>5, <1>6, <1>7, <1>8, <1>9, <1>10, <1>11,
     EditKeepsFresh, PublishKeepsFresh, SolveKeepsFresh, SaveKeepsFresh,
     AnswerKeepsFresh, AckKeepsFresh DEF Next, Service

\* A request is acknowledged only after a result as new as the rules it followed
\* was stored and answered, whatever was requeued, redelivered or cancelled.
THEOREM AcknowledgedIsSolved == Spec => []AckedIsSolved
<1>1. FreshInv => AckedIsSolved
  BY DEF FreshInv
<1>2. QED
  BY <1>1, TypeCorrect, InitQueue, NextQueue, InitFresh, NextFresh, PTL DEF Spec

-----------------------------------------------------------------------------
(* The consumer implements the ledger *)

\* A step that leaves all the ledger can see alone.
LEMMA Stutters ==
    ASSUME UNCHANGED <<database, published, body, asked, acked, discarded>>
    PROVE  UNCHANGED Ledger!vars
BY DEF database, Ledger!vars, LedgerStatus

\* A new request is on the books, waiting, and was not there before.
LEMMA PublishAsks ==
    ASSUME TypeOK, QueueInv, NEW b \in Bodies, PublishRequest(b)
    PROVE  Ledger!Next
<1> USE DEF database
<1> DEFINE n == published + 1
<1>1. /\ published' = n /\ published < MaxRequests
      /\ body' = [body EXCEPT ![n] = b]
      /\ asked' = [asked EXCEPT ![n] = IF b \in Semesters THEN rules[b] ELSE 0]
      /\ UNCHANGED <<rules, saved, acked, discarded>>
  BY DEF PublishRequest
<1>2. published \in Nat /\ MaxRequests \in Nat
  BY Known, SolverServiceAssumption
<1>3. n \in Ledger!Requests /\ n \in Requests
  BY <1>1, <1>2 DEF Requests, Ledger!Requests
<1>4. b \in AnyBody
  BY SolverServiceAssumption DEF AnyBody
<1>5. acked \cup discarded \subseteq 1 .. published
  BY DEF QueueInv, NoRequestLost
<1>6. n \notin acked /\ n \notin discarded
  BY <1>2, <1>5
<1>7. LedgerStatus[n] = "none"
  BY <1>2, <1>3 DEF LedgerStatus
<1>8. LedgerStatus' = [LedgerStatus EXCEPT ![n] = "waiting"]
  <2>1. \A r \in Requests : r > published' <=> (r > published /\ r # n)
    BY <1>1, <1>2, Known
  <2>2. n <= published' /\ ~(n > published')
    BY <1>1, <1>2
  <2>3. ASSUME NEW r \in Requests
        PROVE  LedgerStatus'[r] = IF r = n THEN "waiting" ELSE LedgerStatus[r]
    BY <1>1, <1>6, <2>1, <2>2, <2>3 DEF LedgerStatus
  <2>4. /\ LedgerStatus' = [r \in Requests |-> LedgerStatus'[r]]
        /\ LedgerStatus = [r \in Requests |-> LedgerStatus[r]]
    BY DEF LedgerStatus
  <2>5. QED
    BY <2>3, <2>4
<1>9. Ledger!Ask(n, b)
  BY <1>1, <1>7, <1>8 DEF Ledger!Ask
<1>10. QED
  BY <1>3, <1>4, <1>9 DEF Ledger!Next

\* Storing a result is a solve for a version no older than the stored one.
LEMMA SaveSolves ==
    ASSUME TypeOK, QueueInv, FreshInv, SaveResult
    PROVE  Ledger!Next
<1> USE DEF broker
<1>1. /\ phase = "save" /\ semester \in Semesters
      /\ saved' = [saved EXCEPT ![semester] = version]
      /\ UNCHANGED <<rules, published, body, asked, acked, discarded>>
  BY BatchKnown DEF SaveResult
<1>2. version \in saved[semester] .. rules[semester]
  BY <1>1, VersionsKnown DEF FreshInv
<1>3. LedgerStatus' = LedgerStatus
  BY <1>1 DEF LedgerStatus
<1>4. Ledger!Solve(semester, version)
  BY <1>1, <1>2, <1>3 DEF Ledger!Solve
<1>5. QED
  BY <1>1, <1>2, <1>4 DEF Ledger!Next

\* A request that is unsettled stands in the ledger as waiting.
LEMMA UnsettledWaits ==
    ASSUME TypeOK, QueueInv, NEW r \in unacked
    PROVE  /\ r \in Requests /\ r <= published
           /\ r \notin acked /\ r \notin discarded
           /\ LedgerStatus[r] = "waiting"
<1>1. r \in Requests /\ r \in 1 .. published /\ r \notin acked /\ r \notin discarded
  BY Known DEF QueueInv, NoRequestLost
<1>2. ~(r > published) /\ r <= published
  BY <1>1, Known
<1>3. QED
  BY <1>1, <1>2 DEF LedgerStatus

\* An acknowledgement closes a request whose result is stored.
LEMMA AckCloses ==
    ASSUME TypeOK, QueueInv, FreshInv, NEW i \in DOMAIN batch, AckMessage(i)
    PROVE  Ledger!Next
<1> USE DEF database
<1> DEFINE r == batch[i].req
<1>1. unacked = {r} /\ body[r] = semester /\ semester \in Semesters
  BY LiveEndsTask DEF AckMessage
<1>2. /\ phase = "ack" /\ i \in Solving
      /\ acked' = acked \cup {r}
      /\ UNCHANGED <<rules, saved, published, body, asked, discarded>>
  BY DEF AckMessage, IsNext, Solving, MessagesFrom, TypeOK
<1>3. saved[body[r]] >= asked[r]
  BY <1>1, <1>2 DEF FreshInv
<1>4. /\ r \in Requests /\ r <= published
      /\ LedgerStatus[r] = "waiting"
  BY <1>1, UnsettledWaits
<1>5. LedgerStatus' = [LedgerStatus EXCEPT ![r] = "closed"]
  <2>1. ~(r > published)
    BY <1>4, Known
  <2>2. QED
    BY <1>2, <1>4, <2>1 DEF LedgerStatus
<1>6. Ledger!Close(r)
  BY <1>1, <1>2, <1>3, <1>4, <1>5 DEF Ledger!Close
<1>7. QED
  BY <1>4, <1>6 DEF Ledger!Next, Ledger!Requests, Requests

\* A refusal discards a request that names no semester, or has no effect.
LEMMA RefuseDiscards ==
    ASSUME TypeOK, QueueInv, RefuseRequest
    PROVE  Ledger!Next \/ UNCHANGED Ledger!vars
<1> USE DEF database
<1> DEFINE d == Head(inbox)
<1> DEFINE r == d.req
<1>1. body[r] = BadJson /\ UNCHANGED <<rules, saved, published, body, asked, acked>>
  BY DEF RefuseRequest
<1>2. CASE ~Live(d)
  BY <1>1, <1>2, Stutters DEF RefuseRequest
<1>3. CASE Live(d)
  <2>1. discarded' = discarded \cup {r} /\ r \in unacked
    BY <1>3 DEF RefuseRequest, Live
  <2>2. /\ r \in Requests /\ r <= published /\ r \notin acked
        /\ LedgerStatus[r] = "waiting"
    BY <2>1, UnsettledWaits
  <2>3. ~(r > published)
    BY <2>2, Known
  <2>4. LedgerStatus' = [LedgerStatus EXCEPT ![r] = "discarded"]
    BY <1>1, <2>1, <2>2, <2>3 DEF LedgerStatus
  <2>5. body[r] \notin Semesters
    BY <1>1, SolverServiceAssumption
  <2>6. Ledger!Discard(r)
    BY <1>1, <2>2, <2>4, <2>5 DEF Ledger!Discard
  <2>7. QED
    BY <2>2, <2>6 DEF Ledger!Next, Ledger!Requests, Requests
<1>4. QED
  BY <1>2, <1>3

\* The ledger is empty at the start.
LEMMA InitLedger == Init => Ledger!Init
<1> SUFFICES ASSUME Init PROVE Ledger!Init
  OBVIOUS
<1>1. /\ rules = [s \in Semesters |-> 0]
      /\ saved = [s \in Semesters |-> 0]
      /\ asked = [r \in Requests |-> 0]
      /\ body \in [Requests -> AnyBody]
  BY DEF Init, AnyBody
<1>2. \A r \in Requests : r > published
  BY SolverServiceAssumption DEF Init, Requests
<1>3. LedgerStatus = [r \in Requests |-> "none"]
  BY <1>2 DEF LedgerStatus
<1>4. Requests = Ledger!Requests
  BY DEF Requests, Ledger!Requests
<1>5. QED
  BY <1>1, <1>3, <1>4 DEF Ledger!Init

\* Every step of the consumer is a step of the ledger or invisible to it.
LEMMA NextLedger ==
    TypeOK /\ QueueInv /\ FreshInv /\ [Next]_vars => [Ledger!Next]_(Ledger!vars)
<1> SUFFICES ASSUME TypeOK, QueueInv, FreshInv, [Next]_vars
             PROVE  Ledger!Next \/ UNCHANGED Ledger!vars
  OBVIOUS
<1> USE DEF broker, task, memory
<1>1. ASSUME NEW s \in Semesters, EditRules(s) PROVE Ledger!Next
  <2>1. /\ rules' = [rules EXCEPT ![s] = @ + 1]
        /\ UNCHANGED <<saved, published, body, asked, acked, discarded>>
    BY <1>1 DEF EditRules
  <2>2. Ledger!Edit(s)
    BY <2>1 DEF Ledger!Edit, LedgerStatus
  <2>3. QED
    BY <2>2 DEF Ledger!Next
<1>2. ASSUME NEW r \in Requests, Deliver(r) PROVE UNCHANGED Ledger!vars
  BY <1>2, Stutters DEF Deliver
<1>3. CASE BufferRequest \/ FlushBatch
  BY <1>3, Stutters DEF BufferRequest, FlushBatch, Arrive
<1>4. CASE Tick
  BY <1>4, Stutters DEF Tick
<1>5. CASE TakeBatch
  BY <1>5, Stutters DEF TakeBatch
<1>6. ASSUME NEW s \in Semesters, SolveSemester(s) PROVE UNCHANGED Ledger!vars
  BY <1>6, Stutters DEF SolveSemester
<1>7. CASE PublishResponse
  BY <1>7, Stutters DEF PublishResponse
<1>8. ASSUME NEW i \in DOMAIN batch,
             \/ AckStale(i) \/ AckRaises(i)
             \/ RejectMessage(i) \/ RejectStale(i) \/ RejectRaises(i)
      PROVE  UNCHANGED Ledger!vars
  BY <1>8, Stutters
     DEF AckStale, AckRaises, RejectMessage, RejectStale, RejectRaises
<1>9. CASE SolveFails
  BY <1>9, Stutters DEF SolveFails
<1>10. CASE DropConnection
  BY <1>10, Stutters DEF DropConnection
<1>11. CASE Crash
  BY <1>11, Stutters DEF Crash
<1>12. CASE UNCHANGED vars
  BY <1>12, Stutters DEF vars
<1>13. QED
  BY <1>1, <1>2, <1>3, <1>4, <1>5, <1>6, <1>7, <1>8, <1>9, <1>10, <1>11, <1>12,
     PublishAsks, SaveSolves, AckCloses, RefuseDiscards DEF Next, Service

\* The consumer, with its batch, timer, lost connections and crashes, implements
\* the ledger: nothing is closed unsolved, and no stored result goes back.
THEOREM ImplementsLedger == Spec => KeepsLedger
BY TypeCorrect, InitQueue, NextQueue, InitFresh, NextFresh,
   InitLedger, NextLedger, PTL DEF Spec, KeepsLedger, Ledger!Spec

-----------------------------------------------------------------------------
(* How often a request is answered *)

\* Along the line of deliveries the connections get newer.
NewerBehind ==
    /\ \A d \in DeliveriesOf(batch) :
          \A e \in DeliveriesOf(pending_batch) \cup DeliveriesOf(inbox) : d.conn < e.conn
    /\ \A d \in DeliveriesOf(pending_batch) :
          \A e \in DeliveriesOf(inbox) : d.conn < e.conn
    /\ \A i, j \in DOMAIN inbox : i < j => inbox[i].conn < inbox[j].conn

\* Answers to r so far.
Answered(r) == Len(answers[r])

\* What the task has still to answer.
Unanswered ==
    IF phase \in {"solve", "save", "publish"} THEN DeliveriesOf(batch) ELSE {}

AnswerInv ==
    /\ conn = drops + crashes
    /\ NewerBehind
    /\ \A r \in Requests : Answered(r) <= conn + 1
    /\ \A r \in Requests : r \in ready \/ r > published => Answered(r) <= conn
    /\ \A d \in DeliveriesOf(inbox) \cup DeliveriesOf(pending_batch) \cup Unanswered :
          Answered(d.req) <= d.conn
    /\ phase = "ack" => \A d \in DeliveriesOf(batch) : Answered(d.req) <= d.conn + 1
    /\ phase = "reject" => \A d \in DeliveriesOf(batch) : Answered(d.req) <= conn

-----------------------------------------------------------------------------
(* What the invariant is about *)

\* Everything held is of a request that was published, on a connection that was
\* opened; of a delivery that is not live, on one that has gone.
LEMMA HeldKnown ==
    ASSUME TypeOK, QueueInv
    PROVE  /\ DeliveriesOf(inbox) \subseteq Held
           /\ DeliveriesOf(pending_batch) \subseteq Held
           /\ DeliveriesOf(batch) \subseteq Held
           /\ \A d \in Held : /\ d.req \in Requests /\ d.conn \in Nat
                              /\ d.req <= published
                              /\ d.conn <= conn
                              /\ d.req \notin unacked => d.conn < conn
           /\ \A r \in Requests : Answered(r) \in Nat
           /\ conn \in Nat
<1>1. /\ DeliveriesOf(inbox) \subseteq Held
      /\ DeliveriesOf(pending_batch) \subseteq Held
      /\ DeliveriesOf(batch) \subseteq Held
  BY DEF Held
<1>2. \A d \in Held : d.req \in Requests /\ d.conn \in Nat
  BY Known DEF Deliveries
<1>3. \A d \in Held : d.req \in 1 .. published
  <2>1. InFlight \subseteq 1 .. published
    BY DEF QueueInv, HeadOfQueue, NoRequestLost
  <2>2. QED
    BY <2>1 DEF InFlight
<1>4. \A d \in Held : d.conn <= conn /\ (d.req \notin unacked => d.conn < conn)
  BY <1>2, Known DEF QueueInv, CurrentIsLive
<1>5. \A r \in Requests : Answered(r) \in Nat
  BY VersionsKnown DEF Answered
<1>6. QED
  BY <1>1, <1>2, <1>3, <1>4, <1>5, Known

\* A step that answers nothing, leaves the line, and lets the task go no further
\* than to the answer.
LEMMA SameAnswers ==
    ASSUME AnswerInv,
           UNCHANGED <<published, ready, conn, answers, inbox, pending_batch, batch,
                       drops, crashes>>,
           \/ phase' = phase
           \/ phase \in {"solve", "save", "publish"} /\ phase' \in {"save", "publish"}
           \/ phase' \in {"idle", "sleeping"}
    PROVE  AnswerInv'
<1>1. NewerBehind'
  BY DEF AnswerInv, NewerBehind, DeliveriesOf
<1>2. Unanswered' \subseteq Unanswered
  BY DEF Unanswered, DeliveriesOf
<1>3. QED
  BY <1>1, <1>2 DEF AnswerInv, Answered, DeliveriesOf

\* The task lets go of its batch.
LEMMA BatchForgotten ==
    ASSUME AnswerInv,
           UNCHANGED <<published, ready, conn, answers, inbox, pending_batch,
                       drops, crashes>>,
           batch' = <<>>, phase' = "idle"
    PROVE  AnswerInv'
<1>1. DeliveriesOf(batch)' = {}
  BY DEF DeliveriesOf
<1>2. NewerBehind'
  BY <1>1 DEF AnswerInv, NewerBehind, DeliveriesOf
<1>3. Unanswered' = {}
  BY DEF Unanswered
<1>4. QED
  BY <1>1, <1>2, <1>3 DEF AnswerInv, Answered, DeliveriesOf

-----------------------------------------------------------------------------
(* Every action keeps it *)

\* Nobody has been answered at the start.
LEMMA InitAnswers == Init => AnswerInv
<1> SUFFICES ASSUME Init PROVE AnswerInv
  OBVIOUS
<1>1. DeliveriesOf(inbox) = {} /\ DeliveriesOf(pending_batch) = {} /\ DeliveriesOf(batch) = {}
  BY DEF Init, DeliveriesOf
<1>2. NewerBehind
  BY <1>1 DEF NewerBehind, Init
<1>3. \A r \in Requests : Answered(r) = 0
  BY DEF Init, Answered
<1>4. conn = 0 /\ drops = 0 /\ crashes = 0 /\ Unanswered = {} /\ phase = "idle"
  BY DEF Init, Unanswered
<1>5. QED
  BY <1>1, <1>2, <1>3, <1>4 DEF AnswerInv

\* A request published now has not been answered.
LEMMA PublishKeepsAnswers ==
    ASSUME TypeOK, QueueInv, AnswerInv, NEW b \in Bodies, PublishRequest(b)
    PROVE  AnswerInv'
<1> USE DEF task, memory, bounds
<1>1. /\ published' = published + 1 /\ ready' = ready \cup {published + 1}
      /\ UNCHANGED <<conn, answers, inbox, pending_batch, batch, phase, drops, crashes>>
  BY DEF PublishRequest
<1>2. published \in Nat /\ Requests \subseteq Nat
  BY Known
<1>3. \A r \in Requests : r \in ready' \/ r > published' => r \in ready \/ r > published
  BY <1>1, <1>2
<1>4. NewerBehind'
  BY <1>1 DEF AnswerInv, NewerBehind, DeliveriesOf
<1>5. Unanswered' = Unanswered
  BY <1>1 DEF Unanswered, DeliveriesOf
<1>6. QED
  BY <1>1, <1>3, <1>4, <1>5 DEF AnswerInv, Answered, DeliveriesOf

\* A delivery comes on the connection there is, and everything held is older.
LEMMA DeliverKeepsAnswers ==
    ASSUME TypeOK, QueueInv, AnswerInv, NEW r \in Requests, Deliver(r)
    PROVE  AnswerInv'
<1> USE DEF task, bounds
<1> DEFINE d == [req |-> r, conn |-> conn]
<1>1. /\ unacked = {} /\ r \in ready /\ ready' \subseteq ready
      /\ inbox' = Append(inbox, d)
      /\ UNCHANGED <<published, conn, answers, pending_batch, batch, phase, drops, crashes>>
  BY WindowFull DEF Deliver
<1>2. d \in Deliveries /\ inbox \in Seq(Deliveries)
  BY Known DEF Deliveries
<1>3. /\ DOMAIN inbox' = 1 .. Len(inbox) + 1 /\ Len(inbox) \in Nat
      /\ DOMAIN inbox = 1 .. Len(inbox)
      /\ \A i \in 1 .. Len(inbox) : inbox'[i] = inbox[i]
      /\ inbox'[Len(inbox) + 1] = d
      /\ DeliveriesOf(inbox') = DeliveriesOf(inbox) \cup {d}
  BY <1>1, <1>2, Appended
<1>4. \A e \in Held : e.conn < conn
  BY <1>1, HeldKnown
<1>5. NewerBehind'
  <2>1. \A i \in DOMAIN inbox : inbox[i] \in Held
    BY DEF Held, DeliveriesOf
  <2>2. \A i, j \in DOMAIN inbox' : i < j => inbox'[i].conn < inbox'[j].conn
    <3> SUFFICES ASSUME NEW i \in DOMAIN inbox', NEW j \in DOMAIN inbox', i < j
                 PROVE  inbox'[i].conn < inbox'[j].conn
      OBVIOUS
    <3>1. i \in DOMAIN inbox
      BY <1>3
    <3>2. CASE j \in DOMAIN inbox
      BY <1>3, <3>1, <3>2 DEF AnswerInv, NewerBehind
    <3>3. CASE j = Len(inbox) + 1
      BY <1>3, <1>4, <2>1, <3>1, <3>3
    <3>4. QED
      BY <1>3, <3>2, <3>3
  <2>3. DeliveriesOf(inbox)' = DeliveriesOf(inbox) \cup {d}
    BY <1>3 DEF DeliveriesOf
  <2>4. QED
    BY <1>1, <1>4, <2>2, <2>3, HeldKnown DEF AnswerInv, NewerBehind, DeliveriesOf
<1>6. Unanswered' = Unanswered
  BY <1>1 DEF Unanswered, DeliveriesOf
<1>7. Answered(r) <= conn
  BY <1>1 DEF AnswerInv
<1>8. DeliveriesOf(inbox)' = DeliveriesOf(inbox) \cup {d} /\ d.req = r /\ d.conn = conn
  BY <1>3 DEF DeliveriesOf
<1> HIDE DEF d
<1>9. QED
  BY <1>1, <1>5, <1>6, <1>7, <1>8 DEF AnswerInv, Answered, DeliveriesOf

\* The oldest delivery in the iterator joins the pending batch.
LEMMA ArriveKeepsAnswers ==
    ASSUME TypeOK, QueueInv, AnswerInv, Arrive, phase' \in {"sleeping", "idle"}
    PROVE  AnswerInv'
<1> USE DEF broker, bounds
<1> DEFINE d == Head(inbox)
<1>1. /\ inbox # <<>> /\ inbox' = Tail(inbox)
      /\ pending_batch' = Append(pending_batch, d) /\ batch' = <<>>
      /\ UNCHANGED <<published, ready, conn, answers, drops, crashes>>
  BY DEF Arrive, NoTask
<1>2. inbox \in Seq(Deliveries) /\ pending_batch \in Seq(Deliveries)
  BY Known
<1>3. /\ d \in Deliveries /\ d = inbox[1] /\ Len(inbox) \in Nat \ {0}
      /\ DOMAIN inbox = 1 .. Len(inbox) /\ DOMAIN inbox' = 1 .. Len(inbox) - 1
      /\ \A i \in 1 .. Len(inbox) - 1 : inbox'[i] = inbox[i + 1]
      /\ d \in DeliveriesOf(inbox) /\ DeliveriesOf(inbox') \subseteq DeliveriesOf(inbox)
  BY <1>1, <1>2, Dequeued
<1>4. DeliveriesOf(pending_batch') = DeliveriesOf(pending_batch) \cup {d}
  BY <1>1, <1>2, <1>3, Appended
<1>5. \A e \in DeliveriesOf(inbox') : d.conn < e.conn
  <2> SUFFICES ASSUME NEW k \in DOMAIN inbox' PROVE d.conn < inbox'[k].conn
    BY DEF DeliveriesOf
  <2>1. /\ 1 \in DOMAIN inbox /\ k + 1 \in DOMAIN inbox /\ 1 < k + 1
        /\ inbox'[k] = inbox[k + 1]
    BY <1>3
  <2>2. QED
    BY <1>3, <2>1 DEF AnswerInv, NewerBehind
<1>6. DeliveriesOf(batch') = {} /\ Unanswered' = {}
  BY <1>1 DEF DeliveriesOf, Unanswered
<1>7. \A i, j \in DOMAIN inbox' : i < j => inbox'[i].conn < inbox'[j].conn
  <2> SUFFICES ASSUME NEW i \in DOMAIN inbox', NEW j \in DOMAIN inbox', i < j
               PROVE  inbox'[i].conn < inbox'[j].conn
    OBVIOUS
  <2>1. /\ i + 1 \in DOMAIN inbox /\ j + 1 \in DOMAIN inbox /\ i + 1 < j + 1
        /\ inbox'[i] = inbox[i + 1] /\ inbox'[j] = inbox[j + 1]
    BY <1>3
  <2>2. QED
    BY <2>1 DEF AnswerInv, NewerBehind
<1>8. /\ DeliveriesOf(inbox)' = DeliveriesOf(inbox')
      /\ DeliveriesOf(pending_batch)' = DeliveriesOf(pending_batch')
      /\ DeliveriesOf(batch)' = DeliveriesOf(batch')
  BY DEF DeliveriesOf
<1> HIDE DEF d
<1>9. NewerBehind'
  BY <1>3, <1>4, <1>5, <1>6, <1>7, <1>8 DEF AnswerInv, NewerBehind
<1>10. QED
  BY <1>1, <1>3, <1>4, <1>6, <1>8, <1>9 DEF AnswerInv, Answered

\* A delivery that is refused leaves the line.
LEMMA RefuseKeepsAnswers ==
    ASSUME TypeOK, QueueInv, AnswerInv, RefuseRequest
    PROVE  AnswerInv'
<1> USE DEF task, bounds
<1>1. /\ inbox # <<>> /\ inbox' = Tail(inbox)
      /\ UNCHANGED <<published, ready, conn, answers, pending_batch, batch, phase,
                     drops, crashes>>
  BY DEF RefuseRequest
<1>2. inbox \in Seq(Deliveries)
  BY Known
<1>3. /\ Len(inbox) \in Nat \ {0}
      /\ DOMAIN inbox = 1 .. Len(inbox) /\ DOMAIN inbox' = 1 .. Len(inbox) - 1
      /\ \A i \in 1 .. Len(inbox) - 1 : inbox'[i] = inbox[i + 1]
      /\ DeliveriesOf(inbox') \subseteq DeliveriesOf(inbox)
  BY <1>1, <1>2, Dequeued
<1>4. \A i, j \in DOMAIN inbox' : i < j => inbox'[i].conn < inbox'[j].conn
  <2> SUFFICES ASSUME NEW i \in DOMAIN inbox', NEW j \in DOMAIN inbox', i < j
               PROVE  inbox'[i].conn < inbox'[j].conn
    OBVIOUS
  <2>1. /\ i + 1 \in DOMAIN inbox /\ j + 1 \in DOMAIN inbox /\ i + 1 < j + 1
        /\ inbox'[i] = inbox[i + 1] /\ inbox'[j] = inbox[j + 1]
    BY <1>3
  <2>2. QED
    BY <2>1 DEF AnswerInv, NewerBehind
<1>5. /\ DeliveriesOf(inbox)' = DeliveriesOf(inbox')
      /\ DeliveriesOf(pending_batch)' = DeliveriesOf(pending_batch)
      /\ DeliveriesOf(batch)' = DeliveriesOf(batch)
      /\ Unanswered' = Unanswered
  BY <1>1 DEF DeliveriesOf, Unanswered
<1>6. NewerBehind'
  BY <1>3, <1>4, <1>5 DEF AnswerInv, NewerBehind
<1>7. QED
  BY <1>1, <1>3, <1>5, <1>6 DEF AnswerInv, Answered

\* The pending batch becomes the batch, or is forgotten.
LEMMA TakeKeepsAnswers ==
    ASSUME AnswerInv, TakeBatch
    PROVE  AnswerInv'
<1> USE DEF broker, bounds
<1>1. /\ pending_batch' = <<>> /\ (batch' = <<>> \/ batch' = pending_batch)
      /\ phase' \in {"idle", "solve"}
      /\ UNCHANGED <<published, ready, conn, answers, inbox, drops, crashes>>
  BY DEF TakeBatch
<1>2. /\ DeliveriesOf(inbox)' = DeliveriesOf(inbox)
      /\ DeliveriesOf(pending_batch)' = {}
      /\ DeliveriesOf(batch)' \subseteq DeliveriesOf(pending_batch)
      /\ Unanswered' \subseteq DeliveriesOf(pending_batch)
  BY <1>1 DEF DeliveriesOf, Unanswered
<1>3. NewerBehind'
  BY <1>1, <1>2 DEF AnswerInv, NewerBehind
<1>4. QED
  BY <1>1, <1>2, <1>3 DEF AnswerInv, Answered

\* Only what is in the batch is answered, once more, and what is held or queued
\* of it besides is newer.
LEMMA AnswerKeepsAnswers ==
    ASSUME TypeOK, QueueInv, AnswerInv, PublishResponse
    PROVE  AnswerInv'
<1> USE DEF broker, memory, bounds
<1>1. /\ phase = "publish" /\ phase' = "ack"
      /\ UNCHANGED <<published, ready, unacked, conn, inbox, pending_batch, batch,
                     drops, crashes>>
  BY DEF PublishResponse
<1>2. /\ DeliveriesOf(inbox)' = DeliveriesOf(inbox)
      /\ DeliveriesOf(pending_batch)' = DeliveriesOf(pending_batch)
      /\ DeliveriesOf(batch)' = DeliveriesOf(batch)
      /\ Unanswered = DeliveriesOf(batch) /\ Unanswered' = {}
  BY <1>1 DEF DeliveriesOf, Unanswered
<1>3. NewerBehind'
  BY <1>1, <1>2 DEF AnswerInv, NewerBehind
<1>4. \A r \in Requests :
         \/ Answered(r)' = Answered(r)
         \/ Answered(r)' = Answered(r) + 1 /\ \E d \in DeliveriesOf(batch) : d.req = r
  <2> SUFFICES ASSUME NEW r \in Requests
               PROVE  \/ Answered(r)' = Answered(r)
                      \/ /\ Answered(r)' = Answered(r) + 1
                         /\ \E d \in DeliveriesOf(batch) : d.req = r
    OBVIOUS
  <2>1. answers[r] \in Seq(Nat) /\ version \in Nat
    BY VersionsKnown
  <2>2. CASE \E i \in MessagesFrom(1) : batch[i].req = r
    <3>1. answers'[r] = Append(answers[r], version)
      BY <2>2 DEF PublishResponse
    <3>2. \E d \in DeliveriesOf(batch) : d.req = r
      BY <2>2 DEF MessagesFrom, DeliveriesOf
    <3>3. QED
      BY <2>1, <3>1, <3>2 DEF Answered
  <2>3. CASE ~ \E i \in MessagesFrom(1) : batch[i].req = r
    BY <2>3 DEF PublishResponse, Answered
  <2>4. QED
    BY <2>2, <2>3
<1>5. \A d \in DeliveriesOf(batch) : d.req \in Requests /\ d.conn \in Nat /\ d.conn <= conn
  BY HeldKnown
<1>6. \A r \in Requests : \A d \in DeliveriesOf(batch) :
         d.req = r => Answered(r)' <= d.conn + 1
  <2> SUFFICES ASSUME NEW d \in DeliveriesOf(batch)
               PROVE  Answered(d.req)' <= d.conn + 1
    OBVIOUS
  <2>1. Answered(d.req) <= d.conn /\ Answered(d.req) \in Nat
    BY <1>2, <1>5, HeldKnown DEF AnswerInv
  <2>2. QED
    BY <1>4, <1>5, <2>1
<1>7. \A r \in Requests : Answered(r)' <= conn + 1
  BY <1>4, <1>5, <1>6, HeldKnown DEF AnswerInv
<1>8. \A r \in Requests : r \in ready \/ r > published => Answered(r)' <= conn
  <2> SUFFICES ASSUME NEW r \in Requests, r \in ready \/ r > published
               PROVE  Answered(r)' <= conn
    OBVIOUS
  <2>1. CASE \E d \in DeliveriesOf(batch) : d.req = r
    <3>1. PICK d \in DeliveriesOf(batch) : d.req = r
      BY <2>1
    <3>2. r <= published /\ published \in Nat /\ r \in Nat
      BY <3>1, HeldKnown, Known
    <3>3. r \notin unacked
      BY <3>2 DEF QueueInv, NoRequestLost
    <3>4. d.conn < conn /\ d.conn \in Nat /\ conn \in Nat
      BY <3>1, <3>3, HeldKnown
    <3>5. Answered(r)' <= d.conn + 1 /\ Answered(r) \in Nat
      BY <1>6, <3>1, HeldKnown
    <3>6. Answered(r)' \in Nat
      BY <1>4, <3>5
    <3>7. QED
      BY <3>4, <3>5, <3>6
  <2>2. CASE ~ \E d \in DeliveriesOf(batch) : d.req = r
    BY <1>4, <2>2 DEF AnswerInv
  <2>3. QED
    BY <2>1, <2>2
<1>9. \A e \in DeliveriesOf(inbox) \cup DeliveriesOf(pending_batch) :
         Answered(e.req)' <= e.conn
  <2> SUFFICES ASSUME NEW e \in DeliveriesOf(inbox) \cup DeliveriesOf(pending_batch)
               PROVE  Answered(e.req)' <= e.conn
    OBVIOUS
  <2>1. e.req \in Requests /\ e.conn \in Nat /\ Answered(e.req) \in Nat
    BY HeldKnown
  <2>2. CASE \E d \in DeliveriesOf(batch) : d.req = e.req
    <3>1. PICK d \in DeliveriesOf(batch) : d.req = e.req
      BY <2>2
    <3>2. d.conn < e.conn /\ d.conn \in Nat
      BY <3>1, <1>5 DEF AnswerInv, NewerBehind
    <3>3. Answered(e.req)' <= d.conn + 1
      BY <1>6, <2>1, <3>1
    <3>4. Answered(e.req)' \in Nat
      BY <1>4, <2>1
    <3>5. QED
      BY <2>1, <3>2, <3>3, <3>4
  <2>3. CASE ~ \E d \in DeliveriesOf(batch) : d.req = e.req
    BY <1>4, <2>1, <2>3 DEF AnswerInv
  <2>4. QED
    BY <2>2, <2>3
<1>10. \A d \in DeliveriesOf(batch) : Answered(d.req)' <= d.conn + 1
  BY <1>5, <1>6
<1>11. conn' = drops' + crashes'
  BY <1>1 DEF AnswerInv
<1>12. /\ \A r \in Requests : Answered(r)' <= conn' + 1
       /\ \A r \in Requests : r \in ready' \/ r > published' => Answered(r)' <= conn'
       /\ \A d \in DeliveriesOf(inbox)' \cup DeliveriesOf(pending_batch)' \cup Unanswered' :
             Answered(d.req)' <= d.conn
       /\ \A d \in DeliveriesOf(batch)' : Answered(d.req)' <= d.conn + 1
  BY <1>1, <1>2, <1>7, <1>8, <1>9, <1>10
<1>13. QED
  BY <1>1, <1>3, <1>11, <1>12 DEF AnswerInv, Answered

\* After an error nothing has been answered that was not before.
LEMMA FailKeepsAnswers ==
    ASSUME TypeOK, QueueInv, AnswerInv, SolveFails
    PROVE  AnswerInv'
<1> USE DEF broker, memory
<1>1. /\ phase \in {"save", "publish"} /\ phase' = "reject"
      /\ UNCHANGED <<published, ready, conn, answers, inbox, pending_batch, batch,
                     drops, crashes>>
  BY DEF SolveFails
<1>2. /\ DeliveriesOf(inbox)' = DeliveriesOf(inbox)
      /\ DeliveriesOf(pending_batch)' = DeliveriesOf(pending_batch)
      /\ DeliveriesOf(batch)' = DeliveriesOf(batch)
      /\ Unanswered = DeliveriesOf(batch) /\ Unanswered' = {}
  BY <1>1 DEF DeliveriesOf, Unanswered
<1>3. NewerBehind'
  BY <1>1, <1>2 DEF AnswerInv, NewerBehind
<1>4. \A d \in DeliveriesOf(batch) : Answered(d.req) <= conn
  <2> SUFFICES ASSUME NEW d \in DeliveriesOf(batch) PROVE Answered(d.req) <= conn
    OBVIOUS
  <2>1. Answered(d.req) <= d.conn
    BY <1>2 DEF AnswerInv
  <2>2. Answered(d.req) \in Nat /\ d.conn \in Nat /\ conn \in Nat /\ d.conn <= conn
    BY HeldKnown
  <2>3. QED
    BY <2>1, <2>2
<1>5. QED
  BY <1>1, <1>2, <1>3, <1>4 DEF AnswerInv, Answered

\* So it is when an acknowledgement raises: the message is stale, hence of an
\* older connection than the one that would take the others back.
LEMMA RaiseKeepsAnswers ==
    ASSUME TypeOK, QueueInv, AnswerInv, NEW i \in DOMAIN batch, AckRaises(i)
    PROVE  AnswerInv'
<1> USE DEF broker, memory, bounds
<1>1. /\ phase = "ack" /\ phase' = "reject" /\ ~Live(batch[i])
      /\ UNCHANGED <<published, ready, conn, answers, inbox, pending_batch, batch,
                     drops, crashes>>
  BY DEF AckRaises
<1>2. /\ DeliveriesOf(inbox)' = DeliveriesOf(inbox)
      /\ DeliveriesOf(pending_batch)' = DeliveriesOf(pending_batch)
      /\ DeliveriesOf(batch)' = DeliveriesOf(batch)
      /\ Unanswered' = {}
  BY <1>1 DEF DeliveriesOf, Unanswered
<1>3. NewerBehind'
  BY <1>1, <1>2 DEF AnswerInv, NewerBehind
<1>4. batch[i] \in DeliveriesOf(batch) /\ batch[i] \in Held
  BY DEF DeliveriesOf, Held
<1>5. batch[i].conn < conn
  BY <1>1, <1>4, HeldKnown DEF Live
<1>6. \A d \in DeliveriesOf(batch) : d.req = batch[i].req
  BY <1>4 DEF QueueInv, SingleFlight, InFlight, Held
<1>7. Answered(batch[i].req) <= conn
  <2>1. Answered(batch[i].req) <= batch[i].conn + 1
    BY <1>1, <1>4 DEF AnswerInv
  <2>2. Answered(batch[i].req) \in Nat /\ batch[i].conn \in Nat /\ conn \in Nat
    BY <1>4, HeldKnown
  <2>3. QED
    BY <1>5, <2>1, <2>2
<1>8. QED
  BY <1>1, <1>2, <1>3, <1>6, <1>7 DEF AnswerInv, Answered

\* A message without effect: the task goes on, or ends; its batch names one
\* semester only.
LEMMA StaleKeepsAnswers ==
    ASSUME TypeOK, QueueInv, AnswerInv,
           NEW i \in DOMAIN batch, AckStale(i) \/ RejectStale(i)
    PROVE  AnswerInv'
<1> USE DEF broker, memory, bounds
<1>1. /\ Settled(i) /\ phase \in {"ack", "reject"}
      /\ UNCHANGED <<published, ready, conn, answers, inbox, pending_batch, drops, crashes>>
  BY DEF AckStale, RejectStale
<1>2. todo \ {semester} = {}
  BY <1>1 DEF QueueInv, TaskIsForBatch
<1>3. CASE MessagesFrom(i + 1) # {}
  BY <1>1, <1>3, SameAnswers DEF Settled
<1>4. CASE MessagesFrom(i + 1) = {}
  BY <1>1, <1>2, <1>4, BatchForgotten DEF Settled, NoTask
<1>5. QED
  BY <1>3, <1>4

\* The live message is acknowledged: the task is over.
LEMMA AckKeepsAnswers ==
    ASSUME TypeOK, QueueInv, AnswerInv, NEW i \in DOMAIN batch, AckMessage(i)
    PROVE  AnswerInv'
<1> USE DEF memory, bounds
<1>1. batch' = <<>> /\ phase' = "idle"
  BY LiveEndsTask DEF AckMessage
<1>2. UNCHANGED <<published, ready, conn, answers, inbox, pending_batch, drops, crashes>>
  BY DEF AckMessage
<1>3. QED
  BY <1>1, <1>2, BatchForgotten

\* The live message returns to the queue, to be delivered on this connection.
LEMMA RejectKeepsAnswers ==
    ASSUME TypeOK, QueueInv, AnswerInv, NEW i \in DOMAIN batch, RejectMessage(i)
    PROVE  AnswerInv'
<1> USE DEF memory, bounds
<1>1. inbox = <<>> /\ pending_batch = <<>> /\ batch' = <<>> /\ phase' = "idle"
  BY LiveEndsTask DEF RejectMessage
<1>2. /\ phase = "reject" /\ ready' = ready \cup {batch[i].req}
      /\ UNCHANGED <<published, conn, answers, inbox, pending_batch, drops, crashes>>
  BY DEF RejectMessage
<1>3. Answered(batch[i].req) <= conn
  BY <1>2 DEF AnswerInv, DeliveriesOf
<1>4. /\ DeliveriesOf(inbox)' = {} /\ DeliveriesOf(pending_batch)' = {}
      /\ DeliveriesOf(batch)' = {} /\ Unanswered' = {} /\ DOMAIN inbox' = {}
  BY <1>1, <1>2 DEF DeliveriesOf, Unanswered
<1>5. NewerBehind'
  BY <1>4 DEF NewerBehind
<1>6. QED
  BY <1>1, <1>2, <1>3, <1>4, <1>5 DEF AnswerInv, Answered

\* With a new connection one more answer is allowed.
LEMMA DropKeepsAnswers ==
    ASSUME TypeOK, QueueInv, AnswerInv, DropConnection
    PROVE  AnswerInv'
<1> USE DEF memory, task
<1>1. /\ conn' = conn + 1 /\ drops' = drops + 1
      /\ UNCHANGED <<published, answers, inbox, pending_batch, batch, phase, crashes>>
  BY DEF DropConnection
<1>2. conn \in Nat /\ drops \in Nat /\ crashes \in Nat
  BY SolverServiceAssumption DEF TypeOK
<1>3. \A r \in Requests : Answered(r) \in Nat /\ Answered(r) <= conn + 1
  BY HeldKnown DEF AnswerInv
<1>4. /\ DeliveriesOf(inbox)' = DeliveriesOf(inbox)
      /\ DeliveriesOf(pending_batch)' = DeliveriesOf(pending_batch)
      /\ DeliveriesOf(batch)' = DeliveriesOf(batch)
      /\ Unanswered' = Unanswered
      /\ \A r \in Requests : Answered(r)' = Answered(r)
  BY <1>1 DEF DeliveriesOf, Unanswered, Answered
<1>5. NewerBehind'
  BY <1>1, <1>4 DEF AnswerInv, NewerBehind
<1>6. \A d \in DeliveriesOf(batch) : d.req \in Requests
  BY HeldKnown
<1>7. conn' = drops' + crashes'
  BY <1>1, <1>2 DEF AnswerInv
<1>8. \A r \in Requests : Answered(r)' <= conn'
  BY <1>1, <1>2, <1>3, <1>4
<1>9. \A r \in Requests : Answered(r)' <= conn' + 1
  BY <1>1, <1>2, <1>3, <1>4
<1>10. \A d \in DeliveriesOf(inbox)' \cup DeliveriesOf(pending_batch)' \cup Unanswered' :
          Answered(d.req)' <= d.conn
  BY <1>1, <1>4 DEF AnswerInv, Answered
<1>11. phase' = "ack" => \A d \in DeliveriesOf(batch)' : Answered(d.req)' <= d.conn + 1
  BY <1>1, <1>4 DEF AnswerInv, Answered
<1>12. \A d \in DeliveriesOf(batch)' : Answered(d.req)' <= conn'
  BY <1>4, <1>6, <1>8
<1>13. QED
  BY <1>5, <1>7, <1>8, <1>9, <1>10, <1>11, <1>12 DEF AnswerInv, Answered

\* So with a new process, which holds nothing.
LEMMA CrashKeepsAnswers ==
    ASSUME TypeOK, QueueInv, AnswerInv, Crash
    PROVE  AnswerInv'
<1>1. /\ conn' = conn + 1 /\ crashes' = crashes + 1
      /\ inbox' = <<>> /\ pending_batch' = <<>> /\ batch' = <<>> /\ phase' = "idle"
      /\ UNCHANGED <<published, answers, drops>>
  BY DEF Crash, NoTask
<1>2. conn \in Nat /\ drops \in Nat /\ crashes \in Nat
  BY SolverServiceAssumption DEF TypeOK
<1>3. \A r \in Requests : Answered(r) \in Nat /\ Answered(r) <= conn + 1
  BY HeldKnown DEF AnswerInv
<1>4. /\ DeliveriesOf(inbox)' = {} /\ DeliveriesOf(pending_batch)' = {}
      /\ DeliveriesOf(batch)' = {} /\ Unanswered' = {} /\ DOMAIN inbox' = {}
  BY <1>1 DEF DeliveriesOf, Unanswered
<1>5. NewerBehind'
  BY <1>4 DEF NewerBehind
<1>6. conn' = drops' + crashes'
  BY <1>1, <1>2 DEF AnswerInv
<1>7. \A r \in Requests : Answered(r)' <= conn' /\ Answered(r)' <= conn' + 1
  BY <1>1, <1>2, <1>3 DEF Answered
<1>8. QED
  BY <1>1, <1>4, <1>5, <1>6, <1>7 DEF AnswerInv, Answered

\* Every step keeps the count.
LEMMA NextAnswers == TypeOK /\ QueueInv /\ AnswerInv /\ [Next]_vars => AnswerInv'
<1> SUFFICES ASSUME TypeOK, QueueInv, AnswerInv, [Next]_vars PROVE AnswerInv'
  OBVIOUS
<1> USE DEF broker, memory, task, bounds
<1>1. ASSUME NEW s \in Semesters, EditRules(s) PROVE AnswerInv'
  BY <1>1, SameAnswers DEF EditRules
<1>2. ASSUME NEW s \in Semesters, SolveSemester(s) PROVE AnswerInv'
  BY <1>2, SameAnswers DEF SolveSemester
<1>3. CASE Tick
  BY <1>3, SameAnswers DEF Tick
<1>4. CASE SaveResult
  BY <1>4, SameAnswers DEF SaveResult
<1>5. CASE BufferRequest \/ FlushBatch
  BY <1>5, ArriveKeepsAnswers DEF BufferRequest, FlushBatch
<1>6. ASSUME NEW i \in DOMAIN batch, RejectRaises(i) PROVE AnswerInv'
  BY <1>6, BatchForgotten DEF RejectRaises, NoTask
<1>7. CASE UNCHANGED vars
  BY <1>7, SameAnswers DEF vars
<1>8. QED
  BY <1>1, <1>2, <1>3, <1>4, <1>5, <1>6, <1>7,
     PublishKeepsAnswers, DeliverKeepsAnswers, RefuseKeepsAnswers, TakeKeepsAnswers,
     AnswerKeepsAnswers, FailKeepsAnswers, RaiseKeepsAnswers, StaleKeepsAnswers,
     AckKeepsAnswers, RejectKeepsAnswers, DropKeepsAnswers, CrashKeepsAnswers
     DEF Next, Service

\* The invariant bounds the answers; that an acknowledged request has one is
\* part of AckedIsSolved.
LEMMA AnswersBounded ==
    ASSUME TypeOK, QueueInv, FreshInv, AnswerInv
    PROVE  AnsweredOncePerDelivery
<1> SUFFICES ASSUME NEW r \in Requests
             PROVE  /\ Len(answers[r]) <= 1 + drops + crashes
                    /\ r \in acked => Len(answers[r]) >= 1
  BY DEF AnsweredOncePerDelivery
<1>1. answers[r] \in Seq(Nat) /\ Len(answers[r]) \in Nat
  BY VersionsKnown
<1>2. drops \in Nat /\ crashes \in Nat
  BY SolverServiceAssumption DEF TypeOK
<1>3. Len(answers[r]) <= 1 + drops + crashes
  BY <1>1, <1>2 DEF AnswerInv, Answered
<1>4. r \in acked => \E k \in DOMAIN answers[r] : TRUE
  BY DEF FreshInv, AckedIsSolved
<1>5. r \in acked => Len(answers[r]) >= 1
  BY <1>1, <1>4
<1>6. QED
  BY <1>3, <1>5

\* A request is answered at most once more than connections were lost and the
\* solver restarted, and at least once before it is acknowledged.
THEOREM AnswersAreBounded == Spec => []AnsweredOncePerDelivery
BY AnswersBounded, TypeCorrect, InitQueue, NextQueue, InitFresh, NextFresh,
   InitAnswers, NextAnswers, PTL DEF Spec

-----------------------------------------------------------------------------
(* What is owed is held *)

\* While no connection is lost, whatever is in memory came on the connection
\* there is, and what is unsettled is in memory.
HeldInv ==
    /\ drops = 0
    /\ \A r \in 1 .. published : body[r] \in Bodies
    /\ \A d \in Held : d.conn = conn
    /\ phase \in {"idle", "sleeping"} => batch = <<>>
    /\ NothingLeaks

\* All that is in memory can be settled.
LEMMA HeldIsLive ==
    ASSUME QueueInv, HeldInv
    PROVE  \A d \in Held : Live(d)
BY DEF QueueInv, CurrentIsLive, HeldInv, Live

\* A step that changes nothing of what is held or owed.
LEMMA SameHeld ==
    ASSUME HeldInv,
           UNCHANGED <<published, body, unacked, conn, inbox, pending_batch, batch, drops>>,
           phase' = phase \/ phase' \notin {"idle", "sleeping"}
    PROVE  HeldInv'
<1>1. Held' = Held
  BY DEF Held, DeliveriesOf
<1>2. QED
  BY <1>1 DEF HeldInv, NothingLeaks

\* Memory is emptied and nothing is owed.
LEMMA NothingHeld ==
    ASSUME HeldInv, UNCHANGED <<published, body, drops>>,
           inbox' = <<>>, pending_batch' = <<>>, batch' = <<>>, unacked' = {}
    PROVE  HeldInv'
<1>1. Held' = {}
  BY DEF Held, DeliveriesOf
<1>2. QED
  BY <1>1 DEF HeldInv, NothingLeaks

\* Nothing is owed at the start.
LEMMA InitHeld == Init => HeldInv
<1> SUFFICES ASSUME Init PROVE HeldInv
  OBVIOUS
<1>1. Held = {}
  BY DEF Init, Held, DeliveriesOf
<1>2. 1 .. published = {}
  BY DEF Init
<1>3. QED
  BY <1>1, <1>2 DEF HeldInv, NothingLeaks, Init

\* A new request is in the queue, and memory as it was.
LEMMA PublishKeepsHeld ==
    ASSUME TypeOK, HeldInv, NEW b \in Bodies, PublishRequest(b)
    PROVE  HeldInv'
<1> USE DEF task, memory, bounds
<1>1. /\ published' = published + 1
      /\ body' = [body EXCEPT ![published + 1] = b]
      /\ UNCHANGED <<unacked, conn, inbox, pending_batch, batch, phase, drops>>
  BY DEF PublishRequest
<1>2. published \in Nat /\ Requests \subseteq Nat /\ DOMAIN body = Requests
  BY Known DEF TypeOK
<1>3. published + 1 \in Requests
  BY <1>1, <1>2, SolverServiceAssumption DEF PublishRequest, Requests
<1>4. \A r \in 1 .. published' : body'[r] \in Bodies
  <2> SUFFICES ASSUME NEW r \in 1 .. published' PROVE body'[r] \in Bodies
    OBVIOUS
  <2>1. CASE r = published + 1
    BY <1>1, <1>2, <1>3, <2>1
  <2>2. CASE r \in 1 .. published
    <3>1. body'[r] = body[r]
      BY <1>1, <1>2, <2>2
    <3>2. QED
      BY <2>2, <3>1 DEF HeldInv
  <2>3. QED
    BY <1>1, <1>2, <2>1, <2>2
<1>5. Held' = Held
  BY <1>1 DEF Held, DeliveriesOf
<1>6. QED
  BY <1>1, <1>4, <1>5 DEF HeldInv, NothingLeaks

\* What is delivered goes into the iterator.
LEMMA DeliverKeepsHeld ==
    ASSUME TypeOK, HeldInv, NEW r \in Requests, Deliver(r)
    PROVE  HeldInv'
<1> USE DEF task, bounds
<1> DEFINE d == [req |-> r, conn |-> conn]
<1>1. /\ unacked = {} /\ unacked' = {r}
      /\ inbox' = Append(inbox, d)
      /\ UNCHANGED <<published, body, conn, pending_batch, batch, phase, drops>>
  BY WindowFull DEF Deliver
<1>2. d \in Deliveries /\ inbox \in Seq(Deliveries)
  BY Known DEF Deliveries
<1>3. DeliveriesOf(inbox') = DeliveriesOf(inbox) \cup {d}
  BY <1>1, <1>2, Appended
<1>4. Held' = Held \cup {d}
  BY <1>1, <1>3 DEF Held, DeliveriesOf
<1>5. d.req = r /\ d.conn = conn
  OBVIOUS
<1> HIDE DEF d
<1>6. QED
  BY <1>1, <1>4, <1>5 DEF HeldInv, NothingLeaks

\* A message that arrives is live, hence the only one there is: the batch that
\* is cancelled is empty.
LEMMA ArriveKeepsHeld ==
    ASSUME TypeOK, QueueInv, HeldInv, Arrive
    PROVE  HeldInv'
<1> USE DEF broker, bounds
<1> DEFINE d == Head(inbox)
<1>1. /\ inbox # <<>> /\ inbox' = Tail(inbox)
      /\ pending_batch' = Append(pending_batch, d) /\ batch' = <<>>
      /\ UNCHANGED <<published, body, unacked, conn, drops>>
  BY DEF Arrive, NoTask
<1>2. inbox \in Seq(Deliveries) /\ pending_batch \in Seq(Deliveries)
      /\ batch \in Seq(Deliveries)
  BY Known
<1>3. /\ d \in Deliveries /\ d = inbox[1] /\ Len(inbox) \in Nat \ {0}
      /\ DOMAIN inbox = 1 .. Len(inbox)
      /\ d \in DeliveriesOf(inbox) /\ DeliveriesOf(inbox') \subseteq DeliveriesOf(inbox)
  BY <1>1, <1>2, Dequeued
<1>4. DeliveriesOf(pending_batch') = DeliveriesOf(pending_batch) \cup {d}
  BY <1>1, <1>2, <1>3, Appended
<1>5. d \in Held /\ Live(d)
  BY <1>3, HeldIsLive DEF Held
<1>6. Held' \subseteq Held /\ d \in Held'
  BY <1>1, <1>3, <1>4 DEF Held, DeliveriesOf
<1>7. unacked = {d.req}
  BY <1>5 DEF QueueInv, SingleFlight, InFlight, Live
<1>8. d.conn = conn
  BY <1>5 DEF HeldInv
<1> HIDE DEF d
<1>9. QED
  BY <1>1, <1>6, <1>7, <1>8 DEF HeldInv, NothingLeaks

\* A live message is the only request owed: settling it settles everything.
LEMMA SettleKeepsHeld ==
    ASSUME TypeOK, QueueInv, HeldInv,
           NEW i \in DOMAIN batch, AckMessage(i) \/ RejectMessage(i)
    PROVE  HeldInv'
<1> USE DEF memory, bounds
<1>1. /\ inbox = <<>> /\ pending_batch = <<>> /\ batch' = <<>>
      /\ unacked = {batch[i].req}
  BY LiveEndsTask DEF AckMessage, RejectMessage
<1>2. /\ unacked' = unacked \ {batch[i].req}
      /\ UNCHANGED <<published, body, inbox, pending_batch, drops>>
  BY DEF AckMessage, RejectMessage
<1>3. QED
  BY <1>1, <1>2, NothingHeld

\* So does refusing it, and nothing else is in memory.
LEMMA RefuseKeepsHeld ==
    ASSUME TypeOK, QueueInv, HeldInv, RefuseRequest
    PROVE  HeldInv'
<1> USE DEF task, bounds
<1> DEFINE d == Head(inbox)
<1>1. /\ inbox # <<>> /\ inbox' = Tail(inbox)
      /\ UNCHANGED <<published, body, conn, pending_batch, batch, phase, drops>>
  BY DEF RefuseRequest
<1>2. inbox \in Seq(Deliveries)
  BY Known
<1>3. d \in DeliveriesOf(inbox) /\ DeliveriesOf(inbox') \subseteq DeliveriesOf(inbox)
  BY <1>1, <1>2, Dequeued
<1>4. d \in Held /\ Live(d)
  BY <1>3, HeldIsLive DEF Held
<1>5. unacked = {d.req}
  BY <1>4 DEF QueueInv, SingleFlight, InFlight, Live
<1>6. unacked' = {}
  BY <1>4, <1>5 DEF RefuseRequest
<1>7. Held' \subseteq Held
  BY <1>1, <1>3 DEF Held, DeliveriesOf
<1>8. QED
  BY <1>1, <1>6, <1>7 DEF HeldInv, NothingLeaks

\* A pending batch names a semester, so that none of it is forgotten.
LEMMA TakeKeepsHeld ==
    ASSUME NoSemester \notin Bodies, TypeOK, QueueInv, HeldInv, TakeBatch
    PROVE  HeldInv'
<1> USE DEF broker, bounds
<1> DEFINE named == {body[pending_batch[k].req] : k \in DOMAIN pending_batch}
                        \cap Semesters
<1>1. /\ pending_batch' = <<>>
      /\ batch' = IF named = {} THEN <<>> ELSE pending_batch
      /\ phase' = IF named = {} THEN "idle" ELSE "solve"
      /\ batch = <<>>
      /\ UNCHANGED <<published, body, unacked, conn, inbox, drops>>
  BY DEF TakeBatch, HeldInv
<1>2. \A k \in DOMAIN pending_batch : body[pending_batch[k].req] \in named
  <2> SUFFICES ASSUME NEW k \in DOMAIN pending_batch
               PROVE  body[pending_batch[k].req] \in Semesters
    BY DEF named
  <2>1. pending_batch[k] \in Held
    BY DEF Held, DeliveriesOf
  <2>2. pending_batch[k].req \in 1 .. published
    <3>1. InFlight \subseteq 1 .. published
      BY DEF QueueInv, HeadOfQueue, NoRequestLost
    <3>2. QED
      BY <2>1, <3>1 DEF InFlight
  <2>3. body[pending_batch[k].req] \in Bodies \ {BadJson}
    BY <2>2 DEF HeldInv, QueueInv, TaskIsForBatch
  <2>4. QED
    BY <2>3, SolverServiceAssumption
<1>3. CASE named = {}
  <2>1. DOMAIN pending_batch = {}
    BY <1>2, <1>3
  <2>2. Held' = Held
    BY <1>1, <1>3, <2>1 DEF Held, DeliveriesOf
  <2>3. batch' = <<>>
    BY <1>1, <1>3
  <2>4. QED
    BY <1>1, <2>2, <2>3 DEF HeldInv, NothingLeaks
<1>4. CASE named # {}
  <2>1. batch' = pending_batch /\ phase' = "solve"
    BY <1>1, <1>4
  <2>2. Held' = Held
    BY <1>1, <2>1 DEF Held, DeliveriesOf
  <2>3. QED
    BY <1>1, <2>1, <2>2 DEF HeldInv, NothingLeaks
<1>5. QED
  BY <1>3, <1>4

\* Every step keeps what is owed in memory: nothing there is stale.
LEMMA NextHeld ==
    ASSUME MaxDrops = 0, NoSemester \notin Bodies
    PROVE  TypeOK /\ QueueInv /\ HeldInv /\ [Next]_vars => HeldInv'
<1> SUFFICES ASSUME TypeOK, QueueInv, HeldInv, [Next]_vars PROVE HeldInv'
  OBVIOUS
<1> USE DEF broker, memory, task, bounds
<1>1. ASSUME NEW s \in Semesters, EditRules(s) PROVE HeldInv'
  BY <1>1, SameHeld DEF EditRules
<1>2. ASSUME NEW s \in Semesters, SolveSemester(s) PROVE HeldInv'
  BY <1>2, SameHeld DEF SolveSemester
<1>3. CASE Tick
  BY <1>3, SameHeld DEF Tick
<1>4. CASE SaveResult
  BY <1>4, SameHeld DEF SaveResult
<1>5. CASE PublishResponse
  BY <1>5, SameHeld DEF PublishResponse
<1>6. CASE SolveFails
  BY <1>6, SameHeld DEF SolveFails
<1>7. CASE BufferRequest \/ FlushBatch
  BY <1>7, ArriveKeepsHeld DEF BufferRequest, FlushBatch
<1>8. ASSUME NEW i \in DOMAIN batch
      PROVE  ~AckStale(i) /\ ~AckRaises(i) /\ ~RejectStale(i) /\ ~RejectRaises(i)
  <2>1. batch[i] \in Held
    BY DEF Held, DeliveriesOf
  <2>2. QED
    BY <2>1, HeldIsLive DEF AckStale, AckRaises, RejectStale, RejectRaises
<1>9. ~DropConnection
  BY DEF DropConnection, HeldInv
<1>10. CASE Crash
  BY <1>10, NothingHeld DEF Crash, NoTask
<1>11. CASE UNCHANGED vars
  BY <1>11, SameHeld DEF vars
<1>12. QED
  BY <1>1, <1>2, <1>3, <1>4, <1>5, <1>6, <1>7, <1>8, <1>9, <1>10, <1>11,
     PublishKeepsHeld, DeliverKeepsHeld, RefuseKeepsHeld, TakeKeepsHeld,
     SettleKeepsHeld DEF Next, Service

\* While no connection is lost and every body names a semester or is refused,
\* what the broker waits for is in the service's memory; across errors, crashes
\* and whatever the batching limits are.
THEOREM OwedIsHeld ==
    ASSUME MaxDrops = 0, NoSemester \notin Bodies
    PROVE  Spec => []NothingLeaks
<1>1. HeldInv => NothingLeaks
  BY DEF HeldInv
<1>2. TypeOK /\ QueueInv /\ HeldInv /\ [Next]_vars => HeldInv'
  BY NextHeld
<1>3. QED
  BY <1>1, <1>2, TypeCorrect, InitQueue, NextQueue, InitHeld, PTL DEF Spec
=============================================================================
