--------------------------- MODULE MCBackendParts ---------------------------
(***************************************************************************)
(* One run for the safety of five parts that share no variables: requests  *)
(* for a schedule, the stored constraints, the constraint text pipeline,   *)
(* its live progress, and the notification service.  A behaviour is one of *)
(* the chosen part while the others rest, so that their states add up      *)
(* instead of multiplying; what the parts tell each other is an input that *)
(* each of their modules leaves open.                                      *)
(***************************************************************************)
EXTENDS ScheduleRequests, ReportViews, TextPipeline, ProgressSockets,
        Notifications

VARIABLE part

\* Callers of a request for a schedule, chats and the tabs that ask for a link are
\* interchangeable, and each in one part only.
Symmetry == Permutations(Callers) \cup Permutations(Chats) \cup Permutations(StartRequests)

(* The store: a lecturer in two tabs, two secretaries and the solver, of   *)
(* whom only some start operations in one behaviour.  "friday" is a block, *)
(* "late" a preference.                                                    *)
CONSTANTS ada, t1, t2, s1, s2

MCOwnerOf == (t1 :> ada) @@ (t2 :> ada)
MCRuleLists == {<<"friday">>, <<"late", "friday">>, <<"late">>}
MCFirstRows == {<<NewRow(ada, {"no friday"}, <<"late", "friday">>)>>}

Cast(f) == f @@ [a \in {t1, t2, s1, s2, "developer", "solver"} |-> 0]
MCBudgets == {Cast(t1 :> 2 @@ t2 :> 1), Cast(t1 :> 1 @@ s1 :> 1),
              Cast(s1 :> 1 @@ s2 :> 1), Cast(s1 :> 2 @@ "solver" :> 1),
              Cast(s1 :> 1 @@ "developer" :> 1)}

(* The text pipeline: answers that agree, clash, repeat a day, name a day  *)
(* that does not exist, a time that is none, or an empty slot.             *)
CONSTANTS a, b
Inv(text, confidence) == [text |-> text, confidence |-> confidence]
MCAtomizations == {<<a>>, <<a, b>>, << >>}
MCInversions == {<< >>, <<Inv(a, 1)>>, <<Inv(a, 2), Inv(b, 1)>>}
MCAnswers ==
    {[days |-> << >>, slot |-> NoSlot], [days |-> <<6>>, slot |-> NoSlot],
     [days |-> <<6>>, slot |-> TimeSlot(13, 16)], [days |-> <<1, 2>>, slot |-> TimeSlot(13, 15)],
     [days |-> <<2, 1>>, slot |-> TimeSlot(13, 16)], [days |-> <<1, 1>>, slot |-> TimeSlot(12, 14)],
     [days |-> <<1>>, slot |-> EmptySlot], [days |-> <<1>>, slot |-> TimeSlot(12, 14)],
     [days |-> <<7>>, slot |-> NoSlot], [days |-> <<1>>, slot |-> TimeSlot(10, 10)]}

(* The notification service: links alone, then messages while chats change. *)
CONSTANTS c1, c2, w1, w2, r1, r2, ua, ub, h1, h2, q1, q2, q3, d1
Letter(recipients) == [body |-> TRUE, urls |-> FALSE, recipients |-> recipients]
MCEnvelope ==
    (q1 :> Letter(<<ua, ub, ua>>)) @@ (q2 :> [Letter(<<ua>>) EXCEPT !.urls = TRUE])
    @@ (q3 :> Letter(<< >>)) @@ (d1 :> Letter(<<ub>>))
MCNoticeBudgets ==
    {[queue |-> << >>, direct |-> {}, tokens |-> 2, logins |-> 0, edits |-> 1, seconds |-> 2,
      given |-> {"token"}],
     [queue |-> << >>, direct |-> {}, tokens |-> 2, logins |-> 1, edits |-> 0, seconds |-> 2,
      given |-> {}],
     [queue |-> <<q1, q2>>, direct |-> {d1}, tokens |-> 0, logins |-> 1, edits |-> 1, seconds |-> 0,
      given |-> {"enabled"}],
     [queue |-> <<q3, q1>>, direct |-> {}, tokens |-> 0, logins |-> 0, edits |-> 1, seconds |-> 0,
      given |-> {"chat", "enabled", "mail"}]}

PartsInit ==
    /\ part \in {"requests", "store", "pipeline", "sockets", "notices"}
    /\ Init /\ StoreInit /\ PipelineInit /\ SocketsInit /\ NoticesInit
    /\ part # "store" => /\ left = Cast(s1 :> 1 @@ s2 :> 1)
                         /\ broken = [l \in Lecturers |-> {}]
    /\ part # "notices" => budget.queue = <<q3, q1>>

PartsNext ==
    \/ part = "requests" /\ Next
       /\ UNCHANGED <<part, storeVars, pipelineVars, socketVars, noticeVars>>
    \/ part = "store" /\ StoreNext
       /\ UNCHANGED <<part, vars, pipelineVars, socketVars, noticeVars>>
    \/ part = "pipeline" /\ PipelineNext
       /\ UNCHANGED <<part, vars, storeVars, socketVars, noticeVars>>
    \/ part = "sockets" /\ SocketsNext
       /\ UNCHANGED <<part, vars, storeVars, pipelineVars, noticeVars>>
    \/ part = "notices" /\ NoticesNext
       /\ UNCHANGED <<part, vars, storeVars, pipelineVars, socketVars>>

partsVars == <<part, vars, storeVars, pipelineVars, socketVars, noticeVars>>
PartsSpec == PartsInit /\ [][PartsNext]_partsVars
=============================================================================
