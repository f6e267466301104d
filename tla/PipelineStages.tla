--------------------------- MODULE PipelineStages ---------------------------
(***************************************************************************)
(* What a preview announces while it runs, for whoever follows it over a   *)
(* WebSocket: the stages of ConstraintProcessingPipeline.process, then the *)
(* end (create_constraint_preview), and last the answer to the request.    *)
(*                                                                         *)
(* TextPipeline implements this specification; ProgressSockets tells it to *)
(* the clients.                                                            *)
(***************************************************************************)

VARIABLES
    stage,      \* what was announced last, "none" before the first
    reply       \* the answer to the request, "none" before it

stageVars == <<stage, reply>>

\* After the stages inside its try block the pipeline may stop and report an
\* error, which completes it; outside of it the exception ends the preview.
\* Only the extraction catches whatever its own items raise.
Following(s) ==
    CASE s = "none"                -> {"stage_0", "error"}
      [] s = "stage_0"             -> {"atomization", "complete", "error"}
      [] s = "atomization"         -> {"classification", "complete"}
      [] s = "classification"      -> {"deduplication", "conflict_detection", "complete"}
      [] s = "deduplication"       -> {"conflict_handler", "extraction", "complete"}
      [] s = "conflict_handler"    -> {"extraction", "complete"}
      [] s = "extraction"          -> {"conflict_detection"}
      [] s = "conflict_detection"  -> {"final_deduplication", "complete"}
      [] s = "final_deduplication" -> {"logging", "complete"}
      [] s = "logging"             -> {"complete"}
      [] s = "complete"            -> {"error"}
      [] OTHER                     -> {}

StagesInit == stage = "none" /\ reply = "none"

Announce(s) ==
    /\ reply = "none"
    /\ s \in Following(stage)
    /\ stage' = s
    /\ UNCHANGED reply

\* Rules go out after "complete", and so does a question, but as an error 500: it
\* is no answer of the route's response model, and that is found outside of the
\* preview, which announces nothing more.  A pipeline that failed is first
\* completed and then an error, since its 400 is raised inside the preview.
Reply ==
    /\ reply = "none"
    /\ \/ stage = "complete" /\ reply' \in {"success", "invalid"}
       \/ stage = "error" /\ reply' = "failed"
    /\ UNCHANGED stage

StagesNext == (\E s \in Following(stage) : Announce(s)) \/ Reply

StagesSpec == StagesInit /\ [][StagesNext]_stageVars
=============================================================================
