------------------------- MODULE MCScheduleRequests -------------------------
(* Small instances of ScheduleRequests for TLC. *)
EXTENDS ScheduleRequests, TLC

\* Callers are interchangeable (for the runs without liveness).
Symmetry == Permutations(Callers)

=============================================================================
