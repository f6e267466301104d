-------------------------- MODULE MCSolverService --------------------------
(***************************************************************************)
(* Small instances of SolverService for TLC.  A tick is 1.5 seconds: the   *)
(* quiet time of 1.5 s is one tick and the longest wait of 3 s is two.     *)
(***************************************************************************)
EXTENDS SolverService, TLC

\* Semesters are interchangeable (for the runs without liveness).
Symmetry == Permutations(Semesters)

=============================================================================
