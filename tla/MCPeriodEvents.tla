--------------------------- MODULE MCPeriodEvents ---------------------------
(* Small instances of PeriodEvents for TLC. *)
EXTENDS PeriodEvents, TLC

Symmetry == Permutations(Updates) \cup Permutations(Lecturers) \cup
            Permutations(Statuses)

\* The change period starts on day 0 and constraints end on day 3; or
\* constraints start on day 1 and nothing else is near.
MCCalendars ==
    { [constraint_start |-> -9, constraint_end |-> 3, change_start |-> 0,
       change_end |-> 9],
      [constraint_start |-> 1, constraint_end |-> 9, change_start |-> 9,
       change_end |-> 18] }

=============================================================================
