-------------------------- MODULE MCSolverAndPages --------------------------
(***************************************************************************)
(* One run for the call of the solver and for the pages on which what it   *)
(* stored is shown and edited.  They share no variable, so a behaviour is  *)
(* one of either while the other rests: to the pages a solution is any of  *)
(* Solutions.                                                              *)
(*                                                                         *)
(* Two lecturers share the first offering; the second one takes two hours. *)
(* There are two editors, or one beside the solver, or one who starts a    *)
(* run in the middle of an edit, or one with other requests and a failure. *)
(***************************************************************************)
EXTENDS MCCspSolver, SchedulePage, TLC

VARIABLE part

CONSTANTS p1, p2

Seat(lecturer, place) == [lecturer |-> lecturer, place |-> place]
sun8 == [day |-> 1, hour |-> 8]
sun9 == [day |-> 1, hour |-> 9]
fri13 == [day |-> 6, hour |-> 13]
MCPlaces == {sun8, sun9, fri13}
MCSeats == [lecturer : {"ada", "bob"}, place : MCPlaces]
MCOfferingOf == <<1, 1, 2>>
MCLengthOf == <<1, 1, 2>>
MCSolutions == {<<Seat("ada", sun8), Seat("bob", sun8), Seat("ada", sun9)>>,
                <<Seat("ada", fri13), Seat("bob", sun8), Seat("ada", sun9)>>}

Nothing == [opens |-> 0, edits |-> 0, drops |-> 0, saves |-> 0, generates |-> 0,
            refreshes |-> 0, polls |-> 0, failures |-> 0, solves |-> 0, requests |-> 0]
Allow(f) == f @@ [x \in {p1, p2, "solver", "others"} |-> Nothing]
Editor(n) == [Nothing EXCEPT !.opens = 1, !.edits = 1, !.drops = n, !.saves = n]
OneSolution == "solver" :> [Nothing EXCEPT !.solves = 1]
MCPageBudgets ==
    {Allow(p1 :> Editor(1) @@ p2 :> Editor(1)), Allow(p1 :> Editor(2) @@ OneSolution),
     Allow(p1 :> [Editor(1) EXCEPT !.generates = 1, !.polls = 1] @@ OneSolution),
     Allow(p1 :> [Editor(1) EXCEPT !.refreshes = 1, !.polls = 1, !.failures = 1]
           @@ "others" :> [Nothing EXCEPT !.requests = 1])}

\* While one rests it rests in one state only.
SolverAndPagesInit ==
    /\ part \in {"solver", "pages"}
    /\ Init /\ PagesInit
    /\ part = "solver" => solverRuns = << >> /\ allowed[p2].opens = 1
    /\ part = "pages" => Len(offerings) = 1 /\ constraints[1].id = NoId

SolverAndPagesNext ==
    \/ part = "solver" /\ Next /\ UNCHANGED <<part, pageVars>>
    \/ part = "pages" /\ PagesNext /\ UNCHANGED <<part, vars>>

SolverAndPagesSpec ==
    SolverAndPagesInit /\ [][SolverAndPagesNext]_<<part, vars, pageVars>>
=============================================================================
