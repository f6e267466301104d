--------------------------- MODULE RequestLedger ---------------------------
(***************************************************************************)
(* What a producer of solver requests is promised, with no broker, batch   *)
(* or timer in sight.  A secretary's edit moves a semester's rules to a    *)
(* new version; a request asks that the semester be solved for the rules   *)
(* as they stand; a request is closed only once a result at least that     *)
(* new is stored, and the stored result never goes back.                   *)
(***************************************************************************)
EXTENDS Naturals

CONSTANTS Semesters,    \* the semesters that can be solved
          MaxRequests,  \* requests are numbered 1 .. MaxRequests as published
          Bodies        \* what a request may carry: a semester, or something else

Requests == 1 .. MaxRequests

VARIABLES rules,   \* rules[s]: version of s's constraints and offerings
          body,    \* body[r]: what request r carries
          asked,   \* asked[r]: the version its producer had seen committed
          saved,   \* saved[s]: version of the rules the stored result is for
          status   \* status[r] \in {"none", "waiting", "closed", "discarded"}

vars == <<rules, body, asked, saved, status>>

Init ==
    /\ rules = [s \in Semesters |-> 0]
    /\ body \in [Requests -> Bodies]
    /\ asked = [r \in Requests |-> 0]
    /\ saved = [s \in Semesters |-> 0]
    /\ status = [r \in Requests |-> "none"]

\* The rules of a semester change.
Edit(s) ==
    /\ rules' = [rules EXCEPT ![s] = @ + 1]
    /\ UNCHANGED <<body, asked, saved, status>>

\* A producer publishes request r.
Ask(r, b) ==
    /\ status[r] = "none"
    /\ body' = [body EXCEPT ![r] = b]
    /\ asked' = [asked EXCEPT ![r] = IF b \in Semesters THEN rules[b] ELSE 0]
    /\ status' = [status EXCEPT ![r] = "waiting"]
    /\ UNCHANGED <<rules, saved>>

\* A result for version v of the rules of s replaces the stored one.
Solve(s, v) ==
    /\ v \in saved[s] .. rules[s]
    /\ saved' = [saved EXCEPT ![s] = v]
    /\ UNCHANGED <<rules, body, asked, status>>

\* A request is taken off the books: never before its result is stored.
Close(r) ==
    /\ status[r] = "waiting"
    /\ body[r] \in Semesters
    /\ saved[body[r]] >= asked[r]
    /\ status' = [status EXCEPT ![r] = "closed"]
    /\ UNCHANGED <<rules, body, asked, saved>>

\* Only a request that names no semester may be thrown away unanswered.
Discard(r) ==
    /\ status[r] = "waiting"
    /\ body[r] \notin Semesters
    /\ status' = [status EXCEPT ![r] = "discarded"]
    /\ UNCHANGED <<rules, body, asked, saved>>

Next ==
    \/ \E s \in Semesters : Edit(s)
    \/ \E r \in Requests, b \in Bodies : Ask(r, b)
    \/ \E s \in Semesters : \E v \in saved[s] .. rules[s] : Solve(s, v)
    \/ \E r \in Requests : Close(r) \/ Discard(r)

Spec == Init /\ [][Next]_vars

-----------------------------------------------------------------------------

\* A semester with a waiting request newer than its result is owed a solve.
Owed(s) ==
    \E r \in Requests :
        status[r] = "waiting" /\ body[r] = s /\ asked[r] > saved[s]

SolveOwed(s) ==
    Owed(s) /\ \E v \in (saved[s] + 1) .. rules[s] : Solve(s, v)

\* A semester owed a solve is solved, and a request that may be closed is closed.
Fairness ==
    /\ \A s \in Semesters : WF_vars(SolveOwed(s))
    /\ \A r \in Requests : WF_vars(Close(r))

FairSpec == Spec /\ Fairness

=============================================================================
