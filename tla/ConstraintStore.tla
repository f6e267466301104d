-------------------------- MODULE ConstraintStore --------------------------
(***************************************************************************)
(* The constraints of one semester and the report of those that a schedule *)
(* breaks: the tables lecturer_constraints and breaking_constraints and    *)
(* everybody who writes them.                                              *)
(*                                                                         *)
(*   - a lecturer, in one or more browser tabs: preview, save, delete      *)
(*     (routes/external/lecturer/constraints.py);                          *)
(*   - secretaries: override, edit, delete, mark as seen, sessions by hand *)
(*     (routes/external/secretary/manage_constraints.py,                   *)
(*     breaking_constraints.py and schedules.py);                          *)
(*   - a developer (routes/dev_routes, where they are switched on);        *)
(*   - the solver's run of the semester (solver/src/main.py and db.py).    *)
(*                                                                         *)
(* Every statement of the database is one action, and handlers interleave  *)
(* between their statements, as they do in the code.  A text is the set of *)
(* sentences it is made of, a rule list a sequence of atomic constraints,  *)
(* and a schedule is known by the atomics that its sessions break.         *)
(***************************************************************************)
EXTENDS Naturals, Sequences, FiniteSets, Functions

CONSTANTS
    Lecturers, Tabs, OwnerOf,   \* the tabs of the lecturers
    Secretaries,
    Sentences,                  \* what lecturers write
    SecretaryText,              \* the text of a secretary's edit
    Atomics, BlockAtomics,      \* the other atomics are preferences
    RuleLists,                  \* what the pipeline or a secretary may make
    FirstRows,                  \* rows the semester may start with
    Budgets,                    \* operations each actor may still start
    MaxFailures,                \* failures of the database or the broker
    Gone                        \* a deleted row

ASSUME StoreConstants ==
    /\ OwnerOf \in [Tabs -> Lecturers]
    /\ BlockAtomics \subseteq Atomics
    /\ RuleLists \subseteq Seq(Atomics)
    /\ SecretaryText \notin Sentences
    /\ MaxFailures \in Nat

VARIABLES
    rows,       \* lecturer_constraints: by constraints_id, Gone when deleted
    breaking,   \* breaking_constraints: constraints_id -> [atoms, seen]
    tab,        \* the save or preview under way in each tab
    edit,       \* the edit under way by each secretary
    run,        \* the solver's run
    pending,    \* a request for a run is queued
    unsent,     \* requests that the development route has still to publish
    broken,     \* the atomics that the sessions of each lecturer break
    confirmed,  \* (ghost) the text each lecturer saved last
    solved,     \* (ghost) the rules that the last run, if solved, was about
    left,       \* operations left to each actor
    failures    \* failures so far

storeVars == <<rows, breaking, tab, edit, run, pending, unsent, broken, confirmed,
               solved, left, failures>>

Ids == {i \in DOMAIN rows : rows[i] # Gone}
RowsOf(l) == {i \in Ids : rows[i].owner = l}
RulesOf(rs) == [i \in DOMAIN rs |-> IF rs[i] = Gone THEN Gone ELSE rs[i].rules]

RowTexts == SUBSET (Sentences \cup {SecretaryText})

Row == [owner : Lecturers, text : RowTexts, rules : RuleLists,
        override : {"none", "hard", "soft"}, edited : BOOLEAN,
        original : RowTexts, said : RowTexts]

NewRow(l, text, rules) ==
    [owner |-> l, text |-> text, rules |-> rules, override |-> "none",
     edited |-> FALSE, original |-> {}, said |-> text]   \* said is a ghost

\* The constraints that are there at first were saved and never edited.
ASSUME StoreData ==
    /\ Gone \notin Row /\ Gone \notin RuleLists
    /\ FirstRows \subseteq Seq(Row)
    /\ \A rs \in FirstRows : \A i \in DOMAIN rs :
          /\ rs[i].said # {}
          /\ rs[i] = NewRow(rs[i].owner, rs[i].said, rs[i].rules)

IdleTab == [pc |-> "idle", text |-> {}, rules |-> << >>, todo |-> {}]
IdleEdit == [pc |-> "idle", id |-> 0, existing |-> Gone, new |-> << >>,
             rules |-> << >>, found |-> {}]
IdleRun == [pc |-> "idle", rows |-> << >>, conflicts |-> {}, details |-> << >>]

\* An operation is begun by actor a.
Begins(a) == left[a] > 0 /\ left' = [left EXCEPT ![a] = @ - 1]

StoreInit ==
    /\ rows \in FirstRows
    /\ breaking = << >>
    /\ tab = [t \in Tabs |-> IdleTab]
    /\ edit = [s \in Secretaries |-> IdleEdit]
    /\ run = IdleRun
    /\ pending = FALSE /\ unsent = 0
    /\ broken \in [Lecturers -> SUBSET Atomics]
    /\ confirmed = [l \in Lecturers |->
          LET r == RowsOf(l) IN IF r = {} THEN {} ELSE rows[CHOOSE i \in r : TRUE].said]
    /\ solved = << >>
    /\ left \in Budgets
    /\ failures = 0

\* Mutant: the report about a row outlives it.
DeleteRowOnly(i) ==
    /\ rows' = [rows EXCEPT ![i] = Gone]
    /\ UNCHANGED breaking

\* ON DELETE CASCADE takes the row of breaking_constraints along.
DeleteRow(i) ==
    /\ rows' = [rows EXCEPT ![i] = Gone]
    /\ breaking' = Restrict(breaking, DOMAIN breaking \ {i})

\* Who deletes a row on purpose no longer expects its text to be kept.
Forgets(i) ==
    confirmed' = IF i \in Ids /\ confirmed[rows[i].owner] = rows[i].said
                 THEN [confirmed EXCEPT ![rows[i].owner] = {}] ELSE confirmed

------------------------------------------------------------------------------
(* The lecturer *)

\* TextCombinationStage: the language model merges the texts, and if it fails
\* they are joined; one alone is left as it is.
Combined(texts) == UNION texts

\* The rows of the semester are read once, before the language model is asked.
\* Unless it is an edit, their texts and the new one are combined.
PreviewReads(t, sentence, isEdit) ==
    /\ tab[t].pc \in {"idle", "previewed"}
    /\ Begins(t)
    /\ tab' = [tab EXCEPT ![t] =
          [IdleTab EXCEPT !.pc = "previewing",
              !.text = Combined({{sentence}} \cup
                  IF isEdit THEN {} ELSE {rows[i].text : i \in RowsOf(OwnerOf[t])})]]
    /\ UNCHANGED <<rows, breaking, edit, run, pending, unsent,
                   broken, confirmed, solved, failures>>

\* The pipeline makes some rules of the text, asks for clarification or fails.
PreviewReturns(t) ==
    /\ tab[t].pc = "previewing"
    /\ \/ tab' = [tab EXCEPT ![t] = IdleTab]
       \/ \E rules \in RuleLists :
             tab' = [tab EXCEPT ![t].pc = "previewed", ![t].rules = rules]
    /\ UNCHANGED <<rows, breaking, edit, run, pending, unsent,
                   broken, confirmed, solved, left, failures>>

\* Save deletes what there is now, which need not be what was previewed.
SaveLists(t) ==
    /\ tab[t].pc = "previewed"
    /\ tab' = [tab EXCEPT ![t].pc = "saving", ![t].todo = RowsOf(OwnerOf[t])]
    /\ UNCHANGED <<rows, breaking, edit, run, pending, unsent,
                   broken, confirmed, solved, left, failures>>

SaveDeletes(t) ==
    /\ tab[t].pc = "saving"
    /\ \E i \in tab[t].todo :
          /\ DeleteRow(i)
          /\ tab' = [tab EXCEPT ![t].todo = @ \ {i}]
    /\ UNCHANGED <<edit, run, pending, unsent, broken, confirmed, solved, left, failures>>

\* Mutant: a row that somebody else has stored meanwhile is left as it is.
SaveCreatesOnce(t) ==
    /\ tab[t].pc = "saving" /\ tab[t].todo = {}
    /\ rows' = IF RowsOf(OwnerOf[t]) = {}
               THEN Append(rows, NewRow(OwnerOf[t], tab[t].text, tab[t].rules)) ELSE rows
    /\ confirmed' = [confirmed EXCEPT ![OwnerOf[t]] = tab[t].text]
    /\ tab' = [tab EXCEPT ![t] = IdleTab]
    /\ UNCHANGED <<breaking, edit, run, pending, unsent, broken, solved, left, failures>>

\* The new row starts without override and without marks of an edit.
SaveCreates(t) ==
    /\ tab[t].pc = "saving" /\ tab[t].todo = {}
    /\ rows' = Append(rows, NewRow(OwnerOf[t], tab[t].text, tab[t].rules))
    /\ confirmed' = [confirmed EXCEPT ![OwnerOf[t]] = tab[t].text]
    /\ tab' = [tab EXCEPT ![t] = IdleTab]
    /\ UNCHANGED <<breaking, edit, run, pending, unsent, broken, solved, left, failures>>

\* A statement fails: what is deleted stays deleted, and nothing is saved.
SaveFails(t) ==
    /\ tab[t].pc = "saving"
    /\ failures < MaxFailures
    /\ failures' = failures + 1
    /\ confirmed' = [confirmed EXCEPT ![OwnerOf[t]] =
          IF \E i \in RowsOf(OwnerOf[t]) : rows[i].said = @ THEN @ ELSE {}]
    /\ tab' = [tab EXCEPT ![t] = IdleTab]
    /\ UNCHANGED <<rows, breaking, edit, run, pending, unsent, broken, solved, left>>

LecturerDeletes(t, i) ==
    /\ i \in RowsOf(OwnerOf[t])
    /\ Begins(t)
    /\ DeleteRow(i) /\ Forgets(i)
    /\ UNCHANGED <<tab, edit, run, pending, unsent, broken, solved, failures>>

------------------------------------------------------------------------------
(* The secretaries *)

\* No run is asked for and the report stays as it is.
SetOverride(s, i, value) ==
    /\ i \in Ids
    /\ Begins(s)
    /\ rows' = [rows EXCEPT ![i].override = value]
    /\ UNCHANGED <<breaking, tab, edit, run, pending, unsent,
                   broken, confirmed, solved, failures>>

SecretaryDeletes(s, i) ==
    /\ i \in Ids
    /\ Begins(s)
    /\ DeleteRow(i) /\ Forgets(i)
    /\ UNCHANGED <<tab, edit, run, pending, unsent, broken, solved, failures>>

IsBlock(atomic) == atomic \in BlockAtomics

\* StructuredRulesValidator.validate, over atomics that are well formed: at
\* least one, no two the same, and at each place the type it had.
Accepted(old, new) ==
    /\ new # << >>
    /\ \A i, j \in DOMAIN new : i # j => new[i] # new[j]
    /\ \A i \in DOMAIN new \cap DOMAIN old : IsBlock(new[i]) = IsBlock(old[i])

EditFetches(s, i, new) ==
    /\ edit[s].pc = "idle"
    /\ i \in Ids
    /\ Accepted(rows[i].rules, new)
    /\ Begins(s)
    /\ edit' = [edit EXCEPT ![s] =
          [IdleEdit EXCEPT !.pc = "fetched", !.id = i, !.existing = rows[i], !.new = new]]
    /\ UNCHANGED <<rows, breaking, tab, run, pending, unsent,
                   broken, confirmed, solved, failures>>

\* Mutant: the text that the row has now is taken for the original.
MarkedAsEditedAnew(row, existing, new) ==
    [row EXCEPT !.rules = new, !.text = {SecretaryText}, !.edited = TRUE,
                !.original = existing.text]

\* mark_as_manually_edited: COALESCE keeps the original text that is there.
MarkedAsEdited(row, existing, new) ==
    [row EXCEPT !.rules = new, !.text = {SecretaryText}, !.edited = TRUE,
                !.original = IF @ # {} THEN @
                             ELSE IF existing.original # {} THEN existing.original
                             ELSE existing.text]

\* A row that is gone answers an error.
EditMarks(s) ==
    /\ edit[s].pc = "fetched"
    /\ LET i == edit[s].id IN
          IF i \in Ids
          THEN /\ rows' = [rows EXCEPT ![i] = MarkedAsEdited(@, edit[s].existing, edit[s].new)]
               /\ edit' = [edit EXCEPT ![s].pc = "marked"]
          ELSE /\ edit' = [edit EXCEPT ![s] = IdleEdit]
               /\ UNCHANGED rows
    /\ UNCHANGED <<breaking, tab, run, pending, unsent,
                   broken, confirmed, solved, left, failures>>

\* recompute_for_constraint: reads the row, ...
RecomputeReads(s) ==
    /\ edit[s].pc = "marked"
    /\ LET i == edit[s].id IN
       edit' = [edit EXCEPT ![s].pc = IF i \in Ids THEN "clearing" ELSE "trigger",
                            ![s].rules = IF i \in Ids THEN rows[i].rules ELSE << >>]
    /\ UNCHANGED <<rows, breaking, tab, run, pending, unsent,
                   broken, confirmed, solved, left, failures>>

\* ... deletes what was reported about it, ...
RecomputeClears(s) ==
    /\ edit[s].pc = "clearing"
    /\ breaking' = Restrict(breaking, DOMAIN breaking \ {edit[s].id})
    /\ edit' = [edit EXCEPT ![s].pc = IF edit[s].rules = << >> THEN "trigger" ELSE "evaluating"]
    /\ UNCHANGED <<rows, tab, run, pending, unsent, broken, confirmed, solved, left, failures>>

\* Mutant: what is stored counts the atomics from another number.
AtomsAfter(rules, indices) == {<<n + 1, rules[n]>> : n \in indices \cap DOMAIN rules}

\* The atomics with the indices, as they are reported.
AtomsAt(rules, indices) == {<<n, rules[n]>> : n \in indices \cap DOMAIN rules}

\* ... reads the sessions, of every schedule, and finds the atomics they break,
\* blocks and preferences alike, ...
RecomputeEvaluates(s) ==
    /\ edit[s].pc = "evaluating"
    /\ LET rules == edit[s].rules
           hit == {n \in DOMAIN rules : rules[n] \in broken[edit[s].existing.owner]}
       IN edit' = [edit EXCEPT ![s].pc = IF hit = {} THEN "trigger" ELSE "inserting",
                               ![s].found = AtomsAt(rules, hit)]
    /\ UNCHANGED <<rows, breaking, tab, run, pending, unsent,
                   broken, confirmed, solved, left, failures>>

\* Mutant: a report that is updated keeps its mark.
ReportedKeepingSeen(i, atoms) ==
    [j \in DOMAIN breaking \cup {i} |->
        IF j # i THEN breaking[j]
        ELSE [atoms |-> atoms, seen |-> i \in DOMAIN breaking /\ breaking[i].seen]]

\* INSERT .. ON CONFLICT DO UPDATE .. is_seen = FALSE, of the Backend and the
\* solver.
Reported(i, atoms) ==
    [j \in DOMAIN breaking \cup {i} |->
        IF j = i THEN [atoms |-> atoms, seen |-> FALSE] ELSE breaking[j]]

\* ... and inserts a row, unless the constraint is gone (the foreign key).
RecomputeInserts(s) ==
    /\ edit[s].pc = "inserting"
    /\ breaking' = IF edit[s].id \in Ids THEN Reported(edit[s].id, edit[s].found)
                   ELSE breaking
    /\ edit' = [edit EXCEPT ![s].pc = "trigger"]
    /\ UNCHANGED <<rows, tab, run, pending, unsent, broken, confirmed, solved, left, failures>>

\* A statement of recompute fails: what it has cleared stays cleared, only a
\* warning is logged, and the edit goes on.
RecomputeFails(s) ==
    /\ edit[s].pc \in {"marked", "clearing", "evaluating", "inserting"}
    /\ failures < MaxFailures
    /\ failures' = failures + 1
    /\ edit' = [edit EXCEPT ![s].pc = "trigger"]
    /\ UNCHANGED <<rows, breaking, tab, run, pending, unsent, broken, confirmed, solved, left>>

EditTriggers(s) ==
    /\ edit[s].pc = "trigger"
    /\ pending' = TRUE
    /\ edit' = [edit EXCEPT ![s] = IdleEdit]
    /\ UNCHANGED <<rows, breaking, tab, run, unsent, broken, confirmed, solved, left, failures>>

\* The request cannot be published; only a warning is logged.
TriggerFails(s) ==
    /\ edit[s].pc = "trigger"
    /\ failures < MaxFailures
    /\ failures' = failures + 1
    /\ edit' = [edit EXCEPT ![s] = IdleEdit]
    /\ UNCHANGED <<rows, breaking, tab, run, pending, unsent, broken, confirmed, solved, left>>

MarkSeen(s, i) ==
    /\ i \in DOMAIN breaking
    /\ Begins(s)
    /\ breaking' = [breaking EXCEPT ![i].seen = TRUE]
    /\ UNCHANGED <<rows, tab, edit, run, pending, unsent, broken, confirmed, solved, failures>>

MarkAllSeen(s) ==
    /\ Begins(s)
    /\ breaking' = [i \in DOMAIN breaking |-> [breaking[i] EXCEPT !.seen = TRUE]]
    /\ UNCHANGED <<rows, tab, edit, run, pending, unsent, broken, confirmed, solved, failures>>

\* create_or_update_manual_session stores the session, whatever it breaks.  The
\* request has no field breaking_constraint: reading it raises, so that nothing
\* is reported and the call answers an error.
PlaceSession(s, l) ==
    /\ Begins(s)
    /\ \E b \in SUBSET Atomics : broken' = [broken EXCEPT ![l] = b]
    /\ UNCHANGED <<rows, breaking, tab, edit, run, pending, unsent,
                   confirmed, solved, failures>>

\* delete_scheduled_session
DeleteSession(s, l) ==
    /\ Begins(s)
    /\ \E b \in SUBSET broken[l] : broken' = [broken EXCEPT ![l] = b]
    /\ UNCHANGED <<rows, breaking, tab, edit, run, pending, unsent,
                   confirmed, solved, failures>>

------------------------------------------------------------------------------
(* The development routes *)

\* A constraint made from nothing, of any lecturer; a request follows ...
DevCreates(l, text, rules, override) ==
    /\ Begins("developer")
    /\ rows' = Append(rows, [NewRow(l, text, rules) EXCEPT !.override = override])
    /\ unsent' = unsent + 1
    /\ UNCHANGED <<breaking, tab, edit, run, pending, broken, confirmed, solved, failures>>

\* ... unless it cannot be published, which is printed.
DevPublishes ==
    /\ unsent > 0
    /\ unsent' = unsent - 1
    /\ \/ pending' = TRUE /\ UNCHANGED failures
       \/ failures < MaxFailures /\ failures' = failures + 1 /\ UNCHANGED pending
    /\ UNCHANGED <<rows, breaking, tab, edit, run, broken, confirmed, solved, left>>

DevDeletesConstraint(i) ==
    /\ i \in Ids
    /\ Begins("developer")
    /\ DeleteRow(i) /\ Forgets(i)
    /\ UNCHANGED <<tab, edit, run, pending, unsent, broken, solved, failures>>

\* One row of the report, or all of them.
DevDeletes(i) ==
    /\ i \in DOMAIN breaking
    /\ Begins("developer")
    /\ breaking' = Restrict(breaking, DOMAIN breaking \ {i})
    /\ UNCHANGED <<rows, tab, edit, run, pending, unsent, broken, confirmed, solved, failures>>

DevClears ==
    /\ Begins("developer")
    /\ breaking' = << >>
    /\ UNCHANGED <<rows, tab, edit, run, pending, unsent, broken, confirmed, solved, failures>>

------------------------------------------------------------------------------
(* The solver *)

\* A request from somewhere else (a secretary's trigger, the nightly job).
Requested ==
    /\ ~pending
    /\ Begins("solver")
    /\ pending' = TRUE
    /\ UNCHANGED <<rows, breaking, tab, edit, run, unsent, broken, confirmed, solved, failures>>

\* clean_stale_breaking_constraints: a row with an index beyond the rules is
\* removed.  Its two statements are one here: a row that recompute puts in
\* between has another breaking_id and is not touched by the second.
RunCleans ==
    /\ run.pc = "idle" /\ pending
    /\ pending' = FALSE
    /\ breaking' = Restrict(breaking,
          {i \in DOMAIN breaking : \A a \in breaking[i].atoms : a[1] <= Len(rows[i].rules)})
    /\ run' = [IdleRun EXCEPT !.pc = "cleaned"]
    /\ UNCHANGED <<rows, tab, edit, unsent, broken, confirmed, solved, left, failures>>

RunFetches ==
    /\ run.pc = "cleaned"
    /\ run' = [run EXCEPT !.pc = "solving", !.rows = rows]
    /\ UNCHANGED <<rows, breaking, tab, edit, pending, unsent,
                   broken, confirmed, solved, left, failures>>

Fetched == {i \in DOMAIN run.rows : run.rows[i] # Gone}

\* A timetable that keeps all blocks that were fetched takes the place of the
\* sessions (CspSolver!SolvedIsTimetable; preferences are not looked at).
RunSaves ==
    /\ run.pc = "solving"
    /\ \E b \in [Lecturers -> SUBSET Atomics] :
          /\ \A i \in Fetched :
                b[run.rows[i].owner] \cap BlockAtomics \cap Range(run.rows[i].rules) = {}
          /\ broken' = b
    /\ run' = [run EXCEPT !.pc = "resolving"]
    /\ UNCHANGED <<rows, breaking, tab, edit, pending, unsent,
                   confirmed, solved, left, failures>>

\* Mutant: only what a secretary has looked at is removed.
RunResolvesSeen ==
    /\ run.pc = "resolving"
    /\ breaking' = Restrict(breaking,
          {i \in DOMAIN breaking : i \notin Fetched \/ ~breaking[i].seen})
    /\ solved' = RulesOf(run.rows)
    /\ run' = IdleRun
    /\ UNCHANGED <<rows, tab, edit, pending, unsent, broken, confirmed, left, failures>>

\* remove_resolved_constraints, of everything that was fetched.
RunResolves ==
    /\ run.pc = "resolving"
    /\ breaking' = Restrict(breaking, DOMAIN breaking \ Fetched)
    /\ solved' = RulesOf(run.rows)
    /\ run' = IdleRun
    /\ UNCHANGED <<rows, tab, edit, pending, unsent, broken, confirmed, left, failures>>

\* The run fails because of some soft blocks, or of none (CspSolver!Report).
RunFails ==
    /\ run.pc = "solving"
    /\ LET atomics == UNION {{i} \X DOMAIN run.rows[i].rules : i \in Fetched}
           soft == {c \in atomics : /\ IsBlock(run.rows[c[1]].rules[c[2]])
                                    /\ run.rows[c[1]].override # "hard"}
       IN \E core \in SUBSET soft :
             run' = IF core = {} THEN IdleRun
                    ELSE [run EXCEPT !.pc = "reporting", !.conflicts = core]
    /\ solved' = << >>
    /\ UNCHANGED <<rows, breaking, tab, edit, pending, unsent,
                   broken, confirmed, left, failures>>

\* save_breaking_constraints reads the rules of today, not those it solved, ...
RunReadsRules ==
    /\ run.pc = "reporting" /\ run.details = << >>
    /\ run' = [run EXCEPT !.details = RulesOf(rows)]
    /\ UNCHANGED <<rows, breaking, tab, edit, pending, unsent,
                   broken, confirmed, solved, left, failures>>

\* ... and stores, row by row, the atomics that now have the indices found.
RunReports(i) ==
    /\ run.pc = "reporting" /\ run.details # << >>
    /\ i \in {c[1] : c \in run.conflicts}
    /\ LET rules == IF run.details[i] = Gone THEN << >> ELSE run.details[i]
           atoms == AtomsAt(rules, {n \in DOMAIN rules : <<i, n>> \in run.conflicts})
           rest == {c \in run.conflicts : c[1] # i}
       IN /\ breaking' = IF atoms # {} /\ i \in Ids THEN Reported(i, atoms) ELSE breaking
          /\ run' = IF rest = {} THEN IdleRun ELSE [run EXCEPT !.conflicts = rest]
    /\ UNCHANGED <<rows, tab, edit, pending, unsent, broken, confirmed, solved, left, failures>>

\* A statement of the run raises, or its process dies: what was done stays done,
\* and the request is queued again.
RunAborts ==
    /\ run.pc # "idle"
    /\ failures < MaxFailures
    /\ failures' = failures + 1
    /\ run' = IdleRun
    /\ pending' = TRUE
    /\ UNCHANGED <<rows, breaking, tab, edit, unsent, broken, confirmed, solved, left>>

------------------------------------------------------------------------------

TabStep(t) ==
    \/ \E sentence \in Sentences, isEdit \in BOOLEAN : PreviewReads(t, sentence, isEdit)
    \/ PreviewReturns(t)
    \/ SaveLists(t) \/ SaveDeletes(t) \/ SaveCreates(t) \/ SaveFails(t)
    \/ \E i \in Ids : LecturerDeletes(t, i)

SecretaryStep(s) ==
    \/ \E i \in Ids, value \in {"none", "hard", "soft"} : SetOverride(s, i, value)
    \/ \E i \in Ids : SecretaryDeletes(s, i)
    \/ \E i \in Ids, new \in RuleLists : EditFetches(s, i, new)
    \/ EditMarks(s)
    \/ RecomputeReads(s) \/ RecomputeClears(s) \/ RecomputeEvaluates(s) \/ RecomputeInserts(s)
    \/ RecomputeFails(s) \/ EditTriggers(s) \/ TriggerFails(s)
    \/ \E i \in DOMAIN breaking : MarkSeen(s, i)
    \/ MarkAllSeen(s)
    \/ \E l \in Lecturers : PlaceSession(s, l) \/ DeleteSession(s, l)

DeveloperStep ==
    \/ \E l \in Lecturers, sentence \in Sentences, rules \in RuleLists,
          override \in {"none", "hard", "soft"} : DevCreates(l, {sentence}, rules, override)
    \/ DevPublishes
    \/ \E i \in Ids : DevDeletesConstraint(i)
    \/ \E i \in DOMAIN breaking : DevDeletes(i)
    \/ DevClears

SolverStep ==
    \/ Requested
    \/ RunCleans \/ RunFetches
    \/ RunSaves \/ RunResolves
    \/ RunFails \/ RunReadsRules \/ \E i \in DOMAIN rows : RunReports(i)
    \/ RunAborts

StoreNext ==
    \/ \E t \in Tabs : TabStep(t)
    \/ \E s \in Secretaries : SecretaryStep(s)
    \/ DeveloperStep \/ SolverStep

StoreSpec == StoreInit /\ [][StoreNext]_storeVars

------------------------------------------------------------------------------
(* Properties *)

StoreTypeOK ==
    /\ \A i \in DOMAIN rows : rows[i] \in Row \cup {Gone}
    /\ DOMAIN breaking \subseteq Ids      \* the foreign key
    /\ \A i \in DOMAIN breaking : breaking[i].atoms # {} /\ breaking[i].seen \in BOOLEAN
    /\ \A t \in Tabs : tab[t].todo \subseteq DOMAIN rows /\ tab[t].text \in RowTexts
    /\ pending \in BOOLEAN /\ unsent \in Nat
    /\ broken \in [Lecturers -> SUBSET Atomics]
    /\ failures \in 0 .. MaxFailures

Saving(l) == \E t \in Tabs : OwnerOf[t] = l /\ tab[t].pc = "saving"

\* However the saves of a lecturer's tabs interleave, with each other and with
\* the secretaries, the text whose save was answered last is stored as soon as
\* no save is under way (save_confirmed_constraint deletes what it listed and
\* only then creates, each in a statement of its own).
SavedIsKept ==
    \A l \in Lecturers :
        (confirmed[l] # {} /\ ~Saving(l)) => \E i \in RowsOf(l) : rows[i].said = confirmed[l]

\* "original_raw_text is preserved (only the first edit captures it)": an edited
\* row keeps the text that was saved with it, whatever edits overlap.
OriginalIsTheLecturers == \A i \in Ids : rows[i].edited => rows[i].original = rows[i].said

\* A report that comes to say something else is unseen, whoever writes it.
ChangedReportIsUnseen ==
    [][\A i \in DOMAIN breaking \cap DOMAIN breaking' :
          breaking'[i].atoms # breaking[i].atoms => ~breaking'[i].seen]_storeVars

Quiet == ~pending /\ run.pc = "idle" /\ \A s \in Secretaries : edit[s].pc = "idle"
=============================================================================
