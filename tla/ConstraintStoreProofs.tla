----------------------- MODULE ConstraintStoreProofs -----------------------
(***************************************************************************)
(* What holds of ConstraintStore for any number of lecturers, tabs,        *)
(* secretaries, operations and failures.                                   *)
(*                                                                         *)
(* StoreInv is inductive.  RowsInv says of every row what it says about    *)
(* its lecturer's text, TabsInv of every save under way that it deletes    *)
(* rows of its own lecturer only, EditsInv of every edit under way that    *)
(* the row it has fetched, however old, still knows the lecturer's text.   *)
(* SavedIsKept is inductive relative to it.  So are RunInv, which says     *)
(* that nothing is reported once the rules as they are have been solved,   *)
(* and IndexInv, which says that an index which is reported lies within    *)
(* the rules of its row unless a run that will remove it is still to come: *)
(* the pages of secretaries follow from these two.                         *)
(***************************************************************************)
EXTENDS ReportViews, SequenceTheorems, FiniteSetTheorems, TLAPS

\* An edited row has the lecturer's text as its original, any other has it as
\* its text and no original.
Consistent(r) ==
    /\ r.said # {}
    /\ r.edited => r.original = r.said
    /\ ~r.edited => r.original = {} /\ r.text = r.said

RowsInv ==
    /\ rows \in Seq(Row \cup {Gone})
    /\ \A i \in Ids : Consistent(rows[i])

TabRecords == [pc : {"idle", "previewing", "previewed", "saving"}, text : RowTexts,
               rules : RuleLists \cup {<< >>}, todo : SUBSET Nat]

TabsInv ==
    /\ tab \in [Tabs -> TabRecords]
    /\ confirmed \in [Lecturers -> RowTexts]
    /\ \A t \in Tabs :
          /\ tab[t].pc # "idle" => tab[t].text # {}
          /\ tab[t].pc \in {"previewed", "saving"} => tab[t].rules \in RuleLists
          /\ \A i \in tab[t].todo :
                i \in DOMAIN rows /\ (rows[i] # Gone => rows[i].owner = OwnerOf[t])

EditRecords ==
    [pc : {"idle", "fetched", "marked", "clearing", "evaluating", "inserting", "trigger"},
     id : Nat, existing : Row \cup {Gone}, new : RuleLists \cup {<< >>},
     rules : RuleLists \cup {<< >>}, found : SUBSET ((Nat \ {0}) \X Atomics)]

EditsInv ==
    /\ edit \in [Secretaries -> EditRecords]
    /\ \A s \in Secretaries :
          /\ edit[s].pc = "fetched" =>
                /\ edit[s].existing \in Row /\ Consistent(edit[s].existing)
                /\ edit[s].new \in RuleLists
                /\ edit[s].id \in DOMAIN rows
                /\ edit[s].id \in Ids => rows[edit[s].id].said = edit[s].existing.said
          /\ edit[s].pc = "inserting" => edit[s].found # {}

ReportInv ==
    /\ DOMAIN breaking \subseteq Ids
    /\ \A i \in DOMAIN breaking :
          /\ breaking[i] = [atoms |-> breaking[i].atoms, seen |-> breaking[i].seen]
          /\ breaking[i].atoms # {} /\ breaking[i].seen \in BOOLEAN

RestInv ==
    /\ pending \in BOOLEAN /\ unsent \in Nat
    /\ broken \in [Lecturers -> SUBSET Atomics]
    /\ failures \in 0 .. MaxFailures

StoreInv == RowsInv /\ TabsInv /\ EditsInv /\ ReportInv /\ RestInv

------------------------------------------------------------------------------
(* Rows *)

\* What a step may do to the rows: none comes back, none changes its lecturer
\* or the text that was saved with it, and what is new is in order.
RowsStep ==
    /\ RowsInv'
    /\ DOMAIN rows \subseteq DOMAIN rows'
    /\ \A i \in DOMAIN rows : rows'[i] # Gone =>
          /\ rows[i] # Gone
          /\ rows'[i].owner = rows[i].owner
          /\ rows'[i].said = rows[i].said

\* A sequence of rows is a function on its places.
LEMMA Places ==
    ASSUME RowsInv
    PROVE  /\ DOMAIN rows = 1 .. Len(rows) /\ Len(rows) \in Nat
           /\ \A i \in DOMAIN rows : rows[i] \in Row \cup {Gone}
           /\ \A i \in Ids : i \in DOMAIN rows /\ i \in Nat /\ rows[i] \in Row /\ rows[i] # Gone
<1>1. rows \in Seq(Row \cup {Gone})
  BY DEF RowsInv
<1>2. DOMAIN rows = 1 .. Len(rows) /\ Len(rows) \in Nat
  BY <1>1
<1>3. \A i \in DOMAIN rows : rows[i] \in Row \cup {Gone}
  BY <1>1, <1>2, ElementOfSeq
<1>4. QED
  BY <1>2, <1>3 DEF Ids

\* A step that leaves the rows is one that moves them properly.
LEMMA RowsUntouched ==
    ASSUME RowsInv, rows' = rows
    PROVE  RowsStep /\ Ids \subseteq Ids'
BY DEF RowsInv, RowsStep, Ids

\* A place is given a row that differs from the one it had in other fields.
LEMMA RowReplaced ==
    ASSUME RowsInv, NEW i \in DOMAIN rows, NEW r \in Row \cup {Gone},
           r # Gone => /\ Consistent(r) /\ rows[i] # Gone
                       /\ r.owner = rows[i].owner /\ r.said = rows[i].said,
           rows' = [rows EXCEPT ![i] = r]
    PROVE  RowsStep /\ (r # Gone => Ids \subseteq Ids')
<1> DEFINE n == Len(rows)
<1>1. rows \in Seq(Row \cup {Gone}) /\ i \in 1 .. n
  BY Places DEF RowsInv
<1>2. /\ rows' \in Seq(Row \cup {Gone}) /\ Len(rows') = n
      /\ \A j \in 1 .. n : rows'[j] = IF j = i THEN r ELSE rows[j]
  BY <1>1, ExceptSeq
<1>3. DOMAIN rows = 1 .. n /\ DOMAIN rows' = 1 .. n
  BY <1>1, <1>2
<1>4. \A j \in Ids' : j \in Ids /\ (rows'[j] = rows[j] \/ (rows'[j] = r /\ r # Gone))
  BY <1>2, <1>3 DEF Ids
<1>5. RowsInv'
  BY <1>2, <1>4 DEF RowsInv
<1>6. QED
  BY <1>2, <1>3, <1>5 DEF RowsStep, Ids

\* DELETE FROM constraints.
LEMMA RowDeleted ==
    ASSUME RowsInv, NEW i \in DOMAIN rows, rows' = [rows EXCEPT ![i] = Gone]
    PROVE  RowsStep
BY RowReplaced

\* INSERT INTO constraints, of a consistent row.
LEMMA RowAdded ==
    ASSUME RowsInv, NEW r \in Row, Consistent(r), rows' = Append(rows, r)
    PROVE  RowsStep /\ Ids \subseteq Ids'
<1> DEFINE n == Len(rows)
<1>1. rows \in Seq(Row \cup {Gone}) /\ r \in Row \cup {Gone}
  BY DEF RowsInv
<1>2. /\ rows' \in Seq(Row \cup {Gone}) /\ Len(rows') = n + 1
      /\ \A j \in 1 .. n : rows'[j] = rows[j]
      /\ rows'[n + 1] = r
  BY <1>1, AppendProperties
<1>3. DOMAIN rows = 1 .. n /\ DOMAIN rows' = 1 .. n + 1 /\ n \in Nat
  BY <1>1, <1>2
<1>4. \A j \in Ids' : (j \in Ids /\ rows'[j] = rows[j]) \/ rows'[j] = r
  BY <1>2, <1>3 DEF Ids
<1>5. RowsInv'
  BY <1>2, <1>4 DEF RowsInv
<1>6. QED
  BY <1>2, <1>3, <1>5 DEF RowsStep, Ids

\* An edit marks the row it has fetched, which may have been edited, overridden
\* or deleted since: what it takes for the original is the lecturer's text.
LEMMA MarkedIsConsistent ==
    ASSUME NEW row \in Row, NEW existing \in Row, NEW new \in RuleLists,
           Consistent(row), Consistent(existing), row.said = existing.said
    PROVE  LET r == MarkedAsEdited(row, existing, new) IN
           r \in Row /\ Consistent(r) /\ r.owner = row.owner /\ r.said = row.said
BY DEF MarkedAsEdited, Consistent, Row, RowTexts

\* The row that a confirmed save or a development route inserts is consistent.
LEMMA NewIsConsistent ==
    ASSUME NEW l \in Lecturers, NEW text \in RowTexts, text # {}, NEW rules \in RuleLists
    PROVE  NewRow(l, text, rules) \in Row /\ Consistent(NewRow(l, text, rules))
BY DEF NewRow, Consistent, Row, RowTexts

\* Steps that touch no row.
LEMMA SolverLeaves ==
    ASSUME SolverStep
    PROVE  UNCHANGED <<rows, tab, edit, confirmed, unsent>>
BY DEF SolverStep, Requested, RunCleans, RunFetches, RunSaves, RunResolves, RunFails,
       RunReadsRules, RunReports, RunAborts

\* The steps that take a row away: a save's, and the deletions on purpose.
Removes ==
    \/ \E t \in Tabs : SaveDeletes(t)
    \/ \E i \in Ids : DeleteRow(i) /\ Forgets(i) /\ UNCHANGED tab

\* Every operation moves the rows properly, and only some remove any.
LEMMA RowsMove ==
    ASSUME StoreInv, StoreNext
    PROVE  RowsStep /\ (Ids \subseteq Ids' \/ Removes)
<1> USE DEF StoreInv
<1>1. ASSUME NEW i \in Ids, DeleteRow(i), Forgets(i), UNCHANGED tab
      PROVE  RowsStep /\ Removes
  BY <1>1, RowDeleted DEF DeleteRow, Ids, Removes
<1>2. ASSUME NEW t \in Tabs, TabStep(t)
      PROVE  RowsStep /\ (Ids \subseteq Ids' \/ Removes)
  <2>1. CASE SaveDeletes(t)
    <3>1. PICK i \in tab[t].todo : DeleteRow(i)
      BY <2>1 DEF SaveDeletes
    <3>2. i \in DOMAIN rows
      BY DEF TabsInv
    <3>3. QED
      BY <2>1, <3>1, <3>2, RowDeleted DEF DeleteRow, Removes
  <2>2. CASE SaveCreates(t)
    <3>1. /\ tab[t].text \in RowTexts /\ tab[t].text # {}
          /\ tab[t].rules \in RuleLists /\ OwnerOf[t] \in Lecturers
      BY <2>2, StoreConstants DEF SaveCreates, TabsInv, TabRecords
    <3>2. QED
      BY <2>2, <3>1, NewIsConsistent, RowAdded DEF SaveCreates
  <2>3. ASSUME NEW i \in Ids, LecturerDeletes(t, i)
        PROVE  RowsStep /\ (Ids \subseteq Ids' \/ Removes)
    BY <2>3, <1>1 DEF LecturerDeletes
  <2>4. CASE UNCHANGED rows
    BY <2>4, RowsUntouched
  <2>5. QED
    BY <1>2, <2>1, <2>2, <2>3, <2>4
       DEF TabStep, PreviewReads, PreviewReturns, SaveLists, SaveFails
<1>3. ASSUME NEW s \in Secretaries, SecretaryStep(s)
      PROVE  RowsStep /\ (Ids \subseteq Ids' \/ Removes)
  <2>1. ASSUME NEW i \in Ids, NEW value \in {"none", "hard", "soft"}, SetOverride(s, i, value)
        PROVE  RowsStep /\ (Ids \subseteq Ids' \/ Removes)
    <3> DEFINE r == [rows[i] EXCEPT !.override = value]
    <3>1. rows' = [rows EXCEPT ![i] = r]
      BY <2>1 DEF SetOverride
    <3>2. rows[i] \in Row /\ Consistent(rows[i]) /\ rows[i] # Gone /\ i \in DOMAIN rows
      BY Places DEF RowsInv
    <3>3. r \in Row /\ Consistent(r) /\ r.owner = rows[i].owner /\ r.said = rows[i].said
      BY <3>2 DEF Row, Consistent
    <3> HIDE DEF r
    <3>4. QED
      BY <3>1, <3>2, <3>3, RowReplaced, StoreData
  <2>2. ASSUME NEW i \in Ids, SecretaryDeletes(s, i)
        PROVE  RowsStep /\ (Ids \subseteq Ids' \/ Removes)
    BY <2>2, <1>1 DEF SecretaryDeletes
  <2>3. CASE EditMarks(s) /\ edit[s].id \in Ids
    <3> DEFINE i == edit[s].id
               r == MarkedAsEdited(rows[i], edit[s].existing, edit[s].new)
    <3>1. rows' = [rows EXCEPT ![i] = r] /\ edit[s].pc = "fetched"
      BY <2>3 DEF EditMarks
    <3>2. rows[i] \in Row /\ Consistent(rows[i]) /\ rows[i] # Gone /\ i \in DOMAIN rows
      BY <2>3, Places DEF RowsInv
    <3>3. /\ edit[s].existing \in Row /\ Consistent(edit[s].existing)
          /\ edit[s].new \in RuleLists /\ rows[i].said = edit[s].existing.said
      BY <2>3, <3>1 DEF EditsInv
    <3>4. r \in Row /\ Consistent(r) /\ r.owner = rows[i].owner /\ r.said = rows[i].said
      BY <3>2, <3>3, MarkedIsConsistent
    <3>5. QED
      BY <3>1, <3>2, <3>4, RowReplaced, StoreData
  <2>4. CASE UNCHANGED rows
    BY <2>4, RowsUntouched
  <2>5. QED
    BY <1>3, <2>1, <2>2, <2>3, <2>4
       DEF SecretaryStep, EditFetches, EditMarks, RecomputeReads, RecomputeClears,
           RecomputeEvaluates, RecomputeInserts, RecomputeFails, EditTriggers, TriggerFails,
           MarkSeen,
           MarkAllSeen, PlaceSession, DeleteSession
<1>4. ASSUME DeveloperStep
      PROVE  RowsStep /\ (Ids \subseteq Ids' \/ Removes)
  <2>1. ASSUME NEW l \in Lecturers, NEW sentence \in Sentences, NEW rules \in RuleLists,
               NEW override \in {"none", "hard", "soft"},
               DevCreates(l, {sentence}, rules, override)
        PROVE  RowsStep /\ (Ids \subseteq Ids' \/ Removes)
    <3> DEFINE r == [NewRow(l, {sentence}, rules) EXCEPT !.override = override]
    <3>1. NewRow(l, {sentence}, rules) \in Row /\ Consistent(NewRow(l, {sentence}, rules))
      BY NewIsConsistent DEF RowTexts
    <3>2. r \in Row /\ Consistent(r)
      BY <3>1 DEF Row, Consistent
    <3>3. rows' = Append(rows, r)
      BY <2>1 DEF DevCreates
    <3>4. QED
      BY <3>2, <3>3, RowAdded
  <2>2. ASSUME NEW i \in Ids, DevDeletesConstraint(i)
        PROVE  RowsStep /\ (Ids \subseteq Ids' \/ Removes)
    BY <2>2, <1>1 DEF DevDeletesConstraint
  <2>3. CASE UNCHANGED rows
    BY <2>3, RowsUntouched
  <2>4. QED
    BY <1>4, <2>1, <2>2, <2>3 DEF DeveloperStep, DevPublishes, DevDeletes, DevClears
<1>5. QED
  BY <1>2, <1>3, <1>4, SolverLeaves, RowsUntouched DEF StoreNext

------------------------------------------------------------------------------
(* Saves *)

\* A tab is given record r, and its save has rows of its lecturer to delete.
LEMMA TabReplaced ==
    ASSUME TabsInv, RowsStep, NEW t \in Tabs, NEW r \in TabRecords,
           r.pc # "idle" => r.text # {},
           r.pc \in {"previewed", "saving"} => r.rules \in RuleLists,
           \A i \in r.todo : i \in DOMAIN rows /\ (rows[i] # Gone => rows[i].owner = OwnerOf[t]),
           tab' = [tab EXCEPT ![t] = r],
           confirmed' \in [Lecturers -> RowTexts]
    PROVE  TabsInv'
<1>1. tab' \in [Tabs -> TabRecords]
  BY DEF TabsInv
<1>2. ASSUME NEW u \in Tabs
      PROVE  /\ tab'[u].pc # "idle" => tab'[u].text # {}
             /\ tab'[u].pc \in {"previewed", "saving"} => tab'[u].rules \in RuleLists
             /\ \A i \in tab'[u].todo :
                   i \in DOMAIN rows' /\ (rows'[i] # Gone => rows'[i].owner = OwnerOf[u])
  <2>1. tab'[u] = IF u = t THEN r ELSE tab[u]
    BY DEF TabsInv
  <2>2. CASE u = t
    BY <2>1, <2>2 DEF RowsStep
  <2>3. CASE u # t
    BY <2>1, <2>3 DEF TabsInv, RowsStep
  <2>4. QED
    BY <2>2, <2>3
<1>3. QED
  BY <1>1, <1>2 DEF TabsInv

\* Saves under way are not affected by what others do to the rows.
LEMMA TabsUntouched ==
    ASSUME TabsInv, RowsStep, UNCHANGED tab, confirmed' \in [Lecturers -> RowTexts]
    PROVE  TabsInv'
BY DEF TabsInv, RowsStep

\* A delete changes what counts as saved for one lecturer only.
LEMMA ForgetsIsTyped ==
    ASSUME TabsInv, NEW i, Forgets(i)
    PROVE  confirmed' \in [Lecturers -> RowTexts]
BY DEF TabsInv, Forgets, RowTexts

\* Every operation keeps what is known of the saves under way.
LEMMA TabsMove ==
    ASSUME StoreInv, StoreNext, RowsStep
    PROVE  TabsInv'
<1> USE DEF StoreInv
<1>0. /\ confirmed \in [Lecturers -> RowTexts]
      /\ tab \in [Tabs -> TabRecords]
  BY DEF TabsInv
<1>1. ASSUME NEW t \in Tabs, TabStep(t)
      PROVE  TabsInv'
  <2> DEFINE l == OwnerOf[t]
  <2>0. l \in Lecturers /\ tab[t] \in TabRecords
    BY <1>0, StoreConstants
  <2>1. ASSUME NEW sentence \in Sentences, NEW isEdit \in BOOLEAN,
               PreviewReads(t, sentence, isEdit)
        PROVE  TabsInv'
    <3> DEFINE text == Combined({{sentence}} \cup
                  IF isEdit THEN {} ELSE {rows[i].text : i \in RowsOf(l)})
               r == [IdleTab EXCEPT !.pc = "previewing", !.text = text]
    <3>1. tab' = [tab EXCEPT ![t] = r] /\ UNCHANGED confirmed
      BY <2>1 DEF PreviewReads
    <3>2. \A i \in RowsOf(l) : rows[i].text \in RowTexts
      BY Places DEF RowsOf, Row
    <3>3. text \in RowTexts /\ text # {}
      BY <3>2 DEF RowTexts, Combined
    <3>4. IdleTab \in TabRecords /\ IdleTab.todo = {}
      BY DEF IdleTab, TabRecords, RowTexts
    <3> HIDE DEF text
    <3>5. r \in TabRecords /\ r.pc = "previewing" /\ r.text = text /\ r.todo = {}
      BY <3>3, <3>4 DEF TabRecords
    <3>6. QED
      BY <1>0, <3>1, <3>3, <3>5, TabReplaced
  <2>2. CASE PreviewReturns(t)
    <3>1. CASE tab' = [tab EXCEPT ![t] = IdleTab]
      <4>1. IdleTab \in TabRecords
        BY DEF IdleTab, TabRecords, RowTexts
      <4>2. QED
        BY <1>0, <2>2, <3>1, <4>1, TabReplaced DEF PreviewReturns, IdleTab
    <3>2. ASSUME NEW rules \in RuleLists,
                 tab' = [tab EXCEPT ![t].pc = "previewed", ![t].rules = rules]
          PROVE  TabsInv'
      <4> DEFINE r == [tab[t] EXCEPT !.pc = "previewed", !.rules = rules]
      <4>1. tab' = [tab EXCEPT ![t] = r] /\ UNCHANGED confirmed /\ tab[t].pc = "previewing"
        BY <1>0, <2>0, <2>2, <3>2 DEF PreviewReturns, TabRecords
      <4>2. /\ r \in TabRecords /\ r.pc = "previewed" /\ r.rules = rules
            /\ r.text = tab[t].text /\ r.todo = tab[t].todo /\ r.text # {}
        BY <2>0, <4>1 DEF TabRecords, TabsInv
      <4>3. \A i \in r.todo : i \in DOMAIN rows /\ (rows[i] # Gone => rows[i].owner = OwnerOf[t])
        BY <4>2 DEF TabsInv
      <4> HIDE DEF r
      <4>4. QED
        BY <1>0, <4>1, <4>2, <4>3, TabReplaced
    <3>3. QED
      BY <2>2, <3>1, <3>2 DEF PreviewReturns
  <2>3. CASE SaveLists(t)
    <3> DEFINE r == [tab[t] EXCEPT !.pc = "saving", !.todo = RowsOf(l)]
    <3>1. tab' = [tab EXCEPT ![t] = r] /\ UNCHANGED confirmed /\ tab[t].pc = "previewed"
      BY <1>0, <2>0, <2>3 DEF SaveLists, TabRecords
    <3>2. \A i \in RowsOf(l) : i \in DOMAIN rows /\ i \in Nat /\ rows[i].owner = l
      BY Places DEF RowsOf
    <3>3. /\ r \in TabRecords /\ r.pc = "saving" /\ r.todo = RowsOf(l)
          /\ r.text # {} /\ r.rules \in RuleLists
      BY <2>0, <3>1, <3>2 DEF TabRecords, TabsInv
    <3> HIDE DEF r
    <3>4. QED
      BY <1>0, <3>1, <3>2, <3>3, TabReplaced
  <2>4. CASE SaveDeletes(t)
    <3>1. PICK i \in tab[t].todo : tab' = [tab EXCEPT ![t].todo = @ \ {i}]
      BY <2>4 DEF SaveDeletes
    <3> DEFINE r == [tab[t] EXCEPT !.todo = @ \ {i}]
    <3>2. tab' = [tab EXCEPT ![t] = r]
      BY <1>0, <2>0, <3>1 DEF TabRecords
    <3>3. /\ r \in TabRecords /\ r.pc = tab[t].pc /\ r.text = tab[t].text
          /\ r.rules = tab[t].rules /\ r.todo \subseteq tab[t].todo /\ UNCHANGED confirmed
      BY <2>0, <2>4 DEF TabRecords, SaveDeletes
    <3>4. /\ r.pc # "idle" => r.text # {}
          /\ r.pc \in {"previewed", "saving"} => r.rules \in RuleLists
          /\ \A j \in r.todo : j \in DOMAIN rows /\ (rows[j] # Gone => rows[j].owner = l)
      BY <3>3 DEF TabsInv
    <3> HIDE DEF r
    <3>5. QED
      BY <1>0, <3>2, <3>3, <3>4, TabReplaced
  <2>5. CASE SaveCreates(t) \/ SaveFails(t)
    <3>1. IdleTab \in TabRecords /\ tab[t].text \in RowTexts /\ {} \in RowTexts
      BY <2>0 DEF IdleTab, TabRecords, RowTexts
    <3>2. tab' = [tab EXCEPT ![t] = IdleTab] /\ confirmed' \in [Lecturers -> RowTexts]
      BY <1>0, <2>0, <2>5, <3>1 DEF SaveCreates, SaveFails
    <3>3. QED
      BY <3>1, <3>2, TabReplaced DEF IdleTab
  <2>6. ASSUME NEW i \in Ids, LecturerDeletes(t, i)
        PROVE  TabsInv'
    BY <2>6, ForgetsIsTyped, TabsUntouched DEF LecturerDeletes
  <2>7. QED
    BY <1>1, <2>1, <2>2, <2>3, <2>4, <2>5, <2>6 DEF TabStep
<1>2. CASE UNCHANGED <<tab, confirmed>>
  BY <1>0, <1>2, TabsUntouched
<1>3. ASSUME NEW i, Forgets(i), UNCHANGED tab
      PROVE  TabsInv'
  BY <1>3, ForgetsIsTyped, TabsUntouched
<1>4. ASSUME NEW s \in Secretaries, SecretaryStep(s)
      PROVE  TabsInv'
  BY <1>2, <1>3, <1>4
     DEF SecretaryStep, SetOverride, SecretaryDeletes, EditFetches, EditMarks, RecomputeReads,
         RecomputeClears, RecomputeEvaluates, RecomputeInserts, RecomputeFails,
         EditTriggers, TriggerFails,
         MarkSeen, MarkAllSeen, PlaceSession, DeleteSession
<1>5. ASSUME DeveloperStep
      PROVE  TabsInv'
  BY <1>2, <1>3, <1>5
     DEF DeveloperStep, DevCreates, DevPublishes, DevDeletesConstraint, DevDeletes, DevClears
<1>6. QED
  BY <1>1, <1>2, <1>4, <1>5, SolverLeaves DEF StoreNext

------------------------------------------------------------------------------
(* Edits *)

\* A secretary's edit becomes record r.
LEMMA EditReplaced ==
    ASSUME EditsInv, RowsStep, NEW s \in Secretaries, NEW r \in EditRecords,
           r.pc = "fetched" =>
                /\ r.existing \in Row /\ Consistent(r.existing) /\ r.new \in RuleLists
                /\ r.id \in Ids /\ rows[r.id].said = r.existing.said,
           r.pc = "inserting" => r.found # {},
           edit' = [edit EXCEPT ![s] = r]
    PROVE  EditsInv'
<1>1. edit' \in [Secretaries -> EditRecords]
  BY DEF EditsInv
<1>2. ASSUME NEW u \in Secretaries
      PROVE  /\ edit'[u].pc = "fetched" =>
                  /\ edit'[u].existing \in Row /\ Consistent(edit'[u].existing)
                  /\ edit'[u].new \in RuleLists
                  /\ edit'[u].id \in DOMAIN rows'
                  /\ edit'[u].id \in Ids' => rows'[edit'[u].id].said = edit'[u].existing.said
             /\ edit'[u].pc = "inserting" => edit'[u].found # {}
  <2>1. edit'[u] = IF u = s THEN r ELSE edit[u]
    BY DEF EditsInv
  <2>2. CASE u = s
    BY <2>1, <2>2 DEF RowsStep, Ids
  <2>3. CASE u # s
    BY <2>1, <2>3 DEF EditsInv, RowsStep, Ids
  <2>4. QED
    BY <2>2, <2>3
<1>3. QED
  BY <1>1, <1>2 DEF EditsInv

\* Edits under way are not affected by what others do to the rows.
LEMMA EditsUntouched ==
    ASSUME EditsInv, RowsStep, UNCHANGED edit
    PROVE  EditsInv'
BY DEF EditsInv, RowsStep, Ids

\* A list of rules has its atomics at the indices from one on.
LEMMA RulesArePlaced ==
    ASSUME NEW rules \in RuleLists \cup {<< >>}
    PROVE  /\ DOMAIN rules = 1 .. Len(rules) /\ Len(rules) \in Nat
           /\ \A n \in DOMAIN rules : n \in Nat \ {0} /\ rules[n] \in Atomics
<1>1. rules \in Seq(Atomics)
  <2>1. << >> \in Seq(Atomics)
    OBVIOUS
  <2>2. RuleLists \subseteq Seq(Atomics)
    BY StoreConstants
  <2>3. QED
    BY <2>1, <2>2
<1>2. DOMAIN rules = 1 .. Len(rules) /\ Len(rules) \in Nat
  BY <1>1
<1>3. QED
  BY <1>1, <1>2, ElementOfSeq

\* What is reported of a row are pairs of an index and the atomic there.
LEMMA FoundIsTyped ==
    ASSUME NEW rules \in RuleLists \cup {<< >>}, NEW hit \in SUBSET (DOMAIN rules)
    PROVE  /\ AtomsAt(rules, hit) \in SUBSET ((Nat \ {0}) \X Atomics)
           /\ \A a \in AtomsAt(rules, hit) : a[1] \in DOMAIN rules
           /\ hit # {} => AtomsAt(rules, hit) # {}
<1>1. \A a \in AtomsAt(rules, hit) :
         \E n \in DOMAIN rules : a = <<n, rules[n]>> /\ n \in Nat \ {0} /\ rules[n] \in Atomics
  BY RulesArePlaced DEF AtomsAt
<1>2. \A n \in hit : <<n, rules[n]>> \in AtomsAt(rules, hit)
  BY DEF AtomsAt
<1>3. hit # {} => AtomsAt(rules, hit) # {}
  BY <1>2
<1>4. AtomsAt(rules, hit) \subseteq (Nat \ {0}) \X Atomics
  BY <1>1
<1>5. \A a \in AtomsAt(rules, hit) : a[1] \in DOMAIN rules
  BY <1>1
<1>6. QED
  BY <1>3, <1>4, <1>5

\* Every operation keeps what is known of the edits under way.
LEMMA EditsMove ==
    ASSUME StoreInv, StoreNext, RowsStep
    PROVE  EditsInv'
<1> USE DEF StoreInv
<1>0. edit \in [Secretaries -> EditRecords]
  BY DEF EditsInv
<1>1. ASSUME NEW s \in Secretaries, SecretaryStep(s)
      PROVE  EditsInv'
  <2>0. edit[s] \in EditRecords
    BY <1>0
  <2>1. IdleEdit \in EditRecords /\ IdleEdit.pc = "idle"
    BY DEF IdleEdit, EditRecords
  <2>2. CASE edit' = [edit EXCEPT ![s] = IdleEdit]
    BY <2>1, <2>2, EditReplaced
  <2>3. ASSUME NEW r \in EditRecords, r.pc \notin {"fetched", "inserting"},
               edit' = [edit EXCEPT ![s] = r]
        PROVE  EditsInv'
    BY <2>3, EditReplaced
  <2>4. ASSUME NEW i \in Ids, NEW new \in RuleLists, EditFetches(s, i, new)
        PROVE  EditsInv'
    <3> DEFINE r == [IdleEdit EXCEPT !.pc = "fetched", !.id = i, !.existing = rows[i],
                                     !.new = new]
    <3>1. edit' = [edit EXCEPT ![s] = r]
      BY <2>4 DEF EditFetches
    <3>2. i \in Nat /\ rows[i] \in Row /\ Consistent(rows[i])
      BY Places DEF RowsInv
    <3>3. /\ r \in EditRecords /\ r.pc = "fetched" /\ r.id = i
          /\ r.existing = rows[i] /\ r.new = new
      BY <2>1, <3>2 DEF EditRecords
    <3> HIDE DEF r
    <3>4. QED
      BY <3>1, <3>2, <3>3, EditReplaced
  <2>5. CASE EditMarks(s) /\ edit[s].id \in Ids
    <3>1. edit' = [edit EXCEPT ![s] = [edit[s] EXCEPT !.pc = "marked"]]
      BY <1>0, <2>5 DEF EditMarks
    <3>2. /\ [edit[s] EXCEPT !.pc = "marked"] \in EditRecords
          /\ [edit[s] EXCEPT !.pc = "marked"].pc = "marked"
      BY <2>0 DEF EditRecords
    <3>3. QED
      BY <2>3, <3>1, <3>2
  <2>6. CASE RecomputeReads(s)
    <3> DEFINE i == edit[s].id
               pc == IF i \in Ids THEN "clearing" ELSE "trigger"
               rules == IF i \in Ids THEN rows[i].rules ELSE << >>
               r == [edit[s] EXCEPT !.pc = pc, !.rules = rules]
    <3>1. edit' = [edit EXCEPT ![s] = r]
      BY <1>0, <2>6 DEF RecomputeReads
    <3>2. rules \in RuleLists \cup {<< >>} /\ pc \in {"clearing", "trigger"}
      BY Places DEF Row
    <3> HIDE DEF rules, pc
    <3>3. r \in EditRecords /\ r.pc = pc
      BY <2>0, <3>2 DEF EditRecords
    <3>4. QED
      BY <2>3, <3>1, <3>2, <3>3
  <2>7. CASE RecomputeClears(s)
    <3> DEFINE pc == IF edit[s].rules = << >> THEN "trigger" ELSE "evaluating"
               r == [edit[s] EXCEPT !.pc = pc]
    <3>1. edit' = [edit EXCEPT ![s] = r]
      BY <1>0, <2>7 DEF RecomputeClears
    <3>2. pc \in {"trigger", "evaluating"}
      OBVIOUS
    <3> HIDE DEF pc
    <3>3. r \in EditRecords /\ r.pc = pc
      BY <2>0, <3>2 DEF EditRecords
    <3>4. QED
      BY <2>3, <3>1, <3>2, <3>3
  <2>8. CASE RecomputeEvaluates(s)
    <3> DEFINE rules == edit[s].rules
               hit == {n \in DOMAIN rules : rules[n] \in broken[edit[s].existing.owner]}
               found == AtomsAt(rules, hit)
               pc == IF hit = {} THEN "trigger" ELSE "inserting"
               r == [edit[s] EXCEPT !.pc = pc, !.found = found]
    <3>1. edit' = [edit EXCEPT ![s] = r]
      BY <1>0, <2>8 DEF RecomputeEvaluates
    <3>2. rules \in RuleLists \cup {<< >>}
      BY <2>0 DEF EditRecords
    <3>3. found \in SUBSET ((Nat \ {0}) \X Atomics) /\ (hit # {} => found # {})
      BY <3>2, FoundIsTyped
    <3>4. pc \in {"trigger", "inserting"} /\ (pc = "inserting" => found # {})
      BY <3>3
    <3> HIDE DEF rules, found, pc
    <3>5. r \in EditRecords /\ r.pc = pc /\ r.found = found
      BY <2>0, <3>3, <3>4 DEF EditRecords
    <3> HIDE DEF r
    <3>6. QED
      BY <3>1, <3>4, <3>5, EditReplaced
  <2>9. CASE RecomputeInserts(s) \/ RecomputeFails(s)
    <3>1. edit' = [edit EXCEPT ![s] = [edit[s] EXCEPT !.pc = "trigger"]]
      BY <1>0, <2>9 DEF RecomputeInserts, RecomputeFails
    <3>2. /\ [edit[s] EXCEPT !.pc = "trigger"] \in EditRecords
          /\ [edit[s] EXCEPT !.pc = "trigger"].pc = "trigger"
      BY <2>0 DEF EditRecords
    <3>3. QED
      BY <2>3, <3>1, <3>2
  <2>10. CASE UNCHANGED edit
    BY <2>10, EditsUntouched
  <2>11. QED
    BY <1>1, <2>2, <2>4, <2>5, <2>6, <2>7, <2>8, <2>9, <2>10
       DEF SecretaryStep, SetOverride, SecretaryDeletes, EditMarks, EditTriggers, TriggerFails,
           MarkSeen, MarkAllSeen, PlaceSession, DeleteSession
<1>2. ASSUME NEW t \in Tabs, TabStep(t)
      PROVE  UNCHANGED edit
  BY <1>2 DEF TabStep, PreviewReads, PreviewReturns, SaveLists, SaveDeletes, SaveCreates,
              SaveFails, LecturerDeletes
<1>3. ASSUME DeveloperStep
      PROVE  UNCHANGED edit
  BY <1>3 DEF DeveloperStep, DevCreates, DevPublishes, DevDeletesConstraint, DevDeletes,
              DevClears
<1>4. QED
  BY <1>1, <1>2, <1>3, SolverLeaves, EditsUntouched DEF StoreNext

------------------------------------------------------------------------------
(* The report *)

\* What a step may do to the report.
ReportStep ==
    /\ ReportInv'
    /\ \A i \in DOMAIN breaking \cap DOMAIN breaking' :
          breaking'[i].atoms # breaking[i].atoms => ~breaking'[i].seen

\* A part of the report goes, at least that about rows which are deleted.
LEMMA ReportShrinks ==
    ASSUME ReportInv, NEW D \in SUBSET DOMAIN breaking, D \subseteq Ids',
           breaking' = Restrict(breaking, D)
    PROVE  ReportStep
<1>1. DOMAIN breaking' = D /\ \A i \in D : breaking'[i] = breaking[i]
  BY DEF Restrict
<1>2. QED
  BY <1>1 DEF ReportInv, ReportStep

\* The upsert of the report: a new row, or new atomics that are unseen.
LEMMA ReportGrows ==
    ASSUME ReportInv, NEW i \in Ids', NEW atoms, atoms # {}, Ids' = Ids,
           breaking' = Reported(i, atoms)
    PROVE  ReportStep
<1>1. /\ DOMAIN breaking' = {i} \cup DOMAIN breaking
      /\ \A j \in DOMAIN breaking' :
            breaking'[j] = IF j = i THEN [atoms |-> atoms, seen |-> FALSE] ELSE breaking[j]
  BY DEF Reported
<1>2. ASSUME NEW j \in DOMAIN breaking'
      PROVE  /\ breaking'[j] = [atoms |-> breaking'[j].atoms, seen |-> breaking'[j].seen]
             /\ breaking'[j].atoms # {} /\ breaking'[j].seen \in BOOLEAN
             /\ j \in DOMAIN breaking /\ breaking'[j].atoms # breaking[j].atoms =>
                   ~breaking'[j].seen
  <2>1. CASE j = i
    <3>1. breaking'[j] = [atoms |-> atoms, seen |-> FALSE]
      BY <1>1, <2>1
    <3>2. QED
      BY <3>1
  <2>2. CASE j # i
    BY <1>1, <2>2 DEF ReportInv
  <2>3. QED
    BY <2>1, <2>2
<1>3. DOMAIN breaking' \subseteq Ids'
  BY <1>1 DEF ReportInv
<1>4. QED
  BY <1>2, <1>3 DEF ReportInv, ReportStep

\* Rows come to be seen, and nothing else.
LEMMA ReportSeen ==
    ASSUME ReportInv, Ids' = Ids, DOMAIN breaking' = DOMAIN breaking,
           \A i \in DOMAIN breaking :
              breaking'[i] = breaking[i] \/ breaking'[i] = [breaking[i] EXCEPT !.seen = TRUE]
    PROVE  ReportStep
<1>1. \A i \in DOMAIN breaking :
         /\ breaking'[i] = [atoms |-> breaking'[i].atoms, seen |-> breaking'[i].seen]
         /\ breaking'[i].atoms = breaking[i].atoms /\ breaking'[i].seen \in BOOLEAN
  BY DEF ReportInv
<1>2. QED
  BY <1>1 DEF ReportInv, ReportStep

\* A step that removes no constraint and leaves the report.
LEMMA ReportUntouched ==
    ASSUME ReportInv, Ids \subseteq Ids', UNCHANGED breaking
    PROVE  ReportStep
BY DEF ReportInv, ReportStep

\* The cascade of a deleted constraint into the report.
LEMMA RowDeletedFromReport ==
    ASSUME RowsInv, ReportInv, NEW i \in DOMAIN rows, DeleteRow(i)
    PROVE  ReportStep
<1>1. rows \in Seq(Row \cup {Gone}) /\ i \in 1 .. Len(rows)
  BY Places DEF RowsInv
<1>2. /\ DOMAIN rows' = DOMAIN rows
      /\ \A j \in DOMAIN rows : j # i => rows'[j] = rows[j]
  BY <1>1, ExceptSeq DEF DeleteRow
<1>3. DOMAIN breaking \ {i} \subseteq Ids'
  BY <1>2 DEF ReportInv, Ids
<1>4. QED
  BY <1>3, ReportShrinks DEF DeleteRow

\* Every operation moves the report properly.
LEMMA ReportMoves ==
    ASSUME StoreInv, StoreNext
    PROVE  ReportStep
<1> USE DEF StoreInv
<1>1. ASSUME NEW i \in Ids, DeleteRow(i)
      PROVE  ReportStep
  BY <1>1, RowDeletedFromReport DEF Ids
<1>2. CASE UNCHANGED breaking
  <2>1. CASE Ids \subseteq Ids'
    BY <1>2, <2>1, ReportUntouched
  <2>2. ASSUME NEW t \in Tabs, SaveDeletes(t)
        PROVE  ReportStep
    BY <2>2, RowDeletedFromReport DEF SaveDeletes, TabsInv
  <2>3. QED
    BY <1>1, <2>1, <2>2, RowsMove DEF Removes
<1>3. ASSUME NEW D, UNCHANGED rows, breaking' = Restrict(breaking, DOMAIN breaking \cap D)
      PROVE  ReportStep
  <2>1. DOMAIN breaking \cap D \subseteq Ids'
    BY <1>3 DEF ReportInv, Ids
  <2>2. QED
    BY <1>3, <2>1, ReportShrinks
<1>4. ASSUME NEW D, UNCHANGED rows, breaking' = Restrict(breaking, DOMAIN breaking \ D)
      PROVE  ReportStep
  <2>1. DOMAIN breaking \ D \subseteq Ids'
    BY <1>4 DEF ReportInv, Ids
  <2>2. QED
    BY <1>4, <2>1, ReportShrinks
<1>5. ASSUME NEW t \in Tabs, TabStep(t)
      PROVE  ReportStep
  <2>1. CASE SaveDeletes(t)
    BY <2>1, RowDeletedFromReport DEF SaveDeletes, TabsInv
  <2>2. ASSUME NEW i \in Ids, LecturerDeletes(t, i)
        PROVE  ReportStep
    BY <2>2, <1>1 DEF LecturerDeletes
  <2>3. QED
    BY <1>2, <1>5, <2>1, <2>2
       DEF TabStep, PreviewReads, PreviewReturns, SaveLists, SaveCreates, SaveFails
<1>6. ASSUME NEW s \in Secretaries, SecretaryStep(s)
      PROVE  ReportStep
  <2>1. ASSUME NEW i \in Ids, SecretaryDeletes(s, i)
        PROVE  ReportStep
    BY <2>1, <1>1 DEF SecretaryDeletes
  <2>2. CASE RecomputeClears(s)
    BY <2>2, <1>4 DEF RecomputeClears
  <2>3. CASE RecomputeInserts(s)
    <3>1. edit[s].found # {} /\ Ids' = Ids
      BY <2>3 DEF RecomputeInserts, EditsInv, Ids
    <3>2. QED
      BY <2>3, <3>1, <1>2, ReportGrows DEF RecomputeInserts
  <2>4. ASSUME NEW i \in DOMAIN breaking, MarkSeen(s, i)
        PROVE  ReportStep
    <3>1. Ids' = Ids /\ DOMAIN breaking' = DOMAIN breaking
      BY <2>4 DEF MarkSeen, Ids
    <3>2. \A j \in DOMAIN breaking :
             breaking'[j] = IF j = i THEN [breaking[i] EXCEPT !.seen = TRUE] ELSE breaking[j]
      BY <2>4 DEF MarkSeen
    <3>3. QED
      BY <3>1, <3>2, ReportSeen
  <2>5. CASE MarkAllSeen(s)
    BY <2>5, ReportSeen DEF MarkAllSeen, Ids
  <2>6. QED
    BY <1>2, <1>6, <2>1, <2>2, <2>3, <2>4, <2>5
       DEF SecretaryStep, SetOverride, EditFetches, EditMarks, RecomputeReads, RecomputeEvaluates,
           RecomputeFails, EditTriggers, TriggerFails, PlaceSession, DeleteSession
<1>7. ASSUME DeveloperStep
      PROVE  ReportStep
  <2>1. ASSUME NEW i \in Ids, DevDeletesConstraint(i)
        PROVE  ReportStep
    BY <2>1, <1>1 DEF DevDeletesConstraint
  <2>2. ASSUME NEW i \in DOMAIN breaking, DevDeletes(i)
        PROVE  ReportStep
    BY <2>2, <1>4 DEF DevDeletes
  <2>3. CASE DevClears
    BY <2>3 DEF DevClears, ReportStep, ReportInv
  <2>4. QED
    BY <1>2, <1>7, <2>1, <2>2, <2>3 DEF DeveloperStep, DevCreates, DevPublishes
<1>8. ASSUME SolverStep
      PROVE  ReportStep
  <2>1. UNCHANGED rows
    BY <1>8, SolverLeaves
  <2>2. CASE RunCleans
    BY <2>1, <2>2, <1>3 DEF RunCleans
  <2>3. CASE RunResolves
    BY <2>1, <2>3, <1>4 DEF RunResolves
  <2>4. ASSUME NEW i \in DOMAIN rows, RunReports(i)
        PROVE  ReportStep
    BY <2>1, <2>4, <1>2, ReportGrows DEF RunReports, Ids
  <2>5. QED
    BY <2>1, <1>2, <1>8, <2>2, <2>3, <2>4
       DEF SolverStep, Requested, RunFetches, RunSaves, RunFails, RunReadsRules, RunAborts
<1>9. QED
  BY <1>5, <1>6, <1>7, <1>8 DEF StoreNext

------------------------------------------------------------------------------
(* The invariant *)

\* The failures are counted up to their bound.
Counted(n) == n' = n \/ (n < MaxFailures /\ n' = n + 1)

\* Every operation keeps the flags, the counts and the manual overlaps typed.
LEMMA RestMoves ==
    ASSUME StoreInv, StoreNext
    PROVE  RestInv'
<1>0. RestInv /\ MaxFailures \in Nat
  BY StoreConstants DEF StoreInv
<1>1. ASSUME pending' = pending \/ pending' = TRUE \/ pending' = FALSE,
             unsent' = unsent \/ unsent' = unsent + 1
                              \/ (unsent > 0 /\ unsent' = unsent - 1),
             Counted(failures),
             broken' = broken \/ broken' \in [Lecturers -> SUBSET Atomics]
      PROVE  RestInv'
  <2>1. pending' \in BOOLEAN
    BY <1>0, <1>1 DEF RestInv
  <2>2. unsent' \in Nat
    BY <1>0, <1>1 DEF RestInv
  <2>3. failures' \in 0 .. MaxFailures
    BY <1>0, <1>1 DEF RestInv, Counted
  <2>4. QED
    BY <1>0, <1>1, <2>1, <2>2, <2>3 DEF RestInv
<1>2. ASSUME NEW t \in Tabs, TabStep(t)
      PROVE  RestInv'
  BY <1>1, <1>2 DEF TabStep, PreviewReads, PreviewReturns, SaveLists, SaveDeletes, SaveCreates,
                    SaveFails, LecturerDeletes, Counted
<1>3. ASSUME NEW s \in Secretaries, SecretaryStep(s)
      PROVE  RestInv'
  <2>1. broken' = broken \/ broken' \in [Lecturers -> SUBSET Atomics]
    <3>1. ASSUME NEW l \in Lecturers, NEW b \in SUBSET Atomics,
                 broken' = [broken EXCEPT ![l] = b]
          PROVE  broken' \in [Lecturers -> SUBSET Atomics]
      BY <1>0, <3>1 DEF RestInv
    <3>2. ASSUME NEW l \in Lecturers, DeleteSession(s, l)
          PROVE  \E b \in SUBSET Atomics : broken' = [broken EXCEPT ![l] = b]
      BY <1>0, <3>2 DEF DeleteSession, RestInv
    <3>3. QED
      BY <1>3, <3>1, <3>2
         DEF SecretaryStep, SetOverride, SecretaryDeletes, EditFetches, EditMarks,
             RecomputeReads, RecomputeClears, RecomputeEvaluates, RecomputeInserts,
             RecomputeFails, EditTriggers, TriggerFails, MarkSeen, MarkAllSeen, PlaceSession
  <2>2. /\ pending' = pending \/ pending' = TRUE
        /\ unsent' = unsent
        /\ Counted(failures)
    BY <1>3 DEF SecretaryStep, SetOverride, SecretaryDeletes, EditFetches, EditMarks,
           RecomputeReads, RecomputeClears, RecomputeEvaluates, RecomputeInserts, RecomputeFails,
           EditTriggers, TriggerFails, MarkSeen, MarkAllSeen, PlaceSession, DeleteSession, Counted
  <2>3. QED
    BY <1>1, <2>1, <2>2
<1>4. ASSUME DeveloperStep
      PROVE  RestInv'
  BY <1>1, <1>4 DEF DeveloperStep, DevCreates, DevPublishes, DevDeletesConstraint, DevDeletes,
                    DevClears, Counted
<1>5. ASSUME SolverStep
      PROVE  RestInv'
  BY <1>1, <1>5 DEF SolverStep, Requested, RunCleans, RunFetches, RunSaves, RunResolves,
                    RunFails, RunReadsRules, RunReports, RunAborts, Counted
<1>6. QED
  BY <1>2, <1>3, <1>4, <1>5 DEF StoreNext

\* The first rows are as they were saved.
LEMMA FirstRowsConsistent ==
    ASSUME StoreInit
    PROVE  RowsInv
<1>1. rows \in Seq(Row)
  BY StoreData DEF StoreInit
<1>2. rows \in Seq(Row \cup {Gone})
  BY <1>1, SeqMonotonic
<1>3. ASSUME NEW i \in Ids
      PROVE  Consistent(rows[i])
  <2>1. rows[i].said # {} /\ rows[i] = NewRow(rows[i].owner, rows[i].said, rows[i].rules)
    BY StoreData DEF StoreInit, Ids
  <2>2. QED
    BY <2>1 DEF NewRow, Consistent
<1>4. QED
  BY <1>2, <1>3 DEF RowsInv

\* The invariant holds of the rows the store may begin with.
LEMMA StoreInvInit ==
    ASSUME StoreInit
    PROVE  StoreInv
<1>1. RowsInv
  BY FirstRowsConsistent
<1>2. confirmed \in [Lecturers -> RowTexts]
  <2>1. ASSUME NEW l \in Lecturers
        PROVE  (IF RowsOf(l) = {} THEN {} ELSE rows[CHOOSE i \in RowsOf(l) : TRUE].said)
                  \in RowTexts
    <3>1. \A i \in RowsOf(l) : rows[i].said \in RowTexts
      BY <1>1, Places DEF RowsOf, Row
    <3>2. RowsOf(l) # {} => (CHOOSE i \in RowsOf(l) : TRUE) \in RowsOf(l)
      OBVIOUS
    <3>3. QED
      BY <3>1, <3>2 DEF RowTexts
  <2>2. QED
    BY <2>1 DEF StoreInit
<1>3. TabsInv
  <2>1. IdleTab \in TabRecords /\ IdleTab.pc = "idle" /\ IdleTab.todo = {}
    BY DEF IdleTab, TabRecords, RowTexts
  <2>2. tab = [t \in Tabs |-> IdleTab]
    BY DEF StoreInit
  <2>3. QED
    BY <1>2, <2>1, <2>2 DEF TabsInv
<1>4. EditsInv
  <2>1. IdleEdit \in EditRecords /\ IdleEdit.pc = "idle"
    BY DEF IdleEdit, EditRecords
  <2>2. edit = [s \in Secretaries |-> IdleEdit]
    BY DEF StoreInit
  <2>3. QED
    BY <2>1, <2>2 DEF EditsInv
<1>5. ReportInv
  BY DEF StoreInit, ReportInv
<1>6. RestInv
  <2>1. pending \in BOOLEAN /\ broken \in [Lecturers -> SUBSET Atomics]
    BY DEF StoreInit
  <2>2. unsent \in Nat /\ failures \in 0 .. MaxFailures
    BY StoreConstants DEF StoreInit
  <2>3. QED
    BY <2>1, <2>2 DEF RestInv
<1>7. QED
  BY <1>1, <1>3, <1>4, <1>5, <1>6 DEF StoreInv

\* Every operation keeps the invariant.
LEMMA StoreInvStep ==
    ASSUME StoreInv, [StoreNext]_storeVars
    PROVE  StoreInv'
<1>1. CASE StoreNext
  <2>1. RowsStep
    BY <1>1, RowsMove
  <2>2. RowsInv' /\ TabsInv' /\ EditsInv' /\ ReportInv' /\ RestInv'
    BY <1>1, <2>1, TabsMove, EditsMove, ReportMoves, RestMoves DEF RowsStep, ReportStep
  <2>3. QED
    BY <2>2 DEF StoreInv
<1>2. CASE UNCHANGED storeVars
  BY <1>2 DEF storeVars, StoreInv, RowsInv, TabsInv, EditsInv, ReportInv, RestInv, Ids
<1>3. QED
  BY <1>1, <1>2

\* The text a lecturer saved last, step by step.
LEMMA SavedStep ==
    ASSUME StoreInv, SavedIsKept, [StoreNext]_storeVars
    PROVE  SavedIsKept'
<1> USE DEF StoreInv
<1>1. CASE UNCHANGED storeVars
  BY <1>1 DEF storeVars, SavedIsKept, Saving, RowsOf, Ids
<1>2. CASE StoreNext
  <2>1. RowsStep /\ (Ids \subseteq Ids' \/ Removes)
    BY <1>2, RowsMove
  <2>2. /\ \A i \in Ids : i \in DOMAIN rows
        /\ \A i \in Ids \cap Ids' : rows'[i].owner = rows[i].owner /\ rows'[i].said = rows[i].said
    BY <2>1 DEF RowsStep, Ids
  <2>3. /\ tab \in [Tabs -> TabRecords] /\ confirmed \in [Lecturers -> RowTexts]
        /\ OwnerOf \in [Tabs -> Lecturers]
    BY StoreConstants DEF TabsInv
  <2>4. ASSUME \A t \in Tabs : tab[t].pc = "saving" => tab'[t].pc = "saving",
               UNCHANGED confirmed, Ids \subseteq Ids'
        PROVE  SavedIsKept'
    <3>1. ASSUME NEW l \in Lecturers, confirmed'[l] # {}, ~Saving(l)'
          PROVE  \E i \in RowsOf(l)' : rows'[i].said = confirmed'[l]
      <4>1. ~Saving(l)
        BY <2>4, <3>1 DEF Saving
      <4>2. PICK i \in RowsOf(l) : rows[i].said = confirmed[l]
        BY <2>4, <3>1, <4>1 DEF SavedIsKept
      <4>3. i \in RowsOf(l)' /\ rows'[i].said = confirmed'[l]
        BY <2>2, <2>4, <4>2 DEF RowsOf
      <4>4. QED
        BY <4>3
    <3>2. QED
      BY <3>1 DEF SavedIsKept
  <2>5. ASSUME NEW t \in Tabs, SaveDeletes(t)
        PROVE  SavedIsKept'
    <3>1. PICK i \in tab[t].todo :
             DeleteRow(i) /\ tab' = [tab EXCEPT ![t].todo = tab[t].todo \ {i}]
      BY <2>5 DEF SaveDeletes
    <3>2. /\ \A u \in Tabs : tab'[u].pc = tab[u].pc
          /\ tab[t].pc = "saving" /\ UNCHANGED confirmed
      BY <2>3, <2>5, <3>1 DEF SaveDeletes, TabRecords
    <3>3. /\ i \in DOMAIN rows /\ (rows[i] # Gone => rows[i].owner = OwnerOf[t])
          /\ \A j \in Ids : j # i => j \in Ids'
      BY <3>1 DEF TabsInv, DeleteRow, Ids
    <3>4. ASSUME NEW l \in Lecturers, confirmed'[l] # {}, ~Saving(l)'
          PROVE  \E j \in RowsOf(l)' : rows'[j].said = confirmed'[l]
      <4>1. ~Saving(l) /\ l # OwnerOf[t]
        BY <3>2, <3>4 DEF Saving
      <4>2. PICK j \in RowsOf(l) : rows[j].said = confirmed[l]
        BY <3>2, <3>4, <4>1 DEF SavedIsKept
      <4>3. j # i /\ j \in Ids
        BY <3>3, <4>1, <4>2 DEF RowsOf, Ids
      <4>4. j \in RowsOf(l)' /\ rows'[j].said = confirmed'[l]
        BY <2>2, <3>2, <3>3, <4>2, <4>3 DEF RowsOf
      <4>5. QED
        BY <4>4
    <3>5. QED
      BY <3>4 DEF SavedIsKept
  <2>6. ASSUME NEW i \in Ids, DeleteRow(i), Forgets(i), UNCHANGED tab
        PROVE  SavedIsKept'
    <3>1. \A j \in Ids : j # i => j \in Ids'
      BY <2>6 DEF DeleteRow, Ids
    <3>2. ASSUME NEW l \in Lecturers, confirmed'[l] # {}, ~Saving(l)'
          PROVE  \E j \in RowsOf(l)' : rows'[j].said = confirmed'[l]
      <4>1. confirmed'[l] = confirmed[l] /\ ~Saving(l)
        BY <2>3, <2>6, <3>2 DEF Forgets, Saving
      <4>2. PICK j \in RowsOf(l) : rows[j].said = confirmed[l]
        BY <3>2, <4>1 DEF SavedIsKept
      <4>3. j # i
        BY <2>3, <2>6, <3>2, <4>1, <4>2 DEF Forgets, RowsOf
      <4>4. j \in RowsOf(l)' /\ rows'[j].said = confirmed'[l]
        BY <2>2, <3>1, <4>1, <4>2, <4>3 DEF RowsOf
      <4>5. QED
        BY <4>4
    <3>3. QED
      BY <3>2 DEF SavedIsKept
  <2>7. ASSUME NEW t \in Tabs, SaveCreates(t)
        PROVE  SavedIsKept'
    <3> DEFINE r == NewRow(OwnerOf[t], tab[t].text, tab[t].rules)
               n == Len(rows) + 1
    <3>1. /\ tab[t].text \in RowTexts /\ tab[t].text # {}
          /\ tab[t].rules \in RuleLists /\ OwnerOf[t] \in Lecturers
      BY <2>3, <2>7 DEF SaveCreates, TabsInv, TabRecords
    <3>2. r \in Row /\ r # Gone /\ r.owner = OwnerOf[t] /\ r.said = tab[t].text
      BY <3>1, NewIsConsistent, StoreData DEF NewRow
    <3>3. rows \in Seq(Row \cup {Gone}) /\ rows' = Append(rows, r)
      BY <2>7 DEF RowsInv, SaveCreates
    <3> HIDE DEF r
    <3>4. /\ Ids \subseteq Ids' /\ n \in Ids' /\ rows'[n] = r
      <4>1. Ids \subseteq Ids'
        BY <3>1, <3>2, <3>3, NewIsConsistent, RowAdded DEF r
      <4>2. rows'[n] = r /\ n \in DOMAIN rows'
        BY <3>2, <3>3, AppendProperties
      <4>3. QED
        BY <3>2, <4>1, <4>2 DEF Ids
    <3>5. ASSUME NEW l \in Lecturers, confirmed'[l] # {}, ~Saving(l)'
          PROVE  \E j \in RowsOf(l)' : rows'[j].said = confirmed'[l]
      <4>1. CASE l = OwnerOf[t]
        <5>1. confirmed'[l] = tab[t].text
          BY <2>3, <2>7, <4>1 DEF SaveCreates
        <5>2. n \in RowsOf(l)' /\ rows'[n].said = confirmed'[l]
          BY <3>2, <3>4, <4>1, <5>1 DEF RowsOf
        <5>3. QED
          BY <5>2
      <4>2. CASE l # OwnerOf[t]
        <5>1. confirmed'[l] = confirmed[l] /\ ~Saving(l)
          BY <2>3, <2>7, <3>5, <4>2 DEF SaveCreates, Saving
        <5>2. PICK j \in RowsOf(l) : rows[j].said = confirmed[l]
          BY <3>5, <5>1 DEF SavedIsKept
        <5>3. j \in RowsOf(l)' /\ rows'[j].said = confirmed'[l]
          BY <2>2, <3>4, <5>1, <5>2 DEF RowsOf
        <5>4. QED
          BY <5>3
      <4>3. QED
        BY <4>1, <4>2
    <3>6. QED
      BY <3>5 DEF SavedIsKept
  <2>8. ASSUME NEW t \in Tabs, SaveFails(t)
        PROVE  SavedIsKept'
    <3>1. /\ UNCHANGED rows /\ tab' = [tab EXCEPT ![t] = IdleTab]
          /\ confirmed' = [confirmed EXCEPT ![OwnerOf[t]] =
                IF \E i \in RowsOf(OwnerOf[t]) : rows[i].said = confirmed[OwnerOf[t]]
                THEN confirmed[OwnerOf[t]] ELSE {}]
      BY <2>8 DEF SaveFails
    <3>2. \A l : RowsOf(l)' = RowsOf(l)
      BY <3>1 DEF RowsOf, Ids
    <3>3. ASSUME NEW l \in Lecturers, confirmed'[l] # {}, ~Saving(l)'
          PROVE  \E j \in RowsOf(l)' : rows'[j].said = confirmed'[l]
      <4>1. CASE l = OwnerOf[t]
        BY <2>3, <3>1, <3>2, <3>3, <4>1
      <4>2. CASE l # OwnerOf[t]
        <5>1. confirmed'[l] = confirmed[l] /\ ~Saving(l)
          BY <2>3, <3>1, <3>3, <4>2 DEF Saving
        <5>2. QED
          BY <3>1, <3>2, <3>3, <5>1 DEF SavedIsKept
      <4>3. QED
        BY <4>1, <4>2
    <3>4. QED
      BY <3>3 DEF SavedIsKept
  <2>9. ASSUME NEW t \in Tabs,
               \/ \E sentence \in Sentences, isEdit \in BOOLEAN : PreviewReads(t, sentence, isEdit)
               \/ PreviewReturns(t) \/ SaveLists(t)
        PROVE  SavedIsKept'
    <3>1. UNCHANGED <<rows, confirmed>>
      BY <2>9 DEF PreviewReads, PreviewReturns, SaveLists
    <3>2. tab[t].pc # "saving" \/ tab'[t].pc = "saving"
      BY <2>3, <2>9 DEF PreviewReads, PreviewReturns, SaveLists
    <3>3. \A u \in Tabs \ {t} : tab'[u] = tab[u]
      BY <2>3, <2>9 DEF PreviewReads, PreviewReturns, SaveLists
    <3>4. QED
      BY <2>4, <3>1, <3>2, <3>3 DEF Ids
  <2>10. CASE UNCHANGED <<tab, confirmed>>
    BY <2>1, <2>4, <2>5, <2>6, <2>10 DEF Removes
  <2>11. ASSUME NEW t \in Tabs, TabStep(t)
         PROVE  SavedIsKept'
    BY <2>5, <2>6, <2>7, <2>8, <2>9, <2>11 DEF TabStep, LecturerDeletes
  <2>12. ASSUME NEW s \in Secretaries, SecretaryStep(s)
         PROVE  SavedIsKept'
    BY <2>6, <2>10, <2>12
       DEF SecretaryStep, SetOverride, SecretaryDeletes, EditFetches, EditMarks, RecomputeReads,
           RecomputeClears, RecomputeEvaluates, RecomputeInserts, RecomputeFails,
           EditTriggers, TriggerFails,
           MarkSeen, MarkAllSeen, PlaceSession, DeleteSession
  <2>13. ASSUME DeveloperStep
         PROVE  SavedIsKept'
    BY <2>6, <2>10, <2>13 DEF DeveloperStep, DevCreates, DevPublishes, DevDeletesConstraint,
                              DevDeletes, DevClears
  <2>14. QED
    BY <1>2, <2>10, <2>11, <2>12, <2>13, SolverLeaves DEF StoreNext
<1>3. QED
  BY <1>1, <1>2

\* Whatever tabs, secretaries, developers and the solver do to the rows, and in
\* whatever order their statements fall, StoreInv holds.
THEOREM StoreInvariant == StoreSpec => []StoreInv
BY StoreInvInit, StoreInvStep, PTL DEF StoreSpec

------------------------------------------------------------------------------
(* What follows *)

\* Types, and the foreign key: a row of the report is about a constraint that is
\* there.
THEOREM StoreIsTyped == StoreSpec => []StoreTypeOK
<1>1. StoreInv => StoreTypeOK
  <2> SUFFICES ASSUME StoreInv PROVE StoreTypeOK
    OBVIOUS
  <2>1. \A i \in DOMAIN rows : rows[i] \in Row \cup {Gone}
    BY Places DEF StoreInv
  <2>2. \A t \in Tabs : tab[t].todo \subseteq DOMAIN rows /\ tab[t].text \in RowTexts
    BY DEF StoreInv, TabsInv, TabRecords
  <2>3. QED
    BY <2>1, <2>2 DEF StoreInv, ReportInv, RestInv, StoreTypeOK
<1>2. QED
  BY <1>1, StoreInvariant, PTL

\* An edited constraint keeps the text its lecturer saved, however many edits
\* overlap and whatever is overridden or saved meanwhile.
THEOREM OriginalIsKept == StoreSpec => []OriginalIsTheLecturers
<1>1. StoreInv => OriginalIsTheLecturers
  BY DEF StoreInv, RowsInv, Consistent, OriginalIsTheLecturers
<1>2. QED
  BY <1>1, StoreInvariant, PTL

\* Nobody, the solver or a secretary's edit, changes what a row of the report
\* says without marking it as unseen.
THEOREM ChangeIsUnseen == StoreSpec => ChangedReportIsUnseen
<1> DEFINE Step == \A i \in DOMAIN breaking \cap DOMAIN breaking' :
                      breaking'[i].atoms # breaking[i].atoms => ~breaking'[i].seen
<1>1. ASSUME StoreInv, [StoreNext]_storeVars
      PROVE  [Step]_storeVars
  BY <1>1, ReportMoves DEF ReportStep
<1>2. QED
  BY <1>1, StoreInvariant, PTL DEF StoreSpec, ChangedReportIsUnseen

\* However the saves of a lecturer interleave, in any number of tabs, with each
\* other and with everybody else, what was saved last is stored.
THEOREM SavedTextIsKept == StoreSpec => []SavedIsKept
<1>1. StoreInit => SavedIsKept
  <2> SUFFICES ASSUME StoreInit, NEW l \in Lecturers, confirmed[l] # {}
               PROVE  \E i \in RowsOf(l) : rows[i].said = confirmed[l]
    BY DEF SavedIsKept
  <2>1. confirmed[l] = IF RowsOf(l) = {} THEN {} ELSE rows[CHOOSE i \in RowsOf(l) : TRUE].said
    BY DEF StoreInit
  <2>2. RowsOf(l) # {}
    BY <2>1
  <2>3. (CHOOSE i \in RowsOf(l) : TRUE) \in RowsOf(l)
    BY <2>2
  <2>4. QED
    BY <2>1, <2>2, <2>3
<1>2. QED
  BY <1>1, SavedStep, StoreInvariant, PTL DEF StoreSpec

------------------------------------------------------------------------------
(* Runs *)

\* A sequence that was made of the rows at some time before: what was gone then
\* is gone now.
Older(rs) ==
    /\ DOMAIN rs \subseteq DOMAIN rows
    /\ \A i \in DOMAIN rs : rs[i] = Gone => rows[i] = Gone

\* Quiet, but for edits that have not changed anything yet.
Settled ==
    /\ ~pending /\ run.pc = "idle" /\ failures = 0
    /\ \A s \in Secretaries : edit[s].pc \in {"idle", "fetched"}
    /\ solved = RulesOf(rows)

NothingReported == DOMAIN breaking = {}

RunInv ==
    /\ DOMAIN run = {"pc", "rows", "conflicts", "details"}
    /\ \A i \in DOMAIN run.rows : run.rows[i] \in Row \cup {Gone}
    /\ Older(run.rows) /\ Older(solved)
    /\ run.pc = "reporting" => solved = << >>
    /\ Settled => NothingReported

\* A step that neither ends a run or an edit nor changes rules.
LEMMA SettledBefore ==
    ASSUME RunInv, UNCHANGED <<solved, failures, run, pending>>,
           RulesOf(rows)' = RulesOf(rows),
           \A s \in Secretaries :
              edit'[s].pc \in {"idle", "fetched"} => edit[s].pc \in {"idle", "fetched"},
           DOMAIN breaking' \subseteq DOMAIN breaking
    PROVE  Settled' => NothingReported'
BY DEF RunInv, Settled, NothingReported

\* Rules that a row has lost, or that a row brings along, were never solved.
LEMMA NewRulesAreUnsolved ==
    ASSUME RowsInv, RowsStep, Older(solved), UNCHANGED solved,
           \/ DOMAIN rows' # DOMAIN rows
           \/ \E i \in Ids : rows'[i] = Gone
    PROVE  ~Settled'
<1> SUFFICES ASSUME solved = RulesOf(rows)'
             PROVE  FALSE
  BY DEF Settled
<1>1. DOMAIN solved = DOMAIN rows'
  BY DEF RulesOf
<1>2. DOMAIN rows' = DOMAIN rows
  BY <1>1 DEF Older, RowsStep
<1>3. PICK i \in Ids : rows'[i] = Gone
  BY <1>2
<1>4. solved[i] = Gone
  BY <1>2, <1>3 DEF RulesOf, Ids
<1>5. QED
  BY <1>1, <1>2, <1>3, <1>4 DEF Older, Ids

\* What a run read stays older than the rows.
LEMMA OlderStays ==
    ASSUME RowsStep, NEW rs, Older(rs)
    PROVE  /\ DOMAIN rs \subseteq DOMAIN rows'
           /\ \A i \in DOMAIN rs : rs[i] = Gone => rows'[i] = Gone
BY DEF Older, RowsStep

\* Once a run has resolved and nobody else is at work, no step reports a block.
LEMMA SettledStep ==
    ASSUME StoreInv, RunInv, StoreNext
    PROVE  Settled' => NothingReported'
<1> USE DEF StoreInv
<1>1. RowsStep /\ Older(solved)
  BY RowsMove DEF RunInv
<1>2. CASE failures' # 0 \/ pending' \/ run'.pc # "idle"
  BY <1>2 DEF Settled
<1>3. ASSUME NEW i \in Ids, DeleteRow(i), UNCHANGED solved
      PROVE  Settled' => NothingReported'
  <2>1. rows'[i] = Gone
    BY <1>3 DEF DeleteRow, Ids
  <2>2. QED
    BY <1>1, <1>3, <2>1, NewRulesAreUnsolved
<1>4. ASSUME NEW r \in Row, rows' = Append(rows, r), UNCHANGED solved
      PROVE  Settled' => NothingReported'
  <2>1. rows \in Seq(Row \cup {Gone}) /\ r \in Row \cup {Gone}
    BY DEF RowsInv
  <2>2. Len(rows') = Len(rows) + 1 /\ rows' \in Seq(Row \cup {Gone})
    BY <1>4, <2>1, AppendProperties
  <2>3. DOMAIN rows' # DOMAIN rows
    BY <2>1, <2>2
  <2>4. QED
    BY <1>1, <1>4, <2>3, NewRulesAreUnsolved
<1>5. CASE UNCHANGED <<rows, breaking, edit, run, pending, solved, failures>>
  BY <1>5, SettledBefore DEF RulesOf
<1>6. failures \in Nat
  BY DEF RestInv
<1>7. ASSUME NEW t \in Tabs, TabStep(t)
      PROVE  Settled' => NothingReported'
  <2>1. CASE SaveDeletes(t)
    <3>1. PICK i \in tab[t].todo : DeleteRow(i)
      BY <2>1 DEF SaveDeletes
    <3>2. i \in DOMAIN rows /\ UNCHANGED <<solved, failures, run, pending, edit>>
      BY <2>1 DEF SaveDeletes, TabsInv
    <3>3. CASE i \in Ids
      BY <1>3, <3>1, <3>2, <3>3
    <3>4. CASE i \notin Ids
      <4>1. rows' = rows
        BY <3>1, <3>2, <3>4 DEF DeleteRow, Ids, RowsInv
      <4>2. DOMAIN breaking' \subseteq DOMAIN breaking
        BY <3>1 DEF DeleteRow, Restrict
      <4>3. QED
        BY <3>2, <4>1, <4>2, SettledBefore DEF RulesOf
    <3>5. QED
      BY <3>3, <3>4
  <2>2. CASE SaveCreates(t)
    <3>1. /\ tab[t].text \in RowTexts /\ tab[t].text # {}
          /\ tab[t].rules \in RuleLists /\ OwnerOf[t] \in Lecturers
      BY <2>2, StoreConstants DEF SaveCreates, TabsInv, TabRecords
    <3>2. QED
      BY <1>4, <2>2, <3>1, NewIsConsistent DEF SaveCreates
  <2>3. CASE SaveFails(t)
    BY <1>2, <1>6, <2>3 DEF SaveFails
  <2>4. ASSUME NEW i \in Ids, LecturerDeletes(t, i)
        PROVE  Settled' => NothingReported'
    BY <1>3, <2>4 DEF LecturerDeletes
  <2>5. QED
    BY <1>5, <1>7, <2>1, <2>2, <2>3, <2>4 DEF TabStep, PreviewReads, PreviewReturns, SaveLists
<1>8. ASSUME NEW s \in Secretaries, SecretaryStep(s)
      PROVE  Settled' => NothingReported'
  <2>1. edit \in [Secretaries -> EditRecords]
    BY DEF EditsInv
  <2>2. ASSUME NEW i \in Ids, NEW value \in {"none", "hard", "soft"}, SetOverride(s, i, value)
        PROVE  Settled' => NothingReported'
    <3>1. /\ rows' = [rows EXCEPT ![i] = [rows[i] EXCEPT !.override = value]]
          /\ UNCHANGED <<breaking, solved, failures, run, pending, edit>>
      BY <2>2 DEF SetOverride
    <3>2. DOMAIN rows' = DOMAIN rows
      BY <3>1
    <3>3. /\ rows[i] \in Row /\ rows[i] # Gone
          /\ [rows[i] EXCEPT !.override = value] \in Row
          /\ [rows[i] EXCEPT !.override = value].rules = rows[i].rules
      BY Places DEF Row
    <3>4. \A j \in DOMAIN rows : /\ rows'[j] = Gone <=> rows[j] = Gone
                                 /\ rows[j] # Gone => rows'[j].rules = rows[j].rules
      BY <3>1, <3>3, StoreData
    <3>5. RulesOf(rows)' = RulesOf(rows)
      BY <3>2, <3>4 DEF RulesOf
    <3>6. QED
      BY <3>1, <3>5, SettledBefore
  <2>3. ASSUME NEW i \in Ids, SecretaryDeletes(s, i)
        PROVE  Settled' => NothingReported'
    BY <1>3, <2>3 DEF SecretaryDeletes
  <2>4. ASSUME edit'[s].pc \notin {"idle", "fetched"}
        PROVE  ~Settled'
    BY <2>4 DEF Settled
  <2>5. ASSUME edit[s].pc \in {"idle", "fetched"},
               \A u \in Secretaries \ {s} : edit'[u] = edit[u],
               UNCHANGED <<rows, breaking, run, pending, solved, failures>>
        PROVE  Settled' => NothingReported'
    BY <2>5, SettledBefore DEF RulesOf
  <2>6. ASSUME NEW i \in Ids, NEW new \in RuleLists, EditFetches(s, i, new)
        PROVE  Settled' => NothingReported'
    BY <2>1, <2>5, <2>6 DEF EditFetches
  <2>7. CASE EditMarks(s)
    <3>1. CASE edit[s].id \in Ids
      BY <2>1, <2>4, <2>7, <3>1 DEF EditMarks, EditRecords
    <3>2. CASE edit[s].id \notin Ids
      BY <2>1, <2>5, <2>7, <3>2 DEF EditMarks
    <3>3. QED
      BY <3>1, <3>2
  <2>8. CASE RecomputeReads(s) \/ RecomputeClears(s) \/ RecomputeEvaluates(s)
               \/ RecomputeInserts(s) \/ RecomputeFails(s)
    <3>1. edit'[s].pc \in {"clearing", "evaluating", "inserting", "trigger"}
      BY <2>1, <2>8 DEF RecomputeReads, RecomputeClears, RecomputeEvaluates, RecomputeInserts,
                        RecomputeFails, EditRecords
    <3>2. QED
      BY <2>4, <3>1
  <2>9. CASE EditTriggers(s) \/ TriggerFails(s)
    BY <1>2, <1>6, <2>9 DEF EditTriggers, TriggerFails
  <2>10. ASSUME NEW i \in DOMAIN breaking, MarkSeen(s, i)
         PROVE  Settled' => NothingReported'
    <3>1. /\ UNCHANGED <<rows, edit, run, pending, solved, failures>>
          /\ DOMAIN breaking' = DOMAIN breaking
      BY <2>10 DEF MarkSeen
    <3>2. QED
      BY <3>1, SettledBefore DEF RulesOf
  <2>11. CASE MarkAllSeen(s)
    <3>1. /\ UNCHANGED <<rows, edit, run, pending, solved, failures>>
          /\ DOMAIN breaking' = DOMAIN breaking
      BY <2>11 DEF MarkAllSeen
    <3>2. QED
      BY <3>1, SettledBefore DEF RulesOf
  <2>12. QED
    BY <1>5, <1>8, <2>2, <2>3, <2>6, <2>7, <2>8, <2>9, <2>10, <2>11
       DEF SecretaryStep, PlaceSession, DeleteSession
<1>9. ASSUME DeveloperStep
      PROVE  Settled' => NothingReported'
  <2>1. ASSUME NEW l \in Lecturers, NEW sentence \in Sentences, NEW rules \in RuleLists,
               NEW override \in {"none", "hard", "soft"},
               DevCreates(l, {sentence}, rules, override)
        PROVE  Settled' => NothingReported'
    <3> DEFINE r == [NewRow(l, {sentence}, rules) EXCEPT !.override = override]
    <3>1. r \in Row
      <4>1. NewRow(l, {sentence}, rules) \in Row
        BY NewIsConsistent DEF RowTexts
      <4>2. QED
        BY <4>1 DEF Row
    <3>2. rows' = Append(rows, r) /\ UNCHANGED solved
      BY <2>1 DEF DevCreates
    <3> HIDE DEF r
    <3>3. QED
      BY <1>4, <3>1, <3>2
  <2>2. ASSUME NEW i \in Ids, DevDeletesConstraint(i)
        PROVE  Settled' => NothingReported'
    BY <1>3, <2>2 DEF DevDeletesConstraint
  <2>3. CASE DevPublishes
    BY <1>2, <1>6, <2>3 DEF DevPublishes
  <2>4. ASSUME NEW i \in DOMAIN breaking, DevDeletes(i)
        PROVE  Settled' => NothingReported'
    BY <2>4, SettledBefore DEF DevDeletes, Restrict, RulesOf
  <2>5. CASE DevClears
    BY <2>5, SettledBefore DEF DevClears, RulesOf
  <2>6. QED
    BY <1>9, <2>1, <2>2, <2>3, <2>4, <2>5 DEF DeveloperStep
<1>10. ASSUME SolverStep
       PROVE  Settled' => NothingReported'
  <2>1. UNCHANGED rows /\ DOMAIN run = {"pc", "rows", "conflicts", "details"}
    BY <1>10, SolverLeaves DEF RunInv
  <2>2. ASSUME solved' = << >>
        PROVE  Settled' => NothingReported'
    <3>1. SUFFICES ASSUME Settled' PROVE DOMAIN breaking' = {}
      BY DEF NothingReported
    <3>2. DOMAIN rows = {}
      BY <2>1, <2>2, <3>1 DEF Settled, RulesOf
    <3>3. QED
      BY <2>1, <3>2, ReportMoves DEF ReportStep, ReportInv, Ids
  <2>3. CASE Requested \/ RunCleans \/ RunFetches \/ RunSaves \/ RunReadsRules \/ RunAborts
    BY <1>2, <2>1, <2>3
       DEF Requested, RunCleans, RunFetches, RunSaves, RunReadsRules, RunAborts, IdleRun
  <2>4. CASE RunResolves
    <3>1. SUFFICES ASSUME RulesOf(run.rows) = RulesOf(rows) PROVE DOMAIN breaking' = {}
      BY <2>1, <2>4 DEF RunResolves, Settled, NothingReported
    <3>2. DOMAIN run.rows = DOMAIN rows
      BY <3>1 DEF RulesOf
    <3>3. \A i \in Ids : rows[i].rules # Gone /\ i \in DOMAIN rows
      BY Places, StoreData DEF Row
    <3>4. \A i \in Ids : run.rows[i] # Gone
      BY <3>1, <3>2, <3>3 DEF RulesOf, Ids
    <3>5. Ids \subseteq Fetched
      BY <3>2, <3>3, <3>4 DEF Fetched
    <3>6. QED
      BY <2>4, <3>5 DEF RunResolves, Restrict, ReportInv
  <2>5. CASE RunFails
    BY <2>2, <2>5 DEF RunFails
  <2>6. ASSUME NEW i \in DOMAIN rows, RunReports(i)
        PROVE  Settled' => NothingReported'
    BY <2>2, <2>6 DEF RunReports, RunInv
  <2>7. QED
    BY <1>10, <2>3, <2>4, <2>5, <2>6 DEF SolverStep
<1>11. QED
  BY <1>7, <1>8, <1>9, <1>10 DEF StoreNext

\* Every operation keeps what is known of the run under way.
LEMMA RunInvStep ==
    ASSUME StoreInv, RunInv, [StoreNext]_storeVars
    PROVE  RunInv'
<1>1. CASE UNCHANGED storeVars
  BY <1>1 DEF storeVars, RunInv, Older, Settled, NothingReported, RulesOf
<1>2. CASE StoreNext
  <2>1. RowsStep /\ (Settled' => NothingReported')
    BY <1>2, RowsMove, SettledStep
  <2>2. CASE UNCHANGED <<run, solved>>
    BY <2>1, <2>2, OlderStays DEF RunInv, Older
  <2>3. CASE SolverStep
    <3>1. UNCHANGED rows
      BY <2>3, SolverLeaves
    <3>2. /\ DOMAIN run = {"pc", "rows", "conflicts", "details"}
          /\ \A i \in DOMAIN run.rows : run.rows[i] \in Row \cup {Gone}
          /\ Older(run.rows) /\ Older(solved) /\ Older(<< >>)
          /\ run.pc = "reporting" => solved = << >>
      BY DEF RunInv, Older
    <3>3. /\ DOMAIN IdleRun = {"pc", "rows", "conflicts", "details"}
          /\ IdleRun.pc = "idle" /\ IdleRun.rows = << >>
      BY DEF IdleRun
    <3>4. CASE RunCleans
      BY <2>1, <3>1, <3>2, <3>3, <3>4 DEF RunCleans, RunInv, Older
    <3>5. CASE RunFetches
      <4>1. \A i \in DOMAIN rows : rows[i] \in Row \cup {Gone}
        BY Places DEF StoreInv
      <4>2. QED
        BY <2>1, <3>1, <3>2, <3>5, <4>1 DEF RunFetches, RunInv, Older
    <3>6. CASE RunSaves
      BY <2>1, <3>1, <3>2, <3>6 DEF RunSaves, RunInv, Older
    <3>7. CASE RunResolves
      <4>1. Older(RulesOf(run.rows))
        <5>1. \A i \in DOMAIN run.rows : run.rows[i] # Gone => run.rows[i].rules # Gone
          BY <3>2, StoreData DEF Row
        <5>2. QED
          BY <3>2, <5>1 DEF Older, RulesOf
      <4>2. QED
        BY <2>1, <3>1, <3>2, <3>3, <3>7, <4>1 DEF RunResolves, RunInv, Older
    <3>8. CASE RunFails
      <4>1. /\ DOMAIN run' = {"pc", "rows", "conflicts", "details"}
            /\ run'.rows = << >> \/ run'.rows = run.rows
        BY <3>2, <3>3, <3>8 DEF RunFails
      <4>2. QED
        BY <2>1, <3>1, <3>2, <3>8, <4>1 DEF RunFails, RunInv, Older
    <3>9. CASE RunReadsRules
      BY <2>1, <3>1, <3>2, <3>9 DEF RunReadsRules, RunInv, Older
    <3>10. ASSUME NEW i \in DOMAIN rows, RunReports(i)
           PROVE  RunInv'
      <4>1. /\ DOMAIN run' = {"pc", "rows", "conflicts", "details"}
            /\ run'.rows = << >> \/ run'.rows = run.rows
            /\ UNCHANGED solved /\ solved = << >>
        BY <3>2, <3>3, <3>10 DEF RunReports
      <4>2. QED
        BY <2>1, <3>1, <3>2, <4>1 DEF RunInv, Older
    <3>11. CASE RunAborts
      BY <2>1, <3>1, <3>2, <3>3, <3>11 DEF RunAborts, RunInv, Older
    <3>12. QED
      BY <2>2, <2>3, <3>4, <3>5, <3>6, <3>7, <3>8, <3>9, <3>10, <3>11
         DEF SolverStep, Requested
  <2>4. ASSUME NEW t \in Tabs, TabStep(t)
        PROVE  UNCHANGED <<run, solved>>
    BY <2>4 DEF TabStep, PreviewReads, PreviewReturns, SaveLists, SaveDeletes, SaveCreates,
                SaveFails, LecturerDeletes
  <2>5. ASSUME NEW s \in Secretaries, SecretaryStep(s)
        PROVE  UNCHANGED <<run, solved>>
    BY <2>5 DEF SecretaryStep, SetOverride, SecretaryDeletes, EditFetches, EditMarks,
           RecomputeReads, RecomputeClears, RecomputeEvaluates, RecomputeInserts, RecomputeFails,
           EditTriggers, TriggerFails, MarkSeen, MarkAllSeen, PlaceSession, DeleteSession
  <2>6. ASSUME DeveloperStep
        PROVE  UNCHANGED <<run, solved>>
    BY <2>6 DEF DeveloperStep, DevCreates, DevPublishes, DevDeletesConstraint, DevDeletes,
                DevClears
  <2>7. QED
    BY <1>2, <2>2, <2>3, <2>4, <2>5, <2>6 DEF StoreNext
<1>3. QED
  BY <1>1, <1>2

\* The run under way and what the last one solved, in every behaviour.
LEMMA RunInvariant == StoreSpec => []RunInv
<1>1. StoreInit => RunInv
  BY DEF StoreInit, RunInv, IdleRun, Older, NothingReported
<1>2. QED
  BY <1>1, RunInvStep, StoreInvariant, PTL DEF StoreSpec

------------------------------------------------------------------------------
(* Indices *)

\* Nobody has changed rules without having asked for a run that is still to come.
Calm ==
    /\ ~pending /\ failures = 0
    /\ \A s \in Secretaries : edit[s].pc \in {"idle", "fetched"}

Reporting == run.pc = "reporting" /\ run.details # << >>

\* What is reported of a row is within its rules, and so is what the run under way
\* will report, as long as the rules it has read are those of today.
IndexInv ==
    /\ \A i \in DOMAIN breaking : \A a \in breaking[i].atoms : a[1] \in Nat \ {0}
    /\ Calm => \A i \in DOMAIN breaking : \A a \in breaking[i].atoms :
                   a[1] \in DOMAIN rows[i].rules
    /\ run.pc # "reporting" => run.details = << >>
    /\ run.pc = "reporting" => \A c \in run.conflicts : c[1] \in DOMAIN run.rows
    /\ Reporting =>
          /\ DOMAIN run.rows \subseteq DOMAIN run.details
          /\ DOMAIN run.details \subseteq DOMAIN rows
          /\ \A i \in DOMAIN run.details : run.details[i] \in RuleLists \cup {Gone}
          /\ Calm => \A i \in Ids \cap DOMAIN run.details : run.details[i] = rows[i].rules

\* A step of somebody else than the solver: what it adds to the report makes it
\* not calm, and so does a change of rules.
LEMMA IndicesKept ==
    ASSUME StoreInv, IndexInv, RowsStep, ReportStep, UNCHANGED run, Calm' => Calm,
           Calm' => \A i \in Ids' \cap DOMAIN rows : rows'[i].rules = rows[i].rules,
           \A i \in DOMAIN breaking' :
              \/ i \in DOMAIN breaking /\ breaking'[i].atoms = breaking[i].atoms
              \/ ~Calm' /\ \A a \in breaking'[i].atoms : a[1] \in Nat \ {0}
    PROVE  IndexInv'
<1>1. /\ DOMAIN breaking \subseteq DOMAIN rows /\ DOMAIN breaking' \subseteq Ids'
      /\ Ids' \cap DOMAIN rows \subseteq Ids /\ DOMAIN rows \subseteq DOMAIN rows'
  BY DEF StoreInv, ReportInv, ReportStep, RowsStep, Ids
<1>2. \A i \in DOMAIN breaking' : \A a \in breaking'[i].atoms : a[1] \in Nat \ {0}
  BY DEF IndexInv
<1>3. Calm' => \A i \in DOMAIN breaking' : \A a \in breaking'[i].atoms :
                  a[1] \in DOMAIN rows'[i].rules
  <2> SUFFICES ASSUME Calm', NEW i \in DOMAIN breaking', NEW a \in breaking'[i].atoms
               PROVE  a[1] \in DOMAIN rows'[i].rules
    OBVIOUS
  <2>1. i \in DOMAIN breaking /\ a \in breaking[i].atoms
    OBVIOUS
  <2>2. rows'[i].rules = rows[i].rules
    BY <1>1, <2>1
  <2>3. QED
    BY <2>1, <2>2 DEF IndexInv
<1>4. (run.pc # "reporting" => run.details = << >>)'
      /\ (run.pc = "reporting" => \A c \in run.conflicts : c[1] \in DOMAIN run.rows)'
  BY DEF IndexInv
<1>5. Reporting' =>
        /\ DOMAIN run'.rows \subseteq DOMAIN run'.details
        /\ DOMAIN run'.details \subseteq DOMAIN rows'
        /\ \A i \in DOMAIN run'.details : run'.details[i] \in RuleLists \cup {Gone}
        /\ Calm' => \A i \in Ids' \cap DOMAIN run'.details : run'.details[i] = rows'[i].rules
  BY <1>1 DEF IndexInv, Reporting
<1>6. QED
  BY <1>2, <1>3, <1>4, <1>5 DEF IndexInv

\* A row that is deleted takes its report along, and no other row changes.
LEMMA DeletedKeepsIndices ==
    ASSUME StoreInv, NEW i \in DOMAIN rows, DeleteRow(i)
    PROVE  /\ \A j \in Ids' \cap DOMAIN rows : rows'[j].rules = rows[j].rules
           /\ \A j \in DOMAIN breaking' : j \in DOMAIN breaking /\ breaking'[j] = breaking[j]
<1>1. \A j \in Ids' \cap DOMAIN rows : rows'[j] = rows[j]
  BY DEF DeleteRow, Ids
<1>2. QED
  BY <1>1 DEF DeleteRow, Restrict

\* The steps of lecturers.
LEMMA TabKeepsIndices ==
    ASSUME StoreInv, IndexInv, RowsStep, ReportStep, NEW t \in Tabs, TabStep(t)
    PROVE  IndexInv'
<1> USE DEF StoreInv
<1>0. failures \in Nat
  BY DEF RestInv
<1>1. /\ UNCHANGED <<run, edit, pending>>
      /\ failures' = failures \/ failures' = failures + 1
  BY DEF TabStep, PreviewReads, PreviewReturns, SaveLists, SaveDeletes, SaveCreates, SaveFails,
         LecturerDeletes
<1>2. Calm' => Calm
  BY <1>0, <1>1 DEF Calm
<1>3. CASE UNCHANGED <<rows, breaking>>
  BY <1>1, <1>2, <1>3, IndicesKept
<1>4. ASSUME NEW i \in DOMAIN rows, DeleteRow(i)
      PROVE  IndexInv'
  BY <1>1, <1>2, <1>4, DeletedKeepsIndices, IndicesKept
<1>5. CASE SaveDeletes(t)
  BY <1>4, <1>5 DEF SaveDeletes, TabsInv
<1>6. CASE SaveCreates(t)
  <2> DEFINE r == NewRow(OwnerOf[t], tab[t].text, tab[t].rules)
  <2>1. /\ tab[t].text \in RowTexts /\ tab[t].text # {}
        /\ tab[t].rules \in RuleLists /\ OwnerOf[t] \in Lecturers
    BY <1>6, StoreConstants DEF SaveCreates, TabsInv, TabRecords
  <2>2. r \in Row \cup {Gone} /\ rows \in Seq(Row \cup {Gone})
    BY <2>1, NewIsConsistent DEF RowsInv
  <2>3. rows' = Append(rows, r) /\ UNCHANGED breaking
    BY <1>6 DEF SaveCreates
  <2> HIDE DEF r
  <2>4. \A j \in DOMAIN rows : rows'[j] = rows[j]
    BY <2>2, <2>3, AppendProperties
  <2>5. QED
    BY <1>1, <1>2, <2>3, <2>4, IndicesKept
<1>7. ASSUME NEW i \in Ids, LecturerDeletes(t, i)
      PROVE  IndexInv'
  BY <1>4, <1>7 DEF LecturerDeletes, Ids
<1>8. QED
  BY <1>3, <1>5, <1>6, <1>7 DEF TabStep, PreviewReads, PreviewReturns, SaveLists, SaveFails

\* The steps of secretaries: an edit is not calm from its change of the rules to
\* its request for a run.
LEMMA SecretaryKeepsIndices ==
    ASSUME StoreInv, IndexInv, RowsStep, ReportStep, NEW s \in Secretaries, SecretaryStep(s)
    PROVE  IndexInv'
<1> USE DEF StoreInv
<1>0. failures \in Nat /\ edit \in [Secretaries -> EditRecords]
  BY DEF RestInv, EditsInv
<1>1. UNCHANGED run /\ (failures' = failures \/ failures' = failures + 1)
  BY DEF SecretaryStep, SetOverride, SecretaryDeletes, EditFetches, EditMarks, RecomputeReads,
         RecomputeClears, RecomputeEvaluates, RecomputeInserts, RecomputeFails, EditTriggers,
         TriggerFails, MarkSeen, MarkAllSeen, PlaceSession, DeleteSession
<1>2. ASSUME UNCHANGED <<edit, pending>>
      PROVE  Calm' => Calm
  BY <1>0, <1>1, <1>2 DEF Calm
<1>3. ASSUME ~Calm',
             \A i \in DOMAIN breaking' :
                 \/ i \in DOMAIN breaking /\ breaking'[i] = breaking[i]
                 \/ \A a \in breaking'[i].atoms : a[1] \in Nat \ {0}
      PROVE  IndexInv'
  BY <1>1, <1>3, IndicesKept
<1>4. ASSUME edit'[s].pc \notin {"idle", "fetched"}
      PROVE  ~Calm'
  BY <1>4 DEF Calm
<1>5. ASSUME NEW i \in Ids, NEW value \in {"none", "hard", "soft"}, SetOverride(s, i, value)
      PROVE  IndexInv'
  <2>1. /\ rows' = [rows EXCEPT ![i] = [rows[i] EXCEPT !.override = value]]
        /\ UNCHANGED <<breaking, edit, pending>>
    BY <1>5 DEF SetOverride
  <2>2. rows[i] \in Row /\ [rows[i] EXCEPT !.override = value].rules = rows[i].rules
    BY Places DEF Row
  <2>3. \A j \in DOMAIN rows : rows'[j].rules = rows[j].rules
    BY <2>1, <2>2
  <2>4. QED
    BY <1>1, <1>2, <2>1, <2>3, IndicesKept
<1>6. ASSUME NEW i \in Ids, SecretaryDeletes(s, i)
      PROVE  IndexInv'
  <2>1. i \in DOMAIN rows /\ DeleteRow(i) /\ UNCHANGED <<edit, pending>>
    BY <1>6 DEF SecretaryDeletes, Ids
  <2>2. QED
    BY <1>1, <1>2, <2>1, DeletedKeepsIndices, IndicesKept
<1>7. ASSUME NEW i \in Ids, NEW new \in RuleLists, EditFetches(s, i, new)
      PROVE  IndexInv'
  <2>1. UNCHANGED <<rows, breaking, pending, failures>> /\ edit[s].pc = "idle"
        /\ \A u \in Secretaries \ {s} : edit'[u] = edit[u]
    BY <1>0, <1>7 DEF EditFetches
  <2>2. Calm' => Calm
    BY <2>1 DEF Calm
  <2>3. QED
    BY <1>1, <2>1, <2>2, IndicesKept
<1>8. CASE EditMarks(s)
  <2>1. CASE edit[s].id \in Ids
    <3>1. edit'[s].pc = "marked" /\ UNCHANGED breaking
      BY <1>0, <1>8, <2>1 DEF EditMarks, EditRecords
    <3>2. QED
      BY <1>3, <1>4, <3>1
  <2>2. CASE edit[s].id \notin Ids
    <3>1. UNCHANGED <<rows, breaking, pending, failures>> /\ edit[s].pc = "fetched"
          /\ \A u \in Secretaries \ {s} : edit'[u] = edit[u]
      BY <1>0, <1>8, <2>2 DEF EditMarks
    <3>2. Calm' => Calm
      BY <3>1 DEF Calm
    <3>3. QED
      BY <1>1, <3>1, <3>2, IndicesKept
  <2>3. QED
    BY <2>1, <2>2
<1>9. CASE RecomputeReads(s) \/ RecomputeClears(s) \/ RecomputeEvaluates(s)
           \/ RecomputeInserts(s) \/ RecomputeFails(s)
  <2>1. edit'[s].pc \in {"clearing", "evaluating", "inserting", "trigger"}
    BY <1>0, <1>9 DEF RecomputeReads, RecomputeClears, RecomputeEvaluates, RecomputeInserts,
                      RecomputeFails, EditRecords
  <2>2. CASE RecomputeInserts(s)
    <3>1. \A a \in edit[s].found : a[1] \in Nat \ {0}
      BY <1>0 DEF EditRecords
    <3>2. \A i \in DOMAIN breaking' :
             \/ i \in DOMAIN breaking /\ breaking'[i] = breaking[i]
             \/ breaking'[i].atoms = edit[s].found
      BY <2>2 DEF RecomputeInserts, Reported
    <3>3. QED
      BY <1>3, <1>4, <2>1, <3>1, <3>2
  <2>3. CASE ~RecomputeInserts(s)
    <3>1. \A i \in DOMAIN breaking' : i \in DOMAIN breaking /\ breaking'[i] = breaking[i]
      BY <1>9, <2>3 DEF RecomputeReads, RecomputeClears, RecomputeEvaluates, RecomputeFails,
                        Restrict
    <3>2. QED
      BY <1>3, <1>4, <2>1, <3>1
  <2>4. QED
    BY <2>2, <2>3
<1>10. CASE EditTriggers(s) \/ TriggerFails(s)
  <2>1. ~Calm' /\ UNCHANGED breaking
    BY <1>0, <1>10 DEF EditTriggers, TriggerFails, Calm
  <2>2. QED
    BY <1>3, <2>1
<1>11. CASE (\E i \in DOMAIN breaking : MarkSeen(s, i)) \/ MarkAllSeen(s)
  <2>1. UNCHANGED <<rows, edit, pending>> /\ DOMAIN breaking' = DOMAIN breaking
    BY <1>11 DEF MarkSeen, MarkAllSeen
  <2>2. \A i \in DOMAIN breaking : \/ breaking'[i] = breaking[i]
                                   \/ breaking'[i] = [breaking[i] EXCEPT !.seen = TRUE]
    BY <1>11 DEF MarkSeen, MarkAllSeen
  <2>3. \A i \in DOMAIN breaking : breaking'[i].atoms = breaking[i].atoms
    BY <2>2 DEF ReportInv
  <2>4. QED
    BY <1>1, <1>2, <2>1, <2>3, IndicesKept
<1>12. CASE \E l \in Lecturers : PlaceSession(s, l) \/ DeleteSession(s, l)
  <2>1. UNCHANGED <<rows, breaking, edit, pending>>
    BY <1>12 DEF PlaceSession, DeleteSession
  <2>2. QED
    BY <1>1, <1>2, <2>1, IndicesKept
<1>13. QED
  BY <1>5, <1>6, <1>7, <1>8, <1>9, <1>10, <1>11, <1>12 DEF SecretaryStep

\* The steps of the development routes.
LEMMA DeveloperKeepsIndices ==
    ASSUME StoreInv, IndexInv, RowsStep, ReportStep, DeveloperStep
    PROVE  IndexInv'
<1> USE DEF StoreInv
<1>0. failures \in Nat
  BY DEF RestInv
<1>1. UNCHANGED <<run, edit>> /\ (pending' = pending \/ pending' = TRUE)
      /\ (failures' = failures \/ failures' = failures + 1)
  BY DEF DeveloperStep, DevCreates, DevPublishes, DevDeletesConstraint, DevDeletes, DevClears
<1>2. Calm' => Calm
  BY <1>0, <1>1 DEF Calm
<1>3. ASSUME NEW l \in Lecturers, NEW sentence \in Sentences, NEW rules \in RuleLists,
             NEW override \in {"none", "hard", "soft"},
             DevCreates(l, {sentence}, rules, override)
      PROVE  IndexInv'
  <2> DEFINE r == [NewRow(l, {sentence}, rules) EXCEPT !.override = override]
  <2>1. NewRow(l, {sentence}, rules) \in Row
    BY NewIsConsistent DEF RowTexts
  <2>2. r \in Row \cup {Gone} /\ rows \in Seq(Row \cup {Gone})
    BY <2>1 DEF Row, RowsInv
  <2>3. rows' = Append(rows, r) /\ UNCHANGED breaking
    BY <1>3 DEF DevCreates
  <2> HIDE DEF r
  <2>4. \A j \in DOMAIN rows : rows'[j] = rows[j]
    BY <2>2, <2>3, AppendProperties
  <2>5. QED
    BY <1>1, <1>2, <2>3, <2>4, IndicesKept
<1>4. CASE DevPublishes
  BY <1>1, <1>2, <1>4, IndicesKept DEF DevPublishes
<1>5. ASSUME NEW i \in Ids, DevDeletesConstraint(i)
      PROVE  IndexInv'
  <2>1. i \in DOMAIN rows /\ DeleteRow(i)
    BY <1>5 DEF DevDeletesConstraint, Ids
  <2>2. QED
    BY <1>1, <1>2, <2>1, DeletedKeepsIndices, IndicesKept
<1>6. CASE (\E i \in DOMAIN breaking : DevDeletes(i)) \/ DevClears
  <2>1. \A i \in DOMAIN breaking' : i \in DOMAIN breaking /\ breaking'[i] = breaking[i]
    <3>1. CASE DevClears
      <4>1. DOMAIN breaking' = {}
        BY <3>1 DEF DevClears
      <4>2. QED
        BY <4>1
    <3>2. ASSUME NEW j \in DOMAIN breaking, DevDeletes(j)
          PROVE  \A i \in DOMAIN breaking' : i \in DOMAIN breaking /\ breaking'[i] = breaking[i]
      BY <3>2 DEF DevDeletes, Restrict
    <3>3. QED
      BY <1>6, <3>1, <3>2
  <2>2. UNCHANGED rows
    BY <1>6 DEF DevDeletes, DevClears
  <2>3. QED
    BY <1>1, <1>2, <2>1, <2>2, IndicesKept
<1>7. QED
  BY <1>3, <1>4, <1>5, <1>6 DEF DeveloperStep

\* The steps of the solver: clean_stale leaves no index beyond the rules, and what
\* a run reports are indices within the rules that it has read.
LEMMA SolverKeepsIndices ==
    ASSUME StoreInv, RunInv, IndexInv, RowsStep, ReportStep, SolverStep
    PROVE  IndexInv'
<1> USE DEF StoreInv
<1>0. /\ UNCHANGED <<rows, edit>> /\ Ids' = Ids
      /\ DOMAIN run = {"pc", "rows", "conflicts", "details"}
      /\ DOMAIN breaking \subseteq Ids /\ DOMAIN breaking' \subseteq Ids
      /\ \A i \in Ids : i \in DOMAIN rows /\ rows[i] \in Row /\ rows[i] # Gone
                       /\ rows[i].rules \in RuleLists /\ rows[i].rules # Gone
  <2>1. UNCHANGED <<rows, edit>>
    BY SolverLeaves
  <2>2. \A i \in Ids : i \in DOMAIN rows /\ rows[i] \in Row /\ rows[i] # Gone
    BY Places
  <2>3. \A i \in Ids : rows[i].rules \in RuleLists /\ rows[i].rules # Gone
    BY <2>2, StoreData DEF Row
  <2>4. QED
    BY <2>1, <2>2, <2>3 DEF RunInv, ReportInv, ReportStep, Ids
<1>1. /\ IdleRun.pc = "idle" /\ IdleRun.details = << >>
      /\ [IdleRun EXCEPT !.pc = "cleaned"].pc = "cleaned"
      /\ [IdleRun EXCEPT !.pc = "cleaned"].details = << >>
  BY DEF IdleRun
\* A step that does not report, or ends a report.
<1>2. ASSUME run'.pc # "reporting", run'.details = << >>, Calm' => Calm,
             \A i \in DOMAIN breaking' : i \in DOMAIN breaking /\ breaking'[i] = breaking[i]
      PROVE  IndexInv'
  BY <1>0, <1>2 DEF IndexInv, Reporting
<1>3. CASE Requested
  <2>1. ~Calm' /\ UNCHANGED <<run, breaking>>
    BY <1>3 DEF Requested, Calm
  <2>2. QED
    BY <2>1, IndicesKept
<1>4. CASE RunCleans
  <2>1. run'.pc = "cleaned" /\ run'.details = << >>
    BY <1>1, <1>4 DEF RunCleans
  <2>2. \A i \in DOMAIN breaking' :
           /\ i \in DOMAIN breaking /\ breaking'[i] = breaking[i]
           /\ \A a \in breaking[i].atoms : a[1] <= Len(rows[i].rules)
    BY <1>4 DEF RunCleans, Restrict
  <2>3. \A i \in DOMAIN breaking' : \A a \in breaking'[i].atoms :
           a[1] \in Nat \ {0} /\ a[1] \in DOMAIN rows'[i].rules
    <3> SUFFICES ASSUME NEW i \in DOMAIN breaking', NEW a \in breaking'[i].atoms
                 PROVE  a[1] \in Nat \ {0} /\ a[1] \in DOMAIN rows'[i].rules
      OBVIOUS
    <3>1. a[1] \in Nat \ {0} /\ a[1] <= Len(rows[i].rules)
      BY <2>2 DEF IndexInv
    <3>2. /\ DOMAIN rows[i].rules = 1 .. Len(rows[i].rules) /\ Len(rows[i].rules) \in Nat
      BY <1>0, RulesArePlaced
    <3>3. a[1] \in 1 .. Len(rows[i].rules)
      BY <3>1, <3>2
    <3>4. QED
      BY <1>0, <3>1, <3>2, <3>3
  <2>4. QED
    BY <2>1, <2>3 DEF IndexInv, Reporting
<1>5. CASE RunFetches \/ RunSaves
  <2>1. /\ run'.pc \in {"solving", "resolving"} /\ run'.details = run.details
        /\ run.pc \in {"cleaned", "solving"} /\ UNCHANGED <<breaking, pending, failures>>
    BY <1>0, <1>5 DEF RunFetches, RunSaves
  <2>2. Calm' => Calm
    BY <1>0, <2>1 DEF Calm
  <2>3. run'.pc # "reporting" /\ run'.details = << >>
    BY <2>1 DEF IndexInv
  <2>4. QED
    BY <1>2, <2>1, <2>2, <2>3
<1>6. CASE RunResolves
  <2>1. Calm' => Calm
    BY <1>0, <1>6 DEF RunResolves, Calm
  <2>2. \A i \in DOMAIN breaking' : i \in DOMAIN breaking /\ breaking'[i] = breaking[i]
    BY <1>6 DEF RunResolves, Restrict
  <2>3. QED
    BY <1>1, <1>2, <1>6, <2>1, <2>2 DEF RunResolves
<1>7. CASE RunFails
  <2>1. UNCHANGED <<breaking, pending, failures>> /\ run.pc = "solving"
    BY <1>7 DEF RunFails
  <2>2. Calm' => Calm
    BY <1>0, <2>1 DEF Calm
  <2>3. CASE run' = IdleRun
    BY <1>1, <1>2, <2>1, <2>2, <2>3
  <2>4. ASSUME NEW core, run' = [run EXCEPT !.pc = "reporting", !.conflicts = core],
               \A c \in core : c[1] \in Fetched
        PROVE  IndexInv'
    <3>1. /\ run'.pc = "reporting" /\ run'.conflicts = core /\ run'.rows = run.rows
          /\ run'.details = << >>
      BY <1>0, <2>1, <2>4 DEF IndexInv
    <3>2. ~Reporting'
      BY <3>1 DEF Reporting
    <3>3. \A c \in core : c[1] \in DOMAIN run'.rows
      BY <2>4, <3>1 DEF Fetched
    <3>4. QED
      BY <1>0, <2>1, <2>2, <3>1, <3>2, <3>3 DEF IndexInv
  <2>5. QED
    <3> DEFINE atomics == UNION {{i} \X DOMAIN run.rows[i].rules : i \in Fetched}
               soft == {c \in atomics : /\ IsBlock(run.rows[c[1]].rules[c[2]])
                                        /\ run.rows[c[1]].override # "hard"}
    <3>1. PICK core \in SUBSET soft :
             run' = IF core = {} THEN IdleRun
                    ELSE [run EXCEPT !.pc = "reporting", !.conflicts = core]
      BY <1>7 DEF RunFails
    <3>2. \A c \in atomics : c[1] \in Fetched
      OBVIOUS
    <3> HIDE DEF atomics
    <3>3. \A c \in core : c[1] \in Fetched
      BY <3>2
    <3> HIDE DEF soft
    <3>4. QED
      BY <2>3, <2>4, <3>1, <3>3
<1>8. CASE RunReadsRules
  <2>1. /\ UNCHANGED <<breaking, pending, failures>> /\ run.pc = "reporting"
        /\ run' = [run EXCEPT !.details = RulesOf(rows)]
    BY <1>8 DEF RunReadsRules
  <2>2. /\ run'.pc = "reporting" /\ run'.conflicts = run.conflicts
        /\ run'.rows = run.rows /\ run'.details = RulesOf(rows)
    BY <1>0, <2>1
  <2>3. Calm' => Calm
    BY <1>0, <2>1 DEF Calm
  <2>4. /\ DOMAIN RulesOf(rows) = DOMAIN rows
        /\ \A i \in Ids : RulesOf(rows)[i] = rows[i].rules
        /\ \A i \in DOMAIN rows : RulesOf(rows)[i] \in RuleLists \cup {Gone}
    BY <1>0 DEF RulesOf, Ids
  <2>5. DOMAIN run.rows \subseteq DOMAIN rows
    BY DEF RunInv, Older
  <2>6. QED
    BY <1>0, <2>1, <2>2, <2>3, <2>4, <2>5 DEF IndexInv, Reporting
<1>9. ASSUME NEW i \in DOMAIN rows, RunReports(i)
      PROVE  IndexInv'
  <2> DEFINE rules == IF run.details[i] = Gone THEN << >> ELSE run.details[i]
             hit == {n \in DOMAIN rules : <<i, n>> \in run.conflicts}
             atoms == AtomsAt(rules, hit)
             rest == {c \in run.conflicts : c[1] # i}
  <2>1. /\ UNCHANGED <<pending, failures>> /\ run.pc = "reporting" /\ Reporting
        /\ breaking' = IF atoms # {} /\ i \in Ids THEN Reported(i, atoms) ELSE breaking
        /\ run' = IF rest = {} THEN IdleRun ELSE [run EXCEPT !.conflicts = rest]
        /\ i \in {c[1] : c \in run.conflicts}
    BY <1>9 DEF RunReports, Reporting
  <2>2. Calm' => Calm
    BY <1>0, <2>1 DEF Calm
  <2>3. i \in DOMAIN run.details /\ run.details[i] \in RuleLists \cup {Gone}
    BY <2>1 DEF IndexInv
  <2>4. rules \in RuleLists \cup {<< >>}
    BY <2>3
  <2> HIDE DEF rules
  <2>5. \A a \in atoms : a[1] \in Nat \ {0} /\ a[1] \in DOMAIN rules
    <3>1. hit \in SUBSET (DOMAIN rules)
      OBVIOUS
    <3> HIDE DEF hit
    <3>2. /\ atoms \in SUBSET ((Nat \ {0}) \X Atomics)
          /\ \A a \in atoms : a[1] \in DOMAIN rules
      BY <2>4, <3>1, FoundIsTyped
    <3> HIDE DEF atoms
    <3>3. QED
      BY <3>2
  <2>6. ASSUME Calm, i \in Ids
        PROVE  rules = rows[i].rules
    BY <1>0, <2>1, <2>3, <2>6 DEF IndexInv, rules
  <2>7. \A j \in DOMAIN breaking' :
           \/ j \in DOMAIN breaking /\ breaking'[j] = breaking[j]
           \/ j = i /\ i \in Ids /\ breaking'[j].atoms = atoms
    BY <2>1 DEF Reported
  <2> HIDE DEF atoms
  <2>8. \A j \in DOMAIN breaking' : \A a \in breaking'[j].atoms :
           a[1] \in Nat \ {0} /\ (Calm' => a[1] \in DOMAIN rows'[j].rules)
    <3> SUFFICES ASSUME NEW j \in DOMAIN breaking', NEW a \in breaking'[j].atoms
                 PROVE  a[1] \in Nat \ {0} /\ (Calm' => a[1] \in DOMAIN rows'[j].rules)
      OBVIOUS
    <3>1. CASE j \in DOMAIN breaking /\ breaking'[j] = breaking[j]
      BY <1>0, <2>2, <3>1 DEF IndexInv
    <3>2. CASE j = i /\ i \in Ids /\ breaking'[j].atoms = atoms
      BY <1>0, <2>2, <2>5, <2>6, <3>2
    <3>3. QED
      BY <2>7, <3>1, <3>2
  <2>9. \/ run' = IdleRun
        \/ /\ run'.pc = "reporting" /\ run'.rows = run.rows /\ run'.details = run.details
           /\ run'.conflicts \subseteq run.conflicts
    BY <1>0, <2>1
  <2>10. CASE run' = IdleRun
    BY <1>1, <2>8, <2>10 DEF IndexInv, Reporting
  <2>11. CASE /\ run'.pc = "reporting" /\ run'.rows = run.rows /\ run'.details = run.details
              /\ run'.conflicts \subseteq run.conflicts
    BY <1>0, <2>1, <2>2, <2>8, <2>11 DEF IndexInv, Reporting
  <2>12. QED
    BY <2>9, <2>10, <2>11
<1>10. CASE RunAborts
  <2>1. ~Calm' /\ UNCHANGED breaking /\ run' = IdleRun
    BY <1>10 DEF RunAborts, Calm
  <2>2. QED
    BY <1>1, <1>2, <2>1
<1>11. QED
  BY <1>3, <1>4, <1>5, <1>6, <1>7, <1>8, <1>9, <1>10 DEF SolverStep

\* Every step keeps the indices in order.
LEMMA IndexInvStep ==
    ASSUME StoreInv, RunInv, IndexInv, [StoreNext]_storeVars
    PROVE  IndexInv'
<1>1. CASE StoreNext
  <2>1. RowsStep /\ ReportStep
    BY <1>1, RowsMove, ReportMoves
  <2>2. QED
    BY <1>1, <2>1, TabKeepsIndices, SecretaryKeepsIndices, DeveloperKeepsIndices,
       SolverKeepsIndices DEF StoreNext
<1>2. CASE UNCHANGED storeVars
  BY <1>2 DEF storeVars, IndexInv, Calm, Reporting, Ids
<1>3. QED
  BY <1>1, <1>2

\* Whatever runs and edits overlap, as long as nothing has failed an index that is
\* reported beyond the rules of its row is one that a run to come will remove.
THEOREM IndexInvariant == StoreSpec => []IndexInv
<1>1. StoreInit => IndexInv
  BY DEF StoreInit, IndexInv, IdleRun, Reporting
<1>2. QED
  BY <1>1, IndexInvStep, StoreInvariant, RunInvariant, PTL DEF StoreSpec

------------------------------------------------------------------------------
(* What secretaries are shown *)

\* The atomics of a lecturer can be counted.
LEMMA DetailsAreFinite ==
    ASSUME RowsInv, NEW linked \in SUBSET Ids, NEW l
    PROVE  IsFiniteSet(AtomicDetails(linked, l))
<1> DEFINE R == ConstraintRows(linked) \cap RowsOf(l)
           T == {{i} \X DOMAIN rows[i].rules : i \in R}
           f == [i \in R |-> {i} \X DOMAIN rows[i].rules]
<1>1. R \in SUBSET (1 .. Len(rows)) /\ Len(rows) \in Nat
  BY Places DEF RowsOf
<1>2. f \in Surjection(R, T)
  BY DEF Surjection
<1>3. ASSUME NEW i \in R
      PROVE  IsFiniteSet({i} \X DOMAIN rows[i].rules)
  <2>1. rows[i].rules \in RuleLists
    BY Places DEF RowsOf, Row
  <2>2. DOMAIN rows[i].rules = 1 .. Len(rows[i].rules) /\ Len(rows[i].rules) \in Nat
    BY <2>1, RulesArePlaced
  <2>3. IsFiniteSet(1 .. Len(rows[i].rules))
    <3>1. 1 \in Int /\ Len(rows[i].rules) \in Int
      BY <2>2
    <3>2. QED
      BY <3>1, FS_Interval
  <2>4. IsFiniteSet({i})
    BY FS_Singleton
  <2>5. QED
    BY <2>2, <2>3, <2>4, FS_Product
<1>4. \A S \in T : IsFiniteSet(S)
  BY <1>3
<1> HIDE DEF R, f
<1>5. IsFiniteSet(R)
  <2>1. 1 \in Int /\ Len(rows) \in Int
    BY <1>1
  <2>2. IsFiniteSet(1 .. Len(rows))
    BY <2>1, FS_Interval
  <2>3. QED
    BY <1>1, <2>2, FS_Subset
<1> HIDE DEF T
<1>6. IsFiniteSet(T)
  BY <1>2, <1>5, FS_Surjection
<1>7. IsFiniteSet(UNION T)
  BY <1>4, <1>6, FS_UNION
<1>8. QED
  BY <1>7 DEF AtomicDetails, R, T

\* The page opens with the figures of the lecturer.
LEMMA PageOpens ==
    ASSUME NEW linked, NEW l \in Lecturers
    PROVE  /\ FairnessPage(linked, l).stats = Stats(linked, l)
           /\ FairnessPage(linked, l).score = Score(Stats(linked, l))
           /\ FairnessPage(linked, l).fair = (Stats(linked, l).hardBroken = 0)
<1>1. FairnessReport("none", "ours", linked) = LecturerFairness(TRUE, linked)
  BY DEF FairnessReport
<1>2. QED
  BY <1>1 DEF FairnessPage, LecturerFairness

\* Where nothing is broken a lecturer has all the points there are.
LEMMA NothingBrokenIsFair ==
    ASSUME RowsInv, DOMAIN breaking = {}, NEW linked \in SUBSET Ids, NEW l \in Lecturers
    PROVE  /\ FairnessPage(linked, l).fair
           /\ FairnessPage(linked, l).score.part = FairnessPage(linked, l).score.whole
<1> DEFINE all == AtomicDetails(linked, l)
           broke == {d \in all : IsBroken(linked, d[1], d[2])}
           hard == {d \in all : ResolvedHard(d[1], d[2])}
<1>1. broke = {}
  BY DEF IsBroken, BrokenIndices, BreakingRows, ListBySchedule, ListBySemester
<1>2. Cardinality(all) \in Nat
  BY DetailsAreFinite, FS_CardinalityType
<1>3. Stats(linked, l) =
         [total |-> Cardinality(all), broken |-> Cardinality(broke),
          satisfied |-> Cardinality(all \ broke),
          hardTotal |-> Cardinality(hard), softTotal |-> Cardinality(all \ hard),
          hardBroken |-> Cardinality(hard \cap broke), softBroken |-> Cardinality(broke \ hard)]
  BY DEF Stats
<1> HIDE DEF all, broke, hard
<1>4. all \ broke = all /\ hard \cap broke = {} /\ broke \ hard = {}
  BY <1>1
<1>5. /\ Stats(linked, l).total = Cardinality(all)
      /\ Stats(linked, l).satisfied = Cardinality(all)
      /\ Stats(linked, l).hardBroken = 0 /\ Stats(linked, l).softBroken = 0
  <2>1. /\ Stats(linked, l).total = Cardinality(all)
        /\ Stats(linked, l).satisfied = Cardinality(all \ broke)
        /\ Stats(linked, l).hardBroken = Cardinality(hard \cap broke)
        /\ Stats(linked, l).softBroken = Cardinality(broke \ hard)
    BY <1>3
  <2>2. Cardinality({}) = 0
    BY FS_EmptySet
  <2>3. QED
    BY <1>4, <2>1, <2>2
<1>6. Score(Stats(linked, l)).part = Score(Stats(linked, l)).whole
  BY <1>2, <1>5 DEF Score
<1>7. QED
  BY <1>5, <1>6, PageOpens

\* Once the rules as they are have been solved nothing that a secretary opens finds
\* fault with the schedule, however edits, saves and runs have overlapped before,
\* unless a request was lost to a failure.
THEOREM SolvedScheduleLooksFair == StoreSpec => []SolvedLooksFair
<1>1. StoreInv /\ RunInv => SolvedLooksFair
  <2> SUFFICES ASSUME StoreInv, RunInv, AtRest, solved = RulesOf(rows)
               PROVE  /\ UnseenCount = 0
                      /\ \A i \in Ids : FullReport[i] = "satisfied"
                      /\ \A linked \in SUBSET Ids, l \in Lecturers :
                            FairnessPage(linked, l).fair
                            /\ FairnessPage(linked, l).score.part = FairnessPage(linked, l).score.whole
    BY DEF SolvedLooksFair
  <2>1. DOMAIN breaking = {}
    BY DEF RunInv, Settled, NothingReported, AtRest, Quiet
  <2>2. UnseenCount = 0
    <3>1. {i \in DOMAIN breaking : ~breaking[i].seen} = {}
      BY <2>1
    <3>2. QED
      BY <3>1, FS_EmptySet DEF UnseenCount
  <2>3. \A i \in Ids : FullReport[i] = "satisfied"
    BY <2>1 DEF FullReport, ListBySemester
  <2>4. QED
    BY <2>1, <2>2, <2>3, NothingBrokenIsFair DEF StoreInv
<1>2. QED
  BY <1>1, RunInvariant, StoreInvariant, PTL

\* At rest the fairness page and the list of broken constraints agree on each
\* lecturer, for no index reported lies beyond the rules of its constraint.
THEOREM PagesTellTheSame == StoreSpec => []PagesAgree
<1>1. StoreInv /\ IndexInv => PagesAgree
  <2> SUFFICES ASSUME StoreInv, IndexInv, AtRest, NEW linked \in SUBSET Ids, NEW l \in Lecturers
               PROVE  FairnessPage(linked, l).stats.broken > 0
                         <=> ListByLecturer(l) \cap ConstraintRows(linked) # {}
    BY DEF PagesAgree
  <2> USE DEF StoreInv
  <2> DEFINE all == AtomicDetails(linked, l)
             broke == {d \in all : IsBroken(linked, d[1], d[2])}
             listed == ListByLecturer(l) \cap ConstraintRows(linked)
  <2>1. FairnessPage(linked, l).stats.broken = Cardinality(broke)
    <3>1. Stats(linked, l).broken = Cardinality(broke)
      BY Zenon DEF Stats
    <3>2. QED
      BY <3>1, PageOpens
  <2>2. broke \in SUBSET all /\ IsFiniteSet(all)
    BY DetailsAreFinite
  <2>3. broke # {} => listed # {}
    <3> SUFFICES ASSUME NEW d \in broke
                 PROVE  listed # {}
      OBVIOUS
    <3>1. PICK i \in ConstraintRows(linked) \cap RowsOf(l) : d \in {i} \X DOMAIN rows[i].rules
      BY DEF AtomicDetails
    <3>2. d[1] = i
      BY <3>1
    <3>3. i \in ListBySemester(FALSE)
      BY <3>2 DEF IsBroken, BrokenIndices, BreakingRows, ListBySchedule
    <3>4. QED
      BY <3>1, <3>3 DEF ListByLecturer
  <2>4. listed # {} => broke # {}
    <3> SUFFICES ASSUME NEW i \in listed
                 PROVE  broke # {}
      OBVIOUS
    <3>1. /\ i \in DOMAIN breaking /\ i \in Ids
          /\ i \in ListBySemester(FALSE) /\ i \in ConstraintRows(linked) \cap RowsOf(l)
      BY DEF ListByLecturer, ListBySemester
    <3>2. PICK a \in breaking[i].atoms : TRUE
      BY <3>1 DEF ReportInv
    <3>3. a[1] \in DOMAIN rows[i].rules
      BY <3>1 DEF IndexInv, Calm, AtRest, Quiet
    <3>4. <<i, a[1]>> \in all
      <4>1. <<i, a[1]>> \in {i} \X DOMAIN rows[i].rules
        BY <3>3
      <4>2. QED
        BY <3>1, <4>1 DEF AtomicDetails
    <3>5. IsBroken(linked, i, a[1])
      <4>1. i \in BreakingRows(linked)
        BY <3>1 DEF BreakingRows, ListBySchedule, ConstraintRows
      <4>2. QED
        BY <3>2, <4>1 DEF IsBroken, BrokenIndices
    <3>6. QED
      BY <3>4, <3>5
  <2> HIDE DEF all, broke, listed
  <2>5. IsFiniteSet(broke)
    BY <2>2, FS_Subset
  <2>6. Cardinality(broke) \in Nat /\ (Cardinality(broke) = 0 <=> broke = {})
    BY <2>5, FS_CardinalityType, FS_EmptySet
  <2>7. Cardinality(broke) > 0 <=> broke # {}
    BY <2>6
  <2>8. QED
    BY <2>1, <2>3, <2>4, <2>7 DEF listed
<1>2. QED
  BY <1>1, IndexInvariant, StoreInvariant, PTL
=============================================================================
