---------------------------- MODULE TextPipeline ----------------------------
(***************************************************************************)
(* From a lecturer's text to the atomic constraints of a preview:          *)
(* create_constraint_preview, process_constraint (utils/llm_process.py),   *)
(* ConstraintProcessingPipeline.process and its stages.                    *)
(*                                                                         *)
(* The language model is external: it gives any answer, right or wrong,    *)
(* one that cannot be parsed, or none (an exception).  A sentence is a     *)
(* model value; what matters of it is whether it has one of the words that *)
(* make it absolute ("only", "cannot", "unavailable", ..).                 *)
(*                                                                         *)
(* The whole text is one preview; previews share nothing but the log of    *)
(* the pipeline, which nobody reads.  process_constraint passes no texts   *)
(* to combine, so the pipeline's text_combination stage never runs: the    *)
(* preview combines them itself, before the pipeline.                      *)
(***************************************************************************)
EXTENDS ConstraintRules

CONSTANTS
    Texts, AbsoluteTexts,   \* the sentences; those with an absolute word
    Atomizations,           \* what the text may be split into
    Inversions,             \* blocks a positive sentence may be turned into
    Answers                 \* what extraction may get: [days, slot]; an hour or a
                            \* minute that is not given is 0

ASSUME PipelineConstants ==
    /\ AbsoluteTexts \subseteq Texts
    /\ Atomizations \subseteq Seq(Texts)
    /\ \A a \in Answers : a.days \in Seq(Int) /\ a.slot \in TimeSlots \cup {NoSlot, EmptySlot}

VARIABLES
    stage,      \* the stage announced last
    reply,      \* the answer of the preview
    items,      \* atomic_texts
    pos,        \* items or negated constraints already processed
    originals,  \* original_texts: how many positive items there are
    negated,    \* all_negated_constraints, unique_negated, valid_negated
    atomics,    \* atomic_constraints, unique_constraints
    noted,      \* items an error or a warning was recorded for
    warnings,   \* of the conflict detection, in the result of process
    result,     \* of process: "none", "success", "clarify", "failed"
    said        \* (ghost) of each negative item: what was extracted from it

pipelineVars == <<stage, reply, items, pos, originals, negated, atomics, noted,
                  warnings, result, said>>

Priorities == {"hard", "soft", "null", "other"}   \* what the model may call it

PipelineInit ==
    /\ stage = "none" /\ reply = "none"
    /\ items = << >> /\ pos = 0 /\ originals = 0
    /\ negated = << >> /\ atomics = << >>
    /\ noted = {} /\ warnings = {} /\ result = "none" /\ said = << >>

Unread == UNCHANGED <<items, originals, negated, atomics, noted, warnings, said>>

\* An exception outside the try block of the pipeline ends the preview.
Raises ==
    /\ stage' = "error"
    /\ UNCHANGED <<reply, pos, result>> /\ Unread

\* One inside it ends the pipeline with an error, which the preview completes.
Fails ==
    /\ stage' = "complete" /\ result' = "failed"
    /\ UNCHANGED <<reply, pos>> /\ Unread

------------------------------------------------------------------------------
(* Stage 0: reading the rows and combining the texts, then clarification *)

Starts ==
    /\ stage = "none"
    /\ \/ stage' = "stage_0" /\ UNCHANGED <<reply, pos, result>> /\ Unread
       \/ Raises            \* the rows cannot be read

\* The model finds the text no clear constraint: the preview asks.
Clarifies ==
    /\ stage = "stage_0"
    /\ \/ stage' = "atomization" /\ UNCHANGED result
       \/ stage' = "complete" /\ result' = "clarify"
    /\ UNCHANGED <<reply, pos>> /\ Unread

ClarificationRaises == stage = "stage_0" /\ Raises

------------------------------------------------------------------------------
(* Stages 1 to 3: atomization, classification, negation *)

\* An answer that cannot be parsed is the whole text as one item.
Atomizes ==
    /\ stage = "atomization"
    /\ items' \in Atomizations
    /\ said' = [i \in DOMAIN items' |-> << >>]
    /\ stage' = "classification"
    /\ UNCHANGED <<reply, pos, originals, negated, atomics, noted, warnings, result>>

\* The model cannot be reached, or an item of its list is no object.
AtomizationFails == stage \in {"atomization", "classification"} /\ Fails

Item == items[pos + 1]

\* Absolute words make it hard, whatever the model says.
PriorityOf(text, told) == IF text \in AbsoluteTexts THEN "hard" ELSE told

\* The constraint made of one extraction, if it is valid.
Made(e, priority) == IF RuleBasedValid(e, priority) THEN <<Atomic(e, priority)>> ELSE << >>

\* A negative item goes straight to extraction; if what comes out of that is
\* not valid there is a warning.
ClassifiesNegative(told, e) ==
    /\ stage = "classification" /\ pos < Len(items)
    /\ LET priority == PriorityOf(Item, told) IN
          /\ atomics' = atomics \o Made(e, priority)
          /\ noted' = IF Made(e, priority) = << >> THEN noted \cup {pos + 1} ELSE noted
          /\ said' = [said EXCEPT ![pos + 1] = <<Atomic(e, priority)>>]
    /\ pos' = pos + 1
    /\ UNCHANGED <<stage, reply, items, originals, negated, warnings, result>>

\* A positive item is turned into blocks of what it leaves out, each with the
\* priority of the item.  An answer that cannot be parsed gives none of them,
\* and nobody is told.
ClassifiesPositive(told, inversion) ==
    /\ stage = "classification" /\ pos < Len(items)
    /\ originals' = originals + 1
    /\ negated' = negated \o
          [n \in DOMAIN inversion |->
              [text |-> inversion[n].text, confidence |-> inversion[n].confidence,
               priority |-> PriorityOf(Item, told), source |-> pos + 1]]
    /\ pos' = pos + 1
    /\ UNCHANGED <<stage, reply, items, atomics, noted, warnings, result, said>>

\* An exception while an item is processed is recorded, and the next one taken.
ItemFails ==
    /\ stage = "classification" /\ pos < Len(items)
    /\ noted' = noted \cup {pos + 1}
    /\ originals' \in {originals, originals + 1}   \* in classification or negation
    /\ pos' = pos + 1
    /\ UNCHANGED <<stage, reply, items, negated, atomics, warnings, result, said>>

\* Mutant: what was negated goes to extraction at once.
AllClassifiedAtOnce ==
    /\ stage = "classification" /\ pos = Len(items)
    /\ stage' = IF negated = << >> THEN "conflict_detection" ELSE "extraction"
    /\ pos' = 0
    /\ UNCHANGED <<reply, result>> /\ Unread

AllClassified ==
    /\ stage = "classification" /\ pos = Len(items)
    /\ stage' = IF negated = << >> THEN "conflict_detection" ELSE "deduplication"
    /\ pos' = 0
    /\ UNCHANGED <<reply, result>> /\ Unread

------------------------------------------------------------------------------
(* Stages 4 to 6: deduplication by text, conflict handler, extraction *)

\* Of each text the version with the highest confidence is kept, in the place
\* of the first, with its own priority.
DeduplicatedByText(ns) ==
    FoldLeft(LAMBDA kept, c :
                IF \E i \in DOMAIN kept : kept[i].text = c.text
                THEN [i \in DOMAIN kept |->
                        IF kept[i].text = c.text /\ c.confidence > kept[i].confidence
                        THEN c ELSE kept[i]]
                ELSE Append(kept, c),
             << >>, ns)

Deduplicates ==
    /\ stage = "deduplication"
    /\ negated' = DeduplicatedByText(negated)
    /\ stage' = IF originals > 1 THEN "conflict_handler" ELSE "extraction"
    /\ UNCHANGED <<reply, items, pos, originals, atomics, noted, warnings, result, said>>

\* A text that is a list, or confidences of the same text that cannot be compared
\* (one is null, or a word).
DeduplicationFails == stage = "deduplication" /\ Fails

\* Batch by batch the model says which are valid and to be kept; those it says
\* nothing about are lost with the others (zip), and an answer that cannot be
\* parsed keeps all.
HandlesConflicts ==
    /\ stage = "conflict_handler"
    /\ \E kept \in SUBSET DOMAIN negated :
          negated' = [n \in 1 .. Cardinality(kept) |-> negated[SetToSortSeq(kept, <)[n]]]
    /\ stage' = "extraction"
    /\ UNCHANGED <<reply, items, pos, originals, atomics, noted, warnings, result, said>>

HandlerFails == stage = "conflict_handler" /\ Fails

Extracts(e) ==
    /\ stage = "extraction" /\ pos < Len(negated)
    /\ LET n == negated[pos + 1] IN
          /\ atomics' = atomics \o Made(e, n.priority)
          /\ noted' = IF Made(e, n.priority) = << >> THEN noted \cup {n.source} ELSE noted
    /\ pos' = pos + 1
    /\ UNCHANGED <<stage, reply, items, originals, negated, warnings, result, said>>

ExtractionFails ==
    /\ stage = "extraction" /\ pos < Len(negated)
    /\ noted' = noted \cup {negated[pos + 1].source}
    /\ pos' = pos + 1
    /\ UNCHANGED <<stage, reply, items, originals, negated, atomics, warnings, result, said>>

AllExtracted ==
    /\ stage = "extraction" /\ pos = Len(negated)
    /\ stage' = "conflict_detection"
    /\ UNCHANGED <<reply, pos, result>> /\ Unread

------------------------------------------------------------------------------
(* Stages 7 to 9 and the answer *)

InConflict(cs) == SelfConflicts(cs) # {} \/ \E d \in Days : Conflicts(cs, d) # {}

DetectsConflicts ==
    /\ stage = "conflict_detection" /\ ~Incomparable(atomics)
    /\ warnings' =
          {w \in {"conflict", "all_days_blocked"} :
              IF w = "all_days_blocked" THEN AllDaysBlocked(atomics) ELSE InConflict(atomics)}
    /\ stage' = "final_deduplication"
    /\ UNCHANGED <<reply, items, pos, originals, negated, atomics, noted, result, said>>

\* Of constraints that overlap in time the texts are quoted.
TextsQuoted ==
    \/ SelfConflicts(atomics) # {}
    \/ \E d \in Days : \E p \in Conflicts(atomics, d) :
          \A i \in {p[1], p[2]} : ~IsFullDayBlock(atomics[i], d)

\* A slot that is not there is asked for its minutes, or the text of an item,
\* which may be no string, for its beginning.
DetectionFails ==
    /\ stage = "conflict_detection"
    /\ ~Incomparable(atomics) => TextsQuoted
    /\ Fails

\* Mutant: the slot is forgotten.
DeduplicatesByDays ==
    /\ stage = "final_deduplication"
    /\ atomics' = FoldLeft(LAMBDA kept, c :
                     IF \E i \in DOMAIN kept : kept[i].days = c.days
                     THEN kept ELSE Append(kept, c), << >>, atomics)
    /\ stage' = "logging"
    /\ UNCHANGED <<reply, items, pos, originals, negated, noted, warnings, result, said>>

DeduplicatesFinally ==
    /\ stage = "final_deduplication"
    /\ atomics' = Deduplicated(atomics)
    /\ stage' = "logging"
    /\ UNCHANGED <<reply, items, pos, originals, negated, noted, warnings, result, said>>

\* The text of an item is no string, or its priority an empty list: valid, but
\* no part of a key.
FinalDeduplicationFails == stage = "final_deduplication" /\ atomics # << >> /\ Fails

Finishes ==
    /\ stage = "logging"
    /\ stage' = "complete"
    /\ result' = IF atomics = << >> THEN "failed" ELSE "success"
    /\ UNCHANGED <<reply, pos>> /\ Unread

\* What fails is refused with 400, raised where the preview catches it.
PreviewRefuses == stage = "complete" /\ result = "failed" /\ reply = "none" /\ Raises

\* What process recorded, warnings and errors, is not in the answer.
Answered ==
    /\ reply = "none"
    /\ \/ stage = "complete" /\ result = "success" /\ reply' = "success"
       \/ stage = "complete" /\ result = "clarify" /\ reply' = "invalid"
       \/ stage = "error" /\ reply' = "failed"
    /\ UNCHANGED <<stage, pos, result>> /\ Unread

Extractions == {NothingExtracted} \cup {Extracted(a) : a \in Answers}

PipelineNext ==
    \/ Starts \/ Clarifies \/ ClarificationRaises
    \/ Atomizes \/ AtomizationFails
    \/ \E told \in Priorities, e \in Extractions : ClassifiesNegative(told, e)
    \/ \E told \in Priorities, inv \in Inversions : ClassifiesPositive(told, inv)
    \/ ItemFails \/ AllClassified
    \/ Deduplicates \/ DeduplicationFails \/ HandlesConflicts \/ HandlerFails
    \/ \E e \in Extractions : Extracts(e)
    \/ ExtractionFails \/ AllExtracted
    \/ DetectsConflicts \/ DetectionFails
    \/ DeduplicatesFinally \/ FinalDeduplicationFails \/ Finishes
    \/ PreviewRefuses \/ Answered

PipelineSpec == PipelineInit /\ [][PipelineNext]_pipelineVars

------------------------------------------------------------------------------
(* Properties *)

\* The stages are announced in the order that clients of the progress are told.
Stages == INSTANCE PipelineStages

AnnouncesStages == Stages!StagesSpec

Usual(c) ==
    /\ IsInjective(c.days) /\ c.priority # "null"
    /\ c.slot # NoSlot => c.slot.start_minute \in 0 .. 59 /\ c.slot.end_minute \in 0 .. 59

\* What a preview offers to save, the secretaries' editor would accept as it
\* is, and it lies in the working hours (in whole hours).  The two checks are
\* programs of their own: rule_validator.py and the duplicates' key here,
\* structured_rules_validator.py and its signature there.  They differ about a
\* day named twice, a priority that is null and a minute that no hour has, which
\* are left out.
EditorAcceptsPreview ==
    (reply = "success" /\ \A i \in DOMAIN atomics : Usual(atomics[i])) =>
        /\ StructuredValid(<< >>, atomics)
        /\ \A i \in DOMAIN atomics : \A d \in ToSet(atomics[i].days) : atomics[i].slot # NoSlot =>
              atomics[i].slot.start_hour >= StartHour /\ atomics[i].slot.end_hour <= EndOf(d)

\* When a lecturer cannot come and the pipeline succeeds, that item is in the
\* preview - as a block, if its words were absolute - or the result of process
\* has a warning or an error for it (which the route does not pass on); neither
\* the duplicates nor another item of the text make it disappear.
UnavailableIsKept ==
    reply = "success" =>
        \A i \in DOMAIN said : said[i] # << >> =>
            \/ i \in noted
            \/ \E n \in DOMAIN atomics :
                  /\ ToSet(atomics[n].days) = ToSet(said[i][1].days)
                  /\ atomics[n].slot = said[i][1].slot
                  /\ atomics[n].type = said[i][1].type
                  /\ items[i] \in AbsoluteTexts => atomics[n].type = "block"

\* The minutes of day d that a constraint takes: all of them without a slot.
MinutesOn(d, slot) ==
    IF slot = NoSlot THEN StartHour * 60 .. EndOf(d) * 60 - 1
    ELSE from_minutes(slot) .. to_minutes(slot) - 1

\* When process succeeds without a conflict among the warnings of its result, no
\* two of its constraints share a minute of a day, other than two that block the
\* whole of it, and one without slot shares its day with no other: the detection
\* compares minutes of slots, and the program that takes a missing slot for the
\* whole day is another one.  The result is all that is warned: the answer to the
\* lecturer has no warnings.
OverlapIsRecorded ==
    (result = "success" /\ "conflict" \notin warnings) =>
        \A i, j \in DOMAIN atomics : \A d \in ToSet(atomics[i].days) \cap ToSet(atomics[j].days) :
            \/ i = j
            \/ MinutesOn(d, atomics[i].slot) \cap MinutesOn(d, atomics[j].slot) = {}
            \/ IsFullDayBlock(atomics[i], d) /\ IsFullDayBlock(atomics[j], d)
=============================================================================
