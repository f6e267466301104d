-------------------------- MODULE ConstraintRules --------------------------
(***************************************************************************)
(* What an atomic constraint means, to each of the programs that read one. *)
(* The text pipeline makes it (extraction_stage.py) and checks it          *)
(* (rule_validator.py, conflict_detector.py, deduplicator.py), the         *)
(* secretaries' editor checks it again (structured_rules_validator.py),    *)
(* the solver keeps sessions out of it (CspSolver) and the Backend reports *)
(* the sessions that break it (repositories/breaking_constraints.py).      *)
(*                                                                         *)
(* An atomic has a type ("block" or "preference"), days, a slot or none    *)
(* (the whole day) and a priority.  The days are a sequence, as the        *)
(* language model wrote them.                                              *)
(***************************************************************************)
EXTENDS Integers, Sequences, FiniteSetsExt, SequencesExt

CONSTANTS
    Days,           \* the days scheduled (1..6 in the code)
    Friday,         \* the day that ends early (6)
    StartHour,      \* 8
    EndRegular,     \* 20
    EndFriday,      \* 15
    NoSlot          \* a missing time_slot

ASSUME WorkingHours ==
    /\ Days \subseteq Nat /\ IsFiniteSet(Days)
    /\ StartHour \in Nat /\ EndRegular \in Nat /\ EndFriday \in Nat
    /\ StartHour < EndFriday /\ EndFriday <= EndRegular /\ EndRegular < 24

EndOf(d) == IF d = Friday THEN EndFriday ELSE EndRegular

TimeSlots == [start_hour : Int, start_minute : Int, end_hour : Int, end_minute : Int]

\* An object without fields.
EmptySlot == << >>

ASSUME NoSlotIsNone == NoSlot \notin TimeSlots \cup {EmptySlot}

TimeSlot(from, until) ==
    [start_hour |-> from, start_minute |-> 0, end_hour |-> until, end_minute |-> 0]

\* to_minutes: from midnight.
from_minutes(slot) == slot.start_hour * 60 + slot.start_minute
to_minutes(slot) == slot.end_hour * 60 + slot.end_minute

Meet(s, t) == from_minutes(s) < to_minutes(t) /\ from_minutes(t) < to_minutes(s)

\* A session [day, slot] breaks an atomic on days: any session of those days
\* breaks an atomic without slot.  The type of the atomic does not matter.
atomic_breaks_session(days, slot, session) ==
    /\ session.day \in days
    /\ slot = NoSlot \/ Meet(slot, session.slot)

------------------------------------------------------------------------------
(* Extraction *)

\* In order: the n-th has n - 1 of them before it.
AllDays ==
    [n \in 1 .. Cardinality(Days) |->
        CHOOSE d \in Days : Cardinality({e \in Days : e < d}) = n - 1]

\* Days are all days if there are none.  A missing slot is the whole day, that
\* of a Friday only if Friday is the only day, but one that is there and empty
\* is no slot; an afternoon (from 13:00) ends at 15 on a Friday, and at 16 if the
\* model said 15 of other days.
Extracted(answer) ==
    LET days == IF answer.days = << >> THEN AllDays ELSE answer.days
        slot == IF answer.slot # NoSlot THEN answer.slot
                ELSE TimeSlot(StartHour, IF days = <<Friday>> THEN EndFriday ELSE EndRegular)
        until == IF slot.start_hour # 13 THEN slot.end_hour
                 ELSE IF days = <<Friday>> THEN 15
                 ELSE IF slot.end_hour = 15 THEN 16
                 ELSE slot.end_hour
    IN  [days |-> days,
         slot |-> IF slot = EmptySlot THEN NoSlot ELSE [slot EXCEPT !.end_hour = until]]

\* An answer that cannot be used.
NothingExtracted == [days |-> << >>, slot |-> NoSlot]

\* Mutant: a slot that ends when it starts passes.
RuleBasedValidLoose(e, priority) ==
    /\ priority \in {"hard", "soft", "null"}
    /\ e.days # << >> /\ ToSet(e.days) \subseteq Days
    /\ \/ e.slot = NoSlot
       \/ /\ from_minutes(e.slot) <= to_minutes(e.slot)
          /\ e.slot.start_hour >= StartHour
          /\ \A d \in ToSet(e.days) : e.slot.end_hour <= EndOf(d)

\* RuleBasedValidator.validate: the minutes of the end do not count against the
\* working hours, and a missing priority passes.
RuleBasedValid(e, priority) ==
    /\ priority \in {"hard", "soft", "null"}
    /\ e.days # << >> /\ ToSet(e.days) \subseteq Days
    /\ \/ e.slot = NoSlot
       \/ /\ from_minutes(e.slot) < to_minutes(e.slot)
          /\ e.slot.start_hour >= StartHour
          /\ \A d \in ToSet(e.days) :
                /\ e.slot.end_hour <= EndOf(d)
                /\ d = Friday => e.slot.start_hour < 16

\* _create_atomic_constraint: what is not soft is a block.
TypeOf(priority) == IF priority = "soft" THEN "preference" ELSE "block"

Atomic(e, priority) ==
    [type |-> TypeOf(priority), days |-> e.days, slot |-> e.slot, priority |-> priority]

------------------------------------------------------------------------------
(* Duplicates and conflicts *)

\* _constraint_to_key: the days are sorted, and days named twice stay twice, so
\* that what counts is how often each day is named.
Key(c) == <<ToBag(c.days), c.slot, c.priority>>

AddedIfNew(kept, c) ==
    IF \E i \in DOMAIN kept : Key(kept[i]) = Key(c) THEN kept ELSE Append(kept, c)

\* The first of each key is kept.
Deduplicated(cs) ==
    LET kept[n \in 0 .. Len(cs)] ==
          IF n = 0 THEN << >> ELSE AddedIfNew(kept[n - 1], cs[n])
    IN  kept[Len(cs)]

\* Minutes are compared, 8:00 to 20:00 or 15:00.
IsFullDayBlock(c, d) ==
    /\ c.slot # NoSlot
    /\ from_minutes(c.slot) = StartHour * 60
    /\ to_minutes(c.slot) = EndOf(d) * 60

\* Constraints of which the slots are asked for, although one has none: two of a
\* day (or one that names it twice), neither of the whole day.
Incomparable(cs) ==
    \E d \in Days : \E i, j \in DOMAIN cs :
        /\ \E a \in DOMAIN cs[i].days, b \in DOMAIN cs[j].days :
              /\ cs[i].days[a] = d /\ cs[j].days[b] = d
              /\ <<i, a>> # <<j, b>>
        /\ ~IsFullDayBlock(cs[i], d) /\ ~IsFullDayBlock(cs[j], d)
        /\ cs[i].slot = NoSlot

\* Mutant: only slots that begin together are compared.
ConflictsSameStart(cs, d) ==
    {p \in (1 .. Len(cs)) \X (1 .. Len(cs)) :
        LET whole == {i \in {p[1], p[2]} : IsFullDayBlock(cs[i], d)} IN
        /\ p[1] < p[2]
        /\ d \in ToSet(cs[p[1]].days) \cap ToSet(cs[p[2]].days)
        /\ whole # {p[1], p[2]}
        /\ whole # {} \/ cs[p[1]].slot.start_hour = cs[p[2]].slot.start_hour}

\* Pairs of constraints in conflict on day d, if all can be compared: one takes
\* the whole day and the other does not, or their slots meet.
Conflicts(cs, d) ==
    {p \in (1 .. Len(cs)) \X (1 .. Len(cs)) :
        LET whole == {i \in {p[1], p[2]} : IsFullDayBlock(cs[i], d)} IN
        /\ p[1] < p[2]
        /\ d \in ToSet(cs[p[1]].days) \cap ToSet(cs[p[2]].days)
        /\ whole # {p[1], p[2]}
        /\ whole # {} \/ Meet(cs[p[1]].slot, cs[p[2]].slot)}

\* A day named twice by one constraint puts it in conflict with itself.
SelfConflicts(cs) ==
    {i \in DOMAIN cs : \E a, b \in DOMAIN cs[i].days :
        a # b /\ cs[i].days[a] = cs[i].days[b] /\ ~IsFullDayBlock(cs[i], cs[i].days[a])}

AllDaysBlocked(cs) ==
    \A d \in Days : \E i \in DOMAIN cs : d \in ToSet(cs[i].days) /\ IsFullDayBlock(cs[i], d)

------------------------------------------------------------------------------
(* The secretaries' editor *)

ValidSlot(slot) ==
    /\ slot.start_hour \in 0 .. 23 /\ slot.end_hour \in 0 .. 24
    /\ slot.start_minute \in 0 .. 59 /\ slot.end_minute \in 0 .. 59
    /\ from_minutes(slot) < to_minutes(slot)

ValidAtomic(c) ==
    /\ c.type \in {"block", "preference"}
    /\ c.days # << >> /\ ToSet(c.days) \subseteq Days /\ IsInjective(c.days)
    /\ c.slot # NoSlot => ValidSlot(c.slot)
    /\ c.priority \in {"hard", "soft"}

Signature(c) == <<c.type, ToBag(c.days), c.slot, c.priority>>

\* StructuredRulesValidator.validate against the rules there are.
StructuredValid(old, new) ==
    /\ new # << >>
    /\ \A i \in DOMAIN new : ValidAtomic(new[i])
    /\ \A i, j \in DOMAIN new : i # j => Signature(new[i]) # Signature(new[j])
    /\ \A i \in DOMAIN new \cap DOMAIN old : new[i].type = old[i].type
=============================================================================
