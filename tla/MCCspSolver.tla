---------------------------- MODULE MCCspSolver ----------------------------
(***************************************************************************)
(* Small instances of CspSolver for TLC: a week of a Thursday with three   *)
(* hours and a Friday with two, three offerings of which the first two are *)
(* groups of one course, and up to three atomics in two rows.              *)
(***************************************************************************)
EXTENDS CspSolver

Block(days, slot, priority) ==
    [type |-> "block", days |-> days, slot |-> slot, priority |-> priority]
Preference(days, slot) ==
    [type |-> "preference", days |-> days, slot |-> slot, priority |-> "soft"]
Slot(from, until) == TimeSlot(from, until)
HalfPast(from, until) == [TimeSlot(from, until) EXCEPT !.start_minute = 30, !.end_minute = 30]

Row(id, l, override, rules) ==
    [id |-> id, lecturer |-> l, override |-> override, rules |-> rules]

Offering(id, credits, course, l) ==
    [id |-> id, credits |-> credits, course |-> course, lecturers |-> {l},
     cohorts |-> {"year1"}]

\* Lectures of one, two and three hours, and a week that is too full.
MCOfferings ==
    {<<Offering(1, c[1], "algebra", "ada"), Offering(2, c[1], "algebra", "bob"),
       Offering(3, c[2], "logic", l)>> :
        c \in {<<2, 4>>, <<4, 4>>, <<4, 7>>, <<7, 4>>, <<7, 7>>}, l \in {"ada", "bob"}}
    \cup {<<Offering(1, 10, "algebra", "ada")>>}

MCRows ==
    {<<Row(1, "ada", override, <<first>>), Row(2, "bob", "none", second)>> :
        override \in {"none", "hard", "soft"},
        first \in {Block({5}, Slot(9, 11), "soft"), Block({5, 6}, Slot(8, 9), "hard"),
                   Block({6}, NoSlot, "hard"), Block({5}, HalfPast(8, 9), "hard"), Preference({5}, Slot(8, 10)),
                   Block({5, 6}, NoSlot, "soft"),
                   Block(NoDays, NoSlot, "soft")},
        second \in {<<Block({5}, Slot(8, 11), "none"), Block({6}, Slot(8, 10), "soft")>>,
                    <<Block({5, 6}, NoSlot, "soft"), Block({5}, Slot(9, 10), "none")>>,
                    <<Block({5}, Slot(9, 10), "hard")>>, << >>}}
    \cup {<<Row(NoId, "ada", "hard", <<Block({5, 6}, NoSlot, "hard")>>)>>}

MCRequests == [offerings : MCOfferings, constraints : MCRows]

=============================================================================
