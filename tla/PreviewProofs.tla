--------------------------- MODULE PreviewProofs ---------------------------
(***************************************************************************)
(* What holds of a preview: of the pipeline that makes it (TextPipeline),  *)
(* for any texts and any answers of the language model, and of what is     *)
(* told of it on the way (ProgressSockets), for any number of clients.     *)
(*                                                                         *)
(* PipelineInv is inductive.  Every atomic is one that rule_validator.py   *)
(* passes (Offers), every item that was said not to fit is among the       *)
(* atomics or noted, what passed the conflict detection unwarned is quiet, *)
(* and what passed the last deduplication has distinct keys.  It needs     *)
(* what the two loops of the code compute: Deduplicated is a recursive     *)
(* function, so its properties hold of every prefix of the atomics (UpTo,  *)
(* from the least prefix where they would not).                            *)
(*                                                                         *)
(* SocketsInv is inductive: a client that is there is among the            *)
(* connections, so that every broadcast copies it, only clients that have  *)
(* left are removed, and a list that stays behind has somebody who will    *)
(* still disconnect.  The three properties are inductive relative to it.   *)
(***************************************************************************)
EXTENDS TextPipeline, ProgressSockets, LoopLemmas, SequenceTheorems

\* What can be made of an answer: the valid atomics.
Judged == Extractions \X {"hard", "soft", "null"}
Offers == {Atomic(x[1], x[2]) : x \in {y \in Judged : RuleBasedValid(y[1], y[2])}}

\* The same days, slot and type are among them.
Offered(cs, c) ==
    \E n \in DOMAIN cs :
        /\ ToSet(cs[n].days) = ToSet(c.days)
        /\ cs[n].slot = c.slot
        /\ cs[n].type = c.type

AllDistinct(cs) == \A i, k \in DOMAIN cs : i # k => Key(cs[i]) # Key(cs[k])

Overlapping(c, e, d) ==
    /\ d \in ToSet(c.days) \cap ToSet(e.days)
    /\ MinutesOn(d, c.slot) \cap MinutesOn(d, e.slot) # {}
    /\ ~(IsFullDayBlock(c, d) /\ IsFullDayBlock(e, d))

Quiet(cs) ==
    \A i, k \in DOMAIN cs : i # k => \A d \in Days : ~Overlapping(cs[i], cs[k], d)

PipelineTypes ==
    /\ atomics \in Seq(Offers)
    /\ items \in Seq(Texts) /\ pos \in Nat
    /\ DOMAIN said = DOMAIN items

SaidInv ==
    \A i \in DOMAIN said : said[i] # << >> =>
        /\ items[i] \in AbsoluteTexts => said[i][1].type = "block"
        /\ i \in noted \/ Offered(atomics, said[i][1])

ResultInv ==
    /\ result \in {"success", "failed"} => stage \in {"complete", "error"}
    /\ result = "success" => stage = "complete" /\ atomics # << >>
    /\ reply = "success" => result = "success"

CheckedInv ==
    /\ stage \in {"final_deduplication", "logging"} \/ result = "success" =>
          "conflict" \in warnings \/ Quiet(atomics)
    /\ stage = "logging" \/ result = "success" => AllDistinct(atomics)

PipelineInv == PipelineTypes /\ SaidInv /\ ResultInv /\ CheckedInv

------------------------------------------------------------------------------
(* What the loops compute *)

Kept(cs) ==
    LET kept[n \in 0 .. Len(cs)] ==
          IF n = 0 THEN << >> ELSE AddedIfNew(kept[n - 1], cs[n])
    IN  kept

\* The list of what is kept, step by step, is the function that the recursion of
\* Deduplicated describes.
LEMMA KeptIsDefined ==
    ASSUME NEW S, NEW cs \in Seq(S)
    PROVE  Kept(cs) = [n \in 0 .. Len(cs) |->
                          IF n = 0 THEN << >> ELSE AddedIfNew(Kept(cs)[n - 1], cs[n])]
<1> DEFINE k == 0
           n == Len(cs)
           X == Seq(S)
           first == << >>
           step == [p \in (k + 1 .. n) \X X |-> AddedIfNew(p[2], cs[p[1]])]
           Makes(g) == g = [i \in k .. n |-> IF i = k THEN first ELSE AddedIfNew(g[i - 1], cs[i])]
<1>1. k \in Nat /\ n \in Nat /\ k <= n /\ first \in X
  OBVIOUS
<1>2. step \in [(k + 1 .. n) \X X -> X]
  <2>1. \A i \in k + 1 .. n, kept \in X : AddedIfNew(kept, cs[i]) \in X
    BY DEF AddedIfNew
  <2>2. QED
    BY <2>1
<1> HIDE DEF X
<1>3. PICK g \in [k .. n -> X] : IsLoop(g, k, n, first, step)
  <2> HIDE DEF step, k, n, first
  <2>1. QED
    BY <1>1, <1>2, LoopIsDefined
<1>4. \A i \in k .. n : i # k => step[<<i, g[i - 1]>>] = AddedIfNew(g[i - 1], cs[i])
  <2> SUFFICES ASSUME NEW i \in k .. n, i # k
               PROVE  step[<<i, g[i - 1]>>] = AddedIfNew(g[i - 1], cs[i])
    OBVIOUS
  <2>1. i \in k + 1 .. n /\ g[i - 1] \in X
    BY <1>1
  <2>2. QED
    BY <2>1
<1>5. Makes(g)
  <2> HIDE DEF step, k, n, first
  <2>1. QED
    BY <1>3, <1>4 DEF IsLoop
<1>6. \E h : Makes(h)
  <2> HIDE DEF Makes
  <2>1. QED
    BY <1>5
<1>7. Kept(cs) = CHOOSE h : Makes(h)
  BY DEF Kept
<1>8. Makes(Kept(cs))
  <2> HIDE DEF Makes
  <2>1. QED
    BY <1>6, <1>7
<1>9. QED
  BY <1>8

\* A list of days that is not empty names a day.
LEMMA AllDaysIsASequence == AllDays # << >> => ToSet(AllDays) # {}
<1>1. AllDays = [i \in DOMAIN AllDays |-> AllDays[i]]
  BY DEF AllDays
<1>2. DOMAIN AllDays = {} => AllDays = << >>
  BY <1>1
<1>3. QED
  BY <1>2 DEF ToSet

\* ConstraintDeduplicator keeps constraints it was given, one of each key, and
\* none of the keys is lost.
LEMMA DeduplicatedKeepsFirsts ==
    ASSUME NEW S, NEW cs \in Seq(S)
    PROVE  /\ Deduplicated(cs) \in Seq(S)
           /\ \A i \in DOMAIN Deduplicated(cs) : \E j \in DOMAIN cs : Deduplicated(cs)[i] = cs[j]
           /\ \A i, k \in DOMAIN Deduplicated(cs) :
                i # k => Key(Deduplicated(cs)[i]) # Key(Deduplicated(cs)[k])
           /\ \A j \in DOMAIN cs : \E i \in DOMAIN Deduplicated(cs) :
                Key(Deduplicated(cs)[i]) = Key(cs[j])
<1> DEFINE K == Kept(cs)
           Firsts(n) ==
             /\ K[n] \in Seq(S)
             /\ \A i \in 1 .. Len(K[n]) : \E j \in 1 .. n : K[n][i] = cs[j]
             /\ \A i, k \in 1 .. Len(K[n]) : i # k => Key(K[n][i]) # Key(K[n][k])
             /\ \A j \in 1 .. n : \E i \in 1 .. Len(K[n]) : Key(K[n][i]) = Key(cs[j])
           T == {n \in 0 .. Len(cs) : Firsts(n)}
<1>1. Len(cs) \in Nat /\ DOMAIN cs = 1 .. Len(cs)
  OBVIOUS
<1>2. K = [n \in 0 .. Len(cs) |-> IF n = 0 THEN << >> ELSE AddedIfNew(K[n - 1], cs[n])]
  BY KeptIsDefined
<1> HIDE DEF K
<1>3. 0 \in T
  <2>1. K[0] = << >>
    BY <1>1, <1>2
  <2>2. K[0] \in Seq(S) /\ Len(K[0]) = 0
    BY <2>1
  <2>3. Firsts(0)
    <3> HIDE DEF K
    <3>1. 1 .. Len(K[0]) = {} /\ 1 .. 0 = {}
      BY <2>2
    <3>2. QED
      BY <2>2, <3>1
  <2>4. QED
    BY <1>1, <2>3
<1>4. ASSUME NEW n \in 0 .. Len(cs) - 1, n \in T
      PROVE  n + 1 \in T
  <2>1. n \in Nat /\ n + 1 \in 1 .. Len(cs) /\ cs[n + 1] \in S
    BY <1>1
  <2>2. K[n + 1] = AddedIfNew(K[n], cs[n + 1])
    BY <1>2, <2>1
  <2>3. Firsts(n)
    BY <1>4
  <2>4. CASE \E i \in DOMAIN K[n] : Key(K[n][i]) = Key(cs[n + 1])
    <3>1. K[n + 1] = K[n]
      BY <2>2, <2>4 DEF AddedIfNew
    <3>2. PICK i \in 1 .. Len(K[n]) : Key(K[n][i]) = Key(cs[n + 1])
      <4> HIDE DEF K
      <4>1. DOMAIN K[n] = 1 .. Len(K[n])
        BY <2>3
      <4>2. QED
        BY <2>4, <4>1
    <3>3. \A j \in 1 .. n + 1 : j \in 1 .. n \/ j = n + 1
      BY <2>1
    <3>4. \A j \in 1 .. n : j \in 1 .. n + 1
      BY <2>1
    <3>5. /\ K[n + 1] \in Seq(S)
          /\ \A p, k \in 1 .. Len(K[n + 1]) : p # k => Key(K[n + 1][p]) # Key(K[n + 1][k])
      BY <2>3, <3>1
    <3>6. \A p \in 1 .. Len(K[n + 1]) : \E j \in 1 .. n + 1 : K[n + 1][p] = cs[j]
      <4> TAKE p \in 1 .. Len(K[n + 1])
      <4>1. PICK j \in 1 .. n : K[n][p] = cs[j]
        BY <2>3, <3>1
      <4>2. QED
        BY <3>1, <3>4, <4>1
    <3>7. \A j \in 1 .. n + 1 : \E p \in 1 .. Len(K[n + 1]) : Key(K[n + 1][p]) = Key(cs[j])
      BY <2>3, <3>1, <3>2, <3>3
    <3>8. Firsts(n + 1)
      BY <3>5, <3>6, <3>7
    <3>9. QED
      BY <2>1, <3>8
  <2>5. CASE ~ \E i \in DOMAIN K[n] : Key(K[n][i]) = Key(cs[n + 1])
    <3>1. K[n + 1] = Append(K[n], cs[n + 1])
      BY <2>2, <2>5 DEF AddedIfNew
    <3>2. \A i \in 1 .. Len(K[n]) : Key(K[n][i]) # Key(cs[n + 1])
      BY <2>3, <2>5
    <3>3. /\ K[n + 1] \in Seq(S)
          /\ Len(K[n + 1]) = Len(K[n]) + 1 /\ Len(K[n]) \in Nat
          /\ \A i \in 1 .. Len(K[n]) : K[n + 1][i] = K[n][i]
          /\ K[n + 1][Len(K[n]) + 1] = cs[n + 1]
      BY <2>1, <2>3, <3>1
    <3>4. \A i \in 1 .. Len(K[n + 1]) : \E j \in 1 .. n + 1 : K[n + 1][i] = cs[j]
      BY <2>1, <2>3, <3>3
    <3>5. \A i, k \in 1 .. Len(K[n + 1]) : i # k => Key(K[n + 1][i]) # Key(K[n + 1][k])
      <4> TAKE i, k \in 1 .. Len(K[n + 1])
      <4> HAVE i # k
      <4>1. /\ i \in 1 .. Len(K[n]) \/ i = Len(K[n]) + 1
            /\ k \in 1 .. Len(K[n]) \/ k = Len(K[n]) + 1
        BY <3>3
      <4>2. CASE i \in 1 .. Len(K[n]) /\ k \in 1 .. Len(K[n])
        BY <2>3, <3>3, <4>2
      <4>3. CASE i \in 1 .. Len(K[n]) /\ k = Len(K[n]) + 1
        BY <3>2, <3>3, <4>3
      <4>4. CASE i = Len(K[n]) + 1 /\ k \in 1 .. Len(K[n])
        BY <3>2, <3>3, <4>4
      <4>5. QED
        BY <4>1, <4>2, <4>3, <4>4
    <3>6. \A j \in 1 .. n + 1 : \E i \in 1 .. Len(K[n + 1]) : Key(K[n + 1][i]) = Key(cs[j])
      <4> TAKE j \in 1 .. n + 1
      <4>1. CASE j \in 1 .. n
        <5>1. PICK i \in 1 .. Len(K[n]) : Key(K[n][i]) = Key(cs[j])
          BY <2>3, <4>1
        <5>2. i \in 1 .. Len(K[n + 1]) /\ Key(K[n + 1][i]) = Key(cs[j])
          BY <3>3, <5>1
        <5>3. QED
          BY <5>2
      <4>2. CASE j = n + 1
        <5>1. Len(K[n]) + 1 \in 1 .. Len(K[n + 1])
          BY <3>3
        <5>2. QED
          BY <3>3, <4>2, <5>1
      <4>3. QED
        BY <2>1, <4>1, <4>2
    <3>7. QED
      BY <2>1, <3>3, <3>4, <3>5, <3>6
  <2>6. QED
    BY <2>4, <2>5
<1>5. Len(cs) \in T
  <2> HIDE DEF T
  <2>1. 0 .. Len(cs) \subseteq T
    BY <1>1, <1>3, <1>4, UpTo
  <2>2. QED
    BY <1>1, <2>1
<1>6. Deduplicated(cs) = K[Len(cs)]
  BY DEF Deduplicated, Kept, K
<1>7. Firsts(Len(cs))
  BY <1>5
<1>8. QED
  <2> HIDE DEF K
  <2>1. DOMAIN K[Len(cs)] = 1 .. Len(K[Len(cs)])
    BY <1>7
  <2>2. QED
    BY <1>1, <1>6, <1>7, <2>1

------------------------------------------------------------------------------
(* What is made of an answer *)

\* A sequence with one more element.
LEMMA OneMore ==
    ASSUME NEW S, NEW s \in Seq(S), NEW x
    PROVE  /\ x \in S => s \o <<x>> \in Seq(S)
           /\ s \o << >> = s
           /\ Len(s) \in Nat /\ DOMAIN s = 1 .. Len(s)
           /\ Len(s \o <<x>>) = Len(s) + 1
           /\ DOMAIN (s \o <<x>>) = 1 .. Len(s) + 1
           /\ \A i \in 1 .. Len(s) : (s \o <<x>>)[i] = s[i]
           /\ (s \o <<x>>)[Len(s) + 1] = x
  OBVIOUS

\* A constraint that is made is valid.
LEMMA MadeIsOffered ==
    ASSUME NEW e \in Extractions, NEW p
    PROVE  /\ RuleBasedValid(e, p) => Atomic(e, p) \in Offers
           /\ Made(e, p) = IF RuleBasedValid(e, p) THEN <<Atomic(e, p)>> ELSE << >>
<1>1. RuleBasedValid(e, p) => p \in {"hard", "soft", "null"}
  BY DEF RuleBasedValid
<1>2. RuleBasedValid(e, p) => <<e, p>> \in {y \in Judged : RuleBasedValid(y[1], y[2])}
  BY <1>1 DEF Judged
<1>3. QED
  BY <1>2 DEF Offers, Made

\* The slot of what is extracted: none, if the model gave an empty one.
LEMMA ExtractedTypes ==
    ASSUME NEW a \in Answers
    PROVE  Extracted(a).slot \in TimeSlots \cup {NoSlot}
<1> DEFINE days == IF a.days = << >> THEN AllDays ELSE a.days
           slot == IF a.slot # NoSlot THEN a.slot
                   ELSE TimeSlot(StartHour, IF days = <<Friday>> THEN EndFriday ELSE EndRegular)
           until == IF slot.start_hour # 13 THEN slot.end_hour
                    ELSE IF days = <<Friday>> THEN 15
                    ELSE IF slot.end_hour = 15 THEN 16
                    ELSE slot.end_hour
<1>1. Extracted(a).slot = IF slot = EmptySlot THEN NoSlot ELSE [slot EXCEPT !.end_hour = until]
  BY DEF Extracted
<1>2. slot \in TimeSlots \cup {EmptySlot}
  BY WorkingHours, PipelineConstants DEF TimeSlot, TimeSlots
<1> HIDE DEF slot
<1>3. slot \in TimeSlots => until \in Int
  BY DEF TimeSlots
<1> HIDE DEF until
<1>4. slot \in TimeSlots => [slot EXCEPT !.end_hour = until] \in TimeSlots
  BY <1>3 DEF TimeSlots
<1>5. QED
  BY <1>1, <1>2, <1>4

\* What an offer is.
LEMMA OfferTypes ==
    ASSUME NEW c \in Offers
    PROVE  /\ c.type \in {"block", "preference"} /\ c.priority \in {"hard", "soft", "null"}
           /\ c.type = IF c.priority = "soft" THEN "preference" ELSE "block"
           /\ c.days # << >> /\ ToSet(c.days) \subseteq Days /\ ToSet(c.days) # {}
           /\ c.slot # NoSlot =>
                 /\ c.slot \in TimeSlots
                 /\ from_minutes(c.slot) < to_minutes(c.slot)
                 /\ c.slot.start_hour >= StartHour
                 /\ \A d \in ToSet(c.days) : c.slot.end_hour <= EndOf(d)
<1>1. PICK e \in Extractions, p \in {"hard", "soft", "null"} :
          RuleBasedValid(e, p) /\ c = Atomic(e, p)
  BY DEF Offers, Judged
<1>2. e.days # << >>
  BY <1>1 DEF RuleBasedValid
<1>3. PICK a \in Answers : e = Extracted(a)
  BY <1>2 DEF Extractions, NothingExtracted
<1>4. e.slot \in TimeSlots \cup {NoSlot}
  BY <1>3, ExtractedTypes
<1>5. /\ ToSet(e.days) \subseteq Days
      /\ e.slot # NoSlot =>
            /\ from_minutes(e.slot) < to_minutes(e.slot)
            /\ e.slot.start_hour >= StartHour
            /\ \A d \in ToSet(e.days) : e.slot.end_hour <= EndOf(d)
  BY <1>1 DEF RuleBasedValid
<1>6. /\ c.type = IF p = "soft" THEN "preference" ELSE "block"
      /\ c.days = e.days /\ c.slot = e.slot /\ c.priority = p
  BY <1>1 DEF Atomic, TypeOf
<1>7. ToSet(e.days) # {}
  <2>1. CASE a.days = << >>
    BY <1>2, <1>3, <2>1, AllDaysIsASequence DEF Extracted
  <2>2. CASE a.days # << >>
    <3>1. e.days = a.days /\ a.days \in Seq(Int)
      BY <1>3, <2>2, PipelineConstants DEF Extracted
    <3>2. a.days[1] \in ToSet(e.days)
      BY <2>2, <3>1 DEF ToSet
    <3>3. QED
      BY <3>2
  <2>3. QED
    BY <2>1, <2>2
<1>8. QED
  BY <1>2, <1>4, <1>5, <1>6, <1>7

\* Constraints of one key name the same days, slot and priority.
LEMMA SameKey ==
    ASSUME NEW c, NEW e, Key(c) = Key(e)
    PROVE  ToSet(c.days) = ToSet(e.days) /\ c.slot = e.slot /\ c.priority = e.priority
<1>1. /\ ToBag(c.days) = ToBag(e.days) /\ c.slot = e.slot /\ c.priority = e.priority
  BY DEF Key
<1>2. DOMAIN ToBag(c.days) = DOMAIN ToBag(e.days)
  BY <1>1
<1>3. ToSet(c.days) = DOMAIN ToBag(c.days) /\ ToSet(e.days) = DOMAIN ToBag(e.days)
  BY DEF ToBag, ToSet, Range
<1>4. QED
  BY <1>1, <1>2, <1>3

\* The minutes two slots share make them meet.
LEMMA SharedMinutes ==
    ASSUME NEW d, NEW s \in TimeSlots \ {NoSlot}, NEW t \in TimeSlots \ {NoSlot},
           MinutesOn(d, s) \cap MinutesOn(d, t) # {}
    PROVE  Meet(s, t) /\ Meet(t, s)
<1>1. /\ from_minutes(s) \in Int /\ to_minutes(s) \in Int
      /\ from_minutes(t) \in Int /\ to_minutes(t) \in Int
  BY DEF from_minutes, to_minutes, TimeSlots
<1>2. PICK m \in Int : /\ from_minutes(s) <= m /\ m <= to_minutes(s) - 1
                       /\ from_minutes(t) <= m /\ m <= to_minutes(t) - 1
  BY <1>1 DEF MinutesOn
<1>3. QED
  BY <1>1, <1>2 DEF Meet

\* Two constraints of a day, one of them without slot, are either not to be
\* compared or in conflict, of which only the other can block the whole day.
LEMMA MissingSlot ==
    ASSUME NEW cs, NEW d \in Days, NEW i \in DOMAIN cs, NEW k \in DOMAIN cs, i # k,
           d \in ToSet(cs[i].days) \cap ToSet(cs[k].days),
           cs[i].slot = NoSlot, ~Incomparable(cs)
    PROVE  ~IsFullDayBlock(cs[i], d) /\ IsFullDayBlock(cs[k], d)
<1>1. ~IsFullDayBlock(cs[i], d)
  BY DEF IsFullDayBlock
<1>2. PICK a \in DOMAIN cs[i].days : cs[i].days[a] = d
  BY DEF ToSet
<1>3. PICK b \in DOMAIN cs[k].days : cs[k].days[b] = d
  BY DEF ToSet
<1>4. <<i, a>> # <<k, b>>
  OBVIOUS
<1>5. QED
  BY <1>1, <1>2, <1>3, <1>4 DEF Incomparable

\* No overlap goes unnoticed by a conflict detection that comes to its end.
LEMMA NoConflictsIsQuiet ==
    ASSUME NEW cs \in Seq(Offers), ~Incomparable(cs), \A d \in Days : Conflicts(cs, d) = {}
    PROVE  Quiet(cs)
<1> SUFFICES ASSUME NEW i \in DOMAIN cs, NEW k \in DOMAIN cs, i # k, NEW d \in Days,
                    Overlapping(cs[i], cs[k], d)
             PROVE  FALSE
  BY DEF Quiet
<1> DEFINE Whole == {j \in {i, k} : IsFullDayBlock(cs[j], d)}
<1>1. DOMAIN cs = 1 .. Len(cs) /\ Len(cs) \in Nat /\ cs[i] \in Offers /\ cs[k] \in Offers
  OBVIOUS
<1>2. d \in ToSet(cs[i].days) \cap ToSet(cs[k].days) /\ Whole # {i, k}
  BY DEF Overlapping
<1>3. Whole # {} \/ (Meet(cs[i].slot, cs[k].slot) /\ Meet(cs[k].slot, cs[i].slot))
  <2>1. CASE cs[i].slot = NoSlot \/ cs[k].slot = NoSlot
    BY <1>2, <2>1, MissingSlot
  <2>2. CASE cs[i].slot # NoSlot /\ cs[k].slot # NoSlot
    <3>1. cs[i].slot \in TimeSlots \ {NoSlot} /\ cs[k].slot \in TimeSlots \ {NoSlot}
      BY <1>1, <2>2, OfferTypes
    <3>2. QED
      BY <3>1, SharedMinutes DEF Overlapping
  <2>3. QED
    BY <2>1, <2>2
<1>4. CASE i < k
  <2>1. <<i, k>> \in Conflicts(cs, d)
    BY <1>1, <1>2, <1>3, <1>4 DEF Conflicts
  <2>2. QED
    BY <2>1
<1>5. CASE k < i
  <2>1. <<k, i>> \in Conflicts(cs, d)
    BY <1>1, <1>2, <1>3, <1>5 DEF Conflicts
  <2>2. QED
    BY <2>1
<1>6. QED
  BY <1>1, <1>4, <1>5

------------------------------------------------------------------------------
(* The pipeline keeps its invariant *)

\* What is kept of distinct keys is as quiet as what it was made of.
LEMMA DeduplicatedIsQuiet ==
    ASSUME NEW cs \in Seq(Offers), Quiet(cs)
    PROVE  Quiet(Deduplicated(cs))
<1> DEFINE ds == Deduplicated(cs)
<1>1. /\ \A i \in DOMAIN ds : \E j \in DOMAIN cs : ds[i] = cs[j]
      /\ \A i, k \in DOMAIN ds : i # k => Key(ds[i]) # Key(ds[k])
  BY DeduplicatedKeepsFirsts
<1> HIDE DEF ds
<1> SUFFICES ASSUME NEW i \in DOMAIN ds, NEW k \in DOMAIN ds, i # k, NEW d \in Days
             PROVE  ~Overlapping(ds[i], ds[k], d)
  BY DEF Quiet, ds
<1>2. PICK a \in DOMAIN cs : ds[i] = cs[a]
  BY <1>1
<1>3. PICK b \in DOMAIN cs : ds[k] = cs[b]
  BY <1>1
<1>4. a # b
  BY <1>1, <1>2, <1>3
<1>5. QED
  BY <1>2, <1>3, <1>4 DEF Quiet

\* The invariant holds before the preview starts.
LEMMA PipelineInvInit ==
    ASSUME PipelineInit
    PROVE  PipelineInv
<1>1. << >> \in Seq(Offers) /\ << >> \in Seq(Texts) /\ DOMAIN << >> = {}
  OBVIOUS
<1>2. PipelineTypes
  BY <1>1 DEF PipelineInit, PipelineTypes
<1>3. SaidInv
  BY <1>1 DEF PipelineInit, SaidInv
<1>4. ResultInv /\ CheckedInv
  BY DEF PipelineInit, ResultInv, CheckedInv
<1>5. QED
  BY <1>2, <1>3, <1>4 DEF PipelineInv

\* A step that leaves the constraints, the items and the notes alone.
LEMMA UnreadKeeps ==
    ASSUME PipelineInv, Unread, pos' \in Nat
    PROVE  PipelineTypes' /\ SaidInv' /\ (Quiet(atomics) <=> Quiet(atomics)')
           /\ (AllDistinct(atomics) <=> AllDistinct(atomics)')
<1>1. UNCHANGED <<items, originals, negated, atomics, noted, warnings, said>>
  BY DEF Unread
<1>2. PipelineTypes'
  BY <1>1 DEF PipelineInv, PipelineTypes
<1>3. SaidInv'
  BY <1>1 DEF PipelineInv, SaidInv, Offered
<1>4. QED
  BY <1>1, <1>2, <1>3 DEF Quiet, AllDistinct

\* Before the end there is no answer of the preview.
LEMMA Unanswered ==
    ASSUME PipelineInv, stage \notin {"complete", "error"}
    PROVE  result # "success" /\ reply # "success"
  BY DEF PipelineInv, ResultInv

\* An exception that ends the preview keeps the invariant.
LEMMA RaisesKeeps ==
    ASSUME PipelineInv, Raises, result # "success"
    PROVE  PipelineInv'
<1>1. Unread /\ UNCHANGED <<reply, pos, result>> /\ stage' = "error"
  BY DEF Raises
<1>2. pos' \in Nat
  BY <1>1 DEF PipelineInv, PipelineTypes
<1>3. ResultInv'
  BY <1>1 DEF PipelineInv, ResultInv
<1>4. CheckedInv'
  BY <1>1 DEF CheckedInv
<1>5. QED
  BY <1>1, <1>2, <1>3, <1>4, UnreadKeeps DEF PipelineInv

\* An exception that ends the pipeline keeps it.
LEMMA FailsKeeps ==
    ASSUME PipelineInv, Fails, stage \notin {"complete", "error"}
    PROVE  PipelineInv'
<1>1. /\ Unread /\ UNCHANGED <<reply, pos>> /\ stage' = "complete" /\ result' = "failed"
  BY DEF Fails
<1>2. pos' \in Nat
  BY <1>1 DEF PipelineInv, PipelineTypes
<1>3. ResultInv'
  BY <1>1, Unanswered DEF ResultInv
<1>4. CheckedInv'
  BY <1>1 DEF CheckedInv
<1>5. QED
  BY <1>1, <1>2, <1>3, <1>4, UnreadKeeps DEF PipelineInv

\* The announcements before the final checks, a question instead of rules, and
\* what ends the pipeline with an error.
LEMMA AnnouncementsKeep ==
    ASSUME PipelineInv,
           Starts \/ Clarifies \/ ClarificationRaises \/ AtomizationFails
           \/ AllClassified \/ DeduplicationFails \/ HandlerFails \/ AllExtracted
           \/ DetectionFails \/ FinalDeduplicationFails
    PROVE  PipelineInv'
<1>1. ASSUME Unread, pos' \in {0, pos}, UNCHANGED reply, result' \in {result, "clarify"},
             stage \notin {"complete", "error"},
             stage' \notin {"final_deduplication", "logging"}
      PROVE  PipelineInv'
  <2>1. pos' \in Nat
    BY <1>1 DEF PipelineInv, PipelineTypes
  <2>2. result' \notin {"success", "failed"} /\ reply' # "success"
    BY <1>1 DEF PipelineInv, ResultInv
  <2>3. ResultInv' /\ CheckedInv'
    BY <1>1, <2>2 DEF ResultInv, CheckedInv
  <2>4. QED
    BY <1>1, <2>1, <2>3, UnreadKeeps DEF PipelineInv
<1>2. CASE Starts
  <2>1. CASE Raises
    BY <1>2, <2>1, RaisesKeeps, Unanswered DEF Starts
  <2>2. CASE stage' = "stage_0" /\ UNCHANGED <<reply, pos, result>> /\ Unread
    BY <1>1, <1>2, <2>2 DEF Starts
  <2>3. QED
    BY <1>2, <2>1, <2>2 DEF Starts
<1>3. CASE Clarifies
  BY <1>1, <1>3 DEF Clarifies
<1>4. CASE ClarificationRaises
  BY <1>4, RaisesKeeps, Unanswered DEF ClarificationRaises
<1>5. CASE AtomizationFails
  BY <1>5, FailsKeeps DEF AtomizationFails
<1>6. CASE DeduplicationFails \/ HandlerFails \/ DetectionFails \/ FinalDeduplicationFails
  BY <1>6, FailsKeeps
  DEF DeduplicationFails, HandlerFails, DetectionFails, FinalDeduplicationFails
<1>7. CASE AllClassified
  BY <1>1, <1>7 DEF AllClassified
<1>8. CASE AllExtracted
  BY <1>1, <1>8 DEF AllExtracted
<1>9. QED
  BY <1>2, <1>3, <1>4, <1>5, <1>6, <1>7, <1>8

\* Splitting the text keeps it: nothing was extracted yet.
LEMMA AtomizesKeeps ==
    ASSUME PipelineInv, Atomizes
    PROVE  PipelineInv'
<1>1. /\ items' \in Seq(Texts) /\ said' = [i \in DOMAIN items' |-> << >>]
      /\ stage = "atomization" /\ stage' = "classification"
      /\ UNCHANGED <<reply, pos, originals, negated, atomics, noted, warnings, result>>
  BY PipelineConstants DEF Atomizes
<1>2. PipelineTypes'
  BY <1>1 DEF PipelineInv, PipelineTypes
<1>3. SaidInv'
  BY <1>1 DEF SaidInv
<1>4. ResultInv' /\ CheckedInv'
  BY <1>1, Unanswered DEF ResultInv, CheckedInv, PipelineInv
<1>5. QED
  BY <1>2, <1>3, <1>4 DEF PipelineInv

\* Appending what is made keeps what was offered and takes in what is valid.
LEMMA MadeIsAdded ==
    ASSUME PipelineTypes, NEW e \in Extractions, NEW p, atomics' = atomics \o Made(e, p)
    PROVE  /\ atomics' \in Seq(Offers)
           /\ \A c : Offered(atomics, c) => Offered(atomics', c)
           /\ Made(e, p) # << >> => Offered(atomics', Atomic(e, p))
<1>1. atomics \in Seq(Offers)
  BY DEF PipelineTypes
<1>2. CASE ~RuleBasedValid(e, p)
  <2>1. Made(e, p) = << >> /\ atomics' = atomics
    BY <1>1, <1>2, MadeIsOffered, OneMore
  <2>2. QED
    BY <1>1, <2>1 DEF Offered
<1>3. CASE RuleBasedValid(e, p)
  <2>1. Atomic(e, p) \in Offers /\ atomics' = atomics \o <<Atomic(e, p)>>
    BY <1>3, MadeIsOffered
  <2> DEFINE c0 == Atomic(e, p)
  <2> HIDE DEF c0
  <2>2. /\ atomics' \in Seq(Offers)
        /\ Len(atomics) \in Nat /\ DOMAIN atomics = 1 .. Len(atomics)
        /\ DOMAIN atomics' = 1 .. Len(atomics) + 1
        /\ \A n \in 1 .. Len(atomics) : atomics'[n] = atomics[n]
        /\ atomics'[Len(atomics) + 1] = c0
    <3>1. c0 \in Offers /\ atomics' = atomics \o <<c0>>
      BY <2>1 DEF c0
    <3>2. QED
      BY <1>1, <3>1, OneMore
  <2>3. ASSUME NEW c, Offered(atomics, c)
        PROVE  Offered(atomics', c)
    <3>1. PICK n \in 1 .. Len(atomics) :
              /\ ToSet(atomics[n].days) = ToSet(c.days)
              /\ atomics[n].slot = c.slot
              /\ atomics[n].type = c.type
      BY <2>2, <2>3 DEF Offered
    <3>2. n \in DOMAIN atomics' /\ atomics'[n] = atomics[n]
      BY <2>2, <3>1
    <3>3. QED
      BY <3>1, <3>2 DEF Offered
  <2>4. Offered(atomics', c0)
    <3>1. Len(atomics) + 1 \in DOMAIN atomics'
      BY <2>2
    <3>2. QED
      BY <2>2, <3>1 DEF Offered
  <2>5. QED
    BY <2>2, <2>3, <2>4 DEF c0
<1>4. QED
  BY <1>2, <1>3

\* A negative item keeps it: what is extracted of it is an atomic, or noted.
LEMMA ClassifiesNegativeKeeps ==
    ASSUME PipelineInv, NEW told \in Priorities, NEW e \in Extractions,
           ClassifiesNegative(told, e)
    PROVE  PipelineInv'
<1> DEFINE p == PriorityOf(Item, told)
           c == Atomic(e, p)
<1>1. /\ stage = "classification" /\ stage' = "classification" /\ pos < Len(items)
      /\ atomics' = atomics \o Made(e, p)
      /\ noted' = IF Made(e, p) = << >> THEN noted \cup {pos + 1} ELSE noted
      /\ said' = [said EXCEPT ![pos + 1] = <<c>>]
      /\ pos' = pos + 1
      /\ UNCHANGED <<reply, items, originals, negated, warnings, result>>
  BY DEF ClassifiesNegative
<1>2. /\ Item = items[pos + 1] /\ (Item \in AbsoluteTexts => c.type = "block")
  BY DEF Item, PriorityOf, Atomic, TypeOf
<1> HIDE DEF p, c
<1>3. PipelineTypes /\ SaidInv /\ pos \in Nat /\ pos + 1 \in DOMAIN items /\ DOMAIN said = DOMAIN items
  <2>1. items \in Seq(Texts) /\ pos \in Nat /\ DOMAIN said = DOMAIN items
    BY DEF PipelineInv, PipelineTypes
  <2>2. pos + 1 \in DOMAIN items
    BY <1>1, <2>1
  <2>3. QED
    BY <2>1, <2>2 DEF PipelineInv
<1>4. /\ atomics' \in Seq(Offers)
      /\ \A x : Offered(atomics, x) => Offered(atomics', x)
      /\ Made(e, p) # << >> => Offered(atomics', c)
  BY <1>1, <1>3, MadeIsAdded DEF c
<1>5. PipelineTypes'
  BY <1>1, <1>3, <1>4 DEF PipelineTypes
<1>6. SaidInv'
  <2> SUFFICES ASSUME NEW i \in DOMAIN said', said'[i] # << >>
               PROVE  /\ items'[i] \in AbsoluteTexts => said'[i][1].type = "block"
                      /\ i \in noted' \/ Offered(atomics', said'[i][1])
    BY DEF SaidInv
  <2>1. CASE i = pos + 1
    <3>1. said'[i] = <<c>> /\ said'[i][1] = c
      BY <1>1, <1>3, <2>1
    <3>2. i \in noted' \/ Offered(atomics', c)
      BY <1>1, <1>4, <2>1
    <3>3. QED
      BY <1>1, <1>2, <2>1, <3>1, <3>2
  <2>2. CASE i # pos + 1
    <3>1. said'[i] = said[i] /\ i \in DOMAIN said /\ noted \subseteq noted'
      BY <1>1, <1>3, <2>2
    <3>2. i \in noted \/ Offered(atomics, said[i][1])
      BY <1>3, <3>1 DEF SaidInv
    <3>3. i \in noted' \/ Offered(atomics', said[i][1])
      BY <1>4, <3>1, <3>2
    <3>4. QED
      BY <1>1, <1>3, <3>1, <3>3 DEF SaidInv
  <2>3. QED
    BY <2>1, <2>2
<1>7. ResultInv' /\ CheckedInv'
  BY <1>1, Unanswered DEF ResultInv, CheckedInv, PipelineInv
<1>8. QED
  BY <1>5, <1>6, <1>7 DEF PipelineInv

\* So do the steps that add no atomic.
LEMMA ItemsKeep ==
    ASSUME PipelineInv,
           \/ \E told \in Priorities, inv \in Inversions : ClassifiesPositive(told, inv)
           \/ ItemFails \/ ExtractionFails \/ Deduplicates \/ HandlesConflicts
    PROVE  PipelineInv'
<1>1. /\ stage \in {"classification", "extraction", "deduplication", "conflict_handler"}
      /\ stage' \in {"classification", "extraction", "conflict_handler"}
      /\ pos' \in {pos, pos + 1} /\ noted \subseteq noted'
      /\ UNCHANGED <<reply, items, atomics, warnings, result, said>>
  BY DEF ClassifiesPositive, ItemFails, ExtractionFails, Deduplicates, HandlesConflicts
<1>2. PipelineTypes'
  BY <1>1 DEF PipelineInv, PipelineTypes
<1>3. SaidInv'
  BY <1>1 DEF PipelineInv, SaidInv
<1>4. ResultInv' /\ CheckedInv'
  BY <1>1, Unanswered DEF ResultInv, CheckedInv, PipelineInv
<1>5. QED
  BY <1>2, <1>3, <1>4 DEF PipelineInv

\* A negated constraint only adds to the atomics and the notes.
LEMMA ExtractsKeeps ==
    ASSUME PipelineInv, NEW e \in Extractions, Extracts(e)
    PROVE  PipelineInv'
<1> DEFINE p == negated[pos + 1].priority
<1>1. /\ stage = "extraction" /\ stage' = "extraction"
      /\ atomics' = atomics \o Made(e, p)
      /\ noted \subseteq noted' /\ pos' = pos + 1
      /\ UNCHANGED <<reply, items, warnings, result, said>>
  BY DEF Extracts
<1> HIDE DEF p
<1>2. PipelineTypes /\ SaidInv
  BY DEF PipelineInv
<1>3. atomics' \in Seq(Offers) /\ \A x : Offered(atomics, x) => Offered(atomics', x)
  BY <1>1, <1>2, MadeIsAdded
<1>4. PipelineTypes'
  BY <1>1, <1>2, <1>3 DEF PipelineTypes
<1>5. SaidInv'
  BY <1>1, <1>2, <1>3 DEF SaidInv
<1>6. ResultInv' /\ CheckedInv'
  BY <1>1, Unanswered DEF ResultInv, CheckedInv, PipelineInv
<1>7. QED
  BY <1>4, <1>5, <1>6 DEF PipelineInv

\* Conflict detection keeps it: without a warning the atomics are quiet.
LEMMA DetectsConflictsKeeps ==
    ASSUME PipelineInv, DetectsConflicts
    PROVE  PipelineInv'
<1>1. /\ stage = "conflict_detection" /\ stage' = "final_deduplication"
      /\ UNCHANGED <<reply, items, pos, atomics, noted, result, said>>
      /\ ~Incomparable(atomics)
      /\ "conflict" \notin warnings' => \A d \in Days : Conflicts(atomics, d) = {}
  BY DEF DetectsConflicts, InConflict
<1>2. PipelineTypes' /\ SaidInv'
  BY <1>1 DEF PipelineInv, PipelineTypes, SaidInv
<1>3. "conflict" \in warnings' \/ Quiet(atomics')
  BY <1>1, NoConflictsIsQuiet DEF PipelineInv, PipelineTypes
<1>4. ResultInv' /\ CheckedInv'
  BY <1>1, <1>3, Unanswered DEF ResultInv, CheckedInv, PipelineInv
<1>5. QED
  BY <1>2, <1>4 DEF PipelineInv

\* A duplicate has the days, the slot and the priority of the one kept, and so
\* its type.
LEMMA DeduplicatedOffers ==
    ASSUME NEW cs \in Seq(Offers), NEW c, Offered(cs, c)
    PROVE  Offered(Deduplicated(cs), c)
<1> DEFINE ds == Deduplicated(cs)
<1>1. /\ ds \in Seq(Offers)
      /\ \A j \in DOMAIN cs : \E i \in DOMAIN ds : Key(ds[i]) = Key(cs[j])
  BY DeduplicatedKeepsFirsts
<1> HIDE DEF ds
<1>2. PICK j \in DOMAIN cs :
          ToSet(cs[j].days) = ToSet(c.days) /\ cs[j].slot = c.slot /\ cs[j].type = c.type
  BY DEF Offered
<1>3. PICK i \in DOMAIN ds : Key(ds[i]) = Key(cs[j])
  BY <1>1
<1>4. ds[i] \in Offers /\ cs[j] \in Offers
  BY <1>1
<1>5. /\ ToSet(ds[i].days) = ToSet(cs[j].days) /\ ds[i].slot = cs[j].slot
      /\ ds[i].priority = cs[j].priority
  BY <1>3, SameKey
<1>6. ds[i].type = cs[j].type
  BY <1>4, <1>5, OfferTypes
<1>7. QED
  BY <1>2, <1>5, <1>6 DEF Offered, ds

\* The final deduplication keeps it: no day, slot and type is lost.
LEMMA DeduplicatesFinallyKeeps ==
    ASSUME PipelineInv, DeduplicatesFinally
    PROVE  PipelineInv'
<1>1. /\ stage = "final_deduplication" /\ stage' = "logging"
      /\ atomics' = Deduplicated(atomics)
      /\ UNCHANGED <<reply, items, pos, noted, warnings, result, said>>
  BY DEF DeduplicatesFinally
<1>2. PipelineTypes /\ SaidInv /\ ResultInv /\ CheckedInv /\ atomics \in Seq(Offers)
  BY DEF PipelineInv, PipelineTypes
<1>3. atomics' \in Seq(Offers) /\ AllDistinct(atomics')
  BY <1>1, <1>2, DeduplicatedKeepsFirsts DEF AllDistinct
<1>4. PipelineTypes'
  BY <1>1, <1>2, <1>3 DEF PipelineTypes
<1>5. SaidInv'
  BY <1>1, <1>2, DeduplicatedOffers DEF SaidInv
<1>6. "conflict" \in warnings' \/ Quiet(atomics')
  BY <1>1, <1>2, DeduplicatedIsQuiet DEF CheckedInv
<1>7. ResultInv' /\ CheckedInv'
  BY <1>1, <1>3, <1>6, Unanswered DEF ResultInv, CheckedInv, PipelineInv
<1>8. QED
  BY <1>4, <1>5, <1>7 DEF PipelineInv

\* The end of the pipeline and the answer of the preview keep it.
LEMMA EndKeeps ==
    ASSUME PipelineInv, Finishes \/ PreviewRefuses \/ Answered
    PROVE  PipelineInv'
<1>1. Unread /\ pos' = pos
  BY DEF Finishes, PreviewRefuses, Answered, Raises
<1>2. pos' \in Nat /\ UNCHANGED <<atomics, warnings>>
  BY <1>1 DEF PipelineInv, PipelineTypes, Unread
<1>3. ResultInv /\ CheckedInv
  BY DEF PipelineInv
<1>4. PipelineTypes' /\ SaidInv'
  BY <1>1, <1>2, UnreadKeeps
<1>5. CASE Finishes
  <2>1. /\ stage = "logging" /\ stage' = "complete" /\ reply' = reply
        /\ result' = IF atomics = << >> THEN "failed" ELSE "success"
    BY <1>5 DEF Finishes
  <2>2. ResultInv' /\ CheckedInv'
    BY <1>2, <1>3, <2>1, Unanswered DEF ResultInv, CheckedInv
  <2>3. QED
    BY <1>4, <2>2 DEF PipelineInv
<1>6. CASE PreviewRefuses
  BY <1>6, RaisesKeeps DEF PreviewRefuses
<1>7. CASE Answered
  <2>1. /\ UNCHANGED <<stage, result>>
        /\ reply' = "success" => stage = "complete" /\ result = "success"
    BY <1>7 DEF Answered
  <2>2. ResultInv' /\ CheckedInv'
    BY <1>2, <1>3, <2>1 DEF ResultInv, CheckedInv
  <2>3. QED
    BY <1>4, <2>2 DEF PipelineInv
<1>8. QED
  BY <1>5, <1>6, <1>7

\* Every step of the pipeline keeps the invariant.
LEMMA PipelineInvNext ==
    ASSUME PipelineInv, [PipelineNext]_pipelineVars
    PROVE  PipelineInv'
<1>1. CASE UNCHANGED pipelineVars
  BY <1>1 DEF pipelineVars, PipelineInv, PipelineTypes, SaidInv, ResultInv, CheckedInv
<1>2. CASE Starts \/ Clarifies \/ ClarificationRaises \/ AtomizationFails
           \/ AllClassified \/ DeduplicationFails \/ HandlerFails \/ AllExtracted
           \/ DetectionFails \/ FinalDeduplicationFails
  BY <1>2, AnnouncementsKeep
<1>3. CASE Atomizes
  BY <1>3, AtomizesKeeps
<1>4. CASE \E told \in Priorities, e \in Extractions : ClassifiesNegative(told, e)
  BY <1>4, ClassifiesNegativeKeeps
<1>5. CASE \/ \E told \in Priorities, inv \in Inversions : ClassifiesPositive(told, inv)
           \/ ItemFails \/ ExtractionFails \/ Deduplicates \/ HandlesConflicts
  BY <1>5, ItemsKeep
<1>6. CASE \E e \in Extractions : Extracts(e)
  BY <1>6, ExtractsKeeps
<1>7. CASE DetectsConflicts
  BY <1>7, DetectsConflictsKeeps
<1>8. CASE DeduplicatesFinally
  BY <1>8, DeduplicatesFinallyKeeps
<1>9. CASE Finishes \/ PreviewRefuses \/ Answered
  BY <1>9, EndKeeps
<1>10. QED
  BY <1>1, <1>2, <1>3, <1>4, <1>5, <1>6, <1>7, <1>8, <1>9 DEF PipelineNext

\* The inductive invariant of the pipeline: atomics are valid, what could not be
\* fitted in is there or noted, and no overlap went by unwarned.
THEOREM PipelineInvariant == PipelineSpec => []PipelineInv
<1>1. PipelineInit => PipelineInv
  BY PipelineInvInit
<1>2. PipelineInv /\ [PipelineNext]_pipelineVars => PipelineInv'
  BY PipelineInvNext
<1>3. QED
  BY <1>1, <1>2, PTL DEF PipelineSpec

\* What a lecturer said does not fit is in the preview or was noted, whatever
\* else the text said and whatever the model answered.
THEOREM UnavailableIsKeptHolds == PipelineSpec => []UnavailableIsKept
<1>1. PipelineInv => UnavailableIsKept
  <2> SUFFICES ASSUME PipelineInv, NEW i \in DOMAIN said, said[i] # << >>, i \notin noted
               PROVE  \E n \in DOMAIN atomics :
                        /\ ToSet(atomics[n].days) = ToSet(said[i][1].days)
                        /\ atomics[n].slot = said[i][1].slot
                        /\ atomics[n].type = said[i][1].type
                        /\ items[i] \in AbsoluteTexts => atomics[n].type = "block"
    BY DEF UnavailableIsKept
  <2>1. items[i] \in AbsoluteTexts => said[i][1].type = "block"
    BY DEF PipelineInv, SaidInv
  <2>2. Offered(atomics, said[i][1])
    BY DEF PipelineInv, SaidInv
  <2>3. QED
    BY <2>1, <2>2 DEF Offered
<1>2. QED
  BY <1>1, PipelineInvariant, PTL

\* Constraints of one day that share a minute of it, or of which one has no slot,
\* are a warning in the result of a pipeline that succeeds, unless both block the
\* whole day: the conflict detection may break down over a missing slot, but it
\* passes nothing over in silence.
THEOREM OverlapIsRecordedHolds == PipelineSpec => []OverlapIsRecorded
<1>1. PipelineInv => OverlapIsRecorded
  <2> SUFFICES ASSUME PipelineInv, result = "success", "conflict" \notin warnings,
                      NEW i \in DOMAIN atomics, NEW j \in DOMAIN atomics,
                      NEW d \in ToSet(atomics[i].days) \cap ToSet(atomics[j].days)
               PROVE  \/ i = j
                      \/ MinutesOn(d, atomics[i].slot) \cap MinutesOn(d, atomics[j].slot) = {}
                      \/ IsFullDayBlock(atomics[i], d) /\ IsFullDayBlock(atomics[j], d)
    BY DEF OverlapIsRecorded
  <2>1. Quiet(atomics) /\ atomics \in Seq(Offers)
    BY DEF PipelineInv, PipelineTypes, CheckedInv
  <2>2. d \in Days
    BY <2>1, OfferTypes
  <2>3. QED
    BY <2>1, <2>2 DEF Quiet, Overlapping
<1>2. QED
  BY <1>1, PipelineInvariant, PTL

\* A time of day is after another only if its hour is not before the other's.
LEMMA HoursInOrder ==
    ASSUME NEW h \in Int, NEW k \in Int, NEW m \in 0 .. 59, NEW n \in 0 .. 59,
           h * 60 + m < k * 60 + n
    PROVE  h <= k
  OBVIOUS

\* A valid slot in whole minutes of an hour is one to the editor.
LEMMA OfferedSlot ==
    ASSUME NEW c \in Offers, Usual(c), c.slot # NoSlot
    PROVE  /\ ValidSlot(c.slot)
           /\ \A d \in ToSet(c.days) : c.slot.start_hour >= StartHour /\ c.slot.end_hour <= EndOf(d)
<1>1. /\ ToSet(c.days) # {}
      /\ c.slot \in TimeSlots
      /\ from_minutes(c.slot) < to_minutes(c.slot)
      /\ c.slot.start_hour >= StartHour
      /\ \A d \in ToSet(c.days) : c.slot.end_hour <= EndOf(d)
  BY OfferTypes
<1>2. \E d \in ToSet(c.days) : c.slot.end_hour <= EndOf(d)
  BY <1>1
<1>3. c.slot.end_hour < 24
  BY <1>1, <1>2, WorkingHours DEF EndOf, TimeSlots
<1>4. c.slot.start_minute \in 0 .. 59 /\ c.slot.end_minute \in 0 .. 59
  BY DEF Usual
<1>5. c.slot.start_hour \in 0 .. 23 /\ c.slot.end_hour \in 0 .. 24
  <2>1. /\ c.slot.start_hour \in Int /\ c.slot.end_hour \in Int
        /\ c.slot.start_hour * 60 + c.slot.start_minute < c.slot.end_hour * 60 + c.slot.end_minute
    BY <1>1 DEF TimeSlots, from_minutes, to_minutes
  <2>2. c.slot.start_hour >= 0
    BY <1>1, <2>1, WorkingHours
  <2>3. c.slot.start_hour <= c.slot.end_hour
    BY <1>4, <2>1, HoursInOrder
  <2>4. QED
    BY <1>3, <2>1, <2>2, <2>3
<1>6. QED
  BY <1>1, <1>4, <1>5 DEF ValidSlot

\* An offer is a constraint to the editor, with a slot or without.
LEMMA OfferIsValidAtomic ==
    ASSUME NEW c \in Offers, Usual(c)
    PROVE  ValidAtomic(c)
<1>1. /\ c.type \in {"block", "preference"} /\ c.priority \in {"hard", "soft", "null"}
      /\ c.days # << >> /\ ToSet(c.days) \subseteq Days
  BY OfferTypes
<1>2. IsInjective(c.days) /\ c.priority # "null"
  BY DEF Usual
<1>3. c.slot # NoSlot => ValidSlot(c.slot)
  BY OfferedSlot
<1>4. QED
  BY <1>1, <1>2, <1>3 DEF ValidAtomic

\* structured_rules_validator.py accepts what rule_validator.py let through, and
\* it lies in the working hours, whatever the hours and days configured.
THEOREM EditorAcceptsPreviewHolds == PipelineSpec => []EditorAcceptsPreview
<1>1. PipelineInv => EditorAcceptsPreview
  <2> SUFFICES ASSUME PipelineInv, reply = "success",
                      \A i \in DOMAIN atomics : Usual(atomics[i])
               PROVE  /\ StructuredValid(<< >>, atomics)
                      /\ \A i \in DOMAIN atomics : \A d \in ToSet(atomics[i].days) :
                            atomics[i].slot # NoSlot =>
                               /\ atomics[i].slot.start_hour >= StartHour
                               /\ atomics[i].slot.end_hour <= EndOf(d)
    BY DEF EditorAcceptsPreview
  <2>1. atomics \in Seq(Offers) /\ atomics # << >> /\ AllDistinct(atomics)
    BY DEF PipelineInv, PipelineTypes, ResultInv, CheckedInv
  <2>2. \A i \in DOMAIN atomics : atomics[i] \in Offers
    BY <2>1
  <2>3. \A i, j \in DOMAIN atomics : i # j => Signature(atomics[i]) # Signature(atomics[j])
    BY <2>1 DEF AllDistinct, Key, Signature
  <2>4. DOMAIN << >> = {}
    OBVIOUS
  <2>5. StructuredValid(<< >>, atomics)
    BY <2>1, <2>2, <2>3, <2>4, OfferIsValidAtomic DEF StructuredValid
  <2>6. QED
    BY <2>2, <2>5, OfferedSlot
<1>2. QED
  BY <1>1, PipelineInvariant, PTL

------------------------------------------------------------------------------
(* The stages are announced in order *)

AnswerInv == reply # "none" => stage \in {"complete", "error"}

\* A step between other stages, told to those who follow.
LEMMA Announced ==
    ASSUME AnswerInv, stage \notin {"complete", "error"}, UNCHANGED reply,
           stage' = stage \/ stage' \in Stages!Following(stage)
    PROVE  AnswerInv' /\ [Stages!StagesNext]_(Stages!stageVars)
<1>1. reply = "none"
  BY DEF AnswerInv
<1>2. QED
  BY <1>1 DEF AnswerInv, Stages!StagesNext, Stages!Announce, Stages!stageVars

\* Every step of the pipeline announces a stage that follows, or none.
LEMMA PipelineStepAnnounces ==
    ASSUME AnswerInv, [PipelineNext]_pipelineVars
    PROVE  AnswerInv' /\ [Stages!StagesNext]_(Stages!stageVars)
<1>1. CASE UNCHANGED pipelineVars
  BY <1>1 DEF pipelineVars, AnswerInv, Stages!stageVars
<1>2. CASE Starts
  BY <1>2, Announced DEF Starts, Raises, Unread, Stages!Following
<1>3. CASE Clarifies
  BY <1>3, Announced DEF Clarifies, Unread, Stages!Following
<1>4. CASE ClarificationRaises
  BY <1>4, Announced DEF ClarificationRaises, Raises, Unread, Stages!Following
<1>5. CASE Atomizes
  BY <1>5, Announced DEF Atomizes, Stages!Following
<1>6. CASE AtomizationFails
  BY <1>6, Announced DEF AtomizationFails, Fails, Unread, Stages!Following
<1>7. CASE \/ \E told \in Priorities, e \in Extractions : ClassifiesNegative(told, e)
           \/ \E told \in Priorities, inv \in Inversions : ClassifiesPositive(told, inv)
           \/ ItemFails
           \/ \E e \in Extractions : Extracts(e)
           \/ ExtractionFails
  <2>1. stage \in {"classification", "extraction"} /\ UNCHANGED <<stage, reply>>
    BY <1>7 DEF ClassifiesNegative, ClassifiesPositive, ItemFails, Extracts, ExtractionFails
  <2>2. QED
    BY <2>1, Announced
<1>8. CASE AllClassified
  BY <1>8, Announced DEF AllClassified, Unread, Stages!Following
<1>9. CASE Deduplicates
  BY <1>9, Announced DEF Deduplicates, Stages!Following
<1>10. CASE HandlesConflicts
  <2>1. stage = "conflict_handler" /\ stage' = "extraction" /\ UNCHANGED reply
    BY <1>10 DEF HandlesConflicts
  <2>2. QED
    BY <2>1, Announced DEF Stages!Following
<1>11. CASE DeduplicationFails \/ HandlerFails \/ DetectionFails \/ FinalDeduplicationFails
  <2>1. /\ stage \in {"deduplication", "conflict_handler", "conflict_detection",
                      "final_deduplication"}
        /\ stage' = "complete" /\ UNCHANGED reply
    BY <1>11 DEF DeduplicationFails, HandlerFails, DetectionFails, FinalDeduplicationFails,
                 Fails, Unread
  <2>2. QED
    BY <2>1, Announced DEF Stages!Following
<1>12. CASE AllExtracted
  BY <1>12, Announced DEF AllExtracted, Unread, Stages!Following
<1>13. CASE DetectsConflicts
  <2>1. stage = "conflict_detection" /\ stage' = "final_deduplication" /\ UNCHANGED reply
    BY <1>13 DEF DetectsConflicts
  <2>2. QED
    BY <2>1, Announced DEF Stages!Following
<1>14. CASE DeduplicatesFinally
  BY <1>14, Announced DEF DeduplicatesFinally, Stages!Following
<1>15. CASE Finishes
  BY <1>15, Announced DEF Finishes, Unread, Stages!Following
<1>16. CASE PreviewRefuses
  <2>1. stage = "complete" /\ stage' = "error" /\ reply = "none" /\ UNCHANGED reply
    BY <1>16 DEF PreviewRefuses, Raises
  <2>2. "error" \in Stages!Following(stage)
    BY <2>1 DEF Stages!Following
  <2>3. QED
    BY <2>1, <2>2 DEF AnswerInv, Stages!StagesNext, Stages!Announce, Stages!stageVars
<1>17. CASE Answered
  <2>1. Stages!Reply
    BY <1>17 DEF Answered, Stages!Reply
  <2>2. QED
    BY <1>17, <2>1 DEF Answered, AnswerInv, Stages!StagesNext, Stages!stageVars
<1>18. QED
  BY <1>1, <1>2, <1>3, <1>4, <1>5, <1>6, <1>7, <1>8, <1>9, <1>10, <1>11, <1>12, <1>13,
     <1>14, <1>15, <1>16, <1>17 DEF PipelineNext

\* The pipeline implements PipelineStages: the stages come in the order that the
\* clients of the progress are told.
THEOREM PipelineAnnouncesStages == PipelineSpec => AnnouncesStages
<1>1. PipelineInit => AnswerInv /\ Stages!StagesInit
  BY DEF PipelineInit, AnswerInv, Stages!StagesInit
<1>2. AnswerInv /\ [PipelineNext]_pipelineVars => AnswerInv' /\ [Stages!StagesNext]_(Stages!stageVars)
  BY PipelineStepAnnounces
<1>3. QED
  BY <1>1, <1>2, PTL DEF PipelineSpec, AnnouncesStages, Stages!StagesSpec

------------------------------------------------------------------------------
(* The live progress *)

\* A client that connect has registered.
Registered(c) == socket[c] \in {"registered", "greeting", "in"}

SocketTypes ==
    /\ socket \in [Clients -> {"out", "registered", "greeting", "in", "gone"}]
    /\ DOMAIN greeting = Clients /\ greeting = [c \in Clients |-> greeting[c]]
    /\ alive \in [Clients -> BOOLEAN]
    /\ informed \in [Clients -> BOOLEAN]
    /\ DOMAIN owed = Clients /\ owed = [c \in Clients |-> owed[c]]
    /\ listed \in BOOLEAN
    /\ phase \in {"idle", "sending", "cleaning", "forgetting"}

ConnectionsInv ==
    /\ \A c \in connections : c \in Clients /\ Registered(c)
    /\ \A c \in Clients : Registered(c) /\ alive[c] => c \in connections
    /\ listed => \E c \in Clients : Registered(c)
    /\ ~listed => connections = {}

BroadcastInv ==
    /\ queue \subseteq Clients
    /\ phase # "sending" => queue = {}
    /\ \A c \in disconnected : ~alive[c]
    /\ phase = "forgetting" => announced \in Ends

\* What was stored for late joiners is forgotten, and the preview answered,
\* only after its end.
EndInv ==
    /\ phase = "idle" /\ announced \in Ends => current = "none"
    /\ answered # "none" => phase = "idle" /\ announced \in Ends

SocketsInv == SocketTypes /\ ConnectionsInv /\ BroadcastInv /\ EndInv

\* Nobody has left yet, and the preview is between its first stage and its end:
\* the stage stored is the one announced, and who is to be told is told.
Midway == announced \notin Ends \cup {"none"} /\ \A c \in Clients : socket[c] # "gone"

MidwayInv ==
    Midway =>
        /\ current = announced
        /\ \A c \in Clients : alive[c] /\ socket[c] = "greeting" =>
              c \in queue \/ informed[c] \/ greeting[c] = announced
        /\ \A c \in Clients : alive[c] /\ socket[c] = "in" => c \in queue \/ informed[c]

------------------------------------------------------------------------------

\* The invariant holds before anybody has connected.
LEMMA SocketsInvInit ==
    ASSUME SocketsInit
    PROVE  SocketsInv
<1>1. SocketTypes
  BY DEF SocketsInit, SocketTypes
<1>2. ConnectionsInv
  BY DEF SocketsInit, ConnectionsInv, Registered
<1>3. BroadcastInv /\ EndInv
  BY DEF SocketsInit, BroadcastInv, EndInv, Ends, Preview!StagesInit
<1>4. QED
  BY <1>1, <1>2, <1>3 DEF SocketsInv

\* The steps of the broadcast change neither sockets nor clients.
BroadcastStep ==
    \/ \E s \in Preview!Following(announced) : Announces(s)
    \/ Sends \/ Cleans \/ ForgetsSession \/ Replies

\* The steps of one client change nothing of the broadcast.
ClientStep(c) == Registers(c) \/ ReadsCurrent(c) \/ Greets(c) \/ Leaves(c) \/ Disconnects(c)

\* Every step of the broadcast keeps the invariant.
LEMMA BroadcastKeeps ==
    ASSUME SocketsInv, BroadcastStep
    PROVE  SocketsInv'
<1> USE DEF SocketsInv
<1>1. ASSUME NEW s, Announces(s)
      PROVE  SocketsInv'
  <2>1. SocketTypes'
    BY <1>1 DEF Announces, SocketTypes, ClientsUnchanged, Afterwards
  <2>2. ConnectionsInv'
    BY <1>1 DEF Announces, ConnectionsInv, ClientsUnchanged, Registered
  <2>3. BroadcastInv'
    BY <1>1 DEF Announces, BroadcastInv, ConnectionsInv, ClientsUnchanged, Afterwards
  <2>4. EndInv'
    BY <1>1 DEF Announces, EndInv, Afterwards, Preview!Announce
  <2>5. QED
    BY <2>1, <2>2, <2>3, <2>4
<1>2. CASE Sends
  <2>1. PICK c \in queue : /\ Hears(c)
                           /\ disconnected' \in IF alive[c] THEN {disconnected}
                                                ELSE {disconnected, disconnected \cup {c}}
                           /\ queue' = queue \ {c}
    BY <1>2 DEF Sends
  <2>2. c \in Clients
    BY DEF BroadcastInv
  <2>3. informed' \in [Clients -> BOOLEAN] /\ DOMAIN owed' = Clients
        /\ owed' = [d \in Clients |-> owed'[d]]
    BY <2>1, <2>2 DEF Hears, SocketTypes
  <2>4. SocketTypes'
    BY <1>2, <2>3 DEF Sends, SocketTypes, ClientsUnchanged, Afterwards
  <2>5. ConnectionsInv'
    BY <1>2 DEF Sends, ConnectionsInv, ClientsUnchanged, Registered
  <2>6. BroadcastInv'
    BY <1>2, <2>1 DEF Sends, BroadcastInv, ClientsUnchanged, Afterwards
  <2>7. EndInv'
    BY <1>2 DEF Sends, EndInv, Afterwards
  <2>8. QED
    BY <2>4, <2>5, <2>6, <2>7
<1>3. CASE Cleans
  <2>1. SocketTypes'
    BY <1>3 DEF Cleans, SocketTypes, ClientsUnchanged, Afterwards
  <2>2. ConnectionsInv'
    BY <1>3 DEF Cleans, ConnectionsInv, BroadcastInv, ClientsUnchanged, Registered
  <2>3. BroadcastInv'
    BY <1>3 DEF Cleans, BroadcastInv, ClientsUnchanged, Afterwards
  <2>4. EndInv'
    BY <1>3 DEF Cleans, EndInv, Afterwards
  <2>5. QED
    BY <2>1, <2>2, <2>3, <2>4
<1>4. CASE ForgetsSession
  BY <1>4 DEF ForgetsSession, SocketTypes, ConnectionsInv, BroadcastInv, EndInv,
              ClientsUnchanged, Registered
<1>5. CASE Replies
  BY <1>5 DEF Replies, SocketTypes, ConnectionsInv, BroadcastInv, EndInv,
              ClientsUnchanged, Registered, Preview!Reply, Ends
<1>6. QED
  BY <1>1, <1>2, <1>3, <1>4, <1>5 DEF BroadcastStep

\* Every step of a client keeps the invariant.
LEMMA ClientsKeep ==
    ASSUME SocketsInv, NEW c \in Clients, ClientStep(c)
    PROVE  SocketsInv'
<1> USE DEF SocketsInv, BroadcastUnchanged
<1>1. CASE Registers(c)
  <2>1. SocketTypes'
    BY <1>1 DEF Registers, SocketTypes
  <2>2. ConnectionsInv'
    BY <1>1 DEF Registers, ConnectionsInv, SocketTypes, Registered
  <2>3. BroadcastInv' /\ EndInv'
    BY <1>1 DEF Registers, BroadcastInv, EndInv
  <2>4. QED
    BY <2>1, <2>2, <2>3
<1>2. CASE ReadsCurrent(c) \/ Greets(c)
  <2>1. SocketTypes'
    BY <1>2 DEF ReadsCurrent, Greets, Joins, SocketTypes
  <2>2. \A d \in Clients : Registered(d)' <=> Registered(d)
    BY <1>2 DEF ReadsCurrent, Greets, Joins, SocketTypes, Registered
  <2>3. UNCHANGED <<listed, connections, current, alive>>
    BY <1>2 DEF ReadsCurrent, Greets
  <2>4. ConnectionsInv'
    BY <2>2, <2>3 DEF ConnectionsInv
  <2>5. BroadcastInv' /\ EndInv'
    BY <1>2, <2>3 DEF ReadsCurrent, Greets, BroadcastInv, EndInv
  <2>6. QED
    BY <2>1, <2>4, <2>5
<1>3. CASE Leaves(c)
  <2>1. SocketTypes'
    BY <1>3 DEF Leaves, SocketTypes
  <2>2. \A d \in Clients : alive'[d] => alive[d]
    BY <1>3 DEF Leaves, SocketTypes
  <2>3. ConnectionsInv'
    BY <1>3, <2>2 DEF Leaves, ConnectionsInv, Registered
  <2>4. BroadcastInv' /\ EndInv'
    BY <1>3 DEF Leaves, BroadcastInv, EndInv, SocketTypes
  <2>5. QED
    BY <2>1, <2>3, <2>4
<1>4. CASE Disconnects(c)
  <2>1. SocketTypes'
    BY <1>4 DEF Disconnects, SocketTypes
  <2>2. ConnectionsInv'
    BY <1>4 DEF Disconnects, ConnectionsInv, SocketTypes, Registered
  <2>3. BroadcastInv' /\ EndInv'
    BY <1>4 DEF Disconnects, BroadcastInv, EndInv
  <2>4. QED
    BY <2>1, <2>2, <2>3
<1>5. QED
  BY <1>1, <1>2, <1>3, <1>4 DEF ClientStep

\* The steps of SocketsNext, those of the broadcast and those of clients.
LEMMA SocketSteps ==
    ASSUME [SocketsNext]_socketVars
    PROVE  BroadcastStep \/ (\E c \in Clients : ClientStep(c)) \/ UNCHANGED socketVars
BY DEF SocketsNext, BroadcastStep, ClientStep

\* Whoever connects, leaves or breaks down while stages are broadcast, a client
\* that is there is among the connections that the next broadcast copies.
THEOREM SocketsInvariant == SocketsSpec => []SocketsInv
<1>1. SocketsInv /\ [SocketsNext]_socketVars => SocketsInv'
  <2> SUFFICES ASSUME SocketsInv, [SocketsNext]_socketVars
               PROVE  SocketsInv'
    OBVIOUS
  <2>1. CASE UNCHANGED socketVars
    BY <2>1 DEF socketVars, SocketsInv, SocketTypes, ConnectionsInv, BroadcastInv, EndInv,
                Registered
  <2>2. QED
    BY <2>1, SocketSteps, BroadcastKeeps, ClientsKeep
<1>2. QED
  BY <1>1, SocketsInvInit, PTL DEF SocketsSpec

------------------------------------------------------------------------------
(* What follows *)

\* Every step keeps what a client has been told in step with what was announced.
LEMMA TellsStep ==
    ASSUME SocketsInv, TellsEveryStage, [SocketsNext]_socketVars
    PROVE  TellsEveryStage'
<1> USE DEF SocketsInv
<1>1. ASSUME NEW s, Announces(s)
      PROVE  TellsEveryStage'
  <2> SUFFICES ASSUME NEW c \in Clients, socket[c] = "in", alive[c]
               PROVE  owed'[c] = IF c \in queue' THEN <<announced'>> ELSE << >>
    BY <1>1 DEF TellsEveryStage, Announces, ClientsUnchanged
  <2>1. queue = {} /\ owed[c] = << >>
    BY <1>1 DEF BroadcastInv, TellsEveryStage, Announces
  <2>2. c \in queue'
    BY <1>1 DEF ConnectionsInv, Registered, Announces
  <2>3. owed'[c] = Append(<< >>, s) /\ announced' = s
    BY <1>1, <2>1 DEF Announces, Preview!Announce
  <2>4. QED
    BY <2>2, <2>3
<1>2. CASE Sends
  <2>1. PICK c \in queue : Hears(c) /\ queue' = queue \ {c}
    BY <1>2 DEF Sends
  <2>2. UNCHANGED <<announced, socket, alive>>
    BY <1>2 DEF Sends, ClientsUnchanged
  <2>3. c \in Clients /\ DOMAIN owed = Clients
    BY DEF BroadcastInv, SocketTypes
  <2>4. ASSUME NEW d \in Clients, d # c
        PROVE  owed'[d] = owed[d]
    BY <2>1, <2>3, <2>4 DEF Hears
  <2>5. socket[c] = "in" /\ alive[c] => owed'[c] = << >>
    BY <2>1, <2>3 DEF Hears, TellsEveryStage
  <2>6. QED
    BY <2>1, <2>2, <2>4, <2>5 DEF TellsEveryStage
<1>3. CASE Cleans \/ ForgetsSession \/ Replies \/ UNCHANGED socketVars
  BY <1>3 DEF TellsEveryStage, Cleans, ForgetsSession, Replies, ClientsUnchanged, socketVars,
              Preview!Reply
<1>4. ASSUME NEW c \in Clients, ClientStep(c)
      PROVE  TellsEveryStage'
  <2>0. DOMAIN owed = Clients /\ DOMAIN alive = Clients /\ DOMAIN socket = Clients
    BY DEF SocketTypes
  <2>1. UNCHANGED <<announced, queue>>
    BY <1>4 DEF ClientStep, Registers, ReadsCurrent, Greets, Leaves, Disconnects,
                BroadcastUnchanged
  <2>2. \A d \in Clients \ {c} : socket'[d] = socket[d] /\ alive'[d] = alive[d] /\ owed'[d] = owed[d]
    BY <1>4, <2>0 DEF ClientStep, Registers, ReadsCurrent, Greets, Leaves, Disconnects, Joins
  <2>3. \/ socket'[c] # "in" \/ ~alive'[c]
        \/ owed'[c] = IF c \in queue THEN <<announced>> ELSE << >>
    BY <1>4, <2>0 DEF ClientStep, Registers, ReadsCurrent, Greets, Leaves, Disconnects, Joins
  <2>4. QED
    BY <2>1, <2>2, <2>3 DEF TellsEveryStage
<1>5. QED
  BY <1>1, <1>2, <1>3, <1>4, SocketSteps DEF BroadcastStep

\* Every client that is connected is told every stage, once and in order,
\* although sockets are written to one by one and outside of the lock.
THEOREM EveryStageIsTold == SocketsSpec => []TellsEveryStage
<1>1. SocketsInit => TellsEveryStage
  BY DEF SocketsInit, TellsEveryStage
<1>2. QED
  BY <1>1, TellsStep, SocketsInvariant, PTL DEF SocketsSpec

\* Every step keeps what those who join midway are owed.
LEMMA MidwayStep ==
    ASSUME SocketsInv, MidwayInv, [SocketsNext]_socketVars
    PROVE  MidwayInv'
<1> USE DEF SocketsInv
<1>1. ASSUME NEW s, Announces(s)
      PROVE  MidwayInv'
  <2>1. /\ current' = s /\ announced' = s /\ UNCHANGED <<socket, alive>>
        /\ queue' = connections
    BY <1>1 DEF Announces, ClientsUnchanged, Preview!Announce
  <2>2. \A c \in Clients : Registered(c) /\ alive[c] => c \in queue'
    BY <2>1 DEF ConnectionsInv
  <2>3. QED
    BY <2>1, <2>2 DEF MidwayInv, Midway, Registered
<1>2. CASE Sends
  <2>1. PICK c \in queue : Hears(c) /\ queue' = queue \ {c}
    BY <1>2 DEF Sends
  <2>2. UNCHANGED <<announced, current, socket, alive, greeting>>
    BY <1>2 DEF Sends, ClientsUnchanged
  <2>3. c \in Clients /\ DOMAIN informed = Clients
    BY DEF BroadcastInv, SocketTypes
  <2>4. \A d \in Clients : informed[d] => informed'[d]
    BY <2>1, <2>3 DEF Hears, SocketTypes
  <2>5. alive[c] => informed'[c]
    BY <2>1, <2>3 DEF Hears
  <2>6. \A d \in Clients : d \in queue => d \in queue' \/ d = c
    BY <2>1
  <2>7. QED
    BY <2>2, <2>4, <2>5, <2>6 DEF MidwayInv, Midway
<1>3. CASE Cleans \/ Replies \/ UNCHANGED socketVars
  BY <1>3 DEF MidwayInv, Midway, Cleans, Replies, ClientsUnchanged, socketVars, Preview!Reply
<1>4. CASE ForgetsSession
  BY <1>4 DEF MidwayInv, Midway, ForgetsSession, BroadcastInv
<1>5. ASSUME NEW c \in Clients, ClientStep(c)
      PROVE  MidwayInv'
  <2>0. /\ DOMAIN greeting = Clients /\ DOMAIN alive = Clients /\ DOMAIN socket = Clients
        /\ DOMAIN informed = Clients
    BY DEF SocketTypes
  <2>1. UNCHANGED <<announced, queue>>
    BY <1>5 DEF ClientStep, Registers, ReadsCurrent, Greets, Leaves, Disconnects,
                BroadcastUnchanged
  <2>2. \A d \in Clients \ {c} : /\ socket'[d] = socket[d] /\ alive'[d] = alive[d]
                                 /\ informed'[d] = informed[d] /\ greeting'[d] = greeting[d]
    BY <1>5, <2>0 DEF ClientStep, Registers, ReadsCurrent, Greets, Leaves, Disconnects, Joins
  <2>3. CASE Disconnects(c)
    BY <2>0, <2>3 DEF Disconnects, MidwayInv, Midway
  <2>4. CASE ~Disconnects(c)
    <3>1. current' = current
      BY <1>5, <2>4 DEF ClientStep, Registers, ReadsCurrent, Greets, Leaves
    <3>2. Midway' => Midway
      BY <1>5, <2>0, <2>1, <2>2, <2>4 DEF ClientStep, Registers, ReadsCurrent, Greets, Leaves, Midway
    <3>3. ASSUME Midway, alive'[c], socket'[c] = "greeting"
          PROVE  c \in queue \/ informed'[c] \/ greeting'[c] = announced
      BY <1>5, <2>0, <2>4, <3>3
      DEF ClientStep, Registers, ReadsCurrent, Greets, Leaves, Joins, MidwayInv
    <3>4. ASSUME Midway, alive'[c], socket'[c] = "in"
          PROVE  c \in queue \/ informed'[c]
      BY <1>5, <2>0, <2>4, <3>4
      DEF ClientStep, Registers, ReadsCurrent, Greets, Leaves, Joins, MidwayInv, Midway
    <3>5. QED
      BY <2>1, <2>2, <3>1, <3>2, <3>3, <3>4 DEF MidwayInv
  <2>5. QED
    BY <2>3, <2>4
<1>6. QED
  BY <1>1, <1>2, <1>3, <1>4, <1>5, SocketSteps DEF BroadcastStep

\* Who joins in the middle of a preview, between the copy of the connections and
\* the end of the broadcast or after it, has heard the stage that is current.
THEOREM LateJoinersHearCurrent == SocketsSpec => []LateJoinerHearsCurrent
<1>1. SocketsInit => MidwayInv
  BY DEF SocketsInit, MidwayInv, Midway, Preview!StagesInit
<1>2. SocketsInv /\ MidwayInv => LateJoinerHearsCurrent
  BY DEF SocketsInv, BroadcastInv, MidwayInv, Midway, LateJoinerHearsCurrent
<1>3. QED
  BY <1>1, <1>2, MidwayStep, SocketsInvariant, PTL DEF SocketsSpec

\* No stage and no connections stay behind for a session that is over, although
\* a list that failed sends have emptied is left to the last disconnect.
THEOREM SessionsAreForgotten == SocketsSpec => []SessionForgotten
<1>1. SocketsInv => SessionForgotten
  BY DEF SocketsInv, ConnectionsInv, EndInv, SessionForgotten, Registered
<1>2. QED
  BY <1>1, SocketsInvariant, PTL
=============================================================================
