----------------------------- MODULE LoopLemmas -----------------------------
(***************************************************************************)
(* What the proofs about the loops of several components need of the       *)
(* natural numbers.                                                        *)
(***************************************************************************)
EXTENDS FiniteSetsExt, Naturals, WellFoundedInduction, TLAPS

\* What holds of 0 and passes from each number to the next holds up to n: a
\* least number without it would have a predecessor with it.
LEMMA UpTo ==
    ASSUME NEW n \in Nat, NEW T, 0 \in T, \A i \in 0 .. n - 1 : i \in T => i + 1 \in T
    PROVE  0 .. n \subseteq T
<1> DEFINE missing == (0 .. n) \ T
<1> SUFFICES ASSUME missing # {} PROVE FALSE
  OBVIOUS
<1>1. PICK x \in missing : \A y \in missing : ~ (<<y, x>> \in OpToRel(<, Nat))
  <2>1. missing \subseteq Nat
    OBVIOUS
  <2>2. QED
    BY <2>1, NatLessThanWellFounded, WFMin
<1>2. x \in 0 .. n /\ x # 0 /\ x \in Nat /\ x \notin T
  OBVIOUS
<1>3. x - 1 \in 0 .. n - 1 /\ x - 1 \in Nat
  BY <1>2
<1>4. <<x - 1, x>> \in OpToRel(<, Nat)
  BY <1>2, <1>3 DEF OpToRel
<1>5. x - 1 \in T
  <2>1. x - 1 \notin missing
    <3> HIDE DEF missing
    <3>1. QED
      BY <1>1, <1>4
  <2>2. x - 1 \in 0 .. n
    BY <1>2
  <2>3. QED
    BY <2>1, <2>2
<1>6. (x - 1) + 1 \in T
  BY <1>3, <1>5
<1>7. QED
  BY <1>2, <1>6

\* A set of numbers that is not empty has a least one.
LEMMA MinOfNaturals ==
    ASSUME NEW S \in SUBSET Nat, S # {}
    PROVE  Min(S) \in S /\ \A x \in S : Min(S) <= x
<1>1. PICK x \in S : \A y \in S : ~ (<<y, x>> \in OpToRel(<, Nat))
  BY NatLessThanWellFounded, WFMin
<1>2. \A y \in S : x <= y
  <2> TAKE y \in S
  <2>1. ~(y < x)
    BY <1>1 DEF OpToRel
  <2>2. QED
    BY <2>1
<1>3. QED
  BY <1>2 DEF Min

\* The values of a loop, from the first one on: each is made of the one before.
IsLoop(g, k, n, first, step) ==
    g = [i \in k .. n |-> IF i = k THEN first ELSE step[<<i, g[i - 1]>>]]

\* A loop of that form has a list of values.
LEMMA LoopIsDefined ==
    ASSUME NEW k \in Nat, NEW n \in Nat, k <= n, NEW X, NEW first \in X,
           NEW step \in [(k + 1 .. n) \X X -> X]
    PROVE  \E g \in [k .. n -> X] : IsLoop(g, k, n, first, step)
<1> DEFINE Upto(g, m) == /\ g \in [k .. m -> X]
                         /\ g = [i \in k .. m |->
                                   IF i = k THEN first ELSE step[<<i, g[i - 1]>>]]
           T == {d \in 0 .. n - k : \E g : Upto(g, k + d)}
<1>1. 0 \in T
  <2>1. Upto([i \in k .. k + 0 |-> first], k + 0)
    OBVIOUS
  <2>2. \E g : Upto(g, k + 0)
    <3> HIDE DEF Upto
    <3>1. QED
      BY <2>1
  <2>3. QED
    BY <2>2
<1>2. ASSUME NEW d \in 0 .. (n - k) - 1, d \in T
      PROVE  d + 1 \in T
  <2>1. PICK g : Upto(g, k + d)
    BY <1>2
  <2> DEFINE m == k + d
             h == [i \in k .. m + 1 |-> IF i = m + 1 THEN step[<<m + 1, g[m]>>] ELSE g[i]]
  <2>2. /\ m \in Nat /\ k <= m /\ m + 1 \in k + 1 .. n /\ m \in k .. m
        /\ k + (d + 1) = m + 1 /\ d + 1 \in 0 .. n - k
    OBVIOUS
  <2>3. /\ g \in [k .. m -> X]
        /\ \A i \in k .. m : g[i] = IF i = k THEN first ELSE step[<<i, g[i - 1]>>]
    <3>1. /\ g \in [k .. m -> X]
          /\ g = [i \in k .. m |-> IF i = k THEN first ELSE step[<<i, g[i - 1]>>]]
      BY <2>1
    <3> HIDE DEF m
    <3>2. QED
      BY <3>1
  <2> HIDE DEF m
  <2>4. step[<<m + 1, g[m]>>] \in X
    BY <2>2, <2>3
  <2>5. h \in [k .. m + 1 -> X]
    BY <2>2, <2>3, <2>4
  <2>6. ASSUME NEW i \in k .. m + 1
        PROVE  h[i] = IF i = k THEN first ELSE step[<<i, h[i - 1]>>]
    <3>1. CASE i = m + 1
      <4>1. h[m] = g[m] /\ h[m + 1] = step[<<m + 1, g[m]>>]
        BY <2>2
      <4>2. i - 1 = m /\ i # k
        BY <3>1, <2>2
      <4>3. QED
        BY <3>1, <4>1, <4>2
    <3>2. CASE i \in k .. m
      <4>1. h[i] = g[i] /\ (i # k => i - 1 \in k .. m)
        BY <3>2, <2>2
      <4>2. i # k => h[i - 1] = g[i - 1]
        BY <4>1, <2>2
      <4>3. g[i] = IF i = k THEN first ELSE step[<<i, g[i - 1]>>]
        BY <3>2, <2>3
      <4> HIDE DEF h
      <4>4. QED
        BY <4>1, <4>2, <4>3
    <3>3. QED
      BY <3>1, <3>2, <2>2
  <2>7. Upto(h, m + 1)
    <3> HIDE DEF h
    <3>1. h = [i \in k .. m + 1 |-> h[i]]
      BY <2>5
    <3>2. QED
      BY <3>1, <2>5, <2>6
  <2>8. \E f : Upto(f, k + (d + 1))
    <3> HIDE DEF Upto, h
    <3>1. QED
      BY <2>2, <2>7
  <2>9. QED
    BY <2>2, <2>8
<1>3. n - k \in T
  <2> HIDE DEF T
  <2>1. 0 .. n - k \subseteq T
    BY <1>1, <1>2, UpTo
  <2>2. QED
    BY <2>1
<1>4. PICK g : Upto(g, n)
  <2>1. \E g : Upto(g, k + (n - k))
    BY <1>3
  <2>2. k + (n - k) = n
    OBVIOUS
  <2>3. QED
    BY <2>1, <2>2
<1>5. QED
  BY <1>4 DEF IsLoop
=============================================================================
