----------------------------- MODULE SetInduction -----------------------------
(***************************************************************************)
(* Induction, least elements and recursion over the natural numbers with   *)
(* sets and functions where a textbook has predicates and operators, so    *)
(* that the facts can be cited with the set or the function that a proof   *)
(* has at hand.  All of it rests on the pigeonhole principle for finite    *)
(* sets.                                                                   *)
(***************************************************************************)
EXTENDS Integers, FiniteSetTheorems, TLAPS

(* What holds of 0 and, below n, of the next holds of n: otherwise adding  *)
(* one would put a finite set into the set without its 0.                  *)
LEMMA BoundedInduction ==
  ASSUME NEW n \in Nat, NEW B \in SUBSET (0..n), 0 \in B,
         \A i \in B : i < n => i + 1 \in B
  PROVE  n \in B
<1> SUFFICES ASSUME n \notin B PROVE FALSE
  OBVIOUS
<1> DEFINE next == [i \in B |-> i + 1]
<1>1. IsFiniteSet(B)
  <2>1. IsFiniteSet(0..n)
    BY FS_Interval
  <2> QED
    BY <2>1, FS_Subset
<1>2. /\ IsFiniteSet(B \ {0})
      /\ Cardinality(B \ {0}) = Cardinality(B) - 1
      /\ Cardinality(B) \in Nat
  BY <1>1, FS_RemoveElement, FS_CardinalityType
<1>3. next \in [B -> B \ {0}]
  OBVIOUS
<1>4. \E x, y \in B : x # y /\ next[x] = next[y]
  <2>1. Cardinality(B \ {0}) < Cardinality(B)
    BY <1>2
  <2> HIDE DEF next
  <2> QED
    BY <1>1, <1>2, <1>3, <2>1, FS_PigeonHole
<1> QED
  BY <1>4

(* The set of the numbers that have a property, in place of the property. *)
LEMMA Induction ==
  ASSUME NEW P, 0 \in P, \A n \in Nat : n \in P => n + 1 \in P
  PROVE  \A n \in Nat : n \in P
<1> SUFFICES ASSUME NEW n \in Nat PROVE n \in P
  OBVIOUS
<1> DEFINE B == P \cap 0..n
<1>1. B \in SUBSET (0..n) /\ 0 \in B /\ \A i \in B : i < n => i + 1 \in B
  OBVIOUS
<1> HIDE DEF B
<1>2. n \in B
  BY <1>1, BoundedInduction
<1> QED
  BY <1>2 DEF B

(* A nonempty set of natural numbers has a least element. *)
LEMMA LeastElement ==
  ASSUME NEW S \in SUBSET Nat, S # {}
  PROVE  \E m \in S : \A i \in S : m <= i
<1> SUFFICES ASSUME \A m \in S : \E i \in S : i < m PROVE FALSE
  OBVIOUS
<1> DEFINE Below == {n \in Nat : \A i \in S : n <= i /\ n \notin S}
<1>1. 0 \in Below
  OBVIOUS
<1>2. \A n \in Nat : n \in Below => n + 1 \in Below
  OBVIOUS
<1> HIDE DEF Below
<1>3. \A n \in Nat : n \in Below
  BY <1>1, <1>2, Induction
<1> QED
  BY <1>3 DEF Below

(* f has the values that a first one and a step to the next make           *)
IsRun(f, n, V, base, step) ==
  /\ f \in [0..n -> V]
  /\ f[0] = base
  /\ \A i \in 1..n : f[i] = step[<<i, f[i - 1]>>]

(* A value for 0 and a step from each value to the next make a function.   *)
LEMMA Recursion ==
  ASSUME NEW n \in Nat, NEW V, NEW base \in V, NEW step \in [Nat \X V -> V]
  PROVE  \E f : IsRun(f, n, V, base, step)
<1> DEFINE Runs(k, f) == IsRun(f, k, V, base, step)
           P == {k \in Nat : \E f : Runs(k, f)}
<1> USE DEF IsRun
<1>1. 0 \in P
  <2>1. Runs(0, [i \in 0..0 |-> base])
    OBVIOUS
  <2> QED
    BY <2>1
<1>2. \A k \in Nat : k \in P => k + 1 \in P
  <2> SUFFICES ASSUME NEW k \in Nat, NEW f, Runs(k, f)
               PROVE  \E g : Runs(k + 1, g)
    OBVIOUS
  <2> DEFINE g == [i \in 0..k + 1 |-> IF i = k + 1 THEN step[<<k + 1, f[k]>>]
                                                  ELSE f[i]]
  <2>1. f[k] \in V /\ step[<<k + 1, f[k]>>] \in V
    OBVIOUS
  <2>2. g \in [0..k + 1 -> V]
    BY <2>1
  <2>3. g[0] = base
    OBVIOUS
  <2>4. ASSUME NEW i \in 1..k + 1 PROVE g[i] = step[<<i, g[i - 1]>>]
    <3>1. CASE i = k + 1
      <4>1. i - 1 = k /\ g[k] = f[k] /\ g[i] = step[<<k + 1, f[k]>>]
        BY <3>1
      <4> QED
        BY <3>1, <4>1
    <3>2. CASE i # k + 1
      <4>1. i \in 1..k /\ i - 1 \in 0..k /\ i - 1 # k + 1
        BY <3>2
      <4> QED
        BY <3>2, <4>1
    <3> QED
      BY <3>1, <3>2
  <2>5. Runs(k + 1, g)
    BY <2>2, <2>3, <2>4
  <2> QED
    BY <2>5
<1> HIDE DEF P
<1>3. n \in P
  BY <1>1, <1>2, Induction
<1> QED
  BY <1>3 DEF P
=============================================================================
