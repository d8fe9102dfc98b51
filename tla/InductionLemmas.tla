--------------------------- MODULE InductionLemmas ---------------------------
(* Induction over the natural numbers, for sets: what a function defined by   *)
(* recursion on a number computes is proved with it.                          *)
EXTENDS Integers, FiniteSetTheorems, WellFoundedInduction, TLAPS

\* A set of natural numbers that is not empty has a least element.
LEMMA LeastElement ==
  ASSUME NEW T \in SUBSET Nat, T # {}
  PROVE  \E n \in T : \A m \in T : n <= m
<1> DEFINE upTo(n) == 0..n
           U == {upTo(n) : n \in T}
<1>1. U \subseteq FiniteSubsetsOf(Nat) /\ U # {}
  <2>1. ASSUME NEW n \in T PROVE upTo(n) \in SUBSET Nat /\ IsFiniteSet(upTo(n))
    <3>1. IsFiniteSet(0..n)
      BY FS_Interval, n \in Int, 0 \in Int
    <3> QED
      BY <3>1
  <2> HIDE DEF upTo
  <2>2. U \subseteq FiniteSubsetsOf(Nat)
    BY <2>1 DEF FiniteSubsetsOf
  <2> QED
    BY <2>2
<1>2. PICK x \in U : \A y \in U : <<y, x>> \notin StrictSubsetOrdering(Nat)
  BY <1>1, FS_StrictSubsetOrderingWellFounded, WFMin
<1>3. PICK n \in T : x = upTo(n)
  OBVIOUS
<1>4. ASSUME NEW m \in T PROVE n <= m
  <2>1. CASE m < n
    <3>1. upTo(m) \subseteq upTo(n) /\ upTo(m) # upTo(n)
      <4>1. n \in upTo(n) /\ n \notin upTo(m)
        BY <2>1
      <4>2. upTo(m) \subseteq upTo(n)
        BY <2>1
      <4> QED
        BY <4>1, <4>2
    <3>2. upTo(m) \in SUBSET Nat /\ upTo(n) \in SUBSET Nat
      OBVIOUS
    <3>3. <<upTo(m), upTo(n)>> \in StrictSubsetOrdering(Nat)
      BY <3>1, <3>2 DEF StrictSubsetOrdering
    <3> QED
      BY <1>2, <1>3, <3>3
  <2> QED
    BY <2>1
<1> QED
  BY <1>4

\* Induction over the natural numbers, for a set that holds them.
LEMMA Induction ==
  ASSUME NEW T, 0 \in T, \A n \in Nat : n \in T => n + 1 \in T
  PROVE  Nat \subseteq T
<1> SUFFICES ASSUME Nat \ T # {} PROVE FALSE
  OBVIOUS
<1>1. PICK n \in Nat \ T : \A m \in Nat \ T : n <= m
  BY LeastElement
<1>2. n # 0 /\ n - 1 \in Nat /\ n - 1 + 1 = n
  OBVIOUS
<1>3. n - 1 \in T
  BY <1>1, <1>2
<1> QED
  BY <1>1, <1>2, <1>3
==============================================================================
