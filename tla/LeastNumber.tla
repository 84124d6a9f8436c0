---------------------------- MODULE LeastNumber ----------------------------
(***************************************************************************)
(* Sets of numbers have smallest ones: what stands for induction here.     *)
(***************************************************************************)
EXTENDS Integers, FiniteSets, FiniteSetTheorems, WellFoundedInduction, TLAPS

\* A set of numbers up to a bound has a smallest one.
LEMMA Smallest ==
    ASSUME NEW n \in Nat, NEW S \in SUBSET (0..n), S # {}
    PROVE  \E i \in S : \A j \in S : i <= j
<1> DEFINE R == StrictSubsetOrdering(0..n)
           T == {0..i : i \in S}
<1>1. IsWellFoundedOn(R, SUBSET (0..n))
  <2>1. IsFiniteSet(0..n)
    BY FS_Interval
  <2> QED BY <2>1, FS_FiniteSubsetsOfFinite, FS_StrictSubsetOrderingWellFounded
<1>2. T \subseteq SUBSET (0..n) /\ T # {}
  <2>1. \A i \in S : i \in 0..n
    OBVIOUS
  <2>2. \A i \in S : 0..i \subseteq 0..n
    BY <2>1
  <2>3. \A t \in T : t \in SUBSET (0..n)
    BY <2>2
  <2>4. PICK i \in S : TRUE
    OBVIOUS
  <2>5. 0..i \in T
    BY <2>4
  <2> QED BY <2>3, <2>5
<1>3. PICK x \in T : \A y \in T : ~(<<y, x>> \in R)
  <2> HIDE DEF R, T
  <2> QED BY <1>1, <1>2, WFMin
<1>4. PICK i \in S : x = 0..i
  OBVIOUS
<1>5. ASSUME NEW j \in S PROVE i <= j
  <2> SUFFICES ASSUME j < i PROVE FALSE
    OBVIOUS
  <2>1. i \in Nat /\ j \in Nat
    OBVIOUS
  <2>2. 0..j \in T
    OBVIOUS
  <2>3. 0..j \subseteq 0..i /\ 0..j # 0..i
    <3>1. i \in 0..i /\ i \notin 0..j
      BY <2>1
    <3>2. 0..j \subseteq 0..i
      BY <2>1
    <3> QED BY <3>1, <3>2
  <2>4. 0..j \in SUBSET (0..n) /\ 0..i \in SUBSET (0..n)
    BY <1>2, <2>2, <1>4
  <2>5. <<0..j, 0..i>> \in R
    BY <2>3, <2>4 DEF StrictSubsetOrdering
  <2> QED BY <1>3, <1>4, <2>2, <2>5
<1> QED BY <1>5

\* ... and a largest one.
LEMMA Largest ==
    ASSUME NEW n \in Nat, NEW S \in SUBSET (0..n), S # {}
    PROVE  \E i \in S : \A j \in S : j <= i
<1> DEFINE T == {n - i : i \in S}
<1>1. T \in SUBSET (0..n) /\ T # {}
  OBVIOUS
<1>2. PICK t \in T : \A u \in T : t <= u
  <2> HIDE DEF T
  <2> QED BY <1>1, Smallest
<1>3. PICK i \in S : t = n - i
  OBVIOUS
<1>4. ASSUME NEW j \in S PROVE j <= i
  <2>1. t <= n - j
    BY <1>2
  <2> QED BY <1>3, <2>1
<1> QED BY <1>4
=============================================================================
