----------------------------- MODULE OrderLemmas ------------------------------
(***************************************************************************)
(* Facts about least, greatest and first elements of sets of naturals,     *)
(* which proofs about several modules need.                                *)
(***************************************************************************)
EXTENDS Integers, FiniteSets, FiniteSetsExt, FiniteSetTheorems, WellFoundedInduction, TLAPS

\* A set of naturals has a least element.
LEMMA LeastNatural ==
    ASSUME NEW T \in SUBSET Nat, T # {}
    PROVE  \E n \in T : \A m \in T : n <= m
<1> DEFINE R == OpToRel(<, Nat)
<1>1. IsWellFoundedOn(R, Nat)
  BY NatLessThanWellFounded
<1>2. \A x, y \in Nat : x < y => <<x, y>> \in R
  BY DEF OpToRel
<1> HIDE DEF R
<1>3. PICK x \in T : \A y \in T : ~(<<y, x>> \in R)
  BY <1>1, WFMin
<1>4. ASSUME NEW m \in T PROVE x <= m
  <2>1. x \in Nat /\ m \in Nat /\ ~(<<m, x>> \in R)
    BY <1>3
  <2>2. ~(m < x)
    BY <1>2, <2>1
  <2> QED
    BY <2>1, <2>2
<1> QED
  BY <1>4

\* Of values that are bounded one is greatest.
LEMMA GreatestValue ==
    ASSUME NEW S, S # {}, NEW b \in Nat, NEW f \in [S -> 0..b]
    PROVE  \E x \in S : \A y \in S : f[y] <= f[x]
<1> DEFINE T == {n \in Nat : \E x \in S : n = b - f[x]}
<1>1. \A x \in S : f[x] \in 0..b /\ b - f[x] \in T
  OBVIOUS
<1>2. T \in SUBSET Nat /\ T # {}
  BY <1>1
<1>3. PICK n \in T : \A m \in T : n <= m
  BY <1>2, LeastNatural
<1>4. PICK x \in S : n = b - f[x]
  BY <1>3
<1>5. ASSUME NEW y \in S PROVE f[y] <= f[x]
  <2>1. b - f[x] <= b - f[y]
    BY <1>1, <1>3, <1>4
  <2> QED
    BY <1>1, <2>1
<1> QED
  BY <1>5

\* A finite set of naturals has a greatest element.
LEMMA GreatestOfFinite ==
    ASSUME NEW S, IsFiniteSet(S), S \subseteq Nat, S # {}
    PROVE  \E x \in S : \A y \in S : y <= x
<1> DEFINE Unbounded(U) == U # {} /\ ~\E x \in U : \A y \in U : y <= x
           T == {n \in Nat : \E U \in SUBSET S : Unbounded(U) /\ Cardinality(U) = n}
<1> SUFFICES ASSUME Unbounded(S) PROVE FALSE
  OBVIOUS
<1>1. Cardinality(S) \in T
  BY FS_CardinalityType
<1>2. PICK n \in T : \A m \in T : n <= m
  BY <1>1, LeastNatural
<1>3. PICK U \in SUBSET S : Unbounded(U) /\ Cardinality(U) = n
  BY <1>2
<1>4. PICK a \in U : TRUE
  BY <1>3
<1> DEFINE W == U \ {a}
<1>5. IsFiniteSet(U) /\ n \in Nat
  BY <1>2, FS_Subset
<1>6. Cardinality(W) = n - 1 /\ Cardinality(W) \in Nat
  BY <1>3, <1>5, FS_RemoveElement, FS_CardinalityType
<1>7. W \in SUBSET S /\ ~(Cardinality(W) \in T)
  <2>1. ~(n <= n - 1)
    BY <1>5
  <2>2. Cardinality(W) \in T => n <= Cardinality(W)
    BY <1>2
  <2> QED
    BY <1>6, <2>1, <2>2
<1>8. ~Unbounded(W)
  BY <1>6, <1>7
<1>9. CASE W = {}
  BY <1>3, <1>9
<1>10. CASE W # {}
  <2>1. PICK x \in W : \A y \in W : y <= x
    BY <1>8, <1>10
  <2>2. x \in Nat /\ a \in Nat /\ x \in U
    BY <1>4, <2>1
  <2>3. CASE a <= x
    <3>1. \A y \in U : y <= x
      BY <2>1, <2>3
    <3> QED
      BY <1>3, <2>2, <3>1
  <2>4. CASE ~(a <= x)
    <3>1. \A y \in U : y <= a
      <4>1. \A y \in W : y \in Nat /\ y <= a
        BY <2>1, <2>2, <2>4
      <4> QED
        BY <2>2, <4>1
    <3> QED
      BY <1>3, <3>1
  <2> QED
    BY <2>3, <2>4
<1> QED
  BY <1>9, <1>10

\* The largest of a non-empty set of bounded naturals is one of them.
LEMMA LargestIsMember ==
    ASSUME NEW S, S # {}, NEW b \in Nat, S \subseteq 0..b
    PROVE  Max(S) \in S
<1> DEFINE f == [x \in S |-> x]
<1>1. f \in [S -> 0..b]
  OBVIOUS
<1>2. PICK x \in S : \A y \in S : f[y] <= f[x]
  BY <1>1, GreatestValue
<1>3. \A y \in S : x >= y
  BY <1>2
<1> QED
  BY <1>3 DEF Max

\* The greatest of a set of numbers is the one that is.
LEMMA GreatestIs ==
    ASSUME NEW S, S \subseteq Int, NEW x \in S, \A y \in S : y <= x
    PROVE  Max(S) = x
<1>1. \A y \in S : x >= y
  OBVIOUS
<1>2. Max(S) \in S /\ \A y \in S : Max(S) >= y
  BY <1>1 DEF Max
<1>3. Max(S) \in Int /\ x \in Int /\ Max(S) >= x /\ Max(S) <= x
  BY <1>2
<1> QED
  BY <1>3

\* The largest of a finite set of naturals is one of them.
LEMMA LargestOfFinite ==
    ASSUME NEW S, IsFiniteSet(S), S \subseteq Nat, S # {}
    PROVE  Max(S) \in S
<1>1. PICK x \in S : \A y \in S : y <= x
  BY GreatestOfFinite
<1>2. \A y \in S : x >= y
  BY <1>1
<1> QED
  BY <1>2 DEF Max

\* The members of a set that fewer than n of it are below.
Foremost(S, n) == {d \in S : Cardinality({e \in S : e < d}) < n}

\* They are all of the set, or n; and no more than n.
LEMMA FirstAreSome ==
    ASSUME NEW S, IsFiniteSet(S), S \subseteq Nat, NEW n \in Nat
    PROVE  /\ IsFiniteSet(Foremost(S, n)) /\ Cardinality(Foremost(S, n)) <= n
           /\ Foremost(S, n) = S \/ Cardinality(Foremost(S, n)) = n
<1> DEFINE Good(U) == /\ Cardinality(Foremost(U, n)) <= n
                      /\ Foremost(U, n) = U \/ Cardinality(Foremost(U, n)) = n
           T == {c \in Nat : \E U \in SUBSET S : ~Good(U) /\ Cardinality(U) = c}
<1>1. IsFiniteSet(Foremost(S, n))
  BY FS_Subset DEF Foremost
<1> SUFFICES ASSUME ~Good(S) PROVE FALSE
  BY <1>1
<1>2. Cardinality(S) \in T
  BY FS_CardinalityType
<1>3. PICK c \in T : \A m \in T : c <= m
  BY <1>2, LeastNatural
<1>4. PICK U \in SUBSET S : ~Good(U) /\ Cardinality(U) = c
  BY <1>3
<1>5. IsFiniteSet(U) /\ U \subseteq Nat /\ c \in Nat
  BY <1>3, FS_Subset
<1>6. CASE U = {}
  <2>1. Foremost(U, n) = {}
    BY <1>6 DEF Foremost
  <2> QED
    BY <1>4, <1>6, <2>1, FS_EmptySet
<1>7. CASE U # {}
  <2>1. PICK a \in U : \A y \in U : y <= a
    BY <1>5, <1>7, GreatestOfFinite
  <2> DEFINE W == U \ {a}
             F == Foremost(W, n)
  <2>2. /\ IsFiniteSet(W) /\ Cardinality(W) = c - 1 /\ Cardinality(W) \in Nat
        /\ W \in SUBSET S /\ a \notin W
    BY <1>4, <1>5, <2>1, FS_RemoveElement, FS_CardinalityType
  <2>3. Good(W)
    <3>1. ~(c <= c - 1)
      BY <1>5
    <3>2. Cardinality(W) \in T => c <= Cardinality(W)
      BY <1>3
    <3>3. ~(Cardinality(W) \in T)
      BY <2>2, <3>1, <3>2
    <3> QED
      BY <2>2, <3>3
  <2>4. F \subseteq W
    BY DEF Foremost
  <2>5. /\ IsFiniteSet(F) /\ Cardinality(F) \in Nat /\ Cardinality(F) <= Cardinality(W)
        /\ Cardinality(F) = Cardinality(W) => F = W
    BY <2>2, <2>4, FS_Subset, FS_CardinalityType
  <2>6. \A d \in W : {e \in U : e < d} = {e \in W : e < d}
    <3>1. \A d \in W : d \in Nat /\ a \in Nat /\ ~(a < d)
      BY <1>5, <2>1
    <3> QED
      BY <3>1
  <2>7. {e \in U : e < a} = W
    <3>1. \A e \in U : e \in Nat /\ a \in Nat /\ e <= a
      BY <1>5, <2>1
    <3>2. \A e \in U : e < a <=> e # a
      BY <3>1
    <3> QED
      BY <3>2
  <2>8. Foremost(U, n) = F \cup (IF c - 1 < n THEN {a} ELSE {})
    <3>1. \A d \in W : d \in Foremost(U, n) <=> d \in F
      BY <2>6 DEF Foremost
    <3>2. a \in Foremost(U, n) <=> c - 1 < n
      BY <2>1, <2>2, <2>7 DEF Foremost
    <3>3. Foremost(U, n) \subseteq W \cup {a}
      BY DEF Foremost
    <3> QED
      BY <2>2, <2>4, <3>1, <3>2, <3>3
  <2> HIDE DEF F
  <2>9. CASE c - 1 < n
    <3>1. F = W
      <4>1. Cardinality(F) # n
        BY <1>5, <2>2, <2>5, <2>9
      <4> QED
        BY <2>3, <4>1 DEF F
    <3>2. Foremost(U, n) = U
      BY <2>1, <2>8, <2>9, <3>1
    <3>3. Cardinality(Foremost(U, n)) <= n
      BY <1>4, <1>5, <2>9, <3>2
    <3> QED
      BY <1>4, <3>2, <3>3
  <2>10. CASE ~(c - 1 < n)
    <3>1. Foremost(U, n) = F
      BY <2>8, <2>10
    <3>2. Cardinality(F) = n
      <4>1. CASE F = W
        <5>1. Cardinality(F) <= n
          BY <2>3 DEF F
        <5> QED
          BY <1>5, <2>2, <2>10, <4>1, <5>1
      <4> QED
        BY <2>3, <4>1 DEF F
    <3> QED
      BY <1>4, <3>1, <3>2
  <2> QED
    BY <2>9, <2>10
<1> QED
  BY <1>6, <1>7
================================================================================
