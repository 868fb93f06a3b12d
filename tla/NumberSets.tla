------------------------------ MODULE NumberSets ------------------------------
(***************************************************************************)
(* The least and the greatest number of a set: what ORDER BY ... LIMIT 1   *)
(* picks by.                                                               *)
(***************************************************************************)
EXTENDS Naturals, FiniteSetTheorems, TLAPS

(* A nonempty set of numbers has a least one.  (The sets of the numbers    *)
(* below one of them are subsets of an interval, among which inclusion is  *)
(* well-founded.)                                                          *)
LEMMA Least ==
    ASSUME NEW S, S \subseteq Nat, S # {}
    PROVE  \E x \in S : \A y \in S : x <= y
<1>1. PICK n \in S : TRUE
  OBVIOUS
<1> DEFINE Below(x) == {y \in S : y < x}
           Family == {U \in SUBSET (0..n) : \E x \in S : U = Below(x)}
           R == StrictSubsetOrdering(0..n)
<1>2. IsWellFoundedOn(R, SUBSET (0..n))
  <2>1. 0 \in Int /\ n \in Int
    BY <1>1
  <2>2. IsFiniteSet(0..n)
    BY <2>1, FS_Interval
  <2>3. FiniteSubsetsOf(0..n) = SUBSET (0..n)
    BY <2>2, FS_FiniteSubsetsOfFinite
  <2>4. IsWellFoundedOn(StrictSubsetOrdering(0..n), FiniteSubsetsOf(0..n))
    BY FS_StrictSubsetOrderingWellFounded
  <2> QED
    BY <2>3, <2>4
<1>3. \A x \in S : x <= n => Below(x) \in Family
  <2> SUFFICES ASSUME NEW x \in S, x <= n PROVE Below(x) \in SUBSET (0..n)
    OBVIOUS
  <2>1. \A y \in Below(x) : y \in 0..n
    BY <1>1
  <2> QED
    BY <2>1
<1>4. Family \subseteq SUBSET (0..n) /\ Family # {}
  <2>1. n \in Nat /\ n <= n
    BY <1>1
  <2>2. Below(n) \in Family
    BY <1>3, <2>1
  <2> QED
    BY <2>2
<1>5. PICK m \in Family : \A l \in Family : ~ (<<l, m>> \in R)
  <2> HIDE DEF Family, R
  <2> QED
    BY <1>2, <1>4, WFMin
<1>6. PICK x \in S : m = Below(x)
  OBVIOUS
<1>7. ASSUME NEW y \in S, y < x PROVE FALSE
  <2>1. y \in m /\ y \notin Below(y)
    BY <1>6, <1>7
  <2>2. y <= n
    BY <1>1, <2>1
  <2>3. Below(y) \in Family
    BY <1>3, <2>2
  <2>4. \A z \in Below(y) : z \in m
    <3> SUFFICES ASSUME NEW z \in S, z < y PROVE z < x
      BY <1>6
    <3> QED
      BY <1>7
  <2>5. Below(y) # m
    BY <2>1
  <2>6. <<Below(y), m>> \in R
    <3> HIDE DEF Below
    <3> QED
      BY <2>3, <2>4, <2>5 DEF StrictSubsetOrdering
  <2> QED
    BY <1>5, <2>3, <2>6
<1> QED
  BY <1>7

(* A nonempty bounded set of numbers has a greatest one. *)
LEMMA Greatest ==
    ASSUME NEW S, S \subseteq Nat, S # {}, NEW n \in Nat, \A y \in S : y <= n
    PROVE  \E x \in S : \A y \in S : y <= x
<1> DEFINE T == {k \in Nat : \E y \in S : k = n - y}
<1>1. T \subseteq Nat
  OBVIOUS
<1>2. T # {}
  <2>1. PICK y \in S : TRUE
    OBVIOUS
  <2>2. n - y \in Nat
    BY <2>1
  <2> QED
    BY <2>2
<1>3. PICK x \in T : \A y \in T : x <= y
  <2> HIDE DEF T
  <2> QED
    BY <1>1, <1>2, Least
<1>4. PICK z \in S : x = n - z
  OBVIOUS
<1>5. ASSUME NEW y \in S PROVE y <= z
  <2>1. n - y \in T
    OBVIOUS
  <2>2. x <= n - y
    BY <1>3, <2>1
  <2>3. y \in Nat /\ z \in Nat
    OBVIOUS
  <2> HIDE DEF T
  <2> QED
    BY <1>4, <2>2, <2>3
<1> QED
  BY <1>5

(* So does a nonempty finite one: among the sets of the numbers above one  *)
(* of them there is a minimal one.                                         *)
LEMMA GreatestOfFinite ==
    ASSUME NEW S, S \subseteq Nat, S # {}, IsFiniteSet(S)
    PROVE  \E x \in S : \A y \in S : y <= x
<1> DEFINE Above(x) == {y \in S : x < y}
           Family == {U \in SUBSET S : \E x \in S : U = Above(x)}
           R == StrictSubsetOrdering(S)
<1>2. IsWellFoundedOn(R, SUBSET S)
  <2>1. FiniteSubsetsOf(S) = SUBSET S
    BY FS_FiniteSubsetsOfFinite
  <2>2. IsWellFoundedOn(StrictSubsetOrdering(S), FiniteSubsetsOf(S))
    BY FS_StrictSubsetOrderingWellFounded
  <2> QED
    BY <2>1, <2>2
<1>3. \A x \in S : Above(x) \in Family
  OBVIOUS
<1>4. Family \subseteq SUBSET S /\ Family # {}
  OBVIOUS
<1>5. PICK m \in Family : \A l \in Family : ~ (<<l, m>> \in R)
  <2> HIDE DEF Family, R
  <2> QED
    BY <1>2, <1>4, WFMin
<1>6. PICK x \in S : m = Above(x)
  OBVIOUS
<1>7. ASSUME NEW y \in S, x < y PROVE FALSE
  <2>1. y \in m /\ y \notin Above(y)
    BY <1>6, <1>7
  <2>2. Above(y) \in Family
    BY <1>3
  <2>3. \A z \in Above(y) : z \in m
    <3> SUFFICES ASSUME NEW z \in S, y < z PROVE x < z
      BY <1>6
    <3> QED
      BY <1>7
  <2>4. Above(y) # m
    BY <2>1
  <2>5. <<Above(y), m>> \in R
    <3> HIDE DEF Above
    <3> QED
      BY <2>2, <2>3, <2>4 DEF StrictSubsetOrdering
  <2> QED
    BY <1>5, <2>2, <2>5
<1> QED
  BY <1>7
==============================================================================
