------------------------------ MODULE Induction ------------------------------
(***************************************************************************)
(* What the proofs about sequences need: induction over the naturals as a  *)
(* statement about sets, and how the positions of a sequence are counted.  *)
(***************************************************************************)
EXTENDS Integers, FiniteSets, FiniteSetTheorems, WellFoundedInduction, TLAPS

(* A nonempty set of naturals has a least element. *)
LEMMA Least ==
    ASSUME NEW T \in SUBSET Nat, T # {}
    PROVE  \E x \in T : \A y \in T : x <= y
<1> DEFINE R == OpToRel(<, Nat)
<1>1. IsWellFoundedOn(R, Nat)
  BY NatLessThanWellFounded
<1>2. PICK x \in T : \A y \in T : <<y, x>> \notin R
  <2> HIDE DEF R
  <2>1. QED
    BY <1>1, WFMin, Zenon
<1>3. \A y \in T : ~(y < x)
  BY <1>2 DEF OpToRel
<1>4. QED
  BY <1>3

(* A set of naturals with 0 that is closed under successor holds them all. *)
LEMMA Induct ==
    ASSUME NEW T \in SUBSET Nat, 0 \in T, \A n \in T : n + 1 \in T
    PROVE  T = Nat
<1> SUFFICES ASSUME Nat \ T # {} PROVE FALSE
  OBVIOUS
<1>1. PICK x \in Nat \ T : \A y \in Nat \ T : x <= y
  BY Least
<1>2. x # 0 /\ x - 1 \in T
  BY <1>1
<1>3. QED
  BY <1>1, <1>2

(* Every number up to the size of a set of positions is the rank of exactly *)
(* one of them, and ranks grow with positions.                              *)
LEMMA Ranks ==
    ASSUME NEW n \in Nat, NEW K, \A j \in K : j \in 1..n
    PROVE  /\ IsFiniteSet(K) /\ Cardinality(K) \in Nat
           /\ \A i \in 1..Cardinality(K) : \E k \in K : Cardinality({j \in K : j <= k}) = i
           /\ \A k \in K : Cardinality({j \in K : j <= k}) \in 1..Cardinality(K)
           /\ \A k, l \in K : k < l => Cardinality({j \in K : j <= k}) < Cardinality({j \in K : j <= l})
<1> DEFINE Upto(m) == {j \in K : j <= m}
           r(m) == Cardinality(Upto(m))
<1>0. \A j \in K : j \in Nat /\ 1 <= j /\ j <= n
  OBVIOUS
<1>1. IsFiniteSet(K)
  <2>1. IsFiniteSet(1..n)
    BY FS_Interval
  <2>2. QED
    BY <2>1, FS_Subset
<1>2. \A m \in Nat : Upto(m) \in SUBSET K /\ IsFiniteSet(Upto(m)) /\ r(m) \in Nat /\ r(m) <= Cardinality(K)
  BY <1>1, FS_Subset, FS_CardinalityType
<1>3. r(0) = 0
  <2>1. Upto(0) = {}
    BY <1>0
  <2>2. QED
    BY <2>1, FS_EmptySet
<1>4. \A m \in Nat : r(m + 1) = IF m + 1 \in K THEN r(m) + 1 ELSE r(m)
  <2> TAKE m \in Nat
  <2>1. CASE m + 1 \in K
    <3>1. Upto(m + 1) = Upto(m) \cup {m + 1} /\ m + 1 \notin Upto(m)
      BY <1>0, <2>1
    <3>2. QED
      BY <1>2, <2>1, <3>1, FS_AddElement
  <2>2. CASE m + 1 \notin K
    <3>1. Upto(m + 1) = Upto(m)
      BY <1>0, <2>2
    <3>2. QED
      BY <2>2, <3>1
  <2>3. QED
    BY <2>1, <2>2
<1>5. K = Upto(n)
  BY <1>0
<1> HIDE DEF Upto, r
<1>6. \A m \in Nat : \A i \in 1..r(m) : \E k \in K : k <= m /\ r(k) = i
  <2> DEFINE T == {m \in Nat : \A i \in 1..r(m) : \E k \in K : k <= m /\ r(k) = i}
  <2>1. 0 \in T
    BY <1>3
  <2>2. \A m \in T : m + 1 \in T
    <3> SUFFICES ASSUME NEW m \in T, NEW i \in 1..r(m + 1)
                 PROVE  \E k \in K : k <= m + 1 /\ r(k) = i
      OBVIOUS
    <3>1. CASE i \in 1..r(m)
      <4>1. PICK k \in K : k <= m /\ r(k) = i
        BY <3>1
      <4>2. k <= m + 1
        <5>1. m \in Nat /\ k \in Nat
          BY <1>0
        <5>2. QED
          BY <4>1, <5>1
      <4>3. QED
        BY <4>1, <4>2
    <3>2. CASE i \notin 1..r(m)
      <4>1. m + 1 \in K /\ i = r(m) + 1
        <5>1. m \in Nat /\ r(m) \in Nat /\ i \in 1..r(m + 1)
          BY <1>2
        <5>2. r(m + 1) = IF m + 1 \in K THEN r(m) + 1 ELSE r(m)
          BY <1>4, <5>1
        <5>3. QED
          BY <3>2, <5>1, <5>2
      <4>2. m + 1 <= m + 1 /\ r(m + 1) = i
        BY <1>4, <4>1
      <4>3. QED
        BY <4>1, <4>2
    <3>3. QED
      BY <3>1, <3>2
  <2>3. T = Nat
    <3> HIDE DEF T
    <3>1. T \in SUBSET Nat
      BY DEF T
    <3>2. QED
      BY <2>1, <2>2, <3>1, Induct
  <2>4. QED
    BY <2>3
<1>7. \A k \in Nat : \A d \in Nat : r(k) <= r(k + d)
  <2> TAKE k \in Nat
  <2> DEFINE T == {d \in Nat : r(k) <= r(k + d)}
  <2>1. 0 \in T
    BY <1>2
  <2>2. \A d \in T : d + 1 \in T
    <3> SUFFICES ASSUME NEW d \in T PROVE r(k) <= r(k + (d + 1))
      OBVIOUS
    <3>1. d \in Nat /\ k + d \in Nat /\ (k + d) + 1 = k + (d + 1) /\ r(k) <= r(k + d)
      OBVIOUS
    <3>2. r((k + d) + 1) >= r(k + d)
      BY <1>2, <1>4, <3>1, SMTT(60)
    <3>3. r(k) \in Nat /\ r(k + d) \in Nat /\ r(k + (d + 1)) \in Nat
      BY <1>2, <3>1
    <3>4. QED
      BY <3>1, <3>2, <3>3
  <2>3. T = Nat
    <3> HIDE DEF T
    <3>1. T \in SUBSET Nat
      BY DEF T
    <3>2. QED
      BY <2>1, <2>2, <3>1, Induct
  <2>4. QED
    BY <2>3
<1>8. \A k, l \in K : k < l => r(k) < r(l)
  <2> SUFFICES ASSUME NEW k \in K, NEW l \in K, k < l PROVE r(k) < r(l)
    OBVIOUS
  <2>1. k \in Nat /\ l - 1 \in Nat /\ (l - 1) - k \in Nat /\ (l - 1) + 1 = l
    OBVIOUS
  <2>2. r(k) <= r(l - 1)
    BY <1>7, <2>1
  <2>3. r(l) = r(l - 1) + 1
    BY <1>4, <2>1
  <2>4. QED
    BY <1>2, <2>1, <2>2, <2>3
<1>9. \A k \in K : r(k) \in 1..Cardinality(K)
  <2> SUFFICES ASSUME NEW k \in K PROVE r(k) \in 1..Cardinality(K)
    OBVIOUS
  <2>1. k - 1 \in Nat /\ (k - 1) + 1 = k
    OBVIOUS
  <2>2. r(k) = r(k - 1) + 1
    BY <1>4, <2>1
  <2>3. QED
    BY <1>1, <1>2, <2>1, <2>2, FS_CardinalityType, SMTT(60)
<1>10. Cardinality(K) = r(n)
  BY <1>5 DEF r
<1>11. QED
  <2>1. \A i \in 1..Cardinality(K) : \E k \in K : r(k) = i
    BY <1>6, <1>10
  <2>2. Cardinality(K) \in Nat
    BY <1>2, <1>10
  <2>3. QED
    BY <1>1, <1>8, <1>9, <2>1, <2>2 DEF r, Upto
=============================================================================
