---------------------------- MODULE ArrayProofs ----------------------------
(***************************************************************************)
(* What Filtered returns.  The least-number principle is taken from the    *)
(* well-foundedness of < on Nat: its set form needs no operator parameter. *)
(***************************************************************************)
EXTENDS Arrays, FiniteSetTheorems, SequenceTheorems, WellFoundedInduction, TLAPS

\* Every non-empty set of natural numbers has a least element.
LEMMA LeastNat ==
    ASSUME NEW T \in SUBSET Nat, T # {}
    PROVE  \E m \in T : \A k \in T : m <= k
<1> DEFINE R == OpToRel(<, Nat)
<1>1. IsWellFoundedOn(R, Nat)
  BY NatLessThanWellFounded
<1>2. \A x, y \in Nat : y < x => <<y, x>> \in R
  BY DEF OpToRel
<1> HIDE DEF R
<1>3. PICK x \in T : \A y \in T : ~ (<<y, x>> \in R)
  BY <1>1, WFMin
<1>4. ASSUME NEW y \in T PROVE x <= y
  <2>1. x \in Nat /\ y \in Nat /\ ~(y < x)
    BY <1>2, <1>3
  <2> QED
    BY <2>1
<1> QED
  BY <1>4

\* A non-empty set of positions has a last one.
LEMMA GreatestNat ==
    ASSUME NEW n \in Nat, NEW T \in SUBSET (1..n), T # {}
    PROVE  \E m \in T : \A k \in T : k <= m
<1> DEFINE U == {b \in Nat : \A k \in T : k <= b}
<1>1. n \in U /\ U \in SUBSET Nat
  OBVIOUS
<1>2. PICK b \in U : \A k \in U : b <= k
  BY <1>1, LeastNat
<1>3. b \in T
  <2>1. SUFFICES ASSUME b \notin T PROVE FALSE
    OBVIOUS
  <2>2. PICK x \in T : TRUE
    OBVIOUS
  <2>3. b - 1 \in Nat /\ \A k \in T : k <= b - 1
    BY <2>1, <2>2
  <2> QED
    BY <1>2, <2>3
<1> QED
  BY <1>2, <1>3

\* The j-th of a set of positions exists.
LEMMA NthExists ==
    ASSUME NEW n \in Nat, NEW keep \in SUBSET (1..n), NEW j \in 1..Cardinality(keep)
    PROVE  \E i \in keep : Cardinality({m \in keep : m <= i}) = j
<1> DEFINE upto(i) == {m \in keep : m <= i}
           T == {i \in keep : Cardinality(upto(i)) >= j}
<1>1. IsFiniteSet(keep) /\ Cardinality(keep) \in Nat /\ j \in Nat /\ j >= 1
  <2>1. IsFiniteSet(1..n)
    BY FS_Interval
  <2>2. IsFiniteSet(keep)
    BY <2>1, FS_Subset
  <2>3. Cardinality(keep) \in Nat
    BY <2>2, FS_CardinalityType
  <2> QED
    BY <2>2, <2>3
<1>2. \A i \in Nat : IsFiniteSet(upto(i)) /\ Cardinality(upto(i)) \in Nat
  BY <1>1, FS_Subset, FS_CardinalityType
<1>3. keep # {}
  BY <1>1, FS_EmptySet
<1>4. PICK last \in keep : \A k \in keep : k <= last
  BY <1>3, GreatestNat
<1>5. upto(last) = keep
  BY <1>4
<1>6. last \in T /\ T \in SUBSET Nat
  <2>1. Cardinality(upto(last)) >= j
    BY <1>1, <1>5
  <2>2. T \in SUBSET Nat
    <3>1. keep \subseteq Nat
      OBVIOUS
    <3> QED
      BY <3>1, Zenon
  <2> QED
    BY <2>1, <2>2, Zenon
<1>7. PICK i \in T : \A k \in T : i <= k
  BY <1>6, LeastNat
<1> DEFINE below == upto(i) \ {i}
<1>8. i \in keep /\ i \in Nat /\ Cardinality(upto(i)) >= j /\ i \in upto(i)
  BY <1>7
<1>9. Cardinality(below) = Cardinality(upto(i)) - 1
  BY <1>2, <1>8, FS_RemoveElement
<1>10. Cardinality(below) < j
  <2>1. SUFFICES ASSUME Cardinality(below) >= j PROVE FALSE
    BY <1>2, <1>8, <1>9, <1>1
  <2>2. below # {}
    BY <2>1, <1>1, FS_EmptySet
  <2>3. below \in SUBSET (1..n)
    OBVIOUS
  <2>4. PICK x \in below : \A k \in below : k <= x
    BY <2>2, <2>3, GreatestNat
  <2>5. upto(x) = below /\ x < i
    <3>1. x \in keep /\ x \in Nat /\ x < i
      BY <1>8, <2>3, <2>4
    <3>2. \A m \in keep : m \in Nat /\ (m <= x <=> m <= i /\ m # i)
      BY <1>8, <2>4, <3>1
    <3> QED
      BY <3>1, <3>2
  <2>6. x \in T
    BY <2>1, <2>4, <2>5
  <2> QED
    BY <2>4, <2>5, <2>6, <1>7
<1>11. Cardinality(upto(i)) = j
  <2>1. Cardinality(upto(i)) \in Nat
    BY <1>2, <1>8
  <2> HIDE DEF upto
  <2> QED
    BY <2>1, <1>1, <1>8, <1>9, <1>10
<1> QED
  BY <1>8, <1>11

\* Filtering a sequence over S gives a sequence over S.
LEMMA FilteredType ==
    ASSUME NEW S, NEW q \in Seq(S), NEW keep \in SUBSET (1..Len(q))
    PROVE  Filtered(q, keep) \in Seq(S)
<1> DEFINE nth(j) == CHOOSE i \in keep : Cardinality({m \in keep : m <= i}) = j
<1>1. Len(q) \in Nat /\ \A i \in 1..Len(q) : q[i] \in S
  BY LenProperties, ElementOfSeq
<1>2. Cardinality(keep) \in Nat
  <2>1. IsFiniteSet(1..Len(q))
    BY <1>1, FS_Interval
  <2>2. IsFiniteSet(keep)
    BY <2>1, FS_Subset
  <2> QED
    BY <2>2, FS_CardinalityType
<1>3. ASSUME NEW j \in 1..Cardinality(keep) PROVE nth(j) \in keep
  BY <1>1, NthExists
<1>4. Filtered(q, keep) \in [1..Cardinality(keep) -> S]
  BY <1>1, <1>3 DEF Filtered
<1> QED
  BY <1>2, <1>4, IsASeq
=============================================================================
