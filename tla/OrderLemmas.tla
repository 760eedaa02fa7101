---------------------------- MODULE OrderLemmas ----------------------------
(***************************************************************************)
(* Facts about least elements that several proofs rest on.                 *)
(***************************************************************************)
EXTENDS Integers, FiniteSetTheorems, WellFoundedInduction, TLAPS

\* A non-empty set whose elements have natural ranks has one of least rank.
LEMMA LeastRank ==
  ASSUME NEW S, S # {}, NEW r, \A s \in S : r[s] \in Nat
  PROVE  \E s \in S : \A u \in S : r[s] <= r[u]
  <1> DEFINE Less == {p \in Nat \X Nat : p[1] < p[2]}
             Ranks == {r[s] : s \in S}
  <1>1. IsWellFoundedOn(Less, Nat)
    BY NatLessThanWellFounded DEF OpToRel
  <1>2. Ranks # {} /\ Ranks \subseteq Nat
    OBVIOUS
  <1> HIDE DEF Less
  <1>3. PICK x \in Ranks : \A y \in Ranks : <<y, x>> \notin Less
    BY <1>1, <1>2, WFMin
  <1>4. \A y \in Ranks : ~(y < x)
    BY <1>2, <1>3 DEF Less
  <1>5. QED
    BY <1>2, <1>4

\* A non-empty set of natural numbers has a least element.
LEMMA LeastNumber ==
  ASSUME NEW S \in SUBSET Nat, S # {}
  PROVE  \E s \in S : \A u \in S : s <= u
  <1> DEFINE r == [s \in S |-> s]
  <1>1. \A s \in S : r[s] = s /\ r[s] \in Nat
    OBVIOUS
  <1> HIDE DEF r
  <1>2. \E s \in S : \A u \in S : r[s] <= r[u]
    BY <1>1, LeastRank
  <1>3. QED
    BY <1>1, <1>2

\* The sets of an initial segment of the naturals are finite.
LEMMA SegmentSetsFinite ==
  ASSUME NEW n \in Nat, NEW S \in SUBSET (1..n)
  PROVE  IsFiniteSet(S) /\ Cardinality(S) \in 0..n
  <1>1. IsFiniteSet(1..n) /\ Cardinality(1..n) = n
    BY FS_Interval
  <1>2. IsFiniteSet(S) /\ Cardinality(S) <= n
    BY <1>1, FS_Subset
  <1>3. QED
    BY <1>2, FS_CardinalityType
=============================================================================
