---------------------------- MODULE Ranks_proofs ----------------------------
(* The facts about Rank and NthOf that the proofs of the scanning loops    *)
(* rest on: one RankStep per entry read replaces an induction over the     *)
(* sequence.                                                               *)
EXTENDS Ranks, FiniteSetTheorems, TLAPS

\* A set of indices into a sequence of length n is finite.
LEMMA IndexSetFinite ==
    ASSUME NEW n \in Nat, NEW T \in SUBSET (1..n)
    PROVE  IsFiniteSet(T) /\ Cardinality(T) \in Nat
<1>1. T \in SUBSET Nat /\ \A k \in T : k <= n
  OBVIOUS
<1>2. IsFiniteSet(T)
  BY <1>1, FS_BoundedSetOfNaturals
<1> QED
  BY <1>2, FS_CardinalityType

\* A rank is between 0 and the size of the set.
LEMMA RankFinite ==
    ASSUME NEW n \in Nat, NEW S \in SUBSET (1..n), NEW p \in Int
    PROVE  /\ IsFiniteSet(S)
           /\ Cardinality(S) \in Nat
           /\ Rank(S, p) \in 0..Cardinality(S)
<1> DEFINE A == {k \in S : k <= p}
<1>1. IsFiniteSet(S) /\ Cardinality(S) \in Nat
  BY IndexSetFinite
<1>2. A \in SUBSET S
  BY Zenon DEF A
<1>3. Cardinality(A) \in Nat /\ Cardinality(A) <= Cardinality(S)
  BY <1>1, <1>2, FS_Subset, FS_CardinalityType
<1> QED
  BY <1>1, <1>3 DEF Rank, A

\* Nothing is selected before the first index.
LEMMA RankBelow ==
    ASSUME NEW n \in Nat, NEW S \in SUBSET (1..n), NEW p \in Int, p < 1
    PROVE  Rank(S, p) = 0
<1>1. \A k \in S : ~(k <= p)
  OBVIOUS
<1>2. {k \in S : k <= p} = {}
  BY <1>1, Zenon
<1> QED
  BY <1>2, FS_EmptySet DEF Rank

\* Everything is selected at or before the last index.
LEMMA RankAbove ==
    ASSUME NEW n \in Nat, NEW S \in SUBSET (1..n), NEW p \in Int, p >= n
    PROVE  Rank(S, p) = Cardinality(S)
<1>1. \A k \in S : k <= p
  OBVIOUS
<1>2. {k \in S : k <= p} = S
  BY <1>1, Zenon
<1> QED
  BY <1>2 DEF Rank

\* Reading index p adds one to the rank exactly when p is selected.
LEMMA RankStep ==
    ASSUME NEW n \in Nat, NEW S \in SUBSET (1..n), NEW p \in 1..n
    PROVE  Rank(S, p) = IF p \in S THEN Rank(S, p - 1) + 1 ELSE Rank(S, p - 1)
<1> DEFINE A == {k \in S : k <= p - 1}
<1>1. A \in SUBSET (1..n)
  BY Zenon DEF A
<1>2. IsFiniteSet(A)
  BY <1>1, IndexSetFinite
<1>3. CASE p \in S
  <2>0. \A k \in S : k <= p <=> (k <= p - 1 \/ k = p)
    OBVIOUS
  <2>1. {k \in S : k <= p} = A \cup {p}
    BY <1>3, <2>0, Zenon DEF A
  <2>2. p \notin A
    BY DEF A
  <2>3. Cardinality(A \cup {p}) = Cardinality(A) + 1
    BY <1>2, <2>2, FS_AddElement
  <2> QED
    BY <1>3, <2>1, <2>3 DEF Rank
<1>4. CASE p \notin S
  <2>0. \A k \in S : k <= p <=> k <= p - 1
    BY <1>4
  <2>1. {k \in S : k <= p} = A
    BY <2>0, Zenon DEF A
  <2> QED
    BY <1>4, <2>1 DEF Rank
<1> QED
  BY <1>3, <1>4

\* The rank grows strictly from any index to a later selected one.
LEMMA RankStrict ==
    ASSUME NEW n \in Nat, NEW S \in SUBSET (1..n), NEW i \in Int, NEW j \in S,
           i < j
    PROVE  Rank(S, i) < Rank(S, j)
<1> DEFINE A == {x \in S : x <= i}
           B == {x \in S : x <= j}
<1>1. /\ \A x \in S : x <= i => x <= j
      /\ j <= j
      /\ ~(j <= i)
  OBVIOUS
<1>2. A \in SUBSET B /\ j \in B /\ j \notin A
  BY <1>1, Zenon DEF A, B
<1>3. B \in SUBSET (1..n)
  BY Zenon DEF B
<1>4. IsFiniteSet(B)
  BY <1>3, IndexSetFinite
<1>5. Cardinality(A) \in Nat /\ Cardinality(B) \in Nat
  BY <1>2, <1>4, FS_Subset, FS_CardinalityType
<1>6. Cardinality(A) <= Cardinality(B) /\ (Cardinality(A) = Cardinality(B) => A = B)
  BY <1>2, <1>4, FS_Subset
<1>7. A # B
  BY <1>2
<1> QED
  BY <1>5, <1>6, <1>7 DEF Rank, A, B

\* The element of rank j is the selected index whose rank is j.
LEMMA NthOfIs ==
    ASSUME NEW n \in Nat, NEW S \in SUBSET (1..n), NEW k \in S, NEW j,
           Rank(S, k) = j
    PROVE  NthOf(S, j) = k
<1>1. \E c \in S : Rank(S, c) = j
  OBVIOUS
<1>2. NthOf(S, j) \in S /\ Rank(S, NthOf(S, j)) = j
  BY <1>1, Zenon DEF NthOf
<1>3. \A c \in S : Rank(S, c) = j => c = k
  <2> SUFFICES ASSUME NEW c \in S, Rank(S, c) = j
               PROVE  c = k
    OBVIOUS
  <2>1. c \in Int /\ k \in Int
    OBVIOUS
  <2>2. /\ c < k => Rank(S, c) < Rank(S, k)
        /\ k < c => Rank(S, k) < Rank(S, c)
    BY <2>1, RankStrict, Zenon
  <2>3. /\ Cardinality(S) \in Nat
        /\ Rank(S, c) \in 0..Cardinality(S)
        /\ Rank(S, k) \in 0..Cardinality(S)
    BY <2>1, RankFinite, Zenon
  <2> QED
    BY <2>1, <2>2, <2>3
<1> QED
  BY <1>2, <1>3, Zenon

\* A selected index has a rank between 1 and the size of the set.
LEMMA RankOfMember ==
    ASSUME NEW n \in Nat, NEW S \in SUBSET (1..n), NEW k \in S
    PROVE  Rank(S, k) \in 1..Cardinality(S)
<1>1. k - 1 \in Int /\ k - 1 < k /\ k \in Int
  OBVIOUS
<1>2. Rank(S, k - 1) < Rank(S, k)
  BY <1>1, RankStrict, Zenon
<1>3. Rank(S, k - 1) \in 0..Cardinality(S) /\ Rank(S, k) \in 0..Cardinality(S)
  BY <1>1, RankFinite, Zenon
<1> QED
  BY <1>2, <1>3, RankFinite

=============================================================================
