--------------------------- MODULE OrderingProofs ---------------------------
(***************************************************************************)
(* What the operators of Ordering promise: Ascending enumerates a finite   *)
(* set of numbers without repetition, Greatest is its largest element, and *)
(* Subsequence is a sequence of elements of its argument.                  *)
(***************************************************************************)
EXTENDS Ordering, FiniteSetTheorems, SequenceTheorems, TLAPS

\* Ranks are smaller than the cardinality and follow the order of the numbers.
LEMMA RankMonotonic ==
    ASSUME NEW K \in SUBSET Int, IsFiniteSet(K)
    PROVE  /\ \A k \in K : Rank(K, k) \in 0 .. Cardinality(K) - 1
           /\ \A j, k \in K : j < k => Rank(K, j) < Rank(K, k)
<1>1. ASSUME NEW k \in K
      PROVE  /\ IsFiniteSet({j \in K : j < k})
             /\ Rank(K, k) \in Nat
             /\ Rank(K, k) < Cardinality(K)
  <2>1. /\ IsFiniteSet({j \in K : j < k})
        /\ Rank(K, k) <= Cardinality(K)
        /\ Cardinality(K) = Rank(K, k) => K = {j \in K : j < k}
    BY FS_Subset DEF Rank
  <2>2. K # {j \in K : j < k}
    OBVIOUS
  <2>3. Rank(K, k) \in Nat /\ Cardinality(K) \in Nat
    BY <2>1, FS_CardinalityType DEF Rank
  <2> QED BY <2>1, <2>2, <2>3
<1>2. ASSUME NEW j \in K, NEW k \in K, j < k
      PROVE  Rank(K, j) < Rank(K, k)
  <2> DEFINE below(m) == {i \in K : i < m}
  <2>1. below(j) \in SUBSET below(k) /\ below(j) # below(k)
    <3>1. \A i \in K : i \in Int
      OBVIOUS
    <3>2. ASSUME NEW i \in K, i < j
          PROVE  i < k
      BY <1>2, <3>1, <3>2
    <3>3. j \in below(k) /\ j \notin below(j)
      BY <1>2, <3>1
    <3> QED BY <3>2, <3>3
  <2>2. IsFiniteSet(below(j)) /\ IsFiniteSet(below(k))
    BY <1>1
  <2> HIDE DEF below
  <2>3. /\ Cardinality(below(j)) <= Cardinality(below(k))
        /\ Cardinality(below(k)) # Cardinality(below(j))
    BY <2>1, <2>2, FS_Subset
  <2>4. Cardinality(below(j)) \in Nat /\ Cardinality(below(k)) \in Nat
    BY <2>2, FS_CardinalityType
  <2>5. Cardinality(below(j)) < Cardinality(below(k))
    BY <2>3, <2>4
  <2> QED BY <2>5 DEF Rank, below
<1>3. Cardinality(K) \in Nat
  BY FS_CardinalityType
<1>4. ASSUME NEW k \in K
      PROVE  Rank(K, k) \in 0 .. Cardinality(K) - 1
  <2>1. Rank(K, k) \in Nat /\ Rank(K, k) < Cardinality(K)
    BY <1>1
  <2>2. \A r \in Nat, c \in Nat : r < c => r \in 0 .. c - 1
    OBVIOUS
  <2> QED BY <2>1, <2>2, <1>3
<1> QED BY <1>2, <1>4

\* Every rank below the cardinality is taken.
LEMMA RankOnto ==
    ASSUME NEW K \in SUBSET Int, IsFiniteSet(K),
           NEW i \in 1 .. Cardinality(K)
    PROVE  \E k \in K : Rank(K, k) = i - 1
<1> DEFINE n == Cardinality(K)
           rank == [k \in K |-> Rank(K, k)]
<1>1. n \in Nat
  BY FS_CardinalityType
<1>2. rank \in [K -> 0 .. n - 1]
  BY RankMonotonic
<1>3. ASSUME NEW j \in K, NEW k \in K, rank[j] = rank[k]
      PROVE  j = k
  BY <1>3, <1>2, RankMonotonic
<1>4. rank \in Injection(K, 0 .. n - 1)
  BY <1>2, <1>3 DEF Injection, IsInjective
<1>5. IsFiniteSet(0 .. n - 1) /\ Cardinality(0 .. n - 1) = n
  <2>1. n - 1 \in Int /\ 0 \in Int
    BY <1>1
  <2>2. /\ IsFiniteSet(0 .. n - 1)
        /\ Cardinality(0 .. n - 1) = IF 0 > n - 1 THEN 0 ELSE (n - 1) - 0 + 1
    BY <2>1, FS_Interval
  <2> QED BY <1>1, <2>2
<1>6. rank \in Surjection(K, 0 .. n - 1)
  BY <1>4, <1>5, FS_Injection
<1>7. i - 1 \in 0 .. n - 1
  BY <1>1
<1> QED BY <1>6, <1>7 DEF Surjection

\* Ascending(K) lists elements of K, all of them, in strictly growing order.
THEOREM AscendingProperties ==
    ASSUME NEW K \in SUBSET Int, IsFiniteSet(K)
    PROVE  /\ Cardinality(K) \in Nat
           /\ Ascending(K) \in [1 .. Cardinality(K) -> K]
           /\ \A k \in K : \E i \in 1 .. Cardinality(K) : Ascending(K)[i] = k
           /\ \A i, j \in 1 .. Cardinality(K) :
                 i < j => Ascending(K)[i] < Ascending(K)[j]
<1> DEFINE n == Cardinality(K)
<1>1. n \in Nat
  BY FS_CardinalityType
<1>2. ASSUME NEW i \in 1 .. n
      PROVE  /\ Ascending(K)[i] \in K
             /\ Rank(K, Ascending(K)[i]) = i - 1
  <2>1. Ascending(K)[i] = CHOOSE k \in K : Rank(K, k) = i - 1
    BY DEF Ascending
  <2> QED BY <2>1, RankOnto
<1>3. Ascending(K) \in [1 .. n -> K]
  BY <1>2 DEF Ascending
<1>4. ASSUME NEW k \in K
      PROVE  \E i \in 1 .. n : Ascending(K)[i] = k
  <2>1. PICK i \in 1 .. n : Rank(K, k) = i - 1
    <3>1. Rank(K, k) \in 0 .. n - 1
      BY RankMonotonic
    <3>2. Rank(K, k) + 1 \in 1 .. n /\ Rank(K, k) = (Rank(K, k) + 1) - 1
      BY <1>1, <3>1
    <3> QED BY <3>2
  <2>2. Ascending(K)[i] \in K /\ Rank(K, Ascending(K)[i]) = Rank(K, k)
    BY <1>2, <2>1
  <2>3. Ascending(K)[i] = k
    <3> DEFINE a == Ascending(K)[i]
    <3>1. a \in K /\ a \in Int /\ k \in Int
      BY <2>2
    <3>2. Rank(K, a) \in 0 .. n - 1 /\ Rank(K, a) = Rank(K, k)
      BY <2>2, RankMonotonic
    <3>3. /\ a < k => Rank(K, a) < Rank(K, k)
          /\ k < a => Rank(K, k) < Rank(K, a)
      BY <3>1, RankMonotonic
    <3> QED BY <3>1, <3>2, <3>3, <1>1
  <2> QED BY <2>3
<1>5. ASSUME NEW i \in 1 .. n, NEW j \in 1 .. n, i < j
      PROVE  Ascending(K)[i] < Ascending(K)[j]
  <2> DEFINE a == Ascending(K)[i]
             b == Ascending(K)[j]
  <2>1. a \in K /\ b \in K /\ Rank(K, a) = i - 1 /\ Rank(K, b) = j - 1
    BY <1>2
  <2> HIDE DEF a, b
  <2>2. a # b /\ ~(b < a)
    BY <2>1, <1>5, RankMonotonic
  <2>3. a < b
    BY <2>1, <2>2
  <2> QED BY <2>3 DEF a, b
<1> QED BY <1>1, <1>3, <1>4, <1>5

\* Greatest(K) is an element of K that no other exceeds.
THEOREM GreatestProperties ==
    ASSUME NEW K \in SUBSET Int, IsFiniteSet(K), K # {}
    PROVE  Greatest(K) \in K /\ \A k \in K : k <= Greatest(K)
<1> DEFINE n == Cardinality(K)
<1>1. n \in Nat /\ n # 0
  BY FS_CardinalityType, FS_EmptySet
<1>2. Greatest(K) = Ascending(K)[n] /\ n \in 1 .. n
  BY <1>1 DEF Greatest
<1>3. Greatest(K) \in K
  BY <1>2, AscendingProperties
<1>4. ASSUME NEW k \in K
      PROVE  k <= Greatest(K)
  <2>1. PICK i \in 1 .. n : Ascending(K)[i] = k
    BY AscendingProperties
  <2>2. CASE i = n
    BY <2>1, <2>2, <1>2
  <2>3. CASE i < n
    <3>1. Ascending(K)[i] < Ascending(K)[n]
      BY <2>3, <1>2, AscendingProperties
    <3>2. k \in Int /\ Greatest(K) \in Int
      BY <1>3
    <3> QED BY <3>1, <3>2, <2>1, <1>2
  <2> QED BY <2>2, <2>3, <1>1
<1> QED BY <1>3, <1>4

\* A non-empty finite set of numbers has a smallest element.
LEMMA LeastExists ==
    ASSUME NEW K \in SUBSET Int, IsFiniteSet(K), K # {}
    PROVE  \E k \in K : \A j \in K : k <= j
<1> DEFINE n == Cardinality(K)
           a == Ascending(K)[1]
<1>1. n \in Nat /\ n # 0
  BY FS_CardinalityType, FS_EmptySet
<1>2. 1 \in 1 .. n
  BY <1>1
<1>3. a \in K
  BY <1>2, AscendingProperties
<1>4. ASSUME NEW j \in K
      PROVE  a <= j
  <2>1. PICK i \in 1 .. n : Ascending(K)[i] = j
    BY AscendingProperties
  <2>2. CASE i = 1
    BY <2>1, <2>2, <1>3
  <2>3. CASE 1 < i
    <3>1. Ascending(K)[1] < Ascending(K)[i]
      BY <2>3, <1>2, AscendingProperties
    <3>2. a \in Int /\ j \in Int
      BY <1>3
    <3> QED BY <3>1, <3>2, <2>1
  <2> QED BY <2>2, <2>3, <1>1
<1> QED BY <1>3, <1>4

\* The least number up to m that is not in a set is 0 or follows one that is.
LEMMA LeastOutside ==
    ASSUME NEW m \in Nat, NEW P, 0 \in P,
           \A n \in 1 .. m : n - 1 \in P => n \in P
    PROVE  \A n \in 0 .. m : n \in P
<1> DEFINE bad == {n \in 0 .. m : n \notin P}
<1>1. bad \in SUBSET Int /\ IsFiniteSet(bad)
  <2>1. IsFiniteSet(0 .. m)
    BY FS_Interval
  <2>2. bad \in SUBSET (0 .. m)
    OBVIOUS
  <2>3. IsFiniteSet(bad)
    BY <2>1, <2>2, FS_Subset
  <2> QED BY <2>2, <2>3
<1>2. SUFFICES ASSUME bad # {} PROVE FALSE
  BY <1>2
<1>3. PICK k \in bad : \A j \in bad : k <= j
  <2> HIDE DEF bad
  <2> QED BY <1>1, <1>2, LeastExists
<1>4. k \in 1 .. m
  BY <1>3
<1>5. k - 1 \in 0 .. m /\ k - 1 \notin bad
  BY <1>3, <1>4
<1>6. k - 1 \in P
  BY <1>5
<1> QED BY <1>3, <1>4, <1>6

\* A subsequence of a sequence over S is a sequence over S.
THEOREM SubsequenceType ==
    ASSUME NEW S, NEW s \in Seq(S), NEW K \in SUBSET DOMAIN s
    PROVE  /\ Subsequence(s, K) \in Seq(S)
           /\ Len(Subsequence(s, K)) = Cardinality(K)
           /\ \A i \in 1 .. Cardinality(K) :
                 Subsequence(s, K)[i] = s[Ascending(K)[i]]
<1>1. DOMAIN s = 1 .. Len(s) /\ Len(s) \in Nat
  OBVIOUS
<1>2. K \in SUBSET Int /\ IsFiniteSet(K)
  <2>1. IsFiniteSet(1 .. Len(s))
    BY <1>1, FS_Interval
  <2>2. K \in SUBSET (1 .. Len(s))
    BY <1>1
  <2>3. K \in SUBSET Int
    BY <2>2
  <2> QED BY <2>1, <2>2, <2>3, FS_Subset
<1>3. /\ Cardinality(K) \in Nat
      /\ \A i \in 1 .. Cardinality(K) : Ascending(K)[i] \in DOMAIN s
  BY <1>2, AscendingProperties
<1>4. \A i \in 1 .. Cardinality(K) : s[Ascending(K)[i]] \in S
  BY <1>3, <1>1
<1> QED BY <1>3, <1>4 DEF Subsequence
=============================================================================
