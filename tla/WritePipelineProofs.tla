------------------------- MODULE WritePipelineProofs -------------------------
(***************************************************************************)
(* Proofs about WritePipeline, for any users, documents, queries, length   *)
(* of the pipeline and number of events: batch ids stay in order across    *)
(* users and restarts, the pipeline holds the oldest unacknowledged        *)
(* batches, answers belong to the first of them, callers hear of their own *)
(* write, the whole implements Outbox, and a confirmed write never appears *)
(* reverted.                                                               *)
(***************************************************************************)
EXTENDS WritePipeline, OrderingProofs

-----------------------------------------------------------------------------
UniqueIds(S) == \A b, c \in S : b.id = c.id => b = c

Occurs(b, q) == \E i \in 1 .. Len(q) : q[i] = b

IdsAscend(q) == \A i, j \in 1 .. Len(q) : i < j => q[i].id < q[j].id

\* q lists the n batches of S with the lowest ids, or all of them, in order.
Lists(q, S, n) ==
    /\ q \in Seq(S)
    /\ Len(q) <= n
    /\ IdsAscend(q)
    /\ \A b \in S : ~Occurs(b, q) =>
         /\ Len(q) = n
         /\ \A i \in 1 .. Len(q) : q[i].id < b.id

\* The minimum of two numbers.
LEMMA MinOfTwo ==
    ASSUME NEW m \in Int, NEW n \in Int
    PROVE  Min({m, n}) = IF m <= n THEN m ELSE n
<1> DEFINE least == IF m <= n THEN m ELSE n
<1>1. least \in {m, n} /\ \A x \in {m, n} : least <= x
  OBVIOUS
<1>2. /\ Min({m, n}) \in {m, n}
      /\ \A x \in {m, n} : Min({m, n}) <= x
  BY <1>1 DEF Min
<1> QED BY <1>1, <1>2

\* The rank of a batch among others with ids of their own is that of its id.
LEMMA BatchRank ==
    ASSUME NEW S \in SUBSET Batch, IsFiniteSet(S), UniqueIds(S)
    PROVE  LET K == {b.id : b \in S}
           IN  /\ K \in SUBSET Int /\ IsFiniteSet(K)
               /\ Cardinality(K) = Cardinality(S) /\ Cardinality(S) \in Nat
               /\ \A b \in S : Cardinality({c \in S : c.id < b.id}) = Rank(K, b.id)
<1> DEFINE Ids(T) == {b.id : b \in T}
           K == Ids(S)
<1>1. ASSUME NEW T \in SUBSET S
      PROVE  IsFiniteSet(Ids(T)) /\ Cardinality(Ids(T)) = Cardinality(T)
  <2> DEFINE f == [b \in T |-> b.id]
  <2>1. IsFiniteSet(T)
    BY FS_Subset
  <2>2. f \in [T -> Ids(T)]
    OBVIOUS
  <2>3. \A b, c \in T : f[b] = f[c] => b = c
    BY DEF UniqueIds
  <2>4. \A i \in Ids(T) : \E b \in T : f[b] = i
    OBVIOUS
  <2> HIDE DEF f, Ids
  <2>5. f \in Bijection(T, Ids(T))
    BY <2>2, <2>3, <2>4 DEF Bijection, Injection, Surjection, IsInjective
  <2> QED BY <2>1, <2>5, FS_Bijection DEF ExistsBijection
<1>2. S \in SUBSET S
  OBVIOUS
<1>3. K \in SUBSET Int
  BY DEF Batch
<1>4. ASSUME NEW b \in S
      PROVE  Cardinality({c \in S : c.id < b.id}) = Rank(K, b.id)
  <2> DEFINE T == {c \in S : c.id < b.id}
  <2>1. Cardinality(Ids(T)) = Cardinality(T)
    BY <1>1
  <2>2. Ids(T) = {j \in K : j < b.id}
    OBVIOUS
  <2> QED BY <2>1, <2>2 DEF Rank
<1>5. Cardinality(S) \in Nat
  BY FS_CardinalityType
<1> QED BY <1>1, <1>2, <1>3, <1>4, <1>5

\* InOrder lists all batches, by id, and is the only list of its kind.
LEMMA InOrderProperties ==
    ASSUME NEW S \in SUBSET Batch, IsFiniteSet(S), UniqueIds(S)
    PROVE  /\ Cardinality(S) \in Nat
           /\ InOrder(S) \in Seq(S) /\ Len(InOrder(S)) = Cardinality(S)
           /\ IdsAscend(InOrder(S))
           /\ \A b \in S : Occurs(b, InOrder(S))
           /\ \A i \in 1 .. Cardinality(S) : \A b \in S :
                Cardinality({c \in S : c.id < b.id}) = i - 1 => InOrder(S)[i] = b
<1> DEFINE K == {b.id : b \in S}
           n == Cardinality(S)
           rank(b) == Cardinality({c \in S : c.id < b.id})
<1>1. /\ K \in SUBSET Int /\ IsFiniteSet(K) /\ Cardinality(K) = n /\ n \in Nat
      /\ \A b \in S : rank(b) = Rank(K, b.id) /\ b.id \in K
  BY BatchRank
<1>2. /\ \A k \in K : Rank(K, k) \in 0 .. n - 1
      /\ \A j, k \in K : j < k => Rank(K, j) < Rank(K, k)
  BY <1>1, RankMonotonic
<1>3. ASSUME NEW b \in S, NEW c \in S
      PROVE  /\ rank(b) \in 0 .. n - 1
             /\ b.id < c.id <=> rank(b) < rank(c)
             /\ rank(b) = rank(c) => b = c
  <2>1. b.id \in Int /\ c.id \in Int /\ (b.id = c.id => b = c)
    BY <1>1 DEF UniqueIds
  <2>2. /\ rank(b) = Rank(K, b.id) /\ rank(c) = Rank(K, c.id)
        /\ b.id \in K /\ c.id \in K
    BY <1>1
  <2>3. /\ rank(b) \in 0 .. n - 1 /\ rank(c) \in 0 .. n - 1
        /\ b.id < c.id => rank(b) < rank(c)
        /\ c.id < b.id => rank(c) < rank(b)
    BY <1>2, <2>2
  <2> HIDE DEF rank
  <2> QED BY <2>1, <2>3, <1>1
<1>4. ASSUME NEW i \in 1 .. n
      PROVE  \E b \in S : rank(b) = i - 1
  <2>1. PICK k \in K : Rank(K, k) = i - 1
    BY <1>1, RankOnto
  <2> QED BY <1>1, <2>1
<1>5. InOrder(S) = [i \in 1 .. n |-> CHOOSE b \in S : rank(b) = i - 1]
  BY DEF InOrder
<1> HIDE DEF n, rank
<1>6. \A i \in 1 .. n : InOrder(S)[i] \in S /\ rank(InOrder(S)[i]) = i - 1
  BY <1>4, <1>5
<1>7. InOrder(S) \in Seq(S) /\ Len(InOrder(S)) = n
  BY <1>1, <1>5, <1>6
<1>8. IdsAscend(InOrder(S))
  BY <1>1, <1>3, <1>6, <1>7 DEF IdsAscend
<1>9. ASSUME NEW i \in 1 .. n, NEW b \in S, rank(b) = i - 1
      PROVE  InOrder(S)[i] = b
  BY <1>3, <1>6, <1>9
<1>10. ASSUME NEW b \in S
       PROVE  Occurs(b, InOrder(S))
  <2>1. rank(b) + 1 \in 1 .. n
    BY <1>1, <1>3
  <2>2. rank(b) = (rank(b) + 1) - 1
    BY <1>3
  <2>3. InOrder(S)[rank(b) + 1] = b
    BY <1>9, <2>1, <2>2
  <2> QED BY <1>7, <2>1, <2>3 DEF Occurs
<1> QED BY <1>1, <1>7, <1>8, <1>9, <1>10 DEF n, rank

\* A list in the order of the ids that passes no batch over enumerates the
\* batches from the lowest id on.
LEMMA ListedByRank ==
    ASSUME NEW S \in SUBSET Batch, IsFiniteSet(S), UniqueIds(S),
           NEW q \in Seq(S), IdsAscend(q),
           \A b \in S : ~Occurs(b, q) => \A i \in 1 .. Len(q) : q[i].id < b.id
    PROVE  /\ Len(q) <= Cardinality(S)
           /\ (\A b \in S : Occurs(b, q)) => Len(q) = Cardinality(S)
           /\ \A i \in 1 .. Len(q) : q[i] = InOrder(S)[i]
<1>1. Len(q) \in Nat /\ \A i \in 1 .. Len(q) : q[i] \in S /\ q[i] \in Batch
  OBVIOUS
<1>2. \A i, j \in 1 .. Len(q) : (q[i].id = q[j].id => i = j) /\ (q[i].id < q[j].id => i < j)
  <2>1. \A i \in 1 .. Len(q) : q[i].id \in Int
    BY <1>1 DEF Batch
  <2> QED BY <1>1, <2>1 DEF IdsAscend
<1>3. ASSUME NEW k \in 0 .. Len(q), NEW T \in SUBSET S,
             \A b \in T : \E i \in 1 .. k : q[i] = b,
             \A i \in 1 .. k : q[i] \in T
      PROVE  IsFiniteSet(T) /\ Cardinality(T) = k
  <2> DEFINE f == [i \in 1 .. k |-> q[i]]
  <2>1. f \in [1 .. k -> T]
    BY <1>3
  <2>2. \A i, j \in 1 .. k : f[i] = f[j] => i = j
    BY <1>1, <1>2
  <2>3. \A b \in T : \E i \in 1 .. k : f[i] = b
    BY <1>3
  <2>4. IsFiniteSet(1 .. k) /\ Cardinality(1 .. k) = k
    BY <1>1, FS_Interval
  <2> HIDE DEF f
  <2>5. f \in Bijection(1 .. k, T)
    BY <2>1, <2>2, <2>3 DEF Bijection, Injection, Surjection, IsInjective
  <2> QED BY <2>4, <2>5, FS_Bijection DEF ExistsBijection
<1>4. ASSUME NEW i \in 1 .. Len(q)
      PROVE  q[i] = InOrder(S)[i] /\ i <= Cardinality(S)
  <2> DEFINE T == {c \in S : c.id < q[i].id}
  <2>1. ASSUME NEW c \in T
        PROVE  \E j \in 1 .. i - 1 : q[j] = c
    <3>1. Occurs(c, q)
      <4>1. c.id \in Int /\ q[i].id \in Int
        BY <1>1 DEF Batch
      <4> QED BY <4>1
    <3>2. PICK j \in 1 .. Len(q) : q[j] = c
      BY <3>1 DEF Occurs
    <3>3. j < i
      BY <1>2, <3>2
    <3> QED BY <1>1, <3>2, <3>3
  <2>2. \A j \in 1 .. i - 1 : q[j] \in T
    BY <1>1 DEF IdsAscend
  <2>3. i - 1 \in 0 .. Len(q) /\ T \in SUBSET S
    BY <1>1
  <2> HIDE DEF T
  <2>4. Cardinality(T) = i - 1
    BY <1>3, <2>1, <2>2, <2>3
  <2>5. q[i] \notin T
    BY <1>1 DEF T, Batch
  <2>6. i - 1 < Cardinality(S)
    <3>1. /\ IsFiniteSet(T) /\ Cardinality(T) <= Cardinality(S)
          /\ Cardinality(S) = Cardinality(T) => S = T
      BY <2>3, FS_Subset
    <3>2. S # T
      BY <1>1, <2>5
    <3> QED BY <1>1, <2>4, <3>1, <3>2, InOrderProperties
  <2>7. i \in 1 .. Cardinality(S)
    BY <1>1, <2>6, InOrderProperties
  <2> QED BY <1>1, <2>4, <2>7, InOrderProperties DEF T
<1>5. Len(q) <= Cardinality(S)
  <2>1. CASE Len(q) = 0
    BY <2>1, InOrderProperties
  <2>2. CASE Len(q) # 0
    BY <1>1, <1>4, <2>2
  <2> QED BY <2>1, <2>2
<1>6. ASSUME \A b \in S : Occurs(b, q)
      PROVE  Len(q) = Cardinality(S)
  <2>1. Len(q) \in 0 .. Len(q) /\ S \in SUBSET S
    BY <1>1
  <2>2. \A b \in S : \E i \in 1 .. Len(q) : q[i] = b
    BY <1>6 DEF Occurs
  <2> QED BY <1>1, <1>3, <2>1, <2>2
<1> QED BY <1>4, <1>5, <1>6

\* What FirstOf takes of them are the lowest n.
LEMMA FirstOfLists ==
    ASSUME NEW S \in SUBSET Batch, IsFiniteSet(S), UniqueIds(S), NEW n \in Nat
    PROVE  Lists(FirstOf(InOrder(S), n), S, n)
<1> DEFINE all == InOrder(S)
           k == IF n <= Len(all) THEN n ELSE Len(all)
           q == FirstOf(all, n)
<1>1. /\ all \in Seq(S) /\ Len(all) \in Nat
      /\ IdsAscend(all)
      /\ \A b \in S : Occurs(b, all)
  BY InOrderProperties
<1>2. q = SubSeq(all, 1, k) /\ k \in 0 .. Len(all) /\ k <= n
  <2>1. Min({n, Len(all)}) = k
    BY <1>1, MinOfTwo
  <2>2. k \in 0 .. Len(all) /\ k <= n
    BY <1>1
  <2>3. q = SubSeq(all, 1, Min({n, Len(all)}))
    BY DEF FirstOf
  <2> HIDE DEF all, k, q
  <2> QED BY <2>1, <2>2, <2>3
<1> HIDE DEF all, k, q
<1>3. /\ q \in Seq(S) /\ Len(q) = k
      /\ \A i \in 1 .. k : q[i] = all[i]
  <2>1. \A i \in 1 .. k : all[i] \in S
    BY <1>1, <1>2
  <2> QED BY <1>1, <1>2, <2>1, SubSeqProperties
<1>4. IdsAscend(q)
  BY <1>1, <1>2, <1>3 DEF IdsAscend
<1>5. ASSUME NEW b \in S, ~Occurs(b, q)
      PROVE  Len(q) = n /\ \A i \in 1 .. Len(q) : q[i].id < b.id
  <2>1. PICK j \in 1 .. Len(all) : all[j] = b
    BY <1>1 DEF Occurs
  <2>2. j > k
    BY <1>2, <1>3, <1>5, <2>1 DEF Occurs
  <2>3. k = n
    BY <1>1, <2>2 DEF k
  <2> QED BY <1>1, <1>2, <1>3, <2>1, <2>2, <2>3 DEF IdsAscend
<1> QED BY <1>2, <1>3, <1>4, <1>5 DEF Lists, q, all

\* There is one list of the lowest n.
LEMMA ListsIsFirstOf ==
    ASSUME NEW S \in SUBSET Batch, IsFiniteSet(S), UniqueIds(S), NEW n \in Nat,
           NEW q, Lists(q, S, n)
    PROVE  q = FirstOf(InOrder(S), n)
<1> DEFINE all == InOrder(S)
           k == IF n <= Len(all) THEN n ELSE Len(all)
<1>1. all \in Seq(S) /\ Len(all) \in Nat /\ Len(all) = Cardinality(S)
  BY InOrderProperties
<1>2. q \in Seq(S) /\ Len(q) \in Nat /\ Len(q) <= n /\ IdsAscend(q)
  BY DEF Lists
<1>3. \A b \in S : ~Occurs(b, q) => Len(q) = n /\ \A i \in 1 .. Len(q) : q[i].id < b.id
  BY DEF Lists
<1>4. /\ Len(q) <= Cardinality(S)
      /\ (\A b \in S : Occurs(b, q)) => Len(q) = Cardinality(S)
      /\ \A i \in 1 .. Len(q) : q[i] = all[i]
  BY <1>2, <1>3, ListedByRank
<1>5. Len(q) = k
  BY <1>1, <1>2, <1>3, <1>4
<1>6. FirstOf(all, n) = SubSeq(all, 1, k) /\ k \in 0 .. Len(all)
  <2>1. Min({n, Len(all)}) = k
    BY <1>1, MinOfTwo
  <2>2. k \in 0 .. Len(all)
    BY <1>1
  <2>3. FirstOf(all, n) = SubSeq(all, 1, Min({n, Len(all)}))
    BY DEF FirstOf
  <2> HIDE DEF all, k
  <2> QED BY <2>1, <2>2, <2>3
<1> HIDE DEF all, k
<1>7. /\ SubSeq(all, 1, k) \in Seq(S) /\ Len(SubSeq(all, 1, k)) = k
      /\ \A i \in 1 .. k : SubSeq(all, 1, k)[i] = all[i]
  <2>1. \A i \in 1 .. k : all[i] \in S
    BY <1>1, <1>6
  <2> QED BY <1>1, <1>6, <2>1, SubSeqProperties
<1>8. q = SubSeq(all, 1, k)
  BY <1>2, <1>4, <1>5, <1>7, SeqEqual
<1> QED BY <1>6, <1>8 DEF all

\* A list in the order of the ids with every batch in it is InOrder.
LEMMA EnumerationIsInOrder ==
    ASSUME NEW S \in SUBSET Batch, IsFiniteSet(S), UniqueIds(S),
           NEW q \in Seq(S), IdsAscend(q), \A b \in S : Occurs(b, q)
    PROVE  q = InOrder(S)
<1>1. /\ InOrder(S) \in Seq(S) /\ Len(InOrder(S)) = Cardinality(S)
  BY InOrderProperties
<1>2. Len(q) = Cardinality(S) /\ \A i \in 1 .. Len(q) : q[i] = InOrder(S)[i]
  BY ListedByRank
<1> QED BY <1>1, <1>2, SeqEqual

\* A sequence is one over any set that holds its elements.
LEMMA SeqOfElements ==
    ASSUME NEW S, NEW T, NEW s \in Seq(S), \A i \in 1 .. Len(s) : s[i] \in T
    PROVE  s \in Seq(T)
<1>1. Len(s) \in Nat /\ s \in [1 .. Len(s) -> S]
  BY LenProperties
<1>2. s \in [1 .. Len(s) -> T]
  BY <1>1
<1> QED BY <1>1, <1>2, SeqDef

\* A function on the first n numbers is a sequence of length n.
LEMMA FunctionIsSeq ==
    ASSUME NEW S, NEW n \in Nat, NEW f \in [1 .. n -> S]
    PROVE  f \in Seq(S) /\ Len(f) = n
<1>1. f \in Seq(S)
  BY SeqDef
<1>2. Len(f) \in Nat /\ DOMAIN f = 1 .. Len(f)
  BY <1>1, LenProperties
<1> QED BY <1>1, <1>2

\* The first batch of a list is the lowest, and the rest lists the others.
LEMMA HeadAndTail ==
    ASSUME NEW S \in SUBSET Batch, NEW n \in Nat, NEW q, Lists(q, S, n), q # << >>
    PROVE  /\ Head(q) \in S /\ Head(q) = q[1]
           /\ \A b \in S \ {Head(q)} : Head(q).id < b.id
           /\ Tail(q) \in Seq(S \ {Head(q)})
           /\ Len(q) \in Nat \ {0} /\ Len(Tail(q)) = Len(q) - 1
           /\ \A i \in 1 .. Len(q) - 1 : Tail(q)[i] = q[i + 1]
           /\ IdsAscend(Tail(q))
           /\ \A b \in S \ {Head(q)} : Occurs(b, q) => Occurs(b, Tail(q))
<1>1. /\ q \in Seq(S) /\ Len(q) \in Nat \ {0}
      /\ \A i \in 1 .. Len(q) : q[i] \in S /\ q[i].id \in Int
      /\ \A i, j \in 1 .. Len(q) : i < j => q[i].id < q[j].id
      /\ \A b \in S : ~Occurs(b, q) => \A i \in 1 .. Len(q) : q[i].id < b.id
  BY DEF Lists, IdsAscend, Batch
<1>2. /\ Head(q) = q[1] /\ Tail(q) \in Seq(S) /\ Len(Tail(q)) = Len(q) - 1
      /\ \A i \in 1 .. Len(q) - 1 : Tail(q)[i] = q[i + 1]
      /\ 1 \in 1 .. Len(q)
  BY <1>1
<1>3. \A i \in 1 .. Len(q) - 1 : i + 1 \in 1 .. Len(q) /\ 1 < i + 1
  BY <1>1
<1>4. ASSUME NEW b \in S \ {Head(q)}
      PROVE  Head(q).id < b.id
  BY <1>1, <1>2, <1>4 DEF Occurs
<1>5. ASSUME NEW i \in 1 .. Len(q) - 1
      PROVE  Tail(q)[i] \in S \ {Head(q)}
  BY <1>1, <1>2, <1>3
<1>6. Tail(q) \in Seq(S \ {Head(q)})
  <2>1. \A i \in 1 .. Len(Tail(q)) : Tail(q)[i] \in S \ {Head(q)}
    BY <1>2, <1>5
  <2> QED BY <1>2, <2>1, SeqOfElements
<1>7. IdsAscend(Tail(q))
  BY <1>1, <1>2, <1>3 DEF IdsAscend
<1>8. ASSUME NEW b \in S \ {Head(q)}, Occurs(b, q)
      PROVE  Occurs(b, Tail(q))
  <2>1. PICK i \in 1 .. Len(q) : q[i] = b
    BY <1>8 DEF Occurs
  <2>2. i - 1 \in 1 .. Len(q) - 1 /\ i = (i - 1) + 1
    BY <1>1, <1>2, <2>1
  <2>3. Tail(q)[i - 1] = b
    BY <1>2, <2>1, <2>2
  <2> QED BY <1>2, <2>2, <2>3 DEF Occurs
<1> QED BY <1>1, <1>2, <1>4, <1>6, <1>7, <1>8

\* The greatest number of a finite set.
LEMMA MaxOfSet ==
    ASSUME NEW K \in SUBSET Int, IsFiniteSet(K), K # {}
    PROVE  Max(K) \in K /\ \A k \in K : k <= Max(K)
<1>1. Greatest(K) \in K /\ \A k \in K : k <= Greatest(K)
  BY GreatestProperties
<1>2. \E m \in K : \A k \in K : m >= k
  BY <1>1
<1> QED BY <1>2 DEF Max

\* The least one.
LEMMA MinOfSet ==
    ASSUME NEW K \in SUBSET Int, IsFiniteSet(K), K # {}
    PROVE  Min(K) \in K /\ \A k \in K : Min(K) <= k
BY LeastExists DEF Min

-----------------------------------------------------------------------------
\* The inductive invariant, in parts.

\* The tables hold batches, finitely many, of writes that were made.
Tables ==
    /\ rows \in [Users -> SUBSET Batch]
    /\ blocks \in [Users -> SUBSET Batch]
    /\ \A u \in Users : /\ IsFiniteSet(rows[u])
                        /\ \A b \in rows[u] : b.write \in WriteNumbers

\* A write has one row.
OneRowPerWrite ==
    \A u, v \in Users : \A b \in rows[u], c \in rows[v] :
      b.write = c.write => u = v /\ b = c

\* As long as acknowledged rows are in the table, the last acknowledged is.
LastAckedStays ==
    \A u \in Users :
      (\E b \in rows[u] : b.id <= lastAcked[u])
        => \E b \in rows[u] : b.id = lastAcked[u]

\* The current user's next id is above the last acknowledged one.
NumberingAhead ==
    /\ lastAcked[user] < nextBatchID
    /\ \A u \in Users : lastAcked[u] >= Unknown

\* Batches are held in the order of their ids, up to the last acknowledged.
HeldInOrder ==
    /\ \A i, j \in DOMAIN held : i < j => held[i].batch.id < held[j].batch.id
    /\ held # << >> => held[Len(held)].batch.id = lastAcked[user]

Unsent == Unacked(rows[user], lastAcked[user])

\* q holds the batches of S up to the id seen, in order, and no other.
Entered(q, seen, S) ==
    /\ q \in Seq(S)
    /\ IdsAscend(q)
    /\ Len(q) <= MaxPendingWrites
    /\ \A i \in 1 .. Len(q) : q[i].id <= seen
    /\ \A b \in S : b.id <= seen => Occurs(b, q)

\* The pipeline, and the last batch that entered it.
PipelineInOrder ==
    /\ Lists(pendingWrites, Unsent, MaxPendingWrites)
    /\ Entered(pendingWrites, lastBatchSeen, Unsent)
    /\ lastBatchSeen < nextBatchID
    /\ pendingWrites # << >> => stream # "initial"

\* Nothing is under way on a stream that is not ready, and only the last
\* answer is a refusal.
StreamInOrder ==
    /\ stream # "ready" => requests = << >> /\ responses = << >>
    /\ \A i \in 1 .. Len(responses) - 1 : responses[i] # Refusal

QueuesInv ==
    /\ Tables
    /\ OneRowPerWrite
    /\ IdsInOrder
    /\ LastAckedStays
    /\ NumberingAhead
    /\ HeldInOrder

PipelineInv ==
    /\ PipelineTypeOK
    /\ QueuesInv
    /\ PipelineInOrder
    /\ StreamInOrder
    /\ AnswersMatchPipeline
    /\ CallersToldTheTruth

-----------------------------------------------------------------------------
Streams == {"initial", "starting", "open", "ready"}

\* What is added to the pipeline q is sent if the stream is ready.
Extended(q, sent, str, longer, more) ==
    \E new \in Seq(Batch) :
      /\ longer = q \o new
      /\ more = IF str = "ready" THEN sent \o new ELSE sent

\* A list of the lowest batches, and the list of those beyond them, make one.
LEMMA ExtendedList ==
    ASSUME NEW S \in SUBSET Batch, NEW T \in SUBSET S, NEW seen \in Int,
           \A b \in S : b \in T <=> b.id > seen,
           NEW p, Entered(p, seen, S),
           NEW k \in Nat, k = MaxPendingWrites - Len(p),
           NEW new, Lists(new, T, k),
           NEW last, last = IF new = << >> THEN seen ELSE new[Len(new)].id
    PROVE  /\ new \in Seq(S)
           /\ Lists(p \o new, S, MaxPendingWrites)
           /\ Entered(p \o new, last, S)
           /\ last \in Int
           /\ last = seen \/ \E b \in S : last = b.id
<1> DEFINE m == MaxPendingWrites
           q == p \o new
<1>0. /\ p \in Seq(S) /\ IdsAscend(p) /\ Len(p) <= m
      /\ \A i \in 1 .. Len(p) : p[i].id <= seen
      /\ \A b \in S : b.id <= seen => Occurs(b, p)
      /\ m \in Nat
  BY PipelineAssumption DEF Entered
<1> HIDE DEF m
<1>1. /\ new \in Seq(T) /\ Len(new) \in Nat /\ Len(new) <= m - Len(p)
      /\ \A i \in 1 .. Len(new) : new[i] \in T
      /\ \A i, j \in 1 .. Len(new) : i < j => new[i].id < new[j].id
  <2>1. new \in Seq(T) /\ Len(new) <= m - Len(p) /\ IdsAscend(new)
    BY <1>0 DEF Lists, m
  <2>2. Len(new) \in Nat /\ \A i \in 1 .. Len(new) : new[i] \in T
    BY <2>1, LenProperties, ElementOfSeq
  <2> QED BY <2>1, <2>2 DEF IdsAscend
<1>2. /\ Len(p) \in Nat /\ \A i \in 1 .. Len(p) : p[i] \in S
      /\ \A i, j \in 1 .. Len(p) : i < j => p[i].id < p[j].id
  BY <1>0 DEF IdsAscend
<1>3. new \in Seq(S)
  BY <1>1
<1>4. /\ q \in Seq(S) /\ Len(q) = Len(p) + Len(new)
      /\ \A i \in 1 .. Len(p) : q[i] = p[i]
      /\ \A i \in 1 .. Len(new) : q[Len(p) + i] = new[i]
  BY <1>0, <1>2, <1>3, ConcatProperties
<1> HIDE DEF q
<1>5. \A b \in S : b.id \in Int
  BY DEF Batch
<1>6. \A i \in 1 .. Len(q) : i \notin 1 .. Len(p) =>
        i - Len(p) \in 1 .. Len(new) /\ q[i] = new[i - Len(p)]
  <2> TAKE i \in 1 .. Len(q)
  <2> HAVE i \notin 1 .. Len(p)
  <2>1. i - Len(p) \in 1 .. Len(new) /\ i = Len(p) + (i - Len(p))
    BY <1>1, <1>2, <1>4
  <2> QED BY <1>4, <2>1
<1>7. \A b \in S : Occurs(b, p) \/ Occurs(b, new) => Occurs(b, q)
  <2>1. ASSUME NEW b \in S, NEW i \in 1 .. Len(new), new[i] = b
        PROVE  Occurs(b, q)
    <3>1. Len(p) + i \in 1 .. Len(q) /\ q[Len(p) + i] = b
      BY <1>1, <1>2, <1>4, <2>1
    <3> QED BY <3>1 DEF Occurs
  <2>2. ASSUME NEW b \in S, NEW i \in 1 .. Len(p), p[i] = b
        PROVE  Occurs(b, q)
    <3>1. i \in 1 .. Len(q) /\ q[i] = b
      BY <1>1, <1>2, <1>4, <2>2
    <3> QED BY <3>1 DEF Occurs
  <2> QED BY <2>1, <2>2 DEF Occurs
<1>8. /\ last \in Int /\ last >= seen
      /\ last = seen \/ \E b \in S : last = b.id
      /\ \A i \in 1 .. Len(new) : new[i].id <= last
      /\ new # << >> => Len(new) \in 1 .. Len(new)
  <2>1. CASE new = << >>
    BY <1>1, <2>1
  <2>2. CASE new # << >>
    <3>1. Len(new) \in 1 .. Len(new)
      BY <1>1, <2>2
    <3>2. /\ new[Len(new)] \in T /\ new[Len(new)].id \in Int
          /\ new[Len(new)].id > seen
      BY <1>1, <1>5, <3>1
    <3>3. \A i \in 1 .. Len(new) : new[i].id <= new[Len(new)].id
      BY <1>1, <1>5, <3>1
    <3>4. last = new[Len(new)].id
      BY <2>2
    <3> QED BY <3>1, <3>2, <3>3, <3>4
  <2> QED BY <2>1, <2>2
<1>9. IdsAscend(q)
  <2> SUFFICES ASSUME NEW i \in 1 .. Len(q), NEW j \in 1 .. Len(q), i < j
               PROVE  q[i].id < q[j].id
    BY DEF IdsAscend
  <2>1. CASE j \in 1 .. Len(p)
    <3>1. i \in 1 .. Len(p)
      BY <1>2, <2>1
    <3> QED BY <1>2, <1>4, <2>1, <3>1
  <2>2. CASE i \in 1 .. Len(p) /\ j \notin 1 .. Len(p)
    <3>1. q[j] \in T
      BY <1>1, <1>6, <2>2
    <3>2. q[i].id <= seen /\ q[i] \in S
      BY <1>0, <1>2, <1>4, <2>2
    <3> QED BY <1>5, <3>1, <3>2
  <2>3. CASE i \notin 1 .. Len(p) /\ j \notin 1 .. Len(p)
    <3>1. i - Len(p) < j - Len(p)
      BY <1>2, <1>4
    <3> QED BY <1>1, <1>6, <2>3, <3>1
  <2> QED BY <2>1, <2>2, <2>3
<1>10. ASSUME NEW b \in S, ~Occurs(b, q)
       PROVE  Len(q) = m /\ b.id > last
  <2>1. b \in T /\ ~Occurs(b, new)
    BY <1>0, <1>5, <1>7, <1>10
  <2>2. /\ Len(new) = m - Len(p)
        /\ \A i \in 1 .. Len(new) : new[i].id < b.id
    BY <1>0, <2>1 DEF Lists, m
  <2>3. Len(q) = m
    BY <1>0, <1>2, <1>4, <2>2
  <2>4. CASE new = << >>
    <3>1. last = seen /\ b.id > seen
      BY <2>1, <2>4
    <3> QED BY <2>3, <3>1
  <2>5. CASE new # << >>
    <3>1. last = new[Len(new)].id /\ Len(new) \in 1 .. Len(new)
      BY <1>8, <2>5
    <3>2. last < b.id
      BY <2>2, <3>1
    <3> QED BY <2>3, <1>5, <1>8, <3>2
  <2> QED BY <2>3, <2>4, <2>5
<1>11. \A i \in 1 .. Len(q) : q[i].id <= last
  <2> TAKE i \in 1 .. Len(q)
  <2>1. CASE i \in 1 .. Len(p)
    BY <1>0, <1>2, <1>4, <1>5, <1>8, <2>1
  <2>2. CASE i \notin 1 .. Len(p)
    BY <1>6, <1>8, <2>2
  <2> QED BY <2>1, <2>2
<1>12. \A b \in S : b.id <= last => Occurs(b, q)
  BY <1>5, <1>8, <1>10
<1>13. Lists(q, S, m)
  <2>1. Len(q) <= m
    BY <1>0, <1>1, <1>2, <1>4
  <2>2. ASSUME NEW b \in S, ~Occurs(b, q)
        PROVE  Len(q) = m /\ \A i \in 1 .. Len(q) : q[i].id < b.id
    <3>1. \A i \in 1 .. Len(q) : q[i] \in S
      BY <1>4
    <3> QED BY <1>5, <1>8, <1>10, <1>11, <2>2, <3>1
  <2> QED BY <1>4, <1>9, <2>1, <2>2 DEF Lists
<1>14. Entered(q, last, S)
  BY <1>11, <1>12, <1>13 DEF Entered, Lists, m
<1> QED BY <1>3, <1>8, <1>13, <1>14 DEF q, m

\* Whatever the pipeline held, filling it leaves it with the lowest batches.
LEMMA FillOutcome ==
    ASSUME NEW table \in SUBSET Batch, IsFiniteSet(table), UniqueIds(table),
           NEW acked \in Int, NEW pend, NEW seen \in Int,
           Entered(pend, seen, Unacked(table, acked)),
           NEW str \in Streams, pend # << >> => str # "initial",
           NEW sent \in Seq(Batch), NEW timer \in {"off", "on"},
           FillWritePipeline(table, acked, pend, seen, str, sent, timer)
    PROVE  /\ Lists(pendingWrites', Unacked(table, acked), MaxPendingWrites)
           /\ Entered(pendingWrites', lastBatchSeen', Unacked(table, acked))
           /\ lastBatchSeen' \in Int
           /\ lastBatchSeen' = seen \/ \E b \in table : lastBatchSeen' = b.id
           /\ pendingWrites' # << >> => stream' # "initial"
           /\ stream' \in Streams /\ (stream' = "ready" <=> str = "ready")
           /\ idleTimer' \in {"off", "on"}
           /\ Extended(pend, sent, str, pendingWrites', requests')
<1> DEFINE S == Unacked(table, acked)
           T == {b \in table : b.id > seen /\ b.id > acked}
           m == MaxPendingWrites - Len(pend)
           new == FirstOf(InOrder(T), m)
<1>1. /\ pend \in Seq(S) /\ Len(pend) <= MaxPendingWrites
      /\ Entered(pend, seen, S)
  BY DEF Entered
<1>2. /\ S \in SUBSET Batch /\ T \in SUBSET S /\ T \in SUBSET Batch
      /\ T \in SUBSET table
      /\ S \in SUBSET table
      /\ \A b \in S : b \in T <=> b.id > seen
  BY DEF Unacked
<1>3. IsFiniteSet(T)
  BY <1>2, FS_Subset
<1>4. UniqueIds(T)
  BY <1>2 DEF UniqueIds
<1>5. m \in Nat /\ MaxPendingWrites \in Nat
  BY <1>1, PipelineAssumption
<1> HIDE DEF S, T, m
<1>6. Lists(new, T, m)
  BY <1>2, <1>3, <1>4, <1>5, FirstOfLists
<1>7. /\ pendingWrites' = pend \o new
      /\ lastBatchSeen' = IF new = << >> THEN seen ELSE new[Len(new)].id
      /\ stream' = IF new # << >> /\ str = "initial" THEN "starting" ELSE str
      /\ requests' = IF str = "ready" THEN sent \o new ELSE sent
      /\ idleTimer' = CASE str \notin {"open", "ready"} -> "off"
                        [] pend \o new = << >> -> "on"
                        [] str = "ready" /\ new # << >> -> "off"
                        [] OTHER -> timer
  BY DEF FillWritePipeline, T, m
<1> HIDE DEF new
<1>8. /\ new \in Seq(S)
      /\ Lists(pend \o new, S, MaxPendingWrites)
      /\ Entered(pend \o new, lastBatchSeen', S)
      /\ lastBatchSeen' \in Int
      /\ lastBatchSeen' = seen \/ \E b \in S : lastBatchSeen' = b.id
  <2>1. m = MaxPendingWrites - Len(pend)
    BY DEF m
  <2> QED BY <1>1, <1>2, <1>5, <1>6, <1>7, <2>1, ExtendedList, SMTT(30)
<1>10. pendingWrites' # << >> => stream' # "initial"
  <2>1. CASE new # << >>
    BY <1>7, <2>1
  <2>2. CASE new = << >>
    <3>1. pend \o new = pend
      BY <1>1, <2>2, ConcatEmptySeq
    <3> QED BY <1>7, <2>2, <3>1
  <2> QED BY <2>1, <2>2
<1>11. stream' \in Streams /\ (stream' = "ready" <=> str = "ready")
  BY <1>7 DEF Streams
<1>12. idleTimer' \in {"off", "on"}
  BY <1>7
<1>13. new \in Seq(Batch)
  BY <1>2, <1>8, SeqMonotonic
<1>14. /\ Lists(pendingWrites', S, MaxPendingWrites)
       /\ Entered(pendingWrites', lastBatchSeen', S)
       /\ lastBatchSeen' = seen \/ \E b \in table : lastBatchSeen' = b.id
  BY <1>2, <1>7, <1>8
<1>15. Extended(pend, sent, str, pendingWrites', requests')
  BY <1>7, <1>13 DEF Extended
<1> QED BY <1>8, <1>10, <1>11, <1>12, <1>14, <1>15 DEF S

-----------------------------------------------------------------------------
\* A part of the invariant is kept by a step that leaves its variables alone.
LEMMA Unaffected ==
    /\ QueuesInv /\ UNCHANGED <<writes, rows, lastAcked, user, nextBatchID,
                                held, blocks, confirmed>> => QueuesInv'
    /\ PipelineInOrder /\ UNCHANGED <<rows, lastAcked, user, nextBatchID,
                                      pendingWrites, lastBatchSeen, stream>>
         => PipelineInOrder'
    /\ StreamInOrder /\ UNCHANGED <<stream, requests, responses>>
         => StreamInOrder'
    /\ AnswersMatchPipeline /\ UNCHANGED <<log, pendingWrites, stream, requests,
                                           responses>>
         => AnswersMatchPipeline'
    /\ CallersToldTheTruth /\ UNCHANGED <<writes, rows, lastAcked, blocks, told,
                                          confirmed, refused>>
         => CallersToldTheTruth'
<1>1. ASSUME QueuesInv, UNCHANGED <<writes, rows, lastAcked, user, nextBatchID,
                                    held, blocks, confirmed>>
      PROVE  QueuesInv'
  <2>1. Tables'
    BY <1>1 DEF QueuesInv, Tables, WriteNumbers
  <2>2. OneRowPerWrite' /\ LastAckedStays' /\ NumberingAhead' /\ HeldInOrder'
    BY <1>1 DEF QueuesInv, OneRowPerWrite, LastAckedStays, NumberingAhead,
       HeldInOrder
  <2>3. IdsInOrder'
    BY <1>1 DEF QueuesInv, IdsInOrder
  <2> QED BY <2>1, <2>2, <2>3 DEF QueuesInv
<1>2. ASSUME PipelineInOrder,
             UNCHANGED <<rows, lastAcked, user, nextBatchID, pendingWrites,
                         lastBatchSeen, stream>>
      PROVE  PipelineInOrder'
  BY <1>2 DEF PipelineInOrder, Unsent
<1>3. ASSUME StreamInOrder, UNCHANGED <<stream, requests, responses>>
      PROVE  StreamInOrder'
  BY <1>3 DEF StreamInOrder
<1>4. ASSUME AnswersMatchPipeline,
             UNCHANGED <<log, pendingWrites, stream, requests, responses>>
      PROVE  AnswersMatchPipeline'
  BY <1>4 DEF AnswersMatchPipeline, Refusing
<1>5. ASSUME CallersToldTheTruth,
             UNCHANGED <<writes, rows, lastAcked, blocks, told, confirmed, refused>>
      PROVE  CallersToldTheTruth'
  BY <1>5 DEF CallersToldTheTruth, WriteNumbers
<1> QED BY <1>1, <1>2, <1>3, <1>4, <1>5

\* The budget stays one.
LEMMA SpendType ==
    ASSUME PipelineTypeOK, NEW e \in Event, Spend(e)
    PROVE  budget' \in [Event -> Nat]
BY DEF PipelineTypeOK, Spend

\* What the stream alone changes is typed, and the invariant kept, if the
\* stream is as it should be afterwards.
LEMMA StreamStep ==
    ASSUME PipelineInv,
           UNCHANGED <<writes, log, disk, user, nextBatchID, held, targets,
                       blocks, pendingWrites, lastBatchSeen, floor, ghosts>>,
           budget' \in [Event -> Nat],
           stream' \in Streams, idleTimer' \in {"off", "on"},
           requests' \in Seq(Batch), responses' \in Seq(0 .. Len(log)),
           pendingWrites # << >> => stream' # "initial",
           StreamInOrder', AnswersMatchPipeline'
    PROVE  PipelineInv'
<1>1. PipelineTypeOK'
  BY DEF PipelineInv, PipelineTypeOK, WriteNumbers, disk, ghosts, Streams
<1>2. QueuesInv' /\ CallersToldTheTruth'
  BY Unaffected DEF PipelineInv, disk, ghosts
<1>3. PipelineInOrder'
  BY DEF PipelineInv, PipelineInOrder, Unsent, disk
<1> QED BY <1>1, <1>2, <1>3 DEF PipelineInv

\* The stream is open, the handshake not yet answered: nothing is under way.
LEMMA StreamOpensStep ==
    ASSUME PipelineInv, StreamOpens
    PROVE  PipelineInv'
<1> USE DEF StreamOpens
<1>1. /\ responses = << >> /\ requests = << >> /\ stream' = "open"
      /\ requests \in Seq(Batch) /\ responses \in Seq(0 .. Len(log))
      /\ idleTimer \in {"off", "on"} /\ budget \in [Event -> Nat]
  BY DEF PipelineInv, PipelineTypeOK, StreamInOrder
<1>2. StreamInOrder'
  BY <1>1 DEF StreamInOrder
<1>3. AnswersMatchPipeline'
  BY <1>1 DEF PipelineInv, PipelineTypeOK, AnswersMatchPipeline, Refusing
<1> QED BY <1>1, <1>2, <1>3, StreamStep DEF Streams

\* After the handshake the whole pipeline is under way (writeStreamDidComplete-
\* Handshake of FSTRemoteStore), and no answer is.
LEMMA CompleteHandshakeStep ==
    ASSUME PipelineInv, CompleteHandshake
    PROVE  PipelineInv'
<1> USE DEF CompleteHandshake
<1>1. /\ responses = << >> /\ stream' = "ready" /\ requests' = pendingWrites
      /\ pendingWrites \in Seq(Batch) /\ responses \in Seq(0 .. Len(log))
      /\ idleTimer' \in {"off", "on"} /\ budget \in [Event -> Nat]
  BY DEF PipelineInv, PipelineTypeOK, StreamInOrder
<1>2. StreamInOrder'
  BY <1>1 DEF StreamInOrder
<1>3. AnswersMatchPipeline'
  <2>1. SubSeq(pendingWrites, 1, Len(pendingWrites)) = pendingWrites
    BY <1>1, SubSeqFull
  <2>2. Len(pendingWrites) \in Nat /\ Len(responses) = 0 /\ ~Refusing'
    BY <1>1 DEF Refusing
  <2> QED BY <1>1, <2>1, <2>2 DEF AnswersMatchPipeline
<1> QED BY <1>1, <1>2, <1>3, StreamStep DEF Streams

\* A stream that breaks or idles out takes its requests and answers with it.
LEMMA CloseStreamStep ==
    ASSUME PipelineInv, BreakStream \/ CloseIdleStream
    PROVE  PipelineInv'
<1> USE DEF CloseStream
<1>1. CloseStream /\ budget' \in [Event -> Nat]
  <2>1. "failure" \in Event /\ "idle" \in Event
    BY DEF Event
  <2> QED BY <2>1, SpendType DEF BreakStream, CloseIdleStream, PipelineInv
<1>2. /\ responses' = << >> /\ requests' = << >>
      /\ stream' \in {"starting", "initial"} /\ idleTimer' = "off"
      /\ pendingWrites # << >> => stream' # "initial"
      /\ pendingWrites \in Seq(Batch)
  BY <1>1 DEF PipelineInv, PipelineTypeOK
<1>3. StreamInOrder'
  BY <1>2 DEF StreamInOrder
<1>4. AnswersMatchPipeline'
  BY <1>1, <1>2 DEF AnswersMatchPipeline, Refusing
<1>5. requests' \in Seq(Batch) /\ responses' \in Seq(0 .. Len(log))
  BY <1>2
<1> QED BY <1>1, <1>2, <1>3, <1>4, <1>5, StreamStep DEF Streams

\* While the server has requests and refused none, the next is that of the
\* first pending write without an answer.
LEMMA NextRequest ==
    ASSUME PipelineInv, requests # << >>, ~Refusing
    PROVE  /\ stream = "ready"
           /\ Len(responses) \in Nat /\ Len(pendingWrites) \in Nat
           /\ Len(responses) < Len(pendingWrites)
           /\ requests = SubSeq(pendingWrites, Len(responses) + 1, Len(pendingWrites))
           /\ Head(requests) = pendingWrites[Len(responses) + 1]
           /\ Tail(requests) = SubSeq(pendingWrites, Len(responses) + 2,
                                      Len(pendingWrites))
           /\ Head(requests) \in Unsent /\ Head(requests).write \in WriteNumbers
<1>1. /\ pendingWrites \in Seq(Batch) /\ responses \in Seq(0 .. Len(log))
      /\ Len(responses) \in Nat /\ Len(pendingWrites) \in Nat
  BY DEF PipelineInv, PipelineTypeOK
<1>2. /\ stream = "ready" /\ Len(responses) <= Len(pendingWrites)
      /\ requests = SubSeq(pendingWrites, Len(responses) + 1, Len(pendingWrites))
  BY DEF PipelineInv, StreamInOrder, AnswersMatchPipeline
<1>3. Len(responses) < Len(pendingWrites)
  <2>1. Len(responses) = Len(pendingWrites) => requests = << >>
    BY <1>1, <1>2, SubSeqEmpty
  <2> QED BY <1>1, <1>2, <2>1
<1>4. /\ Head(requests) = pendingWrites[Len(responses) + 1]
      /\ Tail(requests) = SubSeq(pendingWrites, Len(responses) + 2,
                                 Len(pendingWrites))
  <2> DEFINE m == Len(responses) + 1
             n == Len(pendingWrites)
  <2>1. m \in 1 .. n /\ n \in 1 .. n /\ m <= n /\ m + 1 = Len(responses) + 2
    BY <1>1, <1>3
  <2> HIDE DEF m, n
  <2>2. /\ Head(SubSeq(pendingWrites, m, n)) = pendingWrites[m]
        /\ Tail(SubSeq(pendingWrites, m, n)) = SubSeq(pendingWrites, m + 1, n)
    BY <1>1, <2>1, HeadTailOfSubSeq DEF n
  <2> QED BY <1>2, <2>1, <2>2 DEF m, n
<1>5. Head(requests) \in Unsent
  <2>1. pendingWrites \in Seq(Unsent)
    BY DEF PipelineInv, PipelineInOrder, Lists
  <2>2. Len(responses) + 1 \in 1 .. Len(pendingWrites)
    BY <1>1, <1>3
  <2> QED BY <1>4, <2>1, <2>2, ElementOfSeq
<1>6. Head(requests).write \in WriteNumbers
  BY <1>5 DEF PipelineInv, PipelineTypeOK, QueuesInv, Tables, Unsent, Unacked
<1> QED BY <1>1, <1>2, <1>3, <1>4, <1>5, <1>6

\* What is typed stays typed when more writes are made and applied.
LEMMA GrowingTypes ==
    ASSUME PipelineTypeOK, NEW w \in Nat, Len(writes) <= w,
           NEW l \in Nat, Len(log) <= l
    PROVE  /\ log \in Seq(1 .. w)
           /\ cache \in [Keys -> [write : {0} \cup 1 .. w, version : 0 .. l]]
           /\ remoteVersion \in 0 .. l /\ floor \in 0 .. l
           /\ resume \in [Targets -> 0 .. l]
           /\ held \in Seq([batch : Batch, version : 1 .. l])
           /\ responses \in Seq(0 .. l)
           /\ confirmed \cup refused \cup dropped \subseteq 1 .. w
<1>1. Len(writes) \in Nat /\ Len(log) \in Nat
  BY DEF PipelineTypeOK
<1>2. /\ 1 .. Len(writes) \subseteq 1 .. w
      /\ 0 .. Len(log) \subseteq 0 .. l /\ 1 .. Len(log) \subseteq 1 .. l
  BY <1>1
<1>3. log \in Seq(1 .. w) /\ responses \in Seq(0 .. l)
  BY <1>2, SeqMonotonic DEF PipelineTypeOK, WriteNumbers
<1>4. cache \in [Keys -> [write : {0} \cup 1 .. w, version : 0 .. l]]
  <2>1. \A r \in [write : {0} \cup 1 .. Len(writes), version : 0 .. Len(log)] :
          r \in [write : {0} \cup 1 .. w, version : 0 .. l]
    BY <1>2
  <2> QED BY <2>1 DEF PipelineTypeOK, WriteNumbers
<1>5. held \in Seq([batch : Batch, version : 1 .. l])
  <2> DEFINE Upto(n) == [batch : Batch, version : 1 .. n]
  <2>1. Upto(Len(log)) \subseteq Upto(l)
    BY <1>2
  <2>2. held \in Seq(Upto(Len(log)))
    BY DEF PipelineTypeOK
  <2> SUFFICES held \in Seq(Upto(l))
    OBVIOUS
  <2> HIDE DEF Upto
  <2> QED BY <2>1, <2>2, SeqMonotonic
<1>6. remoteVersion \in 0 .. l /\ floor \in 0 .. l /\ resume \in [Targets -> 0 .. l]
  BY <1>2 DEF PipelineTypeOK
<1>7. confirmed \cup refused \cup dropped \subseteq 1 .. w
  BY <1>2 DEF PipelineTypeOK, WriteNumbers
<1> QED BY <1>3, <1>4, <1>5, <1>6, <1>7

\* The server applies the first request: its answer is that of the next pending
\* write.
LEMMA ServerAppliesStep ==
    ASSUME PipelineInv, ServerApplies
    PROVE  PipelineInv'
<1> USE DEF ServerApplies
<1> DEFINE k == Len(responses)
           l == Len(log) + 1
<1>1. /\ pendingWrites \in Seq(Batch) /\ Len(pendingWrites) \in Nat
      /\ responses \in Seq(0 .. Len(log)) /\ k \in Nat
      /\ requests \in Seq(Batch) /\ requests # << >> /\ ~Refusing
      /\ log \in Seq(WriteNumbers) /\ Len(log) \in Nat
      /\ Len(writes) \in Nat
  BY DEF PipelineInv, PipelineTypeOK
<1>2. /\ stream = "ready" /\ k < Len(pendingWrites)
      /\ Head(requests) = pendingWrites[k + 1]
      /\ requests' = SubSeq(pendingWrites, k + 2, Len(pendingWrites))
      /\ Head(requests).write \in WriteNumbers
  BY <1>1, NextRequest
<1>3. /\ log' \in Seq(WriteNumbers) /\ Len(log') = l
      /\ log'[l] = pendingWrites[k + 1].write
      /\ \A i \in 1 .. Len(log) : log'[i] = log[i]
  BY <1>1, <1>2
<1>4. /\ responses' \in Seq(0 .. l) /\ Len(responses') = k + 1
      /\ responses'[k + 1] = l
      /\ \A i \in 1 .. k : responses'[i] = responses[i]
  <2>1. responses \in Seq(0 .. l)
    BY <1>1, GrowingTypes DEF PipelineInv
  <2>2. l \in 0 .. l
    BY <1>1
  <2> QED BY <1>1, <2>1, <2>2, AppendProperties
<1>5. ~Refusing'
  BY <1>1, <1>4 DEF Refusing, Refusal
<1>6. \A i \in 1 .. k : responses[i] \in 1 .. Len(log)
                        /\ log[responses[i]] = pendingWrites[i].write
  <2>1. \A i \in 1 .. k : log[responses[i]] = pendingWrites[i].write
    BY <1>1 DEF PipelineInv, AnswersMatchPipeline
  <2>2. \A i \in 1 .. k : responses[i] \in 0 .. Len(log)
    BY <1>1
  <2>3. \A i \in 1 .. k : responses[i] # 0
    <3>1. \A i \in 1 .. k - 1 : responses[i] # 0
      BY DEF PipelineInv, StreamInOrder, Refusal
    <3>2. k > 0 => responses[k] # 0
      BY <1>1 DEF Refusing, Refusal
    <3>3. \A i \in 1 .. k : i \in 1 .. k - 1 \/ (i = k /\ k > 0)
      BY <1>1
    <3> QED BY <3>1, <3>2, <3>3
  <2> QED BY <1>1, <2>1, <2>2, <2>3
<1>7. AnswersMatchPipeline'
  <2>1. ASSUME NEW i \in 1 .. k + 1
        PROVE  log'[responses'[i]] = pendingWrites[i].write
    <3>1. CASE i = k + 1
      BY <1>3, <1>4, <3>1
    <3>2. CASE i \in 1 .. k
      BY <1>3, <1>4, <1>6, <3>2
    <3>3. i = k + 1 \/ i \in 1 .. k
      BY <1>1
    <3> QED BY <3>1, <3>2, <3>3
  <2>2. (k + 1) + 1 = k + 2 /\ k + 1 <= Len(pendingWrites)
    BY <1>1, <1>2
  <2> QED BY <1>2, <1>4, <1>5, <2>1, <2>2 DEF AnswersMatchPipeline
<1>8. StreamInOrder'
  <2>1. \A i \in 1 .. Len(responses') - 1 : responses'[i] # Refusal
    BY <1>1, <1>4, <1>6 DEF Refusal
  <2> QED BY <1>2, <2>1 DEF StreamInOrder
<1>9. PipelineTypeOK'
  <2>1. /\ cache \in [Keys -> [write : {0} \cup WriteNumbers, version : 0 .. l]]
        /\ remoteVersion \in 0 .. l /\ floor \in 0 .. l
        /\ resume \in [Targets -> 0 .. l]
        /\ held \in Seq([batch : Batch, version : 1 .. l])
    <3>1. /\ l \in Nat /\ Len(log) <= l /\ Len(writes) <= Len(writes)
          /\ PipelineTypeOK
      BY <1>1 DEF PipelineInv
    <3> HIDE DEF l
    <3> QED BY <1>1, <3>1, GrowingTypes DEF WriteNumbers
  <2>2. requests' \in Seq(Batch)
    BY <1>1
  <2> HIDE DEF l
  <2> QED BY <1>3, <1>4, <2>1, <2>2
      DEF PipelineInv, PipelineTypeOK, WriteNumbers, disk, ghosts
<1>10. QueuesInv' /\ CallersToldTheTruth' /\ PipelineInOrder'
  BY Unaffected DEF PipelineInv, disk, ghosts
<1> QED BY <1>7, <1>8, <1>9, <1>10 DEF PipelineInv

\* The server refuses the first request: the refusal is the last answer.
LEMMA ServerRefusesStep ==
    ASSUME PipelineInv, ServerRefuses
    PROVE  PipelineInv'
<1> USE DEF ServerRefuses
<1> DEFINE k == Len(responses)
<1>1. /\ pendingWrites \in Seq(Batch) /\ Len(pendingWrites) \in Nat
      /\ responses \in Seq(0 .. Len(log)) /\ k \in Nat /\ Len(log) \in Nat
      /\ requests # << >> /\ ~Refusing
      /\ idleTimer \in {"off", "on"}
  BY DEF PipelineInv, PipelineTypeOK
<1>2. stream = "ready" /\ k < Len(pendingWrites)
  BY <1>1, NextRequest
<1>3. /\ responses' \in Seq(0 .. Len(log)) /\ Len(responses') = k + 1
      /\ responses'[k + 1] = Refusal
      /\ \A i \in 1 .. k : responses'[i] = responses[i]
  <2>1. Refusal \in 0 .. Len(log)
    BY <1>1 DEF Refusal
  <2> QED BY <1>1, <2>1, AppendProperties
<1>4. Refusing'
  BY <1>1, <1>3 DEF Refusing
<1>5. \A i \in 1 .. k : log[responses[i]] = pendingWrites[i].write
  BY <1>1 DEF PipelineInv, AnswersMatchPipeline
<1>6. AnswersMatchPipeline'
  <2>1. (k + 1) - 1 = k /\ k + 1 <= Len(pendingWrites)
    BY <1>1, <1>2
  <2>2. log' = log /\ pendingWrites' = pendingWrites
    OBVIOUS
  <2> QED BY <1>3, <1>4, <1>5, <2>1, <2>2 DEF AnswersMatchPipeline
<1>7. StreamInOrder'
  <2>1. \A i \in 1 .. k : responses[i] # Refusal
    <3>1. \A i \in 1 .. k - 1 : responses[i] # Refusal
      BY DEF PipelineInv, StreamInOrder
    <3>2. k > 0 => responses[k] # Refusal
      BY <1>1 DEF Refusing
    <3> QED BY <1>1, <3>1, <3>2
  <2>2. \A i \in 1 .. Len(responses') - 1 : responses'[i] # Refusal
    BY <1>1, <1>3, <2>1
  <2> QED BY <1>2, <2>2 DEF StreamInOrder
<1>8. budget' \in [Event -> Nat]
  <2>1. "refusal" \in Event
    BY DEF Event
  <2> QED BY <2>1, SpendType DEF PipelineInv
<1>9. requests' \in Seq(Batch) /\ pendingWrites # << >> /\ stream' # "initial"
  BY <1>1, <1>2
<1> QED BY <1>1, <1>2, <1>3, <1>6, <1>7, <1>8, <1>9, StreamStep DEF Streams

\* A query that is started touches no write.
LEMMA ListenStep ==
    ASSUME PipelineInv, NEW t \in Targets, Listen(t)
    PROVE  PipelineInv'
<1> USE DEF Listen
<1>1. budget' \in [Event -> Nat]
  <2>1. "listen" \in Event
    BY DEF Event
  <2> QED BY <2>1, SpendType DEF PipelineInv
<1>2. floor' \in 0 .. Len(log) /\ targets' \subseteq Targets
  BY DEF PipelineInv, PipelineTypeOK
<1>3. PipelineTypeOK'
  BY <1>1, <1>2 DEF PipelineInv, PipelineTypeOK, WriteNumbers, disk, pipeline, ghosts
<1>4. /\ QueuesInv' /\ CallersToldTheTruth' /\ PipelineInOrder'
      /\ StreamInOrder' /\ AnswersMatchPipeline'
  BY Unaffected DEF PipelineInv, disk, pipeline, ghosts
<1> QED BY <1>3, <1>4 DEF PipelineInv

\* What is told to callers grows with the writes.
LEMMA ToldGrows ==
    ASSUME PipelineTypeOK, NEW s \in {"waiting", "gone"},
           Len(writes') = Len(writes) + 1, told' = Append(told, s)
    PROVE  /\ Len(writes) \in Nat /\ WriteNumbers' = 1 .. Len(writes) + 1
           /\ told' \in [WriteNumbers' -> {"waiting", "success", "failure", "gone"}]
           /\ told'[Len(writes) + 1] = s
           /\ \A w \in WriteNumbers : told'[w] = told[w]
           /\ WriteNumbers' = WriteNumbers \cup {Len(writes) + 1}
<1> DEFINE n == Len(writes)
           A == {"waiting", "success", "failure", "gone"}
<1>1. n \in Nat /\ told \in [1 .. n -> A] /\ s \in A
  BY DEF PipelineTypeOK, WriteNumbers
<1>2. WriteNumbers' = 1 .. n + 1 /\ WriteNumbers = 1 .. n
  BY DEF WriteNumbers
<1> HIDE DEF A, n
<1>3. told \in Seq(A) /\ Len(told) = n
  BY <1>1, FunctionIsSeq
<1>4. /\ told' \in Seq(A) /\ Len(told') = n + 1
      /\ told'[n + 1] = s /\ \A w \in 1 .. n : told'[w] = told[w]
  BY <1>1, <1>3, AppendProperties
<1>5. told' \in [1 .. n + 1 -> A]
  BY <1>4, LenProperties
<1>6. 1 .. n + 1 = (1 .. n) \cup {n + 1}
  BY <1>1
<1> QED BY <1>1, <1>2, <1>4, <1>5, <1>6 DEF A, n

\* A write of another device lengthens the log, and touches no queue.
LEMMA RemoteWriteStep ==
    ASSUME PipelineInv, NEW k \in Keys, RemoteWrite(k)
    PROVE  PipelineInv'
<1> USE DEF RemoteWrite
<1> DEFINE w == Len(writes) + 1
           l == Len(log) + 1
<1>1. /\ PipelineTypeOK /\ w \in Nat /\ l \in Nat
      /\ Len(writes) \in Nat /\ Len(log) \in Nat
      /\ Len(log) <= l /\ Len(writes) <= w
      /\ writes \in Seq([user : Users \cup {Elsewhere}, key : Keys])
      /\ log \in Seq(WriteNumbers)
  BY SMTT(30) DEF PipelineInv, PipelineTypeOK
<1>2. /\ writes' \in Seq([user : Users \cup {Elsewhere}, key : Keys])
      /\ Len(writes') = w
  BY <1>1
<1>3. /\ WriteNumbers' = 1 .. w
      /\ told' \in [WriteNumbers' -> {"waiting", "success", "failure", "gone"}]
      /\ told'[w] = "gone"
      /\ \A x \in WriteNumbers : told'[x] = told[x]
      /\ WriteNumbers' = WriteNumbers \cup {w}
  BY <1>1, <1>2, ToldGrows
<1>4. /\ log' \in Seq(1 .. w) /\ Len(log') = l
      /\ \A i \in 1 .. Len(log) : log'[i] = log[i]
  <2>1. w \in 1 .. w
    BY <1>1
  <2>2. log \in Seq(1 .. w)
    <3> HIDE DEF w, l
    <3> QED BY <1>1, GrowingTypes
  <2> QED BY <1>1, <2>1, <2>2, AppendProperties
<1>5. /\ cache \in [Keys -> [write : {0} \cup 1 .. w, version : 0 .. l]]
      /\ remoteVersion \in 0 .. l /\ floor \in 0 .. l
      /\ resume \in [Targets -> 0 .. l]
      /\ held \in Seq([batch : Batch, version : 1 .. l])
      /\ responses \in Seq(0 .. l)
      /\ confirmed \cup refused \cup dropped \subseteq 1 .. w
  <2> HIDE DEF w, l
  <2> QED BY <1>1, GrowingTypes
<1>6. budget' \in [Event -> Nat]
  <2>1. "remote" \in Event
    BY DEF Event
  <2> QED BY <1>1, <2>1, SpendType
<1>7. PipelineTypeOK'
  <2> HIDE DEF w, l
  <2> QED BY <1>1, <1>2, <1>3, <1>4, <1>5, <1>6
      DEF PipelineTypeOK, disk, pipeline
<1>8. QueuesInv'
  <2>1. Tables'
    BY <1>3 DEF PipelineInv, QueuesInv, Tables, disk
  <2>2. /\ OneRowPerWrite' /\ LastAckedStays' /\ NumberingAhead' /\ HeldInOrder'
    BY DEF PipelineInv, QueuesInv, disk, OneRowPerWrite, LastAckedStays,
       NumberingAhead, HeldInOrder
  <2>3. IdsInOrder'
    BY DEF PipelineInv, QueuesInv, disk, IdsInOrder
  <2> QED BY <2>1, <2>2, <2>3 DEF QueuesInv
<1>9. PipelineInOrder' /\ StreamInOrder'
  BY Unaffected DEF PipelineInv, disk, pipeline
<1>10. AnswersMatchPipeline'
  <2>1. UNCHANGED <<pendingWrites, responses, requests, stream>>
    BY DEF pipeline
  <2>2. \A i \in 1 .. Len(responses) : responses[i] # Refusal =>
          log'[responses[i]] = log[responses[i]]
    <3>1. responses \in Seq(0 .. Len(log))
      BY <1>1 DEF PipelineTypeOK
    <3>2. \A i \in 1 .. Len(responses) :
            responses[i] # Refusal => responses[i] \in 1 .. Len(log)
      BY <1>1, <3>1 DEF Refusal
    <3> QED BY <1>4, <3>2
  <2>3. ~Refusing /\ responses # << >> => responses[Len(responses)] # Refusal
    BY DEF Refusing
  <2>4. \A i \in 1 .. Len(responses) - 1 : responses[i] # Refusal
    BY DEF PipelineInv, StreamInOrder
  <2>5. Len(responses) \in Nat /\ (Len(responses) > 0 => responses # << >>)
    BY <1>1 DEF PipelineTypeOK
  <2> DEFINE answered == IF Refusing THEN Len(responses) - 1 ELSE Len(responses)
  <2>6. \A i \in 1 .. answered : i \in 1 .. Len(responses) /\ responses[i] # Refusal
    <3>1. CASE Refusing
      BY <2>4, <2>5, <3>1
    <3>2. CASE ~Refusing
      <4>1. \A i \in 1 .. Len(responses) :
              i \in 1 .. Len(responses) - 1 \/ i = Len(responses)
        BY <2>5
      <4> QED BY <2>3, <2>4, <2>5, <3>2, <4>1
    <3> QED BY <3>1, <3>2
  <2>7. Refusing' <=> Refusing
    BY <2>1 DEF Refusing
  <2> QED BY <2>1, <2>2, <2>6, <2>7 DEF PipelineInv, AnswersMatchPipeline
<1>11. CallersToldTheTruth'
  <2>0. CallersToldTheTruth
    BY DEF PipelineInv
  <2>1. \A x \in WriteNumbers' : /\ told'[x] = "success" => x \in confirmed
                                 /\ told'[x] = "failure" => x \in refused
    BY <1>3, <2>0 DEF CallersToldTheTruth
  <2>2. {x \in WriteNumbers' : told'[x] = "waiting"}
          = {x \in WriteNumbers : told[x] = "waiting"}
    BY <1>3
  <2>3. UNCHANGED <<rows, lastAcked, blocks, confirmed, refused>>
    BY DEF disk
  <2>4. {c.write : c \in UNION {blocks[u] : u \in Users}}
          = {x \in WriteNumbers : told[x] = "waiting"}
    BY <2>0 DEF CallersToldTheTruth
  <2>5. {c.write : c \in UNION {blocks'[u] : u \in Users}}
          = {x \in WriteNumbers' : told'[x] = "waiting"}
    <3>1. blocks' = blocks
      BY <2>3
    <3> DEFINE Filed(bs) == {c.write : c \in UNION {bs[u] : u \in Users}}
               Waiting(W, t) == {x \in W : t[x] = "waiting"}
    <3>2. Filed(blocks) = Waiting(WriteNumbers, told)
      BY <2>4
    <3>3. Waiting(WriteNumbers', told') = Waiting(WriteNumbers, told)
      BY <2>2
    <3> SUFFICES Filed(blocks') = Waiting(WriteNumbers', told')
      OBVIOUS
    <3> HIDE DEF Filed, Waiting
    <3> QED BY <3>1, <3>2, <3>3
  <2>6. \A u \in Users : blocks'[u] \subseteq Unacked(rows'[u], lastAcked'[u])
    BY <2>0, <2>3 DEF CallersToldTheTruth
  <2> QED BY <2>1, <2>3, <2>5, <2>6 DEF CallersToldTheTruth
<1> QED BY <1>7, <1>8, <1>9, <1>10, <1>11 DEF PipelineInv

\* There are blocks for the waiting writes only, and for all of them.
BlocksMatch(bs, W, t) ==
    {c.write : c \in UNION {bs[u] : u \in Users}} = {x \in W : t[x] = "waiting"}

\* The same, said of one write at a time.
LEMMA WaitingBlocks ==
    ASSUME NEW bs, NEW W, NEW t
    PROVE  BlocksMatch(bs, W, t)
             <=> (/\ \A u \in Users : \A c \in bs[u] :
                       c.write \in W /\ t[c.write] = "waiting"
                  /\ \A x \in W : t[x] = "waiting" =>
                       \E u \in Users : \E c \in bs[u] : c.write = x)
<1> DEFINE L == {c.write : c \in UNION {bs[u] : u \in Users}}
           R == {x \in W : t[x] = "waiting"}
<1>1. \A x : x \in L <=> \E u \in Users : \E c \in bs[u] : c.write = x
  OBVIOUS
<1>2. \A x : x \in R <=> x \in W /\ t[x] = "waiting"
  OBVIOUS
<1>4. BlocksMatch(bs, W, t) <=> L = R
  BY DEF BlocksMatch
<1> HIDE DEF L, R
<1>3. (L = R) <=> \A x : x \in L <=> x \in R
  OBVIOUS
<1> QED BY <1>1, <1>2, <1>3, <1>4

\* The pipeline after it was filled.
Filled(pend, str, sent) ==
    /\ PipelineInOrder'
    /\ pendingWrites' \in Seq(Batch) /\ Len(pendingWrites') <= MaxPendingWrites
    /\ lastBatchSeen' \in Int
    /\ stream' \in Streams /\ (stream' = "ready" <=> str = "ready")
    /\ idleTimer' \in {"off", "on"}
    /\ Extended(pend, sent, str, pendingWrites', requests')

\* A pipeline that was filled is in order for the queue it was filled from.
LEMMA FilledPipeline ==
    ASSUME QueuesInv', user' \in Users, lastAcked' \in [Users -> Int],
           nextBatchID' \in Nat,
           NEW pend, NEW seen \in Int, seen < nextBatchID',
           Entered(pend, seen, Unacked(rows'[user'], lastAcked'[user'])),
           NEW str \in Streams, pend # << >> => str # "initial",
           NEW sent \in Seq(Batch), NEW timer \in {"off", "on"},
           FillWritePipeline(rows'[user'], lastAcked'[user'], pend, seen, str,
                             sent, timer)
    PROVE  Filled(pend, str, sent)
<1>0. PICK table, acked : table = rows'[user'] /\ acked = lastAcked'[user']
  OBVIOUS
<1>1. /\ table \in SUBSET Batch /\ IsFiniteSet(table) /\ acked \in Int
      /\ \A b \in table : b.id < nextBatchID'
  BY <1>0 DEF QueuesInv, Tables, IdsInOrder
<1>2. UniqueIds(table)
  BY <1>0 DEF QueuesInv, IdsInOrder, UniqueIds
<1>3. /\ Entered(pend, seen, Unacked(table, acked))
      /\ FillWritePipeline(table, acked, pend, seen, str, sent, timer)
  BY <1>0
<1>4. /\ Lists(pendingWrites', Unacked(table, acked), MaxPendingWrites)
      /\ Entered(pendingWrites', lastBatchSeen', Unacked(table, acked))
      /\ lastBatchSeen' \in Int
      /\ lastBatchSeen' = seen \/ \E b \in table : lastBatchSeen' = b.id
      /\ pendingWrites' # << >> => stream' # "initial"
      /\ stream' \in Streams /\ (stream' = "ready" <=> str = "ready")
  <2>1. /\ Lists(pendingWrites', Unacked(table, acked), MaxPendingWrites)
        /\ Entered(pendingWrites', lastBatchSeen', Unacked(table, acked))
    BY <1>1, <1>2, <1>3, FillOutcome
  <2>2. lastBatchSeen' \in Int
    BY <1>1, <1>2, <1>3, FillOutcome
  <2>3. lastBatchSeen' = seen \/ \E b \in table : lastBatchSeen' = b.id
    BY <1>1, <1>2, <1>3, FillOutcome
  <2>4. pendingWrites' # << >> => stream' # "initial"
    BY <1>1, <1>2, <1>3, FillOutcome
  <2>5. stream' \in Streams /\ (stream' = "ready" <=> str = "ready")
    BY <1>1, <1>2, <1>3, FillOutcome
  <2> QED BY <2>1, <2>2, <2>3, <2>4, <2>5
<1>8. /\ idleTimer' \in {"off", "on"}
      /\ Extended(pend, sent, str, pendingWrites', requests')
  <2>1. idleTimer' \in {"off", "on"}
    BY <1>1, <1>2, <1>3, FillOutcome
  <2>2. Extended(pend, sent, str, pendingWrites', requests')
    BY <1>1, <1>2, <1>3, FillOutcome
  <2> QED BY <2>1, <2>2
<1>5. lastBatchSeen' < nextBatchID'
  BY <1>1, <1>4
<1>6. pendingWrites' \in Seq(Batch) /\ Len(pendingWrites') <= MaxPendingWrites
  <2>1. Unacked(table, acked) \subseteq Batch
    BY <1>1 DEF Unacked
  <2>2. /\ pendingWrites' \in Seq(Unacked(table, acked))
        /\ Len(pendingWrites') <= MaxPendingWrites
    BY <1>4 DEF Lists
  <2> QED BY <2>1, <2>2, SeqMonotonic
<1>7. PipelineInOrder'
  BY <1>0, <1>4, <1>5 DEF PipelineInOrder, Unsent
<1> QED BY <1>4, <1>6, <1>7, <1>8 DEF Filled

\* The row of a new write comes after all others.
LEMMA NewRow ==
    ASSUME PipelineInv, NEW k \in Keys, WriteMutations(k),
           NEW b, b = [id |-> nextBatchID, write |-> Len(writes) + 1]
    PROVE  /\ b \in Batch /\ b.id = nextBatchID /\ b.write = Len(writes) + 1
           /\ nextBatchID \in Nat /\ nextBatchID' = nextBatchID + 1
           /\ rows' \in [Users -> SUBSET Batch]
           /\ rows'[user] = rows[user] \cup {b}
           /\ \A v \in Users \ {user} : rows'[v] = rows[v]
           /\ \A u \in Users : \A c \in rows[u] :
                /\ c.id \in Int /\ c.id < b.id
                /\ c.write \in WriteNumbers /\ c.write # b.write
           /\ user \in Users /\ lastAcked[user] \in Int /\ lastAcked[user] < b.id
           /\ Unacked(rows'[user], lastAcked[user]) = Unsent \cup {b}
<1>1. /\ nextBatchID \in Nat /\ Len(writes) \in Nat /\ user \in Users
      /\ rows \in [Users -> SUBSET Batch] /\ lastAcked \in [Users -> Int]
  BY DEF PipelineInv, PipelineTypeOK, QueuesInv, Tables
<1>2. b \in Batch /\ b.id = nextBatchID /\ b.write = Len(writes) + 1
  BY <1>1 DEF Batch
<1>3. /\ nextBatchID' = nextBatchID + 1
      /\ rows' = [rows EXCEPT ![user] = @ \cup {b}]
  BY DEF WriteMutations
<1>4. /\ rows' \in [Users -> SUBSET Batch]
      /\ rows'[user] = rows[user] \cup {b}
      /\ \A v \in Users \ {user} : rows'[v] = rows[v]
  BY <1>1, <1>2, <1>3
<1>5. \A u \in Users : \A c \in rows[u] :
        c.id \in Int /\ c.id < b.id /\ c.write \in WriteNumbers
  BY <1>1, <1>2 DEF PipelineInv, QueuesInv, Tables, IdsInOrder, Batch
<1>6. \A n \in WriteNumbers : n # Len(writes) + 1
  BY <1>1 DEF WriteNumbers
<1>7. lastAcked[user] \in Int /\ lastAcked[user] < b.id
  BY <1>1, <1>2 DEF PipelineInv, QueuesInv, NumberingAhead
<1>8. Unacked(rows'[user], lastAcked[user]) = Unsent \cup {b}
  BY <1>2, <1>4, <1>7 DEF Unacked, Unsent
<1> QED BY <1>1, <1>2, <1>3, <1>4, <1>5, <1>6, <1>7, <1>8

\* The queues after a new write.
LEMMA NewRowQueues ==
    ASSUME PipelineInv, NEW k \in Keys, WriteMutations(k)
    PROVE  QueuesInv'
<1>1. PICK b : b = [id |-> nextBatchID, write |-> Len(writes) + 1]
  OBVIOUS
<1>2. /\ b \in Batch /\ b.id = nextBatchID /\ b.write = Len(writes) + 1
      /\ nextBatchID \in Nat /\ nextBatchID' = nextBatchID + 1
      /\ rows' \in [Users -> SUBSET Batch]
      /\ rows'[user] = rows[user] \cup {b}
      /\ \A v \in Users \ {user} : rows'[v] = rows[v]
      /\ \A u \in Users : \A c \in rows[u] :
           /\ c.id \in Int /\ c.id < b.id
           /\ c.write \in WriteNumbers /\ c.write # b.write
      /\ user \in Users /\ lastAcked[user] \in Int /\ lastAcked[user] < b.id
  BY <1>1, NewRow
<1>3. \A u \in Users : \A c \in rows'[u] : c \in rows[u] \/ (u = user /\ c = b)
  BY <1>2
<1>4. /\ UNCHANGED <<lastAcked, user, held, confirmed>>
      /\ blocks' = [blocks EXCEPT ![user] = {c \in @ : c.id # b.id} \cup {b}]
      /\ Len(writes') = Len(writes) + 1 /\ Len(writes) \in Nat
      /\ lastAcked \in [Users -> Int]
  BY <1>1 DEF PipelineInv, PipelineTypeOK, WriteMutations
<1>5. Tables'
  <2>1. blocks' \in [Users -> SUBSET Batch]
    BY <1>2, <1>4 DEF PipelineInv, QueuesInv, Tables
  <2>2. \A u \in Users : IsFiniteSet(rows'[u])
    <3>1. \A u \in Users : IsFiniteSet(rows[u])
      BY DEF PipelineInv, QueuesInv, Tables
    <3>2. IsFiniteSet(rows[user] \cup {b})
      BY <1>2, <3>1, FS_AddElement
    <3> QED BY <1>2, <3>1, <3>2
  <2>3. WriteNumbers \subseteq WriteNumbers' /\ b.write \in WriteNumbers'
    BY <1>2, <1>4 DEF WriteNumbers
  <2>4. \A u \in Users : \A c \in rows'[u] : c.write \in WriteNumbers'
    BY <1>2, <1>3, <2>3
  <2> QED BY <1>2, <2>1, <2>2, <2>4 DEF Tables
<1>6. OneRowPerWrite'
  BY <1>2, <1>3 DEF PipelineInv, QueuesInv, OneRowPerWrite
<1>7. IdsInOrder'
  <2>1. \A u, v \in Users : \A c \in rows[u], d \in rows[v] :
          c.id = d.id => u = v /\ c = d
    BY DEF PipelineInv, QueuesInv, IdsInOrder
  <2>2. \A u \in Users : \A c \in rows[u] : c.id <= lastAcked[u] => c.write \in confirmed
    BY DEF PipelineInv, QueuesInv, IdsInOrder
  <2>3. \A u \in Users : lastAcked[u] >= nextBatchID => rows[u] = {}
    BY DEF PipelineInv, QueuesInv, IdsInOrder
  <2>4. \A u, v \in Users : \A c \in rows'[u], d \in rows'[v] :
          c.id = d.id => u = v /\ c = d
    BY <1>2, <1>3, <2>1
  <2>5. \A u \in Users : \A c \in rows'[u] :
          c.id < nextBatchID' /\ (c.id <= lastAcked[u] => c.write \in confirmed)
    BY <1>2, <1>3, <2>2
  <2>6. \A u \in Users : lastAcked[u] >= nextBatchID' => rows'[u] = {}
    BY <1>2, <1>4, <2>3
  <2>7. {c \in rows'[user] : c.id <= lastAcked[user]}
          = {c \in rows[user] : c.id <= lastAcked[user]}
    BY <1>2
  <2>8. {c \in rows[user] : c.id <= lastAcked[user]}
          = {held[i].batch : i \in DOMAIN held}
    BY DEF PipelineInv, QueuesInv, IdsInOrder
  <2> QED BY <1>4, <2>4, <2>5, <2>6, <2>7, <2>8 DEF IdsInOrder
<1>8. LastAckedStays'
  BY <1>2, <1>3, <1>4 DEF PipelineInv, QueuesInv, LastAckedStays
<1>9. NumberingAhead'
  BY <1>2, <1>4 DEF PipelineInv, QueuesInv, NumberingAhead, Unknown
<1>10. HeldInOrder'
  BY <1>4 DEF PipelineInv, QueuesInv, HeldInOrder
<1> QED BY <1>5, <1>6, <1>7, <1>8, <1>9, <1>10 DEF QueuesInv

\* The end of a longer sequence.
LEMMA SubSeqExtended ==
    ASSUME NEW S, NEW p \in Seq(S), NEW q \in Seq(S), NEW k \in 1 .. Len(p) + 1
    PROVE  SubSeq(p \o q, k, Len(p \o q)) = SubSeq(p, k, Len(p)) \o q
<1> DEFINE r == p \o q
           s == SubSeq(p, k, Len(p))
           t == SubSeq(r, k, Len(r))
<1>1. /\ Len(p) \in Nat /\ Len(q) \in Nat
      /\ \A i \in 1 .. Len(p) : p[i] \in S
  BY LenProperties, ElementOfSeq
<1>2. /\ r \in Seq(S) /\ Len(r) = Len(p) + Len(q)
      /\ \A i \in 1 .. Len(r) : r[i] = IF i <= Len(p) THEN p[i] ELSE q[i - Len(p)]
  BY ConcatProperties
<1>3. \A i \in 1 .. Len(r) : r[i] \in S
  BY <1>2, ElementOfSeq
<1> HIDE DEF r
<1>4. /\ s \in Seq(S) /\ Len(s) = Len(p) - k + 1
      /\ \A i \in 1 .. Len(p) - k + 1 : s[i] = p[k + i - 1]
  <2>1. \A i \in k .. Len(p) : p[i] \in S
    BY <1>1
  <2>2. Len(s) = IF k <= Len(p) THEN Len(p) - k + 1 ELSE 0
    BY <1>1, <2>1, SubSeqProperties
  <2>3. s \in Seq(S) /\ \A i \in 1 .. Len(p) - k + 1 : s[i] = p[k + i - 1]
    BY <1>1, <2>1, SubSeqProperties
  <2> HIDE DEF s
  <2>4. Len(s) = Len(p) - k + 1
    BY <1>1, <2>2
  <2> QED BY <2>3, <2>4
<1>5. /\ t \in Seq(S) /\ Len(t) = Len(r) - k + 1
      /\ \A i \in 1 .. Len(r) - k + 1 : t[i] = r[k + i - 1]
  <2>1. \A i \in k .. Len(r) : r[i] \in S
    BY <1>1, <1>2, <1>3
  <2>2. Len(t) = IF k <= Len(r) THEN Len(r) - k + 1 ELSE 0
    BY <1>1, <1>2, <2>1, SubSeqProperties
  <2>3. t \in Seq(S) /\ \A i \in 1 .. Len(r) - k + 1 : t[i] = r[k + i - 1]
    BY <1>1, <1>2, <2>1, SubSeqProperties
  <2> HIDE DEF t
  <2> QED BY <1>1, <1>2, <2>2, <2>3
<1> HIDE DEF s, t
<1>6. /\ s \o q \in Seq(S) /\ Len(s \o q) = Len(s) + Len(q)
      /\ \A i \in 1 .. Len(s) + Len(q) :
           (s \o q)[i] = IF i <= Len(s) THEN s[i] ELSE q[i - Len(s)]
  BY <1>4, ConcatProperties
<1>7. ASSUME NEW i \in 1 .. Len(t)
      PROVE  t[i] = (s \o q)[i]
  <2>1. t[i] = r[k + i - 1] /\ k + i - 1 \in 1 .. Len(r)
    BY <1>1, <1>2, <1>5
  <2>2. CASE i <= Len(s)
    <3>1. k + i - 1 <= Len(p) /\ i \in 1 .. Len(p) - k + 1 /\ i \in 1 .. Len(s) + Len(q)
      BY <1>1, <1>4, <2>2
    <3> QED BY <1>2, <1>4, <1>6, <2>1, <2>2, <3>1
  <2>3. CASE ~(i <= Len(s))
    <3>1. ~(k + i - 1 <= Len(p)) /\ i \in 1 .. Len(s) + Len(q)
      BY <1>1, <1>2, <1>4, <1>5, <2>3
    <3>2. (k + i - 1) - Len(p) = i - Len(s)
      BY <1>1, <1>4
    <3> QED BY <1>2, <1>6, <2>1, <2>3, <3>1, <3>2
  <2> QED BY <2>2, <2>3
<1>8. Len(t) = Len(s \o q)
  BY <1>1, <1>2, <1>4, <1>5, <1>6
<1>9. t = s \o q
  BY <1>5, <1>6, <1>7, <1>8, SeqEqual
<1> QED BY <1>9 DEF r, s, t

\* The first k of p are those of p1, and what follows them is still sent.
StillMatch(p, r, str, k, p1, r1) ==
    /\ k <= Len(p1) /\ r1 \in Seq(Batch)
    /\ \A i \in 1 .. k : p1[i] = p[i]
    /\ str = "ready" /\ r = SubSeq(p, k + 1, Len(p)) =>
         r1 = SubSeq(p1, k + 1, Len(p1))
    /\ str # "ready" => r1 = r

\* The answers still match when the pipeline is filled up.
LEMMA AnswersStillMatch ==
    ASSUME NEW p \in Seq(Batch), NEW r \in Seq(Batch), NEW str,
           NEW k \in Nat, k <= Len(p),
           NEW p1, NEW r1, Extended(p, r, str, p1, r1)
    PROVE  StillMatch(p, r, str, k, p1, r1)
<1>1. PICK new \in Seq(Batch) : /\ p1 = p \o new
                                /\ r1 = IF str = "ready" THEN r \o new ELSE r
  BY DEF Extended
<1>2. Len(p) \in Nat /\ Len(new) \in Nat
  BY LenProperties
<1>3. /\ Len(p1) = Len(p) + Len(new)
      /\ \A i \in 1 .. Len(p) + Len(new) :
           p1[i] = IF i <= Len(p) THEN p[i] ELSE new[i - Len(p)]
  BY <1>1, ConcatProperties
<1>4. \A i \in 1 .. k : p1[i] = p[i]
  BY <1>2, <1>3
<1>5. str = "ready" /\ r = SubSeq(p, k + 1, Len(p)) => r1 = SubSeq(p1, k + 1, Len(p1))
  <2>1. k + 1 \in 1 .. Len(p) + 1
    BY <1>2
  <2>2. SubSeq(p \o new, k + 1, Len(p \o new)) = SubSeq(p, k + 1, Len(p)) \o new
    BY <2>1, SubSeqExtended
  <2> QED BY <1>1, <2>2
<1>6. r1 \in Seq(Batch)
  BY <1>1, ConcatProperties
<1>7. k <= Len(p1) /\ (str # "ready" => r1 = r)
  BY <1>1, <1>2, <1>3
<1> QED BY <1>4, <1>5, <1>6, <1>7 DEF StillMatch

\* A new write is the last of its queue, and enters the pipeline if there is
\* room (FSTSyncEngine's writeMutations).
LEMMA WriteMutationsStep ==
    ASSUME PipelineInv, NEW k \in Keys, WriteMutations(k)
    PROVE  PipelineInv'
<1> USE DEF WriteMutations
<1>1. PICK b : b = [id |-> nextBatchID, write |-> Len(writes) + 1]
  OBVIOUS
<1>2. /\ b \in Batch /\ b.id = nextBatchID /\ b.write = Len(writes) + 1
      /\ nextBatchID \in Nat /\ nextBatchID' = nextBatchID + 1
      /\ rows' \in [Users -> SUBSET Batch]
      /\ \A u \in Users : \A c \in rows[u] : c.id \in Int /\ c.id < b.id
      /\ user \in Users
      /\ Unacked(rows'[user], lastAcked[user]) = Unsent \cup {b}
  BY <1>1, NewRow
<1>3. QueuesInv'
  BY NewRowQueues
<1>4. /\ PipelineTypeOK /\ UNCHANGED <<log, lastAcked, user, held, responses>>
      /\ lastAcked \in [Users -> Int]
      /\ lastBatchSeen \in Int /\ stream \in Streams
      /\ pendingWrites \in Seq(Batch) /\ requests \in Seq(Batch)
      /\ responses \in Seq(0 .. Len(log)) /\ Len(responses) \in Nat
      /\ idleTimer \in {"off", "on"}
      /\ Len(writes) \in Nat /\ Len(log) \in Nat
      /\ writes \in Seq([user : Users \cup {Elsewhere}, key : Keys])
  BY SMTT(30) DEF PipelineInv, PipelineTypeOK, Streams
<1>5. Entered(pendingWrites, lastBatchSeen, Unsent \cup {b})
  <2>1. /\ Entered(pendingWrites, lastBatchSeen, Unsent)
        /\ lastBatchSeen < nextBatchID
    BY DEF PipelineInv, PipelineInOrder
  <2>2. pendingWrites \in Seq(Unsent \cup {b})
    <3>1. Unsent \subseteq Unsent \cup {b}
      OBVIOUS
    <3>2. pendingWrites \in Seq(Unsent)
      BY <2>1 DEF Entered
    <3> QED BY <3>1, <3>2, SeqMonotonic
  <2>3. ~(b.id <= lastBatchSeen)
    BY <1>2, <1>4, <2>1
  <2> QED BY <2>1, <2>2, <2>3 DEF Entered
<1>6. /\ FillWritePipeline(rows'[user'], lastAcked'[user'], pendingWrites,
                           lastBatchSeen, stream, requests, idleTimer)
      /\ Entered(pendingWrites, lastBatchSeen, Unacked(rows'[user'], lastAcked'[user']))
      /\ user' \in Users /\ lastAcked' \in [Users -> Int] /\ nextBatchID' \in Nat
      /\ lastBatchSeen < nextBatchID'
      /\ pendingWrites # << >> => stream # "initial"
  <2>1. lastBatchSeen < nextBatchID /\ (pendingWrites # << >> => stream # "initial")
    BY DEF PipelineInv, PipelineInOrder
  <2>2. FillWritePipeline(rows'[user], lastAcked[user], pendingWrites,
                          lastBatchSeen, stream, requests, idleTimer)
    OBVIOUS
  <2>3. lastBatchSeen < nextBatchID' /\ nextBatchID' \in Nat
    BY <1>2, <1>4, <2>1
  <2>4. user' = user /\ lastAcked' = lastAcked
    BY <1>4
  <2>5. Entered(pendingWrites, lastBatchSeen, Unacked(rows'[user], lastAcked[user]))
    BY <1>2, <1>5
  <2>6. user \in Users /\ lastAcked \in [Users -> Int]
    BY <1>2, <1>4
  <2> QED BY ONLY <2>1, <2>2, <2>3, <2>4, <2>5, <2>6
<1>7. /\ PipelineInOrder'
      /\ pendingWrites' \in Seq(Batch) /\ Len(pendingWrites') <= MaxPendingWrites
      /\ lastBatchSeen' \in Int
      /\ stream' \in Streams /\ (stream' = "ready" <=> stream = "ready")
      /\ idleTimer' \in {"off", "on"}
      /\ Extended(pendingWrites, requests, stream, pendingWrites', requests')
  <2>1. Filled(pendingWrites, stream, requests)
    BY <1>3, <1>4, <1>6, FilledPipeline
  <2> QED BY <2>1 DEF Filled
<1>8. /\ AnswersMatchPipeline' /\ requests' \in Seq(Batch)
      /\ stream # "ready" => requests' = requests
  <2> DEFINE n == IF Refusing THEN Len(responses) - 1 ELSE Len(responses)
  <2>1. /\ Len(responses) <= Len(pendingWrites)
        /\ \A i \in 1 .. n : log[responses[i]] = pendingWrites[i].write
        /\ stream = "ready" /\ ~Refusing =>
             requests = SubSeq(pendingWrites, Len(responses) + 1, Len(pendingWrites))
    BY DEF PipelineInv, AnswersMatchPipeline
  <2>2. \A i \in 1 .. n : i \in 1 .. Len(responses)
    BY <1>4
  <2>3. /\ Len(responses) <= Len(pendingWrites') /\ requests' \in Seq(Batch)
        /\ \A i \in 1 .. Len(responses) : pendingWrites'[i] = pendingWrites[i]
        /\ stream = "ready" /\ ~Refusing =>
             requests' = SubSeq(pendingWrites', Len(responses) + 1, Len(pendingWrites'))
        /\ stream # "ready" => requests' = requests
    <3>1. StillMatch(pendingWrites, requests, stream, Len(responses),
                     pendingWrites', requests')
      BY <1>4, <1>7, <2>1, AnswersStillMatch
    <3> QED BY <2>1, <3>1 DEF StillMatch
  <2>4. Refusing' <=> Refusing
    BY <1>4 DEF Refusing
  <2>5. \A i \in 1 .. n : log'[responses'[i]] = pendingWrites'[i].write
    BY <1>4, <2>1, <2>2, <2>3
  <2> QED BY <1>4, <1>7, <2>3, <2>4, <2>5 DEF AnswersMatchPipeline
<1>9. StreamInOrder'
  BY <1>4, <1>7, <1>8 DEF PipelineInv, StreamInOrder
<1>10. /\ Len(writes') = Len(writes) + 1
       /\ writes' \in Seq([user : Users \cup {Elsewhere}, key : Keys])
  BY <1>2, <1>4
<1>11. /\ WriteNumbers' = 1 .. Len(writes) + 1
       /\ told' \in [WriteNumbers' -> {"waiting", "success", "failure", "gone"}]
       /\ told'[Len(writes) + 1] = "waiting"
       /\ \A w \in WriteNumbers : told'[w] = told[w]
       /\ WriteNumbers' = WriteNumbers \cup {Len(writes) + 1}
  BY <1>4, <1>10, ToldGrows
<1>12. PipelineTypeOK'
  <2>1. budget' \in [Event -> Nat]
    <3>1. "write" \in Event
      BY DEF Event
    <3> QED BY <1>4, <3>1, SpendType
  <2> DEFINE w == Len(writes) + 1
             l == Len(log)
  <2>2. w \in Nat /\ l \in Nat /\ Len(writes) <= w /\ Len(log) <= l
    BY <1>4
  <2> HIDE DEF w, l
  <2>3. /\ log \in Seq(1 .. w)
        /\ cache \in [Keys -> [write : {0} \cup 1 .. w, version : 0 .. l]]
        /\ confirmed \cup refused \cup dropped \subseteq 1 .. w
    BY <1>4, <2>2, GrowingTypes
  <2>4. \A u \in Users : rows'[u] \subseteq Batch /\ blocks'[u] \subseteq Batch
    BY <1>3 DEF QueuesInv, Tables
  <2> QED BY <1>4, <1>6, <1>7, <1>8, <1>10, <1>11, <2>1, <2>3, <2>4
      DEF PipelineTypeOK, Streams, w, l
<1>13. CallersToldTheTruth'
  <2>0. CallersToldTheTruth
    BY DEF PipelineInv
  <2>1. \A x \in WriteNumbers' : /\ told'[x] = "success" => x \in confirmed'
                                 /\ told'[x] = "failure" => x \in refused'
    BY <1>11, <2>0 DEF CallersToldTheTruth
  <2>2. \A u \in Users : blocks[u] \subseteq Unacked(rows[u], lastAcked[u])
    BY <2>0 DEF CallersToldTheTruth
  <2>3. /\ blocks' \in [Users -> SUBSET Batch]
        /\ blocks'[user] = blocks[user] \cup {b}
        /\ \A u \in Users \ {user} : blocks'[u] = blocks[u]
    <3>1. blocks \in [Users -> SUBSET Batch]
      BY DEF PipelineInv, QueuesInv, Tables
    <3>2. blocks' = [blocks EXCEPT ![user] = {c \in @ : c.id # b.id} \cup {b}]
      BY <1>1
    <3>3. \A c \in blocks[user] : c.id # b.id
      BY <1>2, <2>2 DEF Unacked
    <3> QED BY <1>2, <3>1, <3>2, <3>3
  <2>4. /\ \A u \in Users : \A c \in blocks[u] :
             c.write \in WriteNumbers /\ told[c.write] = "waiting"
        /\ \A x \in WriteNumbers : told[x] = "waiting" =>
             \E u \in Users : \E c \in blocks[u] : c.write = x
    <3>1. BlocksMatch(blocks, WriteNumbers, told)
      BY <2>0 DEF CallersToldTheTruth, BlocksMatch
    <3> QED BY <3>1, WaitingBlocks
  <2>5. \A u \in Users : \A c \in blocks'[u] :
          c.write \in WriteNumbers' /\ told'[c.write] = "waiting"
    BY <1>2, <1>11, <2>3, <2>4
  <2>6. \A x \in WriteNumbers' : told'[x] = "waiting" =>
          \E u \in Users : \E c \in blocks'[u] : c.write = x
    BY <1>2, <1>11, <2>3, <2>4
  <2>7. BlocksMatch(blocks', WriteNumbers', told')
    BY <2>5, <2>6, WaitingBlocks
  <2>8. \A u \in Users : blocks'[u] \subseteq Unacked(rows'[u], lastAcked'[u])
    <3>1. blocks'[user] \subseteq Unacked(rows'[user], lastAcked[user])
      BY <1>2, <2>2, <2>3 DEF Unsent
    <3>2. \A u \in Users \ {user} : rows'[u] = rows[u]
      BY <1>1, NewRow
    <3> QED BY <1>4, <2>2, <2>3, <3>1, <3>2
  <2> QED BY <2>1, <2>7, <2>8 DEF CallersToldTheTruth, BlocksMatch
<1> QED BY <1>3, <1>7, <1>8, <1>9, <1>12, <1>13 DEF PipelineInv

-----------------------------------------------------------------------------
\* An answer arrives: the batch it is for is the lowest unacknowledged one.
LEMMA FirstPending ==
    ASSUME PipelineInv, responses # << >>, NEW b, b = Head(pendingWrites)
    PROVE  /\ stream = "ready"
           /\ pendingWrites # << >> /\ pendingWrites \in Seq(Batch)
           /\ b = pendingWrites[1] /\ b \in Unsent /\ b \in Batch /\ b \in rows[user]
           /\ b.id \in Int /\ lastAcked[user] < b.id /\ b.id < nextBatchID
           /\ b.write \in WriteNumbers
           /\ \A c \in Unsent \ {b} : b.id < c.id
           /\ \A c \in rows[user] : c.id \in Int /\
                (c.id <= b.id <=> c = b \/ c.id <= lastAcked[user])
           /\ Tail(pendingWrites) \in Seq(Batch)
           /\ Len(pendingWrites) \in Nat \ {0}
           /\ Len(Tail(pendingWrites)) = Len(pendingWrites) - 1
           /\ \A i \in 1 .. Len(pendingWrites) - 1 :
                Tail(pendingWrites)[i] = pendingWrites[i + 1]
           /\ Entered(Tail(pendingWrites), lastBatchSeen, Unsent \ {b})
<1>1. /\ pendingWrites \in Seq(Batch) /\ responses \in Seq(0 .. Len(log))
      /\ user \in Users /\ lastAcked[user] \in Int
      /\ rows[user] \in SUBSET Batch /\ nextBatchID \in Nat
  BY DEF PipelineInv, PipelineTypeOK, QueuesInv, Tables
<1>2. stream = "ready" /\ Len(responses) <= Len(pendingWrites)
  BY DEF PipelineInv, StreamInOrder, AnswersMatchPipeline
<1>3. pendingWrites # << >>
  BY <1>1, <1>2, EmptySeq
<1>4. Unsent \in SUBSET Batch /\ MaxPendingWrites \in Nat
  BY <1>1, PipelineAssumption DEF Unsent, Unacked
<1>5. Lists(pendingWrites, Unsent, MaxPendingWrites)
  BY DEF PipelineInv, PipelineInOrder
<1>6. /\ b \in Unsent /\ b = pendingWrites[1]
      /\ \A c \in Unsent \ {b} : b.id < c.id
      /\ Tail(pendingWrites) \in Seq(Unsent \ {b})
      /\ Len(pendingWrites) \in Nat \ {0}
      /\ Len(Tail(pendingWrites)) = Len(pendingWrites) - 1
      /\ \A i \in 1 .. Len(pendingWrites) - 1 :
           Tail(pendingWrites)[i] = pendingWrites[i + 1]
      /\ IdsAscend(Tail(pendingWrites))
      /\ \A c \in Unsent \ {b} : Occurs(c, pendingWrites) => Occurs(c, Tail(pendingWrites))
  BY <1>3, <1>4, <1>5, HeadAndTail, ZenonT(30)
<1>7. /\ b \in rows[user] /\ b \in Batch /\ b.id \in Int /\ lastAcked[user] < b.id
      /\ \A c \in rows[user] : c.id \in Int
  BY <1>1, <1>6 DEF Unsent, Unacked, Batch
<1>8. b.id < nextBatchID /\ b.write \in WriteNumbers
  BY <1>1, <1>7 DEF PipelineInv, QueuesInv, IdsInOrder, Tables
<1>9. ASSUME NEW c \in rows[user]
      PROVE  c.id <= b.id <=> c = b \/ c.id <= lastAcked[user]
  <2>1. CASE c.id <= lastAcked[user]
    BY <1>1, <1>7, <2>1
  <2>2. CASE ~(c.id <= lastAcked[user])
    <3>1. c \in Unsent
      BY <1>1, <1>7, <2>2 DEF Unsent, Unacked
    <3> QED BY <1>6, <1>7, <2>2, <3>1
  <2> QED BY <2>1, <2>2
<1>10. Entered(Tail(pendingWrites), lastBatchSeen, Unsent \ {b})
  <2>1. Entered(pendingWrites, lastBatchSeen, Unsent)
    BY DEF PipelineInv, PipelineInOrder
  <2>2. Len(Tail(pendingWrites)) <= MaxPendingWrites
    BY <1>4, <1>6, <2>1 DEF Entered
  <2>3. \A i \in 1 .. Len(Tail(pendingWrites)) :
          Tail(pendingWrites)[i].id <= lastBatchSeen
    <3>1. \A i \in 1 .. Len(pendingWrites) - 1 : i + 1 \in 1 .. Len(pendingWrites)
      BY <1>6
    <3> QED BY <1>6, <2>1, <3>1 DEF Entered
  <2> QED BY <1>6, <2>1, <2>2, <2>3 DEF Entered
<1>11. Tail(pendingWrites) \in Seq(Batch)
  BY <1>1, <1>3, HeadTailProperties
<1> QED BY <1>1, <1>2, <1>3, <1>6, <1>7, <1>8, <1>9, <1>10, <1>11

\* Fewer rows keep their order.
LEMMA FewerRows ==
    ASSUME PipelineInv, rows' \in [Users -> SUBSET Batch],
           blocks' \in [Users -> SUBSET Batch],
           \A u \in Users : rows'[u] \subseteq rows[u],
           WriteNumbers' = WriteNumbers
    PROVE  /\ Tables' /\ OneRowPerWrite'
           /\ \A u, v \in Users : \A b \in rows'[u], c \in rows'[v] :
                b.id = c.id => u = v /\ b = c
<1>1. \A u \in Users : IsFiniteSet(rows'[u])
  BY FS_Subset DEF PipelineInv, QueuesInv, Tables
<1>2. Tables'
  BY <1>1 DEF PipelineInv, QueuesInv, Tables
<1>3. OneRowPerWrite'
  BY DEF PipelineInv, QueuesInv, OneRowPerWrite
<1>4. \A u, v \in Users : \A b \in rows'[u], c \in rows'[v] :
        b.id = c.id => u = v /\ b = c
  BY DEF PipelineInv, QueuesInv, IdsInOrder
<1> QED BY <1>2, <1>3, <1>4

\* The batches of held results.
HeldBatches(h) == {h[i].batch : i \in DOMAIN h}

HeldResult == [batch : Batch, version : Nat]

\* The ids of held batches ascend.
HeldAscend(h) == \A i, j \in DOMAIN h : i < j => h[i].batch.id < h[j].batch.id

\* A result held after the others comes last.
LEMMA HoldOneMore ==
    ASSUME NEW h \in Seq(HeldResult), HeldAscend(h), NEW e \in HeldResult,
           \A i \in DOMAIN h : h[i].batch.id < e.batch.id
    PROVE  /\ HeldBatches(h \o << e >>) = HeldBatches(h) \cup {e.batch}
           /\ HeldAscend(h \o << e >>)
           /\ (h \o << e >>)[Len(h \o << e >>)] = e
<1> DEFINE g == h \o << e >>
<1>1. Len(h) \in Nat /\ DOMAIN h = 1 .. Len(h)
  BY LenProperties
<1>2. g = Append(h, e)
  BY AppendIsConcat
<1>3. /\ g \in Seq(HeldResult) /\ Len(g) = Len(h) + 1 /\ g[Len(h) + 1] = e
      /\ \A i \in 1 .. Len(h) : g[i] = h[i]
  BY <1>2, AppendProperties
<1> HIDE DEF g
<1>4. DOMAIN g = 1 .. Len(h) + 1
  BY <1>3, LenProperties
<1>5. \A i \in DOMAIN g : i \in DOMAIN h \/ i = Len(h) + 1
  BY <1>1, <1>4
<1>6. \A i \in DOMAIN h : i \in DOMAIN g /\ g[i] = h[i] /\ i < Len(h) + 1
  BY <1>1, <1>3, <1>4
<1>7. Len(h) + 1 \in DOMAIN g
  BY <1>1, <1>4
<1>8. HeldBatches(g) = HeldBatches(h) \cup {e.batch}
  <2>1. \A x \in HeldBatches(g) : x \in HeldBatches(h) \cup {e.batch}
    BY <1>3, <1>5, <1>6 DEF HeldBatches
  <2>2. \A x \in HeldBatches(h) \cup {e.batch} : x \in HeldBatches(g)
    BY <1>3, <1>6, <1>7 DEF HeldBatches
  <2> QED BY <2>1, <2>2
<1>9. HeldAscend(g)
  <2> SUFFICES ASSUME NEW i \in DOMAIN g, NEW j \in DOMAIN g, i < j
               PROVE  g[i].batch.id < g[j].batch.id
    BY DEF HeldAscend
  <2>1. i \in DOMAIN h
    BY <1>1, <1>4
  <2>2. CASE j \in DOMAIN h
    BY <1>6, <2>1, <2>2 DEF HeldAscend
  <2>3. CASE j = Len(h) + 1
    BY <1>3, <1>6, <2>1, <2>3
  <2> QED BY <1>5, <2>2, <2>3
<1> QED BY <1>3, <1>8, <1>9 DEF g

\* h is out and then rest.
Released(h, out, rest) ==
    /\ out \in Seq(HeldResult) /\ rest \in Seq(HeldResult)
    /\ \A i \in DOMAIN out : i \in DOMAIN h /\ out[i] = h[i]
    /\ HeldBatches(rest) = HeldBatches(h) \ HeldBatches(out)
    /\ HeldBatches(out) \subseteq HeldBatches(h)
    /\ HeldAscend(rest)
    /\ rest # << >> => h # << >> /\ rest[Len(rest)] = h[Len(h)]

\* Releasing the first n results leaves the others held.
LEMMA ReleaseSome ==
    ASSUME NEW h \in Seq(HeldResult), HeldAscend(h), NEW n \in 0 .. Len(h),
           NEW out, out = SubSeq(h, 1, n),
           NEW rest, rest = SubSeq(h, n + 1, Len(h))
    PROVE  Released(h, out, rest)
<1>1. /\ Len(h) \in Nat /\ DOMAIN h = 1 .. Len(h)
      /\ \A i \in 1 .. Len(h) : h[i] \in HeldResult /\ h[i].batch.id \in Int
  <2>1. Len(h) \in Nat /\ DOMAIN h = 1 .. Len(h)
    BY LenProperties
  <2>2. \A i \in 1 .. Len(h) : h[i] \in HeldResult
    BY ElementOfSeq
  <2>3. \A r \in HeldResult : r.batch.id \in Int
    BY DEF HeldResult, Batch
  <2> QED BY <2>1, <2>2, <2>3
<1>2. /\ out \in Seq(HeldResult) /\ Len(out) = n
      /\ \A i \in 1 .. n : out[i] = h[i]
  <2>1. \A i \in 1 .. n : h[i] \in HeldResult
    BY <1>1
  <2>2. Len(out) = IF 1 <= n THEN n - 1 + 1 ELSE 0
    BY <1>1, <2>1, SubSeqProperties
  <2>3. /\ out \in Seq(HeldResult)
        /\ \A i \in 1 .. n - 1 + 1 : out[i] = h[1 + i - 1]
    BY <1>1, <2>1, SubSeqProperties
  <2>4. Len(out) = n
    BY <1>1, <2>2
  <2>5. \A i \in 1 .. n : out[i] = h[i]
    BY <1>1, <2>3
  <2> QED BY <2>3, <2>4, <2>5
<1>3. /\ rest \in Seq(HeldResult) /\ Len(rest) = Len(h) - n
      /\ \A i \in 1 .. Len(h) - n : rest[i] = h[n + i] /\ n + i \in 1 .. Len(h)
  <2>1. \A i \in n + 1 .. Len(h) : h[i] \in HeldResult
    BY <1>1
  <2>2. Len(rest) = IF n + 1 <= Len(h) THEN Len(h) - (n + 1) + 1 ELSE 0
    BY <1>1, <2>1, SubSeqProperties
  <2>3. /\ rest \in Seq(HeldResult)
        /\ \A i \in 1 .. Len(h) - (n + 1) + 1 : rest[i] = h[(n + 1) + i - 1]
    BY <1>1, <2>1, SubSeqProperties
  <2>4. Len(rest) = Len(h) - n
    <3>1. n \in Int /\ 0 <= n /\ n <= Len(h)
      BY <1>1
    <3>2. CASE n + 1 <= Len(h)
      BY <1>1, <2>2, <3>1, <3>2
    <3>3. CASE ~(n + 1 <= Len(h))
      <4>1. Len(h) - n = 0
        <5>1. Len(h) \in Int
          BY <1>1
        <5> QED BY ONLY <3>1, <3>3, <5>1
      <4>2. Len(rest) = 0
        BY <2>2, <3>3
      <4> QED BY <4>1, <4>2
    <3> QED BY <3>2, <3>3
  <2>5. \A i \in 1 .. Len(h) - n : rest[i] = h[n + i] /\ n + i \in 1 .. Len(h)
    BY <1>1, <2>3
  <2> QED BY <2>3, <2>4, <2>5
<1>4. DOMAIN out = 1 .. n /\ DOMAIN rest = 1 .. Len(h) - n
  BY <1>2, <1>3, LenProperties
<1>5. \A i \in DOMAIN out : i \in DOMAIN h /\ out[i] = h[i]
  BY <1>1, <1>2, <1>4
<1>6. \A i, j \in 1 .. Len(h) : h[i].batch = h[j].batch => i = j
  BY <1>1, SMTT(30) DEF HeldAscend
<1>7. HeldBatches(out) \subseteq HeldBatches(h)
  BY <1>5 DEF HeldBatches
<1>8. HeldBatches(rest) = HeldBatches(h) \ HeldBatches(out)
  <2>1. ASSUME NEW x \in HeldBatches(rest)
        PROVE  x \in HeldBatches(h) \ HeldBatches(out)
    <3>1. PICK i \in 1 .. Len(h) - n : x = rest[i].batch
      BY <1>4, <2>1 DEF HeldBatches
    <3>2. x = h[n + i].batch /\ n + i \in 1 .. Len(h)
      BY <1>3, <3>1
    <3>3. x \in HeldBatches(h)
      BY <1>1, <3>2 DEF HeldBatches
    <3>4. ASSUME x \in HeldBatches(out)
          PROVE  FALSE
      <4>1. PICK j \in 1 .. n : x = h[j].batch
        BY <1>2, <1>4, <3>4 DEF HeldBatches
      <4>2. j \in 1 .. Len(h) /\ j # n + i
        BY <1>1
      <4> QED BY <1>6, <3>2, <4>1, <4>2
    <3> QED BY <3>3, <3>4
  <2>2. ASSUME NEW x \in HeldBatches(h) \ HeldBatches(out)
        PROVE  x \in HeldBatches(rest)
    <3>1. PICK i \in 1 .. Len(h) : x = h[i].batch
      BY <1>1, <2>2 DEF HeldBatches
    <3>2. i \notin 1 .. n
      BY <1>2, <1>4, <2>2, <3>1 DEF HeldBatches
    <3>3. i - n \in 1 .. Len(h) - n /\ n + (i - n) = i
      BY <1>1, <3>2
    <3>4. rest[i - n] = h[i]
      BY <1>3, <3>3
    <3> QED BY <1>4, <3>1, <3>3, <3>4 DEF HeldBatches
  <2> QED BY <2>1, <2>2
<1>9. HeldAscend(rest)
  <2> SUFFICES ASSUME NEW i \in DOMAIN rest, NEW j \in DOMAIN rest, i < j
               PROVE  rest[i].batch.id < rest[j].batch.id
    BY DEF HeldAscend
  <2>1. n + i < n + j
    BY <1>4
  <2> QED BY <1>1, <1>3, <1>4, <2>1 DEF HeldAscend
<1>10. ASSUME rest # << >>
       PROVE  h # << >> /\ rest[Len(rest)] = h[Len(h)]
  <2>1. Len(h) - n \in 1 .. Len(h) - n /\ n + (Len(h) - n) = Len(h)
    <3>1. Len(rest) \in Nat \ {0}
      BY <1>3, <1>10, EmptySeq
    <3>2. Len(rest) = Len(h) - n
      BY <1>3
    <3>3. Len(h) - n \in Nat \ {0} /\ n \in Int /\ Len(h) \in Int
      <4>1. n \in Int /\ Len(h) \in Int
        BY <1>1
      <4>2. Len(h) - n \in Nat \ {0}
        BY ONLY <3>1, <3>2
      <4> QED BY <4>1, <4>2
    <3> QED BY ONLY <3>3
  <2>2. rest[Len(h) - n] = h[n + (Len(h) - n)]
    BY <1>3, <2>1
  <2>3. rest[Len(rest)] = h[Len(h)]
    BY <1>3, <2>1, <2>2
  <2>4. h # << >>
    BY <1>1, <2>1, EmptySeq
  <2> QED BY <2>3, <2>4
<1> QED BY <1>2, <1>3, <1>5, <1>7, <1>8, <1>9, <1>10 DEF Released

\* Applying results to documents leaves documents.
LEMMA CacheTyped ==
    ASSUME NEW W, NEW V, NEW docs \in [Keys -> [write : W, version : V]],
           NEW rel \in Seq(HeldResult),
           \A i \in DOMAIN rel : rel[i].batch.write \in W
    PROVE  ApplyBatchResults(docs, rel) \in [Keys -> [write : W, version : V]]
<1> DEFINE mine(k) == {i \in DOMAIN rel : /\ writes[rel[i].batch.write].key = k
                                          /\ docs[k].version < rel[i].version}
           new(k) == IF mine(k) = {} THEN docs[k]
                     ELSE [docs[k] EXCEPT !.write = rel[Max(mine(k))].batch.write]
<1>1. ASSUME NEW k \in Keys
      PROVE  new(k) \in [write : W, version : V]
  <2>1. CASE mine(k) = {}
    BY <2>1
  <2>2. CASE mine(k) # {}
    <3>1. mine(k) \in SUBSET (1 .. Len(rel)) /\ mine(k) \in SUBSET Int
      BY LenProperties
    <3>2. IsFiniteSet(mine(k))
      BY <3>1, FS_Interval, FS_Subset, LenProperties
    <3> DEFINE m == Max(mine(k))
    <3>3. m \in DOMAIN rel
      <4>1. Max(mine(k)) \in mine(k)
        BY <2>2, <3>1, <3>2, MaxOfSet
      <4> QED BY <4>1
    <3>4. new(k) = [docs[k] EXCEPT !.write = rel[m].batch.write]
      BY <2>2
    <3> HIDE DEF m
    <3> QED BY <3>3, <3>4, ZenonT(30)
  <2> QED BY <2>1, <2>2
<1>2. ApplyBatchResults(docs, rel) = [k \in Keys |-> new(k)]
  BY DEF ApplyBatchResults
<1> HIDE DEF new
<1> QED BY <1>1, <1>2

\* No write enters or leaves a queue of unacknowledged batches.
QueuesStay ==
    \A u \in Users : Unacked(rows'[u], lastAcked'[u]) = Unacked(rows[u], lastAcked[u])

\* Releasing held results removes their rows, the first of the acknowledged
\* ones, and no other.
LEMMA ReleaseKeepsQueues ==
    ASSUME PipelineInv, NEW docs, NEW remote, NEW active,
           docs \in [Keys -> [write : {0} \cup WriteNumbers, version : 0 .. Len(log)]],
           ReleaseHeldBatchResults(docs, remote, active),
           UNCHANGED <<writes, lastAcked, user, nextBatchID, blocks, confirmed>>
    PROVE  /\ QueuesInv'
           /\ cache' \in [Keys -> [write : {0} \cup WriteNumbers,
                                   version : 0 .. Len(log)]]
           /\ held' \in Seq([batch : Batch, version : 1 .. Len(log)])
           /\ rows' \in [Users -> SUBSET Batch]
           /\ \A u \in Users :
                Unacked(rows'[u], lastAcked[u]) = Unacked(rows[u], lastAcked[u])
<1> DEFINE prefix == {i \in 0 .. Len(held) :
                        \A j \in 1 .. i : IsRemoteUpTo(held[j].version, remote, active)}
           n == Max(prefix)
           rel == SubSeq(held, 1, n)
           Result == [batch : Batch, version : 1 .. Len(log)]
<1>1. /\ held \in Seq(Result) /\ user \in Users /\ Len(log) \in Nat
      /\ lastAcked \in [Users -> Int] /\ rows \in [Users -> SUBSET Batch]
      /\ Len(held) \in Nat
  BY DEF PipelineInv, PipelineTypeOK, QueuesInv, Tables
<1>2. held \in Seq(HeldResult) /\ \A i \in 1 .. Len(held) : held[i] \in Result
  <2>1. Result \subseteq HeldResult
    BY <1>1 DEF HeldResult
  <2> HIDE DEF Result
  <2> QED BY <1>1, <2>1, SeqMonotonic, ElementOfSeq
<1>3. n \in 0 .. Len(held)
  <2>1. prefix \in SUBSET (0 .. Len(held)) /\ prefix \in SUBSET Int /\ 0 \in prefix
    BY <1>1
  <2>2. IsFiniteSet(prefix)
    <3>1. IsFiniteSet(0 .. Len(held))
      BY <1>1, FS_Interval
    <3> HIDE DEF prefix
    <3> QED BY <2>1, <3>1, FS_Subset
  <2> HIDE DEF prefix
  <2>3. Max(prefix) \in prefix
    BY <2>1, <2>2, MaxOfSet
  <2> QED BY <2>1, <2>3
<1>4. /\ held' = SubSeq(held, n + 1, Len(held))
      /\ cache' = ApplyBatchResults(docs, rel)
      /\ rows' = [rows EXCEPT ![user] = @ \ HeldBatches(rel)]
  BY DEF ReleaseHeldBatchResults, RemoveBatches, HeldBatches
<1> HIDE DEF n
<1>5. /\ HeldAscend(held)
      /\ held # << >> => held[Len(held)].batch.id = lastAcked[user]
      /\ {b \in rows[user] : b.id <= lastAcked[user]} = HeldBatches(held)
      /\ \A u \in Users : \A b \in rows[u] :
           /\ b.id < nextBatchID /\ b.write \in WriteNumbers
           /\ b.id <= lastAcked[u] => b.write \in confirmed
      /\ \A u \in Users : lastAcked[u] >= nextBatchID => rows[u] = {}
  BY DEF PipelineInv, QueuesInv, HeldInOrder, IdsInOrder, Tables, HeldAscend,
     HeldBatches
<1>6. /\ rel \in Seq(HeldResult) /\ held' \in Seq(HeldResult)
      /\ \A i \in DOMAIN rel : i \in DOMAIN held /\ rel[i] = held[i]
      /\ HeldBatches(held') = HeldBatches(held) \ HeldBatches(rel)
      /\ HeldBatches(rel) \subseteq HeldBatches(held)
      /\ HeldAscend(held')
      /\ held' # << >> => held # << >> /\ held'[Len(held')] = held[Len(held)]
  <2>1. rel = SubSeq(held, 1, n)
    OBVIOUS
  <2> HIDE DEF rel
  <2>2. PICK rest : rest = SubSeq(held, n + 1, Len(held))
    OBVIOUS
  <2>3. held' = rest
    BY <1>4, <2>2
  <2>4. HeldAscend(held)
    BY <1>5
  <2>5. Released(held, rel, rest)
    BY <1>2, <1>3, <2>1, <2>2, <2>4, ReleaseSome
  <2> QED BY <2>3, <2>5 DEF Released
<1> HIDE DEF rel
<1>7. /\ rows' \in [Users -> SUBSET Batch]
      /\ rows'[user] = rows[user] \ HeldBatches(rel)
      /\ \A u \in Users \ {user} : rows'[u] = rows[u]
      /\ \A u \in Users : rows'[u] \subseteq rows[u]
  BY <1>1, <1>4
<1>8. \A b \in HeldBatches(rel) : b \in rows[user] /\ b.id <= lastAcked[user]
  BY <1>5, <1>6
<1>9. {b \in rows'[user] : b.id <= lastAcked[user]} = HeldBatches(held')
  BY <1>5, <1>6, <1>7
<1>10. /\ Tables' /\ OneRowPerWrite'
       /\ \A u, v \in Users : \A b \in rows'[u], c \in rows'[v] :
            b.id = c.id => u = v /\ b = c
  <2>1. blocks' \in [Users -> SUBSET Batch] /\ WriteNumbers' = WriteNumbers
    BY DEF PipelineInv, QueuesInv, Tables, WriteNumbers
  <2> QED BY <1>7, <2>1, FewerRows
<1>11. IdsInOrder'
  <2>1. \A u \in Users : \A b \in rows'[u] :
          /\ b.id < nextBatchID
          /\ b.id <= lastAcked[u] => b.write \in confirmed
    BY <1>5, <1>7
  <2>2. \A u \in Users : lastAcked[u] >= nextBatchID => rows'[u] = {}
    BY <1>5, <1>7
  <2> QED BY <1>9, <1>10, <2>1, <2>2 DEF IdsInOrder, HeldBatches
<1>12. HeldInOrder'
  BY <1>5, <1>6 DEF HeldInOrder, HeldAscend
<1>13. NumberingAhead'
  BY DEF PipelineInv, QueuesInv, NumberingAhead
<1>14. LastAckedStays'
  <2>1. ASSUME NEW u \in Users, NEW b \in rows'[u], b.id <= lastAcked[u]
        PROVE  \E c \in rows'[u] : c.id = lastAcked[u]
    <3>1. CASE u = user
      <4>1. HeldBatches(held') # {}
        BY <1>9, <2>1, <3>1
      <4>2. held' # << >> /\ Len(held') \in DOMAIN held'
        <5>1. Len(held') \in Nat /\ DOMAIN held' = 1 .. Len(held')
          BY <1>6, LenProperties
        <5>2. \E i : i \in DOMAIN held'
          BY <4>1 DEF HeldBatches
        <5>3. Len(held') >= 1
          BY <5>1, <5>2
        <5> QED BY <5>1, <5>3, EmptySeq
      <4>3. held'[Len(held')].batch \in HeldBatches(held')
        BY <4>2 DEF HeldBatches
      <4>4. held'[Len(held')].batch.id = lastAcked[user]
        BY <1>5, <1>6, <4>2
      <4> QED BY <1>9, <3>1, <4>3, <4>4
    <3>2. CASE u # user
      <4>1. rows'[u] = rows[u]
        BY <1>7, <3>2
      <4> QED BY <2>1, <4>1 DEF PipelineInv, QueuesInv, LastAckedStays
    <3> QED BY <3>1, <3>2
  <2> QED BY <2>1 DEF LastAckedStays
<1>15. cache' \in [Keys -> [write : {0} \cup WriteNumbers, version : 0 .. Len(log)]]
  <2> DEFINE W == {0} \cup WriteNumbers
             V == 0 .. Len(log)
  <2>1. \A i \in DOMAIN rel : rel[i].batch.write \in W
    <3>1. \A i \in DOMAIN rel : rel[i].batch \in HeldBatches(rel)
      BY DEF HeldBatches
    <3> QED BY <1>1, <1>5, <1>8, <3>1
  <2>2. docs \in [Keys -> [write : W, version : V]]
    OBVIOUS
  <2> HIDE DEF W, V
  <2>3. ApplyBatchResults(docs, rel) \in [Keys -> [write : W, version : V]]
    BY <1>6, <2>1, <2>2, CacheTyped
  <2> QED BY <1>4, <2>3 DEF W, V
<1>16. held' \in Seq(Result)
  <2>1. \A i \in 1 .. Len(held') : held'[i] \in Result
    <3>1. \A i \in n + 1 .. Len(held) : held[i] \in Result
      BY <1>1, <1>2, <1>3
    <3> HIDE DEF Result
    <3>2. held' \in Seq(Result)
      BY <1>1, <1>3, <1>4, <3>1, SubSeqProperties
    <3> QED BY <3>2, ElementOfSeq
  <2> HIDE DEF Result
  <2> QED BY <1>6, <2>1, SeqOfElements
<1>17. \A u \in Users : Unacked(rows'[u], lastAcked[u]) = Unacked(rows[u], lastAcked[u])
  <2>1. Unacked(rows'[user], lastAcked[user]) = Unacked(rows[user], lastAcked[user])
    <3>1. \A b \in HeldBatches(rel) : ~(b.id > lastAcked[user])
      <4>1. \A b \in HeldBatches(rel) : b.id \in Int /\ lastAcked[user] \in Int
        BY <1>1, <1>8 DEF Batch
      <4> QED BY <1>8, <4>1
    <3> QED BY <1>7, <3>1 DEF Unacked
  <2> QED BY <1>7, <2>1
<1>18. QueuesInv'
  BY <1>10, <1>11, <1>12, <1>13, <1>14 DEF QueuesInv
<1> QED BY <1>7, <1>15, <1>16, <1>17, <1>18

\* What waits and what is told does not depend on acknowledged rows.
LEMMA SameQueues ==
    ASSUME PipelineInv,
           UNCHANGED <<writes, lastAcked, user, nextBatchID, blocks, told, confirmed,
                       refused, pendingWrites, lastBatchSeen, stream>>,
           \A u \in Users :
             Unacked(rows'[u], lastAcked[u]) = Unacked(rows[u], lastAcked[u])
    PROVE  PipelineInOrder' /\ CallersToldTheTruth'
<1>1. Unsent' = Unsent
  BY DEF Unsent, PipelineInv, PipelineTypeOK
<1>2. PipelineInOrder'
  BY <1>1 DEF PipelineInv, PipelineInOrder
<1>3. CallersToldTheTruth'
  <2>1. BlocksMatch(blocks, WriteNumbers, told)
    BY DEF PipelineInv, CallersToldTheTruth, BlocksMatch
  <2>2. BlocksMatch(blocks', WriteNumbers', told')
    BY <2>1 DEF WriteNumbers
  <2>3. \A w \in WriteNumbers' : /\ told'[w] = "success" => w \in confirmed'
                                 /\ told'[w] = "failure" => w \in refused'
    BY DEF PipelineInv, CallersToldTheTruth, WriteNumbers
  <2>4. \A u \in Users : blocks'[u] \subseteq Unacked(rows'[u], lastAcked'[u])
    BY DEF PipelineInv, CallersToldTheTruth
  <2> QED BY <2>2, <2>3, <2>4 DEF CallersToldTheTruth, BlocksMatch
<1> QED BY <1>2, <1>3

\* The invariant after results were released, on whatever documents.
LEMMA ReleaseStep ==
    ASSUME PipelineInv, NEW docs, NEW remote, NEW active,
           docs \in [Keys -> [write : {0} \cup WriteNumbers, version : 0 .. Len(log)]],
           ReleaseHeldBatchResults(docs, remote, active),
           UNCHANGED <<writes, log, lastAcked, user, nextBatchID, blocks, pipeline,
                       floor, ghosts, budget>>,
           remoteVersion' \in 0 .. Len(log), resume' \in [Targets -> 0 .. Len(log)],
           targets' \subseteq Targets
    PROVE  PipelineInv' /\ QueuesStay
<1>1. UNCHANGED <<told, confirmed, refused, dropped, pendingWrites, lastBatchSeen,
                  stream, idleTimer, requests, responses>>
  BY DEF pipeline, ghosts
<1>2. /\ QueuesInv'
      /\ cache' \in [Keys -> [write : {0} \cup WriteNumbers, version : 0 .. Len(log)]]
      /\ held' \in Seq([batch : Batch, version : 1 .. Len(log)])
      /\ rows' \in [Users -> SUBSET Batch]
      /\ \A u \in Users :
           Unacked(rows'[u], lastAcked[u]) = Unacked(rows[u], lastAcked[u])
  BY <1>1, ReleaseKeepsQueues
<1>3. PipelineTypeOK'
  BY <1>1, <1>2 DEF PipelineInv, PipelineTypeOK, WriteNumbers
<1>4. PipelineInOrder' /\ CallersToldTheTruth'
  BY <1>1, <1>2, SameQueues
<1>5. StreamInOrder' /\ AnswersMatchPipeline'
  BY <1>1, Unaffected DEF PipelineInv
<1>6. QueuesStay
  BY <1>2 DEF QueuesStay
<1> QED BY <1>2, <1>3, <1>4, <1>5, <1>6 DEF PipelineInv

\* A query that ends may release what was held; no unacknowledged write goes.
LEMMA ReleaseQueryStep ==
    ASSUME PipelineInv, NEW t \in Targets, ReleaseQuery(t)
    PROVE  PipelineInv' /\ QueuesStay
<1>1. /\ UNCHANGED <<writes, log, lastAcked, remoteVersion, resume, user,
                     nextBatchID, blocks, pipeline, floor, ghosts, budget>>
      /\ targets' = targets \ {t}
  BY DEF ReleaseQuery
<1>2. /\ cache \in [Keys -> [write : {0} \cup WriteNumbers, version : 0 .. Len(log)]]
      /\ remoteVersion' \in 0 .. Len(log) /\ resume' \in [Targets -> 0 .. Len(log)]
      /\ targets' \subseteq Targets
  BY <1>1 DEF PipelineInv, PipelineTypeOK
<1>3. CASE ReleaseHeldBatchResults(cache, remoteVersion, {})
  BY <1>1, <1>2, <1>3, ReleaseStep
<1>4. CASE UNCHANGED <<held, cache, rows>>
  <2>1. PipelineTypeOK'
    BY <1>1, <1>2, <1>4 DEF PipelineInv, PipelineTypeOK, WriteNumbers, pipeline, ghosts
  <2>2. /\ QueuesInv' /\ CallersToldTheTruth' /\ PipelineInOrder'
        /\ StreamInOrder' /\ AnswersMatchPipeline'
    BY <1>1, <1>4, Unaffected DEF PipelineInv, pipeline, ghosts
  <2>3. QueuesStay
    BY <1>1, <1>4 DEF QueuesStay
  <2> QED BY <2>1, <2>2, <2>3 DEF PipelineInv
<1> QED BY <1>3, <1>4 DEF ReleaseQuery

\* A snapshot of the watch stream updates the cache and releases what it has
\* caught up with.
LEMMA WatchSnapshotStep ==
    ASSUME PipelineInv, NEW v \in 1 .. Len(log), WatchSnapshot(v)
    PROVE  PipelineInv' /\ QueuesStay
<1> DEFINE since == Min({resume[t] : t \in targets})
           docs == [k \in Keys |->
                      IF /\ VersionAt(k, v) > since
                         /\ VersionAt(k, v) >= cache[k].version
                      THEN [write |-> log[VersionAt(k, v)],
                            version |-> VersionAt(k, v)]
                      ELSE cache[k]]
<1>1. /\ UNCHANGED <<writes, log, lastAcked, user, nextBatchID, targets, blocks,
                     pipeline, floor, ghosts, budget>>
      /\ remoteVersion' = v
      /\ resume' = [t \in Targets |-> IF t \in targets THEN v ELSE resume[t]]
      /\ targets # {}
      /\ ReleaseHeldBatchResults(docs, v, targets)
  BY DEF WatchSnapshot
<1>2. /\ cache \in [Keys -> [write : {0} \cup WriteNumbers, version : 0 .. Len(log)]]
      /\ log \in Seq(WriteNumbers) /\ Len(log) \in Nat
      /\ resume \in [Targets -> 0 .. Len(log)] /\ targets \subseteq Targets
  BY DEF PipelineInv, PipelineTypeOK
<1>3. since >= 0 /\ since \in Int
  <2> DEFINE R == {resume[t] : t \in targets}
  <2>1. R \in SUBSET (0 .. Len(log)) /\ R \in SUBSET Int /\ R # {}
    BY <1>1, <1>2
  <2>2. IsFiniteSet(R)
    <3>1. IsFiniteSet(0 .. Len(log))
      BY <1>2, FS_Interval
    <3> HIDE DEF R
    <3> QED BY <2>1, <3>1, FS_Subset
  <2>3. Min(R) \in 0 .. Len(log)
    <3> HIDE DEF R
    <3>1. Min(R) \in R
      BY <2>1, <2>2, MinOfSet
    <3> QED BY <2>1, <3>1
  <2> QED BY <1>2, <2>3
<1>4. ASSUME NEW k \in Keys
      PROVE  VersionAt(k, v) \in 0 .. Len(log)
  <2> DEFINE P == {i \in 1 .. v : writes[log[i]].key = k} \cup {0}
  <2>1. P \in SUBSET (0 .. Len(log)) /\ P \in SUBSET Int /\ P # {}
    BY <1>2
  <2>2. IsFiniteSet(P)
    <3>1. IsFiniteSet(0 .. Len(log))
      BY <1>2, FS_Interval
    <3> HIDE DEF P
    <3> QED BY <2>1, <3>1, FS_Subset
  <2>3. VersionAt(k, v) = Max(P)
    BY DEF VersionAt
  <2> HIDE DEF P
  <2>4. Max(P) \in P
    BY <2>1, <2>2, MaxOfSet
  <2> QED BY <2>1, <2>3, <2>4
<1>5. docs \in [Keys -> [write : {0} \cup WriteNumbers, version : 0 .. Len(log)]]
  <2> HIDE DEF since
  <2>1. ASSUME NEW k \in Keys, VersionAt(k, v) > since
        PROVE  [write |-> log[VersionAt(k, v)], version |-> VersionAt(k, v)]
                 \in [write : {0} \cup WriteNumbers, version : 0 .. Len(log)]
    <3>1. VersionAt(k, v) \in 1 .. Len(log)
      BY <1>2, <1>3, <1>4, <2>1
    <3>2. log[VersionAt(k, v)] \in WriteNumbers
      BY <1>2, <3>1, ElementOfSeq
    <3> QED BY <1>4, <3>2
  <2> QED BY <1>2, <2>1
<1>6. /\ remoteVersion' \in 0 .. Len(log) /\ resume' \in [Targets -> 0 .. Len(log)]
      /\ targets' \subseteq Targets
  <2>1. v \in 0 .. Len(log)
    BY <1>2
  <2> QED BY <1>1, <1>2, <2>1
<1> HIDE DEF docs
<1> QED BY <1>1, <1>5, <1>6, ReleaseStep

\* The caller told is that of the write that was answered.
LEMMA CallbackTells ==
    ASSUME PipelineInv, NEW b \in Unsent, NEW answer \in {"success", "failure"},
           ProcessUserCallbacks(b.id, answer), writes' = writes,
           confirmed \subseteq confirmed', refused \subseteq refused',
           answer = "success" => b.write \in confirmed',
           answer = "failure" => b.write \in refused',
           Unsent \ {b} \subseteq Unacked(rows'[user], lastAcked'[user]),
           \A u \in Users \ {user} : Unacked(rows'[u], lastAcked'[u])
                                       = Unacked(rows[u], lastAcked[u])
    PROVE  /\ CallersToldTheTruth'
           /\ told' \in [WriteNumbers -> {"waiting", "success", "failure", "gone"}]
           /\ blocks' \in [Users -> SUBSET Batch]
<1>1. /\ blocks \in [Users -> SUBSET Batch] /\ user \in Users
      /\ told \in [WriteNumbers -> {"waiting", "success", "failure", "gone"}]
      /\ WriteNumbers' = WriteNumbers
  BY DEF PipelineInv, PipelineTypeOK, QueuesInv, Tables, WriteNumbers
<1>2. /\ \A u \in Users : blocks[u] \subseteq Unacked(rows[u], lastAcked[u])
      /\ \A w \in WriteNumbers : /\ told[w] = "success" => w \in confirmed
                                 /\ told[w] = "failure" => w \in refused
      /\ BlocksMatch(blocks, WriteNumbers, told)
  BY DEF PipelineInv, CallersToldTheTruth, BlocksMatch
<1>3. \A u \in Users : \A c \in blocks[u] : c \in rows[u]
  BY <1>2 DEF Unacked
<1>4. b \in rows[user]
  BY DEF Unsent, Unacked
<1>5. \A c \in blocks[user] : c.id = b.id <=> c = b
  BY <1>1, <1>3, <1>4 DEF PipelineInv, QueuesInv, IdsInOrder
<1>6. \A u \in Users : \A c \in blocks[u] : c.write = b.write => u = user /\ c = b
  BY <1>1, <1>3, <1>4 DEF PipelineInv, QueuesInv, OneRowPerWrite
<1>7. /\ blocks' \in [Users -> SUBSET Batch]
      /\ blocks'[user] = blocks[user] \ {b}
      /\ \A u \in Users \ {user} : blocks'[u] = blocks[u]
  <2>1. blocks' = [blocks EXCEPT ![user] = {c \in @ : c.id # b.id}]
    BY DEF ProcessUserCallbacks
  <2>2. {c \in blocks[user] : c.id # b.id} = blocks[user] \ {b}
    BY <1>5
  <2> QED BY <1>1, <2>1, <2>2
<1>8. /\ told' \in [WriteNumbers -> {"waiting", "success", "failure", "gone"}]
      /\ \A w \in WriteNumbers :
           told'[w] = IF w = b.write /\ b \in blocks[user] THEN answer ELSE told[w]
  <2>1. told' = [w \in WriteNumbers |->
                   IF \E c \in blocks[user] : c.id = b.id /\ c.write = w
                   THEN answer ELSE told[w]]
    BY <1>1 DEF ProcessUserCallbacks
  <2>2. \A w : (\E c \in blocks[user] : c.id = b.id /\ c.write = w)
                 <=> w = b.write /\ b \in blocks[user]
    BY <1>5
  <2>3. told' = [w \in WriteNumbers |->
                   IF w = b.write /\ b \in blocks[user] THEN answer ELSE told[w]]
    BY <2>1, <2>2
  <2> QED BY <1>1, <2>3
<1>9. \A w \in WriteNumbers : /\ told'[w] = "success" => w \in confirmed'
                              /\ told'[w] = "failure" => w \in refused'
  BY <1>2, <1>8
<1>10. /\ \A u \in Users : \A c \in blocks[u] :
            c.write \in WriteNumbers /\ told[c.write] = "waiting"
       /\ \A x \in WriteNumbers : told[x] = "waiting" =>
            \E u \in Users : \E c \in blocks[u] : c.write = x
  BY <1>2, WaitingBlocks
<1>11. \A u \in Users : \A c \in blocks'[u] : c \in blocks[u] /\ c.write # b.write
  <2> TAKE u \in Users
  <2> TAKE c \in blocks'[u]
  <2>1. CASE u = user
    BY <1>6, <1>7, <2>1
  <2>2. CASE u # user
    BY <1>6, <1>7, <2>2
  <2> QED BY <2>1, <2>2
<1>12. \A u \in Users : \A c \in blocks[u] : c.write # b.write => c \in blocks'[u]
  <2> TAKE u \in Users
  <2> TAKE c \in blocks[u]
  <2> HAVE c.write # b.write
  <2>1. CASE u = user
    BY <1>7, <2>1
  <2>2. CASE u # user
    BY <1>7, <2>2
  <2> QED BY <2>1, <2>2
<1>13. BlocksMatch(blocks', WriteNumbers', told')
  <2>1. \A u \in Users : \A c \in blocks'[u] :
          c.write \in WriteNumbers' /\ told'[c.write] = "waiting"
    BY <1>1, <1>8, <1>10, <1>11
  <2>2. ASSUME NEW x \in WriteNumbers', told'[x] = "waiting"
        PROVE  \E u \in Users : \E c \in blocks'[u] : c.write = x
    <3>1. told[x] = "waiting" /\ ~(x = b.write /\ b \in blocks[user])
      BY <1>1, <1>8, <2>2
    <3>2. PICK u \in Users : \E c \in blocks[u] : c.write = x
      BY <1>1, <1>10, <3>1
    <3>3. PICK c \in blocks[u] : c.write = x
      BY <3>2
    <3>4. c.write # b.write
      BY <1>6, <3>1, <3>3
    <3> QED BY <1>12, <3>3, <3>4
  <2> QED BY <2>1, <2>2, WaitingBlocks
<1>14. \A u \in Users : blocks'[u] \subseteq Unacked(rows'[u], lastAcked'[u])
  <2> TAKE u \in Users
  <2>1. CASE u = user
    <3>1. blocks[user] \subseteq Unsent
      BY <1>1, <1>2 DEF Unsent
    <3> QED BY <1>7, <2>1, <3>1
  <2>2. CASE u # user
    BY <1>2, <1>7, <2>2
  <2> QED BY <2>1, <2>2
<1>15. CallersToldTheTruth'
  BY <1>1, <1>9, <1>13, <1>14 DEF CallersToldTheTruth, BlocksMatch
<1> QED BY <1>7, <1>8, <1>15

\* The queues when the lowest unacknowledged batch is acknowledged.
LEMMA AnsweredQueues ==
    ASSUME PipelineInv, ReceiveResponse, NEW b, b = Head(pendingWrites),
           blocks' \in [Users -> SUBSET Batch]
    PROVE  /\ QueuesInv'
           /\ cache' \in [Keys -> [write : {0} \cup WriteNumbers,
                                   version : 0 .. Len(log)]]
           /\ held' \in Seq([batch : Batch, version : 1 .. Len(log)])
           /\ rows' \in [Users -> SUBSET Batch]
           /\ Unacked(rows'[user], lastAcked'[user]) = Unsent \ {b}
           /\ \A u \in Users \ {user} : rows'[u] = rows[u] /\ lastAcked'[u] = lastAcked[u]
<1> DEFINE v == Head(responses)
           e == [batch |-> b, version |-> v]
           result == << e >>
           Result == [batch : Batch, version : 1 .. Len(log)]
<1>1. /\ UNCHANGED <<writes, log, user, nextBatchID>>
      /\ lastAcked' = [lastAcked EXCEPT ![user] = b.id]
      /\ confirmed' = confirmed \cup {b.write}
      /\ \/ held' = held \o result /\ UNCHANGED <<cache, rows>>
         \/ /\ held = << >> /\ held' = held
            /\ cache' = ApplyBatchResults(cache, result)
            /\ rows' = [rows EXCEPT ![user] = RemoveBatches(@, result)]
      /\ responses # << >> /\ v # Refusal
  BY DEF ReceiveResponse, ShouldHold
<1>2. /\ b \in Unsent /\ b \in Batch /\ b \in rows[user] /\ b.id \in Int
      /\ lastAcked[user] < b.id /\ b.id < nextBatchID /\ b.write \in WriteNumbers
      /\ \A c \in Unsent \ {b} : b.id < c.id
      /\ \A c \in rows[user] : c.id \in Int /\
           (c.id <= b.id <=> c = b \/ c.id <= lastAcked[user])
  BY <1>1, FirstPending
<1>3. /\ user \in Users /\ lastAcked \in [Users -> Int] /\ nextBatchID \in Nat
      /\ rows \in [Users -> SUBSET Batch] /\ Len(log) \in Nat
      /\ cache \in [Keys -> [write : {0} \cup WriteNumbers, version : 0 .. Len(log)]]
      /\ held \in Seq(Result) /\ responses \in Seq(0 .. Len(log))
  BY DEF PipelineInv, PipelineTypeOK, QueuesInv, Tables
<1>4. v \in 1 .. Len(log)
  <2>1. v \in 0 .. Len(log)
    BY <1>1, <1>3
  <2> QED BY <1>1, <1>3, <2>1 DEF Refusal
<1>5. e \in Result /\ e \in HeldResult /\ e.batch = b /\ held \in Seq(HeldResult)
  <2>1. Result \subseteq HeldResult
    BY <1>3 DEF HeldResult
  <2>2. e \in Result
    BY <1>2, <1>4
  <2>3. held \in Seq(HeldResult)
    <3> HIDE DEF Result
    <3> QED BY <1>3, <2>1, SeqMonotonic
  <2> QED BY <2>1, <2>2, <2>3
<1>6. /\ HeldAscend(held)
      /\ {c \in rows[user] : c.id <= lastAcked[user]} = HeldBatches(held)
      /\ \A u \in Users : \A c \in rows[u] :
           /\ c.id < nextBatchID /\ c.id \in Int
           /\ c.id <= lastAcked[u] => c.write \in confirmed
      /\ \A u \in Users : lastAcked[u] >= nextBatchID => rows[u] = {}
  BY DEF PipelineInv, QueuesInv, HeldInOrder, IdsInOrder, Tables, HeldAscend,
     HeldBatches, Batch
<1>7. RemoveBatches(rows[user], result) = rows[user] \ {b}
  <2>1. {result[i].batch : i \in DOMAIN result} = {b}
    OBVIOUS
  <2> QED BY <2>1 DEF RemoveBatches
<1> HIDE DEF v, e
<1>8. /\ rows' \in [Users -> SUBSET Batch]
      /\ \A u \in Users : rows'[u] \subseteq rows[u]
      /\ \A u \in Users \ {user} : rows'[u] = rows[u] /\ lastAcked'[u] = lastAcked[u]
      /\ lastAcked'[user] = b.id
      /\ rows'[user] = rows[user] \/ (held = << >> /\ rows'[user] = rows[user] \ {b})
      /\ \A c \in rows[user] : c # b => c \in rows'[user]
  <2>1. CASE rows' = rows
    BY <1>1, <1>3, <2>1
  <2>2. CASE held = << >> /\ rows' = [rows EXCEPT ![user] = @ \ {b}]
    BY <1>1, <1>3, <2>2
  <2> QED BY <1>1, <1>7, <2>1, <2>2
<1>9. /\ Tables' /\ OneRowPerWrite'
      /\ \A x, y \in Users : \A c \in rows'[x], d \in rows'[y] :
           c.id = d.id => x = y /\ c = d
  <2>1. WriteNumbers' = WriteNumbers
    BY <1>1 DEF WriteNumbers
  <2> QED BY <1>8, <2>1, FewerRows
<1>10. Unacked(rows'[user], lastAcked'[user]) = Unsent \ {b}
  <2>1. \A c \in rows[user] : c.id > b.id <=> c \in Unsent \ {b}
    BY <1>2, <1>3 DEF Unsent, Unacked
  <2>2. \A c : c \in Unacked(rows'[user], lastAcked'[user])
                 <=> c \in rows'[user] /\ c.id > b.id
    BY <1>8 DEF Unacked
  <2>3. \A c \in Unsent : c \in rows[user]
    BY DEF Unsent, Unacked
  <2> QED BY <1>8, <2>1, <2>2, <2>3
<1>11. /\ HeldAscend(held')
       /\ held' # << >> => held'[Len(held')].batch.id = b.id
       /\ {c \in rows'[user] : c.id <= b.id} = HeldBatches(held')
       /\ held' \in Seq(Result)
  <2>1. CASE held' = held \o result /\ UNCHANGED <<cache, rows>>
    <3>1. \A i \in DOMAIN held : held[i].batch.id < e.batch.id
      <4>1. \A i \in DOMAIN held : held[i].batch \in HeldBatches(held)
        BY DEF HeldBatches
      <4>2. \A c \in HeldBatches(held) : c \in rows[user] /\ c.id <= lastAcked[user]
        BY <1>6
      <4> QED BY <1>2, <1>3, <1>5, <4>1, <4>2
    <3>2. /\ HeldBatches(held \o << e >>) = HeldBatches(held) \cup {e.batch}
          /\ HeldAscend(held \o << e >>)
          /\ (held \o << e >>)[Len(held \o << e >>)] = e
      BY <1>5, <1>6, <3>1, HoldOneMore
    <3>3. {c \in rows[user] : c.id <= b.id} = HeldBatches(held) \cup {b}
      BY <1>2, <1>6
    <3>4. held' \in Seq(Result)
      <4>1. << e >> \in Seq(Result)
        BY <1>5
      <4> HIDE DEF Result
      <4> QED BY <1>3, <2>1, <4>1, ConcatProperties
    <3> QED BY <1>5, <2>1, <3>2, <3>3, <3>4
  <2>2. CASE held = << >> /\ held' = held /\ rows' = [rows EXCEPT ![user] = @ \ {b}]
    <3>1. HeldBatches(held) = {}
      BY <2>2 DEF HeldBatches
    <3>2. rows'[user] = rows[user] \ {b}
      BY <1>3, <2>2
    <3>3. \A c \in rows'[user] : ~(c.id <= b.id)
      BY <1>2, <1>6, <3>1, <3>2
    <3>4. {c \in rows'[user] : c.id <= b.id} = {}
      BY <3>3
    <3> QED BY <1>3, <1>6, <2>2, <3>1, <3>4
  <2> QED BY <1>1, <1>7, <2>1, <2>2
<1>12. IdsInOrder'
  <2>1. ASSUME NEW u \in Users, NEW c \in rows'[u]
        PROVE  /\ c.id < nextBatchID'
               /\ c.id <= lastAcked'[u] => c.write \in confirmed'
    <3>1. CASE u = user
      BY <1>1, <1>2, <1>6, <1>8, <3>1
    <3>2. CASE u # user
      BY <1>1, <1>6, <1>8, <3>2
    <3> QED BY <3>1, <3>2
  <2>2. ASSUME NEW u \in Users, lastAcked'[u] >= nextBatchID'
        PROVE  rows'[u] = {}
    <3>1. u # user
      BY <1>1, <1>2, <1>3, <1>8, <2>2
    <3> QED BY <1>1, <1>6, <1>8, <2>2, <3>1
  <2>3. {c \in rows'[user'] : c.id <= lastAcked'[user']} = HeldBatches(held')
    BY <1>1, <1>8, <1>11
  <2> QED BY <1>9, <2>1, <2>2, <2>3 DEF IdsInOrder, HeldBatches
<1>13. HeldInOrder'
  BY <1>1, <1>8, <1>11 DEF HeldInOrder, HeldAscend
<1>14. NumberingAhead'
  <2>1. b.id >= Unknown
    BY <1>2 DEF Batch, Unknown
  <2> QED BY <1>1, <1>2, <1>8, <2>1 DEF PipelineInv, QueuesInv, NumberingAhead
<1>15. LastAckedStays'
  <2>1. ASSUME NEW u \in Users, NEW c \in rows'[u], c.id <= lastAcked'[u]
        PROVE  \E d \in rows'[u] : d.id = lastAcked'[u]
    <3>1. CASE u = user
      <4>1. c \in HeldBatches(held')
        BY <1>8, <1>11, <2>1, <3>1
      <4>2. HeldBatches(held') # {}
        BY <4>1
      <4>3. held' # << >>
        BY <4>2 DEF HeldBatches
      <4>4. Len(held') \in DOMAIN held'
        <5>1. Len(held') \in Nat \ {0}
          BY <1>11, <4>3, EmptySeq
        <5>2. DOMAIN held' = 1 .. Len(held')
          BY <1>11, LenProperties
        <5> QED BY <5>1, <5>2
      <4>5. held'[Len(held')].batch \in HeldBatches(held')
        BY <4>4 DEF HeldBatches
      <4> QED BY <1>8, <1>11, <3>1, <4>3, <4>5
    <3>2. CASE u # user
      <4>1. rows'[u] = rows[u] /\ lastAcked'[u] = lastAcked[u]
        BY <1>8, <3>2
      <4> QED BY <2>1, <4>1 DEF PipelineInv, QueuesInv, LastAckedStays
    <3> QED BY <3>1, <3>2
  <2> QED BY <2>1 DEF LastAckedStays
<1>16. cache' \in [Keys -> [write : {0} \cup WriteNumbers, version : 0 .. Len(log)]]
  <2> DEFINE W == {0} \cup WriteNumbers
             V == 0 .. Len(log)
  <2>1. result \in Seq(HeldResult) /\ \A i \in DOMAIN result : result[i].batch.write \in W
    BY <1>2, <1>5
  <2>2. cache \in [Keys -> [write : W, version : V]]
    BY <1>3
  <2> HIDE DEF W, V, result
  <2>3. ApplyBatchResults(cache, result) \in [Keys -> [write : W, version : V]]
    BY <2>1, <2>2, CacheTyped
  <2> QED BY <1>1, <2>2, <2>3 DEF W, V
<1>17. QueuesInv'
  BY <1>9, <1>12, <1>13, <1>14, <1>15 DEF QueuesInv
<1> QED BY <1>8, <1>10, <1>11, <1>16, <1>17

\* The first pending write is acknowledged, held back or released, and the
\* pipeline filled up (FSTRemoteStore's writeStreamDidReceiveResponse).
LEMMA ReceiveResponseStep ==
    ASSUME PipelineInv, ReceiveResponse
    PROVE  PipelineInv'
<1> DEFINE k == Len(responses)
           n == IF Refusing THEN k - 1 ELSE k
<1>1. PICK b : b = Head(pendingWrites)
  OBVIOUS
<1>2. /\ UNCHANGED <<writes, log, remoteVersion, resume, user, nextBatchID,
                     targets, floor, refused, dropped, budget>>
      /\ responses # << >> /\ Head(responses) # Refusal
      /\ responses' = Tail(responses)
      /\ ProcessUserCallbacks(b.id, "success")
      /\ confirmed' = confirmed \cup {b.write}
      /\ FillWritePipeline(rows'[user], lastAcked'[user], Tail(pendingWrites),
                           lastBatchSeen, stream, requests, idleTimer)
      /\ lastAcked' = [lastAcked EXCEPT ![user] = b.id]
  BY <1>1 DEF ReceiveResponse
<1>3. /\ stream = "ready" /\ pendingWrites \in Seq(Batch)
      /\ b \in Unsent /\ b.id \in Int /\ b.write \in WriteNumbers
      /\ Tail(pendingWrites) \in Seq(Batch)
      /\ Len(pendingWrites) \in Nat \ {0}
      /\ Len(Tail(pendingWrites)) = Len(pendingWrites) - 1
      /\ \A i \in 1 .. Len(pendingWrites) - 1 :
           Tail(pendingWrites)[i] = pendingWrites[i + 1]
      /\ Entered(Tail(pendingWrites), lastBatchSeen, Unsent \ {b})
  BY <1>1, <1>2, FirstPending
<1>4. /\ PipelineTypeOK /\ user \in Users /\ lastAcked \in [Users -> Int]
      /\ nextBatchID \in Nat /\ lastBatchSeen \in Int /\ stream \in Streams
      /\ requests \in Seq(Batch) /\ idleTimer \in {"off", "on"}
      /\ responses \in Seq(0 .. Len(log)) /\ k \in Nat \ {0}
      /\ lastBatchSeen < nextBatchID
  BY <1>2, EmptySeq DEF PipelineInv, PipelineTypeOK, PipelineInOrder, Streams
<1>5. /\ told' \in [WriteNumbers -> {"waiting", "success", "failure", "gone"}]
      /\ blocks' \in [Users -> SUBSET Batch]
  <2>1. /\ blocks \in [Users -> SUBSET Batch]
        /\ told \in [WriteNumbers -> {"waiting", "success", "failure", "gone"}]
    BY DEF PipelineInv, PipelineTypeOK, QueuesInv, Tables
  <2> QED BY <1>2, <1>4, <2>1 DEF ProcessUserCallbacks
<1>6. /\ QueuesInv'
      /\ cache' \in [Keys -> [write : {0} \cup WriteNumbers, version : 0 .. Len(log)]]
      /\ held' \in Seq([batch : Batch, version : 1 .. Len(log)])
      /\ rows' \in [Users -> SUBSET Batch]
      /\ Unacked(rows'[user], lastAcked'[user]) = Unsent \ {b}
      /\ \A u \in Users \ {user} : rows'[u] = rows[u] /\ lastAcked'[u] = lastAcked[u]
  <2>1. ReceiveResponse /\ PipelineInv
    OBVIOUS
  <2> QED BY <1>1, <1>5, <2>1, AnsweredQueues
<1>7. Filled(Tail(pendingWrites), stream, requests)
  <2>1. user' = user /\ nextBatchID' = nextBatchID
    BY <1>2
  <2>2. user' \in Users /\ lastAcked' \in [Users -> Int] /\ nextBatchID' \in Nat
        /\ lastBatchSeen < nextBatchID'
    BY <1>2, <1>3, <1>4
  <2>3. Entered(Tail(pendingWrites), lastBatchSeen,
                Unacked(rows'[user], lastAcked'[user]))
    BY <1>3, <1>6
  <2>4. Entered(Tail(pendingWrites), lastBatchSeen,
                Unacked(rows'[user'], lastAcked'[user']))
    BY ONLY <2>1, <2>3
  <2>5. FillWritePipeline(rows'[user'], lastAcked'[user'], Tail(pendingWrites),
                          lastBatchSeen, stream, requests, idleTimer)
    BY <1>2, <2>1
  <2>6. Tail(pendingWrites) # << >> => stream # "initial"
    BY <1>3
  <2> QED BY <1>4, <1>6, <2>2, <2>4, <2>5, <2>6, FilledPipeline
<1>8. /\ PipelineInOrder'
      /\ pendingWrites' \in Seq(Batch) /\ Len(pendingWrites') <= MaxPendingWrites
      /\ lastBatchSeen' \in Int
      /\ stream' \in Streams /\ stream' = "ready"
      /\ idleTimer' \in {"off", "on"}
      /\ Extended(Tail(pendingWrites), requests, stream, pendingWrites', requests')
  BY <1>3, <1>7 DEF Filled
<1>9. /\ k <= Len(pendingWrites)
      /\ \A i \in 1 .. n : log[responses[i]] = pendingWrites[i].write
      /\ ~Refusing => requests = SubSeq(pendingWrites, k + 1, Len(pendingWrites))
  BY <1>3 DEF PipelineInv, AnswersMatchPipeline
<1>10. /\ k - 1 \in Nat /\ k - 1 <= Len(Tail(pendingWrites))
       /\ responses' \in Seq(0 .. Len(log)) /\ Len(responses') = k - 1
       /\ \A i \in 1 .. k - 1 : responses'[i] = responses[i + 1]
  BY <1>2, <1>3, <1>4, <1>9
<1>11. /\ Len(responses') <= Len(pendingWrites') /\ requests' \in Seq(Batch)
       /\ \A i \in 1 .. k - 1 : pendingWrites'[i] = pendingWrites[i + 1]
       /\ ~Refusing => requests' = SubSeq(pendingWrites', k, Len(pendingWrites'))
  <2> DEFINE j == k - 1
  <2>1. j \in Nat /\ j <= Len(Tail(pendingWrites)) /\ j + 1 = k
    BY <1>4, <1>10
  <2> HIDE DEF j
  <2>2. StillMatch(Tail(pendingWrites), requests, stream, j, pendingWrites', requests')
    BY <1>3, <1>4, <1>8, <2>1, AnswersStillMatch
  <2>3. /\ j <= Len(pendingWrites') /\ requests' \in Seq(Batch)
        /\ \A i \in 1 .. j : pendingWrites'[i] = Tail(pendingWrites)[i]
        /\ requests = SubSeq(Tail(pendingWrites), j + 1, Len(Tail(pendingWrites)))
             => requests' = SubSeq(pendingWrites', j + 1, Len(pendingWrites'))
    BY <1>3, <2>2 DEF StillMatch
  <2>4. SubSeq(Tail(pendingWrites), k, Len(Tail(pendingWrites)))
          = SubSeq(pendingWrites, k + 1, Len(pendingWrites))
    <3> DEFINE q == pendingWrites
               t == Tail(q)
               s1 == SubSeq(t, k, Len(t))
               s2 == SubSeq(q, k + 1, Len(q))
    <3>1. /\ q \in Seq(Batch) /\ t \in Seq(Batch) /\ Len(t) = Len(q) - 1
          /\ Len(q) \in Nat /\ k \in Nat \ {0} /\ k <= Len(q)
          /\ \A i \in 1 .. Len(t) : t[i] = q[i + 1] /\ i + 1 \in 1 .. Len(q)
      BY <1>3, <1>4, <1>9
    <3> HIDE DEF q, t, k
    <3>2. /\ \A i \in k .. Len(t) : t[i] \in Batch
          /\ \A i \in k + 1 .. Len(q) : q[i] \in Batch
      BY <3>1, ElementOfSeq
    <3>3. Len(s1) = IF k <= Len(t) THEN Len(t) - k + 1 ELSE 0
      BY <3>1, <3>2, SubSeqProperties
    <3>4. Len(s2) = IF k + 1 <= Len(q) THEN Len(q) - (k + 1) + 1 ELSE 0
      BY <3>1, <3>2, SubSeqProperties
    <3>5. s1 \in Seq(Batch) /\ \A i \in 1 .. Len(t) - k + 1 : s1[i] = t[k + i - 1]
      BY <3>1, <3>2, SubSeqProperties
    <3>6. /\ s2 \in Seq(Batch)
          /\ \A i \in 1 .. Len(q) - (k + 1) + 1 : s2[i] = q[(k + 1) + i - 1]
      BY <3>1, <3>2, SubSeqProperties
    <3> HIDE DEF s1, s2
    <3>7. Len(s1) = Len(s2)
      BY <3>1, <3>3, <3>4
    <3>8. ASSUME NEW i \in 1 .. Len(s1)
          PROVE  s1[i] = s2[i]
      <4>1. /\ i \in 1 .. Len(t) - k + 1 /\ i \in 1 .. Len(q) - (k + 1) + 1
            /\ k + i - 1 \in 1 .. Len(t) /\ (k + i - 1) + 1 = (k + 1) + i - 1
        BY <3>1, <3>3
      <4> QED BY <3>1, <3>5, <3>6, <4>1
    <3>9. s1 = s2
      BY <3>5, <3>6, <3>7, <3>8, SeqEqual
    <3> QED BY <3>9 DEF s1, s2, q, t
  <2>5. \A i \in 1 .. k - 1 : i \in 1 .. j /\ i \in 1 .. Len(pendingWrites) - 1
    BY <1>3, <1>4, <1>9, <2>1
  <2>6. \A i \in 1 .. k - 1 : pendingWrites'[i] = pendingWrites[i + 1]
    BY <1>3, <2>3, <2>5
  <2>7. Len(responses') = j
    BY <1>10 DEF j
  <2>8. ~Refusing => requests' = SubSeq(pendingWrites', k, Len(pendingWrites'))
    <3> HIDE DEF k
    <3> QED BY <1>9, <2>1, <2>3, <2>4
  <2> QED BY <2>3, <2>6, <2>7, <2>8
<1>12. Refusing' <=> Refusing
  <2>1. CASE k = 1
    <3>1. ~Refusing /\ ~Refusing'
      BY <1>2, <1>4, <1>10, <2>1, SMTT(30) DEF Refusing
    <3> QED BY <3>1
  <2>2. CASE k # 1
    <3>1. /\ responses' # << >> /\ Len(responses') = k - 1
          /\ responses'[k - 1] = responses[k]
      BY <1>4, <1>10, <2>2
    <3> QED BY <1>2, <3>1 DEF Refusing
  <2> QED BY <2>1, <2>2
<1>13. AnswersMatchPipeline'
  <2> DEFINE m == IF Refusing' THEN Len(responses') - 1 ELSE Len(responses')
  <2>1. ASSUME NEW i \in 1 .. m
        PROVE  log'[responses'[i]] = pendingWrites'[i].write
    <3>1. i + 1 \in 1 .. n /\ i \in 1 .. k - 1
      BY <1>4, <1>10, <1>12
    <3> QED BY <1>2, <1>9, <1>10, <1>11, <3>1
  <2>2. Len(responses') + 1 = k
    BY <1>4, <1>10
  <2> QED BY <1>11, <1>12, <2>1, <2>2 DEF AnswersMatchPipeline
<1>14. StreamInOrder'
  <2>1. \A i \in 1 .. k - 1 : responses[i] # Refusal
    BY DEF PipelineInv, StreamInOrder
  <2>2. \A i \in 1 .. Len(responses') - 1 : i + 1 \in 1 .. k - 1 /\ i \in 1 .. k - 1
    BY <1>4, <1>10
  <2> QED BY <1>8, <1>10, <2>1, <2>2 DEF StreamInOrder
<1>15. CallersToldTheTruth'
  <2>1. Unsent \ {b} \subseteq Unacked(rows'[user], lastAcked'[user])
    BY <1>6
  <2>2. \A u \in Users \ {user} : Unacked(rows'[u], lastAcked'[u])
                                    = Unacked(rows[u], lastAcked[u])
    BY <1>6
  <2>3. /\ writes' = writes /\ confirmed \subseteq confirmed' /\ refused \subseteq refused'
        /\ "success" \in {"success", "failure"} /\ b.write \in confirmed'
    BY <1>2
  <2> QED BY <1>2, <1>3, <2>1, <2>2, <2>3, CallbackTells
<1>16. PipelineTypeOK'
  <2>1. /\ WriteNumbers' = WriteNumbers
        /\ confirmed' \cup refused' \cup dropped' \subseteq WriteNumbers
        /\ lastAcked' \in [Users -> Int]
    BY <1>2, <1>3, <1>4 DEF PipelineTypeOK, WriteNumbers
  <2>2. \A u \in Users : rows'[u] \subseteq Batch /\ blocks'[u] \subseteq Batch
    BY <1>5, <1>6
  <2> QED BY <1>2, <1>4, <1>5, <1>6, <1>8, <1>10, <1>11, <2>1, <2>2
      DEF PipelineTypeOK, Streams
<1> QED BY <1>6, <1>8, <1>13, <1>14, <1>15, <1>16 DEF PipelineInv

\* The queues when the lowest unacknowledged batch is refused.
LEMMA RefusedQueues ==
    ASSUME PipelineInv, NEW b \in Unsent,
           rows' = [rows EXCEPT ![user] = @ \ {b}],
           UNCHANGED <<writes, lastAcked, user, nextBatchID, held, confirmed>>,
           blocks' \in [Users -> SUBSET Batch]
    PROVE  /\ QueuesInv'
           /\ rows' \in [Users -> SUBSET Batch]
           /\ Unacked(rows'[user], lastAcked[user]) = Unsent \ {b}
           /\ \A u \in Users \ {user} : rows'[u] = rows[u]
<1>1. /\ user \in Users /\ lastAcked \in [Users -> Int]
      /\ rows \in [Users -> SUBSET Batch]
  BY DEF PipelineInv, PipelineTypeOK, QueuesInv, Tables
<1>2. /\ rows' \in [Users -> SUBSET Batch]
      /\ rows'[user] = rows[user] \ {b}
      /\ \A u \in Users \ {user} : rows'[u] = rows[u]
      /\ \A u \in Users : rows'[u] \subseteq rows[u]
  BY <1>1
<1>3. ~(b.id <= lastAcked[user])
  <2>1. b.id > lastAcked[user] /\ b \in Batch
    BY <1>1 DEF Unsent, Unacked
  <2> QED BY <1>1, <2>1 DEF Batch
<1>4. /\ Tables' /\ OneRowPerWrite'
      /\ \A x, y \in Users : \A c \in rows'[x], d \in rows'[y] :
           c.id = d.id => x = y /\ c = d
  <2>1. WriteNumbers' = WriteNumbers
    BY DEF WriteNumbers
  <2> QED BY <1>2, <2>1, FewerRows
<1>5. {c \in rows'[user] : c.id <= lastAcked[user]}
        = {c \in rows[user] : c.id <= lastAcked[user]}
  BY <1>2, <1>3
<1>6. IdsInOrder'
  <2>1. \A u \in Users : \A c \in rows'[u] :
          c.id < nextBatchID /\ (c.id <= lastAcked[u] => c.write \in confirmed)
    BY <1>2 DEF PipelineInv, QueuesInv, IdsInOrder
  <2>2. \A u \in Users : lastAcked[u] >= nextBatchID => rows'[u] = {}
    BY <1>2 DEF PipelineInv, QueuesInv, IdsInOrder
  <2>3. {c \in rows[user] : c.id <= lastAcked[user]}
          = {held[i].batch : i \in DOMAIN held}
    BY DEF PipelineInv, QueuesInv, IdsInOrder
  <2> QED BY <1>4, <1>5, <2>1, <2>2, <2>3 DEF IdsInOrder
<1>7. LastAckedStays'
  <2>1. ASSUME NEW u \in Users, NEW c \in rows'[u], c.id <= lastAcked[u]
        PROVE  \E d \in rows'[u] : d.id = lastAcked[u]
    <3>1. PICK d \in rows[u] : d.id = lastAcked[u]
      BY <1>2, <2>1 DEF PipelineInv, QueuesInv, LastAckedStays
    <3>2. lastAcked[u] \in Int
      BY <1>1
    <3>3. CASE u = user
      <4>1. d # b
        BY <1>3, <3>1, <3>2, <3>3
      <4> QED BY <1>2, <3>1, <3>3, <4>1
    <3>4. CASE u # user
      BY <1>2, <3>1, <3>4
    <3> QED BY <3>3, <3>4
  <2> QED BY <2>1 DEF LastAckedStays
<1>8. NumberingAhead' /\ HeldInOrder'
  BY DEF PipelineInv, QueuesInv, NumberingAhead, HeldInOrder
<1>9. Unacked(rows'[user], lastAcked[user]) = Unsent \ {b}
  BY <1>2 DEF Unsent, Unacked
<1> QED BY <1>2, <1>4, <1>6, <1>7, <1>8, <1>9 DEF QueuesInv

\* The first pending write is refused: its row goes, and the stream starts again
\* with the rest (FSTRemoteStore's handleWriteError).
LEMMA ReceiveRefusalStep ==
    ASSUME PipelineInv, ReceiveRefusal
    PROVE  PipelineInv'
<1> DEFINE rest == Tail(pendingWrites)
           str == IF rest = << >> THEN "initial" ELSE "starting"
<1>1. PICK b : b = Head(pendingWrites)
  OBVIOUS
<1>2. /\ UNCHANGED <<writes, log, lastAcked, cache, remoteVersion, resume, user,
                     nextBatchID, held, targets, floor, confirmed, dropped,
                     budget>>
      /\ responses # << >> /\ responses' = << >>
      /\ ProcessUserCallbacks(b.id, "failure")
      /\ rows' = [rows EXCEPT ![user] = @ \ {b}]
      /\ refused' = refused \cup {b.write}
      /\ FillWritePipeline(rows'[user], lastAcked[user], rest, lastBatchSeen,
                           str, << >>, "off")
  BY <1>1 DEF ReceiveRefusal
<1>3. /\ pendingWrites \in Seq(Batch) /\ rest \in Seq(Batch)
      /\ b \in Unsent /\ b.id \in Int /\ b.write \in WriteNumbers
      /\ Entered(rest, lastBatchSeen, Unsent \ {b})
  BY <1>1, <1>2, FirstPending
<1>4. /\ PipelineTypeOK /\ user \in Users /\ lastAcked \in [Users -> Int]
      /\ nextBatchID \in Nat /\ lastBatchSeen \in Int
      /\ lastBatchSeen < nextBatchID
      /\ str \in Streams /\ str # "ready" /\ (rest # << >> => str # "initial")
      /\ << >> \in Seq(Batch) /\ "off" \in {"off", "on"}
  BY DEF PipelineInv, PipelineTypeOK, PipelineInOrder, Streams
<1> HIDE DEF str, rest
<1>5. /\ told' \in [WriteNumbers -> {"waiting", "success", "failure", "gone"}]
      /\ blocks' \in [Users -> SUBSET Batch]
  <2>1. /\ blocks \in [Users -> SUBSET Batch]
        /\ told \in [WriteNumbers -> {"waiting", "success", "failure", "gone"}]
    BY DEF PipelineInv, PipelineTypeOK, QueuesInv, Tables
  <2> QED BY <1>2, <1>4, <2>1 DEF ProcessUserCallbacks
<1>6. /\ QueuesInv'
      /\ rows' \in [Users -> SUBSET Batch]
      /\ Unacked(rows'[user], lastAcked[user]) = Unsent \ {b}
      /\ \A u \in Users \ {user} : rows'[u] = rows[u]
  BY <1>2, <1>3, <1>5, RefusedQueues
<1>7. Filled(rest, str, << >>)
  <2>1. user' = user /\ nextBatchID' = nextBatchID /\ lastAcked' = lastAcked
    BY <1>2
  <2>2. user' \in Users /\ lastAcked' \in [Users -> Int] /\ nextBatchID' \in Nat
        /\ lastBatchSeen < nextBatchID'
    BY <1>4, <2>1
  <2>3. Entered(rest, lastBatchSeen, Unacked(rows'[user], lastAcked[user]))
    BY <1>3, <1>6
  <2>4. Entered(rest, lastBatchSeen, Unacked(rows'[user'], lastAcked'[user']))
    BY ONLY <2>1, <2>3
  <2>5. FillWritePipeline(rows'[user'], lastAcked'[user'], rest, lastBatchSeen,
                          str, << >>, "off")
    BY <1>2, <2>1
  <2> QED BY <1>4, <1>6, <2>2, <2>4, <2>5, FilledPipeline
<1>8. /\ PipelineInOrder'
      /\ pendingWrites' \in Seq(Batch) /\ Len(pendingWrites') <= MaxPendingWrites
      /\ lastBatchSeen' \in Int
      /\ stream' \in Streams /\ stream' # "ready"
      /\ idleTimer' \in {"off", "on"}
      /\ requests' = << >>
  BY <1>4, <1>7 DEF Filled, Extended
<1>9. AnswersMatchPipeline' /\ StreamInOrder'
  <2>1. Len(responses') = 0 /\ ~Refusing' /\ Len(pendingWrites') \in Nat
    BY <1>2, <1>8 DEF Refusing
  <2> QED BY <1>2, <1>8, <2>1 DEF AnswersMatchPipeline, StreamInOrder
<1>10. CallersToldTheTruth'
  <2>1. Unsent \ {b} \subseteq Unacked(rows'[user], lastAcked'[user])
    BY <1>2, <1>6
  <2>2. \A u \in Users \ {user} : Unacked(rows'[u], lastAcked'[u])
                                    = Unacked(rows[u], lastAcked[u])
    BY <1>2, <1>6
  <2>3. /\ writes' = writes /\ confirmed \subseteq confirmed' /\ refused \subseteq refused'
        /\ "failure" \in {"success", "failure"} /\ b.write \in refused'
    BY <1>2
  <2> QED BY <1>2, <1>3, <2>1, <2>2, <2>3, CallbackTells
<1>11. PipelineTypeOK'
  <2>1. /\ WriteNumbers' = WriteNumbers
        /\ confirmed' \cup refused' \cup dropped' \subseteq WriteNumbers
    BY <1>2, <1>3, <1>4 DEF PipelineTypeOK, WriteNumbers
  <2>2. \A u \in Users : rows'[u] \subseteq Batch /\ blocks'[u] \subseteq Batch
    BY <1>5, <1>6
  <2>3. requests' \in Seq(Batch) /\ responses' \in Seq(0 .. Len(log))
    BY <1>2, <1>8
  <2> QED BY <1>2, <1>4, <1>5, <1>8, <2>1, <2>2, <2>3 DEF PipelineTypeOK, Streams
<1> QED BY <1>6, <1>8, <1>9, <1>10, <1>11 DEF PipelineInv

-----------------------------------------------------------------------------
\* A mutation queue is opened.  Ids continue above all rows there are; the last
\* acknowledged id is reset only where the queue is empty.
LEMMA OpenedQueues ==
    ASSUME PipelineInv, NEW u \in Users, StartMutationQueue(u), user' = u,
           UNCHANGED <<writes, confirmed>>, blocks' \in [Users -> SUBSET Batch]
    PROVE  /\ QueuesInv'
           /\ rows' \in [Users -> SUBSET Batch]
           /\ lastAcked' \in [Users -> Int] /\ nextBatchID' \in Nat
           /\ \A v \in Users : Unacked(rows'[v], lastAcked'[v])
                                 = Unacked(rows[v], lastAcked[v])
<1> DEFINE ids == {b.id : b \in UNION {rows[v] : v \in Users}} \cup {Unknown}
           next == Max(ids) + 1
           acked == IF lastAcked[u] >= next THEN Unknown ELSE lastAcked[u]
<1>1. /\ nextBatchID' = next
      /\ lastAcked' = [lastAcked EXCEPT ![u] = acked]
      /\ rows' = [rows EXCEPT ![u] = Unacked(@, acked)]
      /\ held' = << >>
  BY DEF StartMutationQueue
<1>2. /\ lastAcked \in [Users -> Int] /\ rows \in [Users -> SUBSET Batch]
      /\ nextBatchID \in Nat /\ Unknown = -1
      /\ \A v \in Users : lastAcked[v] \in Int /\ lastAcked[v] >= Unknown
      /\ \A v \in Users : \A b \in rows[v] :
           /\ b.id \in Nat /\ b.id < nextBatchID
           /\ b.id <= lastAcked[v] => b.write \in confirmed
  <2>1. \A v \in Users : \A b \in rows[v] : b \in Batch
    BY DEF PipelineInv, QueuesInv, Tables
  <2> QED BY <2>1 DEF PipelineInv, PipelineTypeOK, QueuesInv, Tables, IdsInOrder,
        NumberingAhead, Unknown, Batch
<1>3. /\ next \in Nat
      /\ \A v \in Users : \A b \in rows[v] : b.id < next
  <2>1. /\ ids \in SUBSET (-1 .. nextBatchID) /\ ids \in SUBSET Int /\ Unknown \in ids
        /\ \A v \in Users : \A b \in rows[v] : b.id \in ids
    BY <1>2
  <2>2. IsFiniteSet(ids)
    <3>1. IsFiniteSet(-1 .. nextBatchID)
      BY <1>2, FS_Interval
    <3> HIDE DEF ids
    <3> QED BY <2>1, <3>1, FS_Subset
  <2> HIDE DEF ids
  <2>3. Max(ids) \in ids /\ \A i \in ids : i <= Max(ids)
    BY <2>1, <2>2, MaxOfSet
  <2>4. Max(ids) \in Int /\ Max(ids) >= -1
    BY <1>2, <2>1, <2>3
  <2> QED BY <1>2, <2>1, <2>3, <2>4
<1> HIDE DEF next
<1>4. \A v \in Users : lastAcked[v] >= next => rows[v] = {}
  <2> SUFFICES ASSUME NEW v \in Users, lastAcked[v] >= next, NEW b \in rows[v]
               PROVE  FALSE
    OBVIOUS
  <2>1. b.id <= lastAcked[v]
    BY <1>2, <1>3
  <2>2. PICK c \in rows[v] : c.id = lastAcked[v]
    BY <2>1 DEF PipelineInv, QueuesInv, LastAckedStays
  <2> QED BY <1>2, <1>3, <2>2
<1>5. acked \in Int /\ acked < next /\ acked >= Unknown
  BY <1>2, <1>3
<1>6. Unacked(rows[u], acked) = Unacked(rows[u], lastAcked[u])
  <2>1. CASE acked = lastAcked[u]
    BY <2>1
  <2>2. CASE lastAcked[u] >= next
    <3>1. rows[u] = {}
      BY <1>4, <2>2
    <3> QED BY <3>1 DEF Unacked
  <2> QED BY <2>1, <2>2
<1> HIDE DEF acked
<1>7. /\ rows' \in [Users -> SUBSET Batch]
      /\ rows'[u] = Unacked(rows[u], acked)
      /\ \A v \in Users \ {u} : rows'[v] = rows[v] /\ lastAcked'[v] = lastAcked[v]
      /\ \A v \in Users : rows'[v] \subseteq rows[v]
      /\ lastAcked' \in [Users -> Int] /\ lastAcked'[u] = acked
  BY <1>1, <1>2, <1>5 DEF Unacked
<1>8. \A b \in rows'[u] : ~(b.id <= acked)
  <2>1. \A b \in rows[u] : b.id > acked => ~(b.id <= acked)
    BY <1>2, <1>5
  <2> QED BY <1>7, <2>1 DEF Unacked
<1>9. /\ Tables' /\ OneRowPerWrite'
      /\ \A x, y \in Users : \A c \in rows'[x], d \in rows'[y] :
           c.id = d.id => x = y /\ c = d
  <2>1. WriteNumbers' = WriteNumbers
    BY DEF WriteNumbers
  <2> QED BY <1>7, <2>1, FewerRows
<1>10. IdsInOrder'
  <2>1. \A v \in Users : \A b \in rows'[v] :
          /\ b.id < nextBatchID'
          /\ b.id <= lastAcked'[v] => b.write \in confirmed'
    <3> TAKE v \in Users
    <3>1. CASE v = u
      BY <1>1, <1>3, <1>7, <1>8, <3>1
    <3>2. CASE v # u
      BY <1>1, <1>2, <1>3, <1>7, <3>2
    <3> QED BY <3>1, <3>2
  <2>2. ASSUME NEW v \in Users, lastAcked'[v] >= nextBatchID'
        PROVE  rows'[v] = {}
    <3>1. v # u
      BY <1>1, <1>3, <1>5, <1>7, <2>2
    <3> QED BY <1>1, <1>4, <1>7, <2>2, <3>1
  <2>3. {b \in rows'[u] : b.id <= lastAcked'[u]} = {}
    BY <1>7, <1>8
  <2>4. {held'[i].batch : i \in DOMAIN held'} = {}
    BY <1>1
  <2>5. {b \in rows'[user'] : b.id <= lastAcked'[user']}
          = {held'[i].batch : i \in DOMAIN held'}
    BY <2>3, <2>4
  <2> QED BY <1>9, <2>1, <2>2, <2>5 DEF IdsInOrder
<1>11. LastAckedStays'
  <2>1. ASSUME NEW v \in Users, NEW b \in rows'[v], b.id <= lastAcked'[v]
        PROVE  \E c \in rows'[v] : c.id = lastAcked'[v]
    <3>1. v # u
      BY <1>7, <1>8, <2>1
    <3>2. rows'[v] = rows[v] /\ lastAcked'[v] = lastAcked[v]
      BY <1>7, <3>1
    <3> QED BY <2>1, <3>2 DEF PipelineInv, QueuesInv, LastAckedStays
  <2> QED BY <2>1 DEF LastAckedStays
<1>12. NumberingAhead'
  <2>1. \A v \in Users : lastAcked'[v] >= Unknown
    BY <1>2, <1>5, <1>7
  <2> QED BY <1>1, <1>5, <1>7, <2>1 DEF NumberingAhead, Unknown
<1>13. HeldInOrder'
  BY <1>1 DEF HeldInOrder
<1>14. \A v \in Users : Unacked(rows'[v], lastAcked'[v]) = Unacked(rows[v], lastAcked[v])
  <2> TAKE v \in Users
  <2>1. CASE v = u
    <3>1. Unacked(rows'[u], acked) = Unacked(rows[u], acked)
      BY <1>7 DEF Unacked
    <3> QED BY <1>6, <1>7, <2>1, <3>1
  <2>2. CASE v # u
    BY <1>7, <2>2
  <2> QED BY <2>1, <2>2
<1>15. QueuesInv'
  BY <1>9, <1>10, <1>11, <1>12, <1>13 DEF QueuesInv
<1> QED BY <1>1, <1>3, <1>7, <1>14, <1>15

\* The pipeline is emptied and filled for the user whose queue was opened;
\* nothing is under way any more.
LEMMA RestartStep ==
    ASSUME PipelineInv, NEW u \in Users, StartMutationQueue(u), RestartNetwork(u),
           user' = u, UNCHANGED <<writes, log, cache, remoteVersion, resume, floor,
                                  confirmed, refused>>,
           budget' \in [Event -> Nat], targets' \subseteq Targets,
           blocks' \in [Users -> SUBSET Batch],
           told' \in [WriteNumbers -> {"waiting", "success", "failure", "gone"}],
           CallersToldTheTruth'
    PROVE  PipelineInv' /\ QueuesStay
<1>1. /\ QueuesInv'
      /\ rows' \in [Users -> SUBSET Batch]
      /\ lastAcked' \in [Users -> Int] /\ nextBatchID' \in Nat
      /\ \A v \in Users : Unacked(rows'[v], lastAcked'[v])
                            = Unacked(rows[v], lastAcked[v])
  BY OpenedQueues
<1>2. /\ responses' = << >>
      /\ FillWritePipeline(rows'[u], lastAcked'[u], << >>, Unknown, "initial",
                           << >>, "off")
      /\ held' = << >>
      /\ dropped' = dropped \cup {held[i].batch.write : i \in DOMAIN held}
  BY DEF RestartNetwork, StartMutationQueue
<1>3. Filled(<< >>, "initial", << >>)
  <2>1. \A b \in Unacked(rows'[u], lastAcked'[u]) : b.id \in Nat
    BY <1>1 DEF Unacked, Batch
  <2>2. Entered(<< >>, Unknown, Unacked(rows'[u], lastAcked'[u]))
    BY <2>1, PipelineAssumption DEF Entered, IdsAscend, Unknown
  <2>3. Entered(<< >>, Unknown, Unacked(rows'[user'], lastAcked'[user']))
    BY ONLY <2>2, user' = u
  <2>4. FillWritePipeline(rows'[user'], lastAcked'[user'], << >>, Unknown,
                          "initial", << >>, "off")
    BY ONLY <1>2, user' = u
  <2>5. /\ user' \in Users /\ Unknown \in Int /\ Unknown < nextBatchID'
        /\ "initial" \in Streams /\ << >> \in Seq(Batch) /\ "off" \in {"off", "on"}
    BY <1>1 DEF Unknown, Streams
  <2> QED BY <1>1, <2>3, <2>4, <2>5, FilledPipeline
<1>4. /\ PipelineInOrder'
      /\ pendingWrites' \in Seq(Batch) /\ Len(pendingWrites') <= MaxPendingWrites
      /\ lastBatchSeen' \in Int
      /\ stream' \in Streams /\ stream' # "ready"
      /\ idleTimer' \in {"off", "on"}
      /\ requests' = << >>
  BY <1>3 DEF Filled, Extended
<1>5. AnswersMatchPipeline' /\ StreamInOrder'
  <2>1. Len(responses') = 0 /\ ~Refusing' /\ Len(pendingWrites') \in Nat
    BY <1>2, <1>4 DEF Refusing
  <2> QED BY <1>2, <1>4, <2>1 DEF AnswersMatchPipeline, StreamInOrder
<1>6. PipelineTypeOK'
  <2>1. {held[i].batch.write : i \in DOMAIN held} \subseteq WriteNumbers
    <3> SUFFICES ASSUME NEW i \in DOMAIN held
                 PROVE  held[i].batch.write \in WriteNumbers
      OBVIOUS
    <3>1. user \in Users /\ held[i].batch \in rows[user]
      BY DEF PipelineInv, PipelineTypeOK, QueuesInv, IdsInOrder
    <3> QED BY <3>1 DEF PipelineInv, QueuesInv, Tables
  <2>2. PipelineTypeOK /\ WriteNumbers' = WriteNumbers
    BY DEF PipelineInv, WriteNumbers
  <2>3. confirmed' \cup refused' \cup dropped' \subseteq WriteNumbers
    BY <1>2, <2>1, <2>2 DEF PipelineTypeOK
  <2>4. \A v \in Users : rows'[v] \subseteq Batch /\ blocks'[v] \subseteq Batch
    BY <1>1
  <2>5. /\ requests' \in Seq(Batch) /\ responses' \in Seq(0 .. Len(log))
        /\ held' \in Seq([batch : Batch, version : 1 .. Len(log)])
    BY <1>2, <1>4
  <2> QED BY <1>1, <1>4, <2>2, <2>3, <2>4, <2>5 DEF PipelineTypeOK, Streams
<1>7. QueuesStay
  BY <1>1 DEF QueuesStay
<1> QED BY <1>1, <1>4, <1>5, <1>6, <1>7 DEF PipelineInv

\* Another user's queue is opened: the blocks of all users stay, and each still
\* has its row.
LEMMA UserDidChangeStep ==
    ASSUME PipelineInv, NEW u \in Users, UserDidChange(u)
    PROVE  PipelineInv' /\ QueuesStay
<1>1. /\ Spend("switch") /\ user' = u
      /\ StartMutationQueue(u) /\ RestartNetwork(u)
      /\ UNCHANGED <<writes, log, cache, remoteVersion, resume, targets, blocks,
                     floor, told, confirmed, refused>>
  BY DEF UserDidChange
<1>2. /\ blocks' \in [Users -> SUBSET Batch] /\ targets' \subseteq Targets
      /\ told' \in [WriteNumbers -> {"waiting", "success", "failure", "gone"}]
  BY <1>1 DEF PipelineInv, PipelineTypeOK, QueuesInv, Tables
<1>3. budget' \in [Event -> Nat]
  <2>1. PipelineTypeOK /\ "switch" \in Event
    BY DEF PipelineInv, Event
  <2> QED BY <1>1, <2>1, SpendType
<1>4. \A v \in Users : Unacked(rows'[v], lastAcked'[v])
                         = Unacked(rows[v], lastAcked[v])
  BY <1>1, <1>2, OpenedQueues
<1>5. CallersToldTheTruth'
  <2>1. CallersToldTheTruth /\ WriteNumbers' = WriteNumbers
    BY <1>1 DEF PipelineInv, WriteNumbers
  <2> QED BY <1>1, <1>4, <2>1 DEF CallersToldTheTruth
<1> QED BY <1>1, <1>2, <1>3, <1>5, RestartStep

\* The process is launched again: no block is left, and the callers that were
\* waiting are gone.
LEMMA RelaunchStep ==
    ASSUME PipelineInv, NEW u \in Users, Relaunch(u)
    PROVE  PipelineInv' /\ QueuesStay
<1>1. /\ Spend("relaunch") /\ user' = u
      /\ StartMutationQueue(u) /\ RestartNetwork(u)
      /\ targets' = {} /\ blocks' = [v \in Users |-> {}]
      /\ told' = [w \in DOMAIN told |->
                    IF told[w] = "waiting" THEN "gone" ELSE told[w]]
      /\ UNCHANGED <<writes, log, cache, remoteVersion, resume, floor, confirmed,
                     refused>>
  BY DEF Relaunch
<1>2. /\ blocks' \in [Users -> SUBSET Batch] /\ targets' \subseteq Targets
      /\ told \in [WriteNumbers -> {"waiting", "success", "failure", "gone"}]
      /\ told' \in [WriteNumbers -> {"waiting", "success", "failure", "gone"}]
      /\ \A w \in WriteNumbers : /\ told'[w] # "waiting"
                                 /\ told'[w] = "success" => told[w] = "success"
                                 /\ told'[w] = "failure" => told[w] = "failure"
  BY <1>1 DEF PipelineInv, PipelineTypeOK
<1>3. budget' \in [Event -> Nat]
  <2>1. PipelineTypeOK /\ "relaunch" \in Event
    BY DEF PipelineInv, Event
  <2> QED BY <1>1, <2>1, SpendType
<1>4. CallersToldTheTruth'
  <2>1. CallersToldTheTruth /\ WriteNumbers' = WriteNumbers
    BY <1>1 DEF PipelineInv, WriteNumbers
  <2>2. BlocksMatch(blocks', WriteNumbers', told')
    <3>1. \A v \in Users : \A c \in blocks'[v] :
            c.write \in WriteNumbers' /\ told'[c.write] = "waiting"
      BY <1>1
    <3>2. \A x \in WriteNumbers' : told'[x] = "waiting" =>
            \E v \in Users : \E c \in blocks'[v] : c.write = x
      BY <1>2, <2>1
    <3> QED BY <3>1, <3>2, WaitingBlocks
  <2>3. {c.write : c \in UNION {blocks'[v] : v \in Users}}
          = {w \in WriteNumbers' : told'[w] = "waiting"}
    BY <2>2 DEF BlocksMatch
  <2>4. \A v \in Users : blocks'[v] \subseteq Unacked(rows'[v], lastAcked'[v])
    BY <1>1
  <2>5. \A w \in WriteNumbers' : /\ told'[w] = "success" => w \in confirmed'
                                 /\ told'[w] = "failure" => w \in refused'
    BY <1>1, <1>2, <2>1 DEF CallersToldTheTruth
  <2> QED BY <2>3, <2>4, <2>5 DEF CallersToldTheTruth
<1> QED BY <1>1, <1>2, <1>3, <1>4, RestartStep

-----------------------------------------------------------------------------
\* Nothing is filed, sent or held when the SDK is first started.
LEMMA InitPipelineInv == Init => PipelineInv
<1> SUFFICES ASSUME Init PROVE PipelineInv
  OBVIOUS
<1> USE DEF Init
<1>1. PipelineTypeOK
  BY PipelineAssumption DEF PipelineTypeOK, WriteNumbers, Missing, Unknown, Event
<1>2. QueuesInv
  <2>1. Tables
    BY FS_EmptySet DEF Tables
  <2>2. OneRowPerWrite /\ LastAckedStays /\ HeldInOrder
    BY DEF OneRowPerWrite, LastAckedStays, HeldInOrder
  <2>3. NumberingAhead
    BY DEF NumberingAhead, Unknown
  <2>4. IdsInOrder
    <3>1. {b \in rows[user] : b.id <= lastAcked[user]} = {}
      OBVIOUS
    <3>2. {held[i].batch : i \in DOMAIN held} = {}
      OBVIOUS
    <3>3. \A u \in Users : rows[u] = {}
      OBVIOUS
    <3> QED BY <3>1, <3>2, <3>3 DEF IdsInOrder
  <2> QED BY <2>1, <2>2, <2>3, <2>4 DEF QueuesInv
<1>3. PipelineInOrder
  <2>1. Unsent = {}
    BY DEF Unsent, Unacked
  <2>2. Len(pendingWrites) = 0 /\ pendingWrites \in Seq(Unsent)
    OBVIOUS
  <2> QED BY <2>1, <2>2, PipelineAssumption
          DEF PipelineInOrder, Lists, Entered, IdsAscend, Unknown
<1>4. StreamInOrder /\ AnswersMatchPipeline
  <2>1. Len(responses) = 0 /\ ~Refusing /\ Len(pendingWrites) = 0
    BY DEF Refusing
  <2> QED BY <2>1 DEF StreamInOrder, AnswersMatchPipeline
<1>5. CallersToldTheTruth
  <2>1. Len(writes) = 0 /\ WriteNumbers = {}
    BY DEF WriteNumbers
  <2>2. \A u \in Users : blocks[u] = {}
    OBVIOUS
  <2>3. BlocksMatch(blocks, WriteNumbers, told)
    BY <2>1, <2>2, WaitingBlocks
  <2> QED BY <2>1, <2>2, <2>3 DEF CallersToldTheTruth, BlocksMatch
<1> QED BY <1>1, <1>2, <1>3, <1>4, <1>5 DEF PipelineInv

\* Every block of the worker queue, and every step of the server, keeps it.
LEMMA NextPipelineInv == PipelineInv /\ [Next]_vars => PipelineInv'
<1> SUFFICES ASSUME PipelineInv, [Next]_vars PROVE PipelineInv'
  OBVIOUS
<1>1. ASSUME NEW k \in Keys, WriteMutations(k) \/ RemoteWrite(k)
      PROVE  PipelineInv'
  BY <1>1, WriteMutationsStep, RemoteWriteStep
<1>2. CASE StreamOpens \/ CompleteHandshake \/ BreakStream \/ CloseIdleStream
  BY <1>2, StreamOpensStep, CompleteHandshakeStep, CloseStreamStep
<1>3. CASE ServerApplies \/ ServerRefuses
  BY <1>3, ServerAppliesStep, ServerRefusesStep
<1>4. CASE ReceiveResponse \/ ReceiveRefusal
  BY <1>4, ReceiveResponseStep, ReceiveRefusalStep
<1>5. ASSUME NEW t \in Targets, Listen(t) \/ ReleaseQuery(t)
      PROVE  PipelineInv'
  BY <1>5, ListenStep, ReleaseQueryStep
<1>6. ASSUME NEW v \in 1 .. Len(log), WatchSnapshot(v)
      PROVE  PipelineInv'
  BY <1>6, WatchSnapshotStep
<1>7. ASSUME NEW u \in Users, UserDidChange(u) \/ Relaunch(u)
      PROVE  PipelineInv'
  BY <1>7, UserDidChangeStep, RelaunchStep
<1>8. CASE UNCHANGED vars
  <2>1. /\ UNCHANGED <<writes, log, rows, lastAcked, cache, remoteVersion, resume>>
        /\ UNCHANGED <<user, nextBatchID, held, targets, blocks, floor, budget>>
        /\ UNCHANGED <<pendingWrites, lastBatchSeen, stream, idleTimer, requests,
                       responses>>
        /\ UNCHANGED <<told, confirmed, refused, dropped>>
    BY <1>8 DEF vars, disk, pipeline, ghosts
  <2>2. PipelineTypeOK'
    BY <2>1 DEF PipelineInv, PipelineTypeOK, WriteNumbers
  <2>3. QueuesInv' /\ PipelineInOrder' /\ StreamInOrder'
    BY <2>1, Unaffected DEF PipelineInv
  <2>4. AnswersMatchPipeline' /\ CallersToldTheTruth'
    BY <2>1, Unaffected DEF PipelineInv
  <2> QED BY <2>2, <2>3, <2>4 DEF PipelineInv
<1> QED BY <1>1, <1>2, <1>3, <1>4, <1>5, <1>6, <1>7, <1>8 DEF Next

\* All parts of the invariant hold in every state the pipeline reaches.
THEOREM PipelineCorrect == Spec => []PipelineInv
BY InitPipelineInv, NextPipelineInv, PTL DEF Spec

\* Batch ids are unique across the queues of all users and in the order of the
\* queues, also after restarts (FSTLevelDBMutationQueue's start and its asserts).
THEOREM BatchIdsInOrder == Spec => []IdsInOrder
<1>1. PipelineInv => IdsInOrder
  BY DEF PipelineInv, QueuesInv
<1> QED BY <1>1, PipelineCorrect, PTL

\* The unacknowledged batches of the user are listed by their ids, and the
\* pipeline is where that list begins.
LEMMA PendingFirst ==
    ASSUME PipelineInv
    PROVE  /\ Unsent \in SUBSET Batch /\ IsFiniteSet(Unsent) /\ UniqueIds(Unsent)
           /\ user \in Users
           /\ InOrder(Unsent) \in Seq(Unsent) /\ Len(InOrder(Unsent)) \in Nat
           /\ pendingWrites \in Seq(Batch) /\ Len(pendingWrites) \in Nat
           /\ Len(pendingWrites) <= Len(InOrder(Unsent))
           /\ \A i \in 1 .. Len(pendingWrites) : pendingWrites[i] = InOrder(Unsent)[i]
<1>1. /\ Unsent \in SUBSET Batch /\ IsFiniteSet(Unsent) /\ UniqueIds(Unsent)
      /\ user \in Users
  <2>1. /\ user \in Users /\ rows[user] \in SUBSET Batch
        /\ IsFiniteSet(rows[user]) /\ Unsent \subseteq rows[user]
    BY DEF PipelineInv, PipelineTypeOK, QueuesInv, Tables, Unsent, Unacked
  <2>2. IsFiniteSet(Unsent)
    BY <2>1, FS_Subset
  <2>3. UniqueIds(Unsent)
    BY <2>1 DEF PipelineInv, QueuesInv, IdsInOrder, UniqueIds
  <2> QED BY <2>1, <2>2, <2>3
<1>2. InOrder(Unsent) \in Seq(Unsent) /\ Len(InOrder(Unsent)) = Cardinality(Unsent)
  BY <1>1, InOrderProperties
<1>3. /\ pendingWrites \in Seq(Unsent) /\ IdsAscend(pendingWrites)
      /\ \A b \in Unsent : ~Occurs(b, pendingWrites) =>
           \A i \in 1 .. Len(pendingWrites) : pendingWrites[i].id < b.id
  BY DEF PipelineInv, PipelineInOrder, Lists
<1>4. /\ Len(pendingWrites) <= Cardinality(Unsent)
      /\ \A i \in 1 .. Len(pendingWrites) : pendingWrites[i] = InOrder(Unsent)[i]
  BY <1>1, <1>3, ListedByRank
<1>5. pendingWrites \in Seq(Batch) /\ Len(pendingWrites) \in Nat
  BY DEF PipelineInv, PipelineTypeOK
<1>6. Len(InOrder(Unsent)) \in Nat
  BY <1>2
<1> QED BY <1>1, <1>2, <1>4, <1>5, <1>6

\* The pipeline holds the oldest unacknowledged batches of the user, in order,
\* and its stream is at work (FSTRemoteStore's fillWritePipeline).
THEOREM PipelineStaysFull == Spec => []PipelineFull
<1>1. PipelineInv => PipelineFull
  <2> SUFFICES ASSUME PipelineInv PROVE PipelineFull
    OBVIOUS
  <2>1. Unsent \in SUBSET Batch /\ IsFiniteSet(Unsent) /\ UniqueIds(Unsent)
    BY PendingFirst
  <2>2. Lists(pendingWrites, Unsent, MaxPendingWrites) /\ MaxPendingWrites \in Nat
    BY PipelineAssumption DEF PipelineInv, PipelineInOrder
  <2>3. pendingWrites = FirstOf(InOrder(Unsent), MaxPendingWrites)
    BY <2>1, <2>2, ListsIsFirstOf
  <2> QED BY <2>3 DEF PipelineInv, PipelineInOrder, PipelineFull, Unsent
<1> QED BY <1>1, PipelineCorrect, PTL

\* Answers that arrive belong to the first pending writes, and what is under
\* way is the rest (FSTRemoteStore's writeStreamDidReceiveResponse).
THEOREM AnswersBelongToPipeline == Spec => []AnswersMatchPipeline
<1>1. PipelineInv => AnswersMatchPipeline
  BY DEF PipelineInv
<1> QED BY <1>1, PipelineCorrect, PTL

\* A caller hears of the outcome of its own write (FSTSyncEngine's
\* processUserCallbacksForBatchID).
THEOREM CallersAreToldTheTruth == Spec => []CallersToldTheTruth
<1>1. PipelineInv => CallersToldTheTruth
  BY DEF PipelineInv
<1> QED BY <1>1, PipelineCorrect, PTL

-----------------------------------------------------------------------------
\* The refinement of Outbox: the outbox of a user is the list of the writes of
\* its unacknowledged batches.
Numbers(q) == [i \in DOMAIN q |-> q[i].write]

Outboxes == [u \in Users |-> PendingNumbers(u)]

\* The batches of a list a, and then b.
LEMMA NumbersAppend ==
    ASSUME NEW S, NEW q \in Seq(S), NEW b
    PROVE  Numbers(Append(q, b)) = Append(Numbers(q), b.write)
<1>1. /\ Len(q) \in Nat /\ DOMAIN q = 1 .. Len(q)
      /\ DOMAIN Append(q, b) = 1 .. Len(q) + 1
      /\ Append(q, b)[Len(q) + 1] = b
      /\ \A i \in 1 .. Len(q) : Append(q, b)[i] = q[i]
  OBVIOUS
<1>2. Len(Numbers(q)) = Len(q) /\ Numbers(q) \in Seq({q[i].write : i \in 1 .. Len(q)})
  <2> DEFINE W == {q[i].write : i \in 1 .. Len(q)}
  <2>1. Numbers(q) \in [1 .. Len(q) -> W]
    BY <1>1 DEF Numbers
  <2> HIDE DEF W
  <2>2. Numbers(q) \in Seq(W) /\ Len(Numbers(q)) = Len(q)
    BY <1>1, <2>1, FunctionIsSeq
  <2> QED BY <2>2 DEF W
<1>3. /\ DOMAIN Append(Numbers(q), b.write) = 1 .. Len(q) + 1
      /\ Append(Numbers(q), b.write)[Len(q) + 1] = b.write
      /\ \A i \in 1 .. Len(q) : Append(Numbers(q), b.write)[i] = Numbers(q)[i]
  BY <1>2
<1>4. \A i \in 1 .. Len(q) + 1 :
        Append(Numbers(q), b.write)[i] = Append(q, b)[i].write
  <2> TAKE i \in 1 .. Len(q) + 1
  <2>1. i \in 1 .. Len(q) \/ i = Len(q) + 1
    BY <1>1
  <2>2. CASE i \in 1 .. Len(q)
    BY <1>1, <1>3, <2>2 DEF Numbers
  <2>3. CASE i = Len(q) + 1
    BY <1>1, <1>3, <2>3
  <2> QED BY <2>1, <2>2, <2>3
<1>5. Append(Numbers(q), b.write) = [i \in 1 .. Len(q) + 1 |-> Append(q, b)[i].write]
  <2>1. Append(Numbers(q), b.write)
          = [i \in DOMAIN Append(Numbers(q), b.write) |-> Append(Numbers(q), b.write)[i]]
    BY <1>2
  <2> QED BY <1>3, <1>4, <2>1
<1> QED BY <1>1, <1>5 DEF Numbers

\* A list without its first batch.
LEMMA NumbersTail ==
    ASSUME NEW S, NEW q \in Seq(S), q # << >>
    PROVE  /\ Numbers(q) # << >> /\ Head(Numbers(q)) = Head(q).write
           /\ Numbers(Tail(q)) = Tail(Numbers(q))
<1>1. /\ Len(q) \in Nat \ {0} /\ DOMAIN q = 1 .. Len(q)
      /\ Head(q) = q[1]
      /\ DOMAIN Tail(q) = 1 .. Len(q) - 1
      /\ \A i \in 1 .. Len(q) - 1 : Tail(q)[i] = q[i + 1]
  OBVIOUS
<1>2. Len(Numbers(q)) = Len(q) /\ Numbers(q) \in Seq({q[i].write : i \in 1 .. Len(q)})
  <2> DEFINE W == {q[i].write : i \in 1 .. Len(q)}
  <2>1. Numbers(q) \in [1 .. Len(q) -> W]
    BY <1>1 DEF Numbers
  <2> HIDE DEF W
  <2>2. Numbers(q) \in Seq(W) /\ Len(Numbers(q)) = Len(q)
    BY <1>1, <2>1, FunctionIsSeq
  <2> QED BY <2>2 DEF W
<1>3. /\ Numbers(q) # << >> /\ Head(Numbers(q)) = Numbers(q)[1]
      /\ \A i \in 1 .. Len(q) - 1 : Tail(Numbers(q))[i] = Numbers(q)[i + 1]
      /\ Tail(Numbers(q)) = [i \in 1 .. Len(q) - 1 |-> Tail(Numbers(q))[i]]
  <2>1. PICK s : s = Numbers(q)
    OBVIOUS
  <2>2. PICK W : s \in Seq(W) /\ Len(s) \in Nat \ {0}
    BY <1>1, <1>2, <2>1
  <2>3. /\ s # << >> /\ Head(s) = s[1]
        /\ Tail(s) \in Seq(W) /\ Len(Tail(s)) = Len(s) - 1
        /\ \A i \in 1 .. Len(s) - 1 : Tail(s)[i] = s[i + 1]
    BY <2>2
  <2>4. Tail(s) = [i \in 1 .. Len(s) - 1 |-> Tail(s)[i]]
    <3>1. DOMAIN Tail(s) = 1 .. Len(s) - 1
      BY <2>2, <2>3
    <3>2. Tail(s) = [i \in DOMAIN Tail(s) |-> Tail(s)[i]]
      <4>1. PICK t : t = Tail(s)
        OBVIOUS
      <4>2. t \in Seq(W)
        BY <2>3, <4>1
      <4>3. t = [i \in DOMAIN t |-> t[i]]
        BY ONLY <4>2
      <4> QED BY ONLY <4>1, <4>3
    <3> QED BY <3>1, <3>2
  <2> QED BY <1>2, <2>1, <2>3, <2>4
<1>4. \A i \in 1 .. Len(q) : Numbers(q)[i] = q[i].write
  BY <1>1 DEF Numbers
<1>5. \A i \in 1 .. Len(q) - 1 : Tail(q)[i].write = Tail(Numbers(q))[i]
  BY <1>1, <1>3, <1>4
<1>6. Numbers(Tail(q)) = [i \in 1 .. Len(q) - 1 |-> Tail(q)[i].write]
  BY <1>1 DEF Numbers
<1> QED BY <1>1, <1>3, <1>4, <1>5, <1>6

\* A batch after all others is the last of the list.
LEMMA InOrderGrows ==
    ASSUME NEW S \in SUBSET Batch, IsFiniteSet(S), UniqueIds(S),
           NEW b \in Batch, \A c \in S : c.id < b.id
    PROVE  InOrder(S \cup {b}) = Append(InOrder(S), b)
<1> DEFINE T == S \cup {b}
           q == InOrder(S)
           p == Append(q, b)
<1>1. T \in SUBSET Batch /\ IsFiniteSet(T)
  BY FS_AddElement
<1>2. UniqueIds(T)
  <2>1. \A c \in S : c.id # b.id
    BY DEF Batch
  <2> QED BY <2>1 DEF UniqueIds
<1>3. q \in Seq(S) /\ IdsAscend(q) /\ \A c \in S : Occurs(c, q)
  BY InOrderProperties
<1> HIDE DEF q
<1>4. /\ Len(q) \in Nat /\ p \in Seq(T) /\ Len(p) = Len(q) + 1
      /\ p[Len(q) + 1] = b
      /\ \A i \in 1 .. Len(q) : p[i] = q[i] /\ q[i] \in S
  <2>1. q \in Seq(T)
    BY <1>3, SeqMonotonic
  <2> QED BY <1>3, <2>1
<1> HIDE DEF p
<1>5. IdsAscend(p)
  <2> SUFFICES ASSUME NEW i \in 1 .. Len(q) + 1, NEW j \in 1 .. Len(q) + 1, i < j
               PROVE  p[i].id < p[j].id
    BY <1>4 DEF IdsAscend
  <2>1. i \in 1 .. Len(q) /\ (j \in 1 .. Len(q) \/ j = Len(q) + 1)
    BY <1>4
  <2>2. CASE j \in 1 .. Len(q)
    BY <1>3, <1>4, <2>1, <2>2 DEF IdsAscend
  <2>3. CASE j = Len(q) + 1
    BY <1>4, <2>1, <2>3
  <2> QED BY <2>1, <2>2, <2>3
<1>6. \A c \in T : Occurs(c, p)
  <2>1. ASSUME NEW c \in S PROVE Occurs(c, p)
    <3>1. PICK i \in 1 .. Len(q) : q[i] = c
      BY <1>3 DEF Occurs
    <3>2. i \in 1 .. Len(p) /\ p[i] = c
      BY <1>4, <3>1
    <3> QED BY <3>2 DEF Occurs
  <2>2. Occurs(b, p)
    <3>1. Len(q) + 1 \in 1 .. Len(p)
      BY <1>4
    <3> QED BY <1>4, <3>1 DEF Occurs
  <2> QED BY <2>1, <2>2
<1> HIDE DEF T
<1>7. p = InOrder(T)
  BY <1>1, <1>2, <1>4, <1>5, <1>6, EnumerationIsInOrder
<1> QED BY <1>7 DEF p, q, T

\* Without the first batch, the rest of the list is left.
LEMMA InOrderShrinks ==
    ASSUME NEW S \in SUBSET Batch, IsFiniteSet(S), UniqueIds(S),
           NEW b \in S, \A c \in S \ {b} : b.id < c.id
    PROVE  /\ InOrder(S) # << >> /\ Head(InOrder(S)) = b
           /\ InOrder(S \ {b}) = Tail(InOrder(S))
<1> DEFINE q == InOrder(S)
           T == S \ {b}
           n == Cardinality(S)
<1>1. /\ n \in Nat /\ q \in Seq(S) /\ Len(q) = n /\ IdsAscend(q)
      /\ \A c \in S : Occurs(c, q)
  BY InOrderProperties
<1> HIDE DEF q, n
<1>2. Lists(q, S, n)
  BY <1>1 DEF Lists
<1>3. q # << >>
  <2>1. Len(q) # 0
    BY <1>1 DEF Occurs
  <2> QED BY <1>1, <2>1
<1>4. /\ Head(q) \in S /\ \A c \in S \ {Head(q)} : Head(q).id < c.id
      /\ Tail(q) \in Seq(S \ {Head(q)}) /\ IdsAscend(Tail(q))
      /\ \A c \in S \ {Head(q)} : Occurs(c, q) => Occurs(c, Tail(q))
  BY <1>1, <1>2, <1>3, HeadAndTail
<1>5. Head(q) = b
  <2>1. Head(q).id \in Nat /\ b.id \in Nat
    BY <1>4 DEF Batch
  <2> QED BY <1>4, <2>1
<1>6. /\ T \in SUBSET Batch /\ IsFiniteSet(T) /\ UniqueIds(T)
      /\ Tail(q) \in Seq(T) /\ \A c \in T : Occurs(c, Tail(q))
  <2>1. IsFiniteSet(T)
    BY FS_Subset
  <2> QED BY <1>1, <1>4, <1>5, <2>1 DEF UniqueIds
<1> HIDE DEF T
<1>7. Tail(q) = InOrder(T)
  BY <1>4, <1>6, EnumerationIsInOrder
<1> QED BY <1>3, <1>5, <1>7 DEF q, T

\* The outbox of the current user lists its unacknowledged batches.
LEMMA OutboxOfUser ==
    ASSUME PipelineInv
    PROVE  Outboxes[user] = Numbers(InOrder(Unsent))
BY PendingFirst DEF Outboxes, PendingNumbers, Numbers, Unsent

\* A step that leaves the other users' queues alone changes one outbox.
LEMMA OutboxChanges ==
    ASSUME PipelineInv,
           NEW q, q = InOrder(Unacked(rows'[user], lastAcked'[user])),
           \A u \in Users \ {user} : Unacked(rows'[u], lastAcked'[u])
                                       = Unacked(rows[u], lastAcked[u])
    PROVE  Outboxes' = [Outboxes EXCEPT ![user] = Numbers(q)]
<1>1. user \in Users
  BY PendingFirst
<1>2. Outboxes' = [u \in Users |->
                     Numbers(InOrder(Unacked(rows'[u], lastAcked'[u])))]
  BY DEF Outboxes, PendingNumbers, Numbers
<1>3. Outboxes = [u \in Users |-> Numbers(InOrder(Unacked(rows[u], lastAcked[u])))]
  BY DEF Outboxes, PendingNumbers, Numbers
<1> QED BY <1>1, <1>2, <1>3

\* What the outbox does not show: requests, streams, queries, snapshots, and
\* the queues of other users being opened.
LEMMA OutboxStutters ==
    ASSUME UNCHANGED <<writes, log, confirmed, refused>>, QueuesStay
    PROVE  UNCHANGED O!outboxVars
<1>1. Outboxes' = Outboxes
  BY DEF QueuesStay, Outboxes, PendingNumbers
<1> QED BY <1>1 DEF O!outboxVars, Outboxes

\* A new write is filed at the end of its user's outbox.
LEMMA WriteIsFiled ==
    ASSUME PipelineInv, NEW k \in Keys, WriteMutations(k)
    PROVE  O!File(user)
<1>1. PICK b : b = [id |-> nextBatchID, write |-> Len(writes) + 1]
  OBVIOUS
<1>2. /\ b \in Batch /\ b.id = nextBatchID /\ b.write = Len(writes) + 1
      /\ user \in Users
      /\ \A u \in Users : \A c \in rows[u] : c.id < b.id
      /\ \A v \in Users \ {user} : rows'[v] = rows[v]
      /\ Unacked(rows'[user], lastAcked[user]) = Unsent \cup {b}
  BY <1>1, NewRow
<1>3. /\ UNCHANGED <<log, lastAcked, confirmed, refused>>
      /\ Len(writes') = Len(writes) + 1
  BY DEF WriteMutations, PipelineInv, PipelineTypeOK
<1>4. InOrder(Unsent \cup {b}) = Append(InOrder(Unsent), b)
  <2>1. Unsent \in SUBSET Batch /\ IsFiniteSet(Unsent) /\ UniqueIds(Unsent)
    BY PendingFirst
  <2>2. \A c \in Unsent : c.id < b.id
    BY <1>2 DEF Unsent, Unacked
  <2> QED BY <1>2, <2>1, <2>2, InOrderGrows
<1>5. Outboxes' = [Outboxes EXCEPT ![user] = Numbers(Append(InOrder(Unsent), b))]
  <2>1. Append(InOrder(Unsent), b) = InOrder(Unacked(rows'[user], lastAcked'[user]))
    BY <1>2, <1>3, <1>4
  <2>2. \A u \in Users \ {user} : Unacked(rows'[u], lastAcked'[u])
                                    = Unacked(rows[u], lastAcked[u])
    BY <1>2, <1>3
  <2> QED BY <2>1, <2>2, OutboxChanges
<1>6. Numbers(Append(InOrder(Unsent), b)) = Append(Outboxes[user], Len(writes) + 1)
  <2>1. InOrder(Unsent) \in Seq(Unsent)
    BY PendingFirst
  <2> QED BY <1>2, <2>1, NumbersAppend, OutboxOfUser
<1>7. Outboxes' = [Outboxes EXCEPT ![user] = Append(@, Len(writes) + 1)]
  BY <1>5, <1>6
<1> QED BY <1>3, <1>7 DEF O!File, Outboxes

\* The write of another device.
LEMMA RemoteWriteApplies ==
    ASSUME PipelineInv, NEW k \in Keys, RemoteWrite(k)
    PROVE  O!ApplyForeign
<1>1. /\ UNCHANGED <<rows, lastAcked, confirmed, refused>>
      /\ log' = Append(log, Len(writes) + 1)
      /\ Len(writes') = Len(writes) + 1
  BY DEF RemoteWrite, disk, PipelineInv, PipelineTypeOK
<1>2. Outboxes' = Outboxes
  BY <1>1 DEF Outboxes, PendingNumbers
<1> QED BY <1>1, <1>2 DEF O!ApplyForeign, Outboxes

\* An answer that is no refusal says where its write was applied.
LEMMA AnsweredIsApplied ==
    ASSUME PipelineInv, NEW i \in 1 .. Len(responses), responses[i] # Refusal
    PROVE  /\ i \in 1 .. Len(pendingWrites)
           /\ pendingWrites[i].write \in O!Applied
<1>1. /\ responses \in Seq(0 .. Len(log)) /\ Len(responses) \in Nat
      /\ Len(pendingWrites) \in Nat /\ log \in Seq(WriteNumbers) /\ Len(log) \in Nat
      /\ Len(responses) <= Len(pendingWrites)
  BY DEF PipelineInv, PipelineTypeOK, AnswersMatchPipeline
<1>2. responses[i] \in 1 .. Len(log)
  BY <1>1 DEF Refusal
<1>3. log[responses[i]] = pendingWrites[i].write
  <2>1. Refusing => i # Len(responses)
    BY DEF Refusing
  <2> QED BY <1>1, <2>1 DEF PipelineInv, AnswersMatchPipeline
<1> QED BY <1>1, <1>2, <1>3 DEF O!Applied

\* The server applies a pending write only after all before it.
LEMMA ServerAppliesInOrder ==
    ASSUME PipelineInv, ServerApplies
    PROVE  O!Apply(user)
<1> DEFINE i == Len(responses) + 1
           q == InOrder(Unsent)
<1>1. /\ UNCHANGED <<writes, rows, lastAcked, confirmed, refused>>
      /\ log' = Append(log, Head(requests).write)
      /\ requests # << >> /\ ~Refusing
  BY DEF ServerApplies, disk, ghosts
<1>2. /\ Len(responses) \in Nat /\ i \in 1 .. Len(pendingWrites)
      /\ Head(requests) = pendingWrites[i]
  BY <1>1, NextRequest
<1>3. /\ q \in Seq(Unsent) /\ Len(q) \in Nat
      /\ Len(pendingWrites) \in Nat /\ Len(pendingWrites) <= Len(q)
      /\ \A j \in 1 .. Len(pendingWrites) : pendingWrites[j] = q[j]
  BY PendingFirst
<1>4. Outboxes[user] = Numbers(q)
  BY OutboxOfUser
<1> HIDE DEF q
<1>5. /\ i \in DOMAIN Outboxes[user]
      /\ \A j \in 1 .. i : Outboxes[user][j] = pendingWrites[j].write
  BY <1>2, <1>3, <1>4 DEF Numbers
<1>6. \A j \in 1 .. i - 1 : Outboxes[user][j] \in O!Applied
  <2> TAKE j \in 1 .. i - 1
  <2>1. j \in 1 .. Len(responses)
    BY <1>2
  <2>2. responses[j] # Refusal
    <3>1. j = Len(responses) \/ j \in 1 .. Len(responses) - 1
      BY <1>2
    <3>2. CASE j = Len(responses)
      <4>1. responses # << >>
        BY <2>1
      <4> QED BY <1>1, <3>2, <4>1 DEF Refusing
    <3>3. CASE j \in 1 .. Len(responses) - 1
      BY <3>3 DEF PipelineInv, StreamInOrder
    <3> QED BY <3>1, <3>2, <3>3
  <2>3. pendingWrites[j].write \in O!Applied
    BY <2>1, <2>2, AnsweredIsApplied
  <2> QED BY <1>2, <1>5, <2>1, <2>3
<1>7. log' = Append(log, Outboxes[user][i])
  BY <1>1, <1>2, <1>5
<1>8. Outboxes' = Outboxes
  BY <1>1 DEF Outboxes, PendingNumbers
<1>9. \E n \in DOMAIN Outboxes[user] :
        /\ \A j \in 1 .. n - 1 : Outboxes[user][j] \in O!Applied
        /\ log' = Append(log, Outboxes[user][n])
  BY <1>5, <1>6, <1>7
<1> QED BY <1>1, <1>8, <1>9 DEF O!Apply, Outboxes

\* The first pending write leaves the outbox with its answer.
LEMMA OutboxShrinks ==
    ASSUME PipelineInv, responses # << >>, NEW b, b = Head(pendingWrites),
           Unacked(rows'[user], lastAcked'[user]) = Unsent \ {b},
           \A u \in Users \ {user} : Unacked(rows'[u], lastAcked'[u])
                                       = Unacked(rows[u], lastAcked[u])
    PROVE  /\ Outboxes[user] # << >> /\ Head(Outboxes[user]) = b.write
           /\ Outboxes' = [Outboxes EXCEPT ![user] = Tail(@)]
<1>1. b \in Unsent /\ \A c \in Unsent \ {b} : b.id < c.id
  BY FirstPending
<1>2. /\ InOrder(Unsent) # << >> /\ Head(InOrder(Unsent)) = b
      /\ InOrder(Unsent \ {b}) = Tail(InOrder(Unsent))
  <2>1. Unsent \in SUBSET Batch /\ IsFiniteSet(Unsent) /\ UniqueIds(Unsent)
    BY PendingFirst
  <2> QED BY <1>1, <2>1, InOrderShrinks
<1>3. Outboxes' = [Outboxes EXCEPT ![user] = Numbers(Tail(InOrder(Unsent)))]
  <2>1. Tail(InOrder(Unsent)) = InOrder(Unacked(rows'[user], lastAcked'[user]))
    BY <1>2
  <2> QED BY <2>1, OutboxChanges
<1>4. /\ Numbers(InOrder(Unsent)) # << >>
      /\ Head(Numbers(InOrder(Unsent))) = Head(InOrder(Unsent)).write
      /\ Numbers(Tail(InOrder(Unsent))) = Tail(Numbers(InOrder(Unsent)))
  <2>1. InOrder(Unsent) \in Seq(Unsent)
    BY PendingFirst
  <2> QED BY <1>2, <2>1, NumbersTail
<1> QED BY <1>2, <1>3, <1>4, OutboxOfUser

\* A success is that of the first write of the outbox, which was applied.
LEMMA ResponseConfirms ==
    ASSUME PipelineInv, ReceiveResponse
    PROVE  O!Confirm(user)
<1>1. PICK b : b = Head(pendingWrites)
  OBVIOUS
<1>2. /\ UNCHANGED <<writes, log, refused>>
      /\ responses # << >> /\ Head(responses) # Refusal
      /\ confirmed' = confirmed \cup {b.write}
      /\ ProcessUserCallbacks(b.id, "success")
  BY <1>1 DEF ReceiveResponse
<1>3. /\ Unacked(rows'[user], lastAcked'[user]) = Unsent \ {b}
      /\ \A u \in Users \ {user} : rows'[u] = rows[u] /\ lastAcked'[u] = lastAcked[u]
  <2>1. blocks' \in [Users -> SUBSET Batch]
    BY <1>2 DEF ProcessUserCallbacks, PipelineInv, QueuesInv, Tables
  <2> QED BY <1>1, <2>1, AnsweredQueues
<1>4. /\ Outboxes[user] # << >> /\ Head(Outboxes[user]) = b.write
      /\ Outboxes' = [Outboxes EXCEPT ![user] = Tail(@)]
  BY <1>1, <1>2, <1>3, OutboxShrinks
<1>5. b.write \in O!Applied
  <2>1. /\ 1 \in 1 .. Len(responses) /\ responses[1] # Refusal
    BY <1>2 DEF PipelineInv, PipelineTypeOK
  <2>2. b = pendingWrites[1]
    BY <1>1, <1>2, FirstPending
  <2> QED BY <2>1, <2>2, AnsweredIsApplied
<1> QED BY <1>2, <1>4, <1>5 DEF O!Confirm, Outboxes

\* A failure is that of the first write of the outbox.
LEMMA RefusalRefuses ==
    ASSUME PipelineInv, ReceiveRefusal
    PROVE  O!Refuse(user)
<1>1. PICK b : b = Head(pendingWrites)
  OBVIOUS
<1>2. /\ UNCHANGED <<writes, log, lastAcked, user, nextBatchID, held, confirmed>>
      /\ responses # << >>
      /\ rows' = [rows EXCEPT ![user] = @ \ {b}]
      /\ refused' = refused \cup {b.write}
      /\ ProcessUserCallbacks(b.id, "failure")
  BY <1>1 DEF ReceiveRefusal
<1>3. /\ Unacked(rows'[user], lastAcked'[user]) = Unsent \ {b}
      /\ \A u \in Users \ {user} : Unacked(rows'[u], lastAcked'[u])
                                     = Unacked(rows[u], lastAcked[u])
  <2>1. blocks' \in [Users -> SUBSET Batch]
    BY <1>2 DEF ProcessUserCallbacks, PipelineInv, QueuesInv, Tables
  <2>2. b \in Unsent
    BY <1>1, <1>2, FirstPending
  <2>3. /\ Unacked(rows'[user], lastAcked[user]) = Unsent \ {b}
        /\ \A u \in Users \ {user} : rows'[u] = rows[u]
    BY <1>2, <2>1, <2>2, RefusedQueues
  <2> QED BY <1>2, <2>3
<1>4. /\ Outboxes[user] # << >> /\ Head(Outboxes[user]) = b.write
      /\ Outboxes' = [Outboxes EXCEPT ![user] = Tail(@)]
  BY <1>1, <1>2, <1>3, OutboxShrinks
<1> QED BY <1>2, <1>4 DEF O!Refuse, Outboxes

\* Nothing is filed at first.
LEMMA InitRefinesOutbox == Init => O!Init
<1> SUFFICES ASSUME Init PROVE O!Init
  OBVIOUS
<1>1. writes = << >> /\ log = << >> /\ confirmed = {} /\ refused = {}
  BY DEF Init
<1>2. ASSUME NEW u \in Users PROVE PendingNumbers(u) = << >>
  <2>1. Unacked(rows[u], lastAcked[u]) = {}
    BY DEF Init, Unacked
  <2>2. InOrder({}) = << >>
    BY FS_EmptySet DEF InOrder
  <2> QED BY <2>1, <2>2 DEF PendingNumbers
<1> QED BY <1>1, <1>2 DEF O!Init

\* Every step is one of the outbox, or none.
LEMMA NextRefinesOutbox ==
    ASSUME PipelineInv, [Next]_vars
    PROVE  [O!Next]_(O!outboxVars)
<1>0. user \in Users
  BY PendingFirst
<1>1. ASSUME NEW k \in Keys, WriteMutations(k) \/ RemoteWrite(k)
      PROVE  O!Next
  BY <1>0, <1>1, WriteIsFiled, RemoteWriteApplies DEF O!Next
<1>2. CASE ServerApplies
  BY <1>0, <1>2, ServerAppliesInOrder DEF O!Next
<1>3. CASE ReceiveResponse \/ ReceiveRefusal
  BY <1>0, <1>3, ResponseConfirms, RefusalRefuses DEF O!Next
<1>4. CASE \/ StreamOpens \/ CompleteHandshake \/ BreakStream \/ CloseIdleStream
           \/ ServerRefuses \/ (\E t \in Targets : Listen(t)) \/ UNCHANGED vars
  <2>1. UNCHANGED <<writes, log, confirmed, refused, rows, lastAcked>>
    BY <1>4 DEF StreamOpens, CompleteHandshake, BreakStream, CloseIdleStream,
                CloseStream, ServerRefuses, Listen, vars, disk, ghosts
  <2> QED BY <2>1, OutboxStutters DEF QueuesStay
<1>5. ASSUME NEW t \in Targets, ReleaseQuery(t)
      PROVE  UNCHANGED O!outboxVars
  <2>1. UNCHANGED <<writes, log, confirmed, refused>>
    BY <1>5 DEF ReleaseQuery, ghosts
  <2> QED BY <1>5, <2>1, ReleaseQueryStep, OutboxStutters
<1>6. ASSUME NEW v \in 1 .. Len(log), WatchSnapshot(v)
      PROVE  UNCHANGED O!outboxVars
  <2>1. UNCHANGED <<writes, log, confirmed, refused>>
    BY <1>6 DEF WatchSnapshot, ghosts
  <2> QED BY <1>6, <2>1, WatchSnapshotStep, OutboxStutters
<1>7. ASSUME NEW u \in Users, UserDidChange(u) \/ Relaunch(u)
      PROVE  UNCHANGED O!outboxVars
  <2>1. UNCHANGED <<writes, log, confirmed, refused>>
    BY <1>7 DEF UserDidChange, Relaunch
  <2> QED BY <1>7, <2>1, UserDidChangeStep, RelaunchStep, OutboxStutters
<1> QED BY <1>1, <1>2, <1>3, <1>4, <1>5, <1>6, <1>7 DEF Next

\* Filed writes reach the server in order, none is skipped, and none is
\* confirmed before the server applied it, whatever breaks, and whoever signs
\* in: the write path of the SDK implements Outbox.
THEOREM PipelineImplementsOutbox == Spec => ImplementsOutbox
<1>1. Init => O!Init
  BY InitRefinesOutbox
<1>2. PipelineInv /\ [Next]_vars => [O!Next]_(O!outboxVars)
  BY NextRefinesOutbox
<1> QED BY <1>1, <1>2, PipelineCorrect, PTL DEF Spec, ImplementsOutbox, O!Spec

-----------------------------------------------------------------------------
\* NotReverted: the parts of the invariant about the order of the server's log.

\* Writes that are confirmed but held back.
HeldWrites == {held[i].batch.write : i \in DOMAIN held}

Answers == {responses[i] : i \in DOMAIN responses} \ {Refusal}

\* The server applied w before version v, by version v, or before it applied x.
AppliedBefore(w, v) == \E i \in Places(w) : i < v
Reached(w, v) == \E i \in Places(w) : i <= v
Overtaken(w, x) == \E i \in Places(w), j \in Places(x) : i < j

\* A queue lists writes in the order they were made, and none that waits is
\* confirmed.
RowsInOrder ==
    \A u \in Users :
      /\ \A b, c \in rows[u] : b.id < c.id => b.write < c.write
      /\ \A b \in Unacked(rows[u], lastAcked[u]) : b.write \notin confirmed

\* What is answered was applied after all that was confirmed, in order.
AnswersLater ==
    /\ \A w \in confirmed : Places(w) # {}
    /\ \A i, j \in DOMAIN responses :
         i < j /\ responses[j] # Refusal => responses[i] < responses[j]
    /\ \A r \in Answers : /\ \A w \in confirmed : AppliedBefore(w, r)
                          /\ \A j \in DOMAIN held : held[j].version < r

\* Results carry the version of their write, in order.
ResultsInOrder(h) ==
    /\ \A j \in DOMAIN h : log[h[j].version] = h[j].batch.write
    /\ \A i, j \in DOMAIN h : i < j => h[i].version < h[j].version

\* What is held was applied after what is confirmed and no longer held.
HeldLater ==
    /\ ResultsInOrder(held)
    /\ \A w \in confirmed \ HeldWrites : \A j \in DOMAIN held :
         AppliedBefore(w, held[j].version)

\* Documents have the versions of the snapshot at v, and are no older.
UpToDate(docs, v) ==
    \A k \in Keys :
      /\ docs[k].version = VersionAt(k, v)
      /\ docs[k].version > 0
           => \E j \in Places(docs[k].write) : docs[k].version <= j

CacheUpToDate ==
    /\ UpToDate(cache, remoteVersion)
    /\ \A t \in Targets : resume[t] <= remoteVersion

\* A snapshot up to v covers w, or the documents show it or something newer.
Kept(docs, v, w) ==
    \/ w \in dropped
    \/ Reached(w, v)
    \/ docs[writes[w].key].write = w
    \/ Overtaken(w, docs[writes[w].key].write)

CacheKeeps == \A w \in confirmed \ HeldWrites : Kept(cache, remoteVersion, w)

\* The next snapshot will cover what is confirmed and no longer held.
SnapshotBrings ==
    targets # {} =>
      \A w \in confirmed \ HeldWrites :
        w \in dropped \/ Reached(w, remoteVersion) \/ Reached(w, floor)

ShownInv ==
    /\ PipelineInv
    /\ RowsInOrder
    /\ AnswersLater
    /\ HeldLater
    /\ CacheUpToDate
    /\ CacheKeeps
    /\ SnapshotBrings

-----------------------------------------------------------------------------
\* The facts of the types that the order of the log rests on.
LogTypes ==
    /\ log \in Seq(WriteNumbers) /\ Len(log) \in Nat /\ DOMAIN log = 1 .. Len(log)
    /\ \A i \in 1 .. Len(log) : log[i] \in WriteNumbers
    /\ \A w : Places(w) \subseteq 1 .. Len(log)
    /\ cache \in [Keys -> [write : {0} \cup WriteNumbers, version : 0 .. Len(log)]]
    /\ remoteVersion \in 0 .. Len(log) /\ floor \in 0 .. Len(log)
    /\ resume \in [Targets -> 0 .. Len(log)] /\ targets \subseteq Targets
    /\ \A j \in DOMAIN held : /\ held[j] \in HeldResult
                              /\ held[j].version \in 1 .. Len(log)
    /\ held \in Seq(HeldResult)
    /\ \A i \in DOMAIN responses : responses[i] \in 0 .. Len(log)
    /\ DOMAIN responses = 1 .. Len(responses) /\ Len(responses) \in Nat
    /\ responses \in Seq(0 .. Len(log))
    /\ confirmed \subseteq WriteNumbers
    /\ \A w \in WriteNumbers : writes[w].key \in Keys
    /\ user \in Users /\ rows \in [Users -> SUBSET Batch]
    /\ lastAcked \in [Users -> Int]

\* They follow from the invariant.
LEMMA LogTyped == PipelineInv => LogTypes
<1> SUFFICES ASSUME PipelineInv PROVE LogTypes
  OBVIOUS
<1>1. PipelineTypeOK
  BY DEF PipelineInv
<1>2. /\ log \in Seq(WriteNumbers) /\ Len(log) \in Nat /\ DOMAIN log = 1 .. Len(log)
      /\ \A i \in 1 .. Len(log) : log[i] \in WriteNumbers
  <2>1. log \in Seq(WriteNumbers)
    BY <1>1 DEF PipelineTypeOK
  <2> QED BY <2>1, LenProperties, ElementOfSeq
<1>3. \A w : Places(w) \subseteq 1 .. Len(log)
  BY <1>2 DEF Places
<1>4. /\ held \in Seq(HeldResult)
      /\ \A j \in DOMAIN held : /\ held[j] \in HeldResult
                                /\ held[j].version \in 1 .. Len(log)
  <2> DEFINE Result == [batch : Batch, version : 1 .. Len(log)]
  <2>1. held \in Seq(Result)
    BY <1>1 DEF PipelineTypeOK
  <2>2. Result \subseteq HeldResult
    BY <1>2 DEF HeldResult
  <2>3. \A r \in Result : r.version \in 1 .. Len(log)
    OBVIOUS
  <2> HIDE DEF Result
  <2>4. held \in Seq(HeldResult)
    BY <2>1, <2>2, SeqMonotonic
  <2>5. \A j \in DOMAIN held : held[j] \in Result
    BY <2>1, LenProperties, ElementOfSeq
  <2> QED BY <2>2, <2>3, <2>4, <2>5
<1>5. /\ \A i \in DOMAIN responses : responses[i] \in 0 .. Len(log)
      /\ DOMAIN responses = 1 .. Len(responses) /\ Len(responses) \in Nat
      /\ responses \in Seq(0 .. Len(log))
  <2>1. responses \in Seq(0 .. Len(log))
    BY <1>1 DEF PipelineTypeOK
  <2> QED BY <2>1, LenProperties, ElementOfSeq
<1>6. \A w \in WriteNumbers : writes[w].key \in Keys
  <2> DEFINE R == [user : Users \cup {Elsewhere}, key : Keys]
  <2>1. writes \in Seq(R)
    BY <1>1 DEF PipelineTypeOK
  <2>2. \A r \in R : r.key \in Keys
    OBVIOUS
  <2> HIDE DEF R
  <2>3. \A w \in 1 .. Len(writes) : writes[w] \in R
    BY <2>1, ElementOfSeq
  <2> QED BY <2>2, <2>3 DEF WriteNumbers
<1>7. rows \in [Users -> SUBSET Batch]
  BY DEF PipelineInv, QueuesInv, Tables
<1>8. /\ cache \in [Keys -> [write : {0} \cup WriteNumbers, version : 0 .. Len(log)]]
      /\ remoteVersion \in 0 .. Len(log) /\ floor \in 0 .. Len(log)
      /\ resume \in [Targets -> 0 .. Len(log)] /\ targets \subseteq Targets
      /\ user \in Users /\ lastAcked \in [Users -> Int]
      /\ confirmed \subseteq WriteNumbers
  BY <1>1 DEF PipelineTypeOK
<1> QED BY <1>2, <1>3, <1>4, <1>5, <1>6, <1>7, <1>8 DEF LogTypes

\* The last place of a write to k among the first v, as Max gives it.
LEMMA VersionAtIs ==
    ASSUME LogTypes, NEW k, NEW v \in 0 .. Len(log)
    PROVE  /\ VersionAt(k, v) \in 0 .. v
           /\ \A i \in 1 .. v : writes[log[i]].key = k => i <= VersionAt(k, v)
           /\ VersionAt(k, v) > 0 => writes[log[VersionAt(k, v)]].key = k
<1> DEFINE P == {i \in 1 .. v : writes[log[i]].key = k} \cup {0}
<1>1. P \in SUBSET (0 .. v) /\ P \in SUBSET Int /\ P # {} /\ v \in Int
  BY DEF LogTypes
<1>2. \A i \in P : i = 0 \/ writes[log[i]].key = k
  OBVIOUS
<1>3. \A i \in 1 .. v : writes[log[i]].key = k => i \in P
  OBVIOUS
<1>4. VersionAt(k, v) = Max(P)
  BY DEF VersionAt
<1>5. IsFiniteSet(P)
  <2>1. IsFiniteSet(0 .. v)
    BY <1>1, FS_Interval
  <2> HIDE DEF P
  <2> QED BY <1>1, <2>1, FS_Subset
<1> HIDE DEF P
<1>6. Max(P) \in P /\ \A i \in P : i <= Max(P)
  BY <1>1, <1>5, MaxOfSet
<1>7. VersionAt(k, v) \in P /\ \A i \in P : i <= VersionAt(k, v)
  BY <1>4, <1>6
<1>8. VersionAt(k, v) \in 0 .. v
  BY <1>1, <1>7
<1>9. VersionAt(k, v) > 0 => writes[log[VersionAt(k, v)]].key = k
  BY <1>2, <1>7, <1>8
<1> QED BY <1>3, <1>7, <1>8, <1>9

-----------------------------------------------------------------------------
\* More writes may be made and applied; what is logged stays.
Grown ==
    /\ Len(log) <= Len(log')
    /\ \A i \in 1 .. Len(log) : log'[i] = log[i]
    /\ \A w \in WriteNumbers : writes'[w] = writes[w]

\* Places in the log stay.
LEMMA PlacesStay ==
    ASSUME LogTypes, LogTypes', Grown
    PROVE  \A w : Places(w) \subseteq Places(w)'
BY DEF LogTypes, Grown, Places

\* The snapshot at a version is the same, however the log grows.
LEMMA VersionsStay ==
    ASSUME LogTypes, LogTypes', Grown, NEW k, NEW v \in 0 .. Len(log),
           NEW new, new = VersionAt(k, v)'
    PROVE  new = VersionAt(k, v)
<1>1. \A i \in 1 .. v : /\ i \in 1 .. Len(log) /\ log'[i] = log[i]
                        /\ writes'[log[i]] = writes[log[i]]
  BY DEF LogTypes, Grown
<1>2. {i \in 1 .. v : writes'[log'[i]].key = k} = {i \in 1 .. v : writes[log[i]].key = k}
  BY <1>1
<1> QED BY <1>2 DEF VersionAt

\* The documents and results stay as good as they were while only the log grows.
LEMMA LogGrows ==
    ASSUME LogTypes, LogTypes', Grown,
           HeldLater, CacheUpToDate, CacheKeeps, SnapshotBrings,
           UNCHANGED <<cache, remoteVersion, resume, held, confirmed, dropped,
                       targets, floor>>
    PROVE  HeldLater' /\ CacheUpToDate' /\ CacheKeeps' /\ SnapshotBrings'
<1>1. \A w : Places(w) \subseteq Places(w)'
  BY PlacesStay
<1>2. HeldWrites' = HeldWrites
  BY DEF HeldWrites
<1>3. /\ \A w, v : AppliedBefore(w, v) => AppliedBefore(w, v)'
      /\ \A w, v : Reached(w, v) => Reached(w, v)'
      /\ \A w, x : Overtaken(w, x) => Overtaken(w, x)'
  BY <1>1 DEF AppliedBefore, Reached, Overtaken
<1>4. HeldLater'
  <2>1. ResultsInOrder(held)'
    BY DEF HeldLater, ResultsInOrder, LogTypes, Grown
  <2>2. ASSUME NEW w \in confirmed \ HeldWrites, NEW j \in DOMAIN held
        PROVE  AppliedBefore(w, held[j].version)'
    <3>1. PICK v : v = held[j].version
      OBVIOUS
    <3>2. AppliedBefore(w, v)'
      BY <1>3, <2>2, <3>1 DEF HeldLater
    <3> QED BY <3>1, <3>2
  <2> QED BY <1>2, <2>1, <2>2 DEF HeldLater
<1>5. CacheUpToDate'
  <2>1. ASSUME NEW k \in Keys
        PROVE  /\ cache'[k].version = VersionAt(k, remoteVersion)'
               /\ cache'[k].version > 0
                    => \E j \in Places(cache[k].write)' : cache'[k].version <= j
    <3>1. PICK v : v = remoteVersion
      OBVIOUS
    <3>2. PICK new : new = VersionAt(k, v)'
      OBVIOUS
    <3>3. new = VersionAt(k, v)
      BY <3>1, <3>2, VersionsStay DEF LogTypes
    <3>4. VersionAt(k, remoteVersion)' = VersionAt(k, remoteVersion)
      BY <3>1, <3>2, <3>3 DEF VersionAt
    <3>5. PICK x : x = cache[k].write
      OBVIOUS
    <3>6. Places(x) \subseteq Places(x)' /\ Places(cache[k].write)' = Places(x)'
      BY <1>1, <3>5
    <3> QED BY <3>4, <3>5, <3>6 DEF CacheUpToDate, UpToDate
  <2> QED BY <2>1 DEF CacheUpToDate, UpToDate
<1>6. CacheKeeps'
  <2> SUFFICES ASSUME NEW w \in confirmed \ HeldWrites
               PROVE  Kept(cache, remoteVersion, w)'
    BY <1>2 DEF CacheKeeps
  <2>1. PICK x, v : x = cache[writes[w].key].write /\ v = remoteVersion
    OBVIOUS
  <2>2. writes'[w] = writes[w]
    BY DEF LogTypes, Grown
  <2>3. w \in dropped \/ Reached(w, v) \/ x = w \/ Overtaken(w, x)
    BY <2>1 DEF CacheKeeps, Kept
  <2>4. w \in dropped' \/ Reached(w, v)' \/ x = w \/ Overtaken(w, x)'
    BY <1>3, <2>3
  <2> QED BY <2>1, <2>2, <2>4 DEF Kept
<1>7. SnapshotBrings'
  <2> SUFFICES ASSUME NEW w \in confirmed \ HeldWrites, targets # {}
               PROVE  w \in dropped' \/ Reached(w, remoteVersion)' \/ Reached(w, floor)'
    BY <1>2 DEF SnapshotBrings
  <2>1. PICK v, f : v = remoteVersion /\ f = floor
    OBVIOUS
  <2>2. w \in dropped \/ Reached(w, v)' \/ Reached(w, f)'
    BY <1>3, <2>1 DEF SnapshotBrings
  <2> QED BY <2>1, <2>2
<1> QED BY <1>4, <1>5, <1>6, <1>7

\* What applying results does to the document of k: nothing, if no result for
\* it is newer than its version; otherwise it has the write of the last that is.
Applied(docs, rel, new, k) ==
    \/ /\ new[k] = docs[k]
       /\ \A i \in DOMAIN rel : writes[rel[i].batch.write].key = k
                                  => rel[i].version <= docs[k].version
    \/ \E m \in DOMAIN rel :
         /\ writes[rel[m].batch.write].key = k /\ docs[k].version < rel[m].version
         /\ new[k].version = docs[k].version
         /\ new[k].write = rel[m].batch.write
         /\ \A i \in DOMAIN rel :
              writes[rel[i].batch.write].key = k /\ docs[k].version < rel[i].version
                => i <= m

\* ApplyBatchResults does that.
LEMMA ResultsApplied ==
    ASSUME NEW W, NEW V \in SUBSET Int,
           NEW docs \in [Keys -> [write : W, version : V]],
           NEW rel \in Seq(HeldResult), NEW new, new = ApplyBatchResults(docs, rel),
           NEW k \in Keys
    PROVE  Applied(docs, rel, new, k)
<1> DEFINE mine == {i \in DOMAIN rel : /\ writes[rel[i].batch.write].key = k
                                       /\ docs[k].version < rel[i].version}
<1>1. /\ DOMAIN rel = 1 .. Len(rel) /\ Len(rel) \in Nat
      /\ \A i \in DOMAIN rel : rel[i].version \in Int
      /\ docs[k] \in [write : W, version : V] /\ docs[k].version \in Int
  <2>1. DOMAIN rel = 1 .. Len(rel) /\ Len(rel) \in Nat
    BY LenProperties
  <2>2. \A i \in DOMAIN rel : rel[i] \in HeldResult
    BY <2>1, ElementOfSeq
  <2>3. \A r \in HeldResult : r.version \in Int
    BY DEF HeldResult
  <2>4. docs[k] \in [write : W, version : V] /\ docs[k].version \in Int
    OBVIOUS
  <2> QED BY <2>1, <2>2, <2>3, <2>4
<1>2. new[k] = IF mine = {} THEN docs[k]
               ELSE [docs[k] EXCEPT !.write = rel[Max(mine)].batch.write]
  BY DEF ApplyBatchResults
<1>3. /\ mine \in SUBSET Int /\ mine \subseteq DOMAIN rel
      /\ \A i \in mine : /\ writes[rel[i].batch.write].key = k
                         /\ docs[k].version < rel[i].version
      /\ \A i \in DOMAIN rel :
           writes[rel[i].batch.write].key = k /\ docs[k].version < rel[i].version
             => i \in mine
  BY <1>1
<1>4. IsFiniteSet(mine)
  <2>1. IsFiniteSet(1 .. Len(rel))
    BY <1>1, FS_Interval
  <2> HIDE DEF mine
  <2> QED BY <1>1, <1>3, <2>1, FS_Subset
<1> HIDE DEF mine
<1>5. CASE mine = {}
  <2>1. new[k] = docs[k]
    BY <1>2, <1>5
  <2>2. \A i \in DOMAIN rel : writes[rel[i].batch.write].key = k
                                => rel[i].version <= docs[k].version
    BY <1>1, <1>3, <1>5
  <2> QED BY <2>1, <2>2 DEF Applied
<1>6. CASE mine # {}
  <2>1. PICK m : m = Max(mine)
    OBVIOUS
  <2>2. m \in mine /\ \A i \in mine : i <= m
    BY <1>3, <1>4, <1>6, <2>1, MaxOfSet
  <2>3. new[k] = [docs[k] EXCEPT !.write = rel[m].batch.write]
    BY <1>2, <1>6, <2>1
  <2>4. new[k].version = docs[k].version /\ new[k].write = rel[m].batch.write
    BY <1>1, <2>3
  <2>5. \A i \in DOMAIN rel :
          writes[rel[i].batch.write].key = k /\ docs[k].version < rel[i].version
            => i <= m
    BY <1>3, <2>2
  <2>6. /\ m \in DOMAIN rel /\ writes[rel[m].batch.write].key = k
        /\ docs[k].version < rel[m].version
    BY <1>3, <2>2
  <2> QED BY <2>4, <2>5, <2>6 DEF Applied
<1> QED BY <1>5, <1>6

\* Documents of the snapshot at v that keep S, and results that come after all
\* of S in the log.
Appliable(docs, v, S, rel) ==
    /\ docs \in [Keys -> [write : {0} \cup WriteNumbers, version : 0 .. Len(log)]]
    /\ UpToDate(docs, v)
    /\ \A w \in S : Kept(docs, v, w)
    /\ rel \in Seq(HeldResult)
    /\ ResultsInOrder(rel)
    /\ \A i \in DOMAIN rel : /\ rel[i].version \in 1 .. Len(log)
                             /\ \A w \in S : AppliedBefore(w, rel[i].version)

StillKept(new, v, S, rel) ==
    /\ UpToDate(new, v)
    /\ \A w \in S \cup {rel[i].batch.write : i \in DOMAIN rel} : Kept(new, v, w)

\* Once they are applied, the documents show the results or something newer,
\* and of S nothing older than before.
LEMMA AppliedKeeps ==
    ASSUME LogTypes, NEW v \in 0 .. Len(log), NEW S \in SUBSET WriteNumbers,
           NEW docs, NEW rel, Appliable(docs, v, S, rel),
           NEW new, new = ApplyBatchResults(docs, rel)
    PROVE  StillKept(new, v, S, rel)
<1> USE DEF Appliable
<1>1. \A k \in Keys : Applied(docs, rel, new, k)
  <2>1. 0 .. Len(log) \in SUBSET Int
    BY DEF LogTypes
  <2> QED BY <2>1, ResultsApplied
<1>2. \A i \in DOMAIN rel : /\ rel[i].version \in Places(rel[i].batch.write)
                            /\ rel[i].batch.write \in WriteNumbers
  BY DEF LogTypes, ResultsInOrder, Places
<1>3. \A k \in Keys : /\ docs[k].version = VersionAt(k, v)
                      /\ docs[k].version \in 0 .. v /\ docs[k].version \in Int
  BY VersionAtIs DEF UpToDate
<1>4. v \in Int /\ \A w : Places(w) \subseteq Int
  BY DEF LogTypes
<1>5. UpToDate(new, v)
  <2> SUFFICES ASSUME NEW k \in Keys
               PROVE  /\ new[k].version = VersionAt(k, v)
                      /\ new[k].version > 0
                           => \E j \in Places(new[k].write) : new[k].version <= j
    BY DEF UpToDate
  <2>1. CASE new[k] = docs[k]
    BY <2>1 DEF UpToDate
  <2>2. CASE \E m \in DOMAIN rel : /\ docs[k].version < rel[m].version
                                   /\ new[k].version = docs[k].version
                                   /\ new[k].write = rel[m].batch.write
    <3>1. PICK m \in DOMAIN rel : /\ docs[k].version < rel[m].version
                                  /\ new[k].version = docs[k].version
                                  /\ new[k].write = rel[m].batch.write
      BY <2>2
    <3>2. rel[m].version \in Places(new[k].write) /\ new[k].version <= rel[m].version
      BY <1>2, <1>3, <1>4, <3>1
    <3> QED BY <1>3, <3>1, <3>2
  <2> QED BY <1>1, <2>1, <2>2 DEF Applied
<1>6. ASSUME NEW w \in S
      PROVE  Kept(new, v, w)
  <2>1. PICK k \in Keys : k = writes[w].key
    BY DEF LogTypes
  <2>2. CASE new[k] = docs[k]
    BY <1>6, <2>1, <2>2 DEF Kept
  <2>3. CASE \E m \in DOMAIN rel : new[k].write = rel[m].batch.write
    <3>1. PICK m \in DOMAIN rel : new[k].write = rel[m].batch.write
      BY <2>3
    <3>2. \E i \in Places(w) : i < rel[m].version
      BY <1>6 DEF AppliedBefore
    <3>3. Overtaken(w, new[k].write)
      BY <1>2, <3>1, <3>2 DEF Overtaken
    <3> QED BY <2>1, <3>3 DEF Kept
  <2> QED BY <1>1, <2>2, <2>3 DEF Applied
<1>7. ASSUME NEW i \in DOMAIN rel
      PROVE  Kept(new, v, rel[i].batch.write)
  <2>1. PICK w \in WriteNumbers : w = rel[i].batch.write
    BY <1>2
  <2>2. PICK k \in Keys : k = writes[w].key
    BY DEF LogTypes
  <2>3. CASE rel[i].version <= docs[k].version
    <3>1. Reached(w, v)
      BY <1>2, <1>3, <1>4, <2>1, <2>3 DEF Reached
    <3> QED BY <2>1, <3>1 DEF Kept
  <2>4. CASE \E m \in DOMAIN rel : new[k].write = rel[m].batch.write /\ i <= m
    <3>1. PICK m \in DOMAIN rel : new[k].write = rel[m].batch.write /\ i <= m
      BY <2>4
    <3>2. CASE i = m
      BY <2>1, <2>2, <3>1, <3>2 DEF Kept
    <3>3. CASE i < m
      <4>1. rel[i].version < rel[m].version
        BY <3>3 DEF ResultsInOrder
      <4>2. Overtaken(w, new[k].write)
        BY <1>2, <2>1, <3>1, <4>1 DEF Overtaken
      <4> QED BY <2>1, <2>2, <4>2 DEF Kept
    <3>4. i = m \/ i < m
      <4>1. i \in Int /\ m \in Int
        BY LenProperties
      <4> QED BY <3>1, <4>1
    <3> QED BY <3>2, <3>3, <3>4
  <2>5. rel[i].version \in Int
    <3>1. rel[i].version \in 1 .. Len(log)
      OBVIOUS
    <3> QED BY <3>1
  <2>6. Applied(docs, rel, new, k)
    BY <1>1
  <2>7. CASE ~(rel[i].version <= docs[k].version)
    <3>1. docs[k].version < rel[i].version
      BY <1>3, <2>5, <2>7
    <3>2. \E m \in DOMAIN rel : new[k].write = rel[m].batch.write /\ i <= m
      BY <2>1, <2>2, <2>6, <2>7, <3>1 DEF Applied
    <3> QED BY <2>4, <3>2
  <2> QED BY <2>3, <2>7
<1> QED BY <1>5, <1>6, <1>7 DEF StillKept

\* The first n results and the others, by their places.
Split(h, n, out, rest) ==
    /\ out \in Seq(HeldResult) /\ rest \in Seq(HeldResult)
    /\ DOMAIN out = 1 .. n /\ DOMAIN rest = 1 .. Len(h) - n
    /\ \A i \in DOMAIN out : i \in DOMAIN h /\ out[i] = h[i]
    /\ \A i \in DOMAIN rest : n + i \in DOMAIN h /\ rest[i] = h[n + i]
    /\ \A i \in DOMAIN h : i \in DOMAIN out \/ \E j \in DOMAIN rest : i = n + j

\* Taking the first n results out splits them so.
LEMMA SplitResults ==
    ASSUME NEW h \in Seq(HeldResult), NEW n \in 0 .. Len(h),
           NEW out, out = SubSeq(h, 1, n),
           NEW rest, rest = SubSeq(h, n + 1, Len(h))
    PROVE  Split(h, n, out, rest)
<1>1. /\ Len(h) \in Nat /\ DOMAIN h = 1 .. Len(h) /\ n \in Nat /\ n <= Len(h)
      /\ \A i \in 1 .. Len(h) : h[i] \in HeldResult
  BY LenProperties, ElementOfSeq
<1>2. out \in Seq(HeldResult) /\ Len(out) = n /\ \A i \in 1 .. n : out[i] = h[i]
  <2>1. \A i \in 1 .. n : h[i] \in HeldResult
    BY <1>1
  <2>2. /\ out \in Seq(HeldResult) /\ Len(out) = IF 1 <= n THEN n - 1 + 1 ELSE 0
        /\ \A i \in 1 .. n - 1 + 1 : out[i] = h[1 + i - 1]
    BY <1>1, <2>1, SubSeqProperties
  <2>3. Len(out) = n
    BY <1>1, <2>2
  <2>4. \A i \in 1 .. n : i \in 1 .. n - 1 + 1 /\ 1 + i - 1 = i
    BY <1>1
  <2> QED BY <2>2, <2>3, <2>4
<1>3. /\ rest \in Seq(HeldResult) /\ Len(rest) = Len(h) - n
      /\ \A i \in 1 .. Len(h) - n : rest[i] = h[n + i]
  <2>1. \A i \in n + 1 .. Len(h) : h[i] \in HeldResult
    BY <1>1
  <2>2. /\ rest \in Seq(HeldResult)
        /\ Len(rest) = IF n + 1 <= Len(h) THEN Len(h) - (n + 1) + 1 ELSE 0
        /\ \A i \in 1 .. Len(h) - (n + 1) + 1 : rest[i] = h[(n + 1) + i - 1]
    BY <1>1, <2>1, SubSeqProperties
  <2>3. Len(rest) = Len(h) - n
    <3>1. n \in Int /\ Len(h) \in Int /\ n <= Len(h)
      BY <1>1
    <3>2. Len(rest) = IF n + 1 <= Len(h) THEN Len(h) - (n + 1) + 1 ELSE 0
      BY <2>2
    <3> QED BY ONLY <3>1, <3>2
  <2>4. \A i \in 1 .. Len(h) - n : /\ i \in 1 .. Len(h) - (n + 1) + 1
                                   /\ (n + 1) + i - 1 = n + i
    BY <1>1
  <2> QED BY <2>2, <2>3, <2>4
<1>4. DOMAIN out = 1 .. n /\ DOMAIN rest = 1 .. Len(h) - n
  BY <1>2, <1>3, LenProperties
<1>5. \A i \in 1 .. n : i \in DOMAIN h
  BY <1>1
<1>6. \A i \in 1 .. Len(h) - n : n + i \in DOMAIN h
  BY <1>1
<1>7. \A i \in DOMAIN h : i \in 1 .. n \/ \E j \in 1 .. Len(h) - n : i = n + j
  <2> TAKE i \in DOMAIN h
  <2>1. i \in 1 .. n \/ (i - n \in 1 .. Len(h) - n /\ i = n + (i - n))
    BY <1>1
  <2> QED BY <2>1
<1> QED BY <1>2, <1>3, <1>4, <1>5, <1>6, <1>7 DEF Split

\* Held results are released onto documents of the snapshot at v: what was
\* confirmed is still shown, and what is released is too.
LEMMA ReleaseShows ==
    ASSUME ShownInv, LogTypes, NEW v \in 0 .. Len(log), NEW active,
           NEW docs \in [Keys -> [write : {0} \cup WriteNumbers, version : 0 .. Len(log)]],
           ReleaseHeldBatchResults(docs, v, active),
           UpToDate(docs, v), \A w \in confirmed \ HeldWrites : Kept(docs, v, w),
           UNCHANGED <<writes, log, user, confirmed, dropped, responses, floor>>,
           QueuesStay, remoteVersion' = v, \A t \in Targets : resume'[t] <= v,
           targets' # {} => active # {} /\ \A w \in confirmed \ HeldWrites :
             w \in dropped \/ Reached(w, v) \/ Reached(w, floor)
    PROVE  /\ RowsInOrder' /\ AnswersLater' /\ HeldLater'
           /\ CacheUpToDate' /\ CacheKeeps' /\ SnapshotBrings'
<1> DEFINE prefix == {i \in 0 .. Len(held) :
                        \A j \in 1 .. i : IsRemoteUpTo(held[j].version, v, active)}
<1>1. PICK n : n = Max(prefix)
  OBVIOUS
<1>2. PICK rel : rel = SubSeq(held, 1, n)
  OBVIOUS
<1>3. PICK rest : rest = SubSeq(held, n + 1, Len(held))
  OBVIOUS
<1>4. /\ held' = rest
      /\ cache' = ApplyBatchResults(docs, rel)
      /\ rows' = [rows EXCEPT ![user] = RemoveBatches(@, rel)]
  BY <1>1, <1>2, <1>3 DEF ReleaseHeldBatchResults
<1>5. /\ n \in 0 .. Len(held)
      /\ \A j \in 1 .. n : IsRemoteUpTo(held[j].version, v, active)
  <2>1. held \in Seq(HeldResult) /\ Len(held) \in Nat
    BY LenProperties DEF LogTypes
  <2>2. prefix \in SUBSET (0 .. Len(held)) /\ prefix \in SUBSET Int /\ 0 \in prefix
    BY <2>1
  <2>3. IsFiniteSet(prefix)
    <3>1. IsFiniteSet(0 .. Len(held))
      BY <2>1, FS_Interval
    <3> HIDE DEF prefix
    <3> QED BY <2>2, <3>1, FS_Subset
  <2>4. n \in prefix
    <3> HIDE DEF prefix
    <3> QED BY <1>1, <2>2, <2>3, MaxOfSet
  <2> QED BY <2>4
<1>6. Split(held, n, rel, rest)
  BY <1>2, <1>3, <1>5, SplitResults DEF LogTypes
<1> HIDE DEF prefix
<1>7. /\ \A i \in DOMAIN rel : i \in DOMAIN held /\ rel[i] = held[i]
      /\ \A i \in DOMAIN rest : n + i \in DOMAIN held /\ rest[i] = held[n + i]
      /\ \A i \in DOMAIN held : i \in DOMAIN rel \/ \E j \in DOMAIN rest : i = n + j
      /\ \A i \in DOMAIN rel : \A j \in DOMAIN rest : i < n + j
      /\ \A i, j \in DOMAIN rest : i < j => n + i < n + j
      /\ rel \in Seq(HeldResult) /\ n \in Int
      /\ \A i \in DOMAIN rel : i \in 1 .. n
  <2>1. Len(held) \in Nat /\ n \in Nat
    <3>1. Len(held) \in Nat
      BY LenProperties DEF LogTypes
    <3> QED BY <1>5, <3>1
  <2>2. \A i \in 1 .. n : \A j \in 1 .. Len(held) - n : i < n + j
    BY <2>1
  <2>3. \A i, j \in 1 .. Len(held) - n : i < j => n + i < n + j
    BY <2>1
  <2> QED BY <1>6, <2>1, <2>2, <2>3 DEF Split
<1> DEFINE Out == {rel[i].batch.write : i \in DOMAIN rel}
           Settled == confirmed \ HeldWrites
<1>8. confirmed' \ HeldWrites' \subseteq Settled \cup Out
  <2> SUFFICES ASSUME NEW w \in HeldWrites, w \notin Out
               PROVE  w \in HeldWrites'
    BY DEF HeldWrites
  <2>1. PICK i \in DOMAIN held : w = held[i].batch.write
    BY DEF HeldWrites
  <2>2. PICK j \in DOMAIN rest : i = n + j
    BY <1>7, <2>1
  <2>3. w = rest[j].batch.write
    BY <1>7, <2>1, <2>2
  <2> QED BY <1>4, <2>3 DEF HeldWrites
<1>9. /\ ResultsInOrder(held) /\ ResultsInOrder(rel)
      /\ \A w \in Settled : \A j \in DOMAIN held : AppliedBefore(w, held[j].version)
      /\ \A j \in DOMAIN held : /\ held[j].version \in 1 .. Len(log)
                                /\ held[j].version \in Places(held[j].batch.write)
  BY <1>7 DEF ShownInv, HeldLater, ResultsInOrder, LogTypes, Places
<1>10. /\ UpToDate(cache', v)
       /\ \A w \in Settled \cup Out : Kept(cache', v, w)
  <2>1. Settled \in SUBSET WriteNumbers
    BY DEF LogTypes
  <2>2. \A i \in DOMAIN rel : /\ rel[i].version \in 1 .. Len(log)
                              /\ \A w \in Settled : AppliedBefore(w, rel[i].version)
    BY <1>7, <1>9
  <2>3. PICK new : new = ApplyBatchResults(docs, rel)
    OBVIOUS
  <2>4. \A w \in Settled : Kept(docs, v, w)
    OBVIOUS
  <2>5. rel \in Seq(HeldResult) /\ ResultsInOrder(rel)
    BY <1>7, <1>9
  <2>6. LogTypes /\ UpToDate(docs, v)
    OBVIOUS
  <2>7. docs \in [Keys -> [write : {0} \cup WriteNumbers, version : 0 .. Len(log)]]
    OBVIOUS
  <2> HIDE DEF Settled
  <2>8. /\ UpToDate(new, v)
        /\ \A w \in Settled \cup Out : Kept(new, v, w)
    <3>1. Appliable(docs, v, Settled, rel)
      BY <2>2, <2>4, <2>5, <2>6, <2>7 DEF Appliable
    <3>2. StillKept(new, v, Settled, rel)
      BY <2>1, <2>3, <2>6, <3>1, AppliedKeeps
    <3> QED BY <3>2 DEF StillKept
  <2> QED BY <1>4, <2>3, <2>8
<1>11. RowsInOrder'
  <2>1. \A u \in Users : rows'[u] \subseteq rows[u]
    <3>1. RemoveBatches(rows[user], rel) \subseteq rows[user]
      BY DEF RemoveBatches
    <3> QED BY <1>4, <3>1 DEF LogTypes
  <2> QED BY <2>1 DEF ShownInv, RowsInOrder, QueuesStay
<1>12. HeldLater'
  <2>1. ResultsInOrder(rest)
    BY <1>7, <1>9 DEF ResultsInOrder
  <2>2. ASSUME NEW w \in Settled \cup Out, NEW j \in DOMAIN rest
        PROVE  AppliedBefore(w, rest[j].version)
    <3>1. CASE w \in Settled
      BY <1>7, <1>9, <3>1
    <3>2. CASE w \in Out
      <4>1. PICK i \in DOMAIN rel : w = rel[i].batch.write
        BY <3>2
      <4>2. rel[i].version < rest[j].version /\ rel[i].version \in Places(w)
        BY <1>7, <1>9, <4>1 DEF ResultsInOrder
      <4> QED BY <4>2 DEF AppliedBefore
    <3> QED BY <3>1, <3>2
  <2>3. ResultsInOrder(held)'
    BY <1>4, <2>1 DEF ResultsInOrder
  <2>4. ASSUME NEW w \in confirmed' \ HeldWrites', NEW j \in DOMAIN held'
        PROVE  AppliedBefore(w, held[j].version)'
    <3>1. AppliedBefore(w, rest[j].version)
      BY <1>4, <1>8, <2>2, <2>4
    <3> QED BY <1>4, <3>1 DEF AppliedBefore, Places
  <2> QED BY <2>3, <2>4 DEF HeldLater
<1>13. AnswersLater'
  <2>1. \A j \in DOMAIN held' : \E i \in DOMAIN held : held'[j] = held[i]
    BY <1>4, <1>7
  <2>2. Answers' = Answers
    BY DEF Answers
  <2>3. \A w : Places(w)' = Places(w)
    BY DEF Places
  <2> QED BY <2>1, <2>2, <2>3 DEF ShownInv, AnswersLater, AppliedBefore
<1>14. CacheUpToDate'
  BY <1>10 DEF CacheUpToDate, UpToDate, VersionAt, Places
<1>15. CacheKeeps'
  <2> SUFFICES ASSUME NEW w \in confirmed' \ HeldWrites'
               PROVE  Kept(cache, remoteVersion, w)'
    BY DEF CacheKeeps
  <2>1. Kept(cache', v, w)
    BY <1>8, <1>10
  <2> QED BY <2>1 DEF Kept, Reached, Overtaken, Places
<1>16. SnapshotBrings'
  <2> SUFFICES ASSUME NEW w \in confirmed' \ HeldWrites', targets' # {}
               PROVE  w \in dropped' \/ Reached(w, remoteVersion)' \/ Reached(w, floor)'
    BY DEF SnapshotBrings
  <2>1. CASE w \in Settled
    <3>1. w \in dropped \/ Reached(w, v) \/ Reached(w, floor)
      BY <2>1
    <3> QED BY <3>1 DEF Reached, Places
  <2>2. CASE w \in Out
    <3>1. PICK i \in DOMAIN rel : w = rel[i].batch.write
      BY <2>2
    <3>2. held[i].version <= v /\ held[i].version \in Places(w)
      BY <1>5, <1>7, <1>9, <3>1 DEF IsRemoteUpTo
    <3> QED BY <3>2 DEF Reached, Places
  <2> QED BY <1>8, <2>1, <2>2
<1> QED BY <1>11, <1>12, <1>13, <1>14, <1>15, <1>16

-----------------------------------------------------------------------------
\* The parts of the invariant that each step has to keep.
ShownParts ==
    /\ RowsInOrder /\ AnswersLater /\ HeldLater
    /\ CacheUpToDate /\ CacheKeeps /\ SnapshotBrings

\* Answers under way stay later than what is confirmed: while they wait, when
\* the stream takes them with it, and when a refusal follows them.
LEMMA AnswersStay ==
    ASSUME LogTypes, LogTypes', Grown, AnswersLater, UNCHANGED <<confirmed, held>>,
           responses' \in {responses, << >>, Append(responses, Refusal)}
    PROVE  AnswersLater'
<1>1. \A w : Places(w) \subseteq Places(w)'
  BY PlacesStay
<1>2. \A w, v : AppliedBefore(w, v) => AppliedBefore(w, v)'
  BY <1>1 DEF AppliedBefore
<1>3. \A w \in confirmed' : Places(w)' # {}
  BY <1>1 DEF AnswersLater
<1>4. \A j \in DOMAIN responses' : responses'[j] # Refusal =>
        /\ j \in DOMAIN responses /\ responses'[j] = responses[j]
        /\ \A i \in DOMAIN responses' : i < j =>
             i \in DOMAIN responses /\ responses'[i] = responses[i]
  <2>1. CASE responses' = responses
    BY <2>1
  <2>2. CASE responses' = << >>
    BY <2>2
  <2>3. CASE responses' = Append(responses, Refusal)
    <3>1. responses \in Seq(0 .. Len(log)) /\ Refusal \in 0 .. Len(log)
      <4>1. responses \in Seq(0 .. Len(log))
        BY DEF LogTypes
      <4>2. Len(log) \in Nat
        BY DEF LogTypes
      <4> QED BY <4>1, <4>2 DEF Refusal
    <3>2. /\ Len(responses) \in Nat /\ DOMAIN responses = 1 .. Len(responses)
          /\ DOMAIN responses' = 1 .. Len(responses) + 1
          /\ responses'[Len(responses) + 1] = Refusal
          /\ \A i \in 1 .. Len(responses) : responses'[i] = responses[i]
      <4>1. /\ responses' \in Seq(0 .. Len(log)) /\ Len(responses') = Len(responses) + 1
            /\ responses'[Len(responses) + 1] = Refusal
            /\ \A i \in 1 .. Len(responses) : responses'[i] = responses[i]
        BY <2>3, <3>1, AppendProperties
      <4> QED BY <3>1, <4>1, LenProperties DEF LogTypes
    <3>3. \A j \in 1 .. Len(responses) + 1 : j # Len(responses) + 1 => j \in 1 .. Len(responses)
      BY <3>2
    <3>4. \A j \in 1 .. Len(responses) : \A i \in 1 .. Len(responses) + 1 :
            i < j => i \in 1 .. Len(responses)
      BY <3>2
    <3> QED BY <3>2, <3>3, <3>4
  <2> QED BY <2>1, <2>2, <2>3
<1>5. \A i, j \in DOMAIN responses' :
        i < j /\ responses'[j] # Refusal => responses'[i] < responses'[j]
  BY <1>4 DEF AnswersLater
<1>6. Answers' \subseteq Answers
  BY <1>4 DEF Answers
<1>7. ASSUME NEW r \in Answers'
      PROVE  /\ \A w \in confirmed' : AppliedBefore(w, r)'
             /\ \A j \in DOMAIN held' : held'[j].version < r
  <2>1. PICK x \in Answers : x = r
    BY <1>6
  <2>2. \A w \in confirmed : AppliedBefore(w, x)'
    BY <1>2 DEF AnswersLater
  <2>3. \A j \in DOMAIN held : held[j].version < x
    BY DEF AnswersLater
  <2> QED BY <2>1, <2>2, <2>3
<1> QED BY <1>3, <1>5, <1>7 DEF AnswersLater

\* Queues that only get shorter stay in order.
LEMMA RowsStay ==
    ASSUME RowsInOrder, confirmed' = confirmed,
           \A u \in Users : /\ rows'[u] \subseteq rows[u]
                            /\ Unacked(rows'[u], lastAcked'[u])
                                 \subseteq Unacked(rows[u], lastAcked[u])
    PROVE  RowsInOrder'
BY DEF RowsInOrder

\* What does not concern the documents, the results held and the queries.
LEMMA ShownStay ==
    ASSUME ShownInv, LogTypes, LogTypes', Grown, RowsInOrder',
           UNCHANGED <<cache, remoteVersion, resume, held, confirmed, dropped,
                       targets, floor>>,
           responses' \in {responses, << >>, Append(responses, Refusal)}
    PROVE  ShownParts'
<1>1. AnswersLater'
  BY AnswersStay DEF ShownInv
<1>2. HeldLater' /\ CacheUpToDate' /\ CacheKeeps' /\ SnapshotBrings'
  BY LogGrows DEF ShownInv
<1> QED BY <1>1, <1>2 DEF ShownParts

\* Nothing is made or applied.
LEMMA NothingGrows ==
    ASSUME LogTypes, UNCHANGED <<writes, log>>
    PROVE  Grown
BY DEF Grown, LogTypes

\* The steps of the stream, and a refusal by the server.
LEMMA StreamShows ==
    ASSUME ShownInv, LogTypes, LogTypes',
           UNCHANGED <<writes, log, disk, user, held, targets, floor, ghosts>>,
           responses' \in {responses, << >>, Append(responses, Refusal)}
    PROVE  ShownParts'
<1>1. UNCHANGED <<rows, lastAcked, cache, remoteVersion, resume, confirmed, dropped>>
  BY DEF disk, ghosts
<1>2. RowsInOrder'
  BY <1>1, RowsStay DEF ShownInv
<1>3. Grown
  BY NothingGrows
<1> QED BY <1>1, <1>2, <1>3, ShownStay

\* Another device's write is applied.
LEMMA RemoteWriteShows ==
    ASSUME ShownInv, LogTypes, LogTypes', NEW k \in Keys, RemoteWrite(k)
    PROVE  ShownParts'
<1>1. /\ writes' = Append(writes, [user |-> Elsewhere, key |-> k])
      /\ log' = Append(log, Len(writes) + 1)
      /\ UNCHANGED <<rows, lastAcked, cache, remoteVersion, resume, held, targets,
                     floor, confirmed, dropped, responses>>
  BY DEF RemoteWrite, disk, pipeline
<1>2. RowsInOrder'
  BY <1>1, RowsStay DEF ShownInv
<1>3. Grown
  <2>1. /\ log \in Seq(WriteNumbers) /\ log' \in Seq(WriteNumbers') /\ Len(log) \in Nat
        /\ writes \in Seq([user : Users \cup {Elsewhere}, key : Keys])
    BY DEF LogTypes, ShownInv, PipelineInv, PipelineTypeOK
  <2>2. Len(writes) \in Nat /\ log \in Seq(Nat) /\ Len(writes) + 1 \in Nat
    <3>1. Len(writes) \in Nat
      BY <2>1, LenProperties
    <3>2. WriteNumbers \subseteq Nat
      BY <3>1 DEF WriteNumbers
    <3>3. log \in Seq(Nat)
      BY <2>1, <3>2, SeqMonotonic
    <3> QED BY <3>1, <3>3
  <2>3. Len(log') = Len(log) + 1 /\ \A i \in 1 .. Len(log) : log'[i] = log[i]
    BY <1>1, <2>2, AppendProperties
  <2>4. \A w \in 1 .. Len(writes) : writes'[w] = writes[w]
    <3>1. [user |-> Elsewhere, key |-> k] \in [user : Users \cup {Elsewhere}, key : Keys]
      OBVIOUS
    <3> QED BY <1>1, <2>1, <3>1, AppendProperties
  <2> QED BY <2>1, <2>3, <2>4 DEF Grown, WriteNumbers
<1> QED BY <1>1, <1>2, <1>3, ShownStay

\* A write enters its queue last, and no write is confirmed before it is made.
LEMMA WriteMutationsShows ==
    ASSUME ShownInv, LogTypes, LogTypes', NEW k \in Keys, WriteMutations(k)
    PROVE  ShownParts'
<1> DEFINE w == Len(writes) + 1
           b == [id |-> nextBatchID, write |-> w]
<1>1. /\ writes' = Append(writes, [user |-> user, key |-> k])
      /\ rows' = [rows EXCEPT ![user] = @ \cup {b}]
      /\ UNCHANGED <<log, lastAcked, cache, remoteVersion, resume, held, targets,
                     responses, floor, confirmed, dropped>>
  BY DEF WriteMutations
<1>2. /\ writes \in Seq([user : Users \cup {Elsewhere}, key : Keys])
      /\ Len(writes) \in Nat /\ user \in Users /\ nextBatchID \in Nat
      /\ rows \in [Users -> SUBSET Batch]
      /\ \A u \in Users : \A c \in rows[u] : c.write \in 1 .. Len(writes)
      /\ \A u \in Users : \A c \in rows[u] : c.id < nextBatchID /\ c.id \in Nat
      /\ confirmed \subseteq 1 .. Len(writes)
  <2>1. writes \in Seq([user : Users \cup {Elsewhere}, key : Keys])
    BY DEF ShownInv, PipelineInv, PipelineTypeOK
  <2>2. Len(writes) \in Nat
    BY <2>1, LenProperties
  <2>3. rows \in [Users -> SUBSET Batch]
    BY DEF LogTypes
  <2>4. \A u \in Users : \A c \in rows[u] : c.id \in Nat
    BY <2>3 DEF Batch
  <2> QED BY <2>1, <2>2, <2>3, <2>4 DEF ShownInv, PipelineInv, PipelineTypeOK,
        QueuesInv, Tables, IdsInOrder, WriteNumbers
<1>3. Grown
  <2>1. \A x \in 1 .. Len(writes) : writes'[x] = writes[x]
    <3>1. [user |-> user, key |-> k] \in [user : Users \cup {Elsewhere}, key : Keys]
      BY <1>2
    <3> QED BY <1>1, <1>2, <3>1, AppendProperties
  <2> QED BY <1>1, <2>1 DEF Grown, LogTypes, WriteNumbers
<1>4. /\ w \in Nat /\ \A x \in 1 .. Len(writes) : x < w
      /\ b.id = nextBatchID /\ b.write = w
  BY <1>2
<1> HIDE DEF w, b
<1>5. /\ \A u \in Users : rows'[u] \subseteq rows[u] \cup {b}
      /\ \A u \in Users : u # user => rows'[u] = rows[u]
  BY <1>1, <1>2
<1>6. RowsInOrder'
  <2>1. ASSUME NEW u \in Users, NEW c \in rows'[u], NEW d \in rows'[u], c.id < d.id
        PROVE  c.write < d.write
    <3>1. CASE c \in rows[u] /\ d \in rows[u]
      BY <2>1, <3>1 DEF ShownInv, RowsInOrder
    <3>2. CASE c \in rows[u] /\ d = b
      BY <1>2, <1>4, <3>2
    <3>3. CASE c = b /\ d \in rows[u]
      BY <1>2, <1>4, <2>1, <3>3
    <3>4. CASE c = b /\ d = b
      BY <1>2, <1>4, <2>1, <3>4
    <3> QED BY <1>5, <3>1, <3>2, <3>3, <3>4
  <2>2. ASSUME NEW u \in Users, NEW c \in Unacked(rows'[u], lastAcked'[u])
        PROVE  c.write \notin confirmed'
    <3>1. CASE c \in rows[u]
      <4>1. c \in Unacked(rows[u], lastAcked[u])
        BY <1>1, <2>2, <3>1 DEF Unacked
      <4> QED BY <1>1, <4>1 DEF ShownInv, RowsInOrder
    <3>2. CASE c = b
      BY <1>1, <1>2, <1>4, <3>2
    <3> QED BY <1>5, <2>2, <3>1, <3>2 DEF Unacked
  <2> QED BY <2>1, <2>2 DEF RowsInOrder
<1> QED BY <1>1, <1>3, <1>6, ShownStay

\* A refused write leaves its queue.
LEMMA ReceiveRefusalShows ==
    ASSUME ShownInv, LogTypes, LogTypes', ReceiveRefusal
    PROVE  ShownParts'
<1>1. /\ \E b : rows' = [rows EXCEPT ![user] = @ \ {b}]
      /\ responses' = << >>
      /\ UNCHANGED <<writes, log, lastAcked, cache, remoteVersion, resume, held,
                     targets, floor, confirmed, dropped>>
  BY DEF ReceiveRefusal
<1>2. \A u \in Users : rows'[u] \subseteq rows[u]
  BY <1>1 DEF LogTypes
<1>3. RowsInOrder'
  BY <1>1, <1>2, RowsStay DEF ShownInv, Unacked
<1>4. Grown
  BY <1>1, NothingGrows
<1> QED BY <1>1, <1>3, <1>4, ShownStay

\* The server applies the next request: its place is after all others.
LEMMA ServerAppliesShows ==
    ASSUME ShownInv, LogTypes, LogTypes', ServerApplies
    PROVE  ShownParts'
<1> DEFINE r == Len(log) + 1
           n == Len(responses)
<1>1. /\ log' = Append(log, Head(requests).write) /\ responses' = Append(responses, r)
      /\ requests # << >> /\ ~Refusing
      /\ UNCHANGED <<writes, rows, lastAcked, cache, remoteVersion, resume, held,
                     targets, floor, confirmed, dropped>>
  BY DEF ServerApplies, disk, ghosts
<1>2. /\ log \in Seq(WriteNumbers) /\ Len(log) \in Nat /\ n \in Nat /\ r \in Nat
      /\ DOMAIN responses = 1 .. n
      /\ \A i \in 1 .. n : responses[i] \in 0 .. Len(log)
      /\ Head(requests).write \in WriteNumbers
  <2>1. Head(requests).write \in WriteNumbers
    BY <1>1, NextRequest DEF ShownInv
  <2>2. /\ log \in Seq(WriteNumbers) /\ Len(log) \in Nat /\ n \in Nat
        /\ DOMAIN responses = 1 .. n
        /\ \A i \in 1 .. n : responses[i] \in 0 .. Len(log)
    BY DEF LogTypes
  <2> QED BY <2>1, <2>2
<1>3. Grown
  <2>1. Len(log') = Len(log) + 1 /\ \A i \in 1 .. Len(log) : log'[i] = log[i]
    BY <1>1, <1>2, AppendProperties
  <2> QED BY <1>1, <1>2, <2>1 DEF Grown
<1>4. HeldLater' /\ CacheUpToDate' /\ CacheKeeps' /\ SnapshotBrings'
  BY <1>1, <1>3, LogGrows DEF ShownInv
<1>5. RowsInOrder'
  BY <1>1, RowsStay DEF ShownInv
<1>6. /\ DOMAIN responses' = 1 .. n + 1 /\ responses'[n + 1] = r
      /\ \A i \in 1 .. n : responses'[i] = responses[i]
  <2>1. responses \in Seq(Nat)
    <3>1. 0 .. Len(log) \subseteq Nat /\ responses \in Seq(0 .. Len(log))
      BY <1>2 DEF LogTypes
    <3> QED BY <3>1, SeqMonotonic
  <2>2. /\ responses' \in Seq(Nat) /\ Len(responses') = n + 1
        /\ responses'[n + 1] = r
        /\ \A i \in 1 .. n : responses'[i] = responses[i]
    BY <1>1, <1>2, <2>1, AppendProperties
  <2> QED BY <2>2, LenProperties
<1>7. /\ \A i \in 1 .. n + 1 : i \in 1 .. n \/ i = n + 1
      /\ \A i \in 1 .. n : responses[i] < r /\ i < n + 1
      /\ \A i \in 1 .. n + 1 : \A j \in 1 .. n : i < j => i \in 1 .. n
      /\ \A i \in 1 .. n + 1 : ~(n + 1 < i)
      /\ \A i \in 1 .. Len(log) : i < r
      /\ r # Refusal
  <2>1. \A i \in 1 .. n : responses[i] < r
    BY <1>2
  <2>2. /\ \A i \in 1 .. n + 1 : i \in 1 .. n \/ i = n + 1
        /\ \A i \in 1 .. n : i < n + 1
        /\ \A i \in 1 .. n + 1 : \A j \in 1 .. n : i < j => i \in 1 .. n
        /\ \A i \in 1 .. n + 1 : ~(n + 1 < i)
    BY <1>2
  <2>3. (\A i \in 1 .. Len(log) : i < r) /\ r # Refusal
    BY <1>2 DEF Refusal
  <2> QED BY <2>1, <2>2, <2>3
<1> HIDE DEF r, n
<1>8. \A w : Places(w) \subseteq Places(w)'
  BY <1>3, PlacesStay
<1>9. \A w, v : AppliedBefore(w, v) => AppliedBefore(w, v)'
  BY <1>8 DEF AppliedBefore
<1>10. \A w \in confirmed' : Places(w)' # {}
  BY <1>1, <1>8 DEF ShownInv, AnswersLater
<1>11. ASSUME NEW i \in DOMAIN responses', NEW j \in DOMAIN responses', i < j,
              responses'[j] # Refusal
       PROVE  responses'[i] < responses'[j]
  <2>1. CASE j \in 1 .. n
    <3>1. i \in 1 .. n
      BY <1>6, <1>7, <1>11, <2>1
    <3> QED BY <1>2, <1>6, <1>11, <2>1, <3>1 DEF ShownInv, AnswersLater
  <2>2. CASE j = n + 1
    <3>1. i \in 1 .. n
      BY <1>6, <1>7, <1>11, <2>2
    <3> QED BY <1>6, <1>7, <2>2, <3>1
  <2> QED BY <1>6, <1>7, <2>1, <2>2
<1>12. Answers' \subseteq Answers \cup {r}
  BY <1>2, <1>6, <1>7 DEF Answers
<1>13. ASSUME NEW x \in Answers'
       PROVE  /\ \A w \in confirmed' : AppliedBefore(w, x)'
              /\ \A j \in DOMAIN held' : held'[j].version < x
  <2>1. CASE x \in Answers
    BY <1>1, <1>9, <2>1 DEF ShownInv, AnswersLater
  <2>2. CASE x = r
    <3>1. ASSUME NEW w \in confirmed
          PROVE  AppliedBefore(w, x)'
      <4>1. \E i \in Places(w) : i < r
        BY <1>7 DEF ShownInv, AnswersLater, LogTypes
      <4> QED BY <1>9, <2>2, <4>1 DEF AppliedBefore
    <3>2. \A j \in DOMAIN held : held[j].version < r
      BY <1>7 DEF LogTypes
    <3> QED BY <1>1, <2>2, <3>1, <3>2
  <2> QED BY <1>12, <2>1, <2>2
<1>14. AnswersLater'
  BY <1>10, <1>11, <1>13 DEF AnswersLater
<1> QED BY <1>4, <1>5, <1>14 DEF ShownParts

\* A query is started: the server will send no older snapshot than its log.
LEMMA ListenShows ==
    ASSUME ShownInv, LogTypes, LogTypes', NEW t \in Targets, Listen(t)
    PROVE  ShownParts'
<1>1. /\ UNCHANGED <<writes, log, rows, lastAcked, cache, remoteVersion, resume,
                     held, responses, confirmed, dropped>>
      /\ floor' = Len(log)
  BY DEF Listen, disk, pipeline, ghosts
<1>2. /\ HeldWrites' = HeldWrites /\ Answers' = Answers
      /\ \A w : Places(w)' = Places(w)
  BY <1>1 DEF HeldWrites, Answers, Places
<1>3. RowsInOrder'
  BY <1>1 DEF ShownInv, RowsInOrder
<1>4. AnswersLater'
  BY <1>1, <1>2 DEF ShownInv, AnswersLater, AppliedBefore
<1>5. HeldLater'
  BY <1>1, <1>2 DEF ShownInv, HeldLater, ResultsInOrder, AppliedBefore
<1>6. CacheUpToDate'
  BY <1>1, <1>2 DEF ShownInv, CacheUpToDate, UpToDate, VersionAt
<1>7. CacheKeeps'
  BY <1>1, <1>2 DEF ShownInv, CacheKeeps, Kept, Reached, Overtaken
<1>8. SnapshotBrings'
  <2> SUFFICES ASSUME NEW w \in confirmed
               PROVE  Reached(w, floor)'
    BY <1>1 DEF SnapshotBrings
  <2>1. \E i \in Places(w) : i <= Len(log)
    <3>1. PICK i : i \in Places(w)
      BY DEF ShownInv, AnswersLater
    <3>2. i \in 1 .. Len(log)
      BY <3>1 DEF LogTypes
    <3> QED BY <3>1, <3>2
  <2> QED BY <1>1, <1>2, <2>1 DEF Reached
<1> QED BY <1>3, <1>4, <1>5, <1>6, <1>7, <1>8 DEF ShownParts

\* A query ends, and with the last one what is held is released.
LEMMA ReleaseQueryShows ==
    ASSUME ShownInv, LogTypes, LogTypes', NEW t \in Targets, ReleaseQuery(t)
    PROVE  ShownParts'
<1>1. /\ UNCHANGED <<writes, log, lastAcked, remoteVersion, resume, user, responses,
                     floor, confirmed, dropped>>
      /\ \/ targets' = {} /\ ReleaseHeldBatchResults(cache, remoteVersion, {})
         \/ targets # {} /\ UNCHANGED <<held, cache, rows>>
  BY DEF ReleaseQuery, pipeline, ghosts
<1>2. QueuesStay
  BY ReleaseQueryStep DEF ShownInv
<1>3. CASE targets' = {} /\ ReleaseHeldBatchResults(cache, remoteVersion, {})
  <2>1. /\ UpToDate(cache, remoteVersion)
        /\ \A w \in confirmed \ HeldWrites : Kept(cache, remoteVersion, w)
        /\ \A x \in Targets : resume'[x] <= remoteVersion
    BY <1>1 DEF ShownInv, CacheUpToDate, CacheKeeps
  <2>2. /\ remoteVersion \in 0 .. Len(log) /\ remoteVersion' = remoteVersion
        /\ cache \in [Keys -> [write : {0} \cup WriteNumbers, version : 0 .. Len(log)]]
    BY <1>1 DEF LogTypes
  <2> QED BY <1>1, <1>2, <1>3, <2>1, <2>2, ReleaseShows DEF ShownParts
<1>4. CASE targets # {} /\ UNCHANGED <<held, cache, rows>>
  <2>1. /\ HeldWrites' = HeldWrites /\ Answers' = Answers
        /\ \A w : Places(w)' = Places(w)
    BY <1>1, <1>4 DEF HeldWrites, Answers, Places
  <2>2. RowsInOrder'
    BY <1>1, <1>4 DEF ShownInv, RowsInOrder
  <2>3. AnswersLater'
    BY <1>1, <1>4, <2>1 DEF ShownInv, AnswersLater, AppliedBefore
  <2>4. HeldLater'
    BY <1>1, <1>4, <2>1 DEF ShownInv, HeldLater, ResultsInOrder, AppliedBefore
  <2>5. CacheUpToDate'
    BY <1>1, <1>4, <2>1 DEF ShownInv, CacheUpToDate, UpToDate, VersionAt
  <2>6. CacheKeeps'
    BY <1>1, <1>4, <2>1 DEF ShownInv, CacheKeeps, Kept, Reached, Overtaken
  <2>7. SnapshotBrings'
    BY <1>1, <1>4, <2>1 DEF ShownInv, SnapshotBrings, Reached
  <2> QED BY <2>2, <2>3, <2>4, <2>5, <2>6, <2>7 DEF ShownParts
<1> QED BY <1>1, <1>3, <1>4

\* A snapshot brings all that is confirmed and not held, except what a restart
\* dropped, and may bring what was dropped.
LEMMA WatchSnapshotShows ==
    ASSUME ShownInv, LogTypes, LogTypes', NEW v \in 1 .. Len(log), WatchSnapshot(v)
    PROVE  ShownParts'
<1> DEFINE since == Min({resume[t] : t \in targets})
           docs == [k \in Keys |->
                      IF /\ VersionAt(k, v) > since
                         /\ VersionAt(k, v) >= cache[k].version
                      THEN [write |-> log[VersionAt(k, v)],
                            version |-> VersionAt(k, v)]
                      ELSE cache[k]]
<1>1. /\ UNCHANGED <<writes, log, user, targets, responses, floor, confirmed, dropped>>
      /\ remoteVersion' = v
      /\ resume' = [t \in Targets |-> IF t \in targets THEN v ELSE resume[t]]
      /\ targets # {} /\ v \in Max({remoteVersion, floor}) .. Len(log)
      /\ ReleaseHeldBatchResults(docs, v, targets)
  BY DEF WatchSnapshot, pipeline, ghosts
<1>2. QueuesStay
  BY WatchSnapshotStep DEF ShownInv
<1>3. /\ v \in 0 .. Len(log) /\ v \in Int /\ remoteVersion <= v /\ floor <= v
      /\ remoteVersion \in Int /\ floor \in Int
  <2>1. {remoteVersion, floor} \in SUBSET Int /\ IsFiniteSet({remoteVersion, floor})
    <3>1. remoteVersion \in Int /\ floor \in Int
      BY DEF LogTypes
    <3>2. IsFiniteSet({remoteVersion} \cup {floor})
      BY FS_Singleton, FS_Union
    <3>3. {remoteVersion, floor} = {remoteVersion} \cup {floor}
      OBVIOUS
    <3> QED BY <3>1, <3>2, <3>3
  <2>2. PICK m : m = Max({remoteVersion, floor})
    OBVIOUS
  <2>3. /\ m \in {remoteVersion, floor} /\ remoteVersion <= m /\ floor <= m
    BY <2>1, <2>2, MaxOfSet
  <2>4. remoteVersion \in Int /\ floor \in Int /\ Len(log) \in Nat
    BY DEF LogTypes
  <2> QED BY <1>1, <2>2, <2>3, <2>4
<1>4. since \in Int /\ since <= remoteVersion /\ since >= 0
  <2> DEFINE R == {resume[t] : t \in targets}
  <2>1. R \in SUBSET (0 .. Len(log)) /\ R # {}
    BY <1>1 DEF LogTypes
  <2>2. \A x \in R : x <= remoteVersion
    BY DEF LogTypes, ShownInv, CacheUpToDate
  <2>3. R \in SUBSET Int /\ IsFiniteSet(R)
    <3>1. IsFiniteSet(0 .. Len(log)) /\ 0 .. Len(log) \subseteq Int
      <4>1. Len(log) \in Int /\ 0 \in Int
        BY DEF LogTypes
      <4> QED BY <4>1, FS_Interval
    <3> HIDE DEF R
    <3> QED BY <2>1, <3>1, FS_Subset
  <2> HIDE DEF R
  <2>4. Min(R) \in R
    BY <2>1, <2>3, MinOfSet
  <2>5. Min(R) \in Int /\ Min(R) <= remoteVersion /\ Min(R) >= 0
    <3>1. \A x \in R : x >= 0
      BY <2>1
    <3> QED BY <2>2, <2>3, <2>4, <3>1
  <2> QED BY <2>5 DEF R
<1> HIDE DEF since
<1>5. ASSUME NEW k \in Keys
      PROVE  /\ VersionAt(k, v) \in 0 .. Len(log)
             /\ docs[k].version = VersionAt(k, v)
             /\ docs[k] \in [write : {0} \cup WriteNumbers, version : 0 .. Len(log)]
             /\ docs[k].version > 0
                  => \E j \in Places(docs[k].write) : docs[k].version <= j
  <2> DEFINE p == VersionAt(k, v)
             q == VersionAt(k, remoteVersion)
  <2>1. /\ p \in 0 .. v /\ q \in 0 .. remoteVersion
        /\ \A i \in 1 .. v : writes[log[i]].key = k => i <= p
        /\ q > 0 => writes[log[q]].key = k
        /\ p > 0 => writes[log[p]].key = k
        /\ \A i \in 1 .. remoteVersion : writes[log[i]].key = k => i <= q
    BY <1>3, VersionAtIs DEF LogTypes
  <2>2. /\ cache[k] \in [write : {0} \cup WriteNumbers, version : 0 .. Len(log)]
        /\ cache[k].version = q
        /\ cache[k].version > 0
             => \E j \in Places(cache[k].write) : cache[k].version <= j
    BY DEF ShownInv, CacheUpToDate, UpToDate, LogTypes
  <2>3. docs[k] = IF p > since /\ p >= cache[k].version
                  THEN [write |-> log[p], version |-> p] ELSE cache[k]
    OBVIOUS
  <2> HIDE DEF p, q, docs
  <2>4. p \in Int /\ q \in Int /\ q <= p /\ (p <= remoteVersion => p <= q) /\ p \in 0 .. Len(log)
    <3>1. p \in Int /\ q \in Int /\ q >= 0 /\ p >= 0 /\ q <= v /\ p <= v
      BY <1>3, <2>1
    <3>2. q <= p
      <4>1. CASE q = 0
        BY <3>1, <4>1
      <4>2. CASE q # 0
        <5>1. q > 0 /\ q \in 1 .. v
          BY <1>3, <3>1, <4>2
        <5> QED BY <2>1, <5>1
      <4> QED BY <4>1, <4>2
    <3>3. p <= remoteVersion => p <= q
      <4>1. CASE p = 0
        BY <3>1, <4>1
      <4>2. CASE p # 0 /\ p <= remoteVersion
        <5>1. p > 0 /\ p \in 1 .. remoteVersion
          BY <1>3, <3>1, <4>2
        <5> QED BY <2>1, <5>1
      <4> QED BY <4>1, <4>2
    <3>4. p \in 0 .. Len(log)
      <4>1. v <= Len(log) /\ Len(log) \in Int
        BY <1>3 DEF LogTypes
      <4> QED BY <3>1, <1>3, <4>1
    <3> QED BY <3>1, <3>2, <3>3, <3>4
  <2>5. CASE p > since
    <3>1. docs[k] = [write |-> log[p], version |-> p]
      BY <2>2, <2>3, <2>4, <2>5
    <3>2. p > 0 => log[p] \in WriteNumbers /\ p \in Places(log[p])
      <4>1. p > 0 => p \in 1 .. Len(log)
        BY <2>4
      <4> QED BY <4>1 DEF LogTypes, Places
    <3>3. CASE p > 0
      BY <2>4, <3>1, <3>2, <3>3 DEF p
    <3>4. p > 0
      BY <1>4, <2>4, <2>5
    <3> QED BY <3>3, <3>4
  <2>6. CASE ~(p > since)
    <3>1. docs[k] = cache[k] /\ p = q
      BY <1>3, <1>4, <2>3, <2>4, <2>6
    <3> QED BY <2>2, <2>4, <3>1 DEF p
  <2> QED BY <2>5, <2>6
<1>6. /\ docs \in [Keys -> [write : {0} \cup WriteNumbers, version : 0 .. Len(log)]]
      /\ UpToDate(docs, v)
  BY <1>5 DEF UpToDate
<1> HIDE DEF docs
<1>7. \A w \in confirmed \ HeldWrites : w \in dropped \/ Reached(w, v)
  <2> TAKE w \in confirmed \ HeldWrites
  <2>1. w \in dropped \/ Reached(w, remoteVersion) \/ Reached(w, floor)
    BY <1>1 DEF ShownInv, SnapshotBrings
  <2>2. \A i \in Places(w) : i <= remoteVersion \/ i <= floor => i <= v
    <3>1. \A i \in Places(w) : i \in Int
      BY DEF LogTypes
    <3> QED BY <1>3, <3>1
  <2> QED BY <2>1, <2>2 DEF Reached
<1>8. \A w \in confirmed \ HeldWrites : Kept(docs, v, w)
  BY <1>7 DEF Kept
<1>9. \A t \in Targets : resume'[t] <= v
  <2>1. \A t \in Targets : resume[t] \in Int /\ resume[t] <= remoteVersion
    BY DEF ShownInv, CacheUpToDate, LogTypes
  <2>2. \A t \in Targets : resume[t] <= v
    BY <1>3, <2>1
  <2> QED BY <1>1, <1>3, <2>2
<1>10. targets' # {} => targets # {} /\ \A w \in confirmed \ HeldWrites :
         w \in dropped \/ Reached(w, v) \/ Reached(w, floor)
  BY <1>1, <1>7
<1> QED BY <1>1, <1>2, <1>3, <1>6, <1>8, <1>9, <1>10, ReleaseShows DEF ShownParts

\* What was held when the queue was opened again is dropped, and the watch
\* stream will bring it; no answer is under way any more.
LEMMA RestartShows ==
    ASSUME ShownInv, LogTypes, LogTypes', NEW u \in Users,
           StartMutationQueue(u), RestartNetwork(u), QueuesStay,
           UNCHANGED <<writes, log, cache, remoteVersion, resume, floor, confirmed>>,
           targets' \in {targets, {}}
    PROVE  ShownParts'
<1>1. /\ held' = << >> /\ responses' = << >>
      /\ dropped' = dropped \cup HeldWrites
      /\ \E acked : rows' = [rows EXCEPT ![u] = Unacked(@, acked)]
  BY DEF StartMutationQueue, RestartNetwork, HeldWrites
<1>2. /\ HeldWrites' = {} /\ Answers' = {} /\ DOMAIN held' = {} /\ DOMAIN responses' = {}
      /\ \A w : Places(w)' = Places(w)
  <2>1. DOMAIN held' = {} /\ DOMAIN responses' = {}
    BY <1>1
  <2> QED BY <2>1 DEF HeldWrites, Answers, Places
<1>3. RowsInOrder'
  <2>1. \A v \in Users : rows'[v] \subseteq rows[v]
    BY <1>1 DEF Unacked, LogTypes
  <2> QED BY <2>1, RowsStay DEF ShownInv, QueuesStay
<1>4. AnswersLater'
  BY <1>2 DEF ShownInv, AnswersLater
<1>5. HeldLater'
  BY <1>2 DEF HeldLater, ResultsInOrder
<1>6. CacheUpToDate'
  BY <1>2 DEF ShownInv, CacheUpToDate, UpToDate, VersionAt
<1>7. ASSUME NEW w \in confirmed' \ HeldWrites'
      PROVE  Kept(cache, remoteVersion, w)'
  <2>1. w \in HeldWrites \/ Kept(cache, remoteVersion, w)
    BY DEF ShownInv, CacheKeeps
  <2> QED BY <1>1, <1>2, <2>1 DEF Kept, Reached, Overtaken
<1>8. CacheKeeps'
  BY <1>7 DEF CacheKeeps
<1>9. ASSUME NEW w \in confirmed' \ HeldWrites', targets' # {}
      PROVE  w \in dropped' \/ Reached(w, remoteVersion)' \/ Reached(w, floor)'
  <2>1. w \in HeldWrites \/ w \in dropped \/ Reached(w, remoteVersion) \/ Reached(w, floor)
    BY <1>9 DEF ShownInv, SnapshotBrings
  <2> QED BY <1>1, <1>2, <2>1 DEF Reached
<1>10. SnapshotBrings'
  BY <1>9 DEF SnapshotBrings
<1> QED BY <1>3, <1>4, <1>5, <1>6, <1>8, <1>10 DEF ShownParts

\* What an answer says about the write it is for.
LEMMA AnswerOf ==
    ASSUME ShownInv, LogTypes, ReceiveResponse,
           NEW b, b = Head(pendingWrites), NEW r, r = Head(responses)
    PROVE  /\ b \in Unsent /\ b \in Batch /\ b.write \in WriteNumbers
           /\ b.write \notin confirmed
           /\ r \in Answers /\ r \in 1 .. Len(log) /\ r \in Places(b.write)
           /\ \A i \in DOMAIN responses' : /\ i + 1 \in DOMAIN responses
                                           /\ responses'[i] = responses[i + 1]
           /\ \A x \in Answers' : x \in Answers /\ r < x
<1>1. responses # << >> /\ r # Refusal /\ responses' = Tail(responses)
  BY DEF ReceiveResponse
<1>2. b \in Unsent /\ b \in Batch /\ b.write \in WriteNumbers
  BY <1>1, FirstPending DEF ShownInv
<1>3. b.write \notin confirmed
  BY <1>2 DEF ShownInv, RowsInOrder, Unsent, LogTypes
<1>4. /\ responses \in Seq(0 .. Len(log)) /\ Len(responses) \in Nat /\ Len(responses) >= 1
      /\ DOMAIN responses = 1 .. Len(responses) /\ r = responses[1]
      /\ responses' \in Seq(0 .. Len(log)) /\ Len(responses') = Len(responses) - 1
      /\ \A i \in 1 .. Len(responses) - 1 : responses'[i] = responses[i + 1]
  <2>1. /\ responses \in Seq(0 .. Len(log)) /\ Len(responses) \in Nat
        /\ DOMAIN responses = 1 .. Len(responses)
    BY DEF LogTypes
  <2>2. Len(responses) >= 1
    BY <1>1, <2>1, EmptySeq
  <2> QED BY <1>1, <2>1, <2>2
<1>5. \A i \in DOMAIN responses' : /\ i + 1 \in DOMAIN responses
                                   /\ responses'[i] = responses[i + 1]
                                   /\ 1 < i + 1
  <2>1. DOMAIN responses' = 1 .. Len(responses) - 1
    BY <1>4, LenProperties
  <2>2. \A i \in 1 .. Len(responses) - 1 : i + 1 \in 1 .. Len(responses) /\ 1 < i + 1
    BY <1>4
  <2> QED BY <1>4, <2>1, <2>2
<1>6. 1 \in DOMAIN responses /\ r \in Answers
  BY <1>1, <1>4 DEF Answers
<1>7. \A x \in Answers' : x \in Answers /\ r < x
  <2> TAKE x \in Answers'
  <2>1. PICK i \in DOMAIN responses' : x = responses'[i] /\ x # Refusal
    BY DEF Answers
  <2>2. i + 1 \in DOMAIN responses /\ x = responses[i + 1] /\ 1 < i + 1
    BY <1>5, <2>1
  <2>3. x \in Answers
    BY <2>1, <2>2 DEF Answers
  <2>4. r < x
    BY <1>4, <1>6, <2>1, <2>2 DEF ShownInv, AnswersLater
  <2> QED BY <2>3, <2>4
<1>8. r \in 1 .. Len(log)
  <2>1. r \in 0 .. Len(log)
    BY <1>4, <1>6 DEF LogTypes
  <2> QED BY <1>1, <2>1 DEF Refusal
<1>9. r \in Places(b.write)
  <2> DEFINE answered == IF Refusing THEN Len(responses) - 1 ELSE Len(responses)
  <2>1. /\ \A i \in 1 .. answered : log[responses[i]] = pendingWrites[i].write
        /\ Len(responses) <= Len(pendingWrites)
    BY DEF ShownInv, PipelineInv, AnswersMatchPipeline
  <2>2. 1 \in 1 .. answered
    BY <1>1, <1>4 DEF Refusing
  <2> HIDE DEF answered
  <2>3. pendingWrites[1] = b
    OBVIOUS
  <2>4. log[r] = b.write
    BY <1>4, <2>1, <2>2, <2>3
  <2> QED BY <1>8, <2>4 DEF Places, LogTypes
<1> QED BY <1>2, <1>3, <1>5, <1>6, <1>7, <1>8, <1>9

\* An acknowledged write is held back behind the others, or applied at once: it
\* was applied by the server after all that is confirmed.
LEMMA ReceiveResponseShows ==
    ASSUME ShownInv, LogTypes, LogTypes', ReceiveResponse
    PROVE  ShownParts'
<1>1. PICK b : b = Head(pendingWrites)
  OBVIOUS
<1>2. PICK r : r = Head(responses)
  OBVIOUS
<1> DEFINE e == [batch |-> b, version |-> r]
           rel == << e >>
           Settled == confirmed \ HeldWrites
<1>3. /\ UNCHANGED <<writes, log, remoteVersion, resume, user, targets, floor, dropped>>
      /\ confirmed' = confirmed \cup {b.write}
      /\ \/ held' = held \o rel /\ UNCHANGED <<cache, rows>>
         \/ /\ held = << >> /\ held' = held
            /\ r <= remoteVersion \/ targets = {}
            /\ cache' = ApplyBatchResults(cache, rel)
            /\ rows' = [rows EXCEPT ![user] = RemoveBatches(@, rel)]
      /\ ProcessUserCallbacks(b.id, "success")
  BY <1>1, <1>2 DEF ReceiveResponse, ShouldHold, IsRemoteUpTo
<1>4. /\ b \in Unsent /\ b \in Batch /\ b.write \in WriteNumbers
      /\ b.write \notin confirmed
      /\ r \in Answers /\ r \in 1 .. Len(log) /\ r \in Places(b.write)
      /\ \A i \in DOMAIN responses' : /\ i + 1 \in DOMAIN responses
                                      /\ responses'[i] = responses[i + 1]
      /\ \A x \in Answers' : x \in Answers /\ r < x
  BY <1>1, <1>2, AnswerOf
<1>5. /\ e \in HeldResult /\ e.batch = b /\ e.version = r /\ rel \in Seq(HeldResult)
      /\ DOMAIN rel = {1} /\ rel[1] = e
  <2>1. r \in Nat
    BY <1>4 DEF LogTypes
  <2>2. e \in HeldResult
    BY <1>4, <2>1 DEF HeldResult
  <2> QED BY <2>2
<1> HIDE DEF e, rel
<1>6. \A w : Places(w)' = Places(w)
  BY <1>3 DEF Places
<1>7. /\ \A w \in confirmed : Places(w) # {} /\ AppliedBefore(w, r)
      /\ \A j \in DOMAIN held : held[j].version < r
  BY <1>4 DEF ShownInv, AnswersLater
<1>8. RowsInOrder'
  <2>1. \A u \in Users : rows'[u] \subseteq rows[u]
    <3>1. RemoveBatches(rows[user], rel) \subseteq rows[user]
      BY DEF RemoveBatches
    <3> QED BY <1>3, <3>1 DEF LogTypes
  <2>2. /\ Unacked(rows'[user], lastAcked'[user]) = Unsent \ {b}
        /\ \A u \in Users \ {user} : rows'[u] = rows[u] /\ lastAcked'[u] = lastAcked[u]
    <3>1. blocks' \in [Users -> SUBSET Batch]
      <4>1. blocks \in [Users -> SUBSET Batch] /\ user \in Users
        BY DEF ShownInv, PipelineInv, QueuesInv, Tables, LogTypes
      <4> QED BY <1>3, <4>1 DEF ProcessUserCallbacks
    <3>2. PipelineInv
      BY DEF ShownInv
    <3> QED BY <1>1, <3>1, <3>2, AnsweredQueues
  <2>3. ASSUME NEW u \in Users, NEW c \in Unacked(rows'[u], lastAcked'[u])
        PROVE  c \in Unacked(rows[u], lastAcked[u]) /\ c.write # b.write
    <3>1. c \in Unacked(rows[u], lastAcked[u]) /\ ~(u = user /\ c = b)
      BY <2>2, <2>3 DEF Unsent
    <3>2. c \in rows[u] /\ b \in rows[user] /\ user \in Users
      BY <1>4, <3>1 DEF Unacked, Unsent, LogTypes
    <3>3. c.write # b.write
      BY <3>1, <3>2 DEF ShownInv, PipelineInv, QueuesInv, OneRowPerWrite
    <3> QED BY <3>1, <3>3
  <2>4. ASSUME NEW u \in Users, NEW c \in Unacked(rows'[u], lastAcked'[u])
        PROVE  c.write \notin confirmed'
    <3>1. c.write \notin confirmed
      BY <2>3, <2>4 DEF ShownInv, RowsInOrder
    <3> QED BY <1>3, <2>3, <2>4, <3>1
  <2>5. \A u \in Users : \A c, d \in rows'[u] : c.id < d.id => c.write < d.write
    BY <2>1 DEF ShownInv, RowsInOrder
  <2> QED BY <2>4, <2>5 DEF RowsInOrder
<1>9. /\ \A j \in DOMAIN held' :
           \/ j \in DOMAIN held /\ held'[j] = held[j]
           \/ /\ held'[j] = e
              /\ \A i \in DOMAIN held' : i < j =>
                   i \in DOMAIN held /\ held'[i] = held[i]
      /\ \A i, j \in DOMAIN held' : i < j /\ j \in DOMAIN held => i \in DOMAIN held
      /\ \A i \in DOMAIN held : i \in DOMAIN held' /\ held'[i] = held[i]
      /\ held' = held \o rel => \E j \in DOMAIN held' : held'[j] = e
  <2>1. CASE held' = held \o rel
    <3>1. held' = Append(held, e)
      <4>1. held \in Seq(HeldResult)
        BY DEF LogTypes
      <4> QED BY <1>5, <2>1, <4>1, AppendIsConcat DEF rel
    <3>2. /\ held' \in Seq(HeldResult) /\ Len(held') = Len(held) + 1
          /\ held'[Len(held) + 1] = e
          /\ \A i \in 1 .. Len(held) : held'[i] = held[i]
          /\ Len(held) \in Nat /\ DOMAIN held = 1 .. Len(held)
      <4>1. held \in Seq(HeldResult)
        BY DEF LogTypes
      <4> QED BY <1>5, <3>1, <4>1, AppendProperties, LenProperties
    <3>3. DOMAIN held' = 1 .. Len(held) + 1
      BY <3>2, LenProperties
    <3>4. /\ \A j \in 1 .. Len(held) + 1 : j \in 1 .. Len(held) \/ j = Len(held) + 1
          /\ \A i \in 1 .. Len(held) + 1 : i < Len(held) + 1 => i \in 1 .. Len(held)
          /\ \A i \in 1 .. Len(held) + 1 : \A j \in 1 .. Len(held) : i < j => i \in 1 .. Len(held)
          /\ \A i \in 1 .. Len(held) : i \in 1 .. Len(held) + 1
          /\ Len(held) + 1 \in 1 .. Len(held) + 1
      BY <3>2
    <3>5. \A i, j \in DOMAIN held' : i < j /\ j \in DOMAIN held => i \in DOMAIN held
      BY <3>2, <3>3, <3>4
    <3>6. \A i \in DOMAIN held : i \in DOMAIN held' /\ held'[i] = held[i]
      BY <3>2, <3>3, <3>4
    <3>7. \E j \in DOMAIN held' : held'[j] = e
      BY <3>2, <3>3, <3>4
    <3>8. ASSUME NEW j \in DOMAIN held', j \notin DOMAIN held
          PROVE  held'[j] = e /\ \A i \in DOMAIN held' : i < j =>
                                   i \in DOMAIN held /\ held'[i] = held[i]
      <4>1. j = Len(held) + 1
        BY <3>2, <3>3, <3>4, <3>8
      <4> QED BY <3>2, <3>3, <3>4, <4>1
    <3>9. \A j \in DOMAIN held' :
            \/ j \in DOMAIN held /\ held'[j] = held[j]
            \/ /\ held'[j] = e
               /\ \A i \in DOMAIN held' : i < j =>
                    i \in DOMAIN held /\ held'[i] = held[i]
      BY <3>6, <3>8
    <3> QED BY <3>5, <3>6, <3>7, <3>9
  <2>2. CASE held = << >> /\ held' = held
    <3>1. DOMAIN held = {}
      BY <2>2
    <3>2. held' # held \o rel
      <4>1. held \o rel = << e >>
        BY <1>5, <2>2 DEF rel
      <4> QED BY <2>2, <4>1
    <3> QED BY <2>2, <3>1, <3>2
  <2> QED BY <1>3, <2>1, <2>2
<1>10. HeldWrites \subseteq HeldWrites'
  BY <1>9 DEF HeldWrites
<1>11. held' = held \o rel => b.write \in HeldWrites'
  BY <1>5, <1>9 DEF HeldWrites
<1>12. AnswersLater'
  <2>1. \A w \in confirmed' : Places(w)' # {}
    BY <1>3, <1>4, <1>6, <1>7
  <2>2. ASSUME NEW i \in DOMAIN responses', NEW j \in DOMAIN responses', i < j,
               responses'[j] # Refusal
        PROVE  responses'[i] < responses'[j]
    <3>1. /\ i + 1 \in DOMAIN responses /\ j + 1 \in DOMAIN responses
          /\ responses'[i] = responses[i + 1] /\ responses'[j] = responses[j + 1]
      BY <1>4
    <3>2. i + 1 < j + 1
      BY <2>2 DEF LogTypes
    <3> QED BY <2>2, <3>1, <3>2 DEF ShownInv, AnswersLater
  <2>3. ASSUME NEW x \in Answers'
        PROVE  /\ \A w \in confirmed' : AppliedBefore(w, x)'
               /\ \A j \in DOMAIN held' : held'[j].version < x
    <3>1. x \in Answers /\ r < x
      BY <1>4
    <3>2. \A w \in confirmed' : \E i \in Places(w) : i < x
      BY <1>3, <1>4, <3>1 DEF ShownInv, AnswersLater, AppliedBefore
    <3>3. \A w \in confirmed' : AppliedBefore(w, x)'
      BY <1>6, <3>2 DEF AppliedBefore
    <3>4. \A j \in DOMAIN held' : held'[j].version < x
      BY <1>5, <1>9, <3>1 DEF ShownInv, AnswersLater
    <3> QED BY <3>3, <3>4
  <2> QED BY <2>1, <2>2, <2>3 DEF AnswersLater
<1>13. ResultsInOrder(held)'
  <2>1. ResultsInOrder(held) /\ log[r] = b.write
    BY <1>4 DEF ShownInv, HeldLater, Places
  <2>2. \A j \in DOMAIN held' : log'[held'[j].version] = held'[j].batch.write
    BY <1>3, <1>5, <1>9, <2>1 DEF ResultsInOrder
  <2>3. ASSUME NEW i \in DOMAIN held', NEW j \in DOMAIN held', i < j
        PROVE  held'[i].version < held'[j].version
    <3>1. CASE j \in DOMAIN held
      BY <1>9, <2>1, <2>3, <3>1 DEF ResultsInOrder
    <3>2. CASE j \notin DOMAIN held
      BY <1>5, <1>7, <1>9, <2>3, <3>2
    <3> QED BY <3>1, <3>2
  <2> QED BY <2>2, <2>3 DEF ResultsInOrder
<1>14. CASE held' = held \o rel /\ UNCHANGED <<cache, rows>>
  <2>1. confirmed' \ HeldWrites' \subseteq Settled
    BY <1>3, <1>10, <1>11, <1>14
  <2>2. HeldLater'
    <3>1. ASSUME NEW w \in Settled, NEW j \in DOMAIN held'
          PROVE  AppliedBefore(w, held'[j].version)
      BY <1>5, <1>7, <1>9 DEF ShownInv, HeldLater
    <3>2. \A w \in confirmed' \ HeldWrites' : \A j \in DOMAIN held' :
            AppliedBefore(w, held[j].version)'
      BY <1>6, <2>1, <3>1 DEF AppliedBefore
    <3> QED BY <1>13, <3>2 DEF HeldLater
  <2>3. CacheUpToDate'
    BY <1>3, <1>6, <1>14 DEF ShownInv, CacheUpToDate, UpToDate, VersionAt
  <2>4. CacheKeeps'
    BY <1>3, <1>6, <1>14, <2>1 DEF ShownInv, CacheKeeps, Kept, Reached, Overtaken
  <2>5. SnapshotBrings'
    BY <1>3, <1>6, <1>14, <2>1 DEF ShownInv, SnapshotBrings, Reached
  <2> QED BY <1>8, <1>12, <2>2, <2>3, <2>4, <2>5 DEF ShownParts
<1>15. CASE /\ held = << >> /\ held' = held
            /\ r <= remoteVersion \/ targets = {}
            /\ cache' = ApplyBatchResults(cache, rel)
  <2>1. HeldWrites = {} /\ HeldWrites' = {} /\ DOMAIN held' = {}
    <3>1. DOMAIN held = {} /\ DOMAIN held' = {}
      BY <1>15
    <3> QED BY <3>1 DEF HeldWrites
  <2>2. HeldLater'
    BY <1>13, <2>1 DEF HeldLater
  <2>3. PICK v : v = remoteVersion
    OBVIOUS
  <2>4. PICK docs : docs = cache
    OBVIOUS
  <2>5. PICK new : new = ApplyBatchResults(docs, rel)
    OBVIOUS
  <2>6. Appliable(docs, v, Settled, rel)
    <3>1. \A i \in DOMAIN rel : rel[i] = e
      BY <1>5
    <3>2. ResultsInOrder(rel)
      <4>1. log[r] = b.write
        BY <1>4 DEF Places
      <4>2. \A i, j \in DOMAIN rel : ~(i < j)
        BY <1>5
      <4> QED BY <1>5, <3>1, <4>1, <4>2 DEF ResultsInOrder
    <3>3. \A i \in DOMAIN rel : /\ rel[i].version \in 1 .. Len(log)
                                /\ \A w \in Settled : AppliedBefore(w, rel[i].version)
      BY <1>4, <1>5, <1>7, <3>1
    <3>4. /\ UpToDate(docs, v) /\ \A w \in Settled : Kept(docs, v, w)
      BY <2>3, <2>4 DEF ShownInv, CacheUpToDate, CacheKeeps
    <3>5. docs \in [Keys -> [write : {0} \cup WriteNumbers, version : 0 .. Len(log)]]
      BY <2>4 DEF LogTypes
    <3> QED BY <1>5, <3>2, <3>3, <3>4, <3>5 DEF Appliable
  <2>7. StillKept(new, v, Settled, rel)
    <3>1. Settled \in SUBSET WriteNumbers /\ v \in 0 .. Len(log)
      BY <2>3 DEF LogTypes
    <3> HIDE DEF Settled
    <3> QED BY <2>5, <2>6, <3>1, AppliedKeeps
  <2>8. /\ UpToDate(cache', v)
        /\ \A w \in confirmed' : Kept(cache', v, w)
    <3>1. cache' = new
      BY <1>15, <2>4, <2>5
    <3>2. \A w \in confirmed' : w \in Settled \cup {rel[i].batch.write : i \in DOMAIN rel}
      BY <1>3, <1>5, <2>1
    <3> QED BY <2>7, <3>1, <3>2 DEF StillKept
  <2>9. CacheUpToDate'
    BY <1>3, <1>6, <2>3, <2>8 DEF ShownInv, CacheUpToDate, UpToDate, VersionAt
  <2>10. CacheKeeps'
    BY <1>3, <1>6, <2>3, <2>8 DEF CacheKeeps, Kept, Reached, Overtaken
  <2>11. SnapshotBrings'
    <3> SUFFICES ASSUME NEW w \in confirmed', targets # {}
                 PROVE  w \in dropped \/ Reached(w, remoteVersion) \/ Reached(w, floor)
      BY <1>3, <1>6 DEF SnapshotBrings, Reached
    <3>1. CASE w \in confirmed
      BY <2>1, <3>1 DEF ShownInv, SnapshotBrings
    <3>2. CASE w = b.write
      BY <1>4, <1>15, <3>2 DEF Reached
    <3> QED BY <1>3, <3>1, <3>2
  <2> QED BY <1>8, <1>12, <2>2, <2>9, <2>10, <2>11 DEF ShownParts
<1> QED BY <1>3, <1>14, <1>15

\* At first there is nothing to hide.
LEMMA InitShown == Init => ShownInv
<1> SUFFICES ASSUME Init PROVE ShownInv
  OBVIOUS
<1>1. PipelineInv
  BY InitPipelineInv
<1>2. /\ confirmed = {} /\ held = << >> /\ responses = << >> /\ targets = {}
      /\ log = << >> /\ remoteVersion = 0
      /\ \A u \in Users : rows[u] = {}
      /\ \A k \in Keys : cache[k].version = 0
      /\ \A t \in Targets : resume[t] = 0
  BY DEF Init, Missing
<1>3. DOMAIN held = {} /\ DOMAIN responses = {}
  BY <1>2
<1>4. RowsInOrder /\ AnswersLater /\ HeldLater /\ CacheKeeps /\ SnapshotBrings
  BY <1>2, <1>3 DEF RowsInOrder, AnswersLater, HeldLater, ResultsInOrder, CacheKeeps,
     SnapshotBrings, Answers, Unacked
<1>5. CacheUpToDate
  <2>1. LogTypes /\ 0 \in 0 .. Len(log)
    BY <1>1, <1>2, LogTyped
  <2>2. \A k \in Keys : VersionAt(k, 0) \in 0 .. 0
    BY <2>1, VersionAtIs
  <2>3. \A x \in 0 .. 0 : x = 0
    OBVIOUS
  <2>4. \A k \in Keys : VersionAt(k, remoteVersion) = 0
    BY <1>2, <2>2, <2>3
  <2> QED BY <1>2, <2>4 DEF CacheUpToDate, UpToDate
<1> QED BY <1>1, <1>4, <1>5 DEF ShownInv

\* Every block of the worker queue, and every step of the server, keeps it.
LEMMA NextShown == ShownInv /\ [Next]_vars => ShownInv'
<1> SUFFICES ASSUME ShownInv, [Next]_vars PROVE ShownInv'
  OBVIOUS
<1>1. PipelineInv' /\ PipelineInv
  BY NextPipelineInv DEF ShownInv
<1>2. LogTypes /\ LogTypes'
  <2>1. LogTypes
    BY <1>1, LogTyped
  <2>2. LogTypes'
    BY <1>1, LogTyped, PTL
  <2> QED BY <2>1, <2>2
<1>3. ASSUME NEW k \in Keys, WriteMutations(k) \/ RemoteWrite(k)
      PROVE  ShownParts'
  BY <1>2, <1>3, WriteMutationsShows, RemoteWriteShows
<1>4. ASSUME StreamOpens \/ CompleteHandshake \/ BreakStream \/ CloseIdleStream
      PROVE  ShownParts'
  <2>1. UNCHANGED <<writes, log, disk, user, held, targets, floor, ghosts>>
    BY <1>4 DEF StreamOpens, CompleteHandshake, BreakStream, CloseIdleStream, CloseStream
  <2>2. responses' = responses \/ responses' = << >>
    BY <1>4 DEF StreamOpens, CompleteHandshake, BreakStream, CloseIdleStream, CloseStream
  <2> QED BY <1>2, <2>1, <2>2, StreamShows
<1>5. ASSUME ServerApplies
      PROVE  ShownParts'
  BY <1>2, <1>5, ServerAppliesShows
<1>6. ASSUME ServerRefuses
      PROVE  ShownParts'
  BY <1>2, <1>6, StreamShows DEF ServerRefuses
<1>7. ASSUME ReceiveResponse \/ ReceiveRefusal
      PROVE  ShownParts'
  BY <1>2, <1>7, ReceiveResponseShows, ReceiveRefusalShows
<1>8. ASSUME NEW t \in Targets, Listen(t) \/ ReleaseQuery(t)
      PROVE  ShownParts'
  BY <1>2, <1>8, ListenShows, ReleaseQueryShows
<1>9. ASSUME NEW v \in 1 .. Len(log), WatchSnapshot(v)
      PROVE  ShownParts'
  BY <1>2, <1>9, WatchSnapshotShows
<1>10. ASSUME NEW u \in Users, UserDidChange(u) \/ Relaunch(u)
       PROVE  ShownParts'
  <2>1. /\ StartMutationQueue(u) /\ RestartNetwork(u)
        /\ UNCHANGED <<writes, log, cache, remoteVersion, resume, floor, confirmed>>
        /\ targets' = targets \/ targets' = {}
    BY <1>10 DEF UserDidChange, Relaunch
  <2>2. QueuesStay
    BY <1>1, <1>10, UserDidChangeStep, RelaunchStep
  <2> QED BY <1>2, <2>1, <2>2, RestartShows
<1>11. ASSUME UNCHANGED vars
       PROVE  ShownParts'
  <2>1. UNCHANGED <<writes, log, disk, user, held, targets, floor, ghosts, responses>>
    BY <1>11 DEF vars, pipeline
  <2> QED BY <1>2, <2>1, StreamShows
<1>12. ShownParts'
  BY <1>3, <1>4, <1>5, <1>6, <1>7, <1>8, <1>9, <1>10, <1>11 DEF Next
<1> QED BY <1>1, <1>12 DEF ShownInv, ShownParts

\* The last row of the user for a document, if there is one.
LEMMA LastRow ==
    ASSUME PipelineInv, NEW k,
           NEW mine, mine = {b \in rows[user] : writes[b.write].key = k}, mine # {}
    PROVE  \E b \in mine : LocalDocument(k) = b.write /\ \A c \in mine : c.id <= b.id
<1>1. /\ mine \in SUBSET Batch /\ IsFiniteSet(mine)
  <2>1. rows[user] \in SUBSET Batch /\ IsFiniteSet(rows[user])
    BY DEF PipelineInv, PipelineTypeOK, QueuesInv, Tables
  <2> QED BY <2>1, FS_Subset
<1> DEFINE ids == {c.id : c \in mine}
<1>2. ids \in SUBSET (0 .. nextBatchID) /\ ids # {} /\ nextBatchID \in Nat
  <2>1. nextBatchID \in Nat /\ user \in Users
    BY DEF PipelineInv, PipelineTypeOK
  <2>2. \A c \in mine : c.id \in Nat /\ c.id < nextBatchID
    BY <1>1, <2>1 DEF PipelineInv, QueuesInv, IdsInOrder, Batch
  <2>3. \A c \in mine : c.id \in 0 .. nextBatchID
    BY <2>1, <2>2
  <2> QED BY <2>1, <2>3
<1>3. ids \in SUBSET Int /\ IsFiniteSet(ids)
  <2>1. IsFiniteSet(0 .. nextBatchID) /\ 0 .. nextBatchID \subseteq Int
    BY <1>2, FS_Interval
  <2> HIDE DEF ids
  <2> QED BY <1>2, <2>1, FS_Subset
<1>4. Max(ids) \in ids /\ \A i \in ids : i <= Max(ids)
  <2> HIDE DEF ids
  <2> QED BY <1>2, <1>3, MaxOfSet
<1>5. \E b \in mine : \A c \in mine : c.id <= b.id
  BY <1>4
<1>6. PICK b : b = CHOOSE d \in mine : \A c \in mine : c.id <= d.id
  OBVIOUS
<1>7. b \in mine /\ \A c \in mine : c.id <= b.id
  BY <1>5, <1>6
<1>8. LocalDocument(k) = b.write
  BY <1>6 DEF LocalDocument
<1> QED BY <1>7, <1>8

\* The rows that are acknowledged are those held.
LEMMA HeldRow ==
    ASSUME PipelineInv, LogTypes, NEW b \in rows[user]
    PROVE  b \in Unsent \/ \E j \in DOMAIN held : b = held[j].batch
<1>1. b.id \in Int /\ lastAcked[user] \in Int
  BY DEF LogTypes, Batch
<1>2. b.id <= lastAcked[user] \/ b.id > lastAcked[user]
  BY <1>1
<1>3. {c \in rows[user] : c.id <= lastAcked[user]} = {held[i].batch : i \in DOMAIN held}
  BY DEF PipelineInv, QueuesInv, IdsInOrder
<1> QED BY <1>2, <1>3 DEF Unsent, Unacked

\* What a held write, or one that waits, shows in its document.
LEMMA RowsShow ==
    ASSUME ShownInv, LogTypes, NEW w \in confirmed \cup PendingWritesOfUser,
           NEW b \in rows[user], \A c \in rows[user] : c.write = w => c.id <= b.id
    PROVE  NotOlder(b.write, w)
<1>1. b \in Unsent \/ \E j \in DOMAIN held : b = held[j].batch
  BY HeldRow DEF ShownInv
<1>2. \A c \in Unsent : /\ c \in rows[user] /\ c.write \notin confirmed
                        /\ c.write \in PendingWritesOfUser /\ c.id > lastAcked[user]
  BY DEF ShownInv, RowsInOrder, Unsent, Unacked, PendingWritesOfUser, LogTypes
<1>3. \A c \in rows[user] : c.id \in Int /\ lastAcked[user] \in Int
  BY DEF LogTypes, Batch
<1>4. \A c \in rows[user] : b.id = c.id => b = c
  BY DEF ShownInv, PipelineInv, QueuesInv, IdsInOrder, LogTypes
<1>5. CASE w \in PendingWritesOfUser
  <2>1. PICK c \in Unsent : c.write = w
    BY <1>5 DEF PendingWritesOfUser, Unsent
  <2>2. c.id <= b.id
    BY <1>2, <2>1
  <2>3. CASE c = b
    BY <2>1, <2>3 DEF NotOlder
  <2>4. CASE c # b
    <3>1. c.id < b.id
      BY <1>2, <1>3, <1>4, <2>1, <2>2, <2>4
    <3>2. b.id > lastAcked[user]
      BY <1>2, <1>3, <3>1
    <3>3. b.write \in PendingWritesOfUser
      BY <3>2 DEF PendingWritesOfUser, Unacked
    <3>4. c.write < b.write
      BY <1>2, <3>1 DEF ShownInv, RowsInOrder, LogTypes
    <3>5. b.write > w
      <4>1. c.write \in Nat /\ b.write \in Nat
        BY <1>2 DEF LogTypes, Batch
      <4> QED BY <2>1, <3>4, <4>1
    <3> QED BY <3>3, <3>5 DEF NotOlder
  <2> QED BY <2>3, <2>4
<1>6. CASE w \in confirmed /\ w \notin PendingWritesOfUser
  <2>1. CASE b \in Unsent
    BY <1>2, <1>6, <2>1 DEF NotOlder
  <2>2. CASE \E j \in DOMAIN held : b = held[j].batch
    <3>1. PICK j \in DOMAIN held : b = held[j].batch
      BY <2>2
    <3>2. held[j].version \in Places(b.write) /\ \A i \in DOMAIN held :
            held[i].version \in Places(held[i].batch.write)
      BY <3>1 DEF ShownInv, HeldLater, ResultsInOrder, LogTypes, Places
    <3>3. CASE w \in HeldWrites
      <4>1. PICK i \in DOMAIN held : w = held[i].batch.write
        BY <3>3 DEF HeldWrites
      <4>2. held[i].batch \in rows[user] /\ held[i].batch.id <= b.id
        BY <4>1 DEF ShownInv, PipelineInv, QueuesInv, IdsInOrder
      <4>3. ~(j < i)
        BY <1>3, <3>1, <4>2 DEF ShownInv, PipelineInv, QueuesInv, HeldInOrder
      <4>4. i = j \/ i < j
        <5>1. i \in Int /\ j \in Int
          BY LenProperties DEF LogTypes
        <5> QED BY <4>3, <5>1
      <4>5. CASE i = j
        BY <3>1, <4>1, <4>5 DEF NotOlder
      <4>6. CASE i < j
        <5>1. held[i].version < held[j].version
          BY <4>6 DEF ShownInv, HeldLater, ResultsInOrder
        <5> QED BY <3>2, <4>1, <5>1 DEF NotOlder
      <4> QED BY <4>4, <4>5, <4>6
    <3>4. CASE w \notin HeldWrites
      <4>1. AppliedBefore(w, held[j].version)
        BY <1>6, <3>4 DEF ShownInv, HeldLater
      <4> QED BY <3>2, <4>1 DEF AppliedBefore, NotOlder
    <3> QED BY <3>3, <3>4
  <2> QED BY <1>1, <2>1, <2>2
<1> QED BY <1>5, <1>6

\* The invariant is why nothing appears reverted.
LEMMA ShownIsNotReverted == ShownInv => NotReverted
<1> SUFFICES ASSUME ShownInv, NEW w \in confirmed \cup PendingWritesOfUser
             PROVE  \/ Visible(w)
                    \/ w \in dropped /\ \A i \in Places(w) : remoteVersion < i
  BY DEF NotReverted
<1>1. PipelineInv /\ LogTypes
  BY LogTyped DEF ShownInv
<1>2. PICK k : k = writes[w].key
  OBVIOUS
<1>3. PICK mine : mine = {b \in rows[user] : writes[b.write].key = k}
  OBVIOUS
<1>4. CASE mine # {}
  <2>1. PICK b \in mine : LocalDocument(k) = b.write /\ \A c \in mine : c.id <= b.id
    BY <1>1, <1>3, <1>4, LastRow
  <2>2. \A c \in rows[user] : c.write = w => c.id <= b.id
    BY <1>2, <1>3, <2>1
  <2>3. NotOlder(b.write, w)
    BY <1>1, <1>3, <2>1, <2>2, RowsShow
  <2> QED BY <1>2, <2>1, <2>3 DEF Visible
<1>5. CASE mine = {}
  <2>1. \A b \in rows[user] : b.write # w
    BY <1>2, <1>3, <1>5
  <2>2. w \in confirmed
    BY <2>1 DEF PendingWritesOfUser, Unacked
  <2>3. w \notin HeldWrites
    <3>1. \A i \in DOMAIN held : held[i].batch \in rows[user]
      BY <1>1 DEF PipelineInv, QueuesInv, IdsInOrder
    <3> QED BY <2>1, <3>1 DEF HeldWrites
  <2>4. LocalDocument(k) = cache[k].write
    BY <1>3, <1>5 DEF LocalDocument
  <2>5. w \in dropped \/ Reached(w, remoteVersion) \/ cache[k].write = w
          \/ Overtaken(w, cache[k].write)
    BY <1>2, <2>2, <2>3 DEF ShownInv, CacheKeeps, Kept
  <2>6. CASE Reached(w, remoteVersion)
    <3>1. PICK i \in Places(w) : i <= remoteVersion
      BY <2>6 DEF Reached
    <3>2. i \in 1 .. remoteVersion /\ log[i] = w /\ i \in Int /\ i > 0
      BY <1>1, <3>1 DEF Places, LogTypes
    <3>3. k \in Keys /\ remoteVersion \in 0 .. Len(log)
      BY <1>1, <1>2, <2>2 DEF LogTypes
    <3>4. i <= cache[k].version /\ cache[k].version \in Int
      <4>1. i <= VersionAt(k, remoteVersion) /\ VersionAt(k, remoteVersion) \in Int
        BY <1>1, <1>2, <3>2, <3>3, VersionAtIs
      <4> QED BY <3>3, <4>1 DEF ShownInv, CacheUpToDate, UpToDate
    <3>5. PICK j \in Places(cache[k].write) : cache[k].version <= j
      <4>1. cache[k].version > 0
        BY <3>2, <3>4
      <4> QED BY <3>3, <4>1 DEF ShownInv, CacheUpToDate, UpToDate
    <3>6. j \in Int /\ log[j] = cache[k].write
      BY <1>1, <3>5 DEF Places, LogTypes
    <3>7. CASE i = j
      BY <1>2, <2>4, <3>2, <3>6, <3>7 DEF Visible, NotOlder
    <3>8. CASE i # j
      <4>1. i < j
        BY <3>2, <3>4, <3>5, <3>6, <3>8
      <4> QED BY <1>2, <2>4, <3>1, <3>5, <4>1 DEF Visible, NotOlder
    <3> QED BY <3>7, <3>8
  <2>7. CASE cache[k].write = w \/ Overtaken(w, cache[k].write)
    BY <1>2, <2>4, <2>7 DEF Visible, NotOlder, Overtaken
  <2>8. CASE w \in dropped /\ ~Reached(w, remoteVersion)
    <3>1. \A i \in Places(w) : i \in Int /\ remoteVersion \in Int
      BY <1>1 DEF LogTypes
    <3> QED BY <2>8, <3>1 DEF Reached
  <2> QED BY <2>5, <2>6, <2>7, <2>8
<1> QED BY <1>4, <1>5

\* A confirmed write stays visible, or something newer is: it never appears
\* reverted because the watch stream is slower than the write stream, but for a
\* write that was being held when the engine changed its user or the process
\* ended (FSTLocalStore's heldBatchResults).
THEOREM NothingAppearsReverted == Spec => []NotReverted
<1>1. Spec => []ShownInv
  BY InitShown, NextShown, PTL DEF Spec
<1> QED BY <1>1, ShownIsNotReverted, PTL
=============================================================================
