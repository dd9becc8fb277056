------------------------- MODULE WatchTargetsProofs -------------------------
(***************************************************************************)
(* Listens under target ids that are used again, for any targets, versions *)
(* and number of listens.  The count of a target is the number of its      *)
(* requests without an answer, so that while the aggregator walks its list *)
(* the count is 0 only past the last answer for the target.  What comes    *)
(* then was sent for the listen the last request was about, and that is    *)
(* the listen of the target now, unless it has been refused or stopped.    *)
(***************************************************************************)
EXTENDS WatchTargets, OrderingProofs

-----------------------------------------------------------------------------
\* The inductive invariant.

\* A closed stream has nothing under way.
ClosedIsEmpty ==
    stream # "open" =>
        /\ requests = << >> /\ changes = << >> /\ accumulated = << >>
        /\ serving = [t \in Targets |-> None] /\ due = {}

Counted == \A t \in Targets : pendingTargetResponses[t] = Unanswered(t)

\* Requests to watch are for listens that were begun.
ListensKnown ==
    \A i \in DOMAIN requests :
        requests[i].op = "watch" => requests[i].listen \in Listens

\* The last request for a target tells what it listens to now, if anything.
LastRequest ==
    \A i \in DOMAIN requests :
        LET r == requests[i]
        IN (\A j \in DOMAIN requests : requests[j].target = r.target => j <= i) =>
             \/ listenTargets[r.target] = None
             \/ r.op = "watch" /\ r.listen = listenTargets[r.target]

\* A refusal of the target is under way.
Refused(list, t) ==
    \E i \in DOMAIN list : list[i].type = "refused" /\ list[i].target = t

\* Whether the server's listen of t is the client's, should it have one.
Agrees(t, n) == listenTargets[t] = None \/ listenTargets[t] = n

\* With no request under way the server serves what is listened to, or has
\* refused it.
ServesListen ==
    \A t \in Targets :
        Asked(t) = {} /\ serving[t] # None =>
            Agrees(t, serving[t]) \/ Refused(changes, t)

IsAnswer(c) == c.type \in {"document", "current"}

\* An answer that nothing else follows, on its way: it is for the listen of its
\* target, unless that is refused before.
SentForListen ==
    \A i \in DOMAIN changes :
        LET c == changes[i]
        IN  IsAnswer(c) /\ Asked(c.target) = {}
            /\ (\A j \in Responses(changes, c.target) : j <= i)
            => \/ Agrees(c.target, c.listen)
               \/ \E k \in 1 .. i : changes[k].type = "refused"
                                    /\ changes[k].target = c.target

\* And one that was accumulated.
KeptForListen ==
    \A i \in DOMAIN accumulated :
        LET c == accumulated[i]
        IN  IsAnswer(c) /\ Asked(c.target) = {} /\ Responses(changes, c.target) = {}
            /\ (\A j \in Responses(accumulated, c.target) : j <= i)
            => Agrees(c.target, c.listen)

Inv == /\ WatchTypeOK
       /\ ClosedIsEmpty
       /\ Counted
       /\ ListensKnown
       /\ LastRequest
       /\ ServesListen
       /\ SentForListen
       /\ KeptForListen
       /\ OwnChangesOnly

-----------------------------------------------------------------------------
\* Positions in queues.

\* Positions moved by a fixed distance are as many.
LEMMA MovedPositions ==
    ASSUME NEW K \in SUBSET Int, IsFiniteSet(K), NEW d \in Int
    PROVE  /\ IsFiniteSet({k + d : k \in K})
           /\ Cardinality({k + d : k \in K}) = Cardinality(K)
<1> DEFINE M == {k + d : k \in K}
           f == [k \in K |-> k + d]
<1>1. f \in [K -> M]
  OBVIOUS
<1>2. ASSUME NEW j \in K, NEW k \in K, f[j] = f[k]
      PROVE  j = k
  <2>1. j \in Int /\ k \in Int /\ j + d = k + d
    BY <1>2
  <2> QED BY <2>1
<1>3. \A m \in M : \E k \in K : f[k] = m
  OBVIOUS
<1>4. f \in Bijection(K, M)
  BY <1>1, <1>2, <1>3 DEF Bijection, Injection, Surjection, IsInjective
<1>5. ExistsBijection(K, M)
  BY <1>4 DEF ExistsBijection
<1> HIDE DEF M
<1>6. IsFiniteSet(M) /\ Cardinality(M) = Cardinality(K)
  BY <1>5, FS_Bijection
<1> QED BY <1>6 DEF M

\* Positions up to a number are finitely many.
LEMMA PositionsFinite ==
    ASSUME NEW n \in Nat, NEW K \in SUBSET (1 .. n)
    PROVE  IsFiniteSet(K) /\ Cardinality(K) \in Nat
<1>1. IsFiniteSet(1 .. n)
  BY FS_Interval
<1>2. IsFiniteSet(K)
  BY <1>1, FS_Subset
<1> QED BY <1>2, FS_CardinalityType

\* The answers of a list are at positions of the list.
LEMMA ResponsesFinite ==
    ASSUME NEW list \in Seq(Change), NEW t
    PROVE  /\ Responses(list, t) \subseteq 1 .. Len(list)
           /\ IsFiniteSet(Responses(list, t))
           /\ Cardinality(Responses(list, t)) \in Nat
<1>1. Responses(list, t) \in SUBSET (1 .. Len(list)) /\ Len(list) \in Nat
  BY DEF Responses
<1>2. IsFiniteSet(Responses(list, t)) /\ Cardinality(Responses(list, t)) \in Nat
  BY <1>1, PositionsFinite
<1> QED BY <1>1, <1>2

\* So are the requests for a target.
LEMMA AskedFinite ==
    ASSUME WatchTypeOK, NEW t
    PROVE  /\ Asked(t) \subseteq 1 .. Len(requests)
           /\ IsFiniteSet(Asked(t))
           /\ Cardinality(Asked(t)) \in Nat
<1>1. Asked(t) \in SUBSET (1 .. Len(requests)) /\ Len(requests) \in Nat
  BY DEF Asked, WatchTypeOK
<1>2. IsFiniteSet(Asked(t)) /\ Cardinality(Asked(t)) \in Nat
  BY <1>1, PositionsFinite
<1> QED BY <1>1, <1>2

\* The answers of a list that is followed by another are those of both.
LEMMA ResponsesOfConcat ==
    ASSUME NEW s \in Seq(Change), NEW a \in Seq(Change), NEW t
    PROVE  /\ Responses(s \o a, t)
                = Responses(s, t) \cup {k + Len(s) : k \in Responses(a, t)}
           /\ Cardinality(Responses(s \o a, t))
                = Cardinality(Responses(s, t)) + Cardinality(Responses(a, t))
<1> DEFINE M == {k + Len(s) : k \in Responses(a, t)}
<1>1. /\ Len(s) \in Nat /\ Len(a) \in Nat
      /\ DOMAIN s = 1 .. Len(s) /\ DOMAIN a = 1 .. Len(a)
      /\ DOMAIN (s \o a) = 1 .. Len(s) + Len(a)
      /\ \A i \in 1 .. Len(s) + Len(a) :
            (s \o a)[i] = IF i <= Len(s) THEN s[i] ELSE a[i - Len(s)]
  BY ConcatProperties
<1>2. Responses(s \o a, t) \subseteq Responses(s, t) \cup M
  <2> SUFFICES ASSUME NEW i \in Responses(s \o a, t)
               PROVE  i \in Responses(s, t) \/ i \in M
    OBVIOUS
  <2>1. i \in 1 .. Len(s) + Len(a)
    BY <1>1 DEF Responses
  <2>2. CASE i <= Len(s)
    BY <1>1, <2>1, <2>2 DEF Responses
  <2>3. CASE i > Len(s)
    <3>1. i - Len(s) \in Responses(a, t)
      BY <1>1, <2>1, <2>3 DEF Responses
    <3>2. i = (i - Len(s)) + Len(s)
      BY <1>1, <2>1
    <3> QED BY <3>1, <3>2
  <2> QED BY <2>1, <2>2, <2>3, <1>1
<1>3. Responses(s, t) \cup M \subseteq Responses(s \o a, t)
  <2>1. ASSUME NEW i \in Responses(s, t)
        PROVE  i \in Responses(s \o a, t)
    BY <1>1 DEF Responses
  <2>2. ASSUME NEW k \in Responses(a, t)
        PROVE  k + Len(s) \in Responses(s \o a, t)
    <3>1. /\ k \in 1 .. Len(a) /\ k + Len(s) \in 1 .. Len(s) + Len(a)
          /\ ~(k + Len(s) <= Len(s)) /\ (k + Len(s)) - Len(s) = k
      BY <1>1 DEF Responses
    <3>2. (s \o a)[k + Len(s)] = a[k]
      BY <1>1, <3>1
    <3> QED BY <1>1, <3>1, <3>2 DEF Responses
  <2> QED BY <2>1, <2>2
<1>4. /\ IsFiniteSet(M) /\ Cardinality(M) = Cardinality(Responses(a, t))
      /\ Cardinality(M) \in Nat
  <2> DEFINE A == Responses(a, t)
  <2>1. A \in SUBSET Int /\ IsFiniteSet(A) /\ Cardinality(A) \in Nat
    BY ResponsesFinite
  <2>2. Len(s) \in Int
    BY <1>1
  <2> HIDE DEF A
  <2>3. /\ IsFiniteSet({k + Len(s) : k \in A})
        /\ Cardinality({k + Len(s) : k \in A}) = Cardinality(A)
    BY <2>1, <2>2, MovedPositions
  <2> QED BY <2>1, <2>3 DEF A
<1>5. Responses(s, t) \cap M = {}
  BY <1>1, ResponsesFinite
<1>6. Cardinality(Responses(s, t) \cup M) = Cardinality(Responses(s, t)) + Cardinality(M)
  <2> DEFINE R == Responses(s, t)
  <2>1. IsFiniteSet(R) /\ Cardinality(R) \in Nat
    BY ResponsesFinite
  <2>2. Cardinality(R \cap M) = 0
    BY <1>5, FS_EmptySet
  <2> HIDE DEF M, R
  <2>3. Cardinality(R \cup M) = Cardinality(R) + Cardinality(M) - Cardinality(R \cap M)
    BY <2>1, <1>4, FS_Union
  <2>4. Cardinality(R \cup M) = Cardinality(R) + Cardinality(M)
    BY <2>1, <2>2, <2>3, <1>4
  <2> QED BY <2>4 DEF R
<1> QED BY <1>2, <1>3, <1>4, <1>6

\* The answers after the first change of a list.
LEMMA ResponsesOfTail ==
    ASSUME NEW s \in Seq(Change), s # << >>, NEW t
    PROVE  /\ \A i \in Nat : i \in Responses(Tail(s), t) <=> i # 0 /\ i + 1 \in Responses(s, t)
           /\ Cardinality(Responses(Tail(s), t))
                = IF 1 \in Responses(s, t) THEN Cardinality(Responses(s, t)) - 1
                  ELSE Cardinality(Responses(s, t))
<1> DEFINE R == Responses(s, t) \ {1}
<1>1. /\ Len(s) \in Nat /\ DOMAIN s = 1 .. Len(s)
      /\ Len(Tail(s)) = Len(s) - 1 /\ DOMAIN Tail(s) = 1 .. Len(s) - 1
      /\ \A i \in 1 .. Len(s) - 1 : Tail(s)[i] = s[i + 1]
  BY HeadTailProperties
<1>2. ASSUME NEW i \in Nat
      PROVE  i \in Responses(Tail(s), t) <=> i # 0 /\ i + 1 \in Responses(s, t)
  <2>1. CASE i \in 1 .. Len(s) - 1
    BY <1>1, <2>1 DEF Responses
  <2>2. CASE i \notin 1 .. Len(s) - 1
    BY <1>1, <2>2 DEF Responses
  <2> QED BY <2>1, <2>2
<1>3. R = {k + 1 : k \in Responses(Tail(s), t)}
  <2>1. ASSUME NEW i \in R
        PROVE  i - 1 \in Responses(Tail(s), t) /\ i = (i - 1) + 1
    <3>1. i \in 1 .. Len(s) /\ i # 1 /\ i - 1 \in Nat /\ i - 1 # 0 /\ (i - 1) + 1 = i
      BY <1>1 DEF Responses
    <3> QED BY <3>1, <1>2
  <2>2. ASSUME NEW k \in Responses(Tail(s), t)
        PROVE  k + 1 \in R
    <3>1. k \in Nat
      BY <1>1 DEF Responses
    <3> QED BY <3>1, <1>2
  <2> QED BY <2>1, <2>2
<1>4. Responses(Tail(s), t) \in SUBSET Int /\ IsFiniteSet(Responses(Tail(s), t))
  <2>1. Tail(s) \in Seq(Change)
    BY HeadTailProperties
  <2>2. /\ Responses(Tail(s), t) \subseteq 1 .. Len(Tail(s))
        /\ IsFiniteSet(Responses(Tail(s), t))
    BY <2>1, ResponsesFinite
  <2> QED BY <2>2, <1>1
<1>5. Cardinality(R) = Cardinality(Responses(Tail(s), t))
  <2>1. 1 \in Int
    OBVIOUS
  <2> HIDE DEF R
  <2> QED BY <1>3, <1>4, <2>1, MovedPositions
<1>6. Cardinality(R) = IF 1 \in Responses(s, t) THEN Cardinality(Responses(s, t)) - 1
                       ELSE Cardinality(Responses(s, t))
  BY ResponsesFinite, FS_RemoveElement
<1> QED BY <1>2, <1>5, <1>6

\* The requests for a target that are left when the first is taken.
LEMMA AskedOfTail ==
    ASSUME WatchTypeOK, requests # << >>, requests' = Tail(requests), NEW t
    PROVE  /\ \A i \in Nat : i \in Asked(t)' <=> i # 0 /\ i + 1 \in Asked(t)
           /\ Cardinality(Asked(t)')
                = IF Head(requests).target = t THEN Cardinality(Asked(t)) - 1
                  ELSE Cardinality(Asked(t))
<1> DEFINE R == Asked(t) \ {1}
           A == Asked(t)'
<1>1. /\ Len(requests) \in Nat \ {0} /\ DOMAIN requests = 1 .. Len(requests)
      /\ requests' \in Seq(Request)
      /\ Len(requests') = Len(requests) - 1 /\ DOMAIN requests' = 1 .. Len(requests) - 1
      /\ \A i \in 1 .. Len(requests) - 1 : requests'[i] = requests[i + 1]
      /\ Head(requests) = requests[1]
  BY HeadTailProperties DEF WatchTypeOK
<1>2. ASSUME NEW i \in Nat
      PROVE  i \in A <=> i # 0 /\ i + 1 \in Asked(t)
  <2>1. CASE i \in 1 .. Len(requests) - 1
    BY <1>1, <2>1 DEF Asked
  <2>2. CASE i \notin 1 .. Len(requests) - 1
    BY <1>1, <2>2 DEF Asked
  <2> QED BY <2>1, <2>2
<1>3. A \in SUBSET (1 .. Len(requests) - 1) /\ Len(requests) - 1 \in Nat
  BY <1>1 DEF Asked
<1> HIDE DEF A
<1>4. R = {k + 1 : k \in A}
  <2>1. ASSUME NEW i \in R
        PROVE  i - 1 \in A /\ i = (i - 1) + 1
    <3>1. i \in 1 .. Len(requests) /\ i # 1 /\ i - 1 \in Nat /\ i - 1 # 0 /\ (i - 1) + 1 = i
      BY <1>1 DEF Asked
    <3> QED BY <3>1, <1>2
  <2>2. ASSUME NEW k \in A
        PROVE  k + 1 \in R
    BY <1>2, <1>3
  <2> QED BY <2>1, <2>2
<1>5. A \in SUBSET Int /\ IsFiniteSet(A)
  <2> DEFINE n == Len(requests) - 1
  <2>1. A \in SUBSET (1 .. n) /\ n \in Nat
    BY <1>3
  <2>2. A \in SUBSET Int
    BY <1>3
  <2> HIDE DEF n
  <2> QED BY <2>1, <2>2, PositionsFinite
<1>6. Cardinality(R) = Cardinality(A)
  <2>1. 1 \in Int
    OBVIOUS
  <2> HIDE DEF R
  <2> QED BY <1>4, <1>5, <2>1, MovedPositions
<1>7. 1 \in Asked(t) <=> Head(requests).target = t
  BY <1>1 DEF Asked
<1>8. Cardinality(R) = IF 1 \in Asked(t) THEN Cardinality(Asked(t)) - 1
                       ELSE Cardinality(Asked(t))
  BY AskedFinite, FS_RemoveElement
<1> QED BY <1>2, <1>6, <1>7, <1>8 DEF A

\* A request that is sent.
LEMMA AskedOfAppend ==
    ASSUME WatchTypeOK, NEW r \in Request, requests' = Append(requests, r), NEW t
    PROVE  /\ Asked(t)' = IF r.target = t THEN Asked(t) \cup {Len(requests) + 1} ELSE Asked(t)
           /\ Cardinality(Asked(t)')
                = IF r.target = t THEN Cardinality(Asked(t)) + 1 ELSE Cardinality(Asked(t))
<1>1. /\ Len(requests) \in Nat /\ DOMAIN requests = 1 .. Len(requests)
      /\ DOMAIN requests' = 1 .. Len(requests) + 1
      /\ \A i \in 1 .. Len(requests) : requests'[i] = requests[i]
      /\ requests'[Len(requests) + 1] = r
  BY DEF WatchTypeOK
<1>2. Asked(t)' = IF r.target = t THEN Asked(t) \cup {Len(requests) + 1} ELSE Asked(t)
  <2>1. ASSUME NEW i
        PROVE  i \in Asked(t)' <=> i \in Asked(t) \/ (r.target = t /\ i = Len(requests) + 1)
    BY <1>1 DEF Asked
  <2>2. CASE r.target = t
    BY <2>1, <2>2
  <2>3. CASE r.target # t
    BY <2>1, <2>3
  <2> QED BY <2>2, <2>3
<1>3. Len(requests) + 1 \notin Asked(t)
  BY <1>1, AskedFinite
<1>4. Cardinality(Asked(t) \cup {Len(requests) + 1}) = Cardinality(Asked(t)) + 1
  BY <1>3, AskedFinite, FS_AddElement
<1> QED BY <1>2, <1>4

-----------------------------------------------------------------------------
\* The aggregator.

\* What the aggregator holds after each of the first n changes of a list.
Walk(list, n, g) ==
    /\ DOMAIN g = 0 .. n
    /\ g[0] = Unchanged
    /\ \A i \in 1 .. n : g[i] = AddWatchChange(g[i - 1], list[i])

\* There is such a walk.
LEMMA WalkExists ==
    ASSUME NEW n \in Nat, NEW list
    PROVE  \E g : Walk(list, n, g)
<1> DEFINE P == {i \in 0 .. n : \E g : Walk(list, i, g)}
<1>1. 0 \in P
  <2> DEFINE g == [i \in 0 .. 0 |-> Unchanged]
  <2>1. Walk(list, 0, g)
    BY DEF Walk
  <2> QED BY <2>1
<1>2. ASSUME NEW m \in 1 .. n, m - 1 \in P
      PROVE  m \in P
  <2>1. PICK g : Walk(list, m - 1, g)
    BY <1>2
  <2> DEFINE h == [i \in 0 .. m |-> IF i = m THEN AddWatchChange(g[m - 1], list[m]) ELSE g[i]]
  <2>2. m \in Int /\ m - 1 \in 0 .. m - 1
    OBVIOUS
  <2>3. h[0] = Unchanged
    BY <2>1, <2>2 DEF Walk
  <2>4. ASSUME NEW i \in 1 .. m
        PROVE  h[i] = AddWatchChange(h[i - 1], list[i])
    <3>1. h[i - 1] = g[i - 1]
      BY <2>2
    <3>2. CASE i = m
      BY <3>1, <3>2
    <3>3. CASE i # m
      <4>1. i \in 1 .. m - 1
        BY <2>2, <3>3
      <4>2. g[i] = AddWatchChange(g[i - 1], list[i])
        BY <2>1, <4>1 DEF Walk
      <4>3. h[i] = g[i]
        BY <3>3
      <4> QED BY <3>1, <4>2, <4>3
    <3> QED BY <3>2, <3>3
  <2>5. Walk(list, m, h)
    BY <2>3, <2>4 DEF Walk
  <2> QED BY <2>5
<1>3. \A i \in 0 .. n : i \in P
  <2> HIDE DEF P
  <2> QED BY <1>1, <1>2, LeastOutside
<1> QED BY <1>3

\* The aggregator ends where its walk over the whole list ends.
LEMMA AggregateWalks ==
    ASSUME NEW list, Len(list) \in Nat
    PROVE  \E g : Walk(list, Len(list), g) /\ Aggregate(list) = g[Len(list)]
<1> DEFINE n == Len(list)
           Rec(g) == g = [i \in 0 .. n |-> IF i = 0 THEN Unchanged
                                           ELSE AddWatchChange(g[i - 1], list[i])]
           f == CHOOSE g : Rec(g)
<1>1. PICK g : Walk(list, n, g)
  BY WalkExists
<1>2. Rec([i \in 0 .. n |-> g[i]])
  <2> DEFINE h == [i \in 0 .. n |-> g[i]]
  <2>1. ASSUME NEW i \in 0 .. n
        PROVE  h[i] = IF i = 0 THEN Unchanged ELSE AddWatchChange(h[i - 1], list[i])
    <3>1. CASE i = 0
      BY <1>1, <3>1 DEF Walk
    <3>2. CASE i # 0
      <4>1. i \in 1 .. n /\ i - 1 \in 0 .. n
        BY <3>2
      <4>2. g[i] = AddWatchChange(g[i - 1], list[i])
        BY <1>1, <4>1 DEF Walk
      <4>3. h[i] = g[i] /\ h[i - 1] = g[i - 1]
        BY <4>1
      <4> QED BY <3>2, <4>2, <4>3
    <3> QED BY <3>1, <3>2
  <2>2. h = [i \in 0 .. n |-> IF i = 0 THEN Unchanged ELSE AddWatchChange(h[i - 1], list[i])]
    <3> HIDE DEF h
    <3>1. h = [i \in 0 .. n |-> h[i]]
      BY DEF h
    <3> QED BY <2>1, <3>1
  <2> QED BY <2>2
<1>3. Rec(f)
  <2> HIDE DEF Rec
  <2> QED BY <1>2
<1>4. Aggregate(list) = f[n]
  BY DEF Aggregate
<1> HIDE DEF f
<1>5. f[0] = Unchanged /\ \A i \in 1 .. n : f[i] = AddWatchChange(f[i - 1], list[i])
  <2>1. \A i \in 0 .. n :
          f[i] = IF i = 0 THEN Unchanged ELSE AddWatchChange(f[i - 1], list[i])
    BY <1>3
  <2>2. 0 \in 0 .. n /\ \A i \in 1 .. n : i \in 0 .. n /\ i # 0
    OBVIOUS
  <2> QED BY <2>1, <2>2
<1>6. DOMAIN f = 0 .. n
  BY <1>3
<1>7. Walk(list, n, f)
  BY <1>5, <1>6 DEF Walk
<1> QED BY <1>4, <1>7

\* What the aggregator holds.
AggregateType == [count : [Targets -> Int], given : [Targets -> SUBSET Nat],
                  current : SUBSET Targets]

\* Whether a change answers a request for t.
IsResponse(c, t) == c.type \in {"added", "removed"} /\ c.target = t

\* The fields of a change.
LEMMA ChangeFields ==
    ASSUME NEW c \in Change
    PROVE  /\ c.type \in {"added", "removed", "refused", "document", "current", "snapshot"}
           /\ c.type # "snapshot" => c.target \in Targets /\ c.listen \in Nat
           /\ c.type = "snapshot" => c.version \in 1 .. MaxVersion
BY DEF Change

\* One change: an answer to a request lowers its count, and only a target that
\* is active is given anything.
LEMMA OneChange ==
    ASSUME NEW a \in AggregateType, NEW c \in Change
    PROVE  /\ AddWatchChange(a, c) \in AggregateType
           /\ \A t \in Targets :
                AddWatchChange(a, c).count[t]
                  = IF IsResponse(c, t) THEN a.count[t] - 1 ELSE a.count[t]
           /\ \A t \in Targets : \A k \in AddWatchChange(a, c).given[t] :
                \/ k \in a.given[t]
                \/ IsAnswer(c) /\ c.target = t /\ IsActive(a.count, t) /\ k = c.listen
<1> DEFINE b == AddWatchChange(a, c)
<1>0. /\ a.count \in [Targets -> Int] /\ a.given \in [Targets -> SUBSET Nat]
      /\ a.current \in SUBSET Targets
      /\ a = [count |-> a.count, given |-> a.given, current |-> a.current]
  BY DEF AggregateType
<1>1. CASE c.type = "added"
  <2>1. c.target \in Targets
    BY <1>1, ChangeFields
  <2> DEFINE count == [a.count EXCEPT ![c.target] = @ - 1]
             given == [a.given EXCEPT ![c.target] =
                         IF count[c.target] = 0 THEN {} ELSE a.given[c.target]]
  <2>2. /\ b.count = count /\ b.given = given /\ b.current \in SUBSET Targets
        /\ b = [count |-> b.count, given |-> b.given, current |-> b.current]
    BY <1>0, <1>1, <2>1 DEF AddWatchChange
  <2>3. count \in [Targets -> Int] /\ given \in [Targets -> SUBSET Nat]
    BY <1>0, <2>1
  <2>4. b \in AggregateType
    <3> HIDE DEF b, count, given
    <3> QED BY <2>2, <2>3 DEF AggregateType
  <2>5. \A t \in Targets :
          b.count[t] = IF IsResponse(c, t) THEN a.count[t] - 1 ELSE a.count[t]
    <3> HIDE DEF b
    <3> QED BY <1>0, <1>1, <2>1, <2>2 DEF IsResponse
  <2>6. \A t \in Targets : b.given[t] \subseteq a.given[t]
    <3> HIDE DEF b
    <3> QED BY <1>0, <2>1, <2>2
  <2> QED BY <2>4, <2>5, <2>6
<1>2. CASE c.type = "removed"
  <2>1. c.target \in Targets
    BY <1>2, ChangeFields
  <2> DEFINE count == [a.count EXCEPT ![c.target] = @ - 1]
  <2>2. b = [count |-> count, given |-> a.given, current |-> a.current]
    BY <1>0, <1>2, <2>1 DEF AddWatchChange
  <2>3. count \in [Targets -> Int]
    BY <1>0, <2>1
  <2>4. b \in AggregateType
    BY <1>0, <2>2, <2>3 DEF AggregateType
  <2>5. \A t \in Targets :
          b.count[t] = IF IsResponse(c, t) THEN a.count[t] - 1 ELSE a.count[t]
    BY <1>0, <1>2, <2>1, <2>2 DEF IsResponse
  <2> QED BY <2>2, <2>4, <2>5
<1>3. CASE IsAnswer(c) /\ IsActive(a.count, c.target)
  <2>1. c.target \in Targets /\ c.listen \in Nat /\ c.type \in {"document", "current"}
    BY <1>3, ChangeFields DEF IsAnswer
  <2> DEFINE given == [a.given EXCEPT ![c.target] = @ \cup {c.listen}]
  <2>2. /\ b.count = a.count /\ b.given = given /\ b.current \in SUBSET Targets
        /\ b = [count |-> b.count, given |-> b.given, current |-> b.current]
    BY <1>0, <1>3, <2>1 DEF AddWatchChange
  <2>3. given \in [Targets -> SUBSET Nat]
    BY <1>0, <2>1
  <2>4. b \in AggregateType
    <3> HIDE DEF b, given
    <3> QED BY <1>0, <2>2, <2>3 DEF AggregateType
  <2>5. \A t \in Targets : ~IsResponse(c, t)
    BY <2>1 DEF IsResponse
  <2>6. \A t \in Targets : given[t] = IF t = c.target THEN a.given[t] \cup {c.listen}
                                      ELSE a.given[t]
    BY <1>0, <2>1
  <2> HIDE DEF b, given
  <2> QED BY <1>3, <2>2, <2>4, <2>5, <2>6 DEF b
<1>4. CASE /\ c.type # "added" /\ c.type # "removed"
           /\ ~(IsAnswer(c) /\ IsActive(a.count, c.target))
  <2>1. b = a
    BY <1>4 DEF AddWatchChange, IsAnswer
  <2>2. \A t \in Targets : ~IsResponse(c, t)
    BY <1>4 DEF IsResponse
  <2> QED BY <2>1, <2>2
<1> QED BY <1>1, <1>2, <1>3, <1>4

\* The answers for t among the first n changes of a list.
Taken(list, t, n) == {i \in Responses(list, t) : i <= n}

\* One more of them.
LEMMA TakenNext ==
    ASSUME NEW list \in Seq(Change), NEW t, NEW n \in 1 .. Len(list)
    PROVE  /\ Cardinality(Taken(list, t, n))
                = Cardinality(Taken(list, t, n - 1))
                  + (IF IsResponse(list[n], t) THEN 1 ELSE 0)
           /\ Cardinality(Taken(list, t, n - 1)) \in Nat
<1>1. Len(list) \in Nat /\ DOMAIN list = 1 .. Len(list)
  OBVIOUS
<1>2. Taken(list, t, n - 1) \in SUBSET (1 .. Len(list))
  BY ResponsesFinite DEF Taken
<1>3. IsFiniteSet(Taken(list, t, n - 1)) /\ Cardinality(Taken(list, t, n - 1)) \in Nat
  BY <1>1, <1>2, PositionsFinite
<1>4. CASE IsResponse(list[n], t)
  <2>1. Taken(list, t, n) = Taken(list, t, n - 1) \cup {n} /\ n \notin Taken(list, t, n - 1)
    BY <1>1, <1>4 DEF Taken, Responses, IsResponse
  <2> QED BY <1>3, <1>4, <2>1, FS_AddElement
<1>5. CASE ~IsResponse(list[n], t)
  <2>1. Taken(list, t, n) = Taken(list, t, n - 1)
    BY <1>1, <1>5 DEF Taken, Responses, IsResponse
  <2> QED BY <1>3, <1>5, <2>1
<1> QED BY <1>4, <1>5

\* At a snapshot the aggregator has counted down to what is still unanswered,
\* and each listen was only given its own changes: where a count was 0, no
\* answer for the target followed in the list, on the stream or at the server.
LEMMA AggregateFacts ==
    ASSUME Inv, NEW c \in Change, c.type = "snapshot"
    PROVE  LET a == Aggregate(Append(accumulated, c))
           IN  /\ a \in AggregateType
               /\ \A t \in Targets :
                    /\ a.count[t] = Cardinality(Asked(t)) + Cardinality(Responses(changes, t))
                    /\ listenTargets[t] # None => a.given[t] \subseteq {listenTargets[t]}
<1> DEFINE list == Append(accumulated, c)
           n == Len(list)
<1>1. /\ accumulated \in Seq(Change) /\ changes \in Seq(Change)
      /\ pendingTargetResponses \in [Targets -> Nat]
      /\ list \in Seq(Change) /\ n = Len(accumulated) + 1 /\ n \in Nat /\ Len(accumulated) \in Nat
      /\ DOMAIN list = 1 .. n /\ DOMAIN accumulated = 1 .. Len(accumulated)
      /\ \A i \in 1 .. Len(accumulated) : list[i] = accumulated[i]
      /\ list[n] = c
  BY DEF Inv, WatchTypeOK
<1> HIDE DEF list, n
<1>2. \A t \in Targets : Responses(list, t) = Responses(accumulated, t)
  <2> TAKE t \in Targets
  <2>1. ASSUME NEW i
        PROVE  i \in Responses(list, t) <=> i \in Responses(accumulated, t)
    <3>1. CASE i \in 1 .. Len(accumulated)
      BY <1>1, <3>1 DEF Responses
    <3>2. CASE i = n
      BY <1>1, <3>2 DEF Responses
    <3>3. CASE i \notin 1 .. n
      BY <1>1, <3>3 DEF Responses
    <3> QED BY <1>1, <3>1, <3>2, <3>3
  <2> QED BY <2>1
<1>3. PICK g : Walk(list, n, g) /\ Aggregate(list) = g[n]
  <2>1. Len(list) \in Nat
    BY <1>1 DEF n
  <2> QED BY <2>1, AggregateWalks DEF n
<1> DEFINE Good(a, m) ==
             /\ a \in AggregateType
             /\ \A t \in Targets :
                  /\ a.count[t] + Cardinality(Taken(list, t, m)) = pendingTargetResponses[t]
                  /\ listenTargets[t] # None => a.given[t] \subseteq {listenTargets[t]}
           P == {m \in 0 .. n : Good(g[m], m)}
<1>4. \A t \in Targets :
         /\ Cardinality(Asked(t)) \in Nat /\ Cardinality(Responses(changes, t)) \in Nat
         /\ Cardinality(Responses(list, t)) \in Nat
         /\ pendingTargetResponses[t] = Cardinality(Asked(t)) + Cardinality(Responses(changes, t))
                                        + Cardinality(Responses(list, t))
  <2> TAKE t \in Targets
  <2>1. WatchTypeOK /\ pendingTargetResponses[t] = Unanswered(t)
    BY DEF Inv, Counted
  <2>2. Cardinality(Asked(t)) \in Nat
    BY <2>1, AskedFinite
  <2>3. Cardinality(Responses(changes, t)) \in Nat /\ Cardinality(Responses(list, t)) \in Nat
    BY <1>1, ResponsesFinite
  <2> QED BY <1>2, <2>1, <2>2, <2>3 DEF Unanswered
<1>5. 0 \in P
  <2>1. g[0] = Unchanged
    BY <1>3 DEF Walk
  <2>2. Unchanged \in AggregateType
    BY <1>1 DEF Unchanged, AggregateType
  <2>3. ASSUME NEW t \in Targets
        PROVE  /\ Unchanged.count[t] + Cardinality(Taken(list, t, 0)) = pendingTargetResponses[t]
               /\ Unchanged.given[t] = {}
    <3>1. Taken(list, t, 0) = {}
      BY <1>1, ResponsesFinite DEF Taken
    <3>2. Cardinality(Taken(list, t, 0)) = 0
      BY <3>1, FS_EmptySet
    <3> QED BY <1>1, <3>2 DEF Unchanged
  <2> QED BY <1>1, <2>1, <2>2, <2>3
<1>6. ASSUME NEW m \in 1 .. n, m - 1 \in P
      PROVE  m \in P
  <2> DEFINE a == g[m - 1]
             d == list[m]
  <2>1. g[m] = AddWatchChange(a, d) /\ d \in Change
    BY <1>1, <1>3 DEF Walk
  <2>2. Good(a, m - 1)
    BY <1>6
  <2>3. /\ g[m] \in AggregateType
        /\ \A t \in Targets :
             g[m].count[t] = IF IsResponse(d, t) THEN a.count[t] - 1 ELSE a.count[t]
        /\ \A t \in Targets : \A k \in g[m].given[t] :
             \/ k \in a.given[t]
             \/ IsAnswer(d) /\ d.target = t /\ IsActive(a.count, t) /\ k = d.listen
    <3> HIDE DEF a, d
    <3> QED BY <2>1, <2>2, OneChange
  <2>4. ASSUME NEW t \in Targets
        PROVE  g[m].count[t] + Cardinality(Taken(list, t, m)) = pendingTargetResponses[t]
    <3>1. /\ Cardinality(Taken(list, t, m))
               = Cardinality(Taken(list, t, m - 1)) + (IF IsResponse(d, t) THEN 1 ELSE 0)
          /\ Cardinality(Taken(list, t, m - 1)) \in Nat
      <4>1. m \in 1 .. Len(list)
        BY DEF n
      <4> QED BY <1>1, <4>1, TakenNext
    <3>2. a.count[t] \in Int /\ pendingTargetResponses[t] \in Nat
      BY <1>1, <2>2 DEF AggregateType
    <3>3. a.count[t] + Cardinality(Taken(list, t, m - 1)) = pendingTargetResponses[t]
      BY <2>2
    <3> HIDE DEF a, d
    <3> QED BY <2>3, <3>1, <3>2, <3>3
  <2>5. ASSUME NEW t \in Targets, listenTargets[t] # None, NEW k \in g[m].given[t]
        PROVE  k = listenTargets[t]
    <3>1. CASE k \in a.given[t]
      BY <2>2, <2>5, <3>1
    <3>2. CASE IsAnswer(d) /\ d.target = t /\ IsActive(a.count, t) /\ k = d.listen
      <4>1. a.count[t] = 0
        BY <3>2 DEF IsActive
      <4> DEFINE T == Taken(list, t, m - 1)
                 R == Responses(list, t)
      <4>2. Cardinality(T) = pendingTargetResponses[t] /\ Cardinality(T) \in Nat
        <5>1. a.count[t] + Cardinality(T) = pendingTargetResponses[t]
          BY <2>2
        <5>2. pendingTargetResponses[t] \in Nat
          BY <1>1
        <5>3. Cardinality(T) \in Nat
          <6>1. m \in 1 .. Len(list)
            BY DEF n
          <6> QED BY <1>1, <6>1, TakenNext
        <5> HIDE DEF T
        <5> QED BY <4>1, <5>1, <5>2, <5>3
      <4>3. T \in SUBSET R /\ IsFiniteSet(R)
        BY <1>1, ResponsesFinite DEF Taken
      <4>4. /\ Cardinality(T) <= Cardinality(R)
            /\ Cardinality(R) = Cardinality(T) => R = T
        <5> HIDE DEF T, R
        <5> QED BY <4>3, FS_Subset
      <4>5. /\ Cardinality(Asked(t)) = 0 /\ Cardinality(Responses(changes, t)) = 0
            /\ R = T
        <5> HIDE DEF T
        <5> QED BY <1>4, <4>2, <4>4
      <4>6. Asked(t) = {} /\ Responses(changes, t) = {}
        <5>1. IsFiniteSet(Asked(t)) /\ IsFiniteSet(Responses(changes, t))
          BY <1>1, AskedFinite, ResponsesFinite DEF Inv
        <5> QED BY <4>5, <5>1, FS_EmptySet
      <4>7. m \in 1 .. Len(accumulated) /\ accumulated[m] = d
        <5>1. m # n
          BY <1>1, <3>2 DEF IsAnswer
        <5> QED BY <1>1, <5>1
      <4>8. \A j \in Responses(accumulated, t) : j <= m
        BY <1>1, <1>2, <4>5 DEF Taken, Responses
      <4>9. Agrees(t, d.listen)
        BY <1>1, <3>2, <4>6, <4>7, <4>8 DEF Inv, KeptForListen
      <4> QED BY <2>5, <3>2, <4>9 DEF Agrees
    <3> QED BY <2>3, <3>1, <3>2
  <2> QED BY <2>3, <2>4, <2>5
<1>7. \A m \in 0 .. n : m \in P
  <2> HIDE DEF P
  <2> QED BY <1>1, <1>5, <1>6, LeastOutside
<1>8. Good(g[n], n)
  BY <1>1, <1>7
<1>9. ASSUME NEW t \in Targets
      PROVE  g[n].count[t] = Cardinality(Asked(t)) + Cardinality(Responses(changes, t))
  <2>1. Taken(list, t, n) = Responses(list, t)
    BY <1>1 DEF Taken, Responses
  <2>2. g[n].count[t] \in Int
    BY <1>8 DEF AggregateType
  <2>3. g[n].count[t] + Cardinality(Responses(list, t)) = pendingTargetResponses[t]
    BY <1>8, <2>1
  <2> QED BY <1>4, <2>2, <2>3
<1> QED BY <1>3, <1>8, <1>9 DEF list

-----------------------------------------------------------------------------
\* At first nothing is listened to and nothing is under way.
LEMMA InvInit == Init => Inv
<1> SUFFICES ASSUME Init PROVE Inv
  OBVIOUS
<1>1. WatchTypeOK
  BY WatchAssumption DEF Init, WatchTypeOK, Listens, None
<1>2. \A t : Asked(t) = {} /\ Responses(changes, t) = {} /\ Responses(accumulated, t) = {}
  BY DEF Init, Asked, Responses
<1>3. Counted
  <2> SUFFICES ASSUME NEW t \in Targets PROVE pendingTargetResponses[t] = Unanswered(t)
    BY DEF Counted
  <2>1. Cardinality(Asked(t)) = 0 /\ Cardinality(Responses(changes, t)) = 0
        /\ Cardinality(Responses(accumulated, t)) = 0
    BY <1>2, FS_EmptySet
  <2> QED BY <2>1 DEF Init, Unanswered
<1>4. ClosedIsEmpty /\ ListensKnown /\ LastRequest /\ ServesListen
  BY DEF Init, ClosedIsEmpty, ListensKnown, LastRequest, ServesListen, None
<1>5. SentForListen /\ KeptForListen /\ OwnChangesOnly
  BY DEF Init, SentForListen, KeptForListen, OwnChangesOnly, Listens
<1> QED BY <1>1, <1>3, <1>4, <1>5 DEF Inv

-----------------------------------------------------------------------------
\* The client.

\* What is spent stays a number.
LEMMA SpendTyped ==
    ASSUME WatchTypeOK, NEW e \in Event, Spend(e)
    PROVE  budget' \in [Event -> Nat]
BY DEF WatchTypeOK, Spend

\* A closed stream counts nothing.
LEMMA ClosedCounts ==
    ASSUME Inv, stream # "open"
    PROVE  /\ \A t \in Targets : pendingTargetResponses[t] = 0
           /\ \A t : Asked(t) = {} /\ Responses(changes, t) = {}
                     /\ Responses(accumulated, t) = {}
<1>1. \A t : Asked(t) = {} /\ Responses(changes, t) = {} /\ Responses(accumulated, t) = {}
  BY DEF Inv, ClosedIsEmpty, Asked, Responses
<1>2. ASSUME NEW t \in Targets
      PROVE  pendingTargetResponses[t] = 0
  <2>1. pendingTargetResponses[t] = Unanswered(t)
    BY DEF Inv, Counted
  <2> QED BY <1>1, <2>1, FS_EmptySet DEF Unanswered
<1> QED BY <1>1, <1>2

\* Listening and stopping send a request of the target, if the stream is open;
\* it is the last, and later than all that was sent before.
LEMMA RequestSent ==
    ASSUME Inv, stream = "open", stream' = "open", NEW r \in Request,
           requests' = Append(requests, r),
           pendingTargetResponses' = [pendingTargetResponses EXCEPT ![r.target] = @ + 1],
           UNCHANGED <<accumulated, changes, serving>>,
           \A t \in Targets : t # r.target => listenTargets'[t] = listenTargets[t],
           Len(fate') \in Nat, Len(fate) <= Len(fate'),
           r.op = "watch" => r.listen \in Listens',
           \/ listenTargets'[r.target] = None
           \/ r.op = "watch" /\ r.listen = listenTargets'[r.target]
    PROVE  /\ Counted' /\ ListensKnown' /\ LastRequest' /\ ServesListen'
           /\ SentForListen' /\ KeptForListen' /\ ClosedIsEmpty'
<1> DEFINE u == r.target
           n == Len(requests) + 1
<1>0. /\ WatchTypeOK /\ u \in Targets
      /\ Len(requests) \in Nat /\ DOMAIN requests = 1 .. Len(requests)
      /\ DOMAIN requests' = 1 .. n
      /\ \A i \in 1 .. Len(requests) : requests'[i] = requests[i] /\ requests[i] \in Request
      /\ requests'[n] = r
      /\ pendingTargetResponses \in [Targets -> Nat]
  <2>1. WatchTypeOK /\ requests \in Seq(Request) /\ u \in Targets
        /\ pendingTargetResponses \in [Targets -> Nat]
    BY DEF Inv, WatchTypeOK, Request
  <2> HIDE DEF u
  <2> QED BY <2>1
<1>1. \A t : Asked(t)' = IF u = t THEN Asked(t) \cup {n} ELSE Asked(t)
  BY <1>0, AskedOfAppend
<1>2. \A t : Cardinality(Asked(t)')
               = IF u = t THEN Cardinality(Asked(t)) + 1 ELSE Cardinality(Asked(t))
  BY <1>0, AskedOfAppend
<1>3. \A t : /\ Responses(changes, t)' = Responses(changes, t)
             /\ Responses(accumulated, t)' = Responses(accumulated, t)
  BY DEF Responses
<1>4. \A i \in 1 .. Len(requests) : requests[i].target \in Targets
  BY <1>0 DEF Request
<1> HIDE DEF u, n
<1>5. Counted'
  <2> SUFFICES ASSUME NEW t \in Targets
               PROVE  pendingTargetResponses'[t] = Unanswered(t)'
    BY DEF Counted
  <2>1. pendingTargetResponses[t] = Unanswered(t)
    BY DEF Inv, Counted
  <2>2. pendingTargetResponses'[t]
          = IF u = t THEN pendingTargetResponses[t] + 1 ELSE pendingTargetResponses[t]
    BY <1>0 DEF u
  <2>3. /\ Cardinality(Asked(t)) \in Nat
        /\ Cardinality(Responses(changes, t)) \in Nat
        /\ Cardinality(Responses(accumulated, t)) \in Nat
    BY <1>0, AskedFinite, ResponsesFinite DEF WatchTypeOK
  <2>4. Unanswered(t)' = Cardinality(Asked(t)') + Cardinality(Responses(changes, t))
                           + Cardinality(Responses(accumulated, t))
    BY <1>3 DEF Unanswered
  <2>5. Unanswered(t) = Cardinality(Asked(t)) + Cardinality(Responses(changes, t))
                           + Cardinality(Responses(accumulated, t))
    BY DEF Unanswered
  <2> QED BY <1>2, <2>1, <2>2, <2>3, <2>4, <2>5
<1>6. ListensKnown'
  <2> SUFFICES ASSUME NEW i \in DOMAIN requests', requests'[i].op = "watch"
               PROVE  requests'[i].listen \in Listens'
    BY DEF ListensKnown
  <2>1. CASE i = n
    BY <1>0, <2>1
  <2>2. CASE i # n
    <3>1. i \in 1 .. Len(requests) /\ requests'[i] = requests[i]
      BY <1>0, <2>2 DEF n
    <3>2. requests[i].listen \in Listens
      BY <1>0, <3>1 DEF Inv, ListensKnown
    <3>3. Len(fate) \in Nat
      BY DEF Inv, WatchTypeOK
    <3> QED BY <3>1, <3>2, <3>3 DEF Listens
  <2> QED BY <2>1, <2>2
<1>7. LastRequest'
  <2> SUFFICES ASSUME NEW i \in DOMAIN requests',
                      \A j \in DOMAIN requests' :
                        requests'[j].target = requests'[i].target => j <= i
               PROVE  \/ listenTargets'[requests'[i].target] = None
                      \/ /\ requests'[i].op = "watch"
                         /\ requests'[i].listen = listenTargets'[requests'[i].target]
    BY DEF LastRequest
  <2>1. CASE i = n
    BY <1>0, <2>1 DEF u
  <2>2. CASE i # n
    <3>1. i \in 1 .. Len(requests) /\ requests'[i] = requests[i] /\ n \in DOMAIN requests'
          /\ ~(n <= i)
      BY <1>0, <2>2 DEF n
    <3>2. requests[i].target # u
      BY <1>0, <3>1 DEF u
    <3>3. \A j \in DOMAIN requests : requests[j].target = requests[i].target => j <= i
      BY <1>0, <3>1 DEF n
    <3> QED BY <1>0, <1>4, <3>1, <3>2, <3>3 DEF Inv, LastRequest, u
  <2> QED BY <2>1, <2>2
<1>8. ASSUME NEW t \in Targets, Asked(t)' = {}
      PROVE  Asked(t) = {} /\ listenTargets'[t] = listenTargets[t]
  BY <1>1, <1>8 DEF u
<1>9. ServesListen'
  BY <1>8 DEF Inv, ServesListen, Agrees, Refused
<1>10. \A c \in Change : IsAnswer(c) => c.target \in Targets
  BY ChangeFields DEF IsAnswer
<1>11. SentForListen'
  <2>1. \A i \in DOMAIN changes : changes[i] \in Change
    BY <1>0 DEF WatchTypeOK
  <2> QED BY <1>3, <1>8, <1>10, <2>1 DEF Inv, SentForListen, Agrees
<1>12. KeptForListen'
  <2>1. \A i \in DOMAIN accumulated : accumulated[i] \in Change
    BY <1>0 DEF WatchTypeOK
  <2> QED BY <1>3, <1>8, <1>10, <2>1 DEF Inv, KeptForListen, Agrees
<1>13. ClosedIsEmpty'
  BY DEF ClosedIsEmpty
<1> QED BY <1>5, <1>6, <1>7, <1>9, <1>11, <1>12, <1>13

\* While the stream is closed only what is listened to changes.
LEMMA NothingSent ==
    ASSUME Inv, stream # "open", stream' # "open",
           UNCHANGED <<pendingTargetResponses, requests, accumulated, changes, serving, due>>
    PROVE  /\ Counted' /\ ListensKnown' /\ LastRequest' /\ ServesListen'
           /\ SentForListen' /\ KeptForListen' /\ ClosedIsEmpty'
<1>1. ClosedIsEmpty /\ ClosedIsEmpty'
  BY DEF Inv, ClosedIsEmpty
<1>2. Counted'
  BY DEF Inv, Counted, Unanswered, Asked, Responses
<1>3. ListensKnown' /\ LastRequest'
  BY <1>1 DEF ClosedIsEmpty, ListensKnown, LastRequest
<1>4. ServesListen'
  BY <1>1 DEF ClosedIsEmpty, ServesListen
<1>5. SentForListen' /\ KeptForListen'
  BY <1>1 DEF ClosedIsEmpty, SentForListen, KeptForListen
<1> QED BY <1>1, <1>2, <1>3, <1>4, <1>5

\* A query is started.
LEMMA ListenStep ==
    ASSUME Inv, NEW t \in Targets, ListenToTarget(t)
    PROVE  Inv'
<1> DEFINE n == Len(fate) + 1
           r == [op |-> "watch", target |-> t, listen |-> n]
<1>1. /\ WatchTypeOK /\ Len(fate) \in Nat
      /\ fate' = Append(fate, "waiting") /\ heard' = Append(heard, {})
      /\ listenTargets' = [listenTargets EXCEPT ![t] = n]
      /\ UNCHANGED <<accumulated, remoteVersion, changes, serving, due, sent>>
  BY DEF Inv, WatchTypeOK, ListenToTarget
<1>2. /\ Len(fate') = n /\ Listens' = Listens \cup {n} /\ n \in Nat /\ n \in Listens'
      /\ fate' \in Seq({"waiting", "answered", "stopped", "refused"})
  BY <1>1, SMTT(30) DEF Listens, WatchTypeOK
<1>3. r \in Request
  BY <1>2 DEF Request
<1>4. /\ heard' \in [Listens' -> SUBSET Listens']
      /\ heard'[n] = {} /\ \A m \in Listens : heard'[m] = heard[m]
  <2>1. heard \in Seq(SUBSET Listens) /\ Len(heard) = Len(fate)
    <3>1. heard \in [1 .. Len(fate) -> SUBSET Listens]
      BY <1>1 DEF WatchTypeOK, Listens
    <3> QED BY <1>1, <3>1
  <2>2. /\ DOMAIN heard' = 1 .. Len(fate) + 1 /\ heard'[n] = {}
        /\ \A m \in 1 .. Len(fate) : heard'[m] = heard[m]
        /\ heard' = [m \in 1 .. Len(fate) + 1 |-> heard'[m]]
    <3>1. {} \in SUBSET Listens
      OBVIOUS
    <3> DEFINE S == SUBSET Listens
    <3>2. heard \in Seq(S) /\ {} \in S
      BY <2>1, <3>1
    <3> HIDE DEF S
    <3>3. /\ heard' \in Seq(S) /\ Len(heard') = Len(fate) + 1
          /\ \A m \in 1 .. Len(fate) : heard'[m] = heard[m]
          /\ heard'[Len(fate) + 1] = {}
      BY <1>1, <2>1, <3>2
    <3>4. heard' \in [1 .. Len(heard') -> S] /\ DOMAIN heard' = 1 .. Len(heard')
      BY <3>3
    <3> QED BY <1>1, <3>3, <3>4
  <2>3. \A m \in Listens' : heard'[m] \in SUBSET Listens'
    BY <1>1, <1>2, <2>2 DEF WatchTypeOK, Listens
  <2> QED BY <1>2, <2>2, <2>3 DEF Listens
<1>5. OwnChangesOnly'
  BY <1>2, <1>4 DEF Inv, OwnChangesOnly
<1>6. /\ listenTargets' \in [Targets -> {None} \cup Listens']
      /\ serving' \in [Targets -> {None} \cup Listens'] /\ due' \subseteq Listens'
  BY <1>1, <1>2 DEF WatchTypeOK
<1>7. budget' \in [Event -> Nat]
  BY <1>1, SpendTyped DEF ListenToTarget, Event
<1>8. CASE stream = "open"
  <2>1. /\ requests' = Append(requests, r) /\ stream' = "open" /\ idleTimer' = "off"
        /\ pendingTargetResponses' = [pendingTargetResponses EXCEPT ![t] = @ + 1]
    BY <1>8 DEF ListenToTarget
  <2>2. WatchTypeOK'
    BY <1>1, <1>2, <1>3, <1>4, <1>6, <1>7, <2>1, SMTT(30) DEF WatchTypeOK
  <2>3. /\ r.target = t /\ r.op = "watch" /\ r.listen = n /\ listenTargets'[t] = n
        /\ \A u \in Targets : u # t => listenTargets'[u] = listenTargets[u]
    BY <1>1 DEF WatchTypeOK
  <2> HIDE DEF r, n
  <2>4. /\ Counted' /\ ListensKnown' /\ LastRequest' /\ ServesListen'
        /\ SentForListen' /\ KeptForListen' /\ ClosedIsEmpty'
    <3>1. Len(fate') \in Nat /\ Len(fate) <= Len(fate')
      BY <1>1, <1>2 DEF n
    <3> QED BY <1>1, <1>2, <1>3, <1>8, <2>1, <2>3, <3>1, RequestSent
  <2> QED BY <1>5, <2>2, <2>4 DEF Inv
<1>9. CASE stream # "open"
  <2>1. /\ stream' = "starting" /\ UNCHANGED <<pendingTargetResponses, requests, idleTimer>>
    BY <1>9 DEF ListenToTarget
  <2>2. WatchTypeOK'
    BY <1>1, <1>2, <1>4, <1>6, <1>7, <2>1 DEF WatchTypeOK
  <2>3. /\ Counted' /\ ListensKnown' /\ LastRequest' /\ ServesListen'
        /\ SentForListen' /\ KeptForListen' /\ ClosedIsEmpty'
    BY <1>1, <1>9, <2>1, NothingSent
  <2> QED BY <1>5, <2>2, <2>3 DEF Inv
<1> QED BY <1>8, <1>9

\* A query is stopped.
LEMMA StopStep ==
    ASSUME Inv, NEW t \in Targets, StopListening(t)
    PROVE  Inv'
<1> DEFINE n == listenTargets[t]
           r == [op |-> "unwatch", target |-> t, listen |-> n]
<1>1. /\ WatchTypeOK /\ n \in Listens /\ Len(fate) \in Nat
      /\ listenTargets' = [listenTargets EXCEPT ![t] = None]
      /\ UNCHANGED <<accumulated, remoteVersion, stream, changes, serving, due, sent, heard>>
  BY DEF Inv, WatchTypeOK, StopListening
<1>2. /\ fate' \in Seq({"waiting", "answered", "stopped", "refused"})
      /\ Len(fate') = Len(fate) /\ budget' \in [Event -> Nat]
  <2>1. CASE Spend("stop") /\ fate' = [fate EXCEPT ![n] = "stopped"]
    <3>1. budget' \in [Event -> Nat]
      BY <1>1, <2>1, SpendTyped DEF Event
    <3> QED BY <1>1, <2>1, <3>1 DEF WatchTypeOK, Listens
  <2>2. CASE UNCHANGED <<fate, budget>>
    BY <1>1, <2>2 DEF WatchTypeOK
  <2> QED BY <2>1, <2>2 DEF StopListening
<1>3. Listens' = Listens
  BY <1>2 DEF Listens
<1>4. OwnChangesOnly'
  BY <1>1, <1>3 DEF Inv, OwnChangesOnly
<1>5. r \in Request
  BY <1>1 DEF Request, Listens
<1>6. listenTargets' \in [Targets -> {None} \cup Listens']
  BY <1>1, <1>3 DEF WatchTypeOK
<1>7. CASE stream = "open"
  <2>1. /\ requests' = Append(requests, r) /\ idleTimer' \in {"off", "on"}
        /\ pendingTargetResponses' = [pendingTargetResponses EXCEPT ![t] = @ + 1]
    BY <1>7 DEF StopListening
  <2>2. WatchTypeOK'
    BY <1>1, <1>2, <1>3, <1>5, <1>6, <2>1 DEF WatchTypeOK
  <2>3. /\ r.target = t /\ r.op = "unwatch" /\ listenTargets'[t] = None
        /\ \A u \in Targets : u # t => listenTargets'[u] = listenTargets[u]
    BY <1>1 DEF WatchTypeOK
  <2> HIDE DEF r, n
  <2>4. /\ Counted' /\ ListensKnown' /\ LastRequest' /\ ServesListen'
        /\ SentForListen' /\ KeptForListen' /\ ClosedIsEmpty'
    <3>1. Len(fate') \in Nat /\ Len(fate) <= Len(fate') /\ stream' = "open"
      BY <1>1, <1>2, <1>7
    <3>2. requests' = Append(requests, r) /\ UNCHANGED <<accumulated, changes, serving>>
          /\ pendingTargetResponses' = [pendingTargetResponses EXCEPT ![r.target] = @ + 1]
      BY <1>1, <2>1, <2>3
    <3> QED BY <3>2, <1>1, <1>5, <1>7, <2>1, <2>3, <3>1, RequestSent
  <2> QED BY <1>4, <2>2, <2>4 DEF Inv
<1>8. CASE stream # "open"
  <2>1. UNCHANGED <<pendingTargetResponses, requests, idleTimer>>
    BY <1>8 DEF StopListening
  <2>2. WatchTypeOK'
    BY <1>1, <1>2, <1>3, <1>6, <2>1 DEF WatchTypeOK
  <2>3. /\ Counted' /\ ListensKnown' /\ LastRequest' /\ ServesListen'
        /\ SentForListen' /\ KeptForListen' /\ ClosedIsEmpty'
    BY <1>1, <1>8, <2>1, NothingSent
  <2> QED BY <1>4, <2>2, <2>3 DEF Inv
<1> QED BY <1>7, <1>8

\* The stream opens: each watched target has one request under way.
LEMMA OpenStep ==
    ASSUME Inv, StreamDidOpen
    PROVE  Inv'
<1> DEFINE W == Watched(listenTargets)
<1>1. /\ WatchTypeOK /\ stream = "starting" /\ stream' = "open"
      /\ requests = << >> /\ changes = << >> /\ accumulated = << >>
      /\ serving = [t \in Targets |-> None] /\ due = {}
      /\ UNCHANGED <<listenTargets, accumulated, remoteVersion, idleTimer, changes, serving,
                     due, sent, fate, heard, budget>>
  BY DEF Inv, ClosedIsEmpty, StreamDidOpen
<1>2. /\ W \in SUBSET Targets /\ IsFiniteSet(W) /\ Cardinality(W) \in Nat
      /\ \A t \in W : listenTargets[t] \in Listens
  <2>1. W \in SUBSET Targets
    BY DEF Watched
  <2>2. IsFiniteSet(W)
    <3> HIDE DEF W
    <3> QED BY <2>1, WatchAssumption, FS_Subset
  <2>3. \A t \in W : listenTargets[t] \in Listens
    BY <1>1 DEF Watched, WatchTypeOK
  <2> HIDE DEF W
  <2> QED BY <2>1, <2>2, <2>3, FS_CardinalityType
<1> DEFINE n == Cardinality(W)
<1>3. PICK order \in Bijection(1 .. n, W) :
         requests' = [i \in DOMAIN order |->
                        [op |-> "watch", target |-> order[i],
                         listen |-> listenTargets[order[i]]]]
  BY DEF StreamDidOpen
<1>4. \A t \in Targets : pendingTargetResponses'[t] = IF t \in W THEN 1 ELSE 0
  <2>1. \A t \in Targets : pendingTargetResponses[t] = 0
    BY <1>1, ClosedCounts
  <2> QED BY <2>1 DEF StreamDidOpen
<1>5. pendingTargetResponses' \in [Targets -> Nat]
  <2>1. pendingTargetResponses' = [t \in Targets |-> IF t \in W THEN pendingTargetResponses[t] + 1
                                                     ELSE pendingTargetResponses[t]]
    BY DEF StreamDidOpen
  <2>2. pendingTargetResponses \in [Targets -> Nat]
    BY <1>1 DEF WatchTypeOK
  <2> HIDE DEF W
  <2> QED BY <2>1, <2>2
<1> HIDE DEF W
<1>6. /\ order \in [1 .. n -> W] /\ DOMAIN order = 1 .. n
      /\ \A i, j \in 1 .. n : order[i] = order[j] => i = j
      /\ \A t \in W : \E i \in 1 .. n : order[i] = t
  BY <1>3 DEF Bijection, Injection, Surjection, IsInjective
<1>7. /\ DOMAIN requests' = 1 .. n
      /\ \A i \in 1 .. n : /\ requests'[i] = [op |-> "watch", target |-> order[i],
                                               listen |-> listenTargets[order[i]]]
                           /\ requests'[i] \in Request
  <2>1. ASSUME NEW i \in 1 .. n
        PROVE  order[i] \in Targets /\ listenTargets[order[i]] \in Nat
    BY <1>2, <1>6 DEF Listens
  <2> QED BY <1>3, <1>6, <2>1 DEF Request
<1>8. requests' \in Seq(Request)
  <2>1. requests' = [i \in 1 .. n |-> requests'[i]] /\ n \in Nat
    BY <1>2, <1>3, <1>6
  <2> HIDE DEF n
  <2> QED BY <1>7, <2>1
<1>9. WatchTypeOK'
  BY <1>1, <1>5, <1>8 DEF WatchTypeOK, Listens
<1>10. Counted'
  <2> SUFFICES ASSUME NEW t \in Targets
               PROVE  pendingTargetResponses'[t] = Unanswered(t)'
    BY DEF Counted
  <2>1. /\ Cardinality(Responses(changes, t)') = 0 /\ Cardinality(Responses(accumulated, t)') = 0
    <3>1. Responses(changes, t)' = {} /\ Responses(accumulated, t)' = {}
      BY <1>1 DEF Responses
    <3> QED BY <3>1, FS_EmptySet
  <2>2. CASE t \in W
    <3>1. PICK i \in 1 .. n : order[i] = t
      BY <1>6, <2>2
    <3>2. Asked(t)' = {i}
      BY <1>6, <1>7, <3>1 DEF Asked
    <3>3. Cardinality(Asked(t)') = 1
      BY <3>2, FS_Singleton
    <3> QED BY <1>4, <2>1, <2>2, <3>3 DEF Unanswered
  <2>3. CASE t \notin W
    <3>1. Asked(t)' = {}
      BY <1>6, <1>7, <2>3 DEF Asked
    <3>2. Cardinality(Asked(t)') = 0
      BY <3>1, FS_EmptySet
    <3> QED BY <1>4, <2>1, <2>3, <3>2 DEF Unanswered
  <2> QED BY <2>2, <2>3
<1>11. ListensKnown' /\ LastRequest'
  BY <1>1, <1>2, <1>6, <1>7 DEF ListensKnown, LastRequest, Listens
<1>12. ServesListen' /\ SentForListen' /\ KeptForListen' /\ ClosedIsEmpty'
  BY <1>1 DEF ServesListen, SentForListen, KeptForListen, ClosedIsEmpty
<1>13. OwnChangesOnly'
  BY <1>1 DEF Inv, OwnChangesOnly, Listens
<1> QED BY <1>9, <1>10, <1>11, <1>12, <1>13 DEF Inv

\* The stream closes: nothing is under way any more and nothing is counted.
LEMMA CloseStep ==
    ASSUME Inv, CloseStream, budget' \in [Event -> Nat]
    PROVE  Inv'
<1>1. /\ WatchTypeOK
      /\ stream' \in {"initial", "starting"} /\ idleTimer' = "off"
      /\ requests' = << >> /\ changes' = << >> /\ accumulated' = << >>
      /\ pendingTargetResponses' = [t \in Targets |-> 0]
      /\ serving' = [t \in Targets |-> None] /\ due' = {} /\ sent' = 0
      /\ UNCHANGED <<listenTargets, remoteVersion, fate, heard>>
  BY DEF Inv, CloseStream
<1>2. WatchTypeOK'
  <2>1. /\ requests' \in Seq(Request) /\ changes' \in Seq(Change) /\ accumulated' \in Seq(Change)
        /\ pendingTargetResponses' \in [Targets -> Nat]
        /\ serving' \in [Targets -> {None} \cup Listens'] /\ due' \subseteq Listens'
        /\ sent' \in 0 .. MaxVersion
    BY <1>1, WatchAssumption
  <2>2. /\ listenTargets' \in [Targets -> {None} \cup Listens']
        /\ fate' \in Seq({"waiting", "answered", "stopped", "refused"})
        /\ heard' \in [Listens' -> SUBSET Listens'] /\ remoteVersion' \in 0 .. MaxVersion
    BY <1>1 DEF WatchTypeOK, Listens
  <2> QED BY <1>1, <2>1, <2>2 DEF WatchTypeOK
<1>3. Counted'
  <2> SUFFICES ASSUME NEW t \in Targets
               PROVE  pendingTargetResponses'[t] = Unanswered(t)'
    BY DEF Counted
  <2>1. Asked(t)' = {} /\ Responses(changes, t)' = {} /\ Responses(accumulated, t)' = {}
    BY <1>1 DEF Asked, Responses
  <2>2. /\ Cardinality(Asked(t)') = 0 /\ Cardinality(Responses(changes, t)') = 0
        /\ Cardinality(Responses(accumulated, t)') = 0
    BY <2>1, FS_EmptySet
  <2> QED BY <1>1, <2>2 DEF Unanswered
<1>4. ListensKnown' /\ LastRequest' /\ ClosedIsEmpty'
  BY <1>1 DEF ListensKnown, LastRequest, ClosedIsEmpty
<1>5. ServesListen' /\ SentForListen' /\ KeptForListen'
  BY <1>1 DEF ServesListen, SentForListen, KeptForListen
<1>6. OwnChangesOnly'
  BY <1>1 DEF Inv, OwnChangesOnly, Listens
<1> QED BY <1>2, <1>3, <1>4, <1>5, <1>6 DEF Inv

-----------------------------------------------------------------------------
\* The server.

\* What it sends comes after what it sent.
LEMMA Sends ==
    ASSUME WatchTypeOK, NEW a \in Seq(Change), changes' = changes \o a
    PROVE  /\ changes' \in Seq(Change)
           /\ Len(changes) \in Nat /\ Len(a) \in Nat
           /\ DOMAIN changes = 1 .. Len(changes) /\ DOMAIN a = 1 .. Len(a)
           /\ DOMAIN changes' = 1 .. Len(changes) + Len(a)
           /\ \A i \in 1 .. Len(changes) : changes'[i] = changes[i]
           /\ \A i \in 1 .. Len(a) : changes'[Len(changes) + i] = a[i]
           /\ \A i \in DOMAIN changes' :
                i \notin 1 .. Len(changes) => i - Len(changes) \in 1 .. Len(a)
                                              /\ changes'[i] = a[i - Len(changes)]
           /\ \A t : Refused(changes, t) => Refused(changes', t)
           /\ \A t : Responses(changes, t) \subseteq Responses(changes', t)
<1>1. changes \in Seq(Change)
  BY DEF WatchTypeOK
<1>2. /\ changes' \in Seq(Change) /\ Len(changes') = Len(changes) + Len(a)
      /\ Len(changes) \in Nat /\ Len(a) \in Nat
      /\ DOMAIN changes = 1 .. Len(changes) /\ DOMAIN a = 1 .. Len(a)
      /\ DOMAIN changes' = 1 .. Len(changes')
      /\ \A i \in 1 .. Len(changes) + Len(a) :
            changes'[i] = IF i <= Len(changes) THEN changes[i] ELSE a[i - Len(changes)]
  BY <1>1, ConcatProperties
<1>3. \A i \in 1 .. Len(changes) : changes'[i] = changes[i]
  BY <1>2
<1>4. \A i \in 1 .. Len(a) : changes'[Len(changes) + i] = a[i]
  <2> TAKE i \in 1 .. Len(a)
  <2>1. /\ Len(changes) + i \in 1 .. Len(changes) + Len(a)
        /\ ~(Len(changes) + i <= Len(changes)) /\ (Len(changes) + i) - Len(changes) = i
    BY <1>2
  <2> QED BY <1>2, <2>1
<1>5. \A i \in DOMAIN changes' :
         i \notin 1 .. Len(changes) => i - Len(changes) \in 1 .. Len(a)
                                       /\ changes'[i] = a[i - Len(changes)]
  BY <1>2
<1>6. \A t : Refused(changes, t) => Refused(changes', t)
  BY <1>2, <1>3 DEF Refused
<1>7. \A t : Responses(changes, t) \subseteq Responses(changes', t)
  BY <1>2, <1>3 DEF Responses
<1> QED BY <1>2, <1>3, <1>4, <1>5, <1>6, <1>7

\* A request is answered: its target has one request less and one answer more.
\* When it was the last of its target the server serves what it asked for, or
\* refuses it, or nothing.
LEMMA HandleStep ==
    ASSUME Inv, NEW r \in Request, NEW a \in Seq(Change), Handle(r, a),
           Len(a) >= 1, IsResponse(a[1], r.target),
           \A i \in 2 .. Len(a) : a[i].type = "refused",
           serving' \in [Targets -> {None} \cup Listens],
           \A t \in Targets : t # r.target => serving'[t] = serving[t],
           \/ serving'[r.target] = None
           \/ r.op = "watch" /\ serving'[r.target] = r.listen
           \/ \E i \in 1 .. Len(a) : a[i].type = "refused" /\ a[i].target = r.target,
           due' \subseteq Listens, budget' \in [Event -> Nat]
    PROVE  Inv'
<1> DEFINE u == r.target
           m == Len(changes)
<1>1. /\ WatchTypeOK /\ requests # << >> /\ Head(requests) = r /\ u \in Targets
      /\ requests' = Tail(requests) /\ changes' = changes \o a
      /\ UNCHANGED <<listenTargets, pendingTargetResponses, accumulated, remoteVersion, stream,
                     idleTimer, sent, fate, heard>>
  BY DEF Inv, Handle, Request
<1>2. /\ requests \in Seq(Request) /\ Len(requests) \in Nat \ {0}
      /\ DOMAIN requests = 1 .. Len(requests) /\ requests[1] = r
      /\ requests' \in Seq(Request)
      /\ DOMAIN requests' = 1 .. Len(requests) - 1
      /\ \A i \in 1 .. Len(requests) - 1 : requests'[i] = requests[i + 1]
  <2>1. requests \in Seq(Request)
    BY <1>1 DEF WatchTypeOK
  <2>2. /\ requests' \in Seq(Request) /\ Len(requests') = Len(requests) - 1
        /\ \A i \in 1 .. Len(requests') : requests'[i] = requests[i + 1]
    BY <1>1, <2>1, HeadTailProperties
  <2> QED BY <1>1, <2>1, <2>2
<1>3. /\ changes' \in Seq(Change) /\ m \in Nat /\ Len(a) \in Nat
      /\ DOMAIN changes = 1 .. m /\ DOMAIN a = 1 .. Len(a)
      /\ DOMAIN changes' = 1 .. m + Len(a)
      /\ \A i \in 1 .. m : changes'[i] = changes[i]
      /\ \A i \in 1 .. Len(a) : changes'[m + i] = a[i]
      /\ \A i \in DOMAIN changes' :
           i \notin 1 .. m => i - m \in 1 .. Len(a) /\ changes'[i] = a[i - m]
      /\ \A t : Refused(changes, t) => Refused(changes', t)
      /\ \A t : Responses(changes, t) \subseteq Responses(changes', t)
  BY <1>1, Sends
<1> HIDE DEF u, m
<1>4. \A t \in Targets : Responses(a, t) = IF t = u THEN {1} ELSE {}
  <2> TAKE t \in Targets
  <2>1. \A i \in 2 .. Len(a) : i \notin Responses(a, t)
    BY DEF Responses
  <2>2. 1 \in Responses(a, t) <=> t = u
    BY <1>3 DEF Responses, IsResponse, u
  <2>3. Responses(a, t) \subseteq 1 .. Len(a)
    BY <1>3 DEF Responses
  <2> QED BY <1>3, <2>1, <2>2, <2>3
<1>5. \A t : \A i \in Nat : i \in Asked(t)' <=> i # 0 /\ i + 1 \in Asked(t)
  BY <1>1, AskedOfTail
<1>6. \A t \in Targets : t # u => (Asked(t)' = {} <=> Asked(t) = {})
  <2> TAKE t \in Targets
  <2>1. ASSUME t # u, NEW i \in Asked(t) PROVE i - 1 \in Asked(t)'
    <3>1. i \in 1 .. Len(requests) /\ i # 1
      BY <1>2, <2>1 DEF Asked, u
    <3>2. i - 1 \in Nat /\ i - 1 # 0 /\ (i - 1) + 1 = i
      BY <1>2, <3>1
    <3> QED BY <1>5, <3>2
  <2>2. ASSUME NEW i \in Asked(t)' PROVE i + 1 \in Asked(t)
    <3>1. i \in Nat
      BY <1>2 DEF Asked
    <3> QED BY <1>5, <3>1
  <2> QED BY <2>1, <2>2
<1>7. WatchTypeOK'
  BY <1>1, <1>2, <1>3 DEF WatchTypeOK, Listens
<1>8. Counted'
  <2> SUFFICES ASSUME NEW t \in Targets
               PROVE  pendingTargetResponses'[t] = Unanswered(t)'
    BY DEF Counted
  <2>1. pendingTargetResponses[t] = Unanswered(t)
    BY DEF Inv, Counted
  <2>2. Cardinality(Asked(t)') = IF u = t THEN Cardinality(Asked(t)) - 1
                                 ELSE Cardinality(Asked(t))
    BY <1>1, AskedOfTail DEF u
  <2>3. Cardinality(Responses(changes, t)')
          = Cardinality(Responses(changes, t)) + Cardinality(Responses(a, t))
    <3>1. changes \in Seq(Change)
      BY <1>1 DEF WatchTypeOK
    <3>2. Cardinality(Responses(changes \o a, t))
            = Cardinality(Responses(changes, t)) + Cardinality(Responses(a, t))
      BY <3>1, ResponsesOfConcat
    <3> QED BY <1>1, <3>2 DEF Responses
  <2>4. Cardinality(Responses(a, t)) = IF u = t THEN 1 ELSE 0
    BY <1>4, FS_EmptySet, FS_Singleton
  <2>5. Responses(accumulated, t)' = Responses(accumulated, t)
    BY <1>1 DEF Responses
  <2>6. /\ Cardinality(Asked(t)) \in Nat /\ Cardinality(Responses(changes, t)) \in Nat
        /\ Cardinality(Responses(accumulated, t)) \in Nat
    BY <1>1, AskedFinite, ResponsesFinite DEF WatchTypeOK
  <2>7. Unanswered(t)' = Cardinality(Asked(t)') + Cardinality(Responses(changes, t)')
                           + Cardinality(Responses(accumulated, t)')
    BY DEF Unanswered
  <2>8. Unanswered(t) = Cardinality(Asked(t)) + Cardinality(Responses(changes, t))
                           + Cardinality(Responses(accumulated, t))
    BY DEF Unanswered
  <2> QED BY <1>1, <2>1, <2>2, <2>3, <2>4, <2>5, <2>6, <2>7, <2>8
<1>9. ListensKnown'
  BY <1>1, <1>2 DEF Inv, ListensKnown, Listens
<1>10. LastRequest'
  <2> SUFFICES ASSUME NEW i \in DOMAIN requests',
                      \A j \in DOMAIN requests' :
                        requests'[j].target = requests'[i].target => j <= i
               PROVE  \/ listenTargets'[requests'[i].target] = None
                      \/ /\ requests'[i].op = "watch"
                         /\ requests'[i].listen = listenTargets'[requests'[i].target]
    BY DEF LastRequest
  <2>1. i \in Int /\ i + 1 \in DOMAIN requests /\ requests'[i] = requests[i + 1]
    BY <1>2
  <2>2. ASSUME NEW j \in DOMAIN requests, requests[j].target = requests[i + 1].target
        PROVE  j <= i + 1
    <3>1. CASE j = 1
      BY <1>2, <3>1
    <3>2. CASE j # 1
      <4>1. j - 1 \in DOMAIN requests' /\ requests'[j - 1] = requests[j] /\ j \in Int
        BY <1>2, <3>2
      <4>2. j - 1 <= i
        BY <2>1, <2>2, <4>1
      <4> QED BY <2>1, <4>1, <4>2
    <3> QED BY <3>1, <3>2
  <2> QED BY <1>1, <2>1, <2>2 DEF Inv, LastRequest
<1>11. ServesListen'
  <2> SUFFICES ASSUME NEW t \in Targets, Asked(t)' = {}, serving'[t] # None
               PROVE  Agrees(t, serving[t])' \/ Refused(changes', t)
    BY DEF ServesListen
  <2>1. CASE t # u
    BY <1>1, <1>3, <1>6, <2>1 DEF Inv, ServesListen, Agrees, u
  <2>2. CASE t = u
    <3>1. \A j \in DOMAIN requests : requests[j].target = requests[1].target => j <= 1
      <4> SUFFICES ASSUME NEW j \in DOMAIN requests, requests[j].target = u, j # 1
                   PROVE  FALSE
        BY <1>2 DEF u
      <4>1. j - 1 \in Nat /\ j - 1 # 0 /\ (j - 1) + 1 = j /\ j \in Asked(t)
        BY <1>2, <2>2 DEF Asked
      <4> QED BY <1>5, <4>1
    <3>2. \/ listenTargets[u] = None
          \/ r.op = "watch" /\ r.listen = listenTargets[u]
      <4>1. 1 \in DOMAIN requests /\ LastRequest
        BY <1>2 DEF Inv
      <4>2. \/ listenTargets[requests[1].target] = None
            \/ /\ requests[1].op = "watch"
               /\ requests[1].listen = listenTargets[requests[1].target]
        BY <3>1, <4>1 DEF LastRequest
      <4> QED BY <1>2, <4>2 DEF u
    <3>3. CASE \E i \in 1 .. Len(a) : a[i].type = "refused" /\ a[i].target = u
      <4>1. PICK i \in 1 .. Len(a) : a[i].type = "refused" /\ a[i].target = u
        BY <3>3
      <4>2. m + i \in DOMAIN changes' /\ changes'[m + i] = a[i]
        BY <1>3
      <4> QED BY <2>2, <4>1, <4>2 DEF Refused
    <3>4. CASE serving'[u] = r.listen
      BY <1>1, <2>2, <3>2, <3>4 DEF Agrees
    <3> QED BY <2>2, <3>3, <3>4 DEF u
  <2> QED BY <2>1, <2>2
<1>12. m + 1 \in Responses(changes', u) /\ m + 1 \notin 1 .. m
  <2>1. m + 1 \in DOMAIN changes' /\ changes'[m + 1] = a[1] /\ m + 1 \notin 1 .. m
    BY <1>3
  <2> QED BY <2>1 DEF Responses, IsResponse, u
<1>13. \A c \in Change : IsAnswer(c) => c.target \in Targets
  BY ChangeFields DEF IsAnswer
<1>14. SentForListen'
  <2> SUFFICES ASSUME NEW i \in DOMAIN changes', IsAnswer(changes'[i]),
                      Asked(changes[i].target)' = {},
                      \A j \in Responses(changes', changes'[i].target) : j <= i
               PROVE  \/ Agrees(changes[i].target, changes[i].listen)'
                      \/ \E k \in 1 .. i : changes'[k].type = "refused"
                                           /\ changes'[k].target = changes'[i].target
    BY DEF SentForListen
  <2> DEFINE c == changes'[i]
  <2>1. i \in 1 .. m
    <3> SUFFICES ASSUME i \notin 1 .. m PROVE FALSE
      OBVIOUS
    <3>1. i - m \in 1 .. Len(a) /\ c = a[i - m]
      BY <1>3
    <3>2. i - m = 1 \/ i - m \in 2 .. Len(a)
      BY <1>3, <3>1
    <3>3. c.type \in {"added", "removed", "refused"}
      BY <3>1, <3>2 DEF IsResponse
    <3> QED BY <3>3 DEF IsAnswer
  <2>2. c = changes[i] /\ c \in Change /\ c.target \in Targets
    BY <1>1, <1>3, <1>13, <2>1 DEF WatchTypeOK
  <2>3. c.target # u
    BY <1>3, <1>12, <2>1
  <2>4. Asked(c.target) = {}
    <3>1. \A t : Asked(t)' = {j \in DOMAIN requests' : requests'[j].target = t}
      BY DEF Asked
    <3>2. Asked(changes[i].target)' = {j \in DOMAIN requests' : requests'[j].target = c.target}
      BY DEF Asked
    <3> HIDE DEF c
    <3> QED BY <1>6, <2>2, <2>3, <3>1, <3>2
  <2>5. \A j \in Responses(changes, c.target) : j <= i
    BY <1>3
  <2>6. \/ Agrees(c.target, c.listen)
        \/ \E k \in 1 .. i : changes[k].type = "refused" /\ changes[k].target = c.target
    BY <1>3, <2>1, <2>2, <2>4, <2>5 DEF Inv, SentForListen
  <2>7. \A k \in 1 .. i : changes'[k] = changes[k]
    BY <1>3, <2>1
  <2>8. Agrees(c.target, c.listen) => Agrees(changes[i].target, changes[i].listen)'
    BY <1>1 DEF Agrees
  <2> QED BY <2>6, <2>7, <2>8
<1>15. KeptForListen'
  <2> SUFFICES ASSUME NEW i \in DOMAIN accumulated, IsAnswer(accumulated[i]),
                      Asked(accumulated[i].target)' = {},
                      Responses(changes', accumulated[i].target) = {},
                      \A j \in Responses(accumulated, accumulated[i].target) : j <= i
               PROVE  Agrees(accumulated[i].target, accumulated[i].listen)
    BY <1>1 DEF KeptForListen, Agrees, Asked
  <2> DEFINE c == accumulated[i]
  <2>1. c \in Change /\ c.target \in Targets
    BY <1>1, <1>13 DEF WatchTypeOK
  <2>2. c.target # u
    BY <1>12
  <2>3. Asked(c.target) = {}
    <3>1. \A t : Asked(t)' = {j \in DOMAIN requests' : requests'[j].target = t}
      BY DEF Asked
    <3>2. Asked(accumulated[i].target)' = {j \in DOMAIN requests' : requests'[j].target = c.target}
      BY <1>1 DEF Asked
    <3> HIDE DEF c
    <3> QED BY <1>6, <2>1, <2>2, <3>1, <3>2
  <2>4. Responses(changes, c.target) = {}
    BY <1>3
  <2> QED BY <2>3, <2>4 DEF Inv, KeptForListen
<1>16. ClosedIsEmpty'
  BY <1>1 DEF Inv, ClosedIsEmpty
<1>17. OwnChangesOnly'
  BY <1>1 DEF Inv, OwnChangesOnly, Listens
<1> QED BY <1>7, <1>8, <1>9, <1>10, <1>11, <1>14, <1>15, <1>16, <1>17 DEF Inv

\* The three answers to a request.
LEMMA RequestSteps ==
    ASSUME Inv, ServerAdds \/ ServerRefuses \/ ServerRemoves
    PROVE  Inv'
<1>1. /\ WatchTypeOK /\ \A r \in Range(requests) : r \in Request
  <2>1. WatchTypeOK /\ requests \in Seq(Request)
    BY DEF Inv, WatchTypeOK
  <2> QED BY <2>1 DEF Range
<1>2. /\ serving \in [Targets -> {None} \cup Listens] /\ due \subseteq Listens
      /\ budget \in [Event -> Nat]
  BY <1>1 DEF WatchTypeOK
<1>3. CASE ServerAdds
  <2>1. PICK r \in Range(requests) :
           /\ r.op = "watch"
           /\ Handle(r, <<TargetChange("added", r.target, r.listen)>>)
           /\ serving' = [serving EXCEPT ![r.target] = r.listen]
           /\ due' = due \cup {r.listen}
           /\ UNCHANGED budget
    BY <1>3 DEF ServerAdds
  <2> DEFINE a == <<TargetChange("added", r.target, r.listen)>>
  <2>2. r \in Request /\ r.target \in Targets /\ r.listen \in Nat
    BY <1>1, <2>1 DEF Request
  <2>3. r.listen \in Listens
    BY <2>1 DEF Handle, Inv, ListensKnown, Range
  <2>4. /\ a \in Seq(Change) /\ Len(a) = 1 /\ IsResponse(a[1], r.target)
        /\ \A i \in 2 .. Len(a) : a[i].type = "refused"
    <3>1. TargetChange("added", r.target, r.listen) \in Change
      BY <2>2 DEF Change, TargetChange
    <3> QED BY <3>1 DEF TargetChange, IsResponse
  <2>5. /\ serving' \in [Targets -> {None} \cup Listens] /\ serving'[r.target] = r.listen
        /\ \A t \in Targets : t # r.target => serving'[t] = serving[t]
        /\ due' \subseteq Listens /\ budget' \in [Event -> Nat]
    BY <1>2, <2>1, <2>2, <2>3
  <2> HIDE DEF a
  <2>6. Handle(r, a) /\ Len(a) >= 1
    BY <2>1, <2>4 DEF a
  <2> QED BY <2>1, <2>2, <2>4, <2>5, <2>6, HandleStep
<1>4. CASE ServerRefuses
  <2>1. PICK r \in Range(requests) :
           /\ r.op = "watch"
           /\ Spend("refusal")
           /\ Handle(r, <<TargetChange("added", r.target, r.listen),
                          TargetChange("refused", r.target, r.listen)>>)
           /\ UNCHANGED <<serving, due>>
    BY <1>4 DEF ServerRefuses
  <2> DEFINE a == <<TargetChange("added", r.target, r.listen),
                    TargetChange("refused", r.target, r.listen)>>
  <2>2. r \in Request /\ r.target \in Targets /\ r.listen \in Nat
    BY <1>1, <2>1 DEF Request
  <2>3. /\ a \in Seq(Change) /\ Len(a) = 2 /\ IsResponse(a[1], r.target)
        /\ \A i \in 2 .. Len(a) : a[i].type = "refused"
        /\ \E i \in 1 .. Len(a) : a[i].type = "refused" /\ a[i].target = r.target
    <3>1. /\ TargetChange("added", r.target, r.listen) \in Change
          /\ TargetChange("refused", r.target, r.listen) \in Change
      BY <2>2 DEF Change, TargetChange
    <3>2. /\ a \in Seq(Change) /\ Len(a) = 2
          /\ a[1].type = "added" /\ a[1].target = r.target
          /\ a[2].type = "refused" /\ a[2].target = r.target
      BY <3>1 DEF TargetChange
    <3> HIDE DEF a
    <3>3. \A i \in 2 .. Len(a) : i = 2
      BY <3>2
    <3>4. 2 \in 1 .. Len(a)
      BY <3>2
    <3> QED BY <3>2, <3>3, <3>4 DEF IsResponse
  <2>4. /\ serving' \in [Targets -> {None} \cup Listens]
        /\ \A t \in Targets : t # r.target => serving'[t] = serving[t]
        /\ due' \subseteq Listens
    BY <1>2, <2>1
  <2>5. budget' \in [Event -> Nat]
    BY <1>1, <2>1, SpendTyped DEF Event
  <2> HIDE DEF a
  <2>6. Handle(r, a) /\ Len(a) >= 1
    BY <2>1, <2>3 DEF a
  <2> QED BY <2>2, <2>3, <2>4, <2>5, <2>6, HandleStep
<1>5. CASE ServerRemoves
  <2>1. PICK r \in Range(requests) :
           /\ r.op = "unwatch"
           /\ Handle(r, <<TargetChange("removed", r.target, r.listen)>>)
           /\ serving' = [serving EXCEPT ![r.target] = None]
           /\ due' = due \ {serving[r.target]}
           /\ UNCHANGED budget
    BY <1>5 DEF ServerRemoves
  <2> DEFINE a == <<TargetChange("removed", r.target, r.listen)>>
  <2>2. r \in Request /\ r.target \in Targets /\ r.listen \in Nat
    BY <1>1, <2>1 DEF Request
  <2>3. /\ a \in Seq(Change) /\ Len(a) = 1 /\ IsResponse(a[1], r.target)
        /\ \A i \in 2 .. Len(a) : a[i].type = "refused"
    <3>1. TargetChange("removed", r.target, r.listen) \in Change
      BY <2>2 DEF Change, TargetChange
    <3> QED BY <3>1 DEF TargetChange, IsResponse
  <2>4. /\ serving' \in [Targets -> {None} \cup Listens] /\ serving'[r.target] = None
        /\ \A t \in Targets : t # r.target => serving'[t] = serving[t]
        /\ due' \subseteq Listens /\ budget' \in [Event -> Nat]
    BY <1>2, <2>1, <2>2
  <2> HIDE DEF a
  <2>5. Handle(r, a) /\ Len(a) >= 1
    BY <2>1, <2>3 DEF a
  <2> QED BY <2>2, <2>3, <2>4, <2>5, HandleStep
<1> QED BY <1>3, <1>4, <1>5

\* The server sends on its own: documents and marks for the listen it serves,
\* versions, and no answers to requests.
LEMMA SendStep ==
    ASSUME Inv, stream = "open", NEW a \in Seq(Change), changes' = changes \o a,
           \A i \in 1 .. Len(a) : a[i].type \notin {"added", "removed"},
           \A i \in 1 .. Len(a) :
             IsAnswer(a[i]) => /\ serving[a[i].target] # None
                               /\ a[i].listen = serving[a[i].target],
           sent' \in 0 .. MaxVersion, due' \subseteq due,
           UNCHANGED <<listenTargets, pendingTargetResponses, accumulated, remoteVersion,
                       stream, idleTimer, requests, serving, fate, heard, budget>>
    PROVE  Inv'
<1> DEFINE m == Len(changes)
<1>1. /\ WatchTypeOK
      /\ changes' \in Seq(Change) /\ m \in Nat /\ Len(a) \in Nat
      /\ DOMAIN changes = 1 .. m /\ DOMAIN a = 1 .. Len(a)
      /\ DOMAIN changes' = 1 .. m + Len(a)
      /\ \A i \in 1 .. m : changes'[i] = changes[i]
      /\ \A i \in DOMAIN changes' :
           i \notin 1 .. m => i - m \in 1 .. Len(a) /\ changes'[i] = a[i - m]
      /\ \A t : Refused(changes, t) => Refused(changes', t)
  BY Sends DEF Inv
<1> HIDE DEF m
<1>2. \A t : Responses(changes', t) = Responses(changes, t)
  BY <1>1 DEF Responses
<1>3. \A t : Asked(t)' = Asked(t) /\ Responses(accumulated, t)' = Responses(accumulated, t)
             /\ Responses(changes, t)' = Responses(changes, t)
  BY <1>2 DEF Asked, Responses
<1>4. WatchTypeOK'
  BY <1>1 DEF WatchTypeOK, Listens
<1>5. Counted'
  BY <1>3 DEF Inv, Counted, Unanswered
<1>6. ListensKnown' /\ LastRequest'
  BY DEF Inv, ListensKnown, LastRequest, Listens
<1>7. ServesListen'
  BY <1>1, <1>3 DEF Inv, ServesListen, Agrees
<1>8. SentForListen'
  <2> SUFFICES ASSUME NEW i \in DOMAIN changes', IsAnswer(changes'[i]),
                      Asked(changes'[i].target) = {},
                      \A j \in Responses(changes', changes'[i].target) : j <= i
               PROVE  \/ Agrees(changes'[i].target, changes'[i].listen)
                      \/ \E k \in 1 .. i : changes'[k].type = "refused"
                                           /\ changes'[k].target = changes'[i].target
    BY DEF SentForListen, Agrees, Asked
  <2> DEFINE c == changes'[i]
  <2>1. CASE i \in 1 .. m
    <3>1. c = changes[i] /\ \A k \in 1 .. i : changes'[k] = changes[k]
      BY <1>1, <2>1
    <3>2. \A j \in Responses(changes, c.target) : j <= i
      BY <1>2
    <3> QED BY <1>1, <2>1, <3>1, <3>2, SMTT(30) DEF Inv, SentForListen
  <2>2. CASE i \notin 1 .. m
    <3>1. i - m \in 1 .. Len(a) /\ c = a[i - m] /\ i \in Int
      BY <1>1, <2>2
    <3>2. serving[c.target] # None /\ c.listen = serving[c.target]
      BY <3>1
    <3>3. c.target \in Targets
      <4>1. c \in Change
        BY <1>1
      <4> QED BY <4>1, ChangeFields DEF IsAnswer
    <3>4. Agrees(c.target, c.listen) \/ Refused(changes, c.target)
      BY <3>2, <3>3 DEF Inv, ServesListen
    <3>5. ASSUME Refused(changes, c.target)
          PROVE  \E k \in 1 .. i : changes'[k].type = "refused" /\ changes'[k].target = c.target
      <4>1. PICK k \in DOMAIN changes : changes[k].type = "refused"
                                        /\ changes[k].target = c.target
        BY <3>5 DEF Refused
      <4>2. k \in 1 .. i /\ changes'[k] = changes[k]
        BY <1>1, <2>2, <3>1, <4>1
      <4> QED BY <4>1, <4>2
    <3> QED BY <3>4, <3>5
  <2> QED BY <2>1, <2>2
<1>9. KeptForListen'
  <2> SUFFICES ASSUME NEW i \in DOMAIN accumulated, IsAnswer(accumulated[i]),
                      Asked(accumulated[i].target) = {},
                      Responses(changes', accumulated[i].target) = {},
                      \A j \in Responses(accumulated, accumulated[i].target) : j <= i
               PROVE  Agrees(accumulated[i].target, accumulated[i].listen)
    BY DEF KeptForListen, Agrees, Asked
  <2> QED BY <1>2 DEF Inv, KeptForListen
<1>10. ClosedIsEmpty' /\ OwnChangesOnly'
  BY DEF Inv, ClosedIsEmpty, OwnChangesOnly, Listens
<1> QED BY <1>4, <1>5, <1>6, <1>7, <1>8, <1>9, <1>10 DEF Inv

\* It answers a target.
LEMMA AnswerStep ==
    ASSUME Inv, NEW t \in Targets, ServerAnswers(t)
    PROVE  Inv'
<1>1. /\ serving[t] \in due /\ due \subseteq Listens /\ sent \in 0 .. MaxVersion
      /\ due' = due \ {serving[t]}
      /\ UNCHANGED <<listenTargets, pendingTargetResponses, accumulated, remoteVersion,
                     stream, idleTimer, requests, serving, fate, heard, budget>>
  BY DEF Inv, WatchTypeOK, ServerAnswers
<1>2. PICK v \in {sent, sent + 1} \cap 1 .. MaxVersion :
         /\ changes' = changes \o <<TargetChange("document", t, serving[t]),
                                    TargetChange("current", t, serving[t]),
                                    Snapshot(v)>>
         /\ sent' = v
  BY DEF ServerAnswers
<1>3. stream = "open"
  BY <1>1 DEF Inv, ClosedIsEmpty
<1>4. serving[t] # None /\ serving[t] \in Nat
  <2>1. Len(fate) \in Nat
    BY DEF Inv, WatchTypeOK
  <2>2. serving[t] \in 1 .. Len(fate)
    BY <1>1 DEF Listens
  <2>3. \A n \in 1 .. Len(fate) : n # 0 /\ n \in Nat
    BY <2>1
  <2> QED BY <2>2, <2>3 DEF None
<1> DEFINE a == <<TargetChange("document", t, serving[t]),
                  TargetChange("current", t, serving[t]), Snapshot(v)>>
<1>5. /\ a \in Seq(Change) /\ Len(a) = 3
      /\ a[1] = TargetChange("document", t, serving[t])
      /\ a[2] = TargetChange("current", t, serving[t])
      /\ a[3] = Snapshot(v)
  <2>1. /\ TargetChange("document", t, serving[t]) \in Change
        /\ TargetChange("current", t, serving[t]) \in Change
        /\ Snapshot(v) \in Change
    BY <1>2, <1>4 DEF Change, TargetChange, Snapshot
  <2> QED BY <2>1
<1> HIDE DEF a
<1>6. \A i \in 1 .. Len(a) : i = 1 \/ i = 2 \/ i = 3
  BY <1>5
<1>7. \A i \in 1 .. Len(a) :
         /\ a[i].type \notin {"added", "removed"}
         /\ IsAnswer(a[i]) => a[i].target = t /\ a[i].listen = serving[t]
  BY <1>5, <1>6 DEF TargetChange, Snapshot, IsAnswer
<1>8. changes' = changes \o a /\ sent' \in 0 .. MaxVersion /\ due' \subseteq due
  BY <1>1, <1>2 DEF a
<1> QED BY <1>1, <1>3, <1>4, <1>5, <1>7, <1>8, SendStep

\* Its version goes on.
LEMMA CatchUpStep ==
    ASSUME Inv, ServerCatchesUp
    PROVE  Inv'
<1>1. /\ changes \in Seq(Change) /\ sent \in 0 .. MaxVersion /\ MaxVersion \in Nat
      /\ sent < MaxVersion /\ sent' = sent + 1
      /\ changes' = Append(changes, Snapshot(sent + 1))
      /\ UNCHANGED <<listenTargets, pendingTargetResponses, accumulated, remoteVersion,
                     stream, idleTimer, requests, serving, due, fate, heard, budget>>
  BY WatchAssumption DEF Inv, WatchTypeOK, ServerCatchesUp
<1>2. stream = "open"
  BY DEF Inv, ClosedIsEmpty, ServerCatchesUp, Watched
<1> DEFINE a == <<Snapshot(sent + 1)>>
<1>3. /\ Snapshot(sent + 1) \in Change /\ a \in Seq(Change) /\ Len(a) = 1
      /\ a[1].type = "snapshot"
  BY <1>1 DEF Change, Snapshot
<1>4. changes' = changes \o a
  <2>1. Append(changes, Snapshot(sent + 1)) = changes \o a
    BY <1>1, <1>3, AppendIsConcat
  <2> QED BY <1>1, <2>1
<1>5. sent' \in 0 .. MaxVersion /\ due' \subseteq due
  BY <1>1
<1> HIDE DEF a
<1>6. \A i \in 1 .. Len(a) : a[i].type = "snapshot"
  BY <1>3
<1>7. \A i \in 1 .. Len(a) : a[i].type \notin {"added", "removed"} /\ ~IsAnswer(a[i])
  BY <1>6 DEF IsAnswer
<1> QED BY <1>1, <1>2, <1>3, <1>4, <1>5, <1>7, SendStep

-----------------------------------------------------------------------------
\* The worker takes a change off the stream.

\* What is left on the stream.
LEMMA Received ==
    ASSUME WatchTypeOK, changes # << >>, changes' = Tail(changes)
    PROVE  /\ Head(changes) = changes[1] /\ Head(changes) \in Change
           /\ changes' \in Seq(Change) /\ Len(changes) \in Nat
           /\ DOMAIN changes = 1 .. Len(changes) /\ 1 \in DOMAIN changes
           /\ DOMAIN changes' = 1 .. Len(changes) - 1
           /\ \A i \in 1 .. Len(changes) - 1 : changes'[i] = changes[i + 1]
           /\ \A t : \A i \in Nat :
                i \in Responses(changes', t) <=> i # 0 /\ i + 1 \in Responses(changes, t)
           /\ \A t : 1 \in Responses(changes, t) <=> IsResponse(Head(changes), t)
           /\ \A t : Cardinality(Responses(changes', t))
                       = IF IsResponse(Head(changes), t)
                         THEN Cardinality(Responses(changes, t)) - 1
                         ELSE Cardinality(Responses(changes, t))
<1>1. changes \in Seq(Change)
  BY DEF WatchTypeOK
<1>2. /\ Head(changes) = changes[1] /\ Head(changes) \in Change
      /\ changes' \in Seq(Change) /\ Len(changes) \in Nat
      /\ DOMAIN changes = 1 .. Len(changes) /\ 1 \in DOMAIN changes
      /\ Len(changes') = Len(changes) - 1 /\ DOMAIN changes' = 1 .. Len(changes')
      /\ \A i \in 1 .. Len(changes') : changes'[i] = changes[i + 1]
  BY <1>1, HeadTailProperties
<1>3. \A t : 1 \in Responses(changes, t) <=> IsResponse(Head(changes), t)
  BY <1>2 DEF Responses, IsResponse
<1>4. \A t : /\ \A i \in Nat : i \in Responses(Tail(changes), t)
                                 <=> i # 0 /\ i + 1 \in Responses(changes, t)
             /\ Cardinality(Responses(Tail(changes), t))
                  = IF 1 \in Responses(changes, t) THEN Cardinality(Responses(changes, t)) - 1
                    ELSE Cardinality(Responses(changes, t))
  BY <1>1, ResponsesOfTail
<1> QED BY <1>2, <1>3, <1>4

\* A change that is no answer to a request, and what is listened to afterwards:
\* the listen of a refused target at most has ended.
LEMMA StreamAfter ==
    ASSUME Inv, changes # << >>, changes' = Tail(changes),
           \A t \in Targets : listenTargets'[t] \in {None, listenTargets[t]},
           Head(changes).type = "refused" => listenTargets'[Head(changes).target] = None,
           UNCHANGED <<requests, serving>>, Listens' = Listens
    PROVE  /\ ServesListen' /\ SentForListen' /\ ListensKnown' /\ LastRequest'
<1> DEFINE h == Head(changes)
<1>1. /\ WatchTypeOK /\ h = changes[1] /\ h \in Change
      /\ Len(changes) \in Nat
      /\ DOMAIN changes = 1 .. Len(changes)
      /\ DOMAIN changes' = 1 .. Len(changes) - 1
      /\ \A i \in 1 .. Len(changes) - 1 : changes'[i] = changes[i + 1]
      /\ \A t : \A i \in Nat :
           i \in Responses(changes', t) <=> i # 0 /\ i + 1 \in Responses(changes, t)
  BY Received DEF Inv
<1> HIDE DEF h
<1>2. ASSUME NEW t \in Targets, NEW n, Agrees(t, n)
      PROVE  Agrees(t, n)'
  BY <1>2 DEF Agrees
<1>3. ASSUME NEW t \in Targets, NEW k \in 2 .. Len(changes), changes[k].type = "refused",
             changes[k].target = t
      PROVE  /\ k - 1 \in DOMAIN changes' /\ changes'[k - 1] = changes[k]
  <2>1. k - 1 \in 1 .. Len(changes) - 1 /\ (k - 1) + 1 = k
    BY <1>1
  <2> QED BY <1>1, <2>1
<1>4. ServesListen'
  <2> SUFFICES ASSUME NEW t \in Targets, Asked(t) = {}, serving[t] # None
               PROVE  Agrees(t, serving[t])' \/ Refused(changes', t)
    BY DEF ServesListen, Asked, Agrees
  <2>1. Agrees(t, serving[t]) \/ Refused(changes, t)
    BY DEF Inv, ServesListen
  <2>2. ASSUME Refused(changes, t)
        PROVE  Agrees(t, serving[t])' \/ Refused(changes', t)
    <3>1. PICK k \in DOMAIN changes : changes[k].type = "refused" /\ changes[k].target = t
      BY <2>2 DEF Refused
    <3>2. CASE k = 1
      BY <1>1, <3>1, <3>2 DEF Agrees, h
    <3>3. CASE k # 1
      <4>1. k \in 2 .. Len(changes)
        BY <1>1, <3>3
      <4>2. k - 1 \in DOMAIN changes' /\ changes'[k - 1] = changes[k]
        BY <1>3, <3>1, <4>1
      <4> QED BY <3>1, <4>2 DEF Refused
    <3> QED BY <3>2, <3>3
  <2>3. Agrees(t, serving[t]) => Agrees(t, serving[t])'
    BY DEF Agrees
  <2> QED BY <2>1, <2>2, <2>3
<1>5. SentForListen'
  <2> SUFFICES ASSUME NEW i \in DOMAIN changes', IsAnswer(changes'[i]),
                      Asked(changes'[i].target) = {},
                      \A j \in Responses(changes', changes'[i].target) : j <= i
               PROVE  \/ listenTargets'[changes'[i].target] = None
                      \/ listenTargets'[changes'[i].target] = changes'[i].listen
                      \/ \E k \in 1 .. i : changes'[k].type = "refused"
                                           /\ changes'[k].target = changes'[i].target
    BY DEF SentForListen, Agrees, Asked
  <2> DEFINE c == changes'[i]
             p == i + 1
  <2>1. /\ i \in Nat /\ i >= 1 /\ p \in DOMAIN changes /\ c = changes[p]
        /\ c \in Change /\ c.target \in Targets
    <3>1. i \in Nat /\ i >= 1 /\ p \in DOMAIN changes /\ c = changes[p] /\ c \in Change
      BY <1>1 DEF WatchTypeOK
    <3> QED BY <3>1, ChangeFields DEF IsAnswer
  <2> DEFINE t == c.target
  <2>2. ASSUME NEW j \in Responses(changes, t)
        PROVE  j <= p
    <3>1. j \in 1 .. Len(changes)
      BY <1>1 DEF Responses
    <3>2. CASE j = 1
      BY <2>1, <3>2
    <3>3. CASE j # 1
      <4>1. j - 1 \in Nat /\ j - 1 # 0 /\ (j - 1) + 1 = j
        BY <3>1, <3>3
      <4>2. j - 1 \in Responses(changes', t)
        BY <1>1, <2>2, <4>1
      <4>3. j - 1 <= i
        BY <4>2
      <4> QED BY <2>1, <3>1, <4>3
    <3> QED BY <3>2, <3>3
  <2>3. \/ Agrees(t, c.listen)
        \/ \E k \in 1 .. p : changes[k].type = "refused" /\ changes[k].target = t
    BY <2>1, <2>2 DEF Inv, SentForListen
  <2>4. CASE Agrees(t, c.listen)
    BY <2>1, <2>4 DEF Agrees
  <2>5. CASE \E k \in 1 .. p : changes[k].type = "refused" /\ changes[k].target = t
    <3>1. PICK k \in 1 .. p : changes[k].type = "refused" /\ changes[k].target = t
      BY <2>5
    <3>2. CASE k = 1
      BY <1>1, <3>1, <3>2 DEF h
    <3>3. CASE k # 1
      <4>1. k \in 2 .. Len(changes) /\ k - 1 \in 1 .. i
        BY <1>1, <2>1, <3>3
      <4>2. changes'[k - 1] = changes[k]
        BY <1>3, <2>1, <3>1, <4>1
      <4> QED BY <3>1, <4>1, <4>2
    <3> QED BY <3>2, <3>3
  <2> QED BY <2>3, <2>4, <2>5
<1>6. ListensKnown' /\ LastRequest'
  <2>1. \A i \in DOMAIN requests : requests[i].target \in Targets
    <3>1. requests \in Seq(Request)
      BY <1>1 DEF WatchTypeOK
    <3>2. \A i \in DOMAIN requests : requests[i] \in Request
      BY <3>1
    <3> QED BY <3>2 DEF Request
  <2> QED BY <2>1 DEF Inv, ListensKnown, LastRequest
<1> QED BY <1>4, <1>5, <1>6

\* A refusal ends the listen its target has now.
LEMMA RefusalStep ==
    ASSUME Inv, WatchStreamDidChange, Head(changes).type = "refused",
           ProcessTargetError(Head(changes).target)
    PROVE  Inv'
<1> DEFINE t == Head(changes).target
<1>1. /\ WatchTypeOK /\ changes # << >> /\ changes' = Tail(changes)
      /\ UNCHANGED <<stream, requests, serving, due, sent, budget,
                     pendingTargetResponses, accumulated, remoteVersion, idleTimer, heard>>
  BY DEF Inv, WatchStreamDidChange, ProcessTargetError
<1>2. /\ Head(changes) \in Change /\ changes' \in Seq(Change)
      /\ \A u : Cardinality(Responses(changes', u)) = Cardinality(Responses(changes, u))
      /\ \A u : \A i \in Nat :
           i \in Responses(changes', u) <=> i # 0 /\ i + 1 \in Responses(changes, u)
      /\ \A u : 1 \notin Responses(changes, u)
      /\ Len(changes) \in Nat /\ DOMAIN changes = 1 .. Len(changes)
  BY <1>1, Received DEF IsResponse
<1>3. t \in Targets
  BY <1>2, ChangeFields
<1>4. /\ listenTargets' \in [Targets -> {None} \cup Listens]
      /\ listenTargets'[t] = None
      /\ \A u \in Targets : listenTargets'[u] \in {None, listenTargets[u]}
      /\ fate' \in Seq({"waiting", "answered", "stopped", "refused"}) /\ Len(fate') = Len(fate)
  <2>1. CASE /\ listenTargets[t] # None
             /\ listenTargets' = [listenTargets EXCEPT ![t] = None]
             /\ fate' = [fate EXCEPT ![listenTargets[t]] = "refused"]
    <3>1. listenTargets \in [Targets -> {None} \cup Listens]
          /\ fate \in Seq({"waiting", "answered", "stopped", "refused"})
      BY <1>1 DEF WatchTypeOK
    <3>2. listenTargets[t] \in 1 .. Len(fate)
      BY <1>3, <2>1, <3>1 DEF Listens
    <3> HIDE DEF t
    <3>3. fate' \in Seq({"waiting", "answered", "stopped", "refused"}) /\ Len(fate') = Len(fate)
      BY <2>1, <3>1, <3>2
    <3> QED BY <1>3, <2>1, <3>1, <3>3
  <2>2. CASE listenTargets[t] = None /\ UNCHANGED <<listenTargets, fate>>
    BY <1>1, <2>2 DEF WatchTypeOK
  <2> QED BY <2>1, <2>2 DEF ProcessTargetError
<1>5. Listens' = Listens
  BY <1>4 DEF Listens
<1>6. WatchTypeOK'
  BY <1>1, <1>2, <1>4, <1>5 DEF WatchTypeOK
<1>7. Counted'
  <2> SUFFICES ASSUME NEW u \in Targets
               PROVE  pendingTargetResponses'[u] = Unanswered(u)'
    BY DEF Counted
  <2>1. /\ Asked(u)' = Asked(u) /\ Responses(accumulated, u)' = Responses(accumulated, u)
        /\ Responses(changes, u)' = Responses(changes', u)
    BY <1>1 DEF Asked, Responses
  <2> QED BY <1>1, <1>2, <2>1 DEF Inv, Counted, Unanswered
<1>8. ServesListen' /\ SentForListen' /\ ListensKnown' /\ LastRequest'
  BY <1>1, <1>4, <1>5, StreamAfter
<1>9. KeptForListen'
  <2> SUFFICES ASSUME NEW i \in DOMAIN accumulated, IsAnswer(accumulated[i]),
                      Asked(accumulated[i].target) = {},
                      Responses(changes', accumulated[i].target) = {},
                      \A j \in Responses(accumulated, accumulated[i].target) : j <= i
               PROVE  \/ listenTargets'[accumulated[i].target] = None
                      \/ listenTargets'[accumulated[i].target] = accumulated[i].listen
    BY <1>1 DEF KeptForListen, Agrees, Asked
  <2> DEFINE c == accumulated[i]
  <2>1. c.target \in Targets
    <3>1. c \in Change
      BY <1>1 DEF WatchTypeOK
    <3> QED BY <3>1, ChangeFields DEF IsAnswer
  <2>2. Responses(changes, c.target) = {}
    <3> SUFFICES ASSUME NEW j \in Responses(changes, c.target) PROVE FALSE
      OBVIOUS
    <3>1. j \in 1 .. Len(changes) /\ j # 1
      BY <1>2 DEF Responses
    <3>2. j - 1 \in Nat /\ j - 1 # 0 /\ (j - 1) + 1 = j
      BY <1>2, <3>1
    <3> QED BY <1>2, <3>2
  <2>3. Agrees(c.target, c.listen)
    BY <2>2 DEF Inv, KeptForListen
  <2> QED BY <1>4, <2>1, <2>3 DEF Agrees
<1>10. ClosedIsEmpty' /\ OwnChangesOnly'
  BY <1>1, <1>5 DEF Inv, ClosedIsEmpty, OwnChangesOnly
<1> QED BY <1>6, <1>7, <1>8, <1>9, <1>10 DEF Inv

\* A change is kept for later.
LEMMA KeepStep ==
    ASSUME Inv, WatchStreamDidChange, Head(changes).type # "refused",
           accumulated' = Append(accumulated, Head(changes)),
           UNCHANGED <<listenTargets, pendingTargetResponses, remoteVersion, idleTimer,
                       fate, heard>>
    PROVE  Inv'
<1> DEFINE h == Head(changes)
           n == Len(accumulated) + 1
<1>1. /\ WatchTypeOK /\ changes # << >> /\ changes' = Tail(changes)
      /\ UNCHANGED <<stream, requests, serving, due, sent, budget>>
  BY DEF Inv, WatchStreamDidChange
<1>2. /\ h = changes[1] /\ h \in Change /\ changes' \in Seq(Change)
      /\ \A u : Cardinality(Responses(changes', u))
                  = IF IsResponse(h, u) THEN Cardinality(Responses(changes, u)) - 1
                    ELSE Cardinality(Responses(changes, u))
      /\ \A u : \A i \in Nat :
           i \in Responses(changes', u) <=> i # 0 /\ i + 1 \in Responses(changes, u)
      /\ \A u : 1 \in Responses(changes, u) <=> IsResponse(h, u)
      /\ Len(changes) \in Nat /\ DOMAIN changes = 1 .. Len(changes) /\ 1 \in DOMAIN changes
  BY <1>1, Received
<1> HIDE DEF h
<1>3. /\ accumulated' \in Seq(Change) /\ Len(accumulated) \in Nat
      /\ DOMAIN accumulated = 1 .. Len(accumulated) /\ DOMAIN accumulated' = 1 .. n
      /\ \A i \in 1 .. Len(accumulated) : accumulated'[i] = accumulated[i]
      /\ accumulated'[n] = h
  <2>1. accumulated \in Seq(Change) /\ accumulated' = Append(accumulated, h)
    BY <1>1 DEF WatchTypeOK, h
  <2> QED BY <1>2, <2>1
<1>4. WatchTypeOK'
  BY <1>1, <1>2, <1>3 DEF WatchTypeOK, Listens
<1> HIDE DEF n
<1>5. \A u : Responses(accumulated', u) = IF IsResponse(h, u)
                                          THEN Responses(accumulated, u) \cup {n}
                                          ELSE Responses(accumulated, u)
  <2> TAKE u
  <2>1. ASSUME NEW i
        PROVE  i \in Responses(accumulated', u)
                 <=> i \in Responses(accumulated, u) \/ (IsResponse(h, u) /\ i = n)
    <3>1. CASE i \in 1 .. Len(accumulated)
      BY <1>3, <3>1 DEF Responses, n
    <3>2. CASE i = n
      BY <1>3, <3>2 DEF Responses, IsResponse, n
    <3>3. CASE i \notin 1 .. n
      BY <1>3, <3>3 DEF Responses, n
    <3> QED BY <1>3, <3>1, <3>2, <3>3 DEF n
  <2>2. CASE IsResponse(h, u)
    BY <2>1, <2>2
  <2>3. CASE ~IsResponse(h, u)
    BY <2>1, <2>3
  <2> QED BY <2>2, <2>3
<1>6. Counted'
  <2> SUFFICES ASSUME NEW u \in Targets
               PROVE  pendingTargetResponses[u] = Unanswered(u)'
    BY DEF Counted
  <2>1. /\ Asked(u)' = Asked(u) /\ Responses(accumulated, u)' = Responses(accumulated', u)
        /\ Responses(changes, u)' = Responses(changes', u)
    BY <1>1 DEF Asked, Responses
  <2>2. /\ Cardinality(Asked(u)) \in Nat /\ Cardinality(Responses(changes, u)) \in Nat
        /\ IsFiniteSet(Responses(accumulated, u))
        /\ Cardinality(Responses(accumulated, u)) \in Nat
        /\ n \notin Responses(accumulated, u)
    <3>1. /\ Responses(accumulated, u) \subseteq 1 .. Len(accumulated)
          /\ IsFiniteSet(Responses(accumulated, u))
          /\ Cardinality(Responses(accumulated, u)) \in Nat
          /\ Cardinality(Responses(changes, u)) \in Nat
      BY <1>1, ResponsesFinite DEF WatchTypeOK
    <3>2. n \notin 1 .. Len(accumulated)
      BY <1>3 DEF n
    <3> QED BY <1>1, <3>1, <3>2, AskedFinite
  <2>3. Cardinality(Responses(accumulated', u))
          = IF IsResponse(h, u) THEN Cardinality(Responses(accumulated, u)) + 1
            ELSE Cardinality(Responses(accumulated, u))
    BY <1>5, <2>2, FS_AddElement
  <2>4. pendingTargetResponses[u] = Cardinality(Asked(u)) + Cardinality(Responses(changes, u))
                                     + Cardinality(Responses(accumulated, u))
    BY DEF Inv, Counted, Unanswered
  <2>5. Unanswered(u)' = Cardinality(Asked(u)) + Cardinality(Responses(changes', u))
                           + Cardinality(Responses(accumulated', u))
    BY <2>1 DEF Unanswered
  <2> QED BY <1>2, <2>2, <2>3, <2>4, <2>5
<1>7. ServesListen' /\ SentForListen' /\ ListensKnown' /\ LastRequest'
  <2>1. \A t \in Targets : listenTargets'[t] \in {None, listenTargets[t]}
    OBVIOUS
  <2>2. Listens' = Listens
    BY DEF Listens
  <2> QED BY <1>1, <2>1, <2>2, StreamAfter
<1>8. KeptForListen'
  <2> SUFFICES ASSUME NEW i \in DOMAIN accumulated', IsAnswer(accumulated'[i]),
                      Asked(accumulated'[i].target) = {},
                      Responses(changes', accumulated'[i].target) = {},
                      \A j \in Responses(accumulated', accumulated'[i].target) : j <= i
               PROVE  Agrees(accumulated'[i].target, accumulated'[i].listen)
    BY <1>1 DEF KeptForListen, Agrees, Asked
  <2> DEFINE c == accumulated'[i]
             t == c.target
  <2>1. \A j \in Responses(changes, t) : j = 1
    <3> SUFFICES ASSUME NEW j \in Responses(changes, t), j # 1 PROVE FALSE
      OBVIOUS
    <3>1. j \in 1 .. Len(changes)
      BY <1>2 DEF Responses
    <3>2. j - 1 \in Nat /\ j - 1 # 0 /\ (j - 1) + 1 = j
      BY <1>2, <3>1
    <3>3. j - 1 \in Responses(changes', t)
      BY <1>2, <3>2
    <3> QED BY <3>3
  <2>2. CASE i = n
    <3>1. c = changes[1] /\ IsAnswer(changes[1])
      BY <1>2, <1>3, <2>2
    <3>2. \A j \in Responses(changes, t) : j <= 1
      BY <2>1
    <3>3. \/ Agrees(t, c.listen)
          \/ \E k \in 1 .. 1 : changes[k].type = "refused" /\ changes[k].target = t
      BY <1>2, <3>1, <3>2 DEF Inv, SentForListen
    <3>4. \A k \in 1 .. 1 : changes[k].type # "refused"
      BY <3>1 DEF IsAnswer
    <3> QED BY <3>3, <3>4
  <2>3. CASE i # n
    <3>1. i \in 1 .. Len(accumulated) /\ c = accumulated[i] /\ ~(n <= i)
      BY <1>3, <2>3 DEF n
    <3>2. ~IsResponse(h, t)
      BY <1>5, <3>1
    <3>3. Responses(changes, t) = {}
      BY <1>2, <2>1, <3>2
    <3>4. \A j \in Responses(accumulated, t) : j <= i
      BY <1>5
    <3> QED BY <1>3, <3>1, <3>3, <3>4 DEF Inv, KeptForListen
  <2> QED BY <2>2, <2>3
<1>9. ClosedIsEmpty' /\ OwnChangesOnly'
  <2>1. stream = "open"
    BY <1>1 DEF Inv, ClosedIsEmpty
  <2> QED BY <1>1, <2>1 DEF Inv, ClosedIsEmpty, OwnChangesOnly, Listens
<1> QED BY <1>4, <1>6, <1>7, <1>8, <1>9 DEF Inv

\* A consistent snapshot: the counts go down by the answers in the list, and
\* each listen is given its own changes.
LEMMA SnapshotStep ==
    ASSUME Inv, WatchStreamDidChange, Head(changes).type = "snapshot",
           ProcessBatchedWatchChanges(Append(accumulated, Head(changes)), Head(changes).version)
    PROVE  Inv'
<1> DEFINE h == Head(changes)
           list == Append(accumulated, h)
           a == Aggregate(list)
           Reached(n) == {t \in Targets : IsActive(a.count, t) /\ listenTargets[t] = n}
<1>1. /\ WatchTypeOK /\ changes # << >> /\ changes' = Tail(changes)
      /\ UNCHANGED <<stream, requests, serving, due, sent, budget, listenTargets, idleTimer>>
      /\ pendingTargetResponses' = a.count /\ accumulated' = << >>
      /\ remoteVersion' = h.version
      /\ heard' = [n \in Listens |-> heard[n] \cup UNION {a.given[t] : t \in Reached(n)}]
      /\ fate' = [n \in Listens |->
                    IF fate[n] = "waiting" /\ Reached(n) \cap a.current # {}
                    THEN "answered" ELSE fate[n]]
  BY DEF Inv, WatchStreamDidChange, ProcessBatchedWatchChanges
<1>2. /\ h \in Change /\ changes' \in Seq(Change)
      /\ \A u : Cardinality(Responses(changes', u)) = Cardinality(Responses(changes, u))
  BY <1>1, Received DEF IsResponse
<1>3. h.version \in 1 .. MaxVersion
  BY <1>2, ChangeFields
<1>4. /\ a \in AggregateType
      /\ \A t \in Targets :
           /\ a.count[t] = Cardinality(Asked(t)) + Cardinality(Responses(changes, t))
           /\ listenTargets[t] # None => a.given[t] \subseteq {listenTargets[t]}
  BY <1>2, AggregateFacts
<1> HIDE DEF a
<1>5. a.count \in [Targets -> Nat]
  <2>1. a.count \in [Targets -> Int]
    BY <1>4 DEF AggregateType
  <2>2. \A t \in Targets : a.count[t] \in Nat
    <3>1. \A t : Cardinality(Asked(t)) \in Nat /\ Cardinality(Responses(changes, t)) \in Nat
      BY <1>1, AskedFinite, ResponsesFinite DEF WatchTypeOK
    <3> QED BY <1>4, <3>1
  <2> QED BY <2>1, <2>2
<1>6. /\ Len(fate) \in Nat /\ fate' \in Seq({"waiting", "answered", "stopped", "refused"})
      /\ Len(fate') = Len(fate) /\ Listens' = Listens
  <2>1. Len(fate) \in Nat /\ \A n \in 1 .. Len(fate) :
                                fate[n] \in {"waiting", "answered", "stopped", "refused"}
    BY <1>1 DEF WatchTypeOK
  <2>2. /\ fate' = [n \in 1 .. Len(fate) |-> fate'[n]]
        /\ \A n \in 1 .. Len(fate) : fate'[n] \in {"waiting", "answered", "stopped", "refused"}
    BY <1>1, <2>1 DEF Listens
  <2>3. /\ fate' \in Seq({"waiting", "answered", "stopped", "refused"})
        /\ Len(fate') = Len(fate)
    BY <2>1, <2>2
  <2> QED BY <2>1, <2>3 DEF Listens
<1>7. OwnChangesOnly' /\ heard' \in [Listens' -> SUBSET Listens']
  <2>1. ASSUME NEW n \in Listens, NEW t \in Reached(n)
        PROVE  a.given[t] \subseteq {n}
    <3>1. t \in Targets /\ listenTargets[t] = n /\ n # None
      BY <1>6 DEF Listens, None
    <3> QED BY <1>4, <3>1
  <2>2. ASSUME NEW n \in Listens
        PROVE  heard'[n] \subseteq {n}
    <3>1. heard[n] \subseteq {n}
      BY DEF Inv, OwnChangesOnly
    <3>2. UNION {a.given[t] : t \in Reached(n)} \subseteq {n}
      <4> HIDE DEF Reached
      <4> QED BY <2>1
    <3>3. heard'[n] = heard[n] \cup UNION {a.given[t] : t \in Reached(n)}
      BY <1>1
    <3> HIDE DEF Reached
    <3> QED BY <3>1, <3>2, <3>3
  <2>3. heard' = [n \in Listens |-> heard'[n]]
    BY <1>1
  <2> QED BY <1>6, <2>2, <2>3 DEF OwnChangesOnly
<1> HIDE DEF Reached, list
<1>8. WatchTypeOK'
  <2>1. accumulated' \in Seq(Change)
    BY <1>1
  <2>2. pendingTargetResponses' \in [Targets -> Nat] /\ remoteVersion' \in 0 .. MaxVersion
    BY <1>1, <1>3, <1>5, WatchAssumption
  <2> QED BY <1>1, <1>2, <1>6, <1>7, <2>1, <2>2 DEF WatchTypeOK
<1>9. Counted'
  <2> SUFFICES ASSUME NEW u \in Targets
               PROVE  pendingTargetResponses'[u] = Unanswered(u)'
    BY DEF Counted
  <2>1. /\ Asked(u)' = Asked(u) /\ Responses(accumulated, u)' = {}
        /\ Responses(changes, u)' = Responses(changes', u)
    BY <1>1 DEF Asked, Responses
  <2>2. Cardinality(Responses(accumulated, u)') = 0
    BY <2>1, FS_EmptySet
  <2>3. Cardinality(Asked(u)) \in Nat /\ Cardinality(Responses(changes, u)) \in Nat
    BY <1>1, AskedFinite, ResponsesFinite DEF WatchTypeOK
  <2>4. Unanswered(u)' = Cardinality(Asked(u)) + Cardinality(Responses(changes', u)) + 0
    BY <2>1, <2>2 DEF Unanswered
  <2> QED BY <1>1, <1>2, <1>4, <2>3, <2>4
<1>10. ServesListen' /\ SentForListen' /\ ListensKnown' /\ LastRequest'
  <2>1. \A t \in Targets : listenTargets'[t] \in {None, listenTargets[t]}
    BY <1>1
  <2>2. UNCHANGED <<requests, serving>>
    BY <1>1
  <2> QED BY <1>1, <1>6, <2>1, <2>2, StreamAfter
<1>11. KeptForListen' /\ ClosedIsEmpty'
  <2>1. stream = "open"
    BY <1>1 DEF Inv, ClosedIsEmpty
  <2> QED BY <1>1, <2>1 DEF KeptForListen, ClosedIsEmpty
<1> QED BY <1>7, <1>8, <1>9, <1>10, <1>11 DEF Inv

-----------------------------------------------------------------------------
\* Every step keeps the invariant.
LEMMA InvStep == Inv /\ [Next]_vars => Inv'
<1> SUFFICES ASSUME Inv, [Next]_vars PROVE Inv'
  OBVIOUS
<1>1. CASE \E t \in Targets : ListenToTarget(t) \/ StopListening(t) \/ ServerAnswers(t)
  BY <1>1, ListenStep, StopStep, AnswerStep
<1>2. CASE StreamDidOpen
  BY <1>2, OpenStep
<1>3. CASE BreakStream \/ CloseIdleStream
  <2>1. CloseStream /\ \E e \in Event : Spend(e)
    BY <1>3 DEF BreakStream, CloseIdleStream, Event
  <2>2. budget' \in [Event -> Nat]
    BY <2>1, SpendTyped DEF Inv
  <2> QED BY <2>1, <2>2, CloseStep
<1>4. CASE ServerAdds \/ ServerRefuses \/ ServerRemoves
  BY <1>4, RequestSteps
<1>5. CASE ServerCatchesUp
  BY <1>5, CatchUpStep
<1>6. CASE WatchStreamDidChange
  <2>1. \/ Head(changes).type = "refused" /\ ProcessTargetError(Head(changes).target)
        \/ /\ Head(changes).type = "snapshot"
           /\ ProcessBatchedWatchChanges(Append(accumulated, Head(changes)),
                                         Head(changes).version)
        \/ /\ Head(changes).type # "refused"
           /\ accumulated' = Append(accumulated, Head(changes))
           /\ UNCHANGED <<listenTargets, pendingTargetResponses, remoteVersion, idleTimer,
                          fate, heard>>
    BY <1>6 DEF WatchStreamDidChange
  <2> QED BY <1>6, <2>1, RefusalStep, SnapshotStep, KeepStep
<1>7. CASE UNCHANGED vars
  <2>1. WatchTypeOK' /\ ClosedIsEmpty' /\ Counted'
    BY <1>7 DEF vars, Inv, WatchTypeOK, Listens, ClosedIsEmpty, Counted, Unanswered, Asked,
       Responses
  <2>2. ListensKnown' /\ LastRequest' /\ ServesListen' /\ OwnChangesOnly'
    BY <1>7 DEF vars, Inv, Listens, ListensKnown, LastRequest, ServesListen, OwnChangesOnly,
       Asked, Agrees, Refused
  <2>3. SentForListen' /\ KeptForListen'
    BY <1>7 DEF vars, Inv, SentForListen, KeptForListen, Asked, Agrees, Responses
  <2> QED BY <2>1, <2>2, <2>3 DEF Inv
<1> QED BY <1>1, <1>2, <1>3, <1>4, <1>5, <1>6, <1>7 DEF Next

\* The count of each target is that of the requests of it whose answer has not
\* been taken yet, whatever comes between, as the comment on
\* pendingTargetResponses says.
THEOREM CountsAreOfUnanswered == Spec => []CountsUnanswered
<1>1. Inv => CountsUnanswered
  BY DEF Inv, Counted, CountsUnanswered
<1> QED BY <1>1, InvInit, InvStep, PTL DEF Spec

\* And so a listen is never given the changes of another listen under the same
\* target id: isActiveTarget: looks at the count only, and that is enough.
THEOREM OnlyOwnChanges == Spec => []OwnChangesOnly
<1>1. Inv => OwnChangesOnly
  BY DEF Inv
<1> QED BY <1>1, InvInit, InvStep, PTL DEF Spec

=============================================================================
