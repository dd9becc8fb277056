---------------------------- MODULE MemoryProofs ----------------------------
(***************************************************************************)
(* What the manager has in memory and what the server has, for any number  *)
(* of users, documents and events: when nothing is under way they are the  *)
(* same.  Nothing the program does sees to that at once.  A creation waits *)
(* on the worker queue and in the mutation queue; a deletion and an edit   *)
(* first look the document up, and write it in a callback that reads the   *)
(* object as it is by then.                                                *)
(*                                                                         *)
(* The device's own view of a document, the cached one under the writes    *)
(* of the mutation queue, does not change on the way to the server.  So    *)
(* the array is compared with that view, and the two agree but for what    *)
(* is under way before it: each entry's document is seen or to be filed,   *)
(* each transaction taken out of the array has no document or a deletion   *)
(* that will find it, and each entry's content is what its document shows  *)
(* when the worker queue is run, or a lookup is to come that writes it.    *)
(*                                                                         *)
(* First what the program is in while one listener waits for a user who    *)
(* waits and nothing is refused (Background), then the agreement and, one  *)
(* lemma per step, that it stays; the load that opens the table makes it.  *)
(***************************************************************************)
EXTENDS MoneyAppProofs

-----------------------------------------------------------------------------
\* What a device shows of a document.

\* It shows one document only.
LEMMA OverlaidOnce ==
    ASSUME NEW q \in Seq(Mutation), NEW doc, NEW d, NEW v, NEW w,
           Overlaid(q, doc, d, v), Overlaid(q, doc, d, w)
    PROVE  v = w
<1>0. DOMAIN q = 1 .. Len(q) /\ Len(q) \in Nat
  OBVIOUS
<1>p1. PICK p \in Nat, k \in Nat : \E b :
        BasedOn(q, doc, d, p, b) /\ PatchedBy(q, d, p, k)
        /\ v = IF k = 0 THEN b ELSE ApplyTo(q[k], b)
  BY DEF Overlaid
<1>1. PICK b :
        BasedOn(q, doc, d, p, b) /\ PatchedBy(q, d, p, k)
        /\ v = IF k = 0 THEN b ELSE ApplyTo(q[k], b)
  BY <1>p1
<1>p2. PICK r \in Nat, l \in Nat : \E e :
        BasedOn(q, doc, d, r, e) /\ PatchedBy(q, d, r, l)
        /\ w = IF l = 0 THEN e ELSE ApplyTo(q[l], e)
  BY DEF Overlaid
<1>2. PICK e :
        BasedOn(q, doc, d, r, e) /\ PatchedBy(q, d, r, l)
        /\ w = IF l = 0 THEN e ELSE ApplyTo(q[l], e)
  BY <1>p2
<1>3. p = r
  <2>1. ~(p > r) /\ ~(r > p)
    BY <1>0, <1>1, <1>2 DEF BasedOn
  <2> QED BY <2>1
<1>4. b = e
  BY <1>0, <1>1, <1>2, <1>3 DEF BasedOn
<1>5. k = l
  <2>1. ~(k > l) /\ ~(l > k)
    BY <1>0, <1>1, <1>2, <1>3 DEF PatchedBy
  <2> QED BY <2>1
<1> QED BY <1>1, <1>2, <1>4, <1>5

\* How writes follow each other: a replacement does not look at what was there,
\* the later of two patches counts.
LEMMA WritesCompose ==
    ASSUME NEW m \in Mutation, NEW doc \in DocState
    PROVE  /\ m.op # "patch" => \A other \in DocState : ApplyTo(m, doc) = ApplyTo(m, other)
           /\ \A n \in Mutation : m.op = "patch" /\ n.op = "patch"
                 => ApplyTo(m, ApplyTo(n, doc)) = ApplyTo(m, doc)
<1>1. ASSUME m.op # "patch", NEW other \in DocState
      PROVE  ApplyTo(m, doc) = ApplyTo(m, other)
  BY <1>1 DEF ApplyTo, Precondition, Mutation
<1>2. ASSUME NEW n \in Mutation, m.op = "patch", n.op = "patch"
      PROVE  ApplyTo(m, ApplyTo(n, doc)) = ApplyTo(m, doc)
  <2>1. CASE doc = Absent
    BY <1>2, <2>1 DEF ApplyTo, Precondition
  <2>2. CASE doc # Absent
    <3>1. doc \in Document /\ n.content \in StoredContent /\ m.content \in StoredContent
      BY <1>2, <2>2 DEF DocState, Mutation
    <3>2. ApplyTo(n, doc) = [doc EXCEPT !.content = n.content]
          /\ ApplyTo(m, doc) = [doc EXCEPT !.content = m.content]
      BY <1>2, <2>2 DEF ApplyTo, Precondition
    <3>3. [doc EXCEPT !.content = n.content] \in Document
      BY <3>1 DEF Document
    <3>4. [doc EXCEPT !.content = n.content] # Absent
      BY <3>3, MarkerAssumption
    <3>5. ApplyTo(m, ApplyTo(n, doc)) = [[doc EXCEPT !.content = n.content] EXCEPT !.content = m.content]
      BY <1>2, <3>2, <3>4 DEF ApplyTo, Precondition
    <3> QED BY <3>1, <3>2, <3>5 DEF Document
  <2> QED BY <2>1, <2>2
<1> QED BY <1>1, <1>2

\* A document under the other writes, once the first was applied to it, is what
\* it was under them all.
LEMMA OverlaidTail ==
    ASSUME NEW q \in Seq(Mutation), q # << >>, NEW doc \in DocState, NEW d, NEW v,
           Overlaid(q, doc, d, v)
    PROVE  Overlaid(Tail(q), IF Head(q).key = d THEN ApplyTo(Head(q), doc) ELSE doc, d, v)
<1> DEFINE rest == Tail(q)
           next == IF Head(q).key = d THEN ApplyTo(Head(q), doc) ELSE doc
<1>p1. PICK p \in Nat, k \in Nat : \E b :
        BasedOn(q, doc, d, p, b) /\ PatchedBy(q, d, p, k)
        /\ v = IF k = 0 THEN b ELSE ApplyTo(q[k], b)
  BY DEF Overlaid
<1>1. PICK b :
        BasedOn(q, doc, d, p, b) /\ PatchedBy(q, d, p, k)
        /\ v = IF k = 0 THEN b ELSE ApplyTo(q[k], b)
  BY <1>p1
<1>2. /\ DOMAIN q = 1 .. Len(q) /\ Len(q) \in Nat \ {0} /\ Head(q) = q[1] /\ q[1] \in Mutation
      /\ rest \in Seq(Mutation) /\ DOMAIN rest = 1 .. Len(q) - 1
      /\ \A j \in DOMAIN rest : rest[j] = q[j + 1] /\ j + 1 \in DOMAIN q
      /\ \A j \in DOMAIN q : j > 1 => j - 1 \in DOMAIN rest /\ rest[j - 1] = q[j]
      /\ \A j \in DOMAIN q : q[j] \in Mutation
  OBVIOUS
<1>3. next \in DocState
  BY <1>2, ApplyToType
<1>a. next = IF q[1].key = d THEN ApplyTo(q[1], doc) ELSE doc
  BY <1>2
<1>b. Mutation = Mutation /\ \A m \in Mutation : m.op \in {"set", "patch", "delete"}
  BY DEF Mutation
<1> HIDE DEF rest, next
<1> DEFINE r == IF p > 1 THEN p - 1 ELSE 0
           l == IF k > 1 THEN k - 1 ELSE 0
           e == IF p > 1 THEN b ELSE next
<1>4. r \in Nat /\ l \in Nat
  OBVIOUS
<1>c. k > 1 /\ k \in DOMAIN q => l # 0 /\ l = k - 1 /\ rest[l] = q[k]
  <2> SUFFICES ASSUME k > 1, k \in DOMAIN q PROVE l # 0 /\ l = k - 1 /\ rest[l] = q[k]
    OBVIOUS
  <2>1. l = k - 1 /\ l # 0
    OBVIOUS
  <2>2. rest[k - 1] = q[k]
    BY <1>2
  <2> QED BY <2>1, <2>2
<1>d. k = 0 => l = 0
  OBVIOUS
<1>5. BasedOn(rest, next, d, r, e)
  <2>1. \A j \in DOMAIN rest : j > r => ~Replaces(rest[j], d)
    BY <1>1, <1>2 DEF BasedOn
  <2>2. CASE p > 1
    <3>1. p \in DOMAIN q /\ Replaces(q[p], d) /\ b = ApplyTo(q[p], doc)
      BY <1>1, <2>2 DEF BasedOn
    <3>2. ApplyTo(q[p], doc) = ApplyTo(q[p], next)
      BY <1>2, <1>3, <3>1, WritesCompose DEF Replaces
    <3> QED BY <1>2, <2>1, <2>2, <3>1, <3>2 DEF BasedOn
  <2>3. CASE ~(p > 1)
    BY <2>1, <2>3 DEF BasedOn
  <2> QED BY <2>2, <2>3
<1>6. PatchedBy(rest, d, r, l)
  <2>1. \A j \in DOMAIN rest : j > r /\ j > l => ~Patches(rest[j], d)
    BY <1>1, <1>2 DEF PatchedBy
  <2>2. ASSUME l # 0
        PROVE  l \in DOMAIN rest /\ l > r /\ Patches(rest[l], d)
    <3>1. k > 1 /\ l = k - 1
      BY <2>2
    <3>2. k \in DOMAIN q /\ k > p /\ Patches(q[k], d)
      BY <1>1, <3>1 DEF PatchedBy
    <3>3. l \in DOMAIN rest /\ rest[l] = q[k]
      BY <1>2, <3>1, <3>2
    <3> QED BY <3>1, <3>2, <3>3
  <2> QED BY <2>1, <2>2 DEF PatchedBy
<1>7. v = IF l = 0 THEN e ELSE ApplyTo(rest[l], e)
  <2>1. CASE p > 1
    <3>1. (k = 0 /\ l = 0) \/ (k > 1 /\ l # 0 /\ rest[l] = q[k])
      BY <1>1, <1>c, <1>d, <2>1 DEF PatchedBy
    <3> QED BY <1>1, <2>1, <3>1
  <2>2. CASE p = 1
    <3>1. (k = 0 /\ l = 0) \/ (k > 1 /\ l # 0 /\ rest[l] = q[k])
      BY <1>1, <1>c, <1>d, <2>2 DEF PatchedBy
    <3>2. b = ApplyTo(q[1], doc) /\ q[1].key = d
      BY <1>1, <2>2 DEF BasedOn, Replaces
    <3>3. b = next
      BY <3>2, <1>a
    <3> QED BY <1>1, <2>2, <3>1, <3>3
  <2>3. CASE p = 0
    <3>1. b = doc /\ ~Replaces(q[1], d)
      BY <1>1, <1>2, <2>3 DEF BasedOn
    <3>2. CASE k = 0
      <4>1. ~Patches(q[1], d)
        BY <1>1, <1>2, <2>3, <3>2 DEF PatchedBy
      <4>2. q[1].key # d
        BY <3>1, <4>1 DEF Replaces, Patches
      <4> QED BY <1>1, <1>a, <2>3, <3>1, <3>2, <4>2
    <3>3. CASE k = 1
      <4>1. Patches(q[1], d)
        BY <1>1, <3>3 DEF PatchedBy
      <4> QED BY <1>1, <1>a, <2>3, <3>1, <3>3, <4>1 DEF Patches
    <3>4. CASE k > 1
      <4>1. k \in DOMAIN q /\ Patches(q[k], d) /\ l # 0 /\ rest[l] = q[k]
        BY <1>1, <1>c, <3>4 DEF PatchedBy
      <4>2. ApplyTo(q[k], next) = ApplyTo(q[k], doc)
        <5>1. CASE q[1].key = d
          <6>1. q[1].op = "patch"
            BY <3>1, <5>1 DEF Replaces
          <6> QED BY <1>2, <1>a, <4>1, <5>1, <6>1, WritesCompose DEF Patches
        <5>2. CASE q[1].key # d
          BY <1>a, <5>2
        <5> QED BY <5>1, <5>2
      <4> QED BY <1>1, <2>3, <3>1, <3>4, <4>1, <4>2
    <3> QED BY <3>2, <3>3, <3>4
  <2> QED BY <2>1, <2>2, <2>3
<1> HIDE DEF r, l, e
<1>8. Overlaid(rest, next, d, v)
  BY <1>4, <1>5, <1>6, <1>7 DEF Overlaid
<1> QED BY <1>8 DEF rest, next

\* One more write is applied to what is seen under the others.
LEMMA OverlaidAppend ==
    ASSUME NEW q \in Seq(Mutation), NEW m \in Mutation, NEW doc \in DocState, NEW d, NEW v,
           Overlaid(q, doc, d, v)
    PROVE  Overlaid(Append(q, m), doc, d, IF m.key = d THEN ApplyTo(m, v) ELSE v)
<1> DEFINE more == Append(q, m)
           seen == IF m.key = d THEN ApplyTo(m, v) ELSE v
           last == Len(q) + 1
<1>p1. PICK p \in Nat, k \in Nat : \E b :
        BasedOn(q, doc, d, p, b) /\ PatchedBy(q, d, p, k)
        /\ v = IF k = 0 THEN b ELSE ApplyTo(q[k], b)
  BY DEF Overlaid
<1>1. PICK b :
        BasedOn(q, doc, d, p, b) /\ PatchedBy(q, d, p, k)
        /\ v = IF k = 0 THEN b ELSE ApplyTo(q[k], b)
  BY <1>p1
<1>2. /\ DOMAIN q = 1 .. Len(q) /\ Len(q) \in Nat
      /\ DOMAIN more = 1 .. last /\ last \in DOMAIN more /\ last \in Nat \ {0} /\ more[last] = m
      /\ \A j \in DOMAIN q : more[j] = q[j] /\ j \in DOMAIN more /\ j < last /\ q[j] \in Mutation
      /\ \A j \in DOMAIN more : j \in DOMAIN q \/ j = last
  OBVIOUS
<1>3. p = 0 \/ p \in DOMAIN q
  BY <1>1 DEF BasedOn
<1>4. k = 0 \/ k \in DOMAIN q
  BY <1>1 DEF PatchedBy
<1>5. b \in DocState
  BY <1>1, <1>2, ApplyToType DEF BasedOn
<1>6. v \in DocState
  BY <1>1, <1>2, <1>4, <1>5, ApplyToType
<1>7. seen = IF m.key = d THEN ApplyTo(m, v) ELSE v
  OBVIOUS
<1> HIDE DEF more, seen, last
<1>8. CASE m.key # d
  <2>1. ~Replaces(m, d) /\ ~Patches(m, d)
    BY <1>8 DEF Replaces, Patches
  <2>2. BasedOn(more, doc, d, p, b)
    BY <1>1, <1>2, <2>1 DEF BasedOn
  <2>3. PatchedBy(more, d, p, k)
    BY <1>1, <1>2, <2>1 DEF PatchedBy
  <2>4. seen = IF k = 0 THEN b ELSE ApplyTo(more[k], b)
    BY <1>1, <1>2, <1>4, <1>7, <1>8
  <2> QED BY <2>2, <2>3, <2>4 DEF Overlaid, more, seen
<1>9. CASE m.key = d /\ m.op # "patch"
  <2>1. Replaces(m, d) /\ ApplyTo(m, v) = ApplyTo(m, doc)
    BY <1>6, <1>9, WritesCompose DEF Replaces
  <2>2. BasedOn(more, doc, d, last, ApplyTo(m, doc))
    BY <1>2, <2>1 DEF BasedOn
  <2>3. PatchedBy(more, d, last, 0)
    BY <1>2 DEF PatchedBy
  <2>4. seen = ApplyTo(m, doc)
    BY <1>7, <1>9, <2>1
  <2> QED BY <1>2, <2>2, <2>3, <2>4 DEF Overlaid, more, seen
<1>10. CASE m.key = d /\ m.op = "patch"
  <2>1. Patches(m, d) /\ ~Replaces(m, d)
    BY <1>10 DEF Replaces, Patches
  <2>2. BasedOn(more, doc, d, p, b)
    BY <1>1, <1>2, <2>1 DEF BasedOn
  <2>3. last > p
    BY <1>2, <1>3
  <2>4. PatchedBy(more, d, p, last)
    BY <1>2, <2>1, <2>3 DEF PatchedBy
  <2>5. seen = ApplyTo(m, b)
    <3>1. CASE k = 0
      BY <1>1, <1>7, <1>10, <3>1
    <3>2. CASE k # 0
      <4>1. k \in DOMAIN q /\ q[k] \in Mutation /\ q[k].op = "patch"
        BY <1>1, <1>2, <3>2 DEF PatchedBy, Patches
      <4>2. ApplyTo(m, ApplyTo(q[k], b)) = ApplyTo(m, b)
        BY <1>5, <1>10, <4>1, WritesCompose
      <4> QED BY <1>1, <1>7, <1>10, <3>2, <4>2
    <3> QED BY <3>1, <3>2
  <2> QED BY <1>2, <2>2, <2>4, <2>5 DEF Overlaid, more, seen
<1> QED BY <1>8, <1>9, <1>10

\* With or without a write applied to the document, what is seen has its type.
LEMMA SeenAfterWrites ==
    ASSUME NEW q \in Seq(Mutation), NEW doc \in DocState, NEW d
    PROVE  /\ q # << >> =>
                Written(Tail(q), IF Head(q).key = d THEN ApplyTo(Head(q), doc) ELSE doc, d)
                    = Written(q, doc, d)
           /\ \A m \in Mutation :
                Written(Append(q, m), doc, d) = IF m.key = d THEN ApplyTo(m, Written(q, doc, d))
                                             ELSE Written(q, doc, d)
<1>1. Overlaid(q, doc, d, Written(q, doc, d))
  BY WrittenIsOverlaid
<1>2. ASSUME q # << >>
      PROVE  Written(Tail(q), IF Head(q).key = d THEN ApplyTo(Head(q), doc) ELSE doc, d)
                 = Written(q, doc, d)
  <2> DEFINE next == IF Head(q).key = d THEN ApplyTo(Head(q), doc) ELSE doc
  <2>1. Tail(q) \in Seq(Mutation)
    BY <1>2
  <2>2. Overlaid(Tail(q), next, d, Written(q, doc, d))
    BY <1>1, <1>2, OverlaidTail
  <2> HIDE DEF next
  <2>3. Overlaid(Tail(q), next, d, Written(Tail(q), next, d))
    BY <2>1, WrittenIsOverlaid
  <2>4. Written(Tail(q), next, d) = Written(q, doc, d)
    BY <2>1, <2>2, <2>3, OverlaidOnce
  <2> QED BY <2>4 DEF next
<1>3. ASSUME NEW m \in Mutation
      PROVE  Written(Append(q, m), doc, d) = IF m.key = d THEN ApplyTo(m, Written(q, doc, d))
                                          ELSE Written(q, doc, d)
  <2> DEFINE next == IF m.key = d THEN ApplyTo(m, Written(q, doc, d)) ELSE Written(q, doc, d)
  <2>1. Append(q, m) \in Seq(Mutation)
    OBVIOUS
  <2>2. Overlaid(Append(q, m), doc, d, next)
    BY <1>1, OverlaidAppend
  <2> HIDE DEF next
  <2>3. Overlaid(Append(q, m), doc, d, Written(Append(q, m), doc, d))
    BY <2>1, WrittenIsOverlaid
  <2>4. Written(Append(q, m), doc, d) = next
    BY <2>1, <2>2, <2>3, OverlaidOnce
  <2> QED BY <2>4 DEF next
<1> QED BY <1>2, <1>3

-----------------------------------------------------------------------------
\* What is read back is what would be read back again.
LEMMA ReadBackTwice == \A s \in StoredContent : Decode(Encode(Decode(s))) = Decode(s)
<1> SUFFICES ASSUME NEW s \in StoredContent
             PROVE  Decode(Encode(Decode(s))) = Decode(s)
  OBVIOUS
<1> DEFINE t == setTransactionType(s.transactionType)
           c == setCategory(s.category)
<1>1. Decode(s) = [transactionType |-> t, category |-> c,
                   amount |-> s.amount, date |-> s.date]
  BY DEF Decode
<1>2. setTransactionType(IF t = Nil THEN NSNull ELSE TypeDescription(t)) = t
  <2>1. CASE \E r \in ReadableTypes : TypeDescription(r) = s.transactionType
    <3>1. t \in ReadableTypes /\ TypeDescription(t) = s.transactionType
      BY <2>1 DEF setTransactionType
    <3>2. t # Nil
      BY <3>1, NilAssumption DEF ReadableTypes, TransactionType
    <3> QED BY <3>1, <3>2
  <2>2. CASE ~\E r \in ReadableTypes : TypeDescription(r) = s.transactionType
    <3>1. t = Nil
      BY <2>2 DEF setTransactionType
    <3>2. ~\E r \in ReadableTypes : TypeDescription(r) = NSNull
      BY NilAssumption DEF ReadableTypes, TransactionType, TypeDescriptions
    <3> QED BY <3>1, <3>2 DEF setTransactionType
  <2> QED BY <2>1, <2>2
<1>3. setCategory(IF c = Nil THEN NSNull ELSE CategoryDescription(c)) = c
  <2>1. CASE \E r \in ReadableCategories : CategoryDescription(r) = s.category
    <3>1. c \in ReadableCategories /\ CategoryDescription(c) = s.category
      BY <2>1 DEF setCategory
    <3>2. c # Nil
      BY <3>1, NilAssumption DEF ReadableCategories
    <3> QED BY <3>1, <3>2
  <2>2. CASE ~\E r \in ReadableCategories : CategoryDescription(r) = s.category
    <3>1. c = Nil
      BY <2>2 DEF setCategory
    <3>2. ~\E r \in ReadableCategories : CategoryDescription(r) = NSNull
      BY NilAssumption DEF ReadableCategories, CategoryDescriptions
    <3> QED BY <3>1, <3>2 DEF setCategory
  <2> QED BY <2>1, <2>2
<1> HIDE DEF t, c
<1>4. Encode(Decode(s)) =
        [transactionType |-> IF t = Nil THEN NSNull ELSE TypeDescription(t),
         category |-> IF c = Nil THEN NSNull ELSE CategoryDescription(c),
         amount |-> s.amount, date |-> s.date]
  BY <1>1 DEF Encode
<1>5. Decode(Encode(Decode(s))) = [transactionType |-> t, category |-> c,
                                   amount |-> s.amount, date |-> s.date]
  BY <1>2, <1>3, <1>4 DEF Decode
<1> QED BY <1>1, <1>5

-----------------------------------------------------------------------------
\* What is under way, as sets.

Tasks == {worker[i] : i \in DOMAIN worker}
Callbacks(q) == {listeners[q][i] : i \in DOMAIN listeners[q]}
Snapshots == {main[i] : i \in {j \in DOMAIN main : main[j].kind = "snapshot"}}

\* The callback c has been asked to be run with the answer to q.
Pending(q, c) == ListenTask(q, c) \in Tasks \/ c \in Callbacks(q)

\* The steps that put tasks on the worker queue.
Tasking == \/ Notifying \/ AddTransaction \/ SaveEdit \/ DeleteTransaction
           \/ RunRemoveCallback \/ RunUpdateCallback

Taking == UserDidChange \/ WriteMutations \/ AddListener

Answering(q) == RaiseFromServer(q) \/ RaiseFromCache(q)

\* What a step does to the worker queue.
LEMMA TaskSteps ==
    ASSUME [Next]_vars
    PROVE  UNCHANGED worker \/ Taking \/ Tasking \/ Crash
<1>1. CASE UserStep
  BY <1>1 DEF UserStep, SendSignIn, SignOut, ReturnFromSignUp, OpenTable, storeVars, Tasking
<1>2. CASE MainStep
  BY <1>2 DEF MainStep, RunLoadCallback, setLoadedTransactions, RunErrorCallback, Tasking,
              Notifying
<1>3. CASE AuthStep
  BY <1>3 DEF AuthStep, LoadKeychain, RefreshToken, SignOutByForce, SignInAnswered, SignInRefused,
              storeVars
<1>4. CASE Frame /\ StoreStep({Encode(c) : c \in NewContents})
  BY <1>4 DEF StoreStep, RaiseFromServer, RaiseFromCache, RejectListen, ApplySuccessfulWrite,
              CommitWithoutResponse, RejectFailedWrite, GoOffline, GoOnline, OtherDevice, Taking
<1>5. CASE UNCHANGED vars
  BY <1>5 DEF vars
<1> QED BY <1>1, <1>2, <1>3, <1>4, <1>5 DEF Next

\* A task is taken, or some are appended.
LEMMA TaskPositions ==
    ASSUME IInv
    PROVE  /\ Taking => TakesTask
           /\ TakesTask =>
                /\ worker # << >> /\ 1 \in DOMAIN worker /\ Head(worker) = worker[1]
                /\ \A i \in DOMAIN worker' : /\ i \in Nat \ {0} /\ i + 1 \in DOMAIN worker
                                             /\ worker'[i] = worker[i + 1]
                /\ \A i \in DOMAIN worker :
                     i = 1 \/ (i > 1 /\ i - 1 \in DOMAIN worker' /\ worker'[i - 1] = worker[i])
           /\ \A T : \A t \in Seq(T) : worker' = worker \o t =>
                /\ \A i \in DOMAIN worker : i \in DOMAIN worker' /\ worker'[i] = worker[i]
                /\ \A i \in DOMAIN worker' :
                     \/ i \in DOMAIN worker /\ worker'[i] = worker[i]
                     \/ /\ \A j \in DOMAIN worker : j < i
                        /\ i - Len(worker) \in DOMAIN t /\ worker'[i] = t[i - Len(worker)]
                /\ \A j \in DOMAIN t : /\ Len(worker) + j \in DOMAIN worker'
                                       /\ worker'[Len(worker) + j] = t[j]
<1> DEFINE S == Task(Len(heap))
<1>1. worker \in Seq(S) /\ DOMAIN worker = 1 .. Len(worker) /\ Len(worker) \in Nat
  BY DEF IInv, TypeOK, StoreTypeOK
<1> HIDE DEF S
<1>2. Taking => TakesTask
  BY DEF Taking, UserDidChange, WriteMutations, AddListener, TakesTask
<1>3. ASSUME TakesTask
      PROVE  /\ worker # << >> /\ 1 \in DOMAIN worker /\ Head(worker) = worker[1]
             /\ \A i \in DOMAIN worker' : /\ i \in Nat \ {0} /\ i + 1 \in DOMAIN worker
                                          /\ worker'[i] = worker[i + 1]
             /\ \A i \in DOMAIN worker :
                  i = 1 \/ (i > 1 /\ i - 1 \in DOMAIN worker' /\ worker'[i - 1] = worker[i])
  BY <1>1, <1>3 DEF TakesTask
<1>4. ASSUME NEW T, NEW t \in Seq(T), worker' = worker \o t
      PROVE  /\ \A i \in DOMAIN worker : i \in DOMAIN worker' /\ worker'[i] = worker[i]
             /\ \A i \in DOMAIN worker' :
                  \/ i \in DOMAIN worker /\ worker'[i] = worker[i]
                  \/ /\ \A j \in DOMAIN worker : j < i
                     /\ i - Len(worker) \in DOMAIN t /\ worker'[i] = t[i - Len(worker)]
             /\ \A j \in DOMAIN t : /\ Len(worker) + j \in DOMAIN worker'
                                    /\ worker'[Len(worker) + j] = t[j]
  <2>1. worker \in Seq(S \cup T) /\ t \in Seq(S \cup T)
    BY <1>1, SeqGrows
  <2>2. /\ Len(worker') = Len(worker) + Len(t) /\ Len(t) \in Nat
        /\ DOMAIN t = 1 .. Len(t) /\ DOMAIN worker' = 1 .. Len(worker')
        /\ \A k \in 1 .. Len(worker) + Len(t) :
              worker'[k] = IF k <= Len(worker) THEN worker[k] ELSE t[k - Len(worker)]
    BY <1>4, <2>1, ConcatProperties
  <2> QED BY <1>1, <2>2
<1> QED BY <1>2, <1>3, <1>4

\* The steps that append tasks.
LEMMA TasksAppended ==
    ASSUME IInv, Tasking
    PROVE  \E T : \E t \in Seq(T) : worker' = worker \o t
<1> DEFINE Concatenated == \E T : \E t \in Seq(T) : worker' = worker \o t
<1>0. worker \in Seq(Task(Len(heap)))
  BY DEF IInv, TypeOK, StoreTypeOK
<1>1. ASSUME NEW task, worker' = Append(worker, task)
      PROVE  Concatenated
  <2>1. worker' = worker \o <<task>> /\ <<task>> \in Seq({task})
    BY <1>0, <1>1
  <2> QED BY <2>1
<1>2. ASSUME NEW n \in Nat, NEW f, worker' = worker \o [i \in 1 .. n |-> f[i]]
      PROVE  Concatenated
  <2>1. [i \in 1 .. n |-> f[i]] \in Seq({f[i] : i \in 1 .. n})
    OBVIOUS
  <2> QED BY <1>2, <2>1
<1>3. worker' = worker => Concatenated
  <2> SUFFICES ASSUME worker' = worker PROVE Concatenated
    OBVIOUS
  <2>1. worker' = worker \o << >> /\ << >> \in Seq({})
    BY <1>0
  <2> QED BY <2>1
<1>4. CASE Notifying
  <2>1. ASSUME NEW I \in SUBSET DOMAIN observers, NEW T, NEW t \in Seq(T), Notify(I, t)
        PROVE  Concatenated
    <3> DEFINE S == {Asked(I)[j] : j \in DOMAIN Asked(I)}
    <3>1. worker' = worker \o t \o Asked(I) /\ Asked(I) \in Seq(S)
      BY <2>1, NotifyAsks DEF IInv
    <3> HIDE DEF S
    <3>2. t \in Seq(T \cup S) /\ Asked(I) \in Seq(T \cup S)
      BY <2>1, <3>1, SeqGrows
    <3>3. worker' = worker \o (t \o Asked(I)) /\ t \o Asked(I) \in Seq(T \cup S)
      <4>1. worker \in Seq(Task(Len(heap)) \cup T \cup S)
        BY <1>0, SeqGrows
      <4>2. t \in Seq(Task(Len(heap)) \cup T \cup S) /\ Asked(I) \in Seq(Task(Len(heap)) \cup T \cup S)
        BY <3>2, SeqGrows
      <4>3. worker \o t \o Asked(I) = worker \o (t \o Asked(I))
        BY <4>1, <4>2, ConcatAssociative
      <4> QED BY <3>1, <3>2, <4>3
    <3> QED BY <3>3
  <2>2. << >> \in Seq({})
    OBVIOUS
  <2>3. CASE RunAuthBlock
    <3>1. PICK t : Notify(DOMAIN observers, t) /\ (t = << >> \/ \E u : t = <<UserTask(u)>>)
      BY <2>3 DEF RunAuthBlock
    <3>2. \A u : <<UserTask(u)>> \in Seq({UserTask(u)})
      OBVIOUS
    <3>3. \E T : t \in Seq(T)
      BY <2>2, <3>1, <3>2
    <3> QED BY <2>1, <3>1, <3>3
  <2>4. CASE RunInitialBlock
    <3>1. Notify({Head(main).observer}, << >>) /\ main # << >>
      BY <2>4 DEF RunInitialBlock
    <3>2. {Head(main).observer} \in SUBSET DOMAIN observers
      <4>1. Head(main) \in Block(Len(heap), Len(observers)) /\ Head(main).kind = "initial"
        BY <2>4, NextBlock DEF RunInitialBlock, IInv, TypeOK
      <4>2. Head(main).observer \in 1 .. Len(observers)
        BY <4>1 DEF Block
      <4> QED BY <4>2 DEF IInv, TypeOK, SessionTypeOK
    <3> QED BY <2>1, <2>2, <3>1, <3>2
  <2> QED BY <1>4, <2>3, <2>4 DEF Notifying
<1>5. CASE AddTransaction
  <2>1. worker' = worker \/ \E task : worker' = Append(worker, task)
    BY <1>5 DEF AddTransaction, addTransactions
  <2> QED BY <1>1, <1>3, <2>1
<1>6. CASE SaveEdit \/ DeleteTransaction
  <2>1. worker' = worker \/ \E task : worker' = Append(worker, task)
    BY <1>6 DEF SaveEdit, updatetransaction, DeleteTransaction, removeTransaction
  <2> QED BY <1>1, <1>3, <2>1
<1>7. CASE RunRemoveCallback \/ RunUpdateCallback
  <2> DEFINE keys == Ascending(Found(Head(main).docs))
             n == Cardinality(Found(Head(main).docs))
             c == Encode(heap[Head(main).callback.ref].content)
             f == [i \in 1 .. n |-> WriteTask(Delete(keys[i]))]
             g == [i \in 1 .. n |-> WriteTask(Patch(keys[i], c))]
  <2>1. n \in Nat
    <3>1. Head(main).docs \in [DocIds -> DocState]
      BY <1>7, AnsweredTypes DEF RunRemoveCallback, RunUpdateCallback
    <3> QED BY <3>1, FoundProperties
  <2>2. worker' = worker \o f \/ worker' = worker \o g
    BY <1>7 DEF RunRemoveCallback, deleteFound, RunUpdateCallback, updateFound
  <2>3. f = [i \in 1 .. n |-> f[i]] /\ g = [i \in 1 .. n |-> g[i]]
    OBVIOUS
  <2> HIDE DEF f, g, n
  <2> QED BY <1>2, <2>1, <2>2, <2>3
<1> QED BY <1>4, <1>5, <1>6, <1>7 DEF Tasking

\* A registered callback was on the worker queue before.
LEMMA CallbackSteps ==
    ASSUME IInv, [Next]_vars
    PROVE  \A q \in Queries : \A c \in Callbacks(q)' :
              c \in Callbacks(q) \/ (AddListener /\ ListenTask(q, c) \in Tasks)
<1> SUFFICES ASSUME NEW q \in Queries, NEW c \in Callbacks(q)'
             PROVE  c \in Callbacks(q) \/ (AddListener /\ ListenTask(q, c) \in Tasks)
  OBVIOUS
<1>1. PICK i \in DOMAIN listeners'[q] : c = listeners'[q][i]
  BY DEF Callbacks
<1>2. CASE i \in DOMAIN listeners[q] /\ listeners'[q][i] = listeners[q][i]
  BY <1>1, <1>2 DEF Callbacks
<1>3. CASE /\ AddListener /\ 1 \in DOMAIN worker /\ worker[1].kind = "listen"
           /\ worker[1].query = q /\ worker[1].callback = listeners'[q][i]
  <2>1. worker[1] \in Task(Len(heap))
    BY <1>3, ElementOfSeq DEF IInv, TypeOK, StoreTypeOK
  <2>2. worker[1] = ListenTask(q, c)
    BY <1>1, <1>3, <2>1 DEF Task, ListenTask
  <2> QED BY <1>3, <2>2 DEF Tasks
<1> QED BY <1>1, <1>2, <1>3, ListenerSteps

\* An answer was there before, or is the answer to a registered callback.
LEMMA SnapshotSteps ==
    ASSUME IInv, [Next]_vars
    PROVE  \A b \in Snapshots' :
              \/ b \in Snapshots
              \/ \E q \in Queries : /\ Answering(q)
                                    /\ \E c \in Callbacks(q) : b = SnapshotBlock(c, Result(cache', q))
<1> SUFFICES ASSUME NEW b \in Snapshots'
             PROVE  \/ b \in Snapshots
                    \/ \E q \in Queries : /\ Answering(q)
                                          /\ \E c \in Callbacks(q) : b = SnapshotBlock(c, Result(cache', q))
  OBVIOUS
<1>1. PICK i \in DOMAIN main' : main'[i].kind = "snapshot" /\ b = main'[i]
  BY DEF Snapshots
<1>2. ASSUME NEW j \in DOMAIN main, main'[i] = main[j]
      PROVE  b \in Snapshots
  BY <1>1, <1>2 DEF Snapshots
<1>3. ASSUME NEW q \in Queries, RaiseFromServer(q) \/ RaiseFromCache(q),
             NEW k \in DOMAIN listeners[q],
             main'[i] = SnapshotBlock(listeners[q][k], Result(cache', q))
      PROVE  Answering(q) /\ \E c \in Callbacks(q) : b = SnapshotBlock(c, Result(cache', q))
  BY <1>1, <1>3 DEF Answering, Callbacks
<1> QED BY <1>1, <1>2, <1>3, AnswerSteps

\* Blocks that are appended leave those before where they are.
LEMMA MainAppended ==
    ASSUME IInv
    PROVE  /\ \A b : main' = Append(main, b) =>
                \A i \in DOMAIN main : i \in DOMAIN main' /\ main'[i] = main[i]
           /\ \A a, b : main' = Append(Append(main, a), b) =>
                \A i \in DOMAIN main : i \in DOMAIN main' /\ main'[i] = main[i]
           /\ \A T : \A t \in Seq(T) : main' = main \o t =>
                /\ \A i \in DOMAIN main : i \in DOMAIN main' /\ main'[i] = main[i]
                /\ \A j \in DOMAIN t : /\ Len(main) + j \in DOMAIN main'
                                       /\ main'[Len(main) + j] = t[j]
<1> DEFINE S == Block(Len(heap), Len(observers))
<1>1. main \in Seq(S) /\ DOMAIN main = 1 .. Len(main) /\ Len(main) \in Nat
  BY DEF IInv, TypeOK, StoreTypeOK
<1> HIDE DEF S
<1>2. ASSUME NEW b, main' = Append(main, b)
      PROVE  \A i \in DOMAIN main : i \in DOMAIN main' /\ main'[i] = main[i]
  BY <1>1, <1>2
<1>3. ASSUME NEW a, NEW b, main' = Append(Append(main, a), b)
      PROVE  \A i \in DOMAIN main : i \in DOMAIN main' /\ main'[i] = main[i]
  <2> DEFINE more == Append(main, a)
  <2>1. /\ more \in Seq(S \cup {a}) /\ \A i \in DOMAIN main : i \in DOMAIN more /\ more[i] = main[i]
    <3>1. main \in Seq(S \cup {a})
      BY <1>1, SeqGrows
    <3> QED BY <1>1, <3>1
  <2>2. main' = Append(more, b)
    BY <1>3
  <2> HIDE DEF more
  <2>3. \A i \in DOMAIN more : i \in DOMAIN main' /\ main'[i] = more[i]
    BY <2>1, <2>2
  <2> QED BY <2>1, <2>3
<1>4. ASSUME NEW T, NEW t \in Seq(T), main' = main \o t
      PROVE  /\ \A i \in DOMAIN main : i \in DOMAIN main' /\ main'[i] = main[i]
             /\ \A j \in DOMAIN t : /\ Len(main) + j \in DOMAIN main'
                                    /\ main'[Len(main) + j] = t[j]
  <2>1. main \in Seq(S \cup T) /\ t \in Seq(S \cup T)
    BY <1>1, SeqGrows
  <2>2. /\ Len(main') = Len(main) + Len(t) /\ Len(t) \in Nat
        /\ DOMAIN t = 1 .. Len(t) /\ DOMAIN main' = 1 .. Len(main')
        /\ \A k \in 1 .. Len(main) + Len(t) :
              main'[k] = IF k <= Len(main) THEN main[k] ELSE t[k - Len(main)]
    BY <1>4, <2>1, ConcatProperties
  <2> QED BY <1>1, <2>2
<1> QED BY <1>2, <1>3, <1>4

\* The registered callbacks of an answered query get a block each.
LEMMA RaisedBlocks ==
    ASSUME IInv, NEW q \in Queries, Answering(q)
    PROVE  /\ \A c \in Callbacks(q) : SnapshotBlock(c, Result(cache', q)) \in Snapshots'
           /\ \A i \in DOMAIN main : i \in DOMAIN main' /\ main'[i] = main[i]
           /\ listeners' = [listeners EXCEPT ![q] = << >>]
           /\ UNCHANGED <<server, mutations, fsUser, worker, budget, history>>
<1> DEFINE n == Len(listeners[q])
<1>1. n \in Nat /\ DOMAIN listeners[q] = 1 .. n
  BY DEF IInv, TypeOK, StoreTypeOK
<1>2. PICK docs : docs = Result(cache', q)
  OBVIOUS
<1> DEFINE block(i) == SnapshotBlock(listeners[q][i], docs)
           T == {block(i) : i \in 1 .. n}
           t == [i \in 1 .. n |-> block(i)]
<1>3. main' = main \o t
  <2>1. CASE RaiseFromServer(q)
    BY <1>2, <2>1 DEF RaiseFromServer, Raise
  <2>2. CASE RaiseFromCache(q)
    BY <1>2, <2>2 DEF RaiseFromCache, Raise
  <2> QED BY <2>1, <2>2 DEF Answering
<1>4. DOMAIN t = 1 .. n /\ \A k \in 1 .. n : t[k] = SnapshotBlock(listeners[q][k], docs)
  OBVIOUS
<1> HIDE DEF block, n
<1>5. t \in Seq(T)
  BY <1>1
<1> HIDE DEF t, T
<1>6. /\ \A i \in DOMAIN main : i \in DOMAIN main' /\ main'[i] = main[i]
      /\ \A j \in DOMAIN t : /\ Len(main) + j \in DOMAIN main'
                             /\ main'[Len(main) + j] = t[j]
  BY <1>3, <1>5, MainAppended
<1>7. ASSUME NEW c \in Callbacks(q)
      PROVE  SnapshotBlock(c, docs) \in Snapshots'
  <2>1. PICK j \in 1 .. n : c = listeners[q][j]
    BY <1>1 DEF Callbacks
  <2>2. Len(main) + j \in DOMAIN main' /\ main'[Len(main) + j] = SnapshotBlock(c, docs)
    BY <1>4, <1>6, <2>1
  <2> QED BY <2>2 DEF Snapshots, SnapshotBlock
<1>8. /\ listeners' = [listeners EXCEPT ![q] = << >>]
      /\ UNCHANGED <<server, mutations, fsUser, worker, budget, history>>
  BY DEF Answering, RaiseFromServer, RaiseFromCache, Raise
<1> QED BY <1>2, <1>6, <1>7, <1>8

\* An answer stays until its callback is run.
LEMMA SnapshotStays ==
    ASSUME IInv, [Next]_vars, ~Crash, NEW b \in Snapshots
    PROVE  \/ b \in Snapshots'
           \/ MainStep /\ main # << >> /\ b = Head(main) /\ main' = Tail(main)
<1>1. PICK i \in DOMAIN main : main[i].kind = "snapshot" /\ b = main[i]
  BY DEF Snapshots
<1>2. ASSUME \A j \in DOMAIN main : j \in DOMAIN main' /\ main'[j] = main[j]
      PROVE  b \in Snapshots'
  BY <1>1, <1>2 DEF Snapshots
<1>3. CASE UNCHANGED main
  BY <1>1, <1>3 DEF Snapshots
<1>4. CASE MainStep /\ main # << >> /\ main' = Tail(main)
  <2>1. main \in Seq(Block(Len(heap), Len(observers)))
    BY DEF IInv, TypeOK, StoreTypeOK
  <2>2. CASE i = 1
    BY <1>1, <1>4, <2>1, <2>2
  <2>3. CASE i # 1
    <3>1. i - 1 \in DOMAIN main' /\ main'[i - 1] = main[i]
      BY <1>4, <2>1, <2>3
    <3> QED BY <1>1, <3>1 DEF Snapshots
  <2> QED BY <2>2, <2>3
<1>5. CASE \E q \in Queries : Answering(q)
  BY <1>2, <1>5, RaisedBlocks
<1>6. CASE \E q \in Queries : RejectListen(q)
  <2>1. PICK q \in Queries : RejectListen(q)
    BY <1>6
  <2> DEFINE n == Len(listeners[q])
             block(j) == ErrorBlock(listeners[q][j])
             T == {block(j) : j \in 1 .. n}
             t == [j \in 1 .. n |-> block(j)]
  <2>2. main' = main \o t
    BY <2>1 DEF RejectListen, Raise
  <2>3. n \in Nat
    BY DEF IInv, TypeOK, StoreTypeOK
  <2> HIDE DEF block, n
  <2>4. t \in Seq(T)
    BY <2>3
  <2> HIDE DEF t, T
  <2> QED BY <1>2, <2>2, <2>4, MainAppended
<1>7. CASE SignOut \/ ReturnFromSignUp \/ LoadKeychain \/ (\E u \in Users : SignInAnswered(u))
           \/ RefreshToken \/ SignOutByForce
  <2>1. \/ \E a : main' = Append(main, a)
        \/ \E a, c : main' = Append(Append(main, a), c)
    BY <1>7 DEF SignOut, ReturnFromSignUp, LoadKeychain, SignInAnswered, RefreshToken, SignOutByForce,
                checkLoggedIn
  <2> QED BY <1>2, <2>1, MainAppended
<1>8. \/ UNCHANGED main \/ (MainStep /\ main # << >> /\ main' = Tail(main))
      \/ SignOut \/ ReturnFromSignUp \/ LoadKeychain \/ (\E u \in Users : SignInAnswered(u))
      \/ RefreshToken \/ SignOutByForce
      \/ \E q \in Queries : Answering(q) \/ RejectListen(q)
  <2>1. CASE UserStep
    BY <2>1 DEF UserStep, SendSignIn, OpenTable, AddTransaction, SaveEdit, DeleteTransaction,
                storeVars
  <2>2. CASE MainStep
    BY <2>2 DEF MainStep, RunAuthBlock, RunInitialBlock, RunLoadCallback, RunRemoveCallback,
                RunUpdateCallback, RunErrorCallback, Answered
  <2>3. CASE Frame /\ StoreStep({Encode(c) : c \in NewContents})
    BY <2>3 DEF StoreStep, UserDidChange, WriteMutations, AddListener, ApplySuccessfulWrite,
                CommitWithoutResponse, RejectFailedWrite, GoOffline, GoOnline, OtherDevice, Answering
  <2>4. CASE UNCHANGED vars
    BY <2>4 DEF vars
  <2>5. CASE AuthStep
    BY <2>5 DEF AuthStep, SignInRefused, storeVars
  <2> QED BY <2>1, <2>2, <2>3, <2>4, <2>5 DEF Next
<1> QED BY <1>3, <1>4, <1>5, <1>6, <1>7, <1>8

\* What has been asked is asked until it is refused or answered.
LEMMA PendingStays ==
    ASSUME IInv, [Next]_vars, ~Crash, NEW q \in Queries, NEW c, Pending(q, c)
    PROVE  \/ Pending(q, c)' \/ RejectListen(q)
           \/ /\ c \in Callbacks(q) /\ Answering(q)
              /\ SnapshotBlock(c, Result(cache', q)) \in Snapshots'
<1>0. /\ worker \in Seq(Task(Len(heap))) /\ listeners \in [Queries -> Seq(Callback(Len(heap)))]
  BY DEF IInv, TypeOK, StoreTypeOK
<1>1. CASE ListenTask(q, c) \in Tasks
  <2>1. PICK i \in DOMAIN worker : worker[i] = ListenTask(q, c)
    BY <1>1 DEF Tasks
  <2>2. CASE UNCHANGED worker
    BY <1>1, <2>2 DEF Pending, Tasks
  <2>3. CASE Taking
    <3>1. TakesTask
      BY <2>3, TaskPositions
    <3>2. CASE i = 1
      <4>1. Head(worker) = ListenTask(q, c)
        BY <2>1, <3>1, <3>2, TaskPositions
      <4>2. AddListener
        BY <2>3, <4>1 DEF Taking, UserDidChange, WriteMutations, ListenTask
      <4>3. listeners'[q] = Append(listeners[q], c) /\ listeners[q] \in Seq(Callback(Len(heap)))
        BY <1>0, <4>1, <4>2 DEF AddListener, ListenTask
      <4>4. Len(listeners[q]) + 1 \in DOMAIN listeners'[q] /\ listeners'[q][Len(listeners[q]) + 1] = c
        BY <4>3
      <4> QED BY <4>4 DEF Pending, Callbacks
    <3>3. CASE i # 1
      <4>1. i - 1 \in DOMAIN worker' /\ worker'[i - 1] = worker[i]
        BY <3>1, <3>3, TaskPositions
      <4> QED BY <2>1, <4>1 DEF Pending, Tasks
    <3> QED BY <3>2, <3>3
  <2>4. CASE Tasking
    <3>1. i \in DOMAIN worker' /\ worker'[i] = worker[i]
      BY <2>4, TaskPositions, TasksAppended
    <3> QED BY <2>1, <3>1 DEF Pending, Tasks
  <2> QED BY <2>2, <2>3, <2>4, TaskSteps
<1>2. CASE c \in Callbacks(q)
  <2>1. CASE UNCHANGED listeners
    BY <1>2, <2>1 DEF Pending, Callbacks
  <2>2. CASE AddListener
    <3>1. PICK i \in DOMAIN listeners[q] : listeners[q][i] = c
      BY <1>2 DEF Callbacks
    <3>2. i \in DOMAIN listeners'[q] /\ listeners'[q][i] = c
      <4>1. listeners' = [listeners EXCEPT ![Head(worker).query] =
                            Append(listeners[Head(worker).query], Head(worker).callback)]
        BY <2>2 DEF AddListener
      <4>2. listeners[q] \in Seq(Callback(Len(heap)))
        BY <1>0
      <4>3. listeners'[q] = listeners[q] \/ listeners'[q] = Append(listeners[q], Head(worker).callback)
        BY <1>0, <4>1
      <4> QED BY <3>1, <4>2, <4>3
    <3> QED BY <3>2 DEF Pending, Callbacks
  <2>3. ASSUME NEW r \in Queries, Answering(r) \/ RejectListen(r)
        PROVE  \/ Pending(q, c)' \/ RejectListen(q)
               \/ Answering(q) /\ SnapshotBlock(c, Result(cache', q)) \in Snapshots'
    <3>1. CASE r = q
      BY <1>2, <2>3, <3>1, RaisedBlocks
    <3>2. CASE r # q
      <4>1. listeners' = [listeners EXCEPT ![r] = << >>]
        BY <2>3, RaisedBlocks DEF RejectListen, Raise
      <4>2. listeners'[q] = listeners[q]
        BY <1>0, <3>2, <4>1
      <4> QED BY <1>2, <4>2 DEF Pending, Callbacks
    <3> QED BY <3>1, <3>2
  <2>4. \/ UNCHANGED listeners \/ AddListener
        \/ \E r \in Queries : Answering(r) \/ RejectListen(r)
    <3>1. CASE UserStep
      BY <3>1 DEF UserStep, SendSignIn, SignOut, ReturnFromSignUp, OpenTable, AddTransaction,
                  SaveEdit, DeleteTransaction, storeVars
    <3>2. CASE MainStep
      BY <3>2 DEF MainStep, RunAuthBlock, RunInitialBlock, RunLoadCallback, RunRemoveCallback,
                  RunUpdateCallback, RunErrorCallback
    <3>3. CASE AuthStep
      BY <3>3 DEF AuthStep, LoadKeychain, RefreshToken, SignOutByForce, SignInAnswered,
                  SignInRefused, storeVars
    <3>4. CASE Frame /\ StoreStep({Encode(s) : s \in NewContents})
      BY <3>4 DEF StoreStep, UserDidChange, WriteMutations, ApplySuccessfulWrite,
                  CommitWithoutResponse, RejectFailedWrite, GoOffline, GoOnline, OtherDevice, Answering
    <3>5. CASE UNCHANGED vars
      BY <3>5 DEF vars
    <3> QED BY <3>1, <3>2, <3>3, <3>4, <3>5 DEF Next
  <2> QED BY <1>2, <2>1, <2>2, <2>3, <2>4
<1> QED BY <1>1, <1>2 DEF Pending

-----------------------------------------------------------------------------
\* Nothing has gone wrong so far.

\* No request was refused or lost its answer, and no other device wrote.
Undisturbed == \A e \in {"failure", "remote"} : budget[e] = Budget[e]
BudgetBounded == \A e \in {"failure", "remote"} : budget[e] <= Budget[e]

\* Then what is cached is what the server has.
Mirrored == Undisturbed => cache = server

\* The conditions of MemoryMatchesServer that no step brings about.
Calm == OneListener /\ Undisturbed

\* What disturbs is not undone.
LEMMA Disturbance ==
    ASSUME IInv, BudgetBounded, [Next]_vars
    PROVE  /\ BudgetBounded'
           /\ Undisturbed' => Undisturbed /\ ~Spend("failure") /\ ~Spend("remote")
<1>1. /\ budget \in [Event -> Nat] /\ "failure" \in Event /\ "remote" \in Event
      /\ \A e \in Event : Budget[e] \in Nat
  BY BudgetAssumption DEF IInv, TypeOK, StoreTypeOK, Event
<1>2. ASSUME NEW e \in Event, Spend(e)
      PROVE  \A f \in {"failure", "remote"} :
                /\ budget'[f] \in Nat /\ budget'[f] <= budget[f]
                /\ e = f => budget'[f] < budget[f]
  BY <1>1, <1>2 DEF Spend
<1>3. UNCHANGED budget \/ \E e \in Event : Spend(e)
  <2>1. CASE UserStep
    BY <2>1 DEF UserStep, SendSignIn, SignOut, ReturnFromSignUp, OpenTable, AddTransaction,
                SaveEdit, DeleteTransaction, Event
  <2>2. CASE MainStep
    BY <2>2 DEF MainStep, RunAuthBlock, RunInitialBlock, RunLoadCallback, RunRemoveCallback,
                RunUpdateCallback, RunErrorCallback
  <2>3. CASE AuthStep \/ Crash
    BY <2>3 DEF AuthStep, LoadKeychain, RefreshToken, SignOutByForce, SignInAnswered,
                SignInRefused, Crash, Event
  <2>4. CASE Frame /\ StoreStep({Encode(c) : c \in NewContents})
    BY <2>4 DEF StoreStep, UserDidChange, WriteMutations, AddListener, RaiseFromServer,
                RaiseFromCache, RejectListen, ApplySuccessfulWrite, CommitWithoutResponse,
                RejectFailedWrite, GoOffline, GoOnline, OtherDevice, Event
  <2>5. CASE UNCHANGED vars
    BY <2>5 DEF vars
  <2> QED BY <2>1, <2>2, <2>3, <2>4, <2>5 DEF Next
<1>4. \A f \in {"failure", "remote"} :
         /\ budget'[f] \in Nat /\ budget'[f] <= budget[f]
         /\ Spend(f) => budget'[f] < budget[f]
  BY <1>1, <1>2, <1>3
<1> QED BY <1>1, <1>4 DEF Undisturbed, BudgetBounded

\* The steps that change the cache.
LEMMA CacheSteps ==
    ASSUME [Next]_vars
    PROVE  UNCHANGED cache \/ ApplySuccessfulWrite \/ \E q \in Queries : RaiseFromServer(q)
<1>1. CASE UserStep
  BY <1>1 DEF UserStep, SendSignIn, SignOut, ReturnFromSignUp, OpenTable, AddTransaction, SaveEdit,
              DeleteTransaction, storeVars
<1>2. CASE MainStep
  BY <1>2 DEF MainStep, RunAuthBlock, RunInitialBlock, RunLoadCallback, RunRemoveCallback,
              RunUpdateCallback, RunErrorCallback
<1>3. CASE AuthStep \/ Crash
  BY <1>3 DEF AuthStep, LoadKeychain, RefreshToken, SignOutByForce, SignInAnswered, SignInRefused,
              Crash, Launched, StoreCrash, storeVars
<1>4. CASE Frame /\ StoreStep({Encode(c) : c \in NewContents})
  BY <1>4 DEF StoreStep, UserDidChange, WriteMutations, AddListener, RaiseFromCache,
              RejectListen, CommitWithoutResponse, RejectFailedWrite, GoOffline, GoOnline,
              OtherDevice
<1>5. CASE UNCHANGED vars
  BY <1>5 DEF vars
<1> QED BY <1>1, <1>2, <1>3, <1>4, <1>5 DEF Next

\* A cache that has what the server has learns nothing new.
LEMMA NothingToLearn ==
    ASSUME IInv, cache = server, NEW q \in Queries, RaiseFromServer(q)
    PROVE  cache' = cache
<1>1. cache \in [DocIds -> DocState]
  BY DEF IInv, TypeOK, StoreTypeOK
<1>2. cache' = [d \in DocIds |-> IF Matches(q, server[d]) \/ Matches(q, cache[d])
                                 THEN server[d] ELSE cache[d]]
  BY DEF RaiseFromServer
<1>3. \A d \in DocIds : cache'[d] = cache[d]
  BY <1>2
<1> QED BY <1>1, <1>2, <1>3

\* The server commits a write and the cache follows.
LEMMA MirroredStep ==
    ASSUME IInv, BudgetBounded, Mirrored, [Next]_vars
    PROVE  Mirrored'
<1> SUFFICES ASSUME Undisturbed' PROVE cache' = server'
  BY DEF Mirrored
<1>1. cache = server /\ Undisturbed /\ ~Spend("failure") /\ ~Spend("remote")
  BY Disturbance DEF Mirrored
<1>2. CASE ApplySuccessfulWrite
  <2>1. Sending /\ CommitWrites(1) /\ StoreTypeOK
        /\ cache' = [cache EXCEPT ![NextWrite.key] = ApplyTo(NextWrite, @)]
    BY <1>2 DEF ApplySuccessfulWrite, IInv, TypeOK
  <2>2. server' = [server EXCEPT ![NextWrite.key] = ApplyTo(NextWrite, @)]
    BY <2>1, OneCommit DEF CommitNextWrite
  <2> QED BY <1>1, <2>1, <2>2
<1>3. CASE ~ApplySuccessfulWrite
  <2>1. ~CommitWithoutResponse /\ ~OtherDevices
    BY <1>1 DEF CommitWithoutResponse, OtherDevices, OtherDevice
  <2>2. server' = server
    BY <1>3, <2>1, WritingSteps DEF WriteMutations, RejectFailedWrite
  <2>3. cache' = cache
    BY <1>1, <1>3, CacheSteps, NothingToLearn
  <2> QED BY <1>1, <2>2, <2>3
<1> QED BY <1>2, <1>3

\* Calm that is lost does not come back but by a crash, after which one
\* listener is left.
LEMMA CalmSteps ==
    ASSUME IInv, HurryBounded, BudgetBounded, observers # << >>, [Next]_vars, Calm'
    PROVE  \/ Crash
           \/ /\ Calm /\ ~Spend("failure") /\ ~Spend("remote")
              /\ \/ Notifying \/ LoadKeychain \/ (\E u \in Users : SignInAnswered(u))
                 \/ SignOutByForce \/ RunLoadCallback
                 \/ UNCHANGED <<authUser, keychain, depth>>
              /\ Notifying \/ UNCHANGED observers
BY Patience, Disturbance, ListenerLifeSteps DEF Calm, OneListener

-----------------------------------------------------------------------------
\* One login controller.

\* A single listener is that of the first login controller, which asked for all
\* the loads there are.
Single ==
    Len(observers) = 1 =>
        /\ depth \in {1, 2} /\ observers[1].login = 1
        /\ \A c \in Awaited : c.kind = "load" => c.login = 1

\* Awaited are the callbacks of lookups, registered ones, and those of answers.
LEMMA AwaitedParts ==
    /\ \A t \in Tasks : t.kind = "listen" => t.callback \in Awaited
    /\ \A q \in Queries : \A c \in Callbacks(q) : c \in Awaited
    /\ \A b \in Snapshots : b.callback \in Awaited
<1>1. \A t \in Tasks : t.kind = "listen" => t.callback \in OnWorkerQueue
  BY DEF Tasks, OnWorkerQueue
<1>2. \A q \in Queries : \A c \in Callbacks(q) : c \in Registered
  BY DEF Callbacks, Registered
<1>3. \A b \in Snapshots : b.callback \in OnMainQueue
  BY DEF Snapshots, OnMainQueue
<1> QED BY <1>1, <1>2, <1>3 DEF Awaited

\* A listener that is called stays its controller's.
LEMMA NotifiedLogins ==
    ASSUME IInv, Notifying
    PROVE  /\ Len(observers') = Len(observers)
           /\ \A i \in DOMAIN observers : observers'[i].login = observers[i].login
<1>1. observers \in Seq([login : Nat, prev : Users \cup {Nobody, Unset}])
      /\ DOMAIN observers = 1 .. Len(observers) /\ Len(observers) \in Nat
  BY DEF IInv, TypeOK, SessionTypeOK
<1>2. PICK I : observers' = [i \in DOMAIN observers |->
                              IF i \in I THEN [observers[i] EXCEPT !.prev = authUser]
                              ELSE observers[i]]
  <2>1. \E I : \E tasks : Notify(I, tasks)
    BY DEF Notifying, RunAuthBlock, RunInitialBlock
  <2> QED BY <2>1 DEF Notify
<1>3. \A i \in DOMAIN observers : observers'[i].login = observers[i].login
  BY <1>1, <1>2
<1> QED BY <1>1, <1>2, <1>3

\* A second controller adds a second listener.
LEMMA SingleStep ==
    ASSUME IInv, observers # << >>, Single, [Next]_vars
    PROVE  Single'
<1> SUFFICES ASSUME Len(observers') = 1
             PROVE  /\ depth' \in {1, 2} /\ observers'[1].login = 1
                    /\ \A c \in Awaited' : c.kind = "load" => c.login = 1
  BY DEF Single
<1>0. DOMAIN observers = 1 .. Len(observers)
  BY DEF IInv, TypeOK, SessionTypeOK
<1>1. CASE Crash
  <2>1. depth' = 1 /\ observers' = <<Observer(1)>>
    BY <1>1 DEF Crash, Launched
  <2>2. Awaited' = {}
    BY <1>1, CrashStrays
  <2> QED BY <2>1, <2>2 DEF Observer
<1>2. CASE ~Crash
  <2>1. /\ Len(observers) = 1 /\ DOMAIN observers = {1}
        /\ Notifying \/ UNCHANGED observers
    BY <1>0, <1>2, ListenerLifeSteps
  <2>2. /\ depth \in {1, 2} /\ observers[1].login = 1
        /\ \A c \in Awaited : c.kind = "load" => c.login = 1
    BY <2>1 DEF Single
  <2>3. observers'[1].login = 1
    BY <2>1, <2>2, NotifiedLogins
  <2>4. \A c \in Awaited' : c.kind = "load" => c.login = 1
    BY <2>1, <2>2, NoStray DEF NoStrayLoad, Fresh
  <2>5. depth' \in {1, 2}
    <3>1. CASE RunLoadCallback
      <4>1. Head(main) \in Snapshots /\ Head(main).callback.kind = "load"
        <5>1. main \in Seq(Block(Len(heap), Len(observers)))
          BY DEF IInv, TypeOK, StoreTypeOK
        <5> QED BY <3>1, <5>1 DEF RunLoadCallback, Answered, Snapshots
      <4>2. Head(main).callback.login = 1
        BY <2>2, <4>1, AwaitedParts
      <4> QED BY <2>2, <3>1, <4>2 DEF RunLoadCallback
    <3>2. CASE ~RunLoadCallback
      <4>1. ~SignOut
        <5>1. SignOut => Len(observers') = Len(observers) + 1
          BY DEF SignOut, checkLoggedIn, IInv, TypeOK, SessionTypeOK
        <5> QED BY <2>1, <5>1
      <4> QED BY <1>2, <2>2, <3>2, <4>1, Presentations
    <3> QED BY <3>1, <3>2
  <2> QED BY <2>3, <2>4, <2>5
<1> QED BY <1>1, <1>2

\* Before the tabs are shown, nothing is under way but loads.
OnlyLoads ==
    /\ \A t \in Tasks : t.kind # "write" /\ (t.kind = "listen" => t.callback.kind = "load")
    /\ \A q \in Queries : \A c \in Callbacks(q) : c.kind = "load"
    /\ \A b \in Snapshots : b.callback.kind = "load"
Untouched == Len(observers) = 1 /\ depth = 1 => OnlyLoads

\* Listeners that are called tell the worker of a user and ask for loads.
LEMMA NotifyingTasks ==
    ASSUME IInv, Notifying
    PROVE  \A t \in Tasks' :
              \/ t \in Tasks
              \/ RunAuthBlock /\ CredentialsUser \notin {NoClient, Head(main).user}
                 /\ t.kind = "user"
              \/ authUser # Nobody /\ IsLoad(t)
<1>1. TypeOK /\ worker \in Seq(Task(Len(heap)))
      /\ main # << >> /\ Head(main) \in Block(Len(heap), Len(observers))
  BY NextBlock DEF IInv, TypeOK, StoreTypeOK, Notifying, RunAuthBlock, RunInitialBlock
<1>2. ASSUME NEW I \in SUBSET DOMAIN observers, NEW T, NEW tasks \in Seq(T), Notify(I, tasks),
             NEW t \in Tasks'
      PROVE  \/ t \in Tasks \/ (\E j \in DOMAIN tasks : t = tasks[j])
             \/ authUser # Nobody /\ IsLoad(t)
  <2> DEFINE S == {Asked(I)[j] : j \in DOMAIN Asked(I)}
             before == worker \o tasks
  <2>1. worker' = before \o Asked(I) /\ Asked(I) \in Seq(S)
    BY <1>1, <1>2, NotifyAsks
  <2>2. before \in Seq(Task(Len(heap)) \cup T)
    <3>1. worker \in Seq(Task(Len(heap)) \cup T) /\ tasks \in Seq(Task(Len(heap)) \cup T)
      BY <1>1, <1>2, SeqGrows
    <3> QED BY <3>1
  <2>3. \A i \in DOMAIN before : before[i] \in Tasks \/ \E j \in DOMAIN tasks : before[i] = tasks[j]
    BY <1>1, <1>2, ElementOfConcat DEF Tasks
  <2>4. \A j \in DOMAIN Asked(I) : authUser # Nobody /\ IsLoad(Asked(I)[j])
    <3> SUFFICES ASSUME NEW j \in DOMAIN Asked(I)
                 PROVE  authUser # Nobody /\ IsLoad(Asked(I)[j])
      OBVIOUS
    <3>1. authUser # Nobody /\ \E i \in I : Asked(I)[j] =
                       ListenTask(ByUser(authUser), LoadCallback(observers[i].login))
      BY <1>1, <1>2, NotifyAsks
    <3> HIDE DEF S, before
    <3> QED BY <3>1 DEF IsLoad, ListenTask, LoadCallback
  <2> HIDE DEF before, S
  <2>5. PICK i \in DOMAIN worker' : t = worker'[i]
    BY <1>2 DEF Tasks
  <2>6. \/ i \in DOMAIN before /\ t = before[i]
        \/ \E j \in DOMAIN Asked(I) : t = Asked(I)[j]
    BY <2>1, <2>2, <2>5, ElementOfConcat
  <2> QED BY <2>3, <2>4, <2>6
<1>3. CASE RunAuthBlock
  <2> DEFINE task == UserTask(Head(main).user)
  <2>1. \/ Notify(DOMAIN observers, << >>)
        \/ CredentialsUser \notin {NoClient, Head(main).user} /\ Notify(DOMAIN observers, <<task>>)
    BY <1>3 DEF RunAuthBlock
  <2>2. << >> \in Seq({}) /\ <<task>> \in Seq({task}) /\ task.kind = "user"
        /\ DOMAIN << >> = {} /\ DOMAIN <<task>> = {1} /\ <<task>>[1] = task
    BY DEF UserTask
  <2> HIDE DEF task
  <2> QED BY <1>2, <1>3, <2>1, <2>2
<1>4. CASE RunInitialBlock
  <2>1. {Head(main).observer} \in SUBSET DOMAIN observers
    <3>1. Head(main).observer \in 1 .. Len(observers)
      BY <1>1, <1>4 DEF RunInitialBlock, Block
    <3> QED BY <3>1 DEF IInv, TypeOK, SessionTypeOK
  <2>2. Notify({Head(main).observer}, << >>)
    BY <1>4 DEF RunInitialBlock
  <2>3. << >> \in Seq({}) /\ DOMAIN << >> = {}
    OBVIOUS
  <2> QED BY <1>2, <2>1, <2>2, <2>3
<1> QED BY <1>3, <1>4 DEF Notifying

\* What the worker queue has after other steps it had before.
LEMMA TaskKept ==
    ASSUME IInv, UNCHANGED worker \/ Taking
    PROVE  \A t \in Tasks' : t \in Tasks
<1>1. CASE UNCHANGED worker
  BY <1>1 DEF Tasks
<1>2. CASE Taking
  BY <1>2, TaskPositions DEF Tasks
<1> QED BY <1>1, <1>2

\* Only who sees the tabs asks for more than loads.
LEMMA OnlyLoadsStep ==
    ASSUME IInv, OnlyLoads, [Next]_vars, ~OnTabs, ~Crash
    PROVE  OnlyLoads'
<1>1. ~AddTransaction /\ ~SaveEdit /\ ~DeleteTransaction
  BY DEF AddTransaction, SaveEdit, DeleteTransaction
<1>2. ~RunRemoveCallback /\ ~RunUpdateCallback
  <2>1. main \in Seq(Block(Len(heap), Len(observers)))
    BY DEF IInv, TypeOK, StoreTypeOK
  <2>2. RunRemoveCallback \/ RunUpdateCallback => Head(main) \in Snapshots
    BY <2>1 DEF RunRemoveCallback, RunUpdateCallback, Answered, Snapshots
  <2> QED BY <2>2 DEF OnlyLoads, RunRemoveCallback, RunUpdateCallback, Answered
<1>3. \A t \in Tasks' : t.kind # "write" /\ (t.kind = "listen" => t.callback.kind = "load")
  <2>1. CASE Notifying
    BY <2>1, NotifyingTasks DEF OnlyLoads, IsLoad
  <2>2. CASE ~Notifying
    BY <1>1, <1>2, <2>2, TaskSteps, TaskKept DEF Tasking, OnlyLoads
  <2> QED BY <2>1, <2>2
<1>4. \A q \in Queries : \A c \in Callbacks(q)' : c.kind = "load"
  BY CallbackSteps DEF OnlyLoads, ListenTask
<1>5. \A b \in Snapshots' : b.callback.kind = "load"
  BY SnapshotSteps DEF OnlyLoads, SnapshotBlock
<1> QED BY <1>3, <1>4, <1>5 DEF OnlyLoads

\* A launch starts with nothing under way.
LEMMA NothingAfterCrash ==
    ASSUME Crash
    PROVE  /\ Tasks' = {} /\ Snapshots' = {} /\ \A q \in Queries : Callbacks(q)' = {}
           /\ depth' = 1 /\ fsUser' = NoClient
           /\ \A u : OnlyAnnounces(main', u)
<1>1. /\ main' = <<InitialBlock(1)>> /\ worker' = << >> /\ depth' = 1 /\ fsUser' = NoClient
      /\ listeners' = [q \in Queries |-> << >>]
  BY DEF Crash, Launched, StoreCrash
<1>2. \A i \in DOMAIN main' : main'[i].kind = "initial"
  BY <1>1 DEF InitialBlock
<1> QED BY <1>1, <1>2 DEF Tasks, Snapshots, Callbacks, OnlyAnnounces

\* At the login nothing comes up but loads.
LEMMA UntouchedStep ==
    ASSUME IInv, observers # << >>, Single, Untouched, [Next]_vars
    PROVE  Untouched'
<1> SUFFICES ASSUME Len(observers') = 1, depth' = 1 PROVE OnlyLoads'
  BY DEF Untouched
<1>1. CASE Crash
  BY <1>1, NothingAfterCrash DEF OnlyLoads
<1>2. CASE ~Crash
  <2>1. Len(observers) = 1
    BY <1>2, ListenerLifeSteps
  <2>2. depth = 1
    <3>1. depth \in {1, 2}
      BY <2>1 DEF Single
    <3>2. ~SignOut
      <4>1. SignOut => Len(observers') = Len(observers) + 1
        BY DEF SignOut, checkLoggedIn, IInv, TypeOK, SessionTypeOK
      <4> QED BY <2>1, <4>1
    <3>3. depth' = depth \/ depth' = depth + 1
      BY <1>2, <3>2, Presentations DEF RunLoadCallback
    <3> QED BY <3>1, <3>3
  <2>3. ~OnTabs
    BY <2>2 DEF OnTabs
  <2> QED BY <1>2, <2>1, <2>2, <2>3, OnlyLoadsStep DEF Untouched
<1> QED BY <1>1, <1>2

-----------------------------------------------------------------------------
\* What the user's device shows.

\* The document d as the signed-in user's device sees it.
View(d) == LocalDocument(cache, keychain, d)

\* It is what the user's pending writes make of the cached document.
LEMMA LocalIsSeen ==
    ASSUME NEW c, NEW u, NEW d
    PROVE  LocalDocument(c, u, d) = Written(mutations[u], c[d], d)
BY DEF LocalDocument

\* What is seen changes when the worker files a write, and at no other time: a
\* write that is sent goes from the queue into the cache, and one that the server
\* refuses changed nothing.
LEMMA ViewSteps ==
    ASSUME IInv, BudgetBounded, Mirrored, [Next]_vars, Undisturbed', keychain' = keychain,
           keychain # Nobody, fsUser \in {NoClient, keychain}, NEW d \in DocIds
    PROVE  /\ ~WriteMutations => View(d)' = View(d)
           /\ WriteMutations => View(d)' = IF Head(worker).mutation.key = d
                                           THEN ApplyTo(Head(worker).mutation, View(d))
                                           ELSE View(d)
<1> DEFINE q == mutations[keychain]
<1>1. /\ StoreTypeOK /\ keychain \in Users \cup {Nobody} /\ cache[d] \in DocState
      /\ q \in Seq(Mutation) /\ mutations \in [Users \cup {Nobody} -> Seq(Mutation)]
      /\ cache \in [DocIds -> DocState]
  BY DEF IInv, TypeOK, StoreTypeOK, SessionTypeOK
<1>2. /\ View(d) = Written(q, cache[d], d)
      /\ View(d)' = Written(mutations'[keychain], cache'[d], d)
  <2>1. View(d) = Written(q, cache[d], d)
    BY LocalIsSeen DEF View
  <2>2. View(d)' = Written(mutations'[keychain'], cache'[d], d)
    BY DEF View, LocalDocument
  <2> QED BY <2>1, <2>2
<1>3. cache = server /\ ~Spend("failure") /\ ~Spend("remote")
  BY Disturbance DEF Mirrored
<1>4. CASE WriteMutations
  <2> DEFINE m == Head(worker).mutation
  <2>1. m \in Mutation /\ fsUser = keychain
    BY <1>4, FiledWrite, UsersAssumption DEF IInv
  <2>2. cache' = cache /\ mutations' = [mutations EXCEPT ![keychain] = Append(q, m)]
    BY <1>4, <2>1 DEF WriteMutations
  <2>3. mutations'[keychain] = Append(q, m)
    BY <1>1, <2>2
  <2> HIDE DEF m, q
  <2>4. Written(Append(q, m), cache[d], d) = IF m.key = d THEN ApplyTo(m, Written(q, cache[d], d))
                                          ELSE Written(q, cache[d], d)
    BY <1>1, <2>1, SeenAfterWrites
  <2> QED BY <1>2, <1>4, <2>2, <2>3, <2>4 DEF m
<1>5. CASE ApplySuccessfulWrite \/ RejectFailedWrite
  <2> DEFINE m == NextWrite
  <2>1. fsUser = keychain /\ q # << >> /\ m = Head(q) /\ m \in Mutation /\ m.key \in DocIds
    <3>1. Sending
      BY <1>5 DEF ApplySuccessfulWrite, RejectFailedWrite
    <3>2. fsUser = keychain
      BY <3>1 DEF Sending
    <3> QED BY <1>1, <3>1, <3>2, SendingTypes DEF Sending, NextWrite
  <2>2. mutations'[keychain] = Tail(q)
    BY <1>1, <1>5, <2>1 DEF ApplySuccessfulWrite, RejectFailedWrite, DropNextWrite
  <2>3. cache'[d] = IF m.key = d THEN ApplyTo(m, cache[d]) ELSE cache[d]
    <3>1. CASE ApplySuccessfulWrite
      BY <1>1, <2>1, <3>1 DEF ApplySuccessfulWrite
    <3>2. CASE RejectFailedWrite
      <4>1. ~Precondition(m, server[m.key]) /\ cache' = cache
        BY <1>3, <3>2 DEF RejectFailedWrite
      <4>2. ApplyTo(m, cache[m.key]) = cache[m.key]
        BY <1>3, <4>1 DEF ApplyTo, Precondition
      <4> QED BY <4>1, <4>2
    <3> QED BY <1>5, <3>1, <3>2
  <2>4. ~WriteMutations
    <3>1. WriteMutations => worker' = Tail(worker) /\ worker # << >>
      BY DEF WriteMutations
    <3>2. worker' = worker
      BY <1>5 DEF ApplySuccessfulWrite, RejectFailedWrite
    <3>3. Len(worker) \in Nat /\ (worker # << >> => Len(Tail(worker)) = Len(worker) - 1)
      BY <1>1 DEF StoreTypeOK
    <3> QED BY <3>1, <3>2, <3>3
  <2> HIDE DEF m, q
  <2>5. Written(Tail(q), IF m.key = d THEN ApplyTo(m, cache[d]) ELSE cache[d], d) = Written(q, cache[d], d)
    BY <1>1, <2>1, SeenAfterWrites
  <2> QED BY <1>2, <2>2, <2>3, <2>4, <2>5
<1>6. CASE ~WriteMutations /\ ~ApplySuccessfulWrite /\ ~RejectFailedWrite
  <2>1. mutations' = mutations
    BY <1>3, <1>6, WritingSteps DEF CommitWithoutResponse, OtherDevices, OtherDevice
  <2>2. cache' = cache
    BY <1>3, <1>6, CacheSteps, NothingToLearn
  <2> QED BY <1>2, <1>6, <2>1, <2>2
<1> QED BY <1>4, <1>5, <1>6

\* The answer to a query, once the SDK acts for the signed-in user.
Viewed(q) == [d \in DocIds |-> IF Matches(q, View(d)) THEN View(d) ELSE Absent]

\* A query goes by what the device shows.
LEMMA ResultIsViewed ==
    /\ \A q : fsUser = keychain => Result(cache, q) = Viewed(q)
    /\ \A q : fsUser' = keychain' => Result(cache, q)' = Viewed(q)'
<1>1. \A q : fsUser = keychain => Result(cache, q) = Viewed(q)
  BY DEF Result, Viewed, View
<1>2. \A q : fsUser' = keychain' => Result(cache, q)' = Viewed(q)'
  <2> SUFFICES ASSUME NEW q, fsUser' = keychain' PROVE Result(cache, q)' = Viewed(q)'
    OBVIOUS
  <2>1. \A d : LocalDocument(cache, fsUser, d)' = View(d)'
    BY DEF View, LocalDocument
  <2> QED BY <2>1 DEF Result, Viewed
<1> QED BY <1>1, <1>2

-----------------------------------------------------------------------------
\* The loads of a single listener.

\* A load is asked for, or answered.
SomeLoad ==
    \/ \E q \in Queries : \E c : Pending(q, c) /\ c.kind = "load"
    \/ \E b \in Snapshots : b.callback.kind = "load"

\* So the program is loading.
LEMMA SomeLoadIsLoading ==
    ASSUME IInv, LoadsAskUsers, SomeLoad
    PROVE  Loading
<1>1. ASSUME NEW q \in Queries, NEW c, Pending(q, c), c.kind = "load"
      PROVE  Loading
  <2>1. CASE ListenTask(q, c) \in Tasks
    BY <2>1 DEF Tasks, ListenTask, Loading
  <2>2. CASE c \in Callbacks(q)
    <3>1. PICK i \in DOMAIN listeners[q] : listeners[q][i] = c
      BY <2>2 DEF Callbacks
    <3>2. q \in {ByUser(u) : u \in Users}
      BY <1>1, <3>1 DEF LoadsAskUsers, LoadsIn
    <3>3. listeners[q] # << >>
      BY <3>1
    <3> QED BY <3>2, <3>3 DEF Loading
  <2> QED BY <1>1, <2>1, <2>2 DEF Pending
<1>2. ASSUME NEW b \in Snapshots
      PROVE  Loading
  BY <1>2 DEF Snapshots, Loading
<1> QED BY <1>1, <1>2 DEF SomeLoad

\* Once there is a client and before the tabs are shown, a load is under way.
UnderWay == Calm /\ depth = 1 /\ fsUser # NoClient => SomeLoad

\* Nothing but a crash goes back to the login.
LEMMA LoginBefore ==
    ASSUME IInv, observers # << >>, Single, [Next]_vars, ~Crash,
           Len(observers') = 1, depth' = 1
    PROVE  Len(observers) = 1 /\ depth = 1
<1>1. Len(observers) = 1
  BY ListenerLifeSteps
<1>2. depth \in {1, 2}
  BY <1>1 DEF Single
<1>3. ~SignOut
  <2>1. SignOut => Len(observers') = Len(observers) + 1
    BY DEF SignOut, checkLoggedIn, IInv, TypeOK, SessionTypeOK
  <2> QED BY <1>1, <2>1
<1>4. depth' = depth \/ depth' = depth + 1
  BY <1>3, Presentations DEF RunLoadCallback
<1> QED BY <1>1, <1>2, <1>4

\* The call that makes a client asks for a load.
LEMMA FirstCallLoads ==
    ASSUME IInv, Notifying, fsUser = NoClient, fsUser' # NoClient
    PROVE  SomeLoad'
<1>1. TypeOK /\ worker \in Seq(Task(Len(heap))) /\ DOMAIN observers = 1 .. Len(observers)
      /\ main # << >> /\ Head(main) \in Block(Len(heap), Len(observers))
  <2>1. TypeOK /\ StoreTypeOK /\ ManagerTypeOK /\ SessionTypeOK
    BY DEF IInv, TypeOK
  <2>2. main # << >>
    BY DEF Notifying, RunAuthBlock, RunInitialBlock
  <2>3. worker \in Seq(Task(Len(heap)))
    BY <2>1 DEF StoreTypeOK
  <2>4. DOMAIN observers = 1 .. Len(observers)
    BY <2>1 DEF SessionTypeOK
  <2> QED BY <2>1, <2>2, <2>3, <2>4, NextBlock
<1>2. ASSUME NEW I \in SUBSET DOMAIN observers, NEW T, NEW tasks \in Seq(T), Notify(I, tasks)
      PROVE  SomeLoad'
  <2> DEFINE S == {Asked(I)[j] : j \in DOMAIN Asked(I)}
             before == worker \o tasks
             loads == IF authUser = Nobody THEN {} ELSE {i \in I : observers[i].prev # authUser}
  <2>1. worker' = before \o Asked(I) /\ Asked(I) \in Seq(S)
    BY <1>1, <1>2, NotifyAsks
  <2>2. before \in Seq(Task(Len(heap)) \cup T)
    <3>1. worker \in Seq(Task(Len(heap)) \cup T) /\ tasks \in Seq(Task(Len(heap)) \cup T)
      BY <1>1, <1>2, SeqGrows
    <3> QED BY <3>1
  <2>3. loads # {} /\ loads \in SUBSET (1 .. Len(observers)) /\ Len(observers) \in Nat
    BY <1>1, <1>2 DEF Notify, TypeOK, SessionTypeOK
  <2>4. Cardinality(loads) \in Nat \ {0}
    <3> HIDE DEF loads
    <3>1. IsFiniteSet(1 .. Len(observers))
      BY <2>3, FS_Interval
    <3>2. IsFiniteSet(loads)
      BY <2>3, <3>1, FS_Subset
    <3> QED BY <2>3, <3>2, FS_CardinalityType, FS_EmptySet
  <2>5. 1 \in DOMAIN Asked(I)
    <3>1. DOMAIN Asked(I) = 1 .. Cardinality(loads)
      BY DEF Asked
    <3> HIDE DEF loads
    <3> QED BY <2>4, <3>1
  <2>6. PICK i \in I : authUser # Nobody
           /\ Asked(I)[1] = ListenTask(ByUser(authUser), LoadCallback(observers[i].login))
    <3> HIDE DEF loads, before, S
    <3> QED BY <1>1, <1>2, <2>5, NotifyAsks
  <2> HIDE DEF before, S, loads
  <2>7. Len(before) + 1 \in DOMAIN worker' /\ worker'[Len(before) + 1] = Asked(I)[1]
    <3>1. before \in Seq(Task(Len(heap)) \cup T \cup S) /\ Asked(I) \in Seq(Task(Len(heap)) \cup T \cup S)
      BY <2>1, <2>2, SeqGrows
    <3>2. /\ Len(worker') = Len(before) + Len(Asked(I))
          /\ DOMAIN worker' = 1 .. Len(worker')
          /\ \A k \in 1 .. Len(before) + Len(Asked(I)) :
               worker'[k] = IF k <= Len(before) THEN before[k] ELSE Asked(I)[k - Len(before)]
      BY <2>1, <3>1, ConcatProperties
    <3>3. Len(before) \in Nat /\ Len(Asked(I)) \in Nat /\ DOMAIN Asked(I) = 1 .. Len(Asked(I))
      BY <3>1
    <3> QED BY <2>5, <3>2, <3>3
  <2> DEFINE c == LoadCallback(observers[i].login)
             q == ByUser(authUser)
  <2>8. ListenTask(q, c) \in Tasks'
    BY <2>6, <2>7 DEF Tasks
  <2>9. q \in Queries /\ c.kind = "load"
    BY <1>1, <2>6 DEF TypeOK, SessionTypeOK, Queries, LoadCallback
  <2> HIDE DEF q, c
  <2> QED BY <2>8, <2>9 DEF SomeLoad, Pending
<1>3. << >> \in Seq({}) /\ \A u : <<UserTask(u)>> \in Seq({UserTask(u)})
  OBVIOUS
<1>4. CASE RunAuthBlock
  <2>1. \/ Notify(DOMAIN observers, << >>)
        \/ \E u : Notify(DOMAIN observers, <<UserTask(u)>>)
    BY <1>4 DEF RunAuthBlock
  <2> QED BY <1>2, <1>3, <2>1
<1>5. CASE RunInitialBlock
  <2>1. {Head(main).observer} \in SUBSET DOMAIN observers
    <3>1. Head(main).observer \in 1 .. Len(observers)
      BY <1>1, <1>5 DEF RunInitialBlock, Block
    <3> QED BY <3>1, <1>1
  <2>2. Notify({Head(main).observer}, << >>)
    BY <1>5 DEF RunInitialBlock
  <2> QED BY <1>2, <1>3, <2>1, <2>2
<1> QED BY <1>4, <1>5 DEF Notifying

\* The load that is under way moves on until it shows the tabs.
LEMMA UnderWayStep ==
    ASSUME IInv, HurryBounded, BudgetBounded, observers # << >>, Single, UnderWay, [Next]_vars
    PROVE  UnderWay'
<1> SUFFICES ASSUME Calm', depth' = 1, fsUser' # NoClient PROVE SomeLoad'
  BY DEF UnderWay
<1>1. ~Crash
  BY NothingAfterCrash
<1>2. Calm /\ ~Spend("failure") /\ Len(observers) = 1
  BY <1>1, CalmSteps DEF Calm, OneListener
<1>3. depth = 1
  BY <1>1, LoginBefore DEF Calm, OneListener
<1>4. CASE fsUser = NoClient
  <2>1. worker = << >>
    BY <1>4 DEF IInv, ClientReady
  <2>2. ~TakesTask /\ ~AddTransaction
    BY <1>3, <2>1 DEF TakesTask, AddTransaction, OnTabs
  <2>3. Notifying
    BY <1>1, <1>4, <2>2, WorkerSteps DEF Notifying
  <2> QED BY <1>4, <2>3, FirstCallLoads
<1>5. CASE fsUser # NoClient
  <2>1. SomeLoad
    BY <1>2, <1>3, <1>5 DEF UnderWay
  <2>2. ASSUME NEW q \in Queries, NEW c, Pending(q, c), c.kind = "load"
        PROVE  SomeLoad'
    <3>1. ~RejectListen(q)
      BY <1>2 DEF RejectListen
    <3>2. CASE Pending(q, c)'
      BY <2>2, <3>2 DEF SomeLoad
    <3>3. CASE SnapshotBlock(c, Result(cache', q)) \in Snapshots'
      BY <2>2, <3>3 DEF SomeLoad, SnapshotBlock
    <3> QED BY <1>1, <2>2, <3>1, <3>2, <3>3, PendingStays
  <2>3. ASSUME NEW b \in Snapshots, b.callback.kind = "load"
        PROVE  SomeLoad'
    <3>1. b.callback.login = 1 /\ b.kind = "snapshot"
      BY <1>2, <2>3, AwaitedParts DEF Single, Snapshots
    <3>2. ~(MainStep /\ main # << >> /\ b = Head(main) /\ main' = Tail(main))
      <4> SUFFICES ASSUME MainStep, b = Head(main) PROVE FALSE
        OBVIOUS
      <4>1. RunLoadCallback
        BY <2>3, <3>1 DEF MainStep, RunAuthBlock, RunInitialBlock, RunRemoveCallback,
                          RunUpdateCallback, RunErrorCallback, Answered
      <4> QED BY <1>3, <3>1, <4>1 DEF RunLoadCallback
    <3>3. b \in Snapshots'
      BY <1>1, <3>2, SnapshotStays
    <3> QED BY <2>3, <3>3 DEF SomeLoad
  <2> QED BY <2>1, <2>2, <2>3 DEF SomeLoad
<1> QED BY <1>4, <1>5

\* Someone is signed in: the worker acts for that user, or for no one yet, and
\* no one else is announced.
Alone == Calm /\ keychain # Nobody =>
    /\ fsUser \in {NoClient, keychain}
    /\ \A t \in Tasks : t.kind # "user"
    /\ OnlyAnnounces(main, keychain)

\* Until there is a client, the listener has not been called with any user.
Uncalled == Len(observers) = 1 /\ fsUser = NoClient => observers[1].prev \in {Nobody, Unset}

\* The answer to a sign-in finds no one signed in and nothing announced.
Answerable == Calm /\ SigningIn => keychain = Nobody /\ main = << >>

\* The call that makes a client is the first one with a user.
LEMMA UncalledStep ==
    ASSUME IInv, observers # << >>, Uncalled, [Next]_vars
    PROVE  Uncalled'
<1> SUFFICES ASSUME Len(observers') = 1, fsUser' = NoClient
             PROVE  observers'[1].prev \in {Nobody, Unset}
  BY DEF Uncalled
<1>1. CASE Crash
  <2>1. observers' = <<Observer(1)>>
    BY <1>1 DEF Crash, Launched
  <2> QED BY <2>1 DEF Observer
<1>2. CASE ~Crash
  <2>1. Len(observers) = 1 /\ (Notifying \/ UNCHANGED observers)
    BY <1>2, ListenerLifeSteps
  <2>2. /\ observers \in Seq([login : Nat, prev : Users \cup {Nobody, Unset}])
        /\ DOMAIN observers = {1} /\ authUser \in Users \cup {Nobody}
        /\ NoClient \notin Users \cup {Nobody}
    BY <2>1, UsersAssumption DEF IInv, TypeOK, SessionTypeOK
  <2>3. CASE Notifying
    <3>1. PICK I, tasks : Notify(I, tasks)
      BY <2>3 DEF Notifying, RunAuthBlock, RunInitialBlock
    <3>2. fsUser = NoClient
      BY <2>2, <3>1 DEF Notify
    <3>3. observers[1].prev \in {Nobody, Unset}
      BY <2>1, <3>2 DEF Uncalled
    <3>4. 1 \in I /\ authUser # Nobody => observers[1].prev = authUser
      BY <2>2, <3>1, <3>2 DEF Notify
    <3>5. observers' = [i \in DOMAIN observers |->
                          IF i \in I THEN [observers[i] EXCEPT !.prev = authUser]
                          ELSE observers[i]]
      BY <3>1 DEF Notify
    <3>6. observers'[1].prev \in {authUser, observers[1].prev}
      BY <2>2, <3>5
    <3>7. 1 \notin I => observers'[1].prev = observers[1].prev
      BY <2>2, <3>5
    <3> QED BY <2>2, <3>3, <3>4, <3>6, <3>7
  <2>4. CASE UNCHANGED observers /\ fsUser = NoClient
    BY <2>1, <2>4 DEF Uncalled
  <2>5. ASSUME ~Notifying, fsUser # NoClient
        PROVE  FALSE
    <3>1. TakesTask => fsUser' \in {fsUser, Head(worker).user} /\ Head(worker) \in Task(Len(heap))
      BY DEF TakesTask, IInv, TypeOK, StoreTypeOK
    <3>2. ~TakesTask
      BY <2>2, <2>5, <3>1 DEF Task, TakesTask
    <3> QED BY <1>2, <2>5, <3>2, WorkerSteps DEF Notifying, AddTransaction
  <2> QED BY <2>1, <2>3, <2>4, <2>5
<1> QED BY <1>1, <1>2

\* Where no load is awaited, no client is there at the login, and nothing is
\* under way.
LEMMA IdleLogin ==
    ASSUME IInv, Single, Untouched, UnderWay, Uncalled, Calm, OnLogin,
           \A c \in Awaited : c.kind # "load"
    PROVE  /\ depth = 1 /\ fsUser = NoClient /\ worker = << >>
           /\ \A q \in Queries : listeners[q] = << >>
           /\ observers[1].prev \in {Nobody, Unset}
<1>1. Len(observers) = 1 /\ depth = 1
  BY DEF Single, Calm, OneListener, OnLogin
<1>2. ~SomeLoad
  <2>1. \A q \in Queries : \A c : Pending(q, c) => c \in Awaited
    BY AwaitedParts DEF Pending, ListenTask
  <2> QED BY <2>1, AwaitedParts DEF SomeLoad
<1>3. fsUser = NoClient
  BY <1>1, <1>2 DEF UnderWay
<1>4. worker = << >>
  BY <1>3 DEF IInv, ClientReady
<1>5. \A q \in Queries : listeners[q] = << >>
  <2> SUFFICES ASSUME NEW q \in Queries, listeners[q] # << >> PROVE FALSE
    OBVIOUS
  <2>1. 1 \in DOMAIN listeners[q]
    BY DEF IInv, TypeOK, StoreTypeOK
  <2>2. listeners[q][1] \in Callbacks(q)
    BY <2>1 DEF Callbacks
  <2> QED BY <1>1, <2>2, AwaitedParts DEF Untouched, OnlyLoads
<1> QED BY <1>1, <1>3, <1>4, <1>5 DEF Uncalled

\* While the answer is awaited, no one is signed in and nothing comes up.
LEMMA AnswerableStep ==
    ASSUME Waiting, BudgetBounded, observers # << >>, Single, Untouched, UnderWay, Uncalled,
           Answerable, [Next]_vars
    PROVE  Answerable'
<1> SUFFICES ASSUME Calm', SigningIn' PROVE keychain' = Nobody /\ main' = << >>
  BY DEF Answerable
<1>1. /\ IInv /\ TypeOK /\ StoreTypeOK /\ SessionTypeOK /\ HurryBounded
      /\ Waits /\ Waits' /\ Patient' /\ Len(observers') = 1
  BY WaitsStep DEF Waiting, Presence, IInv, TypeOK, Calm, OneListener
<1>2. ~Crash
  <2>1. Crash => signIns' = [u \in Users |-> 0]
    BY DEF Crash, Launched
  <2> QED BY <2>1 DEF SigningIn
<1>3. Calm /\ ~Spend("failure") /\ Patient /\ Len(observers) = 1
  BY <1>1, <1>2, CalmSteps DEF Calm, OneListener
<1>4. CASE \E u \in Users : SendSignIn(u)
  <2>1. ~Loading /\ OnLogin /\ UNCHANGED <<worker, listeners, main, keychain, authUser, observers>>
    BY <1>1, <1>4, Patience DEF SendSignIn, storeVars
  <2>2. \A c \in Awaited : c.kind # "load"
    <3>1. Awaited' = Awaited
      BY <2>1, QueuesKept DEF Awaited
    <3> QED BY <1>1, <3>1 DEF Waits
  <2>3. observers[1].prev \in {Nobody, Unset}
    BY <1>1, <1>3, <2>1, <2>2, IdleLogin
  <2>4. authUser' = keychain' /\ (authUser' = Nobody \/ observers'[1].prev = authUser')
    BY <1>1 DEF Waits, SessionTypeOK
  <2>5. keychain \in Users \cup {Nobody}
    BY <1>1 DEF SessionTypeOK
  <2> QED BY <2>1, <2>3, <2>4, <2>5, MarkerAssumption DEF Loading
<1>5. CASE ~\E u \in Users : SendSignIn(u)
  <2>1. signIns' = signIns /\ SigningIn
    <3>1. ASSUME NEW u \in Users, signIns[u] > 0, signIns' = [signIns EXCEPT ![u] = @ - 1]
          PROVE  FALSE
      <4>1. signIns[u] = 1 /\ \A v \in Users : v # u => signIns[v] = 0
        BY <1>1, <1>3, <3>1 DEF Waits, SigningIn
      <4>2. \A v \in Users : signIns'[v] = 0
        BY <1>1, <3>1, <4>1 DEF SessionTypeOK
      <4> QED BY <4>2 DEF SigningIn
    <3>2. signIns' = signIns => SigningIn
      BY DEF SigningIn
    <3> QED BY <1>1, <1>2, <1>5, <3>1, <3>2, SignInSteps
  <2>2. /\ OnLogin /\ authUser = keychain /\ keychain = Nobody /\ main = << >>
        /\ \A c \in Awaited : c.kind # "load"
    BY <1>1, <1>3, <2>1 DEF Waits, Answerable
  <2>3. worker = << >> /\ \A q \in Queries : listeners[q] = << >>
    BY <1>1, <1>3, <2>2, IdleLogin
  <2>4. ~\E u \in Users : SignInAnswered(u)
    <3> SUFFICES ASSUME NEW u \in Users, SignInAnswered(u) PROVE FALSE
      OBVIOUS
    <3>1. signIns[u] \in Nat /\ signIns'[u] = signIns[u] - 1
      BY <1>1 DEF SignInAnswered, SessionTypeOK
    <3> QED BY <2>1, <3>1
  <2>5. ~SignOut /\ ~ReturnFromSignUp
    BY <1>1, <2>1, <2>2, Patience DEF SignOut, OnLogin, OnTabs
  <2>6. CASE UserStep
    BY <1>5, <2>2, <2>5, <2>6 DEF UserStep, OpenTable, AddTransaction, SaveEdit, DeleteTransaction,
                        OnTabs, OnLogin
  <2>7. CASE MainStep
    BY <2>2, <2>7 DEF MainStep, RunAuthBlock, RunInitialBlock, RunLoadCallback, RunRemoveCallback,
                      RunUpdateCallback, RunErrorCallback, Answered
  <2>8. CASE AuthStep
    BY <2>2, <2>4, <2>8 DEF AuthStep, LoadKeychain, RefreshToken, SignOutByForce, SignInRefused,
                            storeVars
  <2>9. CASE Frame /\ StoreStep({Encode(c) : c \in NewContents})
    BY <1>3, <2>2, <2>3, <2>9
       DEF Frame, sessionVars, StoreStep, UserDidChange, WriteMutations, AddListener,
           RaiseFromServer, RaiseFromCache, Raise, RejectListen, ApplySuccessfulWrite,
           CommitWithoutResponse, RejectFailedWrite, GoOffline, GoOnline, OtherDevice
  <2>10. CASE UNCHANGED vars
    BY <2>2, <2>10 DEF vars
  <2> QED BY <1>2, <2>6, <2>7, <2>8, <2>9, <2>10 DEF Next
<1> QED BY <1>4, <1>5

\* Who waits for the answer finds nothing under way when it comes.
LEMMA SignInAlone ==
    ASSUME IInv, Waits, Single, Untouched, UnderWay, Uncalled, Answerable, Calm,
           NEW u \in Users, SignInAnswered(u)
    PROVE  /\ main = << >> /\ worker = << >> /\ main' = <<AuthBlock(u)>>
           /\ UNCHANGED <<worker, fsUser, depth>> /\ OnLogin /\ fsUser = NoClient
           /\ keychain' = u
<1>1. SigningIn /\ Patient
  BY DEF SigningIn, SignInAnswered, Calm, OneListener
<1>2. OnLogin /\ main = << >> /\ \A c \in Awaited : c.kind # "load"
  BY <1>1 DEF Waits, Answerable
<1>3. fsUser = NoClient /\ worker = << >>
  BY <1>2, IdleLogin
<1>4. main' = <<AuthBlock(u)>> /\ UNCHANGED <<worker, fsUser, depth>> /\ keychain' = u
  BY <1>2 DEF SignInAnswered
<1> QED BY <1>2, <1>3, <1>4

\* Without a task that changes the user, the SDK was last told of the one that
\* its worker acts for.
LEMMA NoUserTask ==
    ASSUME \A t \in Tasks : t.kind # "user"
    PROVE  CredentialsUser = fsUser
BY DEF Tasks, CredentialsUser

\* The listener is called with the user that the worker acts for, or is to.
LEMMA AloneStep ==
    ASSUME IInv, HurryBounded, BudgetBounded, Waits, observers # << >>, Single, Untouched,
           UnderWay, Uncalled, Answerable, Alone, [Next]_vars
    PROVE  Alone'
<1> SUFFICES ASSUME Calm', keychain' # Nobody
             PROVE  /\ fsUser' \in {NoClient, keychain'}
                    /\ \A t \in Tasks' : t.kind # "user"
                    /\ OnlyAnnounces(main', keychain')
  BY DEF Alone
<1>0. authUser \in {Nobody, keychain} /\ StoreTypeOK
  BY DEF IInv, TypeOK, SessionTypeOK
<1>1. CASE Crash
  BY <1>1, NothingAfterCrash
<1>2. CASE ~Crash
  <2>1. Calm
    BY <1>2, CalmSteps
  <2>2. CASE \E u \in Users : SignInAnswered(u)
    <3>1. PICK u \in Users : SignInAnswered(u)
      BY <2>2
    <3>2. /\ worker' = << >> /\ fsUser' = NoClient /\ main' = <<AuthBlock(u)>> /\ keychain' = u
      BY <2>1, <3>1, SignInAlone
    <3> QED BY <3>2 DEF Tasks, OnlyAnnounces, AuthBlock
  <2>3. CASE ~\E u \in Users : SignInAnswered(u)
    <3>1. ~SignOutByForce /\ keychain' = keychain
      BY <1>2, <2>3, CalmSteps DEF Notifying, RunAuthBlock, RunInitialBlock, LoadKeychain,
                                   SignOutByForce, RunLoadCallback
    <3>2. /\ fsUser \in {NoClient, keychain} /\ keychain # Nobody
          /\ \A t \in Tasks : t.kind # "user"
          /\ OnlyAnnounces(main, keychain)
      BY <2>1, <3>1 DEF Alone
    <3>3. ~UserDidChange
      <4>1. UserDidChange => Head(worker) \in Tasks /\ Head(worker).kind = "user"
        <5>1. worker \in Seq(Task(Len(heap)))
          BY <1>0 DEF StoreTypeOK
        <5> QED BY <5>1 DEF UserDidChange, Tasks
      <4> QED BY <3>2, <4>1
    <3>4. ASSUME RunAuthBlock
          PROVE  Head(main).user = keychain /\ CredentialsUser \in {NoClient, Head(main).user}
      <4>1. main # << >> /\ Head(main).kind = "auth" /\ main' = Tail(main)
        BY <3>4 DEF RunAuthBlock
      <4>2. Head(main).user = keychain
        BY <1>0, <3>2, <4>1, BlockRun
      <4> QED BY <3>2, <4>2, NoUserTask
    <3>5. fsUser' \in {NoClient, keychain}
      <4>1. CASE Notifying
        <5>1. \E I, tasks : Notify(I, tasks)
          BY <4>1 DEF Notifying, RunAuthBlock, RunInitialBlock
        <5>2. fsUser' = fsUser \/ (authUser # Nobody /\ fsUser' = authUser)
          BY <5>1 DEF Notify
        <5> QED BY <1>0, <3>2, <5>2
      <4>2. CASE TakesTask
        <5>1. Head(worker).kind # "user"
          <6>1. Head(worker) \in Tasks
            BY <4>2, TaskPositions DEF Tasks
          <6> QED BY <3>2, <6>1
        <5> QED BY <3>2, <4>2, <5>1 DEF TakesTask
      <4>3. CASE UNCHANGED fsUser
        BY <3>2, <4>3
      <4>4. AddTransaction => UNCHANGED fsUser
        BY DEF AddTransaction
      <4> QED BY <1>2, <4>1, <4>2, <4>3, <4>4, WorkerSteps DEF Notifying
    <3>6. \A t \in Tasks' : t.kind # "user"
      <4>1. CASE Notifying
        BY <3>2, <3>4, <4>1, NotifyingTasks DEF IsLoad
      <4>2. CASE UNCHANGED worker \/ Taking
        BY <3>2, <4>2, TaskKept
      <4>3. CASE Tasking /\ ~Notifying
        <5>1. \A t \in Tasks' : t \in Tasks \/ t.kind # "user"
          <6>1. CASE AddTransaction
            <7>1. UNCHANGED worker \/ \E m : worker' = Append(worker, WriteTask(m))
              BY <6>1 DEF AddTransaction, addTransactions
            <7>2. worker \in Seq(Task(Len(heap)))
              BY <1>0 DEF StoreTypeOK
            <7>3. CASE UNCHANGED worker
              BY <7>3 DEF Tasks
            <7>4. ASSUME NEW m, worker' = Append(worker, WriteTask(m))
                  PROVE  \A t \in Tasks' : t \in Tasks \/ t.kind # "user"
              <8>1. \A i \in DOMAIN worker' : \/ i \in DOMAIN worker /\ worker'[i] = worker[i]
                                              \/ worker'[i] = WriteTask(m)
                BY <7>2, <7>4
              <8>2. WriteTask(m).kind # "user"
                BY DEF WriteTask
              <8> QED BY <8>1, <8>2 DEF Tasks
            <7> QED BY <7>1, <7>3, <7>4
          <6>2. CASE SaveEdit \/ DeleteTransaction \/ RunRemoveCallback \/ RunUpdateCallback
            <7>1. CASE UNCHANGED worker
              BY <7>1 DEF Tasks
            <7>2. CASE LooksUpOrChanges
              <8>1. PICK T : \E t \in Seq(T) : Adds(t)
                BY <7>2 DEF LooksUpOrChanges
              <8>2. PICK t \in Seq(T) : Adds(t)
                BY <8>1
              <8>3. \A i \in DOMAIN worker' : \/ i \in DOMAIN worker /\ worker'[i] = worker[i]
                                              \/ \E j \in DOMAIN t : worker'[i] = t[j]
                BY <8>2, TaskPositions DEF Adds
              <8> QED BY <8>2, <8>3 DEF Tasks, Adds
            <7> QED BY <6>2, <7>1, <7>2, LookUpsMakeNoCreation, CallbacksMakeNoCreation
          <6> QED BY <4>3, <6>1, <6>2 DEF Tasking
        <5> QED BY <3>2, <5>1
      <4> QED BY <1>2, <4>1, <4>2, <4>3, TaskSteps
    <3>7. OnlyAnnounces(main', keychain)
      <4>1. CASE SameAnnouncements
        BY <3>2, <4>1 DEF SameAnnouncements
      <4>2. CASE LoadKeychain \/ RefreshToken
        <5>1. main' = Append(main, AuthBlock(keychain)) /\ AuthBlock(keychain).user = keychain
          BY <1>0, <4>2 DEF LoadKeychain, RefreshToken, AuthBlock
        <5> QED BY <1>0, <3>2, <5>1, BlockAppended
      <4>3. CASE RunAuthBlock
        BY <1>0, <3>2, <4>3, BlockRun DEF RunAuthBlock
      <4>4. ~SignOut
        <5>1. SignOut => Len(observers') = Len(observers) + 1
          BY DEF SignOut, checkLoggedIn, IInv, TypeOK, SessionTypeOK
        <5> QED BY <2>1, <5>1 DEF Calm, OneListener
      <4> QED BY <1>2, <2>3, <3>1, <4>1, <4>2, <4>3, <4>4, AnnouncingSteps
    <3> QED BY <3>1, <3>5, <3>6, <3>7
  <2> QED BY <2>2, <2>3
<1> QED BY <1>1, <1>2

\* A load is answered with what the user's device shows until it is run.
LoadAnswered ==
    Calm /\ keychain # Nobody =>
        \A b \in Snapshots : b.callback.kind = "load" => b.docs = Viewed(ByUser(keychain))

\* Before the tabs are shown nothing is filed, so that an answer stays true.
LEMMA LoadAnsweredStep ==
    ASSUME Tabular, BudgetBounded, Mirrored, Single, Untouched, UnderWay, Uncalled, Answerable,
           Alone, LoadAnswered, [Next]_vars
    PROVE  LoadAnswered'
<1>0. /\ IInv /\ HurryBounded /\ LoadsAskUsers /\ Waits /\ LoadsOwned /\ observers # << >>
      /\ keychain \in Users \cup {Nobody}
  BY DEF Tabular, Belonging, Filing, Waiting, Presence, IInv, TypeOK, SessionTypeOK
<1> SUFFICES ASSUME Calm', keychain' # Nobody, NEW b \in Snapshots', b.callback.kind = "load"
             PROVE  b.docs = Viewed(ByUser(keychain))'
  BY DEF LoadAnswered
<1>1. ~Crash
  BY NothingAfterCrash
<1>2. Calm /\ Len(observers) = 1 /\ Len(observers') = 1
  BY <1>0, <1>1, CalmSteps DEF Calm, OneListener
<1>3. depth' = 1
  <2>1. depth' \in {1, 2}
    BY <1>0, <1>2, SingleStep DEF Single
  <2>2. ASSUME depth' = 2 PROVE FALSE
    <3>1. LoadedOnce' /\ OneListener'
      BY TabularStep DEF Tabular, Calm
    <3>2. NoLoad'
      BY <2>2, <3>1 DEF LoadedOnce, OnTabs
    <3> QED BY <3>2 DEF NoLoad, NoMainLoad, MainLoads, Snapshots
  <2> QED BY <2>1, <2>2
<1>4. depth = 1
  BY <1>0, <1>1, <1>2, <1>3, LoginBefore
<1>5. ~\E u \in Users : SignInAnswered(u)
  <2> SUFFICES ASSUME NEW u \in Users, SignInAnswered(u) PROVE FALSE
    OBVIOUS
  <2>1. main' = <<AuthBlock(u)>>
    BY <1>0, <1>2, SignInAlone
  <2> QED BY <2>1 DEF Snapshots, AuthBlock
<1>6. keychain' = keychain /\ keychain \in Users
  BY <1>0, <1>1, <1>5, CalmSteps DEF Notifying, RunAuthBlock, RunInitialBlock, LoadKeychain,
                               SignOutByForce, RunLoadCallback
<1>7. fsUser' = keychain'
  <2>1. Alone' /\ IInv'
    BY <1>0, AloneStep, Invariance
  <2>2. fsUser' # NoClient
    BY <2>1 DEF IInv, ClientReady, Snapshots
  <2> QED BY <2>1, <2>2 DEF Alone
<1>8. ~WriteMutations
  <2>1. WriteMutations => Head(worker) \in Tasks /\ Head(worker).kind = "write"
    <3>1. worker \in Seq(Task(Len(heap)))
      BY <1>0 DEF IInv, TypeOK, StoreTypeOK
    <3> QED BY <3>1 DEF WriteMutations, Tasks
  <2> QED BY <1>2, <1>4, <2>1 DEF Untouched, OnlyLoads
<1>9. Viewed(ByUser(keychain))' = Viewed(ByUser(keychain))
  <2>1. fsUser \in {NoClient, keychain} /\ Undisturbed'
    BY <1>2, <1>6 DEF Alone, Calm
  <2>2. \A d \in DocIds : View(d)' = View(d)
    BY <1>0, <1>6, <1>8, <2>1, ViewSteps
  <2> QED BY <1>6, <2>2 DEF Viewed
<1>10. CASE b \in Snapshots
  BY <1>2, <1>6, <1>9, <1>10 DEF LoadAnswered
<1>11. ASSUME NEW q \in Queries, Answering(q), NEW c \in Callbacks(q),
              b = SnapshotBlock(c, Result(cache', q))
       PROVE  b.docs = Viewed(ByUser(keychain))'
  <2>1. b.docs = Result(cache', q) /\ c.kind = "load"
    BY <1>11 DEF SnapshotBlock
  <2>2. LoadsFor(keychain)
    BY <1>0, <1>2, <1>6 DEF LoadsOwned, Calm, OneListener
  <2>3. q = ByUser(keychain)
    BY <2>1, <2>2 DEF LoadsFor, LoadsIn, Callbacks
  <2>4. mutations' = mutations /\ fsUser' = fsUser
    BY <1>0, <1>11, RaisedBlocks
  <2>5. Result(cache', q) = Result(cache, q)'
    BY <2>4 DEF Result, LocalDocument
  <2> QED BY <1>6, <1>7, <2>1, <2>3, <2>5, ResultIsViewed
<1> QED BY <1>0, <1>10, <1>11, SnapshotSteps

\* Every object has the id of a transaction that was added.
ObjectsAdded == \A r \in Refs : added[heap[r].id] # NotAdded

\* The steps that make or change objects.
LEMMA HeapSteps ==
    ASSUME [Next]_vars
    PROVE  UNCHANGED heap \/ AddTransaction \/ SaveEdit \/ RunLoadCallback \/ Crash
<1>1. CASE UserStep
  BY <1>1 DEF UserStep, SendSignIn, SignOut, ReturnFromSignUp, OpenTable, DeleteTransaction,
              removeTransaction, managerVars
<1>2. CASE MainStep
  BY <1>2 DEF MainStep, RunAuthBlock, RunInitialBlock, RunRemoveCallback, deleteFound,
              RunUpdateCallback, updateFound, RunErrorCallback, managerVars
<1>3. CASE AuthStep
  BY <1>3 DEF AuthStep, LoadKeychain, RefreshToken, SignOutByForce, SignInAnswered, SignInRefused,
              managerVars
<1>4. CASE Frame /\ StoreStep({Encode(c) : c \in NewContents})
  BY <1>4 DEF Frame, managerVars
<1>5. CASE UNCHANGED vars
  BY <1>5 DEF vars
<1> QED BY <1>1, <1>2, <1>3, <1>4, <1>5 DEF Next

\* A genuine document is one of a transaction that was added.
LEMMA GenuineIsAdded ==
    ASSUME NEW a, NEW d \in DocIds, NEW doc \in Document, Genuine(a, d, doc)
    PROVE  a[doc.id] # NotAdded
BY MarkerAssumption DEF Genuine, Document

\* New objects are of a transaction that was just added, or of a document.
LEMMA ObjectsAddedStep ==
    ASSUME IInv, AnswersGenuine, ObjectsAdded, [Next]_vars
    PROVE  ObjectsAdded'
<1>0. heap \in Seq(Transaction) /\ added \in [Ids -> [key : DocIds \cup {NoKey},
                          user : Users \cup {Nobody}] \cup {NotAdded}]
      /\ IInv' /\ \A r \in Refs : heap[r].id \in Ids
  <2>1. heap \in Seq(Transaction)
    BY DEF IInv, TypeOK, ManagerTypeOK
  <2>2. \A r \in Refs : heap[r] \in Transaction
    BY <2>1 DEF Refs
  <2> QED BY <2>1, <2>2, Invariance DEF IInv, TypeOK, SessionTypeOK, Transaction
<1>1. ASSUME NEW r \in Refs', r \in Refs, heap'[r].id = heap[r].id
      PROVE  added'[heap'[r].id] # NotAdded
  BY <1>0, <1>1, AddedStays DEF ObjectsAdded
<1>2. CASE UNCHANGED heap
  BY <1>1, <1>2 DEF ObjectsAdded, Refs
<1>3. CASE AddTransaction
  <2>1. PICK x \in Ids, d \in DocIds \ UsedKeys, c \in NewContents :
          /\ added[x] = NotAdded
          /\ addTransactions([id |-> x, content |-> c], authUser, d)
          /\ added' = [added EXCEPT ![x] = [key |-> IF authUser = Nobody THEN NoKey ELSE d,
                                            user |-> authUser]]
    BY <1>3 DEF AddTransaction
  <2>2. heap' = Append(heap, [id |-> x, content |-> c])
    BY <2>1 DEF addTransactions
  <2>3. \A r \in Refs' : (r \in Refs /\ heap'[r] = heap[r]) \/ heap'[r].id = x
    BY <1>0, <2>2 DEF Refs
  <2>4. added'[x] # NotAdded
    BY <1>0, <2>1, MarkerAssumption DEF IInv, TypeOK, SessionTypeOK
  <2> QED BY <1>1, <2>3, <2>4 DEF ObjectsAdded
<1>4. CASE SaveEdit
  <2>1. PICK r, c : heap' = [heap EXCEPT ![r].content = c]
    BY <1>4 DEF SaveEdit, updatetransaction
  <2>2. \A s \in Refs' : s \in Refs /\ heap'[s].id = heap[s].id
    <3>1. \A s \in DOMAIN heap : heap[s] \in Transaction
      BY <1>0
    <3> QED BY <2>1, <3>1 DEF Refs, Transaction
  <2> QED BY <1>1, <2>2 DEF ObjectsAdded
<1>5. CASE RunLoadCallback
  <2> DEFINE docs == Head(main).docs
             keys == Ascending(Found(docs))
             n    == Cardinality(Found(docs))
             new  == [i \in 1 .. n |-> [id |-> docs[keys[i]].id,
                                        content |-> Decode(docs[keys[i]].content)]]
             T    == {new[i] : i \in 1 .. n}
  <2>1. docs \in [DocIds -> DocState] /\ heap' = heap \o new /\ added' = added
    BY <1>5, AnsweredTypes DEF RunLoadCallback, setLoadedTransactions
  <2>2. n \in Nat /\ \A i \in 1 .. n : keys[i] \in DocIds /\ docs[keys[i]] \in Document
    BY <2>1, FoundProperties
  <2>3. AllGenuine(added, docs)
    <3>1. 1 \in DOMAIN main /\ Head(main) = main[1] /\ main[1].kind = "snapshot"
      BY <1>5 DEF IInv, TypeOK, StoreTypeOK, RunLoadCallback, Answered
    <3> QED BY <3>1 DEF AnswersGenuine
  <2>4. \A i \in 1 .. n : keys[i] \in Found(docs)
    BY <2>2, MarkerAssumption DEF Found
  <2>5. \A i \in 1 .. n : added[docs[keys[i]].id] # NotAdded
    BY <2>2, <2>3, <2>4, GenuineIsAdded DEF AllGenuine
  <2>6. new \in Seq(T) /\ DOMAIN new = 1 .. n /\ \A i \in 1 .. n : new[i].id = docs[keys[i]].id
    <3>1. DOMAIN new = 1 .. n /\ (\A i \in 1 .. n : new[i].id = docs[keys[i]].id)
      OBVIOUS
    <3>2. new = [i \in 1 .. n |-> new[i]] /\ \A i \in 1 .. n : new[i] \in T
      OBVIOUS
    <3> HIDE DEF new, T, n, keys, docs
    <3>3. [i \in 1 .. n |-> new[i]] \in Seq(T)
      BY <2>2, <3>2
    <3> QED BY <3>1, <3>2, <3>3
  <2> HIDE DEF docs, keys, n, new, T
  <2>7. \A r \in Refs' : (r \in Refs /\ heap'[r] = heap[r]) \/ \E i \in 1 .. n : heap'[r] = new[i]
    <3> SUFFICES ASSUME NEW r \in Refs'
                 PROVE  (r \in Refs /\ heap'[r] = heap[r]) \/ \E i \in 1 .. n : heap'[r] = new[i]
      OBVIOUS
    <3>1. r \in DOMAIN (heap \o new)
      BY <2>1 DEF Refs
    <3>2. \/ r \in DOMAIN heap /\ (heap \o new)[r] = heap[r]
          \/ \E i \in DOMAIN new : (heap \o new)[r] = new[i]
      <4>1. heap \in Seq(Transaction) /\ new \in Seq(T)
        BY <1>0, <2>6
      <4> QED BY <3>1, <4>1, ElementOfConcat
    <3> QED BY <2>1, <2>6, <3>2 DEF Refs
  <2> SUFFICES ASSUME NEW r \in Refs' PROVE added'[heap'[r].id] # NotAdded
    BY DEF ObjectsAdded
  <2>8. CASE r \in Refs /\ heap'[r] = heap[r]
    BY <1>1, <2>8
  <2>9. CASE \E i \in 1 .. n : heap'[r] = new[i]
    BY <2>1, <2>5, <2>6, <2>9
  <2> QED BY <2>7, <2>8, <2>9
<1>6. CASE Crash
  <2>1. heap' = << >>
    BY <1>6 DEF Crash, Launched
  <2> QED BY <2>1 DEF ObjectsAdded, Refs
<1> QED BY <1>2, <1>3, <1>4, <1>5, <1>6, HeapSteps


-----------------------------------------------------------------------------
\* The one who is signed in looks at the tabs, and nothing has gone wrong.
Sitting == Calm /\ keychain # Nobody /\ depth = 2

\* What has been proved of such a session so far.
Background ==
    /\ Tabular /\ Uniqueness
    /\ BudgetBounded /\ Mirrored /\ Single /\ Untouched /\ UnderWay /\ Uncalled
    /\ Answerable /\ Alone /\ LoadAnswered /\ ObjectsAdded

\* The signed-in user has added x as the document d.
Mine(x, d) == added[x] = [key |-> d, user |-> keychain]

\* The deletion of d is looked up, found, or on the worker queue; and so an edit
\* of the object r.
FoundBy(c, d) == \E b \in Snapshots : b.callback = c /\ b.docs[d] # Absent
ToBeDeleted(d) == WriteTask(Delete(d)) \in Tasks
Doomed(x, d) == \/ Pending(ById(x), RemoveCallback) \/ FoundBy(RemoveCallback, d)
                \/ ToBeDeleted(d)
Refreshing(x, d, r) == Pending(ById(x), UpdateCallback(r)) \/ FoundBy(UpdateCallback(r), d)

\* When the worker queue is run, the document d shows the content k: by the last
\* write of it, or because there is none and it does already.
Writes(i, d) == worker[i].kind = "write" /\ worker[i].mutation.key = d
NewContent(m) == IF m.op = "set" THEN m.document.content ELSE m.content
WrittenLast(d, k) ==
    \E i \in DOMAIN worker :
        /\ Writes(i, d) /\ worker[i].mutation.op # "delete"
        /\ Decode(NewContent(worker[i].mutation)) = k
        /\ \A j \in DOMAIN worker : j > i => ~Writes(j, d)
Left(d, k) ==
    /\ \A i \in DOMAIN worker : ~Writes(i, d)
    /\ View(d) # Absent /\ Decode(View(d).content) = k
Settled(d, k) == WrittenLast(d, k) \/ Left(d, k)

\* The array has the user's transactions whose documents are there or to come;
\* those that were taken out of it have none, or it is to be deleted.
IdAt(i) == heap[transactions[i]].id
ShownMine == \A x \in Shown : \E d \in DocIds : Mine(x, d)
ShownKept == \A x \in Shown, d \in DocIds : Mine(x, d) =>
    (View(d) # Absent \/ ToBeFiled(d)) /\ ~Doomed(x, d)
OthersGo == \A x \in Ids \ Shown, d \in DocIds : Mine(x, d) =>
    (View(d) = Absent /\ ~ToBeFiled(d)) \/ Doomed(x, d)

\* An entry's content is what its document is to show, or an edit of it is under
\* way.
ContentsFollow == \A i \in DOMAIN transactions, d \in DocIds : Mine(IdAt(i), d) =>
    \/ Refreshing(IdAt(i), d, transactions[i])
    \/ Settled(d, Decode(Encode(heap[transactions[i]].content)))

\* A creation is filed before its document is looked up, found or changed.
CreatedFirst ==
    \A i \in DOMAIN worker, d \in DocIds :
        Writes(i, d) /\ worker[i].mutation.op # "set" => ~ToBeFiled(d)
FoundAfter == \A b \in Snapshots, d \in DocIds : b.docs[d] # Absent => ~ToBeFiled(d)
AskedAfter == \A x \in Ids : Callbacks(ById(x)) # {} => ~ToBeFiled(added[x].key)
AskedBehind ==
    \A i, j \in DOMAIN worker :
        /\ IsCreation(worker[i]) /\ worker[j].kind = "listen"
        /\ worker[j].query = ById(worker[i].mutation.document.id)
        => i < j
CreationFirst == CreatedFirst /\ FoundAfter /\ AskedAfter /\ AskedBehind

\* An edit is of the user's transaction and, if the array has that, of the
\* object it has; a deletion looks an id up.
OwnObject(r) == \A i \in DOMAIN transactions : IdAt(i) = heap[r].id => transactions[i] = r
MyObject(r) == OwnObject(r) /\ \E d \in DocIds : Mine(heap[r].id, d)
EditsMine == \A q \in Queries, r \in Refs :
    Pending(q, UpdateCallback(r)) => q = ById(heap[r].id) /\ MyObject(r)
RemovesOne == \A q \in Queries : Pending(q, RemoveCallback) => q \in {ById(x) : x \in Ids}
EditsFound == \A b \in Snapshots : b.callback.kind = "update" =>
    /\ OwnObject(b.callback.ref)
    /\ \A d \in DocIds : b.docs[d] # Absent => Mine(heap[b.callback.ref].id, d)
LookUps == EditsMine /\ RemovesOne /\ EditsFound

\* Nothing is looked up or written that was not added.
KnownAsked == \A x \in Ids :
    (\E t \in Tasks : t.kind = "listen" /\ t.query = ById(x)) \/ Callbacks(ById(x)) # {}
        => added[x] # NotAdded
KnownWritten == \A i \in DOMAIN worker : worker[i].kind = "write" =>
    worker[i].mutation.key \in UsedKeys
NothingNew == KnownAsked /\ KnownWritten

\* The array and the documents agree, but for what is under way.
Agreed == /\ ShownMine /\ ShownKept /\ OthersGo /\ ContentsFollow
          /\ CreationFirst /\ LookUps /\ NothingNew
Agreement == Sitting => Agreed

\* Before its creation is filed a document is not seen: it was not committed, and
\* no creation of it is in the mutation queue.
LEMMA UnseenUntilFiled ==
    ASSUME IInv, FiledOnce, CommittedOnce, cache = server, keychain # Nobody,
           NEW d \in DocIds, ToBeFiled(d)
    PROVE  View(d) = Absent
<1> DEFINE q == mutations[keychain]
<1>1. q \in Seq(Mutation) /\ keychain \in Users \cup {Nobody}
  BY DEF IInv, TypeOK, StoreTypeOK, SessionTypeOK
<1>2. \A i \in DOMAIN q : q[i].op = "set" => q[i].key # d
  BY <1>1 DEF FiledOnce
<1>3. cache[d] = Absent
  BY DEF CommittedOnce
<1>4. View(d) = Written(q, Absent, d)
  BY <1>3, LocalIsSeen DEF View
<1> HIDE DEF q
<1>5. Overlaid(q, Absent, d, View(d))
  BY <1>1, <1>4, WrittenIsOverlaid
<1>6. PICK p, k \in Nat : \E b :
        BasedOn(q, Absent, d, p, b) /\ PatchedBy(q, d, p, k)
        /\ View(d) = IF k = 0 THEN b ELSE ApplyTo(q[k], b)
  BY <1>5 DEF Overlaid
<1>7. PICK b :
        BasedOn(q, Absent, d, p, b) /\ PatchedBy(q, d, p, k)
        /\ View(d) = IF k = 0 THEN b ELSE ApplyTo(q[k], b)
  BY <1>6
<1>8. \A i \in DOMAIN q : q[i] \in Mutation
  BY <1>1
<1>9. b = Absent
  <2>1. CASE p = 0 /\ b = Absent
    BY <2>1
  <2>2. CASE p \in DOMAIN q /\ Replaces(q[p], d) /\ b = ApplyTo(q[p], Absent)
    <3>1. q[p].op = "delete"
      BY <1>2, <1>8, <2>2 DEF Replaces, Mutation
    <3> QED BY <2>2, <3>1 DEF ApplyTo, Precondition
  <2> QED BY <1>7, <2>1, <2>2 DEF BasedOn
<1>10. k # 0 => ApplyTo(q[k], Absent) = Absent
  <2>1. k # 0 => q[k].op = "patch"
    BY <1>7 DEF PatchedBy, Patches
  <2> QED BY <2>1 DEF ApplyTo, Precondition
<1> QED BY <1>7, <1>9, <1>10

\* The signed-in user is the one that Auth, the worker and the queries name; a
\* document that is seen is genuine, and its creation was filed.
LEMMA InSitting ==
    ASSUME Background, Calm, keychain # Nobody, fsUser # NoClient
    PROVE  /\ keychain \in Users /\ fsUser = keychain /\ cache = server
           /\ \A d \in DocIds :
                /\ View(d) \in DocState
                /\ View(d) # Absent => View(d) \in Document /\ Genuine(added, d, View(d))
                /\ ToBeFiled(d) => View(d) = Absent
<1>1. /\ IInv /\ Provenance /\ InCache /\ FiledOnce /\ CommittedOnce
      /\ keychain \in Users /\ fsUser = keychain /\ cache = server
  BY DEF Background, Tabular, Belonging, Uniqueness, Once, Filing, Waiting, Presence, Alone, Mirrored,
         Calm, IInv, TypeOK, SessionTypeOK
<1>2. cache \in [DocIds -> DocState]
  BY <1>1 DEF IInv, TypeOK, StoreTypeOK
<1>3. \A d \in DocIds : GenuineOrNone(d, View(d))
  BY <1>1, <1>2, LocalDocumentGenuine DEF GenuineOrNone, InCache, View
<1> QED BY <1>1, <1>3, UnseenUntilFiled DEF GenuineOrNone, DocState

\* What the user has added under a key is one transaction.
LEMMA MineOnce ==
    ASSUME IInv, KeysOnce, NEW x \in Ids, NEW y \in Ids, NEW d \in DocIds, Mine(x, d),
           added[y].key = d, added[y] # NotAdded
    PROVE  x = y
<1>1. keychain \in Users \cup {Nobody}
  BY DEF IInv, TypeOK, SessionTypeOK
<1>2. added[x] # NotAdded /\ added[x].key = d /\ d # NoKey
  BY <1>1, MarkerAssumption DEF Mine
<1> QED BY <1>2 DEF KeysOnce

\* Nothing that matters to a session happens.
Quiet == /\ UNCHANGED <<heap, transactions, added, worker, listeners>>
         /\ Snapshots' = Snapshots
         /\ ~WriteMutations

\* A session begins with the load that shows the tabs, and these steps matter
\* to it.
LEMMA SittingSteps ==
    ASSUME Background, [Next]_vars, Sitting'
    PROVE  /\ Calm /\ keychain # Nobody /\ keychain' = keychain /\ Undisturbed' /\ ~Crash
           /\ \/ depth = 1 /\ RunLoadCallback
              \/ /\ Sitting /\ fsUser' = fsUser
                 /\ \/ Quiet \/ WriteMutations \/ AddListener
                    \/ \E q \in Queries : Answering(q)
                    \/ AddTransaction \/ SaveEdit \/ DeleteTransaction
                    \/ RunRemoveCallback \/ RunUpdateCallback
<1>0. /\ IInv /\ HurryBounded /\ BudgetBounded /\ observers # << >> /\ LoadedOnce
      /\ Waits /\ Single /\ Untouched /\ UnderWay /\ Uncalled /\ Answerable /\ Alone /\ IInv'
  BY Invariance DEF Background, Tabular, Belonging, Filing, Waiting, Presence
<1>1. Calm' /\ keychain' # Nobody /\ depth' = 2 /\ Undisturbed' /\ Len(observers') = 1
  BY DEF Sitting, Calm, OneListener
<1>2. ~Crash
  BY <1>1, NothingAfterCrash
<1>3. /\ Calm /\ ~Spend("failure") /\ ~Spend("remote") /\ OneListener /\ Len(observers) = 1
      /\ \/ Notifying \/ LoadKeychain \/ (\E u \in Users : SignInAnswered(u))
         \/ SignOutByForce \/ RunLoadCallback
         \/ UNCHANGED <<authUser, keychain, depth>>
      /\ Notifying \/ UNCHANGED observers
  BY <1>0, <1>1, <1>2, CalmSteps DEF Calm, OneListener
<1>4. ~(\E u \in Users : SignInAnswered(u)) /\ ~SignOutByForce
  <2>1. SignOutByForce => FALSE
    BY <1>1 DEF SignOutByForce
  <2>2. (\E u \in Users : SignInAnswered(u)) => depth' = depth /\ OnLogin
    BY <1>0, <1>3, SignInAlone
  <2> QED BY <1>1, <2>1, <2>2 DEF OnLogin
<1>5. keychain' = keychain /\ (RunLoadCallback \/ depth' = depth)
  BY <1>3, <1>4 DEF Notifying, RunAuthBlock, RunInitialBlock, LoadKeychain, RunLoadCallback
<1>6. RunLoadCallback => depth = 1
  <2>1. depth \in {1, 2}
    BY <1>0, <1>3 DEF Single
  <2>2. depth = 2 => NoLoad
    BY <1>0, <1>3 DEF LoadedOnce, OnTabs
  <2>3. OneLoad
    BY <1>0, <1>3 DEF LoadedOnce
  <2> QED BY <1>0, <2>1, <2>2, <2>3, LoadRun
<1>7. ASSUME ~RunLoadCallback
      PROVE  /\ Sitting /\ fsUser' = fsUser
             /\ \/ Quiet \/ WriteMutations \/ AddListener
                \/ \E q \in Queries : Answering(q)
                \/ AddTransaction \/ SaveEdit \/ DeleteTransaction
                \/ RunRemoveCallback \/ RunUpdateCallback
  <2>1. Sitting
    BY <1>1, <1>3, <1>5, <1>7 DEF Sitting
  <2>2. /\ fsUser = keychain /\ authUser = keychain /\ observers[1].prev = authUser
        /\ \A t \in Tasks : t.kind # "user"
        /\ OnlyAnnounces(main, keychain)
    <3>1. OnTabs /\ depth = 2
      BY <2>1 DEF Sitting, OnTabs
    <3>2. ~ToBeLoaded /\ (authUser # keychain => observers[1].prev # keychain)
      BY <1>0, <1>3, <3>1 DEF LoadedOnce
    <3>3. fsUser # NoClient
      BY <1>0, <3>1 DEF IInv, ClientReady
    <3>4. /\ fsUser \in {NoClient, keychain}
          /\ \A t \in Tasks : t.kind # "user"
          /\ OnlyAnnounces(main, keychain)
      BY <1>0, <2>1 DEF Sitting, Alone
    <3> QED BY <2>1, <3>2, <3>3, <3>4 DEF ToBeLoaded, Sitting
  <2>3. ASSUME Notifying
        PROVE  UNCHANGED <<worker, fsUser>>
    <3>1. main # << >> /\ Head(main) \in Block(Len(heap), Len(observers))
      BY <1>0, <2>3, NextBlock DEF Notifying, RunAuthBlock, RunInitialBlock, IInv, TypeOK,
                                   StoreTypeOK
    <3>2. Notify({1}, << >>)
      <4>1. CASE RunAuthBlock
        <5>1. 1 \in DOMAIN main /\ Head(main) = main[1] /\ main[1].kind = "auth"
          BY <1>0, <4>1 DEF RunAuthBlock, IInv, TypeOK, StoreTypeOK
        <5>2. Head(main).user = keychain
          BY <2>2, <5>1 DEF OnlyAnnounces
        <5>3. CredentialsUser = keychain
          BY <2>2, NoUserTask
        <5>4. DOMAIN observers = {1}
          BY <1>0, <1>3 DEF IInv, TypeOK, SessionTypeOK
        <5> QED BY <4>1, <5>2, <5>3, <5>4 DEF RunAuthBlock
      <4>2. CASE RunInitialBlock
        <5>1. Head(main).observer \in 1 .. 1
          BY <1>3, <3>1, <4>2 DEF RunInitialBlock, Block
        <5>2. Head(main).observer = 1
          BY <5>1
        <5>3. Notify({Head(main).observer}, << >>)
          BY <4>2 DEF RunInitialBlock
        <5> QED BY <5>2, <5>3
      <4> QED BY <2>3, <4>1, <4>2 DEF Notifying
    <3>3. DOMAIN Asked({1}) = {} /\ {1} \in SUBSET DOMAIN observers
      BY <1>0, <1>3, <2>2, SingleAsks DEF IInv, TypeOK, SessionTypeOK
    <3>5. /\ worker' = worker \o << >> \o Asked({1})
          /\ Asked({1}) \in Seq({Asked({1})[j] : j \in DOMAIN Asked({1})})
      BY <1>0, <3>2, <3>3, NotifyAsks DEF IInv
    <3>4. Asked({1}) = << >>
      BY <3>3, <3>5
    <3>6. worker \in Seq(Task(Len(heap)))
      BY <1>0 DEF IInv, TypeOK, StoreTypeOK
    <3>7. worker' = worker
      BY <3>4, <3>5, <3>6
    <3>8. fsUser' = fsUser
      BY <1>0, <2>2, <3>2 DEF Notify, IInv, TypeOK, SessionTypeOK, StoreTypeOK
    <3> QED BY <3>7, <3>8
  <2>4. ~UserDidChange
    <3>1. UserDidChange => Head(worker) \in Tasks /\ Head(worker).kind = "user"
      <4>1. worker \in Seq(Task(Len(heap)))
        BY <1>0 DEF IInv, TypeOK, StoreTypeOK
      <4> QED BY <4>1 DEF UserDidChange, Tasks
    <3> QED BY <2>2, <3>1
  <2>5. CASE UserStep
    <3>1. ~SignOut /\ ~ReturnFromSignUp /\ ~\E u \in Users : SendSignIn(u)
      BY <1>5, <1>7, <1>0, <1>1, <2>1 DEF SignOut, ReturnFromSignUp, SendSignIn, OnLogin, Sitting
    <3>2. CASE OpenTable
      <4>1. UNCHANGED <<heap, transactions, added, worker, listeners, main, fsUser, mutations>>
        BY <3>2 DEF OpenTable, storeVars, managerVars
      <4>2. ~WriteMutations
        BY <1>0, <4>1 DEF WriteMutations, IInv, TypeOK, StoreTypeOK
      <4> QED BY <2>1, <4>1, <4>2 DEF Quiet, Snapshots
    <3> QED BY <1>4, <2>1, <2>5, <3>1, <3>2
            DEF UserStep, AddTransaction, SaveEdit, DeleteTransaction
  <2>6. CASE Notifying \/ RunErrorCallback
    <3>1. /\ UNCHANGED <<heap, transactions, added, worker, listeners, fsUser>>
          /\ main # << >> /\ main' = Tail(main)
          /\ Head(main).kind \in {"auth", "initial", "error"}
      BY <2>3, <2>6 DEF Notifying, RunAuthBlock, RunInitialBlock, RunErrorCallback, managerVars
    <3>2. Snapshots' = Snapshots
      <4>1. \A b \in Snapshots : b \in Snapshots'
        <5>1. Head(main).kind # "snapshot"
          BY <3>1
        <5>2. \A b \in Snapshots : b.kind = "snapshot"
          BY DEF Snapshots
        <5> QED BY <1>0, <1>2, <5>1, <5>2, SnapshotStays
      <4>2. \A b \in Snapshots' : b \in Snapshots
        <5>1. main \in Seq(Block(Len(heap), Len(observers)))
          BY <1>0 DEF IInv, TypeOK, StoreTypeOK
        <5>2. \A i \in DOMAIN main' : i + 1 \in DOMAIN main /\ main'[i] = main[i + 1]
          BY <3>1, <5>1
        <5> QED BY <5>2 DEF Snapshots
      <4> QED BY <4>1, <4>2
    <3>3. ~WriteMutations
      BY <1>0, <3>1 DEF WriteMutations, IInv, TypeOK, StoreTypeOK
    <3> QED BY <2>1, <3>1, <3>2, <3>3 DEF Quiet
  <2>7. CASE RunRemoveCallback \/ RunUpdateCallback
    BY <2>1, <2>7 DEF RunRemoveCallback, RunUpdateCallback
  <2>8. CASE LoadKeychain \/ RefreshToken
    <3>1. ~LoadKeychain
      BY <2>2 DEF LoadKeychain
    <3>2. /\ UNCHANGED <<heap, transactions, added, worker, listeners, fsUser>>
          /\ main' = Append(main, AuthBlock(authUser))
      BY <2>8, <3>1 DEF RefreshToken, managerVars
    <3>3. Snapshots' = Snapshots
      <4>1. main \in Seq(Block(Len(heap), Len(observers)))
        BY <1>0 DEF IInv, TypeOK, StoreTypeOK
      <4>2. /\ \A i \in DOMAIN main : i \in DOMAIN main' /\ main'[i] = main[i]
            /\ \A i \in DOMAIN main' : (i \in DOMAIN main /\ main'[i] = main[i])
                                       \/ main'[i] = AuthBlock(authUser)
        BY <3>2, <4>1
      <4>3. AuthBlock(authUser).kind # "snapshot"
        BY DEF AuthBlock
      <4> QED BY <4>2, <4>3 DEF Snapshots
    <3>4. ~WriteMutations
      BY <1>0, <3>2 DEF WriteMutations, IInv, TypeOK, StoreTypeOK
    <3> QED BY <2>1, <3>2, <3>3, <3>4 DEF Quiet
  <2>9. CASE Frame /\ StoreStep({Encode(c) : c \in NewContents})
    <3>1. CASE WriteMutations \/ AddListener \/ \E q \in Queries : Answering(q)
      BY <2>1, <3>1 DEF WriteMutations, AddListener, Answering, RaiseFromServer, RaiseFromCache
    <3>2. CASE ApplySuccessfulWrite \/ RejectFailedWrite \/ GoOffline \/ GoOnline
      <4>1. UNCHANGED <<heap, transactions, added, worker, listeners, main, fsUser>>
        BY <2>9, <3>2 DEF Frame, managerVars, ApplySuccessfulWrite, RejectFailedWrite,
                          GoOffline, GoOnline
      <4>2. ~WriteMutations
        BY <1>0, <4>1 DEF WriteMutations, IInv, TypeOK, StoreTypeOK
      <4> QED BY <2>1, <4>1, <4>2 DEF Quiet, Snapshots
    <3>3. \A q \in Queries : ~RejectListen(q)
      BY <1>3 DEF RejectListen
    <3>4. ~CommitWithoutResponse /\ ~OtherDevice({Encode(c) : c \in NewContents})
      BY <1>3 DEF CommitWithoutResponse, OtherDevice
    <3> QED BY <2>4, <2>9, <3>1, <3>2, <3>3, <3>4 DEF StoreStep, Answering
  <2>10. CASE UNCHANGED vars
    <3>1. UNCHANGED <<heap, transactions, added, worker, listeners, main, fsUser>>
      BY <2>10 DEF vars
    <3>2. ~WriteMutations
      BY <1>0, <3>1 DEF WriteMutations, IInv, TypeOK, StoreTypeOK
    <3> QED BY <2>1, <3>1, <3>2 DEF Quiet, Snapshots
  <2>11. CASE \E u \in Users : SignInRefused(u)
    <3>1. UNCHANGED <<heap, transactions, added, worker, listeners, main, fsUser>>
      BY <2>11 DEF SignInRefused, storeVars, managerVars
    <3>2. ~WriteMutations
      BY <1>0, <3>1 DEF WriteMutations, IInv, TypeOK, StoreTypeOK
    <3> QED BY <2>1, <3>1, <3>2 DEF Quiet, Snapshots
  <2>12. AuthStep => \/ LoadKeychain \/ RefreshToken \/ SignOutByForce
                     \/ \E u \in Users : SignInAnswered(u) \/ SignInRefused(u)
    BY DEF AuthStep
  <2> QED BY <1>2, <1>4, <1>7, <2>5, <2>6, <2>7, <2>8, <2>9, <2>10, <2>11, <2>12
          DEF Next, MainStep, Notifying
<1> QED BY <1>1, <1>2, <1>3, <1>5, <1>6, <1>7

\* Agreement survives a step that does not matter to it.
LEMMA QuietAgreed ==
    ASSUME Agreed, Quiet, keychain' = keychain, \A d \in DocIds : View(d)' = View(d)
    PROVE  Agreed'
<1>1. UNCHANGED <<heap, transactions, added, worker, listeners>> /\ Snapshots' = Snapshots
  BY DEF Quiet
<1>2. Tasks' = Tasks /\ (\A q : Callbacks(q)' = Callbacks(q)) /\ Shown' = Shown /\ UsedKeys' = UsedKeys
  BY <1>1 DEF Tasks, Callbacks, Shown, UsedKeys
<1>3. /\ \A x, d : Mine(x, d)' <=> Mine(x, d)
      /\ \A q, c : Pending(q, c)' <=> Pending(q, c)
      /\ \A c, d : FoundBy(c, d)' <=> FoundBy(c, d)
      /\ \A d : ToBeDeleted(d)' <=> ToBeDeleted(d)
      /\ \A d : ToBeFiled(d)' <=> ToBeFiled(d)
      /\ \A i, d : Writes(i, d)' <=> Writes(i, d)
      /\ \A i : IdAt(i)' = IdAt(i)
  BY <1>1, <1>2 DEF Mine, Pending, FoundBy, ToBeDeleted, ToBeFiled, Writes, IdAt
<1>4. \A d, k : WrittenLast(d, k)' <=> WrittenLast(d, k)
  BY <1>1, <1>3 DEF WrittenLast
<1>5. \A d \in DocIds : \A k : Left(d, k)' <=> Left(d, k)
  BY <1>1, <1>3 DEF Left
<1>6. /\ \A x, d : Doomed(x, d)' <=> Doomed(x, d)
      /\ \A x, d, r : Refreshing(x, d, r)' <=> Refreshing(x, d, r)
      /\ \A d \in DocIds : \A k : Settled(d, k)' <=> Settled(d, k)
      /\ \A r : OwnObject(r)' <=> OwnObject(r)
  BY <1>1, <1>3, <1>4, <1>5 DEF Doomed, Refreshing, Settled, OwnObject
<1>7. ShownMine' /\ ShownKept' /\ OthersGo'
  BY <1>2, <1>3, <1>6 DEF Agreed, ShownMine, ShownKept, OthersGo
<1>8. ContentsFollow'
  BY <1>1, <1>3, <1>6 DEF Agreed, ContentsFollow
<1>9. CreationFirst'
  BY <1>1, <1>2, <1>3 DEF Agreed, CreationFirst, CreatedFirst, FoundAfter, AskedAfter, AskedBehind
<1>10. LookUps'
  BY <1>1, <1>2, <1>3, <1>6 DEF Agreed, LookUps, EditsMine, RemovesOne, EditsFound, MyObject, Refs
<1>11. NothingNew'
  BY <1>1, <1>2 DEF Agreed, NothingNew, KnownAsked, KnownWritten
<1> QED BY <1>7, <1>8, <1>9, <1>10, <1>11 DEF Agreed

\* What the steps do to the sets of tasks when the first is taken.
LEMMA TaskTaken ==
    ASSUME IInv, TakesTask, NEW t, t = Head(worker)
    PROVE  /\ \A s \in Tasks' : s \in Tasks
           /\ \A s \in Tasks : s \in Tasks' \/ s = t
           /\ t \in Tasks /\ t = worker[1] /\ 1 \in DOMAIN worker
           /\ \A d : ToBeFiled(d)' => ToBeFiled(d)
           /\ \A d : ToBeFiled(d) => ToBeFiled(d)' \/ (IsCreation(t) /\ t.mutation.key = d)
           /\ \A i \in DOMAIN worker' : \A d : Writes(i, d)' <=> Writes(i + 1, d)
<1>1. /\ worker # << >> /\ 1 \in DOMAIN worker /\ Head(worker) = worker[1]
      /\ \A i \in DOMAIN worker' : /\ i \in Nat \ {0} /\ i + 1 \in DOMAIN worker
                                   /\ worker'[i] = worker[i + 1]
      /\ \A i \in DOMAIN worker :
           i = 1 \/ (i > 1 /\ i - 1 \in DOMAIN worker' /\ worker'[i - 1] = worker[i])
  BY TaskPositions
<1>2. \A s \in Tasks' : s \in Tasks
  BY <1>1 DEF Tasks
<1>3. \A s \in Tasks : s \in Tasks' \/ s = t
  BY <1>1 DEF Tasks
<1>4. t \in Tasks
  BY <1>1 DEF Tasks
<1>5. \A d : ToBeFiled(d)' => ToBeFiled(d)
  BY <1>1 DEF ToBeFiled, IsCreation
<1>6. \A d : ToBeFiled(d) => ToBeFiled(d)' \/ (IsCreation(t) /\ t.mutation.key = d)
  BY <1>1 DEF ToBeFiled, IsCreation
<1>7. \A i \in DOMAIN worker' : \A d : Writes(i, d)' <=> Writes(i + 1, d)
  BY <1>1 DEF Writes
<1> QED BY <1>1, <1>2, <1>3, <1>4, <1>5, <1>6, <1>7

\* The order of creations does not change when a task is taken.
LEMMA OrderKept ==
    ASSUME IInv, TakesTask, UNCHANGED added, Snapshots' = Snapshots, Agreed
    PROVE  CreatedFirst' /\ FoundAfter' /\ AskedBehind' /\ KnownWritten'
<1> USE DEF Agreed, CreationFirst, NothingNew
<1>1. /\ \A i \in DOMAIN worker' : /\ i \in Nat \ {0} /\ i + 1 \in DOMAIN worker
                                   /\ worker'[i] = worker[i + 1]
      /\ \A d : ToBeFiled(d)' => ToBeFiled(d)
      /\ \A i \in DOMAIN worker' : \A d : Writes(i, d)' <=> Writes(i + 1, d)
  BY TaskPositions, TaskTaken
<1>2. CreatedFirst'
  BY <1>1 DEF CreatedFirst
<1>3. FoundAfter'
  BY <1>1 DEF FoundAfter
<1>4. AskedBehind'
  <2> SUFFICES ASSUME NEW i \in DOMAIN worker', NEW j \in DOMAIN worker',
                      IsCreation(worker'[i]), worker'[j].kind = "listen",
                      worker'[j].query = ById(worker'[i].mutation.document.id)
               PROVE  i < j
    BY DEF AskedBehind, IsCreation
  <2>1. i + 1 < j + 1
    BY <1>1 DEF AskedBehind
  <2> QED BY <1>1, <2>1
<1>5. KnownWritten'
  <2>1. UsedKeys' = UsedKeys
    BY DEF UsedKeys
  <2> QED BY <1>1, <2>1 DEF KnownWritten
<1> QED BY <1>2, <1>3, <1>4, <1>5

\* A write that is filed shows at once: a creation or an edit shows the content
\* it has, a deletion is of what is no longer in the array.
LEMMA WriteMutationsAgreed ==
    ASSUME Background, Sitting, Agreed, [Next]_vars, Undisturbed', keychain' = keychain,
           WriteMutations
    PROVE  Agreed'
<1> DEFINE m == Head(worker).mutation
<1>0. /\ IInv /\ keychain \in Users /\ fsUser = keychain /\ BudgetBounded /\ Mirrored
      /\ \A d \in DocIds : View(d) \in DocState
  <2>1. fsUser # NoClient /\ IInv
    BY DEF Background, Tabular, Belonging, Filing, Waiting, Presence, IInv, ClientReady, Sitting
  <2> QED BY <2>1, InSitting DEF Background, Sitting
<1>1. /\ TakesTask /\ UNCHANGED <<listeners, heap, transactions, added, main>>
      /\ Snapshots' = Snapshots
  <2>1. TakesTask /\ UNCHANGED <<listeners, main>>
    BY DEF WriteMutations, TakesTask
  <2>2. Frame \/ UserStep \/ MainStep \/ AuthStep \/ Crash \/ UNCHANGED vars
    BY DEF Next
  <2>3. UNCHANGED <<heap, transactions, added>>
    <3>1. worker' # worker /\ mutations' # mutations
      BY <1>0, <2>1 DEF IInv, TypeOK, StoreTypeOK, WriteMutations
    <3> QED BY <2>2, <3>1
          DEF Frame, managerVars, vars, UserStep, MainStep, AuthStep, SendSignIn, SignInAnswered,
              SignInRefused, SignOut, ReturnFromSignUp, OpenTable, AddTransaction, SaveEdit, DeleteTransaction,
              RunAuthBlock, RunInitialBlock, RunLoadCallback, RunRemoveCallback,
              RunUpdateCallback, RunErrorCallback, LoadKeychain, RefreshToken, SignOutByForce,
              Crash, Launched, StoreCrash, storeVars
  <2> QED BY <2>1, <2>3 DEF Snapshots
<1>2. /\ m \in Mutation /\ m.key \in DocIds /\ worker[1] = WriteTask(m) /\ 1 \in DOMAIN worker
  <2>1. 1 \in DOMAIN worker /\ Head(worker) = worker[1] /\ worker[1] \in Task(Len(heap))
    BY <1>0 DEF IInv, TypeOK, StoreTypeOK, WriteMutations
  <2>2. worker[1].kind = "write"
    BY <2>1 DEF WriteMutations
  <2> QED BY <2>1, <2>2 DEF Task, WriteTask, Mutation
<1>3. \A d \in DocIds : View(d)' = IF m.key = d THEN ApplyTo(m, View(d)) ELSE View(d)
  BY <1>0, ViewSteps DEF Sitting
<1>p. /\ \A i \in DOMAIN worker' : /\ i \in Nat \ {0} /\ i + 1 \in DOMAIN worker
                                   /\ worker'[i] = worker[i + 1]
      /\ \A i \in DOMAIN worker :
           i = 1 \/ (i > 1 /\ i - 1 \in DOMAIN worker' /\ worker'[i - 1] = worker[i])
      /\ \A i \in DOMAIN worker : i \in Nat \ {0}
  <2>1. worker \in Seq(Task(Len(heap)))
    BY <1>0 DEF IInv, TypeOK, StoreTypeOK
  <2> QED BY <1>0, <1>1, <2>1, TaskPositions
<1>4. /\ \A s \in Tasks' : s \in Tasks
      /\ \A s \in Tasks : s \in Tasks' \/ s = WriteTask(m)
      /\ WriteTask(m) \in Tasks
      /\ \A d : ToBeFiled(d)' => ToBeFiled(d)
      /\ \A d : ToBeFiled(d) => ToBeFiled(d)' \/ (m.op = "set" /\ m.key = d)
      /\ \A i \in DOMAIN worker' : \A d : Writes(i, d)' <=> Writes(i + 1, d)
  <2>1. Head(worker) = WriteTask(m)
    BY <1>0, <1>1, <1>2, TaskPositions
  <2> QED BY <1>0, <1>1, <2>1, TaskTaken DEF IsCreation, WriteTask
<1> HIDE DEF m
<1>5. /\ \A q : Callbacks(q)' = Callbacks(q)
      /\ Shown' = Shown /\ UsedKeys' = UsedKeys
      /\ \A x, d : Mine(x, d)' <=> Mine(x, d)
      /\ \A c, d : FoundBy(c, d)' <=> FoundBy(c, d)
      /\ \A i : IdAt(i)' = IdAt(i)
  BY <1>1 DEF Callbacks, Shown, UsedKeys, Mine, FoundBy, IdAt
<1>6. \A q, c : Pending(q, c)' <=> Pending(q, c)
  <2>1. \A q, c : ListenTask(q, c) # WriteTask(m)
    BY DEF ListenTask, WriteTask
  <2> QED BY <1>4, <1>5, <2>1 DEF Pending
<1>7. \A d : ToBeDeleted(d)' => ToBeDeleted(d)
  BY <1>4 DEF ToBeDeleted
<1>8. \A d : ToBeDeleted(d) => ToBeDeleted(d)' \/ m = Delete(d)
  BY <1>4 DEF ToBeDeleted, WriteTask
<1>9. /\ \A x, d : Doomed(x, d)' => Doomed(x, d)
      /\ \A x, d : Doomed(x, d) => Doomed(x, d)' \/ m = Delete(d)
      /\ \A x, d, r : Refreshing(x, d, r)' <=> Refreshing(x, d, r)
      /\ \A r : OwnObject(r)' <=> OwnObject(r)
  BY <1>1, <1>5, <1>6, <1>7, <1>8 DEF Doomed, Refreshing, OwnObject
<1>10. m.op # "set" => ~ToBeFiled(m.key)
  <2>1. Writes(1, m.key) /\ worker[1].mutation = m
    BY <1>2 DEF Writes, WriteTask
  <2> QED BY <1>2, <2>1 DEF Agreed, CreationFirst, CreatedFirst
<1>11. /\ m.op \in {"set", "patch", "delete"}
       /\ m.op = "delete" => m = Delete(m.key) /\ ToBeDeleted(m.key)
  <2>1. m.op = "delete" => m = Delete(m.key)
    BY <1>2 DEF Mutation, Delete
  <2>2. WriteTask(m) \in Tasks
    BY <1>4
  <2>3. m.op \in {"set", "patch", "delete"}
    BY <1>2 DEF Mutation
  <2> QED BY <2>1, <2>2, <2>3 DEF ToBeDeleted
<1>12. ApplyTo(m, View(m.key)) = CASE m.op = "set" -> m.document
                                   [] m.op = "patch" /\ View(m.key) # Absent ->
                                        [View(m.key) EXCEPT !.content = m.content]
                                   [] OTHER -> Absent
  <2>1. CASE m.op = "set"
    BY <2>1 DEF ApplyTo, Precondition
  <2>2. CASE m.op = "patch" /\ View(m.key) # Absent
    BY <2>2 DEF ApplyTo, Precondition
  <2>3. CASE m.op = "patch" /\ View(m.key) = Absent
    BY <2>3 DEF ApplyTo, Precondition
  <2>4. CASE m.op = "delete"
    BY <2>4 DEF ApplyTo, Precondition
  <2> QED BY <1>11, <2>1, <2>2, <2>3, <2>4
<1>13. m.op = "set" => m.document \in Document /\ m.document # Absent
  BY <1>2, MarkerAssumption DEF Mutation
<1>14. m.op = "patch" /\ View(m.key) # Absent =>
         /\ [View(m.key) EXCEPT !.content = m.content] # Absent
         /\ [View(m.key) EXCEPT !.content = m.content].content = m.content
  <2> SUFFICES ASSUME m.op = "patch", View(m.key) # Absent
               PROVE  /\ [View(m.key) EXCEPT !.content = m.content] # Absent
                      /\ [View(m.key) EXCEPT !.content = m.content].content = m.content
    OBVIOUS
  <2>1. View(m.key) \in Document /\ m.content \in StoredContent
    BY <1>0, <1>2 DEF Mutation, DocState
  <2>2. [View(m.key) EXCEPT !.content = m.content] \in Document
    BY <2>1 DEF Document
  <2> QED BY <2>1, <2>2, MarkerAssumption DEF Document
<1>15. ShownMine'
  BY <1>5 DEF Agreed, ShownMine
<1>16. ShownKept'
  <2> SUFFICES ASSUME NEW x \in Shown, NEW d \in DocIds, Mine(x, d)
               PROVE  (View(d)' # Absent \/ ToBeFiled(d)') /\ ~Doomed(x, d)'
    BY <1>5 DEF ShownKept
  <2>1. (View(d) # Absent \/ ToBeFiled(d)) /\ ~Doomed(x, d)
    BY DEF Agreed, ShownKept
  <2>2. m # Delete(d)
    BY <1>4, <2>1 DEF Doomed, ToBeDeleted
  <2>3. CASE m.key # d
    BY <1>3, <1>4, <1>9, <2>1, <2>3
  <2>4. CASE m.key = d /\ m.op = "set"
    BY <1>3, <1>9, <1>12, <1>13, <2>1, <2>4
  <2>5. CASE m.key = d /\ m.op = "patch"
    BY <1>3, <1>9, <1>10, <1>12, <1>14, <2>1, <2>5
  <2> QED BY <1>11, <2>2, <2>3, <2>4, <2>5
<1>17. OthersGo'
  <2> SUFFICES ASSUME NEW x \in Ids \ Shown, NEW d \in DocIds, Mine(x, d)
               PROVE  (View(d)' = Absent /\ ~ToBeFiled(d)') \/ Doomed(x, d)'
    BY <1>5 DEF OthersGo
  <2>1. CASE View(d) = Absent /\ ~ToBeFiled(d)
    <3>1. ~(m.key = d /\ m.op = "set")
      BY <1>2, <1>4, <2>1 DEF ToBeFiled, IsCreation, WriteTask
    <3> QED BY <1>3, <1>4, <1>12, <2>1, <3>1
  <2>2. CASE m = Delete(d)
    <3>1. m.key = d /\ m.op = "delete"
      BY <2>2 DEF Delete
    <3> QED BY <1>3, <1>4, <1>10, <1>12, <3>1
  <2>3. CASE Doomed(x, d) /\ m # Delete(d)
    BY <1>9, <2>3
  <2> QED BY <2>1, <2>2, <2>3 DEF Agreed, OthersGo
<1>18. ContentsFollow'
  <2> SUFFICES ASSUME NEW i \in DOMAIN transactions, NEW d \in DocIds, NEW k,
                      Mine(IdAt(i), d), Settled(d, k)
               PROVE  Settled(d, k)'
    BY <1>1, <1>5, <1>9 DEF Agreed, ContentsFollow
  <2>1. CASE WrittenLast(d, k)
    <3>1. PICK j \in DOMAIN worker :
            /\ Writes(j, d) /\ worker[j].mutation.op # "delete"
            /\ Decode(NewContent(worker[j].mutation)) = k
            /\ \A l \in DOMAIN worker : l > j => ~Writes(l, d)
      BY <2>1 DEF WrittenLast
    <3>2. CASE j = 1
      <4>1. m.key = d /\ m.op # "delete" /\ Decode(NewContent(m)) = k
        BY <1>2, <3>1, <3>2 DEF Writes, WriteTask
      <4>2. \A l \in DOMAIN worker' : ~Writes(l, d)'
        BY <1>p, <1>4, <3>1, <3>2
      <4>3. View(d)' # Absent /\ View(d)'.content = NewContent(m)
        <5>1. CASE m.op = "set"
          BY <1>3, <1>12, <1>13, <4>1, <5>1 DEF NewContent
        <5>2. CASE m.op = "patch"
          <6>1. IdAt(i) \in Shown
            BY DEF Shown, IdAt
          <6>2. View(d) # Absent
            BY <1>10, <4>1, <5>2, <6>1 DEF Agreed, ShownKept
          <6> QED BY <1>3, <1>12, <1>14, <4>1, <5>2, <6>2 DEF NewContent
        <5> QED BY <1>11, <4>1, <5>1, <5>2
      <4> QED BY <4>1, <4>2, <4>3 DEF Settled, Left
    <3>3. CASE j # 1
      <4>1. j > 1 /\ j - 1 \in DOMAIN worker' /\ worker'[j - 1] = worker[j]
        BY <1>p, <3>3
      <4>2. Writes(j - 1, d)'
        BY <3>1, <4>1 DEF Writes
      <4>3. \A l \in DOMAIN worker' : l > j - 1 => ~Writes(l, d)'
        BY <1>p, <1>4, <3>1
      <4> QED BY <3>1, <4>1, <4>2, <4>3 DEF Settled, WrittenLast
    <3> QED BY <3>2, <3>3
  <2>2. CASE Left(d, k)
    <3>1. m.key # d
      BY <1>2, <2>2 DEF Left, Writes, WriteTask
    <3>2. \A l \in DOMAIN worker' : ~Writes(l, d)'
      BY <1>p, <1>4, <2>2 DEF Left
    <3> QED BY <1>3, <2>2, <3>1, <3>2 DEF Settled, Left
  <2> QED BY <2>1, <2>2 DEF Settled
<1>19. CreationFirst'
  <2>1. AskedAfter'
    BY <1>1, <1>4, <1>5 DEF Agreed, CreationFirst, AskedAfter
  <2> QED BY <1>0, <1>1, <2>1, OrderKept DEF CreationFirst
<1>20. LookUps'
  BY <1>1, <1>5, <1>6, <1>9 DEF Agreed, LookUps, EditsMine, RemovesOne, EditsFound, MyObject, Refs
<1>21. NothingNew'
  <2>1. KnownAsked'
    BY <1>1, <1>4, <1>5 DEF Agreed, NothingNew, KnownAsked
  <2> QED BY <1>0, <1>1, <2>1, OrderKept DEF NothingNew
<1> QED BY <1>15, <1>16, <1>17, <1>18, <1>19, <1>20, <1>21 DEF Agreed

\* Only the SDK and the end of the process change what is registered.
LEMMA ListenersChange ==
    ASSUME [Next]_vars, ~Crash, listeners' # listeners
    PROVE  UNCHANGED <<heap, transactions, added, list>>
BY DEF Next, Frame, managerVars, vars, UserStep, MainStep, AuthStep, SendSignIn, SignInAnswered,
       SignInRefused, SignOut, ReturnFromSignUp, OpenTable, AddTransaction, SaveEdit,
       DeleteTransaction, RunAuthBlock, RunInitialBlock, RunLoadCallback, RunRemoveCallback,
       RunUpdateCallback, RunErrorCallback, LoadKeychain, RefreshToken, SignOutByForce, storeVars

\* A creation on the worker queue is of the transaction that its document names.
LEMMA ToBeFiledIsMine ==
    ASSUME IInv, OnWorker, KeysOnce, NEW i \in DOMAIN worker, IsCreation(worker[i]),
           NEW x \in Ids, added[x] # NotAdded, added[x].key = worker[i].mutation.key
    PROVE  worker[i].mutation.document.id = x
<1> DEFINE m == worker[i].mutation
<1>1. worker[i] \in Task(Len(heap)) /\ worker[i].kind = "write" /\ m.op = "set"
  BY DEF IInv, TypeOK, StoreTypeOK, IsCreation
<1>2. m \in Mutation
  BY <1>1 DEF Task
<1>3. m.key \in DocIds /\ m.document \in Document
  BY <1>1, <1>2 DEF Mutation
<1>4. Genuine(added, m.key, m.document)
  BY DEF OnWorker
<1>5. added[m.document.id] # NotAdded /\ added[m.document.id].key = m.key /\ m.document.id \in Ids
  BY <1>3, <1>4, GenuineIsAdded DEF Genuine, Document
<1>6. m.key # NoKey
  BY <1>3, MarkerAssumption
<1> QED BY <1>5, <1>6 DEF KeysOnce

\* A listener is registered when all the tasks before it are done.
LEMMA AddListenerAgreed ==
    ASSUME Background, Sitting, Agreed, [Next]_vars, ~Crash, Undisturbed', keychain' = keychain,
           AddListener
    PROVE  Agreed'
<1>0. /\ IInv /\ keychain \in Users /\ fsUser = keychain /\ BudgetBounded /\ Mirrored
      /\ OnWorker /\ KeysOnce
  <2>1. fsUser # NoClient /\ IInv
    BY DEF Background, Tabular, Belonging, Filing, Waiting, Presence, IInv, ClientReady, Sitting
  <2> QED BY <2>1, InSitting DEF Background, Sitting, Uniqueness, Provenance, Once
<1>t. /\ worker \in Seq(Task(Len(heap))) /\ listeners \in [Queries -> Seq(Callback(Len(heap)))]
      /\ mutations \in [Users \cup {Nobody} -> Seq(Mutation)]
  BY <1>0 DEF IInv, TypeOK, StoreTypeOK
<1>1. /\ TakesTask /\ UNCHANGED main /\ Snapshots' = Snapshots
  BY DEF AddListener, TakesTask, Snapshots
<1>2. PICK q \in Queries, c \in Callback(Len(heap)) :
        1 \in DOMAIN worker /\ worker[1] = ListenTask(q, c) /\ Head(worker) = ListenTask(q, c)
  <2>1. 1 \in DOMAIN worker /\ Head(worker) = worker[1] /\ worker[1] \in Task(Len(heap))
    BY <1>t DEF AddListener
  <2>2. worker[1].kind = "listen"
    BY <2>1 DEF AddListener
  <2> QED BY <2>1, <2>2 DEF Task, ListenTask
<1>3. listeners' = [listeners EXCEPT ![q] = Append(@, c)]
  <2>1. Head(worker).query = q /\ Head(worker).callback = c
    BY <1>2 DEF ListenTask
  <2> QED BY <2>1 DEF AddListener
<1>4. /\ \A r \in Queries : r # q => Callbacks(r)' = Callbacks(r)
      /\ Callbacks(q)' = Callbacks(q) \cup {c}
  <2>1. \A r \in Queries : r # q => Callbacks(r)' = Callbacks(r)
    BY <1>t, <1>3 DEF Callbacks
  <2>2. listeners'[q] = Append(listeners[q], c) /\ listeners[q] \in Seq(Callback(Len(heap)))
    BY <1>t, <1>2, <1>3
  <2>3. /\ \A i \in DOMAIN listeners[q] : i \in DOMAIN listeners'[q] /\ listeners'[q][i] = listeners[q][i]
        /\ \A i \in DOMAIN listeners'[q] :
              (i \in DOMAIN listeners[q] /\ listeners'[q][i] = listeners[q][i]) \/ listeners'[q][i] = c
        /\ Len(listeners[q]) + 1 \in DOMAIN listeners'[q]
        /\ listeners'[q][Len(listeners[q]) + 1] = c
    BY <2>2
  <2> QED BY <2>1, <2>3 DEF Callbacks
<1>5. UNCHANGED <<heap, transactions, added>>
  <2>1. listeners'[q] = Append(listeners[q], c) /\ listeners[q] \in Seq(Callback(Len(heap)))
    BY <1>t, <1>2, <1>3
  <2>2. Len(listeners'[q]) # Len(listeners[q])
    BY <2>1
  <2> QED BY <2>2, ListenersChange
<1>6. \A d \in DocIds : View(d)' = View(d)
  <2>1. ~WriteMutations
    BY DEF AddListener, WriteMutations
  <2> QED BY <1>0, <2>1, ViewSteps DEF Sitting
<1>p. /\ \A i \in DOMAIN worker' : /\ i \in Nat \ {0} /\ i + 1 \in DOMAIN worker
                                   /\ worker'[i] = worker[i + 1]
      /\ \A i \in DOMAIN worker :
           i = 1 \/ (i > 1 /\ i - 1 \in DOMAIN worker' /\ worker'[i - 1] = worker[i])
      /\ \A i \in DOMAIN worker : i \in Nat \ {0}
  BY <1>0, <1>1, <1>t, TaskPositions
<1>7. /\ \A s \in Tasks' : s \in Tasks
      /\ \A s \in Tasks : s \in Tasks' \/ s = ListenTask(q, c)
      /\ ListenTask(q, c) \in Tasks
      /\ \A d : ToBeFiled(d)' <=> ToBeFiled(d)
      /\ \A i \in DOMAIN worker' : \A d : Writes(i, d)' <=> Writes(i + 1, d)
  <2>1. ~IsCreation(ListenTask(q, c))
    BY DEF IsCreation, ListenTask
  <2> QED BY <1>0, <1>1, <1>2, <2>1, TaskTaken
<1>8. /\ Shown' = Shown /\ UsedKeys' = UsedKeys
      /\ \A x, d : Mine(x, d)' <=> Mine(x, d)
      /\ \A e, d : FoundBy(e, d)' <=> FoundBy(e, d)
      /\ \A i : IdAt(i)' = IdAt(i)
  BY <1>1, <1>5 DEF Shown, UsedKeys, Mine, FoundBy, IdAt
<1>9. \A r \in Queries : \A e : Pending(r, e)' <=> Pending(r, e)
  <2> SUFFICES ASSUME NEW r \in Queries, NEW e PROVE Pending(r, e)' <=> Pending(r, e)
    OBVIOUS
  <2>1. ListenTask(r, e) = ListenTask(q, c) <=> r = q /\ e = c
    BY DEF ListenTask
  <2>2. CASE r = q
    BY <1>4, <1>7, <2>1, <2>2 DEF Pending
  <2>3. CASE r # q
    BY <1>4, <1>7, <2>1, <2>3 DEF Pending
  <2> QED BY <2>2, <2>3
<1>10. \A d : ToBeDeleted(d)' <=> ToBeDeleted(d)
  <2>1. \A d : WriteTask(Delete(d)) # ListenTask(q, c)
    BY DEF ListenTask, WriteTask
  <2> QED BY <1>7, <2>1 DEF ToBeDeleted
<1>11. /\ \A x \in Ids : \A d : Doomed(x, d)' <=> Doomed(x, d)
       /\ \A x \in Ids : \A d, r : Refreshing(x, d, r)' <=> Refreshing(x, d, r)
       /\ \A r : OwnObject(r)' <=> OwnObject(r)
  <2>1. \A x \in Ids : ById(x) \in Queries
    BY DEF Queries
  <2> QED BY <1>5, <1>8, <1>9, <1>10, <2>1 DEF Doomed, Refreshing, OwnObject
<1>i. /\ Shown \subseteq Ids /\ \A i \in DOMAIN transactions : IdAt(i) \in Ids
  <2>1. ManagerTypeOK
    BY <1>0 DEF IInv, TypeOK
  <2> QED BY <2>1, ShownTypes DEF Shown, IdAt
<1>12. ShownMine'
  BY <1>8 DEF Agreed, ShownMine
<1>13. ShownKept' /\ OthersGo'
  BY <1>6, <1>7, <1>8, <1>11, <1>i DEF Agreed, ShownKept, OthersGo
<1>14. ContentsFollow'
  <2> SUFFICES ASSUME NEW i \in DOMAIN transactions, NEW d \in DocIds, NEW k,
                      Mine(IdAt(i), d), Settled(d, k)
               PROVE  Settled(d, k)'
    BY <1>5, <1>8, <1>11, <1>i DEF Agreed, ContentsFollow
  <2>1. CASE WrittenLast(d, k)
    <3>1. PICK j \in DOMAIN worker :
            /\ Writes(j, d) /\ worker[j].mutation.op # "delete"
            /\ Decode(NewContent(worker[j].mutation)) = k
            /\ \A l \in DOMAIN worker : l > j => ~Writes(l, d)
      BY <2>1 DEF WrittenLast
    <3>2. j # 1
      BY <1>2, <3>1 DEF Writes, ListenTask
    <3>3. j > 1 /\ j - 1 \in DOMAIN worker' /\ worker'[j - 1] = worker[j]
      BY <1>p, <3>2
    <3>4. Writes(j - 1, d)'
      BY <3>1, <3>3 DEF Writes
    <3>5. \A l \in DOMAIN worker' : l > j - 1 => ~Writes(l, d)'
      BY <1>p, <1>7, <3>1
    <3> QED BY <3>1, <3>3, <3>4, <3>5 DEF Settled, WrittenLast
  <2>2. CASE Left(d, k)
    <3>1. \A l \in DOMAIN worker' : ~Writes(l, d)'
      BY <1>p, <1>7, <2>2 DEF Left
    <3> QED BY <1>6, <2>2, <3>1 DEF Settled, Left
  <2> QED BY <2>1, <2>2 DEF Settled
<1>15. KnownAsked'
  <2> SUFFICES ASSUME NEW x \in Ids,
                      (\E t \in Tasks' : t.kind = "listen" /\ t.query = ById(x))
                      \/ Callbacks(ById(x))' # {}
               PROVE  added[x] # NotAdded
    BY <1>5 DEF KnownAsked
  <2>1. (\E t \in Tasks : t.kind = "listen" /\ t.query = ById(x)) \/ Callbacks(ById(x)) # {}
    <3>1. ListenTask(q, c).kind = "listen" /\ ListenTask(q, c).query = q
      BY DEF ListenTask
    <3>2. ById(x) \in Queries
      BY DEF Queries
    <3> QED BY <1>4, <1>7, <3>1, <3>2
  <2> QED BY <2>1 DEF Agreed, NothingNew, KnownAsked
<1>16. AskedAfter'
  <2> SUFFICES ASSUME NEW x \in Ids, Callbacks(ById(x))' # {}, ToBeFiled(added[x].key)
               PROVE  FALSE
    BY <1>5, <1>7 DEF AskedAfter
  <2>1. ById(x) \in Queries
    BY DEF Queries
  <2>2. Callbacks(ById(x)) = {}
    BY DEF Agreed, CreationFirst, AskedAfter
  <2>3. q = ById(x)
    BY <1>4, <2>1, <2>2
  <2>4. worker[1].kind = "listen" /\ worker[1].query = ById(x)
    BY <1>2, <2>3 DEF ListenTask
  <2>5. added[x] # NotAdded
    BY <1>2, <2>4 DEF Agreed, NothingNew, KnownAsked, Tasks
  <2>6. PICK i \in DOMAIN worker : IsCreation(worker[i]) /\ worker[i].mutation.key = added[x].key
    BY DEF ToBeFiled
  <2>7. worker[i].mutation.document.id = x
    BY <1>0, <2>5, <2>6, ToBeFiledIsMine
  <2>8. i < 1
    BY <1>2, <2>4, <2>6, <2>7 DEF Agreed, CreationFirst, AskedBehind
  <2> QED BY <1>p, <2>8
<1>17. CreationFirst' /\ NothingNew'
  BY <1>0, <1>1, <1>5, <1>15, <1>16, OrderKept DEF CreationFirst, NothingNew
<1>18. LookUps'
  BY <1>1, <1>5, <1>8, <1>9, <1>11
     DEF Agreed, LookUps, EditsMine, RemovesOne, EditsFound, MyObject, Refs
<1> QED BY <1>12, <1>13, <1>14, <1>17, <1>18 DEF Agreed

\* A query is answered with what the user's device shows, to all who wait for it.
LEMMA AnswersGiven ==
    ASSUME Background, Sitting, [Next]_vars, ~Crash, Undisturbed', keychain' = keychain,
           NEW q \in Queries, Answering(q)
    PROVE  /\ UNCHANGED <<heap, transactions, added, worker>>
           /\ \A d \in DocIds : View(d)' = View(d)
           /\ \A r \in Queries : r # q => Callbacks(r)' = Callbacks(r)
           /\ Callbacks(q)' = {}
           /\ \A b \in Snapshots : b \in Snapshots'
           /\ \A c \in Callbacks(q) : SnapshotBlock(c, Viewed(q)) \in Snapshots'
           /\ \A b \in Snapshots' :
                 b \in Snapshots \/ \E c \in Callbacks(q) : b = SnapshotBlock(c, Viewed(q))
<1>0. /\ IInv /\ keychain \in Users /\ fsUser = keychain /\ BudgetBounded /\ Mirrored
      /\ cache = server
  <2>1. fsUser # NoClient /\ IInv
    BY DEF Background, Tabular, Belonging, Filing, Waiting, Presence, IInv, ClientReady, Sitting
  <2> QED BY <2>1, InSitting DEF Background, Sitting
<1>t. listeners \in [Queries -> Seq(Callback(Len(heap)))] /\ worker \in Seq(Task(Len(heap)))
  BY <1>0 DEF IInv, TypeOK, StoreTypeOK
<1>1. /\ \A c \in Callbacks(q) : SnapshotBlock(c, Result(cache', q)) \in Snapshots'
      /\ \A i \in DOMAIN main : i \in DOMAIN main' /\ main'[i] = main[i]
      /\ listeners' = [listeners EXCEPT ![q] = << >>]
      /\ UNCHANGED <<server, mutations, fsUser, worker, budget, history>>
  BY <1>0, RaisedBlocks
<1>2. \A r \in Queries : Answering(r) => listeners[r] # << >> /\ listeners'[r] = << >>
  BY <1>t DEF Answering, RaiseFromServer, RaiseFromCache, Raise
<1>3. UNCHANGED <<heap, transactions, added>>
  <2>1. listeners' # listeners
    BY <1>2
  <2> QED BY <2>1, ListenersChange
<1>4. \A d \in DocIds : View(d)' = View(d)
  <2>1. ~WriteMutations
    BY <1>1, <1>t DEF WriteMutations
  <2> QED BY <1>0, <2>1, ViewSteps DEF Sitting
<1>5. /\ \A r \in Queries : r # q => Callbacks(r)' = Callbacks(r)
      /\ Callbacks(q)' = {}
  <2>1. listeners'[q] = << >> /\ \A r \in Queries : r # q => listeners'[r] = listeners[r]
    BY <1>1, <1>t
  <2> QED BY <2>1 DEF Callbacks
<1>6. \A b \in Snapshots : b \in Snapshots'
  BY <1>1 DEF Snapshots
<1>7. Result(cache', q) = Viewed(q)
  <2>1. Result(cache', q) = Result(cache, q)'
    BY <1>1 DEF Result, LocalDocument
  <2>2. Result(cache, q)' = Viewed(q)'
    BY <1>0, <1>1, ResultIsViewed
  <2>3. Viewed(q)' = Viewed(q)
    BY <1>4 DEF Viewed
  <2> QED BY <2>1, <2>2, <2>3
<1>8. ASSUME NEW b \in Snapshots', b \notin Snapshots
      PROVE  \E c \in Callbacks(q) : b = SnapshotBlock(c, Viewed(q))
  <2>1. PICK r \in Queries : Answering(r) /\ \E c \in Callbacks(r) : b = SnapshotBlock(c, Result(cache', r))
    BY <1>0, <1>8, SnapshotSteps
  <2>2. r = q
    BY <1>1, <1>2, <1>t, <2>1
  <2> QED BY <1>7, <2>1, <2>2
<1>9. \A c \in Callbacks(q) : SnapshotBlock(c, Viewed(q)) \in Snapshots'
  BY <1>1, <1>7
<1> QED BY <1>1, <1>3, <1>4, <1>5, <1>6, <1>8, <1>9

\* An answer finds the document of the transaction that was looked up, if it is
\* seen; it is not to be filed any more.
LEMMA AnsweringAgreed ==
    ASSUME Background, Sitting, Agreed, [Next]_vars, ~Crash, Undisturbed', keychain' = keychain,
           NEW q \in Queries, Answering(q)
    PROVE  Agreed'
<1>0. /\ IInv /\ KeysOnce /\ keychain \in Users
      /\ \A d \in DocIds :
            /\ View(d) # Absent => View(d) \in Document /\ Genuine(added, d, View(d))
            /\ ToBeFiled(d) => View(d) = Absent
  <2>1. fsUser # NoClient /\ IInv
    BY DEF Background, Tabular, Belonging, Filing, Waiting, Presence, IInv, ClientReady, Sitting
  <2> QED BY <2>1, InSitting DEF Background, Sitting, Uniqueness, Once
<1>1. /\ UNCHANGED <<heap, transactions, added, worker>>
      /\ \A d \in DocIds : View(d)' = View(d)
      /\ \A r \in Queries : r # q => Callbacks(r)' = Callbacks(r)
      /\ Callbacks(q)' = {}
      /\ \A b \in Snapshots : b \in Snapshots'
      /\ \A c \in Callbacks(q) : SnapshotBlock(c, Viewed(q)) \in Snapshots'
      /\ \A b \in Snapshots' :
            b \in Snapshots \/ \E c \in Callbacks(q) : b = SnapshotBlock(c, Viewed(q))
  BY AnswersGiven
<1>2. /\ Tasks' = Tasks /\ Shown' = Shown /\ UsedKeys' = UsedKeys
      /\ \A x, d : Mine(x, d)' <=> Mine(x, d)
      /\ \A d : ToBeDeleted(d)' <=> ToBeDeleted(d)
      /\ \A d : ToBeFiled(d)' <=> ToBeFiled(d)
      /\ \A i, d : Writes(i, d)' <=> Writes(i, d)
      /\ \A i : IdAt(i)' = IdAt(i)
  BY <1>1 DEF Tasks, Shown, UsedKeys, Mine, ToBeDeleted, ToBeFiled, Writes, IdAt
<1>3. \A r \in Queries : \A c :
         /\ Pending(r, c)' => Pending(r, c)
         /\ Pending(r, c) => Pending(r, c)' \/ (r = q /\ c \in Callbacks(q))
  BY <1>1, <1>2 DEF Pending
<1>i. /\ Shown \subseteq Ids /\ \A i \in DOMAIN transactions : IdAt(i) \in Ids
      /\ \A x \in Ids : ById(x) \in Queries
      /\ \A r \in Refs : heap[r].id \in Ids
  <2>1. ManagerTypeOK
    BY <1>0 DEF IInv, TypeOK
  <2>2. \A r \in Refs : heap[r] \in Transaction
    BY <2>1 DEF ManagerTypeOK, Refs
  <2> QED BY <2>1, <2>2, ShownTypes DEF Shown, IdAt, Queries, Transaction
\* What is found under d by its id is the user's transaction.
<1>4. ASSUME NEW x \in Ids, NEW d \in DocIds, Mine(x, d), View(d) # Absent
      PROVE  View(d).id = x
  <2>0. View(d) \in Document /\ Genuine(added, d, View(d))
    BY <1>0, <1>4
  <2>1. /\ View(d) \in Document /\ added[View(d).id].key = d /\ added[View(d).id] # NotAdded
    BY <2>0, GenuineIsAdded DEF Genuine
  <2> QED BY <1>0, <1>4, <2>1, MineOnce DEF Document
<1>5. \A d \in DocIds : Viewed(q)[d] # Absent => View(d) # Absent /\ Matches(q, View(d))
  BY DEF Viewed
<1>6. ASSUME NEW x \in Ids, q = ById(x), NEW d \in DocIds, Mine(x, d), View(d) # Absent
      PROVE  Viewed(q)[d] # Absent
  BY <1>4, <1>6 DEF Viewed, Matches, ById
<1>7. ASSUME NEW x \in Ids, q = ById(x), NEW y \in Ids, NEW d \in DocIds, Mine(y, d),
             Viewed(q)[d] # Absent
      PROVE  y = x
  <2>1. View(d) # Absent /\ View(d).id = x
    BY <1>5, <1>7 DEF Matches, ById
  <2> QED BY <1>4, <1>7, <2>1
<1>b. \A c, docs : SnapshotBlock(c, docs).callback = c /\ SnapshotBlock(c, docs).docs = docs
  BY DEF SnapshotBlock
<1>8. \A c, d : /\ FoundBy(c, d)' => FoundBy(c, d) \/ (c \in Callbacks(q) /\ Viewed(q)[d] # Absent)
                /\ FoundBy(c, d) \/ (c \in Callbacks(q) /\ Viewed(q)[d] # Absent) => FoundBy(c, d)'
  <2> SUFFICES ASSUME NEW c, NEW d
               PROVE  /\ FoundBy(c, d)' => FoundBy(c, d) \/ (c \in Callbacks(q) /\ Viewed(q)[d] # Absent)
                      /\ FoundBy(c, d) \/ (c \in Callbacks(q) /\ Viewed(q)[d] # Absent) => FoundBy(c, d)'
    OBVIOUS
  <2>1. FoundBy(c, d)' => FoundBy(c, d) \/ (c \in Callbacks(q) /\ Viewed(q)[d] # Absent)
    BY <1>1, <1>b DEF FoundBy
  <2>2. FoundBy(c, d) => FoundBy(c, d)'
    BY <1>1 DEF FoundBy
  <2>3. c \in Callbacks(q) /\ Viewed(q)[d] # Absent => FoundBy(c, d)'
    BY <1>1, <1>b DEF FoundBy
  <2> QED BY <2>1, <2>2, <2>3
\* Whoever asked by the id x has an answer with the document, if it is seen.
<1>9. ASSUME NEW x \in Ids, NEW d \in DocIds, Mine(x, d), NEW c, Pending(ById(x), c)
      PROVE  \/ Pending(ById(x), c)' \/ FoundBy(c, d)'
             \/ View(d) = Absent /\ ~ToBeFiled(d)
  <2>1. CASE ~Pending(ById(x), c)'
    <3>1. ById(x) = q /\ c \in Callbacks(q)
      BY <1>3, <1>9, <1>i, <2>1
    <3>2. ~ToBeFiled(added[x].key)
      BY <3>1 DEF Agreed, CreationFirst, AskedAfter
    <3>3. added[x].key = d
      BY <1>9 DEF Mine
    <3> QED BY <1>6, <1>8, <1>9, <3>1, <3>2, <3>3
  <2> QED BY <2>1
<1>10. ShownMine'
  BY <1>2 DEF Agreed, ShownMine
<1>11. ShownKept'
  <2> SUFFICES ASSUME NEW x \in Shown, NEW d \in DocIds, Mine(x, d)
               PROVE  (View(d)' # Absent \/ ToBeFiled(d)') /\ ~Doomed(x, d)'
    BY <1>2 DEF ShownKept
  <2>1. (View(d) # Absent \/ ToBeFiled(d)) /\ ~Doomed(x, d)
    BY DEF Agreed, ShownKept
  <2>2. ~FoundBy(RemoveCallback, d)'
    <3> SUFFICES ASSUME RemoveCallback \in Callbacks(q), Viewed(q)[d] # Absent PROVE FALSE
      BY <1>8, <2>1 DEF Doomed
    <3>1. Pending(q, RemoveCallback)
      BY DEF Pending
    <3>2. PICK y \in Ids : q = ById(y)
      BY <3>1 DEF Agreed, LookUps, RemovesOne
    <3>3. x = y
      BY <1>7, <1>i, <3>2
    <3> QED BY <2>1, <3>1, <3>2, <3>3 DEF Doomed
  <2>3. ~Doomed(x, d)'
    BY <1>2, <1>3, <1>i, <2>1, <2>2 DEF Doomed
  <2> QED BY <1>1, <1>2, <2>1, <2>3
<1>12. OthersGo'
  <2> SUFFICES ASSUME NEW x \in Ids \ Shown, NEW d \in DocIds, Mine(x, d)
               PROVE  (View(d)' = Absent /\ ~ToBeFiled(d)') \/ Doomed(x, d)'
    BY <1>2 DEF OthersGo
  <2>1. (View(d) = Absent /\ ~ToBeFiled(d)) \/ Doomed(x, d)
    BY DEF Agreed, OthersGo
  <2>2. CASE Pending(ById(x), RemoveCallback)
    BY <1>1, <1>2, <1>9, <2>2 DEF Doomed
  <2>3. CASE FoundBy(RemoveCallback, d) \/ ToBeDeleted(d)
    BY <1>2, <1>8, <2>3 DEF Doomed
  <2> QED BY <1>1, <1>2, <2>1, <2>2, <2>3 DEF Doomed
<1>13. ContentsFollow'
  <2> SUFFICES ASSUME NEW i \in DOMAIN transactions, NEW d \in DocIds, Mine(IdAt(i), d)
               PROVE  \/ Refreshing(IdAt(i), d, transactions[i])'
                      \/ Settled(d, Decode(Encode(heap[transactions[i]].content)))'
    BY <1>1, <1>2 DEF ContentsFollow
  <2>1. View(d) # Absent \/ ToBeFiled(d)
    <3>1. IdAt(i) \in Shown
      BY DEF Shown, IdAt
    <3> QED BY <3>1 DEF Agreed, ShownKept
  <2>2. CASE Refreshing(IdAt(i), d, transactions[i])
    <3>0. PICK c : c = UpdateCallback(transactions[i])
      OBVIOUS
    <3>x. PICK x \in Ids : x = IdAt(i)
      BY <1>i
    <3>1. Pending(ById(x), c) => Pending(ById(x), c)' \/ FoundBy(c, d)'
      BY <1>9, <2>1, <3>x
    <3>2. FoundBy(c, d) => FoundBy(c, d)'
      BY <1>1, <1>8
    <3>3. IdAt(i)' = IdAt(i) /\ transactions'[i] = transactions[i]
      BY <1>1, <1>2
    <3>4. Refreshing(x, d, transactions[i]) => Refreshing(x, d, transactions[i])'
      BY <3>0, <3>1, <3>2, <3>3 DEF Refreshing
    <3> QED BY <2>2, <3>3, <3>4, <3>x DEF Refreshing
  <2>3. ASSUME NEW k, Settled(d, k)
        PROVE  Settled(d, k)'
    <3>1. WrittenLast(d, k) => WrittenLast(d, k)'
      BY <1>1, <1>2 DEF WrittenLast
    <3>2. Left(d, k) => Left(d, k)'
      BY <1>1, <1>2 DEF Left
    <3> QED BY <2>3, <3>1, <3>2 DEF Settled
  <2> QED BY <1>1, <2>2, <2>3 DEF Agreed, ContentsFollow
<1>14. CreationFirst'
  <2>1. CreatedFirst' /\ AskedBehind'
    BY <1>1, <1>2 DEF Agreed, CreationFirst, CreatedFirst, AskedBehind
  <2>2. FoundAfter'
    BY <1>0, <1>1, <1>2, <1>5, <1>b DEF Agreed, CreationFirst, FoundAfter
  <2>3. AskedAfter'
    BY <1>1, <1>2, <1>i DEF Agreed, CreationFirst, AskedAfter
  <2> QED BY <2>1, <2>2, <2>3 DEF CreationFirst
<1>15. LookUps'
  <2>1. \A r : /\ OwnObject(r)' <=> OwnObject(r)
               /\ MyObject(r)' <=> MyObject(r)
    BY <1>1, <1>2 DEF OwnObject, MyObject
  <2>2. EditsMine' /\ RemovesOne'
    BY <1>1, <1>3, <2>1 DEF Agreed, LookUps, EditsMine, RemovesOne, Refs
  <2>3. ASSUME NEW c \in Callbacks(q), c.kind = "update"
        PROVE  /\ OwnObject(c.ref)
               /\ \A d \in DocIds : Viewed(q)[d] # Absent => Mine(heap[c.ref].id, d)
    <3>1. c = UpdateCallback(c.ref) /\ c.ref \in Refs
      <4>1. listeners[q] \in Seq(Callback(Len(heap)))
        BY <1>0 DEF IInv, TypeOK, StoreTypeOK
      <4>2. heap \in Seq(Transaction)
        BY <1>0 DEF IInv, TypeOK, ManagerTypeOK
      <4>3. c \in Callback(Len(heap))
        BY <4>1 DEF Callbacks
      <4> QED BY <2>3, <4>2, <4>3 DEF Callback, UpdateCallback, Refs
    <3>2. Pending(q, UpdateCallback(c.ref))
      BY <3>1 DEF Pending
    <3>3. q = ById(heap[c.ref].id) /\ MyObject(c.ref)
      BY <3>1, <3>2 DEF Agreed, LookUps, EditsMine
    <3>4. PICK e \in DocIds : Mine(heap[c.ref].id, e)
      BY <3>3 DEF MyObject
    <3>5. ASSUME NEW d \in DocIds, Viewed(q)[d] # Absent
          PROVE  d = e
      <4>1. View(d) # Absent /\ View(d).id = heap[c.ref].id
        BY <1>5, <3>3, <3>5 DEF Matches, ById
      <4>2. Genuine(added, d, View(d))
        BY <1>0, <4>1
      <4>3. added[heap[c.ref].id].key = d
        BY <4>1, <4>2 DEF Genuine
      <4> QED BY <3>4, <4>3 DEF Mine
    <3> QED BY <3>3, <3>4, <3>5 DEF MyObject
  <2>4. EditsFound'
    <3> SUFFICES ASSUME NEW b \in Snapshots', b.callback.kind = "update"
                 PROVE  /\ OwnObject(b.callback.ref)
                        /\ \A d \in DocIds : b.docs[d] # Absent => Mine(heap[b.callback.ref].id, d)
      BY <1>1, <1>2, <2>1 DEF EditsFound
    <3>1. CASE b \in Snapshots
      BY <3>1 DEF Agreed, LookUps, EditsFound
    <3>2. CASE \E c \in Callbacks(q) : b = SnapshotBlock(c, Viewed(q))
      BY <1>b, <2>3, <3>2
    <3> QED BY <1>1, <3>1, <3>2
  <2> QED BY <2>2, <2>4 DEF LookUps
<1>16. NothingNew'
  BY <1>1, <1>2, <1>i DEF Agreed, NothingNew, KnownAsked, KnownWritten
<1> QED BY <1>10, <1>11, <1>12, <1>13, <1>14, <1>15, <1>16 DEF Agreed

\* A task put at the end of the worker queue.
LEMMA TaskAppended ==
    ASSUME IInv, NEW t, worker' = Append(worker, t)
    PROVE  /\ Tasks' = Tasks \cup {t}
           /\ \A i \in DOMAIN worker : i \in DOMAIN worker' /\ worker'[i] = worker[i]
           /\ \A i \in DOMAIN worker' : i \in DOMAIN worker \/ i = Len(worker) + 1
           /\ Len(worker) + 1 \in DOMAIN worker' /\ worker'[Len(worker) + 1] = t
           /\ \A i \in DOMAIN worker : i < Len(worker) + 1
<1>1. worker \in Seq(Task(Len(heap)))
  BY DEF IInv, TypeOK, StoreTypeOK
<1>2. /\ \A i \in DOMAIN worker : i \in DOMAIN worker' /\ worker'[i] = worker[i]
      /\ \A i \in DOMAIN worker' : i \in DOMAIN worker \/ i = Len(worker) + 1
      /\ Len(worker) + 1 \in DOMAIN worker' /\ worker'[Len(worker) + 1] = t
      /\ \A i \in DOMAIN worker : i < Len(worker) + 1
  BY <1>1
<1>3. \A s \in Tasks' : s \in Tasks \/ s = t
  BY <1>2 DEF Tasks
<1>4. \A s \in Tasks : s \in Tasks'
  BY <1>2 DEF Tasks
<1>5. t \in Tasks'
  BY <1>2 DEF Tasks
<1> QED BY <1>2, <1>3, <1>4, <1>5

\* A transaction that is added is new, and so is its document.
LEMMA AddTransactionAgreed ==
    ASSUME Background, Sitting, Agreed, [Next]_vars, ~Crash, Undisturbed', keychain' = keychain,
           AddTransaction
    PROVE  Agreed'
<1>0. /\ IInv /\ KeysOnce /\ keychain \in Users /\ fsUser = keychain /\ authUser = keychain
      /\ BudgetBounded /\ Mirrored /\ Provenance /\ ShownAdded /\ ObjectsAdded /\ AnswersGenuine
  <2>1. fsUser # NoClient /\ IInv /\ OnTabs
    BY DEF Background, Tabular, Belonging, Filing, Waiting, Presence, IInv, ClientReady, Sitting, OnTabs
  <2>2. authUser = keychain
    BY <2>1 DEF Background, Tabular, LoadedOnce, Sitting, Calm, ToBeLoaded
  <2> QED BY <2>1, <2>2, InSitting DEF Background, Sitting, Uniqueness, Once, Tabular
<1>1. PICK x0 \in Ids, d0 \in DocIds \ UsedKeys, c0 \in NewContents :
        /\ added[x0] = NotAdded
        /\ addTransactions([id |-> x0, content |-> c0], authUser, d0)
        /\ added' = [added EXCEPT ![x0] = [key |-> IF authUser = Nobody THEN NoKey ELSE d0,
                                           user |-> authUser]]
  BY DEF AddTransaction
<1>2. PICK t : t = [id |-> x0, content |-> c0]
  OBVIOUS
<1>3. PICK m : m = Set(d0, [id |-> x0, user_id |-> keychain, content |-> Encode(c0)])
  OBVIOUS
<1>4. /\ heap' = Append(heap, t)
      /\ transactions' = Append(transactions, Len(heap) + 1)
      /\ worker' = Append(worker, WriteTask(m))
      /\ added' = [added EXCEPT ![x0] = [key |-> d0, user |-> keychain]]
      /\ UNCHANGED <<cache, mutations, listeners, main>>
  BY <1>0, <1>1, <1>2, <1>3, UsersAssumption DEF addTransactions, AddTransaction
<1>n. PICK n : n = Len(worker) + 1
  OBVIOUS
<1>k. PICK k : k = Len(transactions) + 1
  OBVIOUS
<1>5. /\ t.id = x0 /\ t.content = c0
      /\ m.op = "set" /\ m.key = d0 /\ m.document.id = x0 /\ m.document.content = Encode(c0)
      /\ m # Delete(d0) /\ \A d : WriteTask(m) # WriteTask(Delete(d))
      /\ \A q, c : WriteTask(m) # ListenTask(q, c)
      /\ WriteTask(m).kind = "write" /\ WriteTask(m).mutation = m
  BY <1>2, <1>3 DEF Set, Delete, WriteTask, ListenTask
<1>t. /\ heap \in Seq(Transaction) /\ transactions \in Seq(1 .. Len(heap))
      /\ added \in [Ids -> [key : DocIds \cup {NoKey}, user : Users \cup {Nobody}]
                              \cup {NotAdded}]
      /\ worker \in Seq(Task(Len(heap))) /\ listeners \in [Queries -> Seq(Callback(Len(heap)))]
      /\ main \in Seq(Block(Len(heap), Len(observers)))
  BY <1>0 DEF IInv, TypeOK, StoreTypeOK, ManagerTypeOK, SessionTypeOK
<1>i. /\ Shown \subseteq Ids /\ (\A i \in DOMAIN transactions : IdAt(i) \in Ids /\ IdAt(i) \in Shown)
      /\ (\A x \in Ids : ById(x) \in Queries)
      /\ (\A r \in Refs : heap[r].id \in Ids)
      /\ \A i \in DOMAIN transactions : transactions[i] \in Refs
  <2>1. ManagerTypeOK
    BY <1>t DEF ManagerTypeOK
  <2>2. \A r \in Refs : heap[r] \in Transaction
    BY <1>t DEF Refs
  <2>3. \A i \in DOMAIN transactions : transactions[i] \in Refs
    BY <1>t DEF Refs
  <2> QED BY <2>1, <2>2, <2>3, ShownTypes DEF Shown, IdAt, Queries, Transaction
<1>6. \A d \in DocIds : View(d)' = View(d)
  BY <1>4 DEF View, LocalDocument
<1>7. /\ Tasks' = Tasks \cup {WriteTask(m)} /\ Snapshots' = Snapshots
      /\ \A q : Callbacks(q)' = Callbacks(q)
      /\ \A i \in DOMAIN worker : i \in DOMAIN worker' /\ worker'[i] = worker[i]
      /\ \A i \in DOMAIN worker' : i \in DOMAIN worker \/ i = n
      /\ n \in DOMAIN worker' /\ worker'[n] = WriteTask(m)
      /\ \A i \in DOMAIN worker : i < n
  BY <1>0, <1>4, <1>n, TaskAppended DEF Snapshots, Callbacks
<1>8. /\ \A q, c : Pending(q, c)' <=> Pending(q, c)
      /\ \A c, d : FoundBy(c, d)' <=> FoundBy(c, d)
      /\ \A d : ToBeDeleted(d)' <=> ToBeDeleted(d)
      /\ \A d : ToBeFiled(d)' <=> ToBeFiled(d) \/ d = d0
      /\ \A i \in DOMAIN worker : \A d : Writes(i, d)' <=> Writes(i, d)
      /\ \A d : Writes(n, d)' <=> d = d0
  <2>1. \A q, c : Pending(q, c)' <=> Pending(q, c)
    BY <1>5, <1>7 DEF Pending
  <2>2. \A c, d : FoundBy(c, d)' <=> FoundBy(c, d)
    BY <1>7 DEF FoundBy
  <2>3. \A d : ToBeDeleted(d)' <=> ToBeDeleted(d)
    BY <1>5, <1>7 DEF ToBeDeleted
  <2>4. \A d : ToBeFiled(d)' <=> ToBeFiled(d) \/ d = d0
    BY <1>5, <1>7 DEF ToBeFiled, IsCreation
  <2>5. \A i \in DOMAIN worker : \A d : Writes(i, d)' <=> Writes(i, d)
    BY <1>7 DEF Writes
  <2>6. \A d : Writes(n, d)' <=> d = d0
    BY <1>5, <1>7 DEF Writes
  <2> QED BY <2>1, <2>2, <2>3, <2>4, <2>5, <2>6
<1>9. \A x, d : /\ Doomed(x, d)' <=> Doomed(x, d)
                /\ \A r : Refreshing(x, d, r)' <=> Refreshing(x, d, r)
  BY <1>8 DEF Doomed, Refreshing
<1>10. /\ DOMAIN transactions' = DOMAIN transactions \cup {k}
       /\ \A i \in DOMAIN transactions : transactions'[i] = transactions[i]
       /\ transactions'[k] = Len(heap) + 1
       /\ \A r \in Refs : r \in Refs' /\ heap'[r] = heap[r]
       /\ \A r \in Refs' : r \in Refs \/ r = Len(heap) + 1
       /\ heap'[Len(heap) + 1] = t
  BY <1>4, <1>n, <1>k, <1>t DEF Refs
<1>11. /\ \A i \in DOMAIN transactions : IdAt(i)' = IdAt(i)
       /\ \A i \in DOMAIN transactions' : i \in DOMAIN transactions \/ IdAt(i)' = x0
       /\ Shown' = Shown \cup {x0}
  <2>1. \A i \in DOMAIN transactions : IdAt(i)' = IdAt(i)
    BY <1>10, <1>i DEF IdAt
  <2>2. \A i \in DOMAIN transactions' : i \in DOMAIN transactions \/ IdAt(i)' = x0
    BY <1>5, <1>10 DEF IdAt
  <2>3. Shown' = {IdAt(i)' : i \in DOMAIN transactions'} /\ Shown = {IdAt(i) : i \in DOMAIN transactions}
    BY DEF Shown, IdAt
  <2>4. IdAt(k)' = x0
    BY <1>4, <1>5, <1>10 DEF IdAt
  <2>5. \A x \in Shown' : x \in Shown \/ x = x0
    BY <1>10, <2>1, <2>3, <2>4
  <2>6. \A x \in Shown : x \in Shown'
    BY <1>10, <2>1, <2>3
  <2>7. x0 \in Shown'
    BY <1>10, <2>3, <2>4
  <2> QED BY <2>1, <2>2, <2>5, <2>6, <2>7
<1>12. /\ x0 \notin Shown
       /\ \A x \in Ids : x # x0 => added'[x] = added[x]
       /\ added'[x0] = [key |-> d0, user |-> keychain]
       /\ added'[x0] # NotAdded
  BY <1>0, <1>1, <1>4, <1>t, MarkerAssumption DEF ShownAdded
<1>13. \A x \in Ids : added[x] # NotAdded => added[x].key \in UsedKeys /\ x # x0
  BY <1>1 DEF UsedKeys
<1>14. \A x \in Ids, d \in DocIds : Mine(x, d) => added[x] # NotAdded /\ d \in UsedKeys /\ d # d0
  <2> SUFFICES ASSUME NEW x \in Ids, NEW d \in DocIds, Mine(x, d)
               PROVE  added[x] # NotAdded /\ d \in UsedKeys /\ d # d0
    OBVIOUS
  <2>1. added[x] # NotAdded /\ added[x].key = d
    BY <1>0, MarkerAssumption DEF Mine
  <2> QED BY <1>1, <1>13, <2>1
<1>15. /\ \A x \in Ids, d \in DocIds : x # x0 => (Mine(x, d)' <=> Mine(x, d))
       /\ \A d \in DocIds : Mine(x0, d)' <=> d = d0
  BY <1>12 DEF Mine
<1>16. /\ \A b \in Snapshots, d \in DocIds : b.docs[d] # Absent => d \in UsedKeys /\ d # d0
  <2> SUFFICES ASSUME NEW b \in Snapshots, NEW d \in DocIds, b.docs[d] # Absent
               PROVE  d \in UsedKeys
    BY <1>1
  <2>1. b \in Block(Len(heap), Len(observers)) /\ b.kind = "snapshot" /\ AllGenuine(added, b.docs)
    BY <1>0, <1>t DEF Snapshots, AnswersGenuine
  <2>2. b.docs \in [DocIds -> DocState]
    BY <2>1 DEF Block
  <2>3. b.docs[d] \in Document /\ Genuine(added, d, b.docs[d])
    BY <2>1, <2>2 DEF AllGenuine, Found, DocState
  <2>4. added[b.docs[d].id] # NotAdded /\ added[b.docs[d].id].key = d /\ b.docs[d].id \in Ids
    BY <2>3, GenuineIsAdded DEF Genuine, Document
  <2> QED BY <1>13, <2>4
<1>17. ShownMine'
  <2> SUFFICES ASSUME NEW x \in Shown' PROVE \E d \in DocIds : Mine(x, d)'
    BY DEF ShownMine
  <2>1. CASE x = x0
    BY <1>15, <2>1
  <2>2. CASE x \in Shown
    BY <1>12, <1>15, <1>i, <2>2 DEF Agreed, ShownMine
  <2> QED BY <1>11, <2>1, <2>2
<1>18. ShownKept'
  <2> SUFFICES ASSUME NEW x \in Shown', NEW d \in DocIds, Mine(x, d)'
               PROVE  (View(d)' # Absent \/ ToBeFiled(d)') /\ ~Doomed(x, d)'
    BY DEF ShownKept
  <2>1. CASE x = x0
    <3>1. d = d0 /\ ToBeFiled(d)'
      BY <1>8, <1>15, <2>1
    <3>2. ~Pending(ById(x0), RemoveCallback)
      <4>1. ListenTask(ById(x0), RemoveCallback).kind = "listen"
            /\ ListenTask(ById(x0), RemoveCallback).query = ById(x0)
        BY DEF ListenTask
      <4> QED BY <1>1, <4>1 DEF Agreed, NothingNew, KnownAsked, Pending
    <3>3. ~FoundBy(RemoveCallback, d0)
      BY <1>16, <3>1 DEF FoundBy
    <3>4. ~ToBeDeleted(d0)
      <4> SUFFICES ASSUME ToBeDeleted(d0) PROVE FALSE
        OBVIOUS
      <4>1. PICK i \in DOMAIN worker : worker[i] = WriteTask(Delete(d0))
        BY DEF ToBeDeleted, Tasks
      <4>2. worker[i].kind = "write" /\ worker[i].mutation.key = d0
        BY <4>1 DEF WriteTask, Delete
      <4> QED BY <1>1, <4>2 DEF Agreed, NothingNew, KnownWritten
    <3> QED BY <1>9, <2>1, <3>1, <3>2, <3>3, <3>4 DEF Doomed
  <2>2. CASE x \in Shown
    BY <1>6, <1>8, <1>9, <1>12, <1>15, <1>i, <2>2 DEF Agreed, ShownKept
  <2> QED BY <1>11, <2>1, <2>2
<1>19. OthersGo'
  <2> SUFFICES ASSUME NEW x \in Ids, x \notin Shown', NEW d \in DocIds, Mine(x, d)'
               PROVE  (View(d)' = Absent /\ ~ToBeFiled(d)') \/ Doomed(x, d)'
    BY DEF OthersGo
  <2>1. x \in Ids \ Shown /\ x # x0
    BY <1>11
  <2>2. Mine(x, d) /\ d # d0
    BY <1>14, <1>15, <2>1
  <2> QED BY <1>6, <1>8, <1>9, <2>1, <2>2 DEF Agreed, OthersGo
<1>20. ContentsFollow'
  <2> SUFFICES ASSUME NEW i \in DOMAIN transactions', NEW d \in DocIds, Mine(IdAt(i), d)'
               PROVE  \/ Refreshing(IdAt(i), d, transactions[i])'
                      \/ Settled(d, Decode(Encode(heap[transactions[i]].content)))'
    BY DEF ContentsFollow
  <2>1. CASE i \in DOMAIN transactions
    <3>1. PICK x \in Ids : x = IdAt(i) /\ x = IdAt(i)' /\ x \in Shown
      BY <1>11, <1>i, <2>1
    <3>2. Mine(x, d)'
      BY <3>1 DEF Mine
    <3>3. Mine(x, d) /\ d # d0
      BY <1>12, <1>14, <1>15, <3>1, <3>2
    <3>4. heap'[transactions'[i]] = heap[transactions[i]] /\ transactions'[i] = transactions[i]
      BY <1>10, <1>i, <2>1
    <3>5. CASE Refreshing(x, d, transactions[i])
      <4>1. Refreshing(x, d, transactions[i])'
        BY <1>8, <3>4, <3>5 DEF Refreshing
      <4> QED BY <3>1, <4>1 DEF Refreshing
    <3>6. ASSUME NEW v, Settled(d, v) PROVE Settled(d, v)'
      <4>1. ~Writes(n, d)'
        BY <1>8, <3>3
      <4>2. WrittenLast(d, v) => WrittenLast(d, v)'
        <5> SUFFICES ASSUME WrittenLast(d, v) PROVE WrittenLast(d, v)'
          OBVIOUS
        <5>1. PICK j \in DOMAIN worker :
                /\ Writes(j, d) /\ worker[j].mutation.op # "delete"
                /\ Decode(NewContent(worker[j].mutation)) = v
                /\ \A l \in DOMAIN worker : l > j => ~Writes(l, d)
          BY DEF WrittenLast
        <5>2. /\ j \in DOMAIN worker' /\ Writes(j, d)' /\ worker'[j] = worker[j]
          BY <1>7, <1>8, <5>1
        <5>3. \A l \in DOMAIN worker' : l > j => ~Writes(l, d)'
          <6> SUFFICES ASSUME NEW l \in DOMAIN worker', l > j PROVE ~Writes(l, d)'
            OBVIOUS
          <6>1. CASE l \in DOMAIN worker
            BY <1>8, <5>1, <6>1
          <6>2. CASE l = n
            BY <1>5, <1>7, <3>3, <6>2 DEF Writes
          <6> QED BY <1>7, <6>1, <6>2
        <5> QED BY <5>1, <5>2, <5>3 DEF WrittenLast
      <4>3. Left(d, v) => Left(d, v)'
        <5> SUFFICES ASSUME Left(d, v), NEW l \in DOMAIN worker' PROVE ~Writes(l, d)'
          BY <1>6 DEF Left
        <5>1. CASE l \in DOMAIN worker
          BY <1>8, <5>1 DEF Left
        <5>2. CASE l = n
          BY <1>5, <1>7, <3>3, <5>2 DEF Writes
        <5> QED BY <1>7, <5>1, <5>2
      <4> QED BY <3>6, <4>2, <4>3 DEF Settled
    <3> QED BY <2>1, <3>1, <3>3, <3>4, <3>5, <3>6 DEF Agreed, ContentsFollow
  <2>2. CASE i = k
    <3>1. heap'[transactions'[i]] = t /\ IdAt(i)' = x0
      BY <1>5, <1>10, <2>2 DEF IdAt
    <3>2. d = d0
      BY <1>12, <3>1 DEF Mine
    <3>3. WrittenLast(d, Decode(Encode(c0)))'
      <4>2. n \in DOMAIN worker' /\ worker'[n] = WriteTask(m)
        BY <1>7
      <4>3. Writes(n, d)'
        BY <1>5, <3>2, <4>2 DEF Writes
      <4>4. \A l \in DOMAIN worker' : ~(l > n)
        BY <1>4, <1>n, <1>k, <1>t
      <4>5. NewContent(m) = Encode(c0)
        BY <1>5 DEF NewContent
      <4> QED BY <1>5, <4>2, <4>3, <4>4, <4>5 DEF WrittenLast
    <3> QED BY <1>5, <3>1, <3>3 DEF Settled
  <2> QED BY <1>10, <2>1, <2>2
<1>21. CreationFirst'
  <2>1. CreatedFirst'
    <3> SUFFICES ASSUME NEW i \in DOMAIN worker', NEW d \in DocIds, Writes(i, d)',
                        worker'[i].mutation.op # "set"
                 PROVE  ~ToBeFiled(d)'
      BY DEF CreatedFirst
    <3>1. i \in DOMAIN worker /\ worker'[i] = worker[i]
      BY <1>5, <1>7
    <3>2. Writes(i, d)
      BY <1>8, <3>1
    <3>3. ~ToBeFiled(d)
      BY <3>1, <3>2 DEF Agreed, CreationFirst, CreatedFirst
    <3>4. d \in UsedKeys
      BY <3>1, <3>2 DEF Agreed, NothingNew, KnownWritten, Writes
    <3> QED BY <1>1, <1>8, <3>3, <3>4
  <2>2. FoundAfter'
    BY <1>7, <1>8, <1>16 DEF Agreed, CreationFirst, FoundAfter
  <2>3. AskedAfter'
    <3> SUFFICES ASSUME NEW x \in Ids, Callbacks(ById(x))' # {}
                 PROVE  ~ToBeFiled(added[x].key)'
      BY DEF AskedAfter
    <3>1. Callbacks(ById(x)) # {}
      BY <1>7
    <3>2. added[x] # NotAdded /\ ~ToBeFiled(added[x].key)
      BY <3>1 DEF Agreed, CreationFirst, AskedAfter, NothingNew, KnownAsked
    <3>3. PICK d : d = added[x].key
      OBVIOUS
    <3>4. d # d0 /\ added'[x].key = d
      BY <1>1, <1>12, <1>13, <3>2, <3>3
    <3>5. ~ToBeFiled(d)'
      BY <1>8, <3>2, <3>3, <3>4
    <3> QED BY <3>4, <3>5 DEF ToBeFiled
  <2>4. AskedBehind'
    <3> SUFFICES ASSUME NEW i \in DOMAIN worker', NEW j \in DOMAIN worker',
                        IsCreation(worker'[i]), worker'[j].kind = "listen",
                        worker'[j].query = ById(worker'[i].mutation.document.id)
                 PROVE  i < j
      BY DEF AskedBehind, IsCreation
    <3>1. j \in DOMAIN worker /\ worker'[j] = worker[j]
      BY <1>5, <1>7
    <3>2. CASE i \in DOMAIN worker
      BY <1>7, <3>1, <3>2 DEF Agreed, CreationFirst, AskedBehind
    <3>3. CASE i = n
      <4>1. worker[j].query = ById(x0) /\ worker[j] \in Tasks
        BY <1>5, <1>7, <3>1, <3>3 DEF Tasks
      <4> QED BY <1>1, <3>1, <4>1 DEF Agreed, NothingNew, KnownAsked
    <3> QED BY <1>7, <3>2, <3>3
  <2> QED BY <2>1, <2>2, <2>3, <2>4 DEF CreationFirst
<1>22. \A r \in Refs : /\ OwnObject(r) => OwnObject(r)'
                       /\ MyObject(r) => MyObject(r)'
                       /\ heap'[r].id = heap[r].id /\ heap[r].id # x0 /\ heap[r].id \in Ids
  <2> SUFFICES ASSUME NEW r \in Refs
               PROVE  /\ OwnObject(r) => OwnObject(r)'
                      /\ MyObject(r) => MyObject(r)'
                      /\ heap'[r].id = heap[r].id /\ heap[r].id # x0 /\ heap[r].id \in Ids
    OBVIOUS
  <2>1. heap'[r] = heap[r] /\ heap[r].id # x0 /\ heap[r].id \in Ids
    BY <1>0, <1>1, <1>10, <1>i DEF ObjectsAdded
  <2>2. OwnObject(r) => OwnObject(r)'
    BY <1>10, <1>11, <2>1 DEF OwnObject
  <2>3. MyObject(r) => MyObject(r)'
    <3>1. \A d \in DocIds : Mine(heap[r].id, d) => added'[heap'[r].id] = [key |-> d, user |-> keychain]
      BY <1>12, <2>1 DEF Mine
    <3> QED BY <2>2, <3>1 DEF MyObject, Mine
  <2> QED BY <2>1, <2>2, <2>3
<1>c. \A s : UpdateCallback(s) \in Callback(Len(heap)) => s \in Refs
  BY <1>t DEF UpdateCallback, Callback, Refs
<1>23. LookUps'
  <2>1. EditsMine'
    <3> SUFFICES ASSUME NEW q \in Queries, NEW r \in Refs', Pending(q, UpdateCallback(r))'
                 PROVE  q = ById(heap'[r].id) /\ MyObject(r)'
      BY DEF EditsMine, UpdateCallback
    <3>1. Pending(q, UpdateCallback(r))
      BY <1>8
    <3>2. r \in Refs
      <4>1. ListenTask(q, UpdateCallback(r)) \in Tasks => UpdateCallback(r) \in Callback(Len(heap))
        <5> SUFFICES ASSUME NEW i \in DOMAIN worker, worker[i] = ListenTask(q, UpdateCallback(r))
                     PROVE  UpdateCallback(r) \in Callback(Len(heap))
          BY DEF Tasks
        <5>1. worker[i] \in Task(Len(heap)) /\ worker[i].kind = "listen"
              /\ worker[i].callback = UpdateCallback(r)
          BY <1>t DEF ListenTask
        <5>2. worker[i].callback \in Callback(Len(heap))
          BY <5>1 DEF Task
        <5> QED BY <5>1, <5>2
      <4>2. UpdateCallback(r) \in Callbacks(q) => UpdateCallback(r) \in Callback(Len(heap))
        <5>1. listeners[q] \in Seq(Callback(Len(heap)))
          BY <1>t
        <5> QED BY <5>1 DEF Callbacks
      <4> QED BY <1>c, <3>1, <4>1, <4>2 DEF Pending
    <3> QED BY <1>22, <3>1, <3>2 DEF Agreed, LookUps, EditsMine
  <2>2. RemovesOne'
    BY <1>8 DEF Agreed, LookUps, RemovesOne
  <2>3. EditsFound'
    <3> SUFFICES ASSUME NEW b \in Snapshots, b.callback.kind = "update"
                 PROVE  /\ OwnObject(b.callback.ref)'
                        /\ \A d \in DocIds : b.docs[d] # Absent => Mine(heap[b.callback.ref].id, d)'
      BY <1>7 DEF EditsFound
    <3>1. b.callback \in Callback(Len(heap))
      BY <1>t DEF Snapshots, Block
    <3>2. PICK r \in Refs : r = b.callback.ref
      BY <1>t, <3>1 DEF Callback, Refs
    <3>3. /\ OwnObject(r)'
          /\ \A d \in DocIds : b.docs[d] # Absent => Mine(heap[r].id, d)
      BY <1>22, <3>2 DEF Agreed, LookUps, EditsFound
    <3>4. \A d \in DocIds : Mine(heap[r].id, d) => Mine(heap[r].id, d)'
      BY <1>12, <1>22 DEF Mine
    <3> QED BY <3>2, <3>3, <3>4
  <2> QED BY <2>1, <2>2, <2>3 DEF LookUps
<1>24. NothingNew'
  <2>1. KnownAsked'
    <3> SUFFICES ASSUME NEW x \in Ids,
                        (\E s \in Tasks' : s.kind = "listen" /\ s.query = ById(x))
                        \/ Callbacks(ById(x))' # {}
                 PROVE  added'[x] # NotAdded
      BY DEF KnownAsked
    <3>1. (\E s \in Tasks : s.kind = "listen" /\ s.query = ById(x)) \/ Callbacks(ById(x)) # {}
      BY <1>5, <1>7
    <3>2. added[x] # NotAdded
      BY <3>1 DEF Agreed, NothingNew, KnownAsked
    <3> QED BY <1>12, <1>13, <3>2
  <2>2. \A d \in UsedKeys : d \in UsedKeys'
    <3>1. \A x \in Ids : added[x] # NotAdded => added'[x] = added[x]
      BY <1>12, <1>13
    <3> QED BY <3>1 DEF UsedKeys
  <2>3. d0 \in UsedKeys'
    <3>1. added'[x0].key = d0
      BY <1>12
    <3> QED BY <1>12, <3>1 DEF UsedKeys
  <2>4. KnownWritten'
    BY <1>5, <1>7, <2>2, <2>3 DEF Agreed, NothingNew, KnownWritten
  <2> QED BY <2>1, <2>4 DEF NothingNew
<1> QED BY <1>17, <1>18, <1>19, <1>20, <1>21, <1>23, <1>24 DEF Agreed

\* A lookup that is put on the worker queue comes after all creations.
LEMMA LookUpAppended ==
    ASSUME IInv, Agreed, NEW x0 \in Ids, NEW c0, added[x0] # NotAdded,
           worker' = Append(worker, ListenTask(ById(x0), c0)),
           UNCHANGED <<cache, mutations, keychain, listeners, main, added>>
    PROVE  /\ Snapshots' = Snapshots
           /\ \A d : View(d)' = View(d) /\ (ToBeFiled(d)' <=> ToBeFiled(d))
           /\ \A x, d : Mine(x, d)' <=> Mine(x, d)
           /\ \A q, c : Pending(q, c)' <=> Pending(q, c) \/ (q = ById(x0) /\ c = c0)
           /\ \A c, d : FoundBy(c, d)' <=> FoundBy(c, d)
           /\ \A d : ToBeDeleted(d)' <=> ToBeDeleted(d)
           /\ \A d, v : Settled(d, v) => Settled(d, v)'
           /\ CreationFirst' /\ NothingNew'
<1>n. PICK n : n = Len(worker) + 1
  OBVIOUS
<1>t. PICK t : t = ListenTask(ById(x0), c0)
  OBVIOUS
<1>1. /\ Tasks' = Tasks \cup {t}
      /\ \A i \in DOMAIN worker : i \in DOMAIN worker' /\ worker'[i] = worker[i]
      /\ \A i \in DOMAIN worker' : i \in DOMAIN worker \/ i = n
      /\ n \in DOMAIN worker' /\ worker'[n] = t
      /\ \A i \in DOMAIN worker : i < n
  BY <1>n, <1>t, TaskAppended
<1>2. /\ t.kind = "listen" /\ t.query = ById(x0) /\ ~IsCreation(t)
      /\ \A m : t # WriteTask(m)
      /\ \A q, c : ListenTask(q, c) = t <=> q = ById(x0) /\ c = c0
  BY <1>t DEF ListenTask, WriteTask, IsCreation
<1>3. /\ Snapshots' = Snapshots /\ UsedKeys' = UsedKeys
      /\ \A q : Callbacks(q)' = Callbacks(q)
      /\ \A d : View(d)' = View(d)
      /\ \A x, d : Mine(x, d)' <=> Mine(x, d)
  BY DEF Snapshots, UsedKeys, Callbacks, View, LocalDocument, Mine
<1>4. \A d : ToBeFiled(d)' <=> ToBeFiled(d)
  <2>1. \A d : ToBeFiled(d) => ToBeFiled(d)'
    BY <1>1 DEF ToBeFiled, IsCreation
  <2>2. \A i \in DOMAIN worker' : IsCreation(worker'[i]) => i \in DOMAIN worker
    BY <1>1, <1>2
  <2>3. \A d : ToBeFiled(d)' => ToBeFiled(d)
    BY <1>1, <2>2 DEF ToBeFiled, IsCreation
  <2> QED BY <2>1, <2>3
<1>5. \A q, c : Pending(q, c)' <=> Pending(q, c) \/ (q = ById(x0) /\ c = c0)
  BY <1>1, <1>2, <1>3 DEF Pending
<1>6. /\ \A c, d : FoundBy(c, d)' <=> FoundBy(c, d)
      /\ \A d : ToBeDeleted(d)' <=> ToBeDeleted(d)
  BY <1>1, <1>2, <1>3 DEF FoundBy, ToBeDeleted
<1>7. /\ \A i \in DOMAIN worker : \A d : Writes(i, d)' <=> Writes(i, d)
      /\ \A i \in DOMAIN worker' : \A d : Writes(i, d)' => i \in DOMAIN worker
  BY <1>1, <1>2 DEF Writes
<1>8. ASSUME NEW d, NEW v, Settled(d, v)
      PROVE  Settled(d, v)'
  <2>1. WrittenLast(d, v) => WrittenLast(d, v)'
    BY <1>1, <1>7 DEF WrittenLast
  <2>2. Left(d, v) => Left(d, v)'
    BY <1>3, <1>7 DEF Left
  <2> QED BY <1>8, <2>1, <2>2 DEF Settled
<1>9. CreationFirst'
  <2> USE DEF Agreed, CreationFirst
  <2>1. CreatedFirst'
    <3> SUFFICES ASSUME NEW i \in DOMAIN worker', NEW d \in DocIds, Writes(i, d)',
                        worker'[i].mutation.op # "set"
                 PROVE  ~ToBeFiled(d)'
      BY DEF CreatedFirst
    <3>1. i \in DOMAIN worker /\ Writes(i, d) /\ worker[i] = worker'[i]
      BY <1>1, <1>7
    <3> QED BY <1>4, <3>1 DEF CreatedFirst
  <2>2. FoundAfter'
    BY <1>3, <1>4 DEF FoundAfter
  <2>3. AskedAfter'
    BY <1>3, <1>4 DEF AskedAfter
  <2>4. AskedBehind'
    <3> SUFFICES ASSUME NEW i \in DOMAIN worker', NEW j \in DOMAIN worker',
                        IsCreation(worker'[i]), worker'[j].kind = "listen",
                        worker'[j].query = ById(worker'[i].mutation.document.id)
                 PROVE  i < j
      BY DEF AskedBehind, IsCreation
    <3>1. i \in DOMAIN worker /\ worker'[i] = worker[i]
      BY <1>1, <1>2
    <3>2. CASE j \in DOMAIN worker
      BY <1>1, <3>1, <3>2 DEF AskedBehind
    <3>3. CASE j = n
      BY <1>1, <3>1, <3>3
    <3> QED BY <1>1, <3>2, <3>3
  <2> QED BY <2>1, <2>2, <2>3, <2>4
<1>10. NothingNew'
  <2> USE DEF Agreed, NothingNew
  <2>1. KnownAsked'
    <3> SUFFICES ASSUME NEW x \in Ids,
                        (\E s \in Tasks' : s.kind = "listen" /\ s.query = ById(x))
                        \/ Callbacks(ById(x))' # {}
                 PROVE  added[x] # NotAdded
      BY DEF KnownAsked
    <3>1. CASE (\E s \in Tasks : s.kind = "listen" /\ s.query = ById(x)) \/ Callbacks(ById(x)) # {}
      BY <3>1 DEF KnownAsked
    <3>2. CASE ById(x0) = ById(x)
      <4>1. x0 = x
        BY <3>2 DEF ById
      <4> QED BY <4>1
    <3> QED BY <1>1, <1>2, <1>3, <3>1, <3>2
  <2>2. KnownWritten'
    BY <1>1, <1>2, <1>3 DEF KnownWritten
  <2> QED BY <2>1, <2>2
<1> QED BY <1>3, <1>4, <1>5, <1>6, <1>8, <1>9, <1>10

\* An edit of a row is an edit of the array's object, and under way from then on.
LEMMA SaveEditAgreed ==
    ASSUME Background, Sitting, Agreed, keychain' = keychain, SaveEdit
    PROVE  Agreed'
<1>0. /\ IInv /\ ShownOnce /\ ShownAdded /\ list = transactions
      /\ heap \in Seq(Transaction) /\ transactions \in Seq(1 .. Len(heap))
  <2>1. IInv
    BY DEF Background, Tabular, Belonging, Filing, Waiting, Presence
  <2>2. list = transactions /\ ShownOnce /\ ShownAdded
    BY DEF Background, Tabular, SameTable, Sitting, Calm, OnTabs, SaveEdit
  <2> QED BY <2>1, <2>2 DEF IInv, TypeOK, ManagerTypeOK
<1>i. /\ Shown \subseteq Ids
      /\ \A i \in DOMAIN transactions : /\ IdAt(i) \in Ids /\ IdAt(i) \in Shown
                                        /\ transactions[i] \in Refs
      /\ \A r \in Refs : heap[r].id \in Ids
  <2>1. ManagerTypeOK
    BY <1>0 DEF ManagerTypeOK
  <2>2. \A r \in Refs : heap[r] \in Transaction
    BY <1>0 DEF Refs
  <2>3. \A i \in DOMAIN transactions : transactions[i] \in Refs
    BY <1>0 DEF Refs
  <2> QED BY <2>1, <2>2, <2>3, ShownTypes DEF Shown, IdAt, Transaction
<1>1. PICK row \in DOMAIN transactions :
        \E c \in EditedContents(heap[transactions[row]].content) :
           updatetransaction(transactions[row], c)
  BY <1>0 DEF SaveEdit
<1>2. PICK r0 \in Refs : r0 = transactions[row] /\ r0 \in 1 .. Len(heap)
  BY <1>0, <1>i
<1>3. PICK c : updatetransaction(r0, c)
  BY <1>1, <1>2
<1>4. PICK x0 \in Ids : x0 = heap[r0].id /\ x0 = IdAt(row) /\ x0 \in Shown
  BY <1>2, <1>i DEF IdAt
<1>5. PICK c0 : c0 = UpdateCallback(r0)
  OBVIOUS
<1>6. UNCHANGED <<cache, mutations, keychain, listeners, main, added>>
  BY DEF SaveEdit, sessionVars
<1>7. transactions' = transactions /\ worker' = Append(worker, ListenTask(ById(x0), c0))
  <2>1. transactions' = transactions
    BY <1>0, <1>2, <1>3, EditKeepsEntries
  <2>2. PositionsOf(transactions, heap[r0].id) # {}
    BY <1>2 DEF PositionsOf
  <2> QED BY <1>3, <1>4, <1>5, <2>1, <2>2 DEF updatetransaction
<1>8. /\ Refs' = Refs
      /\ \A r \in Refs : heap'[r].id = heap[r].id /\ (r # r0 => heap'[r] = heap[r])
  <2>1. heap' = [heap EXCEPT ![r0].content = c]
    BY <1>3 DEF updatetransaction
  <2>2. \A r \in Refs : heap[r] \in Transaction
    BY <1>0 DEF Refs
  <2> QED BY <2>1, <2>2 DEF Refs, Transaction
<1>9. added[x0] # NotAdded
  BY <1>0, <1>4 DEF ShownAdded
<1>10. /\ Snapshots' = Snapshots
       /\ \A d : View(d)' = View(d) /\ (ToBeFiled(d)' <=> ToBeFiled(d))
       /\ \A x, d : Mine(x, d)' <=> Mine(x, d)
       /\ \A q, e : Pending(q, e)' <=> Pending(q, e) \/ (q = ById(x0) /\ e = c0)
       /\ \A e, d : FoundBy(e, d)' <=> FoundBy(e, d)
       /\ \A d : ToBeDeleted(d)' <=> ToBeDeleted(d)
       /\ \A d, v : Settled(d, v) => Settled(d, v)'
       /\ CreationFirst' /\ NothingNew'
  BY <1>0, <1>6, <1>7, <1>9, LookUpAppended
<1>11. /\ \A i \in DOMAIN transactions : IdAt(i)' = IdAt(i)
       /\ Shown' = Shown
  <2>1. \A i \in DOMAIN transactions : heap'[transactions[i]].id = heap[transactions[i]].id
    BY <1>8, <1>i
  <2> QED BY <1>7, <2>1 DEF IdAt, Shown
<1>12. /\ \A x, d : Doomed(x, d)' <=> Doomed(x, d)
       /\ \A x, d, r : Refreshing(x, d, r) => Refreshing(x, d, r)'
       /\ \A r \in Refs : OwnObject(r)' <=> OwnObject(r)
       /\ \A r \in Refs : MyObject(r)' <=> MyObject(r)
  <2>1. RemoveCallback # c0
    BY <1>5 DEF RemoveCallback, UpdateCallback
  <2>2. \A x, d : Doomed(x, d)' <=> Doomed(x, d)
    BY <1>10, <2>1 DEF Doomed
  <2>3. \A x, d, r : Refreshing(x, d, r) => Refreshing(x, d, r)'
    BY <1>10 DEF Refreshing
  <2>4. \A r \in Refs : OwnObject(r)' <=> OwnObject(r)
    BY <1>7, <1>8, <1>11 DEF OwnObject
  <2>5. ASSUME NEW r \in Refs PROVE MyObject(r)' <=> MyObject(r)
    <3>1. \A d : Mine(heap[r].id, d)' <=> Mine(heap[r].id, d)
      BY <1>6, <1>8 DEF Mine
    <3> QED BY <2>4, <3>1 DEF MyObject
  <2> QED BY <2>2, <2>3, <2>4, <2>5
<1>13. ShownMine' /\ ShownKept' /\ OthersGo'
  BY <1>10, <1>11, <1>12 DEF Agreed, ShownMine, ShownKept, OthersGo
<1>14. ContentsFollow'
  <2> SUFFICES ASSUME NEW i \in DOMAIN transactions, NEW d \in DocIds, Mine(IdAt(i), d)'
               PROVE  \/ Refreshing(IdAt(i), d, transactions[i])'
                      \/ Settled(d, Decode(Encode(heap[transactions[i]].content)))'
    BY <1>7 DEF ContentsFollow
  <2>1. PICK x \in Ids, r \in Refs : x = IdAt(i) /\ x = IdAt(i)' /\ r = transactions[i]
    BY <1>11, <1>i
  <2>2. Mine(IdAt(i), d)
    BY <1>6, <1>11 DEF Mine
  <2>3. Refreshing(x, d, r)' => Refreshing(IdAt(i), d, transactions[i])'
    BY <1>7, <2>1 DEF Refreshing
  <2>4. CASE r = r0
    <3>1. x = x0
      BY <1>4, <2>1, <2>4 DEF IdAt
    <3>2. Pending(ById(x), UpdateCallback(r))'
      <4>1. Pending(ById(x0), c0)'
        BY <1>10
      <4>2. ById(x) = ById(x0) /\ UpdateCallback(r) = c0
        BY <1>5, <2>4, <3>1
      <4> QED BY <4>1, <4>2 DEF Pending
    <3> QED BY <2>3, <3>2 DEF Refreshing
  <2>5. CASE r # r0
    <3>1. PICK v : v = Decode(Encode(heap[r].content))
      OBVIOUS
    <3>2. heap'[r] = heap[r]
      BY <1>8, <2>5
    <3>3. Refreshing(x, d, r) \/ Settled(d, v)
      BY <2>1, <2>2, <3>1 DEF Agreed, ContentsFollow
    <3>4. Settled(d, v) => Settled(d, v)'
      BY <1>10
    <3>5. Decode(Encode(heap'[transactions'[i]].content)) = v
      BY <1>7, <2>1, <3>1, <3>2
    <3> QED BY <1>12, <2>3, <3>3, <3>4, <3>5
  <2> QED BY <2>4, <2>5
<1>15. LookUps'
  <2>1. EditsMine'
    <3> SUFFICES ASSUME NEW q \in Queries, NEW r \in Refs, Pending(q, UpdateCallback(r))'
                 PROVE  q = ById(heap'[r].id) /\ MyObject(r)'
      BY <1>8 DEF EditsMine, UpdateCallback
    <3>1. CASE Pending(q, UpdateCallback(r))
      BY <1>8, <1>12, <3>1 DEF Agreed, LookUps, EditsMine
    <3>2. CASE q = ById(x0) /\ UpdateCallback(r) = c0
      <4>1. r = r0
        BY <1>5, <3>2 DEF UpdateCallback
      <4>2. OwnObject(r0)
        BY <1>0, <1>2 DEF OwnObject, IdAt, ShownOnce
      <4>3. \E d \in DocIds : Mine(x0, d)
        BY <1>4 DEF Agreed, ShownMine
      <4>4. MyObject(r0)
        BY <1>4, <4>2, <4>3 DEF MyObject
      <4> QED BY <1>4, <1>8, <1>12, <3>2, <4>1, <4>4
    <3>3. Pending(q, UpdateCallback(r)) \/ (q = ById(x0) /\ UpdateCallback(r) = c0)
      BY <1>10
    <3> QED BY <3>1, <3>2, <3>3
  <2>2. RemovesOne'
    <3>1. RemoveCallback # c0
      BY <1>5 DEF RemoveCallback, UpdateCallback
    <3> QED BY <1>10, <3>1 DEF Agreed, LookUps, RemovesOne
  <2>3. EditsFound'
    <3> SUFFICES ASSUME NEW b \in Snapshots, b.callback.kind = "update"
                 PROVE  /\ OwnObject(b.callback.ref)'
                        /\ \A d \in DocIds : b.docs[d] # Absent => Mine(heap[b.callback.ref].id, d)'
      BY <1>10 DEF EditsFound
    <3>1. b.callback \in Callback(Len(heap))
      <4>1. main \in Seq(Block(Len(heap), Len(observers)))
        BY <1>0 DEF IInv, TypeOK, StoreTypeOK
      <4> QED BY <4>1 DEF Snapshots, Block
    <3>2. PICK r \in Refs : r = b.callback.ref
      BY <1>0, <3>1 DEF Callback, Refs
    <3>3. /\ OwnObject(r)'
          /\ \A d \in DocIds : b.docs[d] # Absent => Mine(heap[r].id, d)
      BY <1>12, <3>2 DEF Agreed, LookUps, EditsFound
    <3>4. \A d \in DocIds : Mine(heap[r].id, d) => Mine(heap[r].id, d)'
      BY <1>6, <1>8 DEF Mine
    <3> QED BY <3>2, <3>3, <3>4
  <2> QED BY <2>1, <2>2, <2>3 DEF LookUps
<1> QED BY <1>10, <1>13, <1>14, <1>15 DEF Agreed

\* The entries that a deletion leaves are those of the other transactions.
LEMMA EntriesLeft ==
    ASSUME IInv, NEW x0, removeTransaction(x0)
    PROVE  /\ \A i \in DOMAIN transactions' : \E j \in DOMAIN transactions :
                 transactions'[i] = transactions[j] /\ IdAt(j) # x0
           /\ \A j \in DOMAIN transactions : IdAt(j) # x0 =>
                 \E i \in DOMAIN transactions' : transactions'[i] = transactions[j]
<1>1. PICK K : K = DOMAIN transactions \ PositionsOf(transactions, x0)
  OBVIOUS
<1>2. transactions \in Seq(1 .. Len(heap))
  BY DEF IInv, TypeOK, ManagerTypeOK
<1>3. K \in SUBSET DOMAIN transactions /\ \A j \in DOMAIN transactions : j \in K <=> IdAt(j) # x0
  BY <1>1 DEF PositionsOf, IdAt
<1>4. IsFiniteSet(K) /\ K \in SUBSET Int
  <2>1. DOMAIN transactions = 1 .. Len(transactions) /\ Len(transactions) \in Nat
    BY <1>2
  <2>2. IsFiniteSet(1 .. Len(transactions))
    BY <2>1, FS_Interval
  <2> QED BY <1>3, <2>1, <2>2, FS_Subset
<1>5. transactions' = Subsequence(transactions, K)
  BY <1>1 DEF removeTransaction
<1>6. PICK n : n = Cardinality(K)
  OBVIOUS
<1>7. PICK keys : keys = Ascending(K)
  OBVIOUS
<1>8. transactions' = [i \in 1 .. n |-> transactions[keys[i]]]
  BY <1>5, <1>6, <1>7 DEF Subsequence
<1>9. /\ \A i \in 1 .. n : keys[i] \in K
      /\ \A k \in K : \E i \in 1 .. n : keys[i] = k
  BY <1>4, <1>6, <1>7, AscendingProperties
<1> QED BY <1>3, <1>8, <1>9

\* What is taken out of the array is looked up in order to be deleted.
LEMMA DeleteTransactionAgreed ==
    ASSUME Background, Sitting, Agreed, keychain' = keychain, DeleteTransaction
    PROVE  Agreed'
<1>0. /\ IInv /\ ShownAdded /\ list = transactions
      /\ heap \in Seq(Transaction) /\ transactions \in Seq(1 .. Len(heap))
  <2>1. IInv
    BY DEF Background, Tabular, Belonging, Filing, Waiting, Presence
  <2>2. list = transactions /\ ShownAdded
    BY DEF Background, Tabular, SameTable, Sitting, Calm, OnTabs, DeleteTransaction
  <2> QED BY <2>1, <2>2 DEF IInv, TypeOK, ManagerTypeOK
<1>i. /\ Shown \subseteq Ids
      /\ \A i \in DOMAIN transactions : /\ IdAt(i) \in Ids /\ IdAt(i) \in Shown
                                        /\ transactions[i] \in Refs
  <2>1. ManagerTypeOK
    BY <1>0 DEF ManagerTypeOK
  <2>2. \A i \in DOMAIN transactions : transactions[i] \in Refs
    BY <1>0 DEF Refs
  <2> QED BY <2>1, <2>2, ShownTypes DEF Shown, IdAt
<1>1. PICK row \in DOMAIN transactions : removeTransaction(heap[transactions[row]].id)
  BY <1>0 DEF DeleteTransaction
<1>2. PICK x0 \in Ids : x0 = IdAt(row) /\ x0 \in Shown /\ removeTransaction(x0)
  BY <1>1, <1>i DEF IdAt
<1>3. PICK c0 : c0 = RemoveCallback
  OBVIOUS
<1>4. /\ UNCHANGED <<cache, mutations, keychain, listeners, main, added, heap>>
      /\ worker' = Append(worker, ListenTask(ById(x0), c0))
  BY <1>2, <1>3 DEF DeleteTransaction, removeTransaction, sessionVars
<1>5. added[x0] # NotAdded
  BY <1>0, <1>2 DEF ShownAdded
<1>6. /\ \A i \in DOMAIN transactions' : \E j \in DOMAIN transactions :
            transactions'[i] = transactions[j] /\ IdAt(j) # x0
      /\ \A j \in DOMAIN transactions : IdAt(j) # x0 =>
            \E i \in DOMAIN transactions' : transactions'[i] = transactions[j]
  BY <1>0, <1>2, EntriesLeft
<1>7. /\ Snapshots' = Snapshots
      /\ \A d : View(d)' = View(d) /\ (ToBeFiled(d)' <=> ToBeFiled(d))
      /\ \A x, d : Mine(x, d)' <=> Mine(x, d)
      /\ \A q, e : Pending(q, e)' <=> Pending(q, e) \/ (q = ById(x0) /\ e = c0)
      /\ \A e, d : FoundBy(e, d)' <=> FoundBy(e, d)
      /\ \A d : ToBeDeleted(d)' <=> ToBeDeleted(d)
      /\ \A d, v : Settled(d, v) => Settled(d, v)'
      /\ CreationFirst' /\ NothingNew'
  BY <1>0, <1>4, <1>5, LookUpAppended
<1>8. Shown' = Shown \ {x0}
  <2>1. Shown = {IdAt(j) : j \in DOMAIN transactions}
    BY DEF Shown, IdAt
  <2>2. \A x \in Shown' : x \in Shown \ {x0}
    <3> SUFFICES ASSUME NEW i \in DOMAIN transactions' PROVE heap'[transactions'[i]].id \in Shown \ {x0}
      BY DEF Shown
    <3>1. PICK j \in DOMAIN transactions : transactions'[i] = transactions[j] /\ IdAt(j) # x0
      BY <1>6
    <3> QED BY <1>4, <1>i, <3>1 DEF IdAt
  <2>3. \A x \in Shown \ {x0} : x \in Shown'
    <3> SUFFICES ASSUME NEW j \in DOMAIN transactions, IdAt(j) # x0 PROVE IdAt(j) \in Shown'
      BY <2>1
    <3>1. PICK i \in DOMAIN transactions' : transactions'[i] = transactions[j]
      BY <1>6
    <3>2. heap'[transactions'[i]].id = IdAt(j)
      BY <1>4, <3>1 DEF IdAt
    <3> QED BY <3>2 DEF Shown
  <2> QED BY <2>2, <2>3
<1>9. /\ \A x, d : Doomed(x, d) => Doomed(x, d)'
      /\ \A x \in Ids : \A d : Doomed(x, d)' => Doomed(x, d) \/ x = x0
      /\ \A d : Doomed(x0, d)'
      /\ \A x, d, r : Refreshing(x, d, r)' <=> Refreshing(x, d, r)
      /\ \A r \in Refs : OwnObject(r) => OwnObject(r)'
      /\ \A r \in Refs : MyObject(r) => MyObject(r)'
  <2>1. \A r : UpdateCallback(r) # c0
    BY <1>3 DEF RemoveCallback, UpdateCallback
  <2>2. \A x, y : ById(x) = ById(y) => x = y
    BY DEF ById
  <2>3. /\ \A x, d : Doomed(x, d) => Doomed(x, d)'
        /\ \A x \in Ids : \A d : Doomed(x, d)' => Doomed(x, d) \/ x = x0
    BY <1>7, <2>2 DEF Doomed
  <2>4. \A d : Doomed(x0, d)'
    <3>1. Pending(ById(x0), c0)'
      BY <1>7
    <3>2. Pending(ById(x0), RemoveCallback)'
      BY <1>3, <3>1 DEF Pending
    <3> QED BY <3>2 DEF Doomed
  <2>5. \A x, d, r : Refreshing(x, d, r)' <=> Refreshing(x, d, r)
    BY <1>7, <2>1 DEF Refreshing
  <2>6. ASSUME NEW r \in Refs, OwnObject(r) PROVE OwnObject(r)'
    <3> SUFFICES ASSUME NEW i \in DOMAIN transactions', heap'[transactions'[i]].id = heap'[r].id
                 PROVE  transactions'[i] = r
      BY DEF OwnObject, IdAt
    <3>1. PICK j \in DOMAIN transactions : transactions'[i] = transactions[j]
      BY <1>6
    <3> QED BY <1>4, <2>6, <3>1 DEF OwnObject, IdAt
  <2>7. ASSUME NEW r \in Refs, MyObject(r) PROVE MyObject(r)'
    <3>1. \A d : Mine(heap[r].id, d)' <=> Mine(heap[r].id, d)
      BY <1>4 DEF Mine
    <3> QED BY <2>6, <2>7, <3>1 DEF MyObject
  <2> QED BY <2>3, <2>4, <2>5, <2>6, <2>7
<1>10. ShownMine' /\ ShownKept'
  BY <1>7, <1>8, <1>9, <1>i DEF Agreed, ShownMine, ShownKept
<1>11. OthersGo'
  <2> SUFFICES ASSUME NEW x \in Ids, x \notin Shown', NEW d \in DocIds, Mine(x, d)'
               PROVE  (View(d)' = Absent /\ ~ToBeFiled(d)') \/ Doomed(x, d)'
    BY DEF OthersGo
  <2>1. CASE x = x0
    BY <1>9, <2>1
  <2>2. CASE x \notin Shown
    BY <1>7, <1>9, <2>2 DEF Agreed, OthersGo
  <2> QED BY <1>8, <2>1, <2>2
<1>12. ContentsFollow'
  <2> SUFFICES ASSUME NEW i \in DOMAIN transactions', NEW d \in DocIds, Mine(IdAt(i), d)'
               PROVE  \/ Refreshing(IdAt(i), d, transactions[i])'
                      \/ Settled(d, Decode(Encode(heap[transactions[i]].content)))'
    BY DEF ContentsFollow
  <2>1. PICK j \in DOMAIN transactions : transactions'[i] = transactions[j]
    BY <1>6
  <2>2. PICK x, r, v : /\ x = IdAt(j) /\ r = transactions[j]
                       /\ v = Decode(Encode(heap[transactions[j]].content))
    OBVIOUS
  <2>3. /\ heap'[transactions'[i]].id = x /\ IdAt(i)' = x /\ transactions'[i] = r
        /\ Decode(Encode(heap'[transactions'[i]].content)) = v
    BY <1>4, <2>1, <2>2 DEF IdAt
  <2>4. Mine(x, d)
    BY <1>4, <2>3 DEF Mine
  <2>5. Refreshing(x, d, r) \/ Settled(d, v)
    BY <2>2, <2>4 DEF Agreed, ContentsFollow
  <2>6. Refreshing(x, d, r)' => Refreshing(IdAt(i), d, transactions[i])'
    BY <2>3 DEF Refreshing
  <2>7. Settled(d, v) => Settled(d, v)'
    BY <1>7
  <2> QED BY <1>9, <2>3, <2>5, <2>6, <2>7
<1>13. LookUps'
  <2>1. EditsMine'
    <3> SUFFICES ASSUME NEW q \in Queries, NEW r \in Refs, Pending(q, UpdateCallback(r))'
                 PROVE  q = ById(heap'[r].id) /\ MyObject(r)'
      BY <1>4 DEF EditsMine, UpdateCallback, Refs
    <3>1. UpdateCallback(r) # c0
      BY <1>3 DEF RemoveCallback, UpdateCallback
    <3>2. Pending(q, UpdateCallback(r))
      BY <1>7, <3>1
    <3> QED BY <1>4, <1>9, <3>2 DEF Agreed, LookUps, EditsMine
  <2>2. RemovesOne'
    <3> SUFFICES ASSUME NEW q \in Queries, Pending(q, RemoveCallback)'
                 PROVE  q \in {ById(x) : x \in Ids}
      BY DEF RemovesOne
    <3>1. Pending(q, RemoveCallback) \/ q = ById(x0)
      BY <1>7
    <3> QED BY <3>1 DEF Agreed, LookUps, RemovesOne
  <2>3. EditsFound'
    <3> SUFFICES ASSUME NEW b \in Snapshots, b.callback.kind = "update"
                 PROVE  /\ OwnObject(b.callback.ref)'
                        /\ \A d \in DocIds : b.docs[d] # Absent => Mine(heap[b.callback.ref].id, d)'
      BY <1>7 DEF EditsFound
    <3>1. b.callback \in Callback(Len(heap))
      <4>1. main \in Seq(Block(Len(heap), Len(observers)))
        BY <1>0 DEF IInv, TypeOK, StoreTypeOK
      <4> QED BY <4>1 DEF Snapshots, Block
    <3>2. PICK r \in Refs : r = b.callback.ref
      BY <1>0, <3>1 DEF Callback, Refs
    <3>3. /\ OwnObject(r)'
          /\ \A d \in DocIds : b.docs[d] # Absent => Mine(heap[r].id, d)
      BY <1>9, <3>2 DEF Agreed, LookUps, EditsFound
    <3>4. \A d \in DocIds : Mine(heap[r].id, d) => Mine(heap[r].id, d)'
      BY <1>4 DEF Mine
    <3> QED BY <3>2, <3>3, <3>4
  <2> QED BY <2>1, <2>2, <2>3 DEF LookUps
<1> QED BY <1>7, <1>10, <1>11, <1>12, <1>13 DEF Agreed

\* A write for each of the documents F is put on the worker queue.
Queueing(F, change) ==
    worker' = worker \o [i \in 1 .. Cardinality(F) |-> WriteTask(change[Ascending(F)[i]])]

\* So that they are there, one for each, and each behind all others.
Queued(F, change) ==
    /\ \A i \in DOMAIN worker : i \in DOMAIN worker' /\ worker'[i] = worker[i]
    /\ \A i \in DOMAIN worker' : i \notin DOMAIN worker =>
          /\ \A j \in DOMAIN worker : j < i
          /\ \E d \in F : worker'[i] = WriteTask(change[d])
    /\ \A d \in F : \E i \in DOMAIN worker' :
          /\ i \notin DOMAIN worker
          /\ worker'[i] = WriteTask(change[d])
          /\ \A j \in DOMAIN worker' : j > i =>
                \E e \in F : e # d /\ worker'[j] = WriteTask(change[e])

\* The writes of an answer, one for each document it found, behind all others.
LEMMA ChangesQueued ==
    ASSUME IInv, NEW F \in SUBSET DocIds, NEW change,
           Queueing(F, change)
    PROVE  Queued(F, change)
<1> DEFINE n == Cardinality(F)
           keys == Ascending(F)
           write(i) == WriteTask(change[keys[i]])
           T == {write(i) : i \in 1 .. n}
           t == [i \in 1 .. n |-> write(i)]
<1>1. IsFiniteSet(F) /\ F \in SUBSET Int
  <2>1. IsFiniteSet(DocIds) /\ \A d \in DocIds : d \in Int
    BY DocIdsAssumption
  <2>2. IsFiniteSet(F)
    BY <2>1, FS_Subset
  <2> QED BY <2>1, <2>2
<1>2. /\ n \in Nat /\ (\A i \in 1 .. n : keys[i] \in F)
      /\ \A k \in F : \E i \in 1 .. n : keys[i] = k
  BY <1>1, AscendingProperties
<1>3. \A i, j \in 1 .. n : i < j => keys[i] < keys[j] /\ keys[i] \in Int /\ keys[j] \in Int
  BY <1>1, <1>2, AscendingProperties
<1>4. worker' = worker \o t
  BY DEF Queueing
<1> HIDE DEF n, keys
<1>5. /\ t \in Seq(T) /\ Len(t) = n
      /\ \A i \in 1 .. n : t[i] = WriteTask(change[keys[i]])
  BY <1>2
<1> HIDE DEF t, T, write
<1>6. worker \in Seq(Task(Len(heap)))
  BY DEF IInv, TypeOK, StoreTypeOK
<1>7. worker \in Seq(Task(Len(heap)) \cup T) /\ t \in Seq(Task(Len(heap)) \cup T)
  BY <1>5, <1>6, SeqGrows
<1>8. PICK m \in Nat : m = Len(worker) /\ DOMAIN worker = 1 .. m
  BY <1>6
<1>a. /\ Len(worker') = Len(worker) + Len(t) /\ DOMAIN worker' = 1 .. Len(worker')
      /\ \A k \in 1 .. Len(worker) + Len(t) :
            worker'[k] = IF k <= Len(worker) THEN worker[k] ELSE t[k - Len(worker)]
  BY <1>4, <1>7, ConcatProperties
<1>9. /\ DOMAIN worker' = 1 .. m + n
      /\ \A k \in 1 .. m + n : worker'[k] = IF k <= m THEN worker[k] ELSE t[k - m]
  BY <1>5, <1>8, <1>a
<1>10. \A i \in 1 .. m : i \in 1 .. m + n /\ worker'[i] = worker[i]
  BY <1>2, <1>9
<1>11. ASSUME NEW i \in 1 .. m + n, i \notin 1 .. m
       PROVE  i - m \in 1 .. n /\ worker'[i] = WriteTask(change[keys[i - m]])
  BY <1>2, <1>5, <1>9, <1>11
<1>12. ASSUME NEW d \in F
       PROVE  \E i \in DOMAIN worker' :
                 /\ i \notin DOMAIN worker
                 /\ worker'[i] = WriteTask(change[d])
                 /\ \A j \in DOMAIN worker' : j > i =>
                       \E e \in F : e # d /\ worker'[j] = WriteTask(change[e])
  <2>1. PICK k \in 1 .. n : keys[k] = d
    BY <1>2
  <2>2. m + k \in 1 .. m + n /\ m + k \notin 1 .. m /\ (m + k) - m = k
    BY <1>2
  <2>3. worker'[m + k] = WriteTask(change[d])
    BY <1>11, <2>1, <2>2
  <2>4. ASSUME NEW j \in 1 .. m + n, j > m + k
        PROVE  \E e \in F : e # d /\ worker'[j] = WriteTask(change[e])
    <3>1. j \notin 1 .. m
      BY <2>4
    <3>2. j - m \in 1 .. n /\ worker'[j] = WriteTask(change[keys[j - m]])
      BY <1>11, <3>1
    <3>3. k < j - m
      BY <1>2, <2>4
    <3>4. keys[k] < keys[j - m] /\ keys[k] \in Int /\ keys[j - m] \in Int
      BY <1>3, <3>2, <3>3
    <3>5. keys[j - m] # d
      BY <2>1, <3>4
    <3> QED BY <1>2, <3>2, <3>5
  <2> QED BY <1>8, <1>9, <2>2, <2>3, <2>4
<1>13. ASSUME NEW i \in DOMAIN worker', i \notin DOMAIN worker
       PROVE  /\ \A j \in DOMAIN worker : j < i
              /\ \E d \in F : worker'[i] = WriteTask(change[d])
  <2>1. i \in 1 .. m + n /\ i \notin 1 .. m
    BY <1>8, <1>9, <1>13
  <2>2. i - m \in 1 .. n /\ worker'[i] = WriteTask(change[keys[i - m]])
    BY <1>11, <2>1
  <2>3. \A j \in 1 .. m : j < i
    BY <1>2, <2>1
  <2> QED BY <1>2, <1>8, <2>2, <2>3
<1> QED BY <1>8, <1>9, <1>10, <1>12, <1>13 DEF Queued

\* The answer b0 is used up, and the documents F are to be changed.
Changed(b0, F, change) ==
    /\ F \in SUBSET DocIds
    /\ (\A b \in Snapshots' : b \in Snapshots)
    /\ (\A b \in Snapshots : b \in Snapshots' \/ b = b0)
    /\ \A d : View(d)' = View(d) /\ (ToBeFiled(d)' <=> ToBeFiled(d))
    /\ \A x, d : Mine(x, d)' <=> Mine(x, d)
    /\ \A q, c : Pending(q, c)' <=> Pending(q, c)
    /\ \A s \in Tasks : s \in Tasks'
    /\ \A s \in Tasks' : s \in Tasks \/ \E d \in F : s = WriteTask(change[d])
    /\ \A d \in F : WriteTask(change[d]) \in Tasks'
    /\ \A d, v : d \notin F /\ Settled(d, v) => Settled(d, v)'
    /\ \A d \in F : change[d].op = "patch" => WrittenLast(d, Decode(change[d].content))'
    /\ CreationFirst' /\ NothingNew'

\* The writes of an answer are of documents that were added and whose creations
\* were filed.
LEMMA ChangesAppended ==
    ASSUME IInv, AnswersGenuine, Agreed, NEW b0 \in Snapshots, NEW F, NEW change,
           F = Found(b0.docs),
           \A d \in F : change[d].key = d /\ change[d].op \in {"patch", "delete"},
           Queueing(F, change),
           main # << >>, b0 = Head(main), main' = Tail(main),
           UNCHANGED <<cache, mutations, keychain, listeners, added, heap, transactions>>
    PROVE  Changed(b0, F, change)
<1>1. /\ b0 \in Block(Len(heap), Len(observers)) /\ b0.kind = "snapshot"
      /\ b0.docs \in [DocIds -> DocState] /\ AllGenuine(added, b0.docs)
  <2>1. main \in Seq(Block(Len(heap), Len(observers)))
    BY DEF IInv, TypeOK, StoreTypeOK
  <2>2. b0 \in Block(Len(heap), Len(observers)) /\ b0.kind = "snapshot" /\ AllGenuine(added, b0.docs)
    BY <2>1 DEF Snapshots, AnswersGenuine
  <2> QED BY <2>2 DEF Block
<1>2. F \in SUBSET DocIds
  BY DEF Found
<1>3. /\ \A i \in DOMAIN worker : i \in DOMAIN worker' /\ worker'[i] = worker[i]
      /\ \A i \in DOMAIN worker' : i \notin DOMAIN worker =>
            /\ \A j \in DOMAIN worker : j < i
            /\ \E d \in F : worker'[i] = WriteTask(change[d])
      /\ \A d \in F : \E i \in DOMAIN worker' :
            /\ i \notin DOMAIN worker
            /\ worker'[i] = WriteTask(change[d])
            /\ \A j \in DOMAIN worker' : j > i =>
                  \E e \in F : e # d /\ worker'[j] = WriteTask(change[e])
  <2>1. Queued(F, change)
    BY <1>2, ChangesQueued
  <2> QED BY <2>1 DEF Queued
<1>4. \A d \in F : /\ WriteTask(change[d]).kind = "write"
                   /\ WriteTask(change[d]).mutation = change[d]
                   /\ change[d].key = d /\ change[d].op # "set"
  BY DEF WriteTask
<1>5. \A d \in F : d \in UsedKeys /\ ~ToBeFiled(d)
  <2> SUFFICES ASSUME NEW d \in F PROVE d \in UsedKeys /\ ~ToBeFiled(d)
    OBVIOUS
  <2>1. b0.docs[d] # Absent /\ d \in DocIds
    BY DEF Found
  <2>2. PICK doc : doc = b0.docs[d]
    OBVIOUS
  <2>3. doc \in Document /\ Genuine(added, d, doc)
    BY <1>1, <2>1, <2>2 DEF AllGenuine, Found, DocState
  <2>4. added[doc.id] # NotAdded /\ added[doc.id].key = d /\ doc.id \in Ids
    BY <2>1, <2>3, GenuineIsAdded DEF Genuine, Document
  <2> QED BY <2>1, <2>4 DEF UsedKeys, Agreed, CreationFirst, FoundAfter
<1>6. /\ (\A b \in Snapshots' : b \in Snapshots)
      /\ (\A b \in Snapshots : b \in Snapshots' \/ b = b0)
  <2>1. main \in Seq(Block(Len(heap), Len(observers)))
    BY DEF IInv, TypeOK, StoreTypeOK
  <2>2. /\ \A i \in DOMAIN main' : i + 1 \in DOMAIN main /\ main'[i] = main[i + 1]
        /\ \A i \in DOMAIN main : (i - 1 \in DOMAIN main' /\ main'[i - 1] = main[i]) \/ main[i] = b0
    BY <2>1
  <2> QED BY <2>2 DEF Snapshots
<1>7. /\ UsedKeys' = UsedKeys /\ \A q : Callbacks(q)' = Callbacks(q)
      /\ \A d : View(d)' = View(d)
      /\ \A x, d : Mine(x, d)' <=> Mine(x, d)
  BY DEF UsedKeys, Callbacks, View, LocalDocument, Mine
<1>8. /\ (\A s \in Tasks : s \in Tasks')
      /\ (\A s \in Tasks' : s \in Tasks \/ \E d \in F : s = WriteTask(change[d]))
      /\ (\A d \in F : WriteTask(change[d]) \in Tasks')
  BY <1>3 DEF Tasks
<1>9. \A d : ToBeFiled(d)' <=> ToBeFiled(d)
  <2>1. \A d : ToBeFiled(d) => ToBeFiled(d)'
    BY <1>3 DEF ToBeFiled, IsCreation
  <2>2. \A i \in DOMAIN worker' : IsCreation(worker'[i]) => i \in DOMAIN worker
    BY <1>3, <1>4 DEF IsCreation
  <2>3. \A d : ToBeFiled(d)' => ToBeFiled(d)
    BY <1>3, <2>2 DEF ToBeFiled, IsCreation
  <2> QED BY <2>1, <2>3
<1>10. \A q, c : Pending(q, c)' <=> Pending(q, c)
  <2>1. \A q, c : \A d \in F : ListenTask(q, c) # WriteTask(change[d])
    BY DEF ListenTask, WriteTask
  <2> TAKE q, c
  <2>2. ListenTask(q, c) \in Tasks' <=> ListenTask(q, c) \in Tasks
    BY <1>8, <2>1
  <2>3. Callbacks(q)' = Callbacks(q)
    BY <1>7
  <2> QED BY <2>2, <2>3 DEF Pending
<1>11. /\ \A i \in DOMAIN worker : \A d : Writes(i, d)' <=> Writes(i, d)
       /\ \A i \in DOMAIN worker' : \A d : Writes(i, d)' => i \in DOMAIN worker \/ d \in F
  BY <1>3, <1>4 DEF Writes
<1>12. ASSUME NEW d, NEW v, d \notin F, Settled(d, v)
       PROVE  Settled(d, v)'
  <2>1. WrittenLast(d, v) => WrittenLast(d, v)'
    <3> SUFFICES ASSUME WrittenLast(d, v) PROVE WrittenLast(d, v)'
      OBVIOUS
    <3>1. PICK j \in DOMAIN worker :
            /\ Writes(j, d) /\ worker[j].mutation.op # "delete"
            /\ Decode(NewContent(worker[j].mutation)) = v
            /\ \A l \in DOMAIN worker : l > j => ~Writes(l, d)
      BY DEF WrittenLast
    <3>2. j \in DOMAIN worker' /\ Writes(j, d)' /\ worker'[j] = worker[j]
      BY <1>3, <1>11, <3>1
    <3>3. \A l \in DOMAIN worker' : l > j => ~Writes(l, d)'
      BY <1>11, <1>12, <3>1
    <3> QED BY <3>1, <3>2, <3>3 DEF WrittenLast
  <2>2. Left(d, v) => Left(d, v)'
    BY <1>7, <1>11, <1>12 DEF Left
  <2> QED BY <1>12, <2>1, <2>2 DEF Settled
<1>13. ASSUME NEW d \in F, change[d].op = "patch"
       PROVE  WrittenLast(d, Decode(change[d].content))'
  <2>1. PICK i \in DOMAIN worker' :
            /\ worker'[i] = WriteTask(change[d])
            /\ \A j \in DOMAIN worker' : j > i =>
                  \E e \in F : e # d /\ worker'[j] = WriteTask(change[e])
    BY <1>3
  <2>2. Writes(i, d)' /\ worker'[i].mutation = change[d]
    BY <1>4, <2>1 DEF Writes
  <2>3. \A j \in DOMAIN worker' : j > i => ~Writes(j, d)'
    BY <1>4, <2>1 DEF Writes
  <2>4. NewContent(change[d]) = change[d].content
    BY <1>13 DEF NewContent
  <2>5. worker'[i].mutation.op # "delete" /\ Decode(NewContent(worker'[i].mutation)) = Decode(change[d].content)
    BY <1>13, <2>2, <2>4
  <2> QED BY <2>1, <2>2, <2>3, <2>5 DEF WrittenLast, NewContent
<1>14. CreationFirst'
  <2> USE DEF Agreed, CreationFirst
  <2>1. CreatedFirst'
    <3> SUFFICES ASSUME NEW i \in DOMAIN worker', NEW d \in DocIds, Writes(i, d)',
                        worker'[i].mutation.op # "set"
                 PROVE  ~ToBeFiled(d)'
      BY DEF CreatedFirst
    <3>1. CASE i \in DOMAIN worker
      BY <1>3, <1>9, <1>11, <3>1 DEF CreatedFirst
    <3>2. CASE i \notin DOMAIN worker
      BY <1>5, <1>9, <1>11, <3>2
    <3> QED BY <3>1, <3>2
  <2>2. FoundAfter'
    BY <1>6, <1>9 DEF FoundAfter
  <2>3. AskedAfter'
    BY <1>7, <1>9 DEF AskedAfter
  <2>4. AskedBehind'
    <3> SUFFICES ASSUME NEW i \in DOMAIN worker', NEW j \in DOMAIN worker',
                        IsCreation(worker'[i]), worker'[j].kind = "listen",
                        worker'[j].query = ById(worker'[i].mutation.document.id)
                 PROVE  i < j
      BY DEF AskedBehind, IsCreation
    <3>1. i \in DOMAIN worker /\ worker'[i] = worker[i]
      BY <1>3, <1>4 DEF IsCreation
    <3>2. j \in DOMAIN worker /\ worker'[j] = worker[j]
      BY <1>3, <1>4
    <3> QED BY <3>1, <3>2 DEF AskedBehind
  <2> QED BY <2>1, <2>2, <2>3, <2>4
<1>15. NothingNew'
  <2> USE DEF Agreed, NothingNew
  <2>1. KnownAsked'
    BY <1>4, <1>7, <1>8 DEF KnownAsked
  <2>2. KnownWritten'
    BY <1>3, <1>4, <1>5, <1>7 DEF KnownWritten
  <2> QED BY <2>1, <2>2
<1> QED BY <1>2, <1>6, <1>7, <1>8, <1>9, <1>10, <1>12, <1>13, <1>14, <1>15 DEF Changed

\* The answer whose callback is run next.
LEMMA NextAnswer ==
    ASSUME IInv, NEW kind, Answered(kind)
    PROVE  \E b \in Snapshots :
              /\ b = Head(main) /\ main # << >> /\ main' = Tail(main)
              /\ b.callback \in Callback(Len(heap)) /\ b.callback.kind = kind
              /\ b.docs \in [DocIds -> DocState]
<1>1. PICK b : b = Head(main)
  OBVIOUS
<1>2. b.callback \in Callback(Len(heap)) /\ b.callback.kind = kind /\ b.docs \in [DocIds -> DocState]
  BY <1>1, AnsweredTypes
<1>3. main # << >> /\ main' = Tail(main) /\ b.kind = "snapshot"
  BY <1>1 DEF Answered
<1>4. b \in Snapshots
  <2>1. main \in Seq(Block(Len(heap), Len(observers)))
    BY DEF IInv, TypeOK, StoreTypeOK
  <2>2. 1 \in DOMAIN main /\ main[1] = b
    BY <1>1, <1>3, <2>1
  <2> QED BY <1>3, <2>2 DEF Snapshots
<1> QED BY <1>1, <1>2, <1>3, <1>4

\* What is looked up remains that of the right object when an answer is used up.
LEMMA LookUpsKept ==
    ASSUME Agreed, UNCHANGED <<keychain, heap, transactions, added>>,
           \A b \in Snapshots' : b \in Snapshots,
           \A q, c : Pending(q, c)' <=> Pending(q, c)
    PROVE  LookUps' /\ (\A i : IdAt(i)' = IdAt(i)) /\ Shown' = Shown /\ Refs' = Refs
<1>1. (\A i : IdAt(i)' = IdAt(i)) /\ Shown' = Shown /\ Refs' = Refs
  BY DEF IdAt, Shown, Refs
<1>2. /\ \A x, d : Mine(x, d)' <=> Mine(x, d)
      /\ \A r : OwnObject(r)' <=> OwnObject(r)
  BY <1>1 DEF Mine, OwnObject
<1>3. \A r : MyObject(r)' <=> MyObject(r)
  BY <1>2 DEF MyObject
<1> QED BY <1>1, <1>2, <1>3 DEF Agreed, LookUps, EditsMine, RemovesOne, EditsFound

\* What was found in order to be deleted is to be deleted; it is none of the
\* array's.
LEMMA RunRemoveCallbackAgreed ==
    ASSUME Background, Sitting, Agreed, keychain' = keychain, RunRemoveCallback
    PROVE  Agreed'
<1>0. /\ IInv /\ AnswersGenuine /\ ManagerTypeOK
  BY DEF Background, Tabular, Belonging, Filing, Waiting, Presence, IInv, TypeOK
<1>i. /\ Shown \subseteq Ids
      /\ \A i \in DOMAIN transactions : IdAt(i) \in Ids /\ IdAt(i) \in Shown
  BY <1>0, ShownTypes DEF Shown, IdAt
<1>1. PICK b0 \in Snapshots :
        /\ b0 = Head(main) /\ main # << >> /\ main' = Tail(main)
        /\ b0.callback \in Callback(Len(heap)) /\ b0.callback.kind = "remove"
        /\ b0.docs \in [DocIds -> DocState]
  BY <1>0, NextAnswer DEF RunRemoveCallback
<1>2. b0.callback = RemoveCallback
  BY <1>1 DEF Callback, RemoveCallback
<1>3. PICK F : F = Found(b0.docs)
  OBVIOUS
<1>4. PICK change : change = [d \in DocIds |-> Delete(d)]
  OBVIOUS
<1>5. /\ F \in SUBSET DocIds /\ \A d \in F : change[d] = Delete(d)
      /\ \A d \in DocIds : d \in F <=> b0.docs[d] # Absent
  BY <1>3, <1>4 DEF Found
<1>6. Queueing(F, change)
  <2>1. Cardinality(F) \in Nat /\ \A i \in 1 .. Cardinality(F) : Ascending(F)[i] \in DocIds
    BY <1>1, <1>3, FoundProperties
  <2>2. worker' = worker \o [i \in 1 .. Cardinality(F) |-> WriteTask(Delete(Ascending(F)[i]))]
    BY <1>1, <1>3 DEF RunRemoveCallback, deleteFound
  <2>3. \A i \in 1 .. Cardinality(F) : change[Ascending(F)[i]] = Delete(Ascending(F)[i])
    BY <1>4, <2>1
  <2> QED BY <2>2, <2>3 DEF Queueing
<1>7. UNCHANGED <<cache, mutations, keychain, listeners, added, heap, transactions>>
  BY DEF RunRemoveCallback, deleteFound, managerVars
<1>8. \A d \in F : change[d].key = d /\ change[d].op \in {"patch", "delete"}
  <2> SUFFICES ASSUME NEW d \in F
               PROVE  change[d].key = d /\ change[d].op \in {"patch", "delete"}
    OBVIOUS
  <2>1. change[d] = Delete(d)
    BY <1>5
  <2> QED BY <2>1 DEF Delete
<1>9. /\ (\A b \in Snapshots' : b \in Snapshots)
      /\ (\A b \in Snapshots : b \in Snapshots' \/ b = b0)
      /\ \A d : View(d)' = View(d) /\ (ToBeFiled(d)' <=> ToBeFiled(d))
      /\ \A x, d : Mine(x, d)' <=> Mine(x, d)
      /\ \A q, c : Pending(q, c)' <=> Pending(q, c)
      /\ \A s \in Tasks : s \in Tasks'
      /\ \A s \in Tasks' : s \in Tasks \/ \E d \in F : s = WriteTask(change[d])
      /\ \A d \in F : WriteTask(change[d]) \in Tasks'
      /\ \A d, v : d \notin F /\ Settled(d, v) => Settled(d, v)'
      /\ CreationFirst' /\ NothingNew'
  <2>1. Changed(b0, F, change)
    BY <1>0, <1>1, <1>3, <1>6, <1>7, <1>8, ChangesAppended
  <2> QED BY <2>1 DEF Changed
<1>10. LookUps' /\ (\A i : IdAt(i)' = IdAt(i)) /\ Shown' = Shown
  BY <1>7, <1>9, LookUpsKept
<1>11. \A d \in DocIds : ToBeDeleted(d)' <=> ToBeDeleted(d) \/ d \in F
  <2>1. \A d, e : WriteTask(Delete(d)) = WriteTask(Delete(e)) => d = e
    BY DEF WriteTask, Delete
  <2> QED BY <1>5, <1>9, <2>1 DEF ToBeDeleted
<1>12. \A d \in DocIds : FoundBy(RemoveCallback, d) <=> FoundBy(RemoveCallback, d)' \/ d \in F
  BY <1>2, <1>5, <1>9 DEF FoundBy
<1>13. \A x, d, r : Refreshing(x, d, r) => Refreshing(x, d, r)'
  <2>1. \A r : UpdateCallback(r) # b0.callback
    BY <1>2 DEF UpdateCallback, RemoveCallback
  <2> QED BY <1>9, <2>1 DEF Refreshing, FoundBy
<1>14. \A x, d : d \in DocIds => (Doomed(x, d)' <=> Doomed(x, d))
  BY <1>9, <1>11, <1>12 DEF Doomed
<1>15. ShownMine' /\ ShownKept' /\ OthersGo'
  BY <1>9, <1>10, <1>14 DEF Agreed, ShownMine, ShownKept, OthersGo
<1>16. ContentsFollow'
  <2> SUFFICES ASSUME NEW i \in DOMAIN transactions, NEW d \in DocIds, Mine(IdAt(i), d)'
               PROVE  \/ Refreshing(IdAt(i), d, transactions[i])'
                      \/ Settled(d, Decode(Encode(heap[transactions[i]].content)))'
    BY <1>7 DEF ContentsFollow
  <2>1. PICK x, r, v : /\ x = IdAt(i) /\ r = transactions[i]
                       /\ v = Decode(Encode(heap[transactions[i]].content))
    OBVIOUS
  <2>2. /\ IdAt(i)' = x /\ transactions'[i] = r
        /\ Decode(Encode(heap'[transactions'[i]].content)) = v
    BY <1>7, <1>10, <2>1
  <2>3. Mine(x, d) /\ x \in Shown
    BY <1>7, <1>i, <2>1, <2>2 DEF Mine
  <2>4. Refreshing(x, d, r) \/ Settled(d, v)
    BY <2>1, <2>3 DEF Agreed, ContentsFollow
  <2>5. d \notin F
    <3>1. ~Doomed(x, d)
      BY <2>3 DEF Agreed, ShownKept
    <3> QED BY <1>12, <3>1 DEF Doomed
  <2>6. Refreshing(x, d, r)' => Refreshing(IdAt(i), d, transactions[i])'
    BY <2>2 DEF Refreshing
  <2>7. Settled(d, v) => Settled(d, v)'
    BY <1>9, <2>5
  <2> QED BY <1>13, <2>2, <2>4, <2>6, <2>7
<1> QED BY <1>9, <1>10, <1>15, <1>16 DEF Agreed

\* What was found in order to be edited is to show the object's content; the
\* object is the array's.
LEMMA RunUpdateCallbackAgreed ==
    ASSUME Background, Sitting, Agreed, keychain' = keychain, RunUpdateCallback
    PROVE  Agreed'
<1>0. /\ IInv /\ AnswersGenuine /\ ManagerTypeOK /\ KeysOnce /\ keychain \in Users
  <2>1. IInv /\ AnswersGenuine /\ ManagerTypeOK /\ KeysOnce
    BY DEF Background, Tabular, Belonging, Filing, Waiting, Presence, IInv, TypeOK, Uniqueness, Once
  <2> QED BY <2>1 DEF IInv, TypeOK, SessionTypeOK, Sitting
<1>i. /\ Shown \subseteq Ids /\ heap \in Seq(Transaction)
      /\ \A i \in DOMAIN transactions : IdAt(i) \in Ids /\ IdAt(i) \in Shown
  BY <1>0, ShownTypes DEF Shown, IdAt
<1>1. PICK b0 \in Snapshots :
        /\ b0 = Head(main) /\ main # << >> /\ main' = Tail(main)
        /\ b0.callback \in Callback(Len(heap)) /\ b0.callback.kind = "update"
        /\ b0.docs \in [DocIds -> DocState]
  BY <1>0, NextAnswer DEF RunUpdateCallback
<1>2. PICK r0 \in Refs : b0.callback = UpdateCallback(r0) /\ b0.callback.ref = r0
  <2>1. b0.callback \in [kind : {"update"}, ref : 1 .. Len(heap)]
    BY <1>1 DEF Callback
  <2>2. PICK r \in 1 .. Len(heap) : r = b0.callback.ref
    BY <2>1
  <2>3. b0.callback = [kind |-> "update", ref |-> r]
    BY <2>1, <2>2
  <2>4. r \in Refs
    BY <1>i DEF Refs
  <2>5. b0.callback = UpdateCallback(r)
    BY <2>3 DEF UpdateCallback
  <2> QED BY <2>2, <2>4, <2>5
<1>3. PICK F : F = Found(b0.docs)
  OBVIOUS
<1>c. PICK k : k = Encode(heap[r0].content)
  OBVIOUS
<1>4. PICK change : change = [d \in DocIds |-> Patch(d, k)]
  OBVIOUS
<1>5. /\ F \in SUBSET DocIds /\ \A d \in F : change[d] = Patch(d, k)
      /\ \A d \in DocIds : d \in F <=> b0.docs[d] # Absent
  BY <1>3, <1>4 DEF Found
<1>6. Queueing(F, change)
  <2>1. Cardinality(F) \in Nat /\ \A i \in 1 .. Cardinality(F) : Ascending(F)[i] \in DocIds
    BY <1>1, <1>3, FoundProperties
  <2>2. worker' = worker \o [i \in 1 .. Cardinality(F) |-> WriteTask(Patch(Ascending(F)[i], k))]
    BY <1>1, <1>2, <1>3, <1>c DEF RunUpdateCallback, updateFound
  <2>3. \A i \in 1 .. Cardinality(F) : change[Ascending(F)[i]] = Patch(Ascending(F)[i], k)
    BY <1>4, <2>1
  <2> QED BY <2>2, <2>3 DEF Queueing
<1>7. UNCHANGED <<cache, mutations, keychain, listeners, added, heap, transactions>>
  BY DEF RunUpdateCallback, updateFound, managerVars
<1>8. \A d \in F : /\ change[d].key = d /\ change[d].op = "patch" /\ change[d].content = k
                   /\ change[d].op \in {"patch", "delete"}
  <2> SUFFICES ASSUME NEW d \in F
               PROVE  /\ change[d].key = d /\ change[d].op = "patch" /\ change[d].content = k
                      /\ change[d].op \in {"patch", "delete"}
    OBVIOUS
  <2>1. change[d] = Patch(d, k)
    BY <1>5
  <2> QED BY <2>1 DEF Patch
<1>9. /\ (\A b \in Snapshots' : b \in Snapshots)
      /\ (\A b \in Snapshots : b \in Snapshots' \/ b = b0)
      /\ \A d : View(d)' = View(d) /\ (ToBeFiled(d)' <=> ToBeFiled(d))
      /\ \A x, d : Mine(x, d)' <=> Mine(x, d)
      /\ \A q, c : Pending(q, c)' <=> Pending(q, c)
      /\ \A s \in Tasks : s \in Tasks'
      /\ \A s \in Tasks' : s \in Tasks \/ \E d \in F : s = WriteTask(change[d])
      /\ \A d, v : d \notin F /\ Settled(d, v) => Settled(d, v)'
      /\ \A d \in F : change[d].op = "patch" => WrittenLast(d, Decode(change[d].content))'
      /\ CreationFirst' /\ NothingNew'
  <2>1. Changed(b0, F, change)
    BY <1>0, <1>1, <1>3, <1>6, <1>7, <1>8, ChangesAppended
  <2> QED BY <2>1 DEF Changed
<1>10. LookUps' /\ (\A i : IdAt(i)' = IdAt(i)) /\ Shown' = Shown
  BY <1>7, <1>9, LookUpsKept
<1>11. \A d : ToBeDeleted(d)' <=> ToBeDeleted(d)
  <2>1. \A d, e : WriteTask(Delete(d)) # WriteTask(Patch(e, k))
    BY DEF WriteTask, Delete, Patch
  <2> QED BY <1>5, <1>9, <2>1 DEF ToBeDeleted
<1>12. \A d : FoundBy(RemoveCallback, d) <=> FoundBy(RemoveCallback, d)'
  <2>1. RemoveCallback # b0.callback
    BY <1>2 DEF UpdateCallback, RemoveCallback
  <2> QED BY <1>9, <2>1 DEF FoundBy
<1>13. \A x, r : \A d \in DocIds : Refreshing(x, d, r) => Refreshing(x, d, r)' \/ d \in F
  BY <1>5, <1>9 DEF Refreshing, FoundBy
<1>14. \A x, d : Doomed(x, d)' <=> Doomed(x, d)
  BY <1>9, <1>11, <1>12 DEF Doomed
<1>15. ShownMine' /\ ShownKept' /\ OthersGo'
  BY <1>9, <1>10, <1>14 DEF Agreed, ShownMine, ShownKept, OthersGo
<1>16. ContentsFollow'
  <2> SUFFICES ASSUME NEW i \in DOMAIN transactions, NEW d \in DocIds, Mine(IdAt(i), d)'
               PROVE  \/ Refreshing(IdAt(i), d, transactions[i])'
                      \/ Settled(d, Decode(Encode(heap[transactions[i]].content)))'
    BY <1>7 DEF ContentsFollow
  <2>1. PICK x, r, v : /\ x = IdAt(i) /\ r = transactions[i]
                       /\ v = Decode(Encode(heap[transactions[i]].content))
    OBVIOUS
  <2>2. /\ IdAt(i)' = x /\ transactions'[i] = r
        /\ Decode(Encode(heap'[transactions'[i]].content)) = v
    BY <1>7, <1>10, <2>1
  <2>3. Mine(x, d) /\ x \in Shown /\ x \in Ids
    BY <1>7, <1>i, <2>1, <2>2 DEF Mine
  <2>4. Refreshing(x, d, r) \/ Settled(d, v)
    BY <2>1, <2>3 DEF Agreed, ContentsFollow
  <2>5. Refreshing(x, d, r)' => Refreshing(IdAt(i), d, transactions[i])'
    BY <2>2 DEF Refreshing
  <2>6. CASE d \notin F
    <3>1. Settled(d, v) => Settled(d, v)'
      BY <1>9, <2>6
    <3> QED BY <1>13, <2>2, <2>4, <2>5, <2>6, <3>1
  <2>7. CASE d \in F
    <3>1. b0.docs[d] # Absent
      BY <1>5, <2>7
    <3>2. OwnObject(r0) /\ Mine(heap[r0].id, d)
      BY <1>1, <1>2, <3>1 DEF Agreed, LookUps, EditsFound
    <3>3. heap[r0].id \in Ids
      <4>1. heap[r0] \in Transaction
        BY <1>i DEF Refs
      <4> QED BY <4>1 DEF Transaction
    <3>4. added[heap[r0].id] # NotAdded /\ added[heap[r0].id].key = d
      BY <1>0, <3>2, MarkerAssumption DEF Mine
    <3>5. x = heap[r0].id
      BY <1>0, <2>3, <3>3, <3>4, MineOnce
    <3>6. r = r0
      BY <2>1, <3>2, <3>5 DEF OwnObject
    <3>7. v = Decode(k)
      BY <1>c, <2>1, <3>6
    <3>8. WrittenLast(d, v)'
      BY <1>8, <1>9, <2>7, <3>7
    <3> QED BY <2>2, <3>8 DEF Settled
  <2> QED BY <2>6, <2>7
<1> QED BY <1>9, <1>10, <1>15, <1>16 DEF Agreed

\* A load makes an object of each document of its answer, in key order.
LEMMA LoadedObjects ==
    ASSUME IInv, RunLoadCallback, NEW docs, docs = Head(main).docs
    PROVE  /\ \A i \in DOMAIN transactions' : \E d \in Found(docs) :
                 heap'[transactions'[i]] =
                    [id |-> docs[d].id, content |-> Decode(docs[d].content)]
           /\ \A d \in Found(docs) : \E i \in DOMAIN transactions' :
                 heap'[transactions'[i]].id = docs[d].id
<1> DEFINE keys == Ascending(Found(docs))
           n == Cardinality(Found(docs))
           object(i) == [id |-> docs[keys[i]].id,
                         content |-> Decode(docs[keys[i]].content)]
           S == {object(i) : i \in 1 .. n}
           loaded == [i \in 1 .. n |-> object(i)]
<1>1. docs \in [DocIds -> DocState]
  BY AnsweredTypes DEF RunLoadCallback
<1>2. /\ heap' = heap \o loaded
      /\ transactions' = [i \in 1 .. n |-> Len(heap) + i]
  BY DEF RunLoadCallback, setLoadedTransactions
<1>3. /\ n \in Nat /\ (\A i \in 1 .. n : keys[i] \in Found(docs))
      /\ \A d \in Found(docs) : \E i \in 1 .. n : keys[i] = d
  <2>1. PICK F \in SUBSET DocIds : F = Found(docs)
    BY DEF Found
  <2>2. IsFiniteSet(F) /\ F \in SUBSET Int
    <3>1. IsFiniteSet(DocIds) /\ \A d \in DocIds : d \in Int
      BY DocIdsAssumption
    <3>2. IsFiniteSet(F)
      BY <3>1, FS_Subset
    <3> QED BY <3>1, <3>2
  <2> QED BY <2>1, <2>2, AscendingProperties
<1>o. \A i \in 1 .. n : object(i) = [id |-> docs[keys[i]].id, content |-> Decode(docs[keys[i]].content)]
  OBVIOUS
<1> HIDE DEF object, n, keys
<1>4. loaded \in Seq(S) /\ Len(loaded) = n /\ \A i \in 1 .. n : loaded[i] = object(i)
  BY <1>3
<1> HIDE DEF loaded, S
<1>5. heap \in Seq(Transaction \cup S) /\ loaded \in Seq(Transaction \cup S) /\ Len(heap) \in Nat
  BY <1>4, SeqGrows DEF IInv, TypeOK, ManagerTypeOK
<1>6. \A k \in 1 .. Len(heap) + n :
         (heap \o loaded)[k] = IF k <= Len(heap) THEN heap[k] ELSE loaded[k - Len(heap)]
  BY <1>4, <1>5, ConcatProperties
<1>7. ASSUME NEW i \in 1 .. n
      PROVE  heap'[transactions'[i]] = object(i)
  <2>1. transactions'[i] = Len(heap) + i
    BY <1>2
  <2>2. Len(heap) + i \in 1 .. Len(heap) + n /\ ~(Len(heap) + i <= Len(heap))
        /\ (Len(heap) + i) - Len(heap) = i
    BY <1>3, <1>5
  <2> QED BY <1>2, <1>4, <1>6, <2>1, <2>2
<1>8. DOMAIN transactions' = 1 .. n
  BY <1>2
<1>9. \A i \in 1 .. n : object(i).id = docs[keys[i]].id
  BY <1>o
<1>10. ASSUME NEW i \in DOMAIN transactions'
       PROVE  \E d \in Found(docs) :
                 heap'[transactions'[i]] = [id |-> docs[d].id, content |-> Decode(docs[d].content)]
  <2>1. i \in 1 .. n
    BY <1>8
  <2>2. heap'[transactions'[i]] = object(i)
    BY <1>7, <2>1
  <2>3. keys[i] \in Found(docs)
    BY <1>3, <2>1
  <2> QED BY <1>o, <2>1, <2>2, <2>3
<1>11. ASSUME NEW d \in Found(docs)
       PROVE  \E i \in DOMAIN transactions' : heap'[transactions'[i]].id = docs[d].id
  <2>1. PICK i \in 1 .. n : keys[i] = d
    BY <1>3
  <2>2. heap'[transactions'[i]] = object(i) /\ object(i).id = docs[d].id
    BY <1>7, <1>9, <2>1
  <2> QED BY <1>8, <2>1, <2>2
<1> QED BY <1>10, <1>11

\* The tabs are shown with what the user's device shows, and with nothing under
\* way.
LEMMA SittingBegins ==
    ASSUME Background, [Next]_vars, Calm, keychain # Nobody, keychain' = keychain, Undisturbed',
           depth = 1, RunLoadCallback
    PROVE  Agreed'
<1>0. IInv /\ KeysOnce /\ LoadsAskUsers
  BY DEF Background, Tabular, Belonging, Filing, Waiting, Presence, Uniqueness, Once
<1>1. PICK b0 \in Snapshots :
        /\ b0 = Head(main) /\ main # << >> /\ main' = Tail(main)
        /\ b0.callback \in Callback(Len(heap)) /\ b0.callback.kind = "load"
        /\ b0.docs \in [DocIds -> DocState]
  BY <1>0, NextAnswer DEF RunLoadCallback
<1>2. /\ keychain \in Users /\ fsUser = keychain
      /\ \A d \in DocIds :
           View(d) # Absent => View(d) \in Document /\ Genuine(added, d, View(d))
  <2>1. fsUser # NoClient
    BY <1>0, AnsweredTypes DEF RunLoadCallback
  <2> QED BY <2>1, InSitting
<1>3. PICK docs : docs = b0.docs /\ docs = Head(main).docs /\ docs = Viewed(ByUser(keychain))
  BY <1>1 DEF Background, LoadAnswered
<1>4. \A d \in DocIds :
         /\ d \in Found(docs) <=> View(d) # Absent /\ View(d).user_id = keychain
         /\ d \in Found(docs) => docs[d] = View(d)
  <2> SUFFICES ASSUME NEW d \in DocIds
               PROVE  /\ d \in Found(docs) <=> View(d) # Absent /\ View(d).user_id = keychain
                      /\ d \in Found(docs) => docs[d] = View(d)
    OBVIOUS
  <2>1. docs[d] = IF Matches(ByUser(keychain), View(d)) THEN View(d) ELSE Absent
    BY <1>3 DEF Viewed
  <2>2. Matches(ByUser(keychain), View(d)) <=> View(d) # Absent /\ View(d).user_id = keychain
    BY DEF Matches, ByUser
  <2> QED BY <2>1, <2>2 DEF Found
<1>5. UNCHANGED <<worker, listeners, added, cache, mutations>>
  BY DEF RunLoadCallback, setLoadedTransactions
<1>6. (\A b \in Snapshots' : b \in Snapshots) /\ Tasks' = Tasks /\ \A q : Callbacks(q)' = Callbacks(q)
  <2>1. main \in Seq(Block(Len(heap), Len(observers)))
    BY <1>0 DEF IInv, TypeOK, StoreTypeOK
  <2>2. \A i \in DOMAIN main' : i + 1 \in DOMAIN main /\ main'[i] = main[i + 1]
    BY <1>1, <2>1
  <2> QED BY <1>5, <2>2 DEF Snapshots, Tasks, Callbacks
<1>7. \A d \in DocIds : View(d)' = View(d)
  BY <1>5 DEF View, LocalDocument
<1>8. /\ \A t \in Tasks' : t.kind # "write" /\ (t.kind = "listen" => t.callback.kind = "load")
      /\ \A q \in Queries : \A c \in Callbacks(q)' : c.kind = "load"
      /\ \A b \in Snapshots' : b.callback.kind = "load"
  <2>1. OnlyLoads
    BY DEF Background, Untouched, Calm, OneListener
  <2> QED BY <1>6, <2>1 DEF OnlyLoads
<1>9. \A i \in DOMAIN worker' : worker'[i].kind # "write"
  BY <1>8 DEF Tasks
<1>10. \A x \in Ids : /\ \A t \in Tasks' : ~(t.kind = "listen" /\ t.query = ById(x))
                      /\ Callbacks(ById(x))' = {}
  <2> SUFFICES ASSUME NEW x \in Ids
               PROVE  /\ \A t \in Tasks' : ~(t.kind = "listen" /\ t.query = ById(x))
                      /\ Callbacks(ById(x))' = {}
    OBVIOUS
  <2>1. ById(x) \notin {ByUser(u) : u \in Users} /\ ById(x) \in Queries
    BY DEF ById, ByUser, Queries
  <2>2. ASSUME NEW t \in Tasks', t.kind = "listen", t.query = ById(x) PROVE FALSE
    <3>1. PICK i \in DOMAIN worker : t = worker[i] /\ IsLoad(worker[i])
      BY <1>6, <1>8, <2>2 DEF Tasks, IsLoad
    <3> QED BY <1>0, <2>1, <2>2, <3>1 DEF LoadsAskUsers, LoadsIn
  <2>3. ASSUME NEW c \in Callbacks(ById(x))' PROVE FALSE
    <3>1. c \in Callbacks(ById(x)) /\ c.kind = "load"
      BY <1>6, <1>8, <2>1, <2>3
    <3>2. PICK i \in DOMAIN listeners[ById(x)] : listeners[ById(x)][i].kind = "load"
      BY <3>1 DEF Callbacks
    <3> QED BY <1>0, <2>1, <3>2 DEF LoadsAskUsers, LoadsIn
  <2> QED BY <2>2, <2>3
<1>11. \A q \in Queries : \A c : Pending(q, c)' => c.kind = "load"
  <2>1. \A q, c : ListenTask(q, c).kind = "listen" /\ ListenTask(q, c).callback = c
    BY DEF ListenTask
  <2> QED BY <1>8, <2>1 DEF Pending
<1>12. /\ \A d : ~ToBeFiled(d)' /\ ~ToBeDeleted(d)' /\ ~FoundBy(RemoveCallback, d)'
       /\ \A x \in Ids : \A d : ~Doomed(x, d)'
       /\ \A i \in DOMAIN worker' : \A d : ~Writes(i, d)'
  <2>1. \A d : ~ToBeFiled(d)'
    BY <1>9 DEF ToBeFiled, IsCreation
  <2>2. \A d : ~ToBeDeleted(d)'
    <3>1. \A d : WriteTask(Delete(d)).kind = "write"
      BY DEF WriteTask
    <3> QED BY <1>8, <3>1 DEF ToBeDeleted
  <2>3. \A d : ~FoundBy(RemoveCallback, d)'
    <3>1. RemoveCallback.kind # "load"
      BY DEF RemoveCallback
    <3> QED BY <1>8, <3>1 DEF FoundBy
  <2>4. \A x \in Ids : ~Pending(ById(x), RemoveCallback)'
    <3>1. \A x \in Ids : ById(x) \in Queries
      BY DEF Queries
    <3>2. RemoveCallback.kind # "load"
      BY DEF RemoveCallback
    <3> QED BY <1>11, <3>1, <3>2
  <2>5. \A i \in DOMAIN worker' : \A d : ~Writes(i, d)'
    BY <1>9 DEF Writes
  <2> QED BY <2>1, <2>2, <2>3, <2>4, <2>5 DEF Doomed
<1>13. \A d \in Found(docs) :
          /\ d \in DocIds /\ docs[d] = View(d) /\ View(d) # Absent /\ View(d) \in Document
          /\ View(d).id \in Ids /\ Mine(View(d).id, d)
  <2> SUFFICES ASSUME NEW d \in Found(docs)
               PROVE  /\ d \in DocIds /\ docs[d] = View(d) /\ View(d) # Absent /\ View(d) \in Document
                      /\ View(d).id \in Ids /\ Mine(View(d).id, d)
    OBVIOUS
  <2>1. d \in DocIds
    BY DEF Found
  <2>2. docs[d] = View(d) /\ View(d) # Absent /\ View(d).user_id = keychain
    BY <1>4, <2>1
  <2>3. View(d) \in Document /\ Genuine(added, d, View(d))
    BY <1>2, <2>1, <2>2
  <2>4. Mine(View(d).id, d)
    BY <2>2, <2>3 DEF Genuine, Mine
  <2> QED BY <2>1, <2>2, <2>3, <2>4 DEF Document
<1>14. \A x, d : Mine(x, d)' <=> Mine(x, d)
  BY <1>5 DEF Mine
<1>15. \A x, d, e : Mine(x, d) /\ Mine(x, e) => d = e
  <2> SUFFICES ASSUME NEW x, NEW d, NEW e, Mine(x, d), Mine(x, e) PROVE d = e
    OBVIOUS
  <2>1. added[x].key = d /\ added[x].key = e
    BY DEF Mine
  <2> QED BY <2>1
<1>16. /\ \A i \in DOMAIN transactions' : \E d \in Found(docs) :
             heap'[transactions'[i]] = [id |-> docs[d].id, content |-> Decode(docs[d].content)]
       /\ \A d \in Found(docs) : \E i \in DOMAIN transactions' :
             heap'[transactions'[i]].id = docs[d].id
  BY <1>0, <1>3, LoadedObjects
<1>17. /\ \A x \in Shown' : \E d \in Found(docs) : x = View(d).id
       /\ \A d \in Found(docs) : View(d).id \in Shown'
  <2>1. \A i \in DOMAIN transactions' : \E d \in Found(docs) : heap'[transactions'[i]].id = View(d).id
    <3> SUFFICES ASSUME NEW i \in DOMAIN transactions'
                 PROVE  \E d \in Found(docs) : heap'[transactions'[i]].id = View(d).id
      OBVIOUS
    <3>1. PICK d \in Found(docs) :
            heap'[transactions'[i]] = [id |-> docs[d].id, content |-> Decode(docs[d].content)]
      BY <1>16
    <3>2. heap'[transactions'[i]].id = docs[d].id
      BY <3>1
    <3> QED BY <1>13, <3>2
  <2>2. \A d \in Found(docs) : \E i \in DOMAIN transactions' : heap'[transactions'[i]].id = View(d).id
    BY <1>13, <1>16
  <2> QED BY <2>1, <2>2 DEF Shown
<1>18. ShownMine'
  BY <1>13, <1>14, <1>17 DEF ShownMine
<1>19. ShownKept'
  <2> SUFFICES ASSUME NEW x \in Shown', NEW d \in DocIds, Mine(x, d)'
               PROVE  (View(d)' # Absent \/ ToBeFiled(d)') /\ ~Doomed(x, d)'
    BY DEF ShownKept
  <2>1. PICK e \in Found(docs) : x = View(e).id
    BY <1>17
  <2>2. x \in Ids /\ e = d
    BY <1>13, <1>14, <1>15, <2>1
  <2> QED BY <1>7, <1>12, <1>13, <2>2
<1>20. OthersGo'
  <2> SUFFICES ASSUME NEW x \in Ids, x \notin Shown', NEW d \in DocIds, Mine(x, d), View(d) # Absent
               PROVE  FALSE
    BY <1>7, <1>12, <1>14 DEF OthersGo
  <2>1. PICK doc : doc = View(d)
    OBVIOUS
  <2>2. doc \in Document /\ Genuine(added, d, doc)
    BY <1>2, <2>1
  <2>3. added[doc.id] = [key |-> d, user |-> doc.user_id] /\ doc.id \in Ids
    BY <2>2 DEF Genuine, Document
  <2>4. added[doc.id].key = d /\ added[doc.id] # NotAdded
    BY <2>2, <2>3, GenuineIsAdded
  <2>5. x = doc.id
    BY <1>0, <2>3, <2>4, MineOnce
  <2>6. doc.user_id = keychain
    <3>1. added[doc.id].user = doc.user_id /\ added[x].user = keychain
      BY <2>3 DEF Mine
    <3> QED BY <2>5, <3>1
  <2>7. d \in Found(docs)
    BY <1>4, <2>1, <2>6
  <2> QED BY <1>17, <2>1, <2>5, <2>7
<1>21. ContentsFollow'
  <2> SUFFICES ASSUME NEW i \in DOMAIN transactions', NEW d \in DocIds, Mine(IdAt(i), d)'
               PROVE  Settled(d, Decode(Encode(heap[transactions[i]].content)))'
    BY DEF ContentsFollow
  <2>1. PICK e \in Found(docs) :
          heap'[transactions'[i]] = [id |-> docs[e].id, content |-> Decode(docs[e].content)]
    BY <1>16
  <2>2. /\ heap'[transactions'[i]].id = View(e).id
        /\ heap'[transactions'[i]].content = Decode(View(e).content)
    BY <1>13, <2>1
  <2>3. e = d
    <3>1. Mine(View(e).id, d)
      BY <1>5, <2>2 DEF IdAt, Mine
    <3> QED BY <1>13, <1>15, <3>1
  <2>4. View(d) \in Document /\ View(d) # Absent
    BY <1>13, <2>3
  <2>5. View(d).content \in StoredContent
    BY <2>4 DEF Document
  <2>6. PICK v : v = Decode(View(d).content)
    OBVIOUS
  <2>7. Decode(Encode(heap'[transactions'[i]].content)) = v
    BY <2>2, <2>3, <2>5, <2>6, ReadBackTwice
  <2>8. Left(d, v)'
    BY <1>7, <1>12, <2>4, <2>6 DEF Left
  <2> QED BY <2>7, <2>8 DEF Settled
<1>22. CreationFirst'
  <2>1. CreatedFirst'
    BY <1>12 DEF CreatedFirst
  <2>2. FoundAfter'
    BY <1>12 DEF FoundAfter
  <2>3. AskedAfter'
    BY <1>10 DEF AskedAfter
  <2>4. AskedBehind'
    BY <1>9 DEF AskedBehind, IsCreation
  <2> QED BY <2>1, <2>2, <2>3, <2>4 DEF CreationFirst
<1>23. LookUps'
  <2>1. EditsMine'
    <3>1. \A r : UpdateCallback(r).kind # "load"
      BY DEF UpdateCallback
    <3> QED BY <1>11, <3>1 DEF EditsMine, UpdateCallback
  <2>2. RemovesOne'
    <3>1. RemoveCallback.kind # "load"
      BY DEF RemoveCallback
    <3> QED BY <1>11, <3>1 DEF RemovesOne
  <2>3. EditsFound'
    BY <1>8 DEF EditsFound
  <2> QED BY <2>1, <2>2, <2>3 DEF LookUps
<1>24. NothingNew'
  <2>1. KnownAsked'
    BY <1>10 DEF KnownAsked
  <2>2. KnownWritten'
    BY <1>9 DEF KnownWritten
  <2> QED BY <2>1, <2>2 DEF NothingNew
<1> QED BY <1>18, <1>19, <1>20, <1>21, <1>22, <1>23, <1>24 DEF Agreed

-----------------------------------------------------------------------------
\* The agreement at every step.

\* Whatever happens in a session, the array and the documents agree as before.
LEMMA AgreementStep ==
    ASSUME Background, Agreement, [Next]_vars
    PROVE  Agreement'
<1> SUFFICES ASSUME Sitting' PROVE Agreed'
  BY DEF Agreement
<1>1. /\ Calm /\ keychain # Nobody /\ keychain' = keychain /\ Undisturbed' /\ ~Crash
      /\ \/ depth = 1 /\ RunLoadCallback
         \/ /\ Sitting /\ fsUser' = fsUser
            /\ \/ Quiet \/ WriteMutations \/ AddListener
               \/ \E q \in Queries : Answering(q)
               \/ AddTransaction \/ SaveEdit \/ DeleteTransaction
               \/ RunRemoveCallback \/ RunUpdateCallback
  BY SittingSteps
<1>2. CASE depth = 1 /\ RunLoadCallback
  BY <1>1, <1>2, SittingBegins
<1>3. CASE Sitting
  <2>1. Agreed
    BY <1>3 DEF Agreement
  <2>2. CASE Quiet
    <3>1. /\ IInv /\ BudgetBounded /\ Mirrored /\ fsUser \in {NoClient, keychain}
          /\ ~WriteMutations
      BY <1>1, <2>2 DEF Background, Tabular, Belonging, Filing, Waiting, Presence, Alone, Quiet
    <3>2. \A d \in DocIds : View(d)' = View(d)
      BY <1>1, <3>1, ViewSteps
    <3> QED BY <1>1, <2>1, <2>2, <3>2, QuietAgreed
  <2>3. CASE WriteMutations
    BY <1>1, <1>3, <2>1, <2>3, WriteMutationsAgreed
  <2>4. CASE AddListener
    BY <1>1, <1>3, <2>1, <2>4, AddListenerAgreed
  <2>5. ASSUME NEW q \in Queries, Answering(q)
        PROVE  Agreed'
    BY <1>1, <1>3, <2>1, <2>5, AnsweringAgreed
  <2>6. CASE AddTransaction
    BY <1>1, <1>3, <2>1, <2>6, AddTransactionAgreed
  <2>7. CASE SaveEdit
    BY <1>1, <1>3, <2>1, <2>7, SaveEditAgreed
  <2>8. CASE DeleteTransaction
    BY <1>1, <1>3, <2>1, <2>8, DeleteTransactionAgreed
  <2>9. CASE RunRemoveCallback
    BY <1>1, <1>3, <2>1, <2>9, RunRemoveCallbackAgreed
  <2>10. CASE RunUpdateCallback
    BY <1>1, <1>3, <2>1, <2>10, RunUpdateCallbackAgreed
  <2>11. depth # 1
    BY <1>3 DEF Sitting
  <2> QED BY <1>1, <2>2, <2>3, <2>4, <2>5, <2>6, <2>7, <2>8, <2>9, <2>10, <2>11
<1> QED BY <1>1, <1>2, <1>3

\* What that rests on is kept too.
LEMMA BackgroundStep ==
    ASSUME Background, [Next]_vars
    PROVE  Background'
<1>1. /\ Tabular /\ Uniqueness /\ BudgetBounded /\ Mirrored /\ Single /\ Untouched /\ UnderWay
      /\ Uncalled /\ Answerable /\ Alone /\ LoadAnswered /\ ObjectsAdded
      /\ IInv /\ Waiting /\ HurryBounded /\ Waits /\ AnswersGenuine /\ observers # << >>
  BY DEF Background, Tabular, Belonging, Filing, Waiting, Presence
<1>2. Tabular' /\ Uniqueness'
  BY <1>1, TabularStep, UniquenessStep
<1>3. BudgetBounded' /\ Mirrored'
  BY <1>1, Disturbance, MirroredStep
<1>4. Single' /\ Untouched'
  BY <1>1, SingleStep, UntouchedStep
<1>5. UnderWay' /\ Uncalled' /\ Answerable' /\ Alone'
  BY <1>1, UnderWayStep, UncalledStep, AnswerableStep, AloneStep
<1>6. LoadAnswered'
  BY <1>1, LoadAnsweredStep
<1>7. ObjectsAdded'
  BY <1>1, ObjectsAddedStep
<1> QED BY <1>2, <1>3, <1>4, <1>5, <1>6, <1>7 DEF Background

\* At first nothing is under way and no one is signed in.
LEMMA MemoryInit == Init => Background /\ Agreement
<1> SUFFICES ASSUME Init PROVE Background /\ Agreement
  OBVIOUS
<1>1. /\ worker = << >> /\ listeners = [q \in Queries |-> << >>] /\ heap = << >>
      /\ main = <<InitialBlock(1)>> /\ observers = <<Observer(1)>> /\ depth = 1
      /\ keychain = Nobody /\ fsUser = NoClient /\ cache = server /\ budget = Budget
  BY DEF Init, StoreInit, ManagerInit
<1>2. Tabular /\ Uniqueness
  BY TabularInit, UniquenessInit
<1>3. BudgetBounded
  <2>1. \A e \in {"failure", "remote"} : Budget[e] \in Nat
    BY BudgetAssumption DEF Event
  <2> QED BY <1>1, <2>1 DEF BudgetBounded
<1>4. Tasks = {} /\ Snapshots = {} /\ \A q \in Queries : Callbacks(q) = {}
  <2>1. \A i \in DOMAIN main : main[i].kind # "snapshot"
    BY <1>1 DEF InitialBlock
  <2>2. Snapshots = {}
    BY <2>1 DEF Snapshots
  <2>3. Tasks = {}
    BY <1>1 DEF Tasks
  <2>4. \A q \in Queries : Callbacks(q) = {}
    BY <1>1 DEF Callbacks
  <2> QED BY <2>2, <2>3, <2>4
<1>5. Single
  <2>1. Awaited = {}
    <3>1. OnWorkerQueue = {}
      BY <1>1 DEF OnWorkerQueue
    <3>2. Registered = {}
      BY <1>1 DEF Registered
    <3>3. \A i \in DOMAIN main : main[i].kind # "snapshot"
      BY <1>1 DEF InitialBlock
    <3>4. OnMainQueue = {}
      BY <3>3 DEF OnMainQueue
    <3> QED BY <3>1, <3>2, <3>4 DEF Awaited
  <2> QED BY <1>1, <2>1 DEF Single, Observer
<1>6. Untouched
  BY <1>4 DEF Untouched, OnlyLoads
<1>7. Mirrored /\ UnderWay /\ Alone /\ LoadAnswered /\ Agreement
  BY <1>1 DEF Mirrored, UnderWay, Alone, LoadAnswered, Agreement, Sitting
<1>9. Uncalled /\ Answerable
  <2>1. ~SigningIn
    BY DEF Init, SigningIn
  <2> QED BY <1>1, <2>1 DEF Uncalled, Answerable, Observer
<1>8. ObjectsAdded
  BY <1>1 DEF ObjectsAdded, Refs
<1> QED BY <1>2, <1>3, <1>5, <1>6, <1>7, <1>8, <1>9 DEF Background

-----------------------------------------------------------------------------
\* The theorem.

\* The server's documents of the user u.
DocumentsOf(u) == {d \in Found(server) : server[d].user_id = u}

\* When nothing is under way the user's device sees what the server has, and
\* what the array has of a transaction is its document.
LEMMA SettledQuietly ==
    ASSUME Background, Sitting, Agreed, Quiescent
    PROVE  /\ keychain \in Users
           /\ \A d \in DocIds : server[d] # Absent =>
                 server[d] \in Document /\ Genuine(added, d, server[d])
           /\ \A i \in DOMAIN transactions : \E d \in DocIds :
                 /\ Mine(IdAt(i), d) /\ server[d] # Absent
                 /\ Decode(Encode(heap[transactions[i]].content)) = Decode(server[d].content)
           /\ \A x \in Ids, d \in DocIds : Mine(x, d) /\ server[d] # Absent => x \in Shown
<1>1. /\ Tasks = {} /\ Snapshots = {} /\ (\A q \in Queries : Callbacks(q) = {})
      /\ worker = << >>
  BY DEF Quiescent, Tasks, Snapshots, Callbacks
<1>2. fsUser # NoClient /\ IInv /\ ManagerTypeOK
  BY DEF Background, Tabular, Belonging, Filing, Waiting, Presence, IInv, ClientReady, Sitting, TypeOK
<1>3. /\ keychain \in Users /\ cache = server
      /\ \A d \in DocIds : View(d) # Absent => View(d) \in Document /\ Genuine(added, d, View(d))
  BY <1>2, InSitting DEF Sitting
<1>4. \A d : View(d) = server[d]
  <2>1. mutations[keychain] = << >>
    BY <1>3 DEF Quiescent
  <2>2. \A d : Written(<< >>, cache[d], d) = cache[d]
    BY DEF Written
  <2> QED BY <1>3, <2>1, <2>2 DEF View, LocalDocument
<1>5. \A q \in Queries : \A c : ~Pending(q, c)
  BY <1>1 DEF Pending
<1>6. (\A c, d : ~FoundBy(c, d)) /\ (\A d : ~ToBeDeleted(d)) /\ (\A d : ~ToBeFiled(d))
  BY <1>1 DEF FoundBy, ToBeDeleted, ToBeFiled
<1>7. \A x \in Ids : ById(x) \in Queries
  BY DEF Queries
<1>8. \A x \in Ids, d \in DocIds : ~Doomed(x, d)
  BY <1>5, <1>6, <1>7 DEF Doomed
<1>9. Shown \subseteq Ids /\ \A i \in DOMAIN transactions : IdAt(i) \in Shown
  BY <1>2, ShownTypes DEF Shown, IdAt, Transaction
<1>10. ASSUME NEW i \in DOMAIN transactions
       PROVE  \E d \in DocIds :
                 /\ Mine(IdAt(i), d) /\ server[d] # Absent
                 /\ Decode(Encode(heap[transactions[i]].content)) = Decode(server[d].content)
  <2>1. IdAt(i) \in Shown /\ IdAt(i) \in Ids
    BY <1>9, <1>10
  <2>2. PICK d \in DocIds : Mine(IdAt(i), d)
    BY <2>1 DEF Agreed, ShownMine
  <2>3. server[d] # Absent
    BY <1>4, <1>6, <2>1, <2>2 DEF Agreed, ShownKept
  <2>4. ~Refreshing(IdAt(i), d, transactions[i])
    BY <1>5, <1>6, <1>7, <2>1 DEF Refreshing
  <2>5. Settled(d, Decode(Encode(heap[transactions[i]].content)))
    BY <1>10, <2>2, <2>4 DEF Agreed, ContentsFollow
  <2>6. Decode(View(d).content) = Decode(Encode(heap[transactions[i]].content))
    BY <1>1, <2>5 DEF Settled, WrittenLast, Left
  <2> QED BY <1>4, <2>2, <2>3, <2>6
<1>11. ASSUME NEW x \in Ids, NEW d \in DocIds, Mine(x, d), server[d] # Absent
       PROVE  x \in Shown
  BY <1>4, <1>8, <1>11 DEF Agreed, OthersGo
<1> QED BY <1>3, <1>4, <1>10, <1>11

\* So the array's entries and the user's documents are as many, and they say
\* the same.
LEMMA EntriesAreDocuments ==
    ASSUME Background, Sitting, Agreed, Quiescent
    PROVE  /\ Len(transactions) = Cardinality(DocumentsOf(keychain))
           /\ {[id |-> heap[transactions[i]].id,
                content |-> Decode(Encode(heap[transactions[i]].content))] :
                  i \in DOMAIN transactions}
              = {[id |-> server[d].id, content |-> Decode(server[d].content)] :
                  d \in DocumentsOf(keychain)}
<1> DEFINE T == DocumentsOf(keychain)
           key == [i \in DOMAIN transactions |-> added[IdAt(i)].key]
<1>1. /\ keychain \in Users
      /\ \A d \in DocIds : server[d] # Absent =>
            server[d] \in Document /\ Genuine(added, d, server[d])
      /\ \A i \in DOMAIN transactions : \E d \in DocIds :
            /\ Mine(IdAt(i), d) /\ server[d] # Absent
            /\ Decode(Encode(heap[transactions[i]].content)) = Decode(server[d].content)
      /\ \A x \in Ids, d \in DocIds : Mine(x, d) /\ server[d] # Absent => x \in Shown
  BY SettledQuietly
<1>2. /\ IInv /\ ManagerTypeOK /\ KeysOnce /\ ShownOnce
      /\ DOMAIN transactions = 1 .. Len(transactions) /\ Len(transactions) \in Nat
      /\ \A i \in DOMAIN transactions : IdAt(i) \in Ids
  <2>1. IInv /\ ManagerTypeOK /\ KeysOnce /\ ShownOnce
    BY DEF Background, Tabular, Belonging, Uniqueness, Once, Filing, Waiting, Presence, IInv, TypeOK
  <2>2. transactions \in Seq(1 .. Len(heap)) /\ heap \in Seq(Transaction)
    BY <2>1, ShownTypes
  <2>3. DOMAIN transactions = 1 .. Len(transactions) /\ Len(transactions) \in Nat
    BY <2>2
  <2>4. \A i \in DOMAIN transactions : IdAt(i) \in Ids
    <3>1. \A i \in DOMAIN transactions : transactions[i] \in 1 .. Len(heap)
      BY <2>2
    <3>2. \A r \in 1 .. Len(heap) : heap[r] \in Transaction
      BY <2>2
    <3> QED BY <3>1, <3>2 DEF IdAt, Transaction
  <2> QED BY <2>1, <2>3, <2>4
<1>3. ASSUME NEW d \in T
      PROVE  /\ d \in DocIds /\ server[d] \in Document /\ Mine(server[d].id, d)
             /\ \E i \in DOMAIN transactions : IdAt(i) = server[d].id
  <2>1. d \in DocIds /\ server[d] # Absent /\ server[d].user_id = keychain
    BY DEF DocumentsOf, Found
  <2>2. server[d] \in Document /\ Genuine(added, d, server[d])
    BY <1>1, <2>1
  <2>3. Mine(server[d].id, d)
    BY <2>1, <2>2 DEF Genuine, Mine
  <2>4. server[d].id \in Ids
    BY <2>2 DEF Document
  <2>5. server[d].id \in Shown
    BY <1>1, <2>1, <2>3, <2>4
  <2> QED BY <2>1, <2>2, <2>3, <2>5 DEF Shown, IdAt
<1>4. ASSUME NEW i \in DOMAIN transactions
      PROVE  /\ key[i] \in T /\ Mine(IdAt(i), key[i]) /\ server[key[i]].id = IdAt(i)
             /\ Decode(Encode(heap[transactions[i]].content)) = Decode(server[key[i]].content)
  <2>1. PICK d \in DocIds :
            /\ Mine(IdAt(i), d) /\ server[d] # Absent
            /\ Decode(Encode(heap[transactions[i]].content)) = Decode(server[d].content)
    BY <1>1
  <2>2. key[i] = d
    BY <2>1 DEF Mine
  <2>3. server[d] \in Document /\ added[server[d].id] = [key |-> d, user |-> server[d].user_id]
    BY <1>1, <2>1 DEF Genuine
  <2>4. server[d].id = IdAt(i)
    <3>1. added[server[d].id] # NotAdded
      <4>1. d \in DocIds \cup {NoKey} /\ server[d].user_id \in Users \cup {Nobody}
        BY <2>3 DEF Document
      <4> QED BY <2>3, <4>1, MarkerAssumption
    <3>2. server[d].id \in Ids /\ added[server[d].id].key = d
      BY <2>3 DEF Document
    <3> QED BY <1>2, <2>1, <3>1, <3>2, MineOnce
  <2>5. server[d].user_id = keychain
    BY <2>1, <2>3, <2>4 DEF Mine
  <2>6. d \in T
    BY <2>1, <2>5 DEF DocumentsOf, Found
  <2> QED BY <2>1, <2>2, <2>4, <2>6
<1>5. key \in [1 .. Len(transactions) -> T]
  BY <1>2, <1>4
<1>6. \A i, j \in DOMAIN transactions : key[i] = key[j] => i = j
  <2> SUFFICES ASSUME NEW i \in DOMAIN transactions, NEW j \in DOMAIN transactions,
                      key[i] = key[j]
               PROVE  i = j
    OBVIOUS
  <2>1. IdAt(i) = IdAt(j)
    BY <1>4
  <2> QED BY <1>2, <2>1 DEF ShownOnce, IdAt
<1>7. \A d \in T : \E i \in DOMAIN transactions : key[i] = d
  <2> SUFFICES ASSUME NEW d \in T PROVE \E i \in DOMAIN transactions : key[i] = d
    OBVIOUS
  <2>1. Mine(server[d].id, d)
    BY <1>3
  <2>2. PICK i \in DOMAIN transactions : IdAt(i) = server[d].id
    BY <1>3
  <2>3. key[i] = d
    BY <2>1, <2>2 DEF Mine
  <2> QED BY <2>3
<1> HIDE DEF key, T
<1>8. Len(transactions) = Cardinality(T)
  <2>1. key \in Bijection(1 .. Len(transactions), T)
    BY <1>2, <1>5, <1>6, <1>7 DEF Bijection, Injection, Surjection, IsInjective
  <2>2. ExistsBijection(1 .. Len(transactions), T)
    BY <2>1 DEF ExistsBijection
  <2> QED BY <1>2, <2>2, FS_CountingElements
<1>9. \A i \in DOMAIN transactions :
         [id |-> heap[transactions[i]].id,
          content |-> Decode(Encode(heap[transactions[i]].content))]
         = [id |-> server[key[i]].id, content |-> Decode(server[key[i]].content)]
  BY <1>4 DEF IdAt
<1>10. {[id |-> heap[transactions[i]].id,
         content |-> Decode(Encode(heap[transactions[i]].content))] :
           i \in DOMAIN transactions}
       = {[id |-> server[d].id, content |-> Decode(server[d].content)] : d \in T}
  <2>1. \A i \in DOMAIN transactions : key[i] \in T
    BY <1>4
  <2> DEFINE entry(i) == [id |-> heap[transactions[i]].id,
                          content |-> Decode(Encode(heap[transactions[i]].content))]
             shown(d) == [id |-> server[d].id, content |-> Decode(server[d].content)]
  <2>2. \A i \in DOMAIN transactions : entry(i) = shown(key[i])
    BY <1>9
  <2> HIDE DEF entry, shown
  <2>3. {entry(i) : i \in DOMAIN transactions} = {shown(d) : d \in T}
    BY <1>7, <2>1, <2>2
  <2> QED BY <2>3 DEF entry, shown
<1> QED BY <1>8, <1>10 DEF T

\* When nothing is under way, the transactions in memory are those the server
\* has for the signed-in user, with the contents a reload would show: while one
\* listener waits for users who wait, no request is refused and no other device
\* writes, what the array and the documents differ in is under way.
THEOREM MemoryAgrees == Spec => []MemoryMatchesServer
<1>1. Background /\ Agreement => MemoryMatchesServer
  <2> SUFFICES ASSUME Background, Agreement, Quiescent, OnTabs, authUser # Nobody,
                      Len(observers) = 1,
                      \A e \in {"failure", "remote", "hurry"} : budget[e] = Budget[e]
               PROVE  LET mine == {d \in Found(server) : server[d].user_id = authUser}
                      IN  /\ Len(transactions) = Cardinality(mine)
                          /\ {[id |-> heap[transactions[i]].id,
                               content |-> Decode(Encode(heap[transactions[i]].content))] :
                                 i \in DOMAIN transactions}
                             = {[id |-> server[d].id, content |-> Decode(server[d].content)] :
                                 d \in mine}
    BY DEF MemoryMatchesServer
  <2>1. authUser = keychain
    BY DEF Background, Tabular, Belonging, Filing, Waiting, Presence, IInv, TypeOK, SessionTypeOK
  <2>2. depth = 2
    BY DEF Background, Single, OnTabs
  <2>3. Sitting /\ Agreed
    BY <2>1, <2>2 DEF Sitting, Calm, OneListener, Patient, Undisturbed, Agreement
  <2> QED BY <2>1, <2>3, EntriesAreDocuments DEF DocumentsOf
<1>2. Background /\ Agreement /\ [Next]_vars => (Background /\ Agreement)'
  BY BackgroundStep, AgreementStep
<1> QED BY <1>1, <1>2, MemoryInit, PTL DEF Spec
=============================================================================
