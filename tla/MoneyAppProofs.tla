--------------------------- MODULE MoneyAppProofs ---------------------------
(***************************************************************************)
(* The type invariant of MoneyApp, for any number of users, documents,     *)
(* ids and events.  It says more than its name: every reference kept in    *)
(* the manager's array, in the table or in a pending callback denotes an   *)
(* object that exists.  It is inductive only together with ClientReady:    *)
(* the worker files a write in the queue of fsUser, which is a user only   *)
(* because no write is queued before the SDK has a client.                 *)
(*                                                                         *)
(* Then who sees the tabs: someone who is signed in.  A load may be        *)
(* answered long after the listener that asked for it was called, but only *)
(* the topmost login controller presents the tabs, and a logout covers     *)
(* every controller that was there before it.  Only Auth itself can take   *)
(* the user away from under the tabs.                                      *)
(*                                                                         *)
(* Then what becomes of a transaction's document.  It is not lost once     *)
(* its creation is filed: a creation leaves its queue only when the server *)
(* commits or refuses it, and a document is removed only by a deletion     *)
(* that was recorded when it was filed.  And a transaction has one         *)
(* document at most, the one it was added with: the proof follows a        *)
(* creation from the worker queue through a mutation queue to the server;  *)
(* nothing else makes a document, and neither a patch nor another device   *)
(* changes the id or the user of one.                                      *)
(*                                                                         *)
(* Then what is whose, for users who wait: no sign-in is sent while an     *)
(* earlier one, or the load it set off, is unanswered, so that one that is *)
(* still unanswered finds nothing under way.  A creation is filed in the   *)
(* queue of the user it names, although the program asks Auth for the user *)
(* and the SDK is told of him later: the table is touched only when what   *)
(* was announced has been heard.  And what is loaded is the signed-in      *)
(* user's, so that the tabs never show another's.  A transaction is shown  *)
(* once; while there is one listener it loads once, before the table       *)
(* opens, so that the rows of the table and the manager's array stay the   *)
(* same objects.                                                           *)
(*                                                                         *)
(* Last, what becomes of a document that is deleted.  No write of it is    *)
(* ahead of its creation in any queue, and the creation is in its owner's  *)
(* queue.  So when its owner's deletion is committed, a creation that is   *)
(* still queued is ahead of that deletion: if both are sent again, the     *)
(* deletion comes last again.                                              *)
(***************************************************************************)
EXTENDS MoneyApp, OrderingProofs

\* The SDK's client, which the first load of a launch creates, exists before
\* anything else is asked of it: nothing is queued, listened for, answered or
\* shown while there is none.
ClientReady ==
    fsUser = NoClient =>
        /\ worker = << >>
        /\ \A q \in Queries : listeners[q] = << >>
        /\ \A i \in DOMAIN main : main[i].kind # "snapshot"
        /\ depth = 1

\* The inductive invariant.
IInv == TypeOK /\ ClientReady

-----------------------------------------------------------------------------
\* Data.

\* What was typed stays typed when objects or listeners are added.
LEMMA TypesGrow ==
    ASSUME NEW m \in Nat, NEW n \in Nat, m <= n,
           NEW j \in Nat, NEW k \in Nat, j <= k
    PROVE  /\ 1 .. m \subseteq 1 .. n
           /\ Callback(m) \subseteq Callback(n)
           /\ Task(m) \subseteq Task(n)
           /\ Block(m, j) \subseteq Block(n, k)
<1>1. 1 .. m \subseteq 1 .. n /\ 1 .. j \subseteq 1 .. k
  OBVIOUS
<1>2. Callback(m) \subseteq Callback(n)
  BY <1>1 DEF Callback
<1>3. Task(m) \subseteq Task(n)
  BY <1>2 DEF Task
<1>4. Block(m, j) \subseteq Block(n, k)
  BY <1>1, <1>2 DEF Block
<1> QED BY <1>1, <1>2, <1>3, <1>4

\* A sequence over a set is one over every larger set.
LEMMA SeqGrows ==
    ASSUME NEW S, NEW T, S \subseteq T
    PROVE  Seq(S) \subseteq Seq(T)
OBVIOUS

\* An element of a concatenation is at its place in one of the two.
LEMMA PlaceInConcat ==
    ASSUME NEW S, NEW s \in Seq(S), NEW T, NEW t \in Seq(T),
           NEW i \in DOMAIN (s \o t)
    PROVE  \/ i \in DOMAIN s /\ (s \o t)[i] = s[i]
           \/ i - Len(s) \in DOMAIN t /\ (s \o t)[i] = t[i - Len(s)]
<1>1. s \in Seq(S \cup T) /\ t \in Seq(S \cup T)
  BY SeqGrows
<1>2. /\ s \o t \in Seq(S \cup T)
      /\ Len(s \o t) = Len(s) + Len(t)
      /\ \A k \in 1 .. Len(s) + Len(t) :
            (s \o t)[k] = IF k <= Len(s) THEN s[k] ELSE t[k - Len(s)]
  BY <1>1, ConcatProperties
<1>3. /\ i \in 1 .. Len(s) + Len(t) /\ Len(s) \in Nat /\ Len(t) \in Nat
      /\ DOMAIN s = 1 .. Len(s) /\ DOMAIN t = 1 .. Len(t)
  BY <1>1, <1>2
<1>4. CASE i <= Len(s)
  BY <1>2, <1>3, <1>4
<1>5. CASE i > Len(s)
  BY <1>2, <1>3, <1>5
<1> QED BY <1>3, <1>4, <1>5

\* So it is an element of one of the two.
LEMMA ElementOfConcat ==
    ASSUME NEW S, NEW s \in Seq(S), NEW T, NEW t \in Seq(T),
           NEW i \in DOMAIN (s \o t)
    PROVE  \/ i \in DOMAIN s /\ (s \o t)[i] = s[i]
           \/ \E j \in DOMAIN t : (s \o t)[i] = t[j]
BY PlaceInConcat

\* Encode makes fields of a document, Decode an object's content.
LEMMA EncodeType == \A c \in Content : Encode(c) \in StoredContent
BY DEF Encode, Content, StoredContent, TypeDescriptions, CategoryDescriptions

\* What is read back from a document's fields is the content of an object.
LEMMA DecodeType == \A s \in StoredContent : Decode(s) \in Content
<1>1. \A name : setCategory(name) \in Category \cup {Nil}
  BY DEF setCategory, ReadableCategories
<1>2. \A name : setTransactionType(name) \in TransactionType \cup {Nil}
  BY DEF setTransactionType, ReadableTypes, TransactionType
<1> QED BY <1>1, <1>2 DEF Decode, Content, StoredContent

\* Applying a mutation to a document, or to none, gives a document or none.
LEMMA ApplyToType ==
    ASSUME NEW m \in Mutation, NEW doc \in DocState
    PROVE  ApplyTo(m, doc) \in DocState
<1>1. CASE ~Precondition(m, doc)
  BY <1>1 DEF ApplyTo, Precondition
<1>2. CASE m.op = "set"
  <2>1. m.document \in Document
    BY <1>2 DEF Mutation
  <2> QED BY <1>2, <2>1 DEF ApplyTo, DocState, Precondition
<1>3. CASE m.op = "delete"
  BY <1>3 DEF ApplyTo, DocState, Precondition
<1>4. CASE m.op = "patch" /\ doc # Absent
  <2>1. m.content \in StoredContent /\ doc \in Document
    BY <1>4 DEF Mutation, DocState
  <2>2. [doc EXCEPT !.content = m.content] \in Document
    BY <2>1 DEF Document
  <2> QED BY <1>4, <2>2 DEF ApplyTo, DocState, Precondition
<1> QED BY <1>1, <1>2, <1>3, <1>4 DEF Mutation, Precondition

\* The write m replaces the document d, or patches it.
Replaces(m, d) == m.key = d /\ m.op # "patch"
Patches(m, d) == m.key = d /\ m.op = "patch"

\* The last write of q that replaces d is at p, or there is none and p is 0;
\* with it, the document doc becomes b.
BasedOn(q, doc, d, p, b) ==
    /\ \A j \in DOMAIN q : j > p => ~Replaces(q[j], d)
    /\ \/ p = 0 /\ b = doc
       \/ p \in DOMAIN q /\ Replaces(q[p], d) /\ b = ApplyTo(q[p], doc)

\* The last one that patches d after p is at k, or there is none and k is 0.
PatchedBy(q, d, p, k) ==
    /\ \A j \in DOMAIN q : j > p /\ j > k => ~Patches(q[j], d)
    /\ k = 0 \/ (k \in DOMAIN q /\ k > p /\ Patches(q[k], d))

\* The writes q make v of the document doc.
Overlaid(q, doc, d, v) ==
    \E p, k \in Nat : \E b :
        BasedOn(q, doc, d, p, b) /\ PatchedBy(q, d, p, k)
        /\ v = IF k = 0 THEN b ELSE ApplyTo(q[k], b)

\* The two descriptions agree: the greatest position of a set is that of its last
\* element.
LEMMA WrittenIsOverlaid ==
    ASSUME NEW q \in Seq(Mutation), NEW doc, NEW d
    PROVE  Overlaid(q, doc, d, Written(q, doc, d))
<1> DEFINE replaced == {i \in DOMAIN q : q[i].key = d /\ q[i].op # "patch"}
           base     == IF replaced = {} THEN doc ELSE ApplyTo(q[Greatest(replaced)], doc)
           patched  == {i \in DOMAIN q : /\ q[i].key = d /\ q[i].op = "patch"
                                         /\ \A j \in replaced : j < i}
           p        == IF replaced = {} THEN 0 ELSE Greatest(replaced)
           k        == IF patched = {} THEN 0 ELSE Greatest(patched)
           v        == Written(q, doc, d)
<1>1. q \in Seq(Mutation) /\ DOMAIN q = 1 .. Len(q) /\ Len(q) \in Nat
  OBVIOUS
<1>2. ASSUME NEW K \in SUBSET DOMAIN q, K # {}
      PROVE  Greatest(K) \in K /\ (\A j \in K : j <= Greatest(K)) /\ Greatest(K) \in Nat \ {0}
  <2>1. IsFiniteSet(1 .. Len(q))
    BY <1>1, FS_Interval
  <2>2. IsFiniteSet(K) /\ K \in SUBSET Int
    BY <2>1, <1>1, FS_Subset
  <2>3. Greatest(K) \in K /\ \A j \in K : j <= Greatest(K)
    BY <1>2, <2>2, GreatestProperties
  <2> QED BY <2>3, <1>1
<1>3. v = IF patched = {} THEN base ELSE ApplyTo(q[Greatest(patched)], base)
  BY DEF Written
<1>4. replaced \in SUBSET DOMAIN q /\ patched \in SUBSET DOMAIN q
  OBVIOUS
<1>5. /\ p \in Nat /\ \A j \in replaced : j <= p
      /\ (p = 0 /\ replaced = {}) \/ (p \in replaced /\ p \in DOMAIN q)
  <2>1. CASE replaced = {}
    <3>1. p = 0
      BY <2>1
    <3> HIDE DEF replaced, p
    <3> QED BY <2>1, <3>1
  <2>2. CASE replaced # {}
    <3>1. p = Greatest(replaced)
      BY <2>2
    <3> HIDE DEF replaced, p
    <3> QED BY <1>2, <1>4, <2>2, <3>1
  <2> QED BY <2>1, <2>2
<1>6. /\ k \in Nat /\ \A j \in patched : j <= k
      /\ (k = 0 /\ patched = {}) \/ (k \in patched /\ k # 0 /\ k \in DOMAIN q)
  <2>1. CASE patched = {}
    <3>1. k = 0
      BY <2>1
    <3> HIDE DEF patched, k
    <3> QED BY <2>1, <3>1
  <2>2. CASE patched # {}
    <3>1. k = Greatest(patched)
      BY <2>2
    <3> HIDE DEF patched, k
    <3> QED BY <1>2, <1>4, <2>2, <3>1
  <2> QED BY <2>1, <2>2
<1>a. \A j : j \in replaced <=> j \in DOMAIN q /\ q[j].key = d /\ q[j].op # "patch"
  OBVIOUS
<1>b. \A j : j \in patched <=> /\ j \in DOMAIN q /\ q[j].key = d /\ q[j].op = "patch"
                              /\ \A i \in replaced : i < j
  OBVIOUS
<1>c. base = IF replaced = {} THEN doc ELSE ApplyTo(q[Greatest(replaced)], doc)
  OBVIOUS
<1>d. (replaced # {} => p = Greatest(replaced)) /\ (patched # {} => k = Greatest(patched))
  OBVIOUS
<1> HIDE DEF replaced, patched, base, p, k
<1>7. BasedOn(q, doc, d, p, base)
  <2>1. \A j \in DOMAIN q : j > p => ~Replaces(q[j], d)
    <3> SUFFICES ASSUME NEW j \in DOMAIN q, j > p, Replaces(q[j], d) PROVE FALSE
      OBVIOUS
    <3>1. j \in replaced
      BY <1>a DEF Replaces
    <3> QED BY <3>1, <1>1, <1>5
  <2>2. CASE replaced = {}
    BY <2>1, <2>2, <1>5, <1>c DEF BasedOn
  <2>3. CASE replaced # {}
    <3>1. p = Greatest(replaced) /\ p \in replaced
      BY <2>3, <1>5, <1>d
    <3> QED BY <2>1, <2>3, <3>1, <1>a, <1>c, <1>5 DEF BasedOn, Replaces
  <2> QED BY <2>2, <2>3
<1>8. PatchedBy(q, d, p, k)
  <2>1. ASSUME NEW j \in DOMAIN q, j > p, Patches(q[j], d)
        PROVE  j \in patched
    <3>1. \A i \in replaced : i < j
      BY <2>1, <1>1, <1>4, <1>5
    <3> QED BY <2>1, <3>1, <1>b DEF Patches
  <2>2. \A j \in DOMAIN q : j > p /\ j > k => ~Patches(q[j], d)
    <3> SUFFICES ASSUME NEW j \in DOMAIN q, j > p, j > k, Patches(q[j], d) PROVE FALSE
      OBVIOUS
    <3>1. j \in patched
      BY <2>1
    <3>2. j <= k
      BY <3>1, <1>6
    <3> QED BY <3>2, <1>1, <1>6
  <2>3. ASSUME k # 0 PROVE k \in DOMAIN q /\ k > p /\ Patches(q[k], d)
    <3>1. k \in patched
      BY <2>3, <1>6
    <3>2. k > p
      BY <3>1, <1>1, <1>5, <1>6, <1>b
    <3> QED BY <3>1, <3>2, <1>b DEF Patches
  <2> QED BY <2>2, <2>3 DEF PatchedBy
<1>9. v = IF k = 0 THEN base ELSE ApplyTo(q[k], base)
  <2>1. CASE patched = {}
    BY <2>1, <1>3, <1>6
  <2>2. CASE patched # {}
    <3>1. k = Greatest(patched) /\ k # 0
      BY <2>2, <1>6, <1>d
    <3> QED BY <2>2, <3>1, <1>3
  <2> QED BY <2>1, <2>2
<1> HIDE DEF v
<1>10. Overlaid(q, doc, d, v)
  BY <1>5, <1>6, <1>7, <1>8, <1>9 DEF Overlaid
<1> QED BY <1>10 DEF v

\* Writes leave a document or none.
LEMMA WrittenType ==
    ASSUME NEW q \in Seq(Mutation), NEW doc \in DocState, NEW d
    PROVE  Written(q, doc, d) \in DocState
<1>1. \A i \in DOMAIN q : q[i] \in Mutation
  OBVIOUS
<1>a. PICK p, k \in Nat : \E b :
         BasedOn(q, doc, d, p, b) /\ PatchedBy(q, d, p, k)
         /\ Written(q, doc, d) = IF k = 0 THEN b ELSE ApplyTo(q[k], b)
  BY WrittenIsOverlaid DEF Overlaid
<1>2. PICK b :
         BasedOn(q, doc, d, p, b) /\ PatchedBy(q, d, p, k)
         /\ Written(q, doc, d) = IF k = 0 THEN b ELSE ApplyTo(q[k], b)
  BY <1>a
<1>3. b \in DocState
  BY <1>1, <1>2, ApplyToType DEF BasedOn
<1>4. k # 0 => q[k] \in Mutation
  BY <1>1, <1>2 DEF PatchedBy
<1> QED BY <1>2, <1>3, <1>4, ApplyToType

\* A device sees a document or none under every key.
LEMMA LocalDocumentType ==
    ASSUME StoreTypeOK, NEW c \in [DocIds -> DocState],
           NEW u \in Users \cup {Nobody}, NEW d \in DocIds
    PROVE  LocalDocument(c, u, d) \in DocState
BY WrittenType DEF LocalDocument, StoreTypeOK

\* Only a creation makes a document where there was none, and only a deletion
\* takes one away.
LEMMA WrittenPresence ==
    ASSUME NEW q \in Seq(Mutation), NEW doc \in DocState, NEW d
    PROVE  /\ Written(q, doc, d) # Absent =>
                 doc # Absent \/ \E i \in DOMAIN q : q[i].op = "set" /\ q[i].key = d
           /\ /\ \A i \in DOMAIN q : q[i].key = d => q[i].op # "delete"
              /\ doc # Absent \/ \E i \in DOMAIN q : q[i].op = "set" /\ q[i].key = d
              => Written(q, doc, d) # Absent
<1>1. \A i \in DOMAIN q : q[i] \in Mutation /\ i \in Nat \ {0}
  OBVIOUS
<1>a. PICK p, k \in Nat : \E b :
         BasedOn(q, doc, d, p, b) /\ PatchedBy(q, d, p, k)
         /\ Written(q, doc, d) = IF k = 0 THEN b ELSE ApplyTo(q[k], b)
  BY WrittenIsOverlaid DEF Overlaid
<1>2. PICK b :
         BasedOn(q, doc, d, p, b) /\ PatchedBy(q, d, p, k)
         /\ Written(q, doc, d) = IF k = 0 THEN b ELSE ApplyTo(q[k], b)
  BY <1>a
<1>3. b \in DocState
  BY <1>1, <1>2, ApplyToType DEF BasedOn
<1>4. Written(q, doc, d) # Absent <=> b # Absent
  <2>1. CASE k = 0
    BY <1>2, <2>1
  <2>2. CASE k # 0
    <3>1. q[k] \in Mutation /\ q[k].op = "patch"
      BY <1>1, <1>2, <2>2 DEF PatchedBy, Patches
    <3>2. Written(q, doc, d) = IF b = Absent THEN Absent ELSE [b EXCEPT !.content = q[k].content]
      BY <1>2, <2>2, <3>1 DEF ApplyTo, Precondition
    <3>3. b # Absent => [b EXCEPT !.content = q[k].content] \in Document
      BY <1>3, <3>1 DEF DocState, Document, Mutation
    <3> QED BY <3>2, <3>3, MarkerAssumption
  <2> QED BY <2>1, <2>2
<1>5. CASE p = 0 /\ b = doc
  <2>1. \A i \in DOMAIN q : q[i].key = d => q[i].op = "patch"
    BY <1>1, <1>2, <1>5 DEF BasedOn, Replaces
  <2> QED BY <1>4, <1>5, <2>1
<1>6. CASE p \in DOMAIN q /\ Replaces(q[p], d) /\ b = ApplyTo(q[p], doc)
  <2>1. q[p] \in Mutation /\ q[p].key = d /\ q[p].op \in {"set", "delete"}
    BY <1>1, <1>6 DEF Replaces, Mutation
  <2>2. q[p].op = "set" => b = q[p].document /\ q[p].document \in Document
    BY <1>6, <2>1 DEF ApplyTo, Precondition, Mutation
  <2>3. q[p].op = "delete" => b = Absent
    BY <1>6, <2>1 DEF ApplyTo, Precondition
  <2> QED BY <1>4, <1>6, <2>1, <2>2, <2>3, MarkerAssumption
<1> QED BY <1>2, <1>5, <1>6 DEF BasedOn

\* No writes, and a single one.
LEMMA WrittenFew ==
    ASSUME NEW doc, NEW d
    PROVE  /\ Written(<< >>, doc, d) = doc
           /\ \A m \in Mutation : Written(<<m>>, doc, d) =
                                     IF m.key = d THEN ApplyTo(m, doc) ELSE doc
<1>1. Written(<< >>, doc, d) = doc
  <2>1. << >> \in Seq(Mutation) /\ DOMAIN << >> = {}
    OBVIOUS
  <2> QED BY <2>1, WrittenIsOverlaid DEF Overlaid, BasedOn, PatchedBy
<1>2. ASSUME NEW m \in Mutation
      PROVE  Written(<<m>>, doc, d) = IF m.key = d THEN ApplyTo(m, doc) ELSE doc
  <2> DEFINE q == <<m>>
  <2>1. q \in Seq(Mutation) /\ DOMAIN q = {1} /\ q[1] = m
    OBVIOUS
  <2> HIDE DEF q
  <2>a. PICK p, k \in Nat : \E b :
           BasedOn(q, doc, d, p, b) /\ PatchedBy(q, d, p, k)
           /\ Written(q, doc, d) = IF k = 0 THEN b ELSE ApplyTo(q[k], b)
    BY <2>1, WrittenIsOverlaid DEF Overlaid
  <2>2. PICK b :
           BasedOn(q, doc, d, p, b) /\ PatchedBy(q, d, p, k)
           /\ Written(q, doc, d) = IF k = 0 THEN b ELSE ApplyTo(q[k], b)
    BY <2>a
  <2>3. Written(q, doc, d) = IF m.key = d THEN ApplyTo(m, doc) ELSE doc
    <3>1. p \in {0, 1} /\ k \in {0, 1}
      BY <2>1, <2>2 DEF BasedOn, PatchedBy
    <3>2. CASE m.key # d
      BY <2>1, <2>2, <3>1, <3>2 DEF BasedOn, PatchedBy, Replaces, Patches
    <3>3. CASE m.key = d /\ m.op = "patch"
      BY <2>1, <2>2, <3>1, <3>3 DEF BasedOn, PatchedBy, Replaces, Patches
    <3>4. CASE m.key = d /\ m.op # "patch"
      BY <2>1, <2>2, <3>1, <3>4 DEF BasedOn, PatchedBy, Replaces, Patches
    <3> QED BY <3>2, <3>3, <3>4
  <2> QED BY <2>3 DEF q
<1> QED BY <1>1, <1>2

\* So has the result of a query, once there is a user.
LEMMA ResultType ==
    ASSUME StoreTypeOK, fsUser # NoClient,
           NEW c \in [DocIds -> DocState], NEW q \in Queries
    PROVE  Result(c, q) \in [DocIds -> DocState]
<1>1. fsUser \in Users \cup {Nobody}
  BY DEF StoreTypeOK
<1>2. \A d \in DocIds : LocalDocument(c, fsUser, d) \in DocState
  BY <1>1, LocalDocumentType
<1> QED BY <1>2 DEF Result, DocState

\* The keys an answer holds documents under, in order.
LEMMA FoundProperties ==
    ASSUME NEW docs \in [DocIds -> DocState]
    PROVE  /\ Cardinality(Found(docs)) \in Nat
           /\ \A i \in 1 .. Cardinality(Found(docs)) :
                 /\ Ascending(Found(docs))[i] \in DocIds
                 /\ docs[Ascending(Found(docs))[i]] \in Document
<1>1. Found(docs) \in SUBSET DocIds
  BY DEF Found
<1>2. IsFiniteSet(Found(docs))
  BY <1>1, DocIdsAssumption, FS_Subset
<1>3. Found(docs) \in SUBSET Int
  <2>1. \A d \in DocIds : d \in Nat
    BY DocIdsAssumption
  <2>2. \A d \in Found(docs) : d \in Int
    BY <1>1, <2>1
  <2> QED BY <2>2
<1>4. \A k \in Found(docs) : docs[k] \in Document
  BY DEF Found, DocState
<1>5. /\ Cardinality(Found(docs)) \in Nat
      /\ Ascending(Found(docs)) \in [1 .. Cardinality(Found(docs)) -> Found(docs)]
  BY <1>2, <1>3, AscendingProperties
<1>6. ASSUME NEW i \in 1 .. Cardinality(Found(docs))
      PROVE  Ascending(Found(docs))[i] \in Found(docs)
  BY <1>5
<1>7. Found(docs) \subseteq DocIds
  BY <1>1
<1> QED BY <1>4, <1>5, <1>6, <1>7

-----------------------------------------------------------------------------
\* The steps of the SDK and the server.

\* A step of the SDK changes nothing of the program but the main queue.
LEMMA FrameKeeps ==
    ASSUME ManagerTypeOK, SessionTypeOK, Frame
    PROVE  /\ ManagerTypeOK' /\ SessionTypeOK'
           /\ heap' = heap /\ observers' = observers /\ depth' = depth
BY DEF ManagerTypeOK, SessionTypeOK, Frame, managerVars, sessionVars

\* The next task of the worker queue is a task, and so are the others.
LEMMA NextTask ==
    ASSUME StoreTypeOK, ManagerTypeOK, worker # << >>
    PROVE  /\ Head(worker) \in Task(Len(heap))
           /\ Tail(worker) \in Seq(Task(Len(heap)))
           /\ Len(heap) \in Nat
BY DEF StoreTypeOK, ManagerTypeOK

\* A change of user gives the worker a user it has a mutation queue for.
LEMMA UserDidChangeStep == IInv /\ Frame /\ UserDidChange => IInv'
<1> SUFFICES ASSUME IInv, Frame, UserDidChange PROVE IInv'
  OBVIOUS
<1>1. /\ ManagerTypeOK' /\ SessionTypeOK'
      /\ heap' = heap /\ observers' = observers
  BY FrameKeeps DEF IInv, TypeOK
<1>2. Head(worker).user \in Users \cup {Nobody} /\ worker' \in Seq(Task(Len(heap)))
  BY NextTask DEF IInv, TypeOK, UserDidChange, Task
<1>3. StoreTypeOK'
  BY <1>1, <1>2 DEF IInv, TypeOK, StoreTypeOK, UserDidChange
<1>4. fsUser' # NoClient
  BY <1>2, UsersAssumption DEF UserDidChange
<1> QED BY <1>1, <1>3, <1>4 DEF IInv, TypeOK, ClientReady

\* A filed write is a mutation at the end of a queue of mutations.
LEMMA WriteMutationsStep == IInv /\ Frame /\ WriteMutations => IInv'
<1> SUFFICES ASSUME IInv, Frame, WriteMutations PROVE IInv'
  OBVIOUS
<1>1. /\ ManagerTypeOK' /\ SessionTypeOK'
      /\ heap' = heap /\ observers' = observers
  BY FrameKeeps DEF IInv, TypeOK
<1>2. /\ Head(worker).mutation \in Mutation
      /\ worker' \in Seq(Task(Len(heap)))
  BY NextTask DEF IInv, TypeOK, WriteMutations, Task
<1>3. fsUser \in Users \cup {Nobody}
  BY DEF IInv, ClientReady, WriteMutations, TypeOK, StoreTypeOK
<1>4. mutations' \in [Users \cup {Nobody} -> Seq(Mutation)]
  BY <1>2, <1>3 DEF IInv, TypeOK, StoreTypeOK, WriteMutations
<1>5. Head(worker).mutation.key \in DocIds
  BY <1>2 DEF Mutation
<1>6. history' \in [filed : SUBSET DocIds, deleted : SUBSET DocIds,
                    refused : SUBSET DocIds, gone : SUBSET DocIds]
  BY <1>2, <1>5 DEF IInv, TypeOK, StoreTypeOK, WriteMutations, Recorded, Mutation
<1>7. StoreTypeOK'
  BY <1>1, <1>2, <1>4, <1>6 DEF IInv, TypeOK, StoreTypeOK, WriteMutations
<1>8. fsUser' # NoClient
  BY <1>3, UsersAssumption DEF WriteMutations
<1> QED BY <1>1, <1>7, <1>8 DEF IInv, TypeOK, ClientReady

\* A registered callback is one the program has made.
LEMMA AddListenerStep == IInv /\ Frame /\ AddListener => IInv'
<1> SUFFICES ASSUME IInv, Frame, AddListener PROVE IInv'
  OBVIOUS
<1>1. /\ ManagerTypeOK' /\ SessionTypeOK'
      /\ heap' = heap /\ observers' = observers
  BY FrameKeeps DEF IInv, TypeOK
<1>2. /\ Head(worker).query \in Queries
      /\ Head(worker).callback \in Callback(Len(heap))
      /\ worker' \in Seq(Task(Len(heap)))
  BY NextTask DEF IInv, TypeOK, AddListener, Task
<1>3. listeners' \in [Queries -> Seq(Callback(Len(heap)))]
  BY <1>2 DEF IInv, TypeOK, StoreTypeOK, AddListener
<1>4. StoreTypeOK'
  BY <1>1, <1>2, <1>3 DEF IInv, TypeOK, StoreTypeOK, AddListener
<1>5. fsUser' # NoClient
  BY DEF IInv, ClientReady, AddListener
<1> QED BY <1>1, <1>4, <1>5 DEF IInv, TypeOK, ClientReady

\* Listeners are raised with typed answers, and only once there is a client.
LEMMA RaiseFromServerStep ==
    ASSUME NEW q \in Queries
    PROVE  IInv /\ Frame /\ RaiseFromServer(q) => IInv'
<1> SUFFICES ASSUME IInv, Frame, RaiseFromServer(q) PROVE IInv'
  OBVIOUS
<1> DEFINE caughtUp == [d \in DocIds |->
                          IF Matches(q, server[d]) \/ Matches(q, cache[d])
                          THEN server[d] ELSE cache[d]]
           docs == Result(caughtUp, q)
           n == Len(listeners[q])
<1>1. /\ ManagerTypeOK' /\ SessionTypeOK'
      /\ heap' = heap /\ observers' = observers
  BY FrameKeeps DEF IInv, TypeOK
<1>2. fsUser # NoClient
  BY DEF IInv, ClientReady, RaiseFromServer, Raise
<1>3. caughtUp \in [DocIds -> DocState]
  BY DEF IInv, TypeOK, StoreTypeOK
<1>4. docs \in [DocIds -> DocState]
  <2> HIDE DEF caughtUp
  <2> QED BY <1>2, <1>3, ResultType DEF IInv, TypeOK
<1>5. /\ cache' = caughtUp
      /\ main' = main \o [i \in 1 .. n |-> SnapshotBlock(listeners[q][i], docs)]
      /\ listeners' = [listeners EXCEPT ![q] = << >>]
      /\ UNCHANGED <<server, mutations, fsUser, worker, online, budget, history>>
  BY DEF RaiseFromServer, Raise
<1> HIDE DEF caughtUp, docs
<1>6. \A c \in Callback(Len(heap)) : SnapshotBlock(c, docs) \in Block(Len(heap), Len(observers))
  BY <1>4 DEF SnapshotBlock, Block
<1>7. listeners[q] \in Seq(Callback(Len(heap)))
  BY DEF IInv, TypeOK, StoreTypeOK
<1>8. main' \in Seq(Block(Len(heap), Len(observers)))
  BY <1>5, <1>6, <1>7 DEF IInv, TypeOK, StoreTypeOK
<1>9. StoreTypeOK'
  BY <1>1, <1>3, <1>5, <1>8 DEF IInv, TypeOK, StoreTypeOK
<1> QED BY <1>1, <1>2, <1>5, <1>9 DEF IInv, TypeOK, ClientReady

\* Offline too, and the cache stays as it is.
LEMMA RaiseFromCacheStep ==
    ASSUME NEW q \in Queries
    PROVE  IInv /\ Frame /\ RaiseFromCache(q) => IInv'
<1> SUFFICES ASSUME IInv, Frame, RaiseFromCache(q) PROVE IInv'
  OBVIOUS
<1> DEFINE docs == Result(cache, q)
           n == Len(listeners[q])
<1>1. /\ ManagerTypeOK' /\ SessionTypeOK'
      /\ heap' = heap /\ observers' = observers
  BY FrameKeeps DEF IInv, TypeOK
<1>2. fsUser # NoClient
  BY DEF IInv, ClientReady, RaiseFromCache, Raise
<1>3. docs \in [DocIds -> DocState]
  <2>1. cache \in [DocIds -> DocState]
    BY DEF IInv, TypeOK, StoreTypeOK
  <2> QED BY <1>2, <2>1, ResultType DEF IInv, TypeOK
<1>4. /\ main' = main \o [i \in 1 .. n |-> SnapshotBlock(listeners[q][i], docs)]
      /\ listeners' = [listeners EXCEPT ![q] = << >>]
      /\ UNCHANGED <<server, cache, mutations, fsUser, worker, online, budget,
                     history>>
  BY DEF RaiseFromCache, Raise
<1> HIDE DEF docs
<1>5. \A c \in Callback(Len(heap)) : SnapshotBlock(c, docs) \in Block(Len(heap), Len(observers))
  BY <1>3 DEF SnapshotBlock, Block
<1>6. listeners[q] \in Seq(Callback(Len(heap)))
  BY DEF IInv, TypeOK, StoreTypeOK
<1>7. main' \in Seq(Block(Len(heap), Len(observers)))
  BY <1>4, <1>5, <1>6 DEF IInv, TypeOK, StoreTypeOK
<1>8. StoreTypeOK'
  BY <1>1, <1>4, <1>7 DEF IInv, TypeOK, StoreTypeOK
<1> QED BY <1>1, <1>2, <1>4, <1>8 DEF IInv, TypeOK, ClientReady

\* Spending leaves a budget.
LEMMA SpendType ==
    ASSUME NEW e \in Event, budget \in [Event -> Nat], Spend(e)
    PROVE  budget' \in [Event -> Nat]
<1>1. budget[e] - 1 \in Nat
  BY DEF Spend
<1> QED BY <1>1 DEF Spend

\* A refused query answers with errors that carry typed callbacks.
LEMMA RejectListenStep ==
    ASSUME NEW q \in Queries
    PROVE  IInv /\ Frame /\ RejectListen(q) => IInv'
<1> SUFFICES ASSUME IInv, Frame, RejectListen(q) PROVE IInv'
  OBVIOUS
<1> DEFINE n == Len(listeners[q])
<1>1. /\ ManagerTypeOK' /\ SessionTypeOK'
      /\ heap' = heap /\ observers' = observers
  BY FrameKeeps DEF IInv, TypeOK
<1>2. fsUser # NoClient
  BY DEF IInv, ClientReady, RejectListen, Raise
<1>3. budget' \in [Event -> Nat]
  BY SpendType DEF IInv, TypeOK, StoreTypeOK, RejectListen, Event
<1>4. /\ main' = main \o [i \in 1 .. n |-> ErrorBlock(listeners[q][i])]
      /\ listeners' = [listeners EXCEPT ![q] = << >>]
      /\ UNCHANGED <<server, cache, mutations, fsUser, worker, online, history>>
  BY DEF RejectListen, Raise
<1>5. \A c \in Callback(Len(heap)) : ErrorBlock(c) \in Block(Len(heap), Len(observers))
  BY DEF ErrorBlock, Block
<1>6. listeners[q] \in Seq(Callback(Len(heap)))
  BY DEF IInv, TypeOK, StoreTypeOK
<1>7. main' \in Seq(Block(Len(heap), Len(observers)))
  BY <1>4, <1>5, <1>6 DEF IInv, TypeOK, StoreTypeOK
<1>8. StoreTypeOK'
  BY <1>1, <1>3, <1>4, <1>7 DEF IInv, TypeOK, StoreTypeOK
<1> QED BY <1>1, <1>2, <1>4, <1>8 DEF IInv, TypeOK, ClientReady

\* The write that is sent next, and its effects on the server and the queue.
LEMMA SendingTypes ==
    ASSUME StoreTypeOK, Sending
    PROVE  /\ fsUser \in Users \cup {Nobody}
           /\ NextWrite \in Mutation
           /\ NextWrite.key \in DocIds
           /\ Tail(mutations[fsUser]) \in Seq(Mutation)
<1>1. fsUser \in Users \cup {Nobody}
  BY DEF StoreTypeOK, Sending
<1>2. mutations[fsUser] \in Seq(Mutation) /\ mutations[fsUser] # << >>
  BY <1>1 DEF StoreTypeOK, Sending
<1>3. NextWrite \in Mutation /\ Tail(mutations[fsUser]) \in Seq(Mutation)
  BY <1>2 DEF NextWrite
<1>4. NextWrite.key \in DocIds
  BY <1>3 DEF Mutation
<1> QED BY <1>1, <1>3, <1>4

\* The queues without the next write are queues of mutations.
LEMMA DropNextWriteType ==
    ASSUME StoreTypeOK, Sending, DropNextWrite
    PROVE  mutations' \in [Users \cup {Nobody} -> Seq(Mutation)]
BY SendingTypes DEF StoreTypeOK, DropNextWrite

\* The first n writes of the current user.
Sent(n) == SubSeq(mutations[fsUser], 1, n)

\* They are writes of the queue, at the same places.
LEMMA SentTypes ==
    ASSUME StoreTypeOK, Sending, NEW n \in Nat, n <= Len(mutations[fsUser])
    PROVE  /\ Sent(n) \in Seq(Mutation)
           /\ DOMAIN Sent(n) = 1 .. n
           /\ \A i \in 1 .. n : /\ i \in DOMAIN mutations[fsUser]
                                /\ Sent(n)[i] = mutations[fsUser][i]
                                /\ Sent(n)[i] \in Mutation
                                /\ Sent(n)[i].key \in DocIds
<1>1. mutations[fsUser] \in Seq(Mutation)
  BY SendingTypes DEF StoreTypeOK
<1> DEFINE q == mutations[fsUser]
<1>2. q \in Seq(Mutation) /\ n <= Len(q)
  BY <1>1
<1>3. SubSeq(q, 1, n) = Sent(n)
  BY DEF Sent
<1> HIDE DEF q
<1>4. /\ SubSeq(q, 1, n) \in Seq(Mutation)
      /\ DOMAIN SubSeq(q, 1, n) = 1 .. n
      /\ \A i \in 1 .. n : i \in DOMAIN q /\ SubSeq(q, 1, n)[i] = q[i]
  BY <1>2
<1>5. \A i \in 1 .. n : q[i] \in Mutation
  BY <1>2, <1>4
<1>6. \A m \in Mutation : m.key \in DocIds
  BY DEF Mutation
<1>7. \A i \in 1 .. n : q[i].key \in DocIds
  BY <1>5, <1>6
<1> QED BY <1>3, <1>4, <1>5, <1>7 DEF q

\* A commit of several writes makes the server's documents what those writes
\* leave of them, and records as gone documents that one of them deleted.
LEMMA CommitEffect ==
    ASSUME StoreTypeOK, Sending, NEW n \in Nat \ {0}, CommitWrites(n)
    PROVE  /\ n <= Len(mutations[fsUser])
           /\ server' = [d \in DocIds |-> Written(Sent(n), server[d], d)]
           /\ \E R \in SUBSET DocIds :
                 /\ history' = [history EXCEPT !.gone = @ \cup R]
                 /\ \A d \in R : \E i \in 1 .. n :
                       /\ mutations[fsUser][i].key = d
                       /\ mutations[fsUser][i].op = "delete"
                       /\ Written(SubSeq(mutations[fsUser], 1, i - 1), server[d], d) # Absent
                       /\ Written(SubSeq(mutations[fsUser], 1, i - 1), server[d], d).user_id
                          = fsUser
<1> DEFINE q == mutations[fsUser]
           Before(i) == Written(SubSeq(q, 1, i - 1), server[q[i].key], q[i].key)
           removed   == {i \in 1 .. n : /\ q[i].op = "delete"
                                        /\ Before(i) # Absent
                                        /\ Before(i).user_id = fsUser}
           R == {q[i].key : i \in removed}
<1>1. /\ n <= Len(q)
      /\ server' = [d \in DocIds |-> Written(SubSeq(q, 1, n), server[d], d)]
      /\ history' = [history EXCEPT !.gone = @ \cup R]
  BY DEF CommitWrites
<1>2. R \in SUBSET DocIds
  <2>1. \A i \in removed : i \in 1 .. n
    OBVIOUS
  <2>2. \A i \in 1 .. n : q[i].key \in DocIds
    BY <1>1, SentTypes
  <2> HIDE DEF removed, q
  <2> QED BY <2>1, <2>2
<1>3. ASSUME NEW d \in R
      PROVE  \E i \in 1 .. n :
                /\ q[i].key = d
                /\ q[i].op = "delete"
                /\ Written(SubSeq(q, 1, i - 1), server[d], d) # Absent
                /\ Written(SubSeq(q, 1, i - 1), server[d], d).user_id = fsUser
  OBVIOUS
<1> HIDE DEF R
<1> QED BY <1>1, <1>2, <1>3 DEF Sent

\* What the server commits leaves documents or none under every key.
LEMMA CommitWritesTypes ==
    ASSUME StoreTypeOK, Sending, NEW n \in Nat \ {0}, CommitWrites(n)
    PROVE  /\ server' \in [DocIds -> DocState]
           /\ history' \in [filed : SUBSET DocIds, deleted : SUBSET DocIds,
                            refused : SUBSET DocIds, gone : SUBSET DocIds]
<1>1. n <= Len(mutations[fsUser])
  BY CommitEffect
<1>2. Sent(n) \in Seq(Mutation)
  BY <1>1, SentTypes
<1>3. \A d \in DocIds : Written(Sent(n), server[d], d) \in DocState
  BY <1>2, WrittenType DEF StoreTypeOK
<1>4. server' \in [DocIds -> DocState]
  BY <1>3, CommitEffect
<1>5. PICK R \in SUBSET DocIds : history' = [history EXCEPT !.gone = @ \cup R]
  BY CommitEffect
<1>6. history' \in [filed : SUBSET DocIds, deleted : SUBSET DocIds,
                    refused : SUBSET DocIds, gone : SUBSET DocIds]
  BY <1>5 DEF StoreTypeOK
<1> QED BY <1>4, <1>6

\* The commit of the next write alone.
CommitNextWrite ==
    /\ Precondition(NextWrite, server[NextWrite.key])
    /\ server' = [server EXCEPT ![NextWrite.key] = ApplyTo(NextWrite, @)]

\* It is the commit of one write.
LEMMA OneCommit ==
    ASSUME StoreTypeOK, Sending, CommitWrites(1)
    PROVE  CommitNextWrite
<1>1. 1 \in Nat \ {0}
  OBVIOUS
<1> DEFINE q == mutations[fsUser]
<1>2. q \in Seq(Mutation) /\ q # << >> /\ NextWrite \in Mutation /\ NextWrite.key \in DocIds
  BY SendingTypes DEF StoreTypeOK, Sending
<1>3. NextWrite = q[1]
  BY <1>2 DEF NextWrite
<1> HIDE DEF q
<1>4. SubSeq(q, 1, 0) = << >> /\ SubSeq(q, 1, 1) = <<q[1]>>
  <2>1. Len(q) \in Nat /\ Len(q) >= 1
    BY <1>2
  <2>2. /\ SubSeq(q, 1, 0) \in Seq(Mutation) /\ Len(SubSeq(q, 1, 0)) = 0
        /\ SubSeq(q, 1, 1) \in Seq(Mutation) /\ Len(SubSeq(q, 1, 1)) = 1
        /\ SubSeq(q, 1, 1)[1] = q[1]
    BY <1>2, <2>1
  <2>3. SubSeq(q, 1, 0) = << >>
    BY <2>2, EmptySeq
  <2>4. SubSeq(q, 1, 1) = <<q[1]>>
    <3>1. q[1] \in Mutation
      BY <1>2, <2>1
    <3>2. /\ <<q[1]>> \in Seq(Mutation) /\ Len(<<q[1]>>) = 1
          /\ <<q[1]>>[1] = q[1]
      BY <3>1
    <3>3. \A i \in 1 .. 1 : SubSeq(q, 1, 1)[i] = <<q[1]>>[i]
      BY <2>2, <3>2
    <3> QED BY <2>2, <3>2, <3>3, SeqEqual
  <2> QED BY <2>3, <2>4
<1>5. Precondition(NextWrite, server[NextWrite.key])
  <2>1. Precondition(q[1], Written(SubSeq(q, 1, 1 - 1), server[q[1].key], q[1].key))
    BY DEF CommitWrites, q
  <2>2. 1 - 1 = 0
    OBVIOUS
  <2> QED BY <1>3, <1>4, <2>1, <2>2, WrittenFew
<1>6. server' = [d \in DocIds |-> Written(<<NextWrite>>, server[d], d)]
  <2>1. server' = [d \in DocIds |-> Written(Sent(1), server[d], d)]
    BY <1>1, CommitEffect
  <2>2. Sent(1) = <<NextWrite>>
    BY <1>3, <1>4 DEF Sent, q
  <2> QED BY <2>1, <2>2
<1>7. \A d \in DocIds : Written(<<NextWrite>>, server[d], d)
                        = IF d = NextWrite.key THEN ApplyTo(NextWrite, server[d]) ELSE server[d]
  BY <1>2, WrittenFew
<1>8. server' = [server EXCEPT ![NextWrite.key] = ApplyTo(NextWrite, @)]
  <2>1. server \in [DocIds -> DocState]
    BY DEF StoreTypeOK
  <2>2. server' = [d \in DocIds |-> IF d = NextWrite.key
                                    THEN ApplyTo(NextWrite, server[d]) ELSE server[d]]
    BY <1>6, <1>7
  <2> QED BY <2>1, <2>2
<1> QED BY <1>5, <1>8 DEF CommitNextWrite

\* A stream that breaks leaves a commit of some writes, one at least.
LEMMA SomeCommitted ==
    ASSUME CommitWithoutResponse
    PROVE  \E n \in Nat \ {0} : CommitWrites(n)
<1>1. 1 .. MaxPendingWrites \subseteq Nat \ {0}
  BY PipelineAssumption
<1>2. \E n \in 1 .. MaxPendingWrites : CommitWrites(n)
  BY DEF CommitWithoutResponse
<1> QED BY <1>1, <1>2

\* An acknowledged write leaves documents in the cache too.
LEMMA ApplySuccessfulWriteStep == IInv /\ Frame /\ ApplySuccessfulWrite => IInv'
<1> SUFFICES ASSUME IInv, Frame, ApplySuccessfulWrite PROVE IInv'
  OBVIOUS
<1>1. /\ ManagerTypeOK' /\ SessionTypeOK'
      /\ heap' = heap /\ observers' = observers /\ depth' = depth
  BY FrameKeeps DEF IInv, TypeOK
<1>2. StoreTypeOK /\ Sending /\ CommitWrites(1) /\ 1 \in Nat \ {0} /\ DropNextWrite
  BY DEF IInv, TypeOK, ApplySuccessfulWrite
<1>3. cache' \in [DocIds -> DocState]
  <2>1. NextWrite \in Mutation /\ NextWrite.key \in DocIds
    BY <1>2, SendingTypes
  <2>2. ApplyTo(NextWrite, cache[NextWrite.key]) \in DocState
    BY <1>2, <2>1, ApplyToType DEF StoreTypeOK
  <2>3. cache' = [cache EXCEPT ![NextWrite.key] =
                    ApplyTo(NextWrite, cache[NextWrite.key])]
    BY DEF ApplySuccessfulWrite
  <2> QED BY <1>2, <2>1, <2>2, <2>3 DEF StoreTypeOK
<1>4. StoreTypeOK'
  BY <1>1, <1>2, <1>3, CommitWritesTypes, DropNextWriteType
     DEF StoreTypeOK, ApplySuccessfulWrite
<1>5. ClientReady'
  BY <1>1 DEF IInv, ClientReady, ApplySuccessfulWrite
<1> QED BY <1>1, <1>4, <1>5 DEF IInv, TypeOK

\* A lost response leaves the SDK as it was.
LEMMA CommitWithoutResponseStep == IInv /\ Frame /\ CommitWithoutResponse => IInv'
<1> SUFFICES ASSUME IInv, Frame, CommitWithoutResponse PROVE IInv'
  OBVIOUS
<1>1. /\ ManagerTypeOK' /\ SessionTypeOK'
      /\ heap' = heap /\ observers' = observers /\ depth' = depth
  BY FrameKeeps DEF IInv, TypeOK
<1>2. StoreTypeOK /\ Sending /\ Spend("failure")
  BY DEF IInv, TypeOK, CommitWithoutResponse
<1>n. PICK n \in Nat \ {0} : CommitWrites(n)
  BY SomeCommitted
<1>3. budget' \in [Event -> Nat]
  BY <1>2, SpendType DEF StoreTypeOK, Event
<1>4. StoreTypeOK'
  BY <1>1, <1>2, <1>n, <1>3, CommitWritesTypes DEF StoreTypeOK, CommitWithoutResponse
<1>5. ClientReady'
  BY <1>1 DEF IInv, ClientReady, CommitWithoutResponse
<1> QED BY <1>1, <1>4, <1>5 DEF IInv, TypeOK

\* A refused write only goes from its queue and into the record.
LEMMA RejectFailedWriteStep == IInv /\ Frame /\ RejectFailedWrite => IInv'
<1> SUFFICES ASSUME IInv, Frame, RejectFailedWrite PROVE IInv'
  OBVIOUS
<1>1. /\ ManagerTypeOK' /\ SessionTypeOK'
      /\ heap' = heap /\ observers' = observers /\ depth' = depth
  BY FrameKeeps DEF IInv, TypeOK
<1>2. StoreTypeOK /\ Sending /\ DropNextWrite
  BY DEF IInv, TypeOK, RejectFailedWrite
<1>3. budget' \in [Event -> Nat]
  <2>1. budget \in [Event -> Nat] /\ "failure" \in Event
    BY <1>2 DEF StoreTypeOK, Event
  <2> QED BY <2>1, SpendType DEF RejectFailedWrite
<1>4. history' \in [filed : SUBSET DocIds, deleted : SUBSET DocIds,
                    refused : SUBSET DocIds, gone : SUBSET DocIds]
  <2>1. NextWrite.key \in DocIds
    BY <1>2, SendingTypes
  <2> QED BY <1>2, <2>1 DEF StoreTypeOK, RejectFailedWrite
<1>5. StoreTypeOK'
  BY <1>1, <1>2, <1>3, <1>4, DropNextWriteType DEF StoreTypeOK, RejectFailedWrite
<1>6. ClientReady'
  BY <1>1 DEF IInv, ClientReady, RejectFailedWrite
<1> QED BY <1>1, <1>5, <1>6 DEF IInv, TypeOK

\* Going offline or online touches nothing that is typed by the program.
LEMMA NetworkStep == IInv /\ Frame /\ (GoOffline \/ GoOnline) => IInv'
<1> SUFFICES ASSUME IInv, Frame, GoOffline \/ GoOnline PROVE IInv'
  OBVIOUS
<1>1. /\ ManagerTypeOK' /\ SessionTypeOK'
      /\ heap' = heap /\ observers' = observers /\ depth' = depth
  BY FrameKeeps DEF IInv, TypeOK
<1>2. budget' \in [Event -> Nat]
  <2>1. budget \in [Event -> Nat] /\ "outage" \in Event
    BY DEF IInv, TypeOK, StoreTypeOK, Event
  <2> QED BY <2>1, SpendType DEF GoOffline, GoOnline
<1>3. StoreTypeOK'
  BY <1>1, <1>2 DEF IInv, TypeOK, StoreTypeOK, GoOffline, GoOnline
<1>4. ClientReady'
  BY <1>1 DEF IInv, ClientReady, GoOffline, GoOnline
<1> QED BY <1>1, <1>3, <1>4 DEF IInv, TypeOK

\* Another device writes fields this one could have written.
LEMMA OtherDeviceStep ==
    IInv /\ Frame /\ OtherDevice({Encode(c) : c \in NewContents}) => IInv'
<1> SUFFICES ASSUME IInv, Frame, OtherDevice({Encode(c) : c \in NewContents})
             PROVE  IInv'
  OBVIOUS
<1>1. /\ ManagerTypeOK' /\ SessionTypeOK'
      /\ heap' = heap /\ observers' = observers /\ depth' = depth
  BY FrameKeeps DEF IInv, TypeOK
<1>2. budget' \in [Event -> Nat]
  BY SpendType DEF IInv, TypeOK, StoreTypeOK, OtherDevice, Event
<1>3. /\ server' \in [DocIds -> DocState]
      /\ history' \in [filed : SUBSET DocIds, deleted : SUBSET DocIds,
                       refused : SUBSET DocIds, gone : SUBSET DocIds]
  <2>1. PICK d \in Found(server) :
          \/ \E c \in {Encode(k) : k \in NewContents} :
                server' = [server EXCEPT ![d].content = c] /\ history' = history
          \/ /\ server' = [server EXCEPT ![d] = Absent]
             /\ history' = [history EXCEPT !.deleted = @ \cup {d}]
    BY DEF OtherDevice
  <2>2. d \in DocIds /\ server[d] \in Document
    BY DEF IInv, TypeOK, StoreTypeOK, Found, DocState
  <2>3. CASE \E c \in {Encode(k) : k \in NewContents} :
                server' = [server EXCEPT ![d].content = c] /\ history' = history
    <3>1. PICK k \in NewContents :
            server' = [server EXCEPT ![d].content = Encode(k)] /\ history' = history
      BY <2>3
    <3>2. k \in Content
      BY PickerAssumption DEF NewContents, Content, ReadableTypes, TransactionType
    <3>3. [server[d] EXCEPT !.content = Encode(k)] \in DocState
      BY <2>2, <3>2, EncodeType DEF Document, DocState
    <3>4. server' = [server EXCEPT ![d] = [server[d] EXCEPT !.content = Encode(k)]]
      BY <3>1
    <3> QED BY <2>2, <3>1, <3>3, <3>4 DEF IInv, TypeOK, StoreTypeOK
  <2>4. CASE /\ server' = [server EXCEPT ![d] = Absent]
             /\ history' = [history EXCEPT !.deleted = @ \cup {d}]
    BY <2>2, <2>4 DEF IInv, TypeOK, StoreTypeOK, DocState
  <2> QED BY <2>1, <2>3, <2>4
<1>4. StoreTypeOK'
  BY <1>1, <1>2, <1>3 DEF IInv, TypeOK, StoreTypeOK, OtherDevice
<1>5. ClientReady'
  BY <1>1 DEF IInv, ClientReady, OtherDevice
<1> QED BY <1>1, <1>4, <1>5 DEF IInv, TypeOK

\* All steps of the SDK and the server.
LEMMA StoreSteps ==
    IInv /\ Frame /\ StoreStep({Encode(c) : c \in NewContents}) => IInv'
BY UserDidChangeStep, WriteMutationsStep, AddListenerStep, RaiseFromServerStep,
   RaiseFromCacheStep, RejectListenStep, ApplySuccessfulWriteStep,
   CommitWithoutResponseStep, RejectFailedWriteStep, NetworkStep, OtherDeviceStep
   DEF StoreStep

-----------------------------------------------------------------------------
\* Launches, and the steps of Auth.

\* The first launch: nothing exists, and nothing refers to anything.
LEMMA InitTypes == Init => IInv
<1> SUFFICES ASSUME Init PROVE IInv
  OBVIOUS
<1>1. StoreTypeOK
  <2>1. heap = << >> /\ observers = <<Observer(1)>> /\ Len(observers) = 1
    BY DEF Init, ManagerInit
  <2>2. main \in Seq(Block(Len(heap), Len(observers)))
    BY <2>1 DEF Init, Block, InitialBlock
  <2>3. budget \in [Event -> Nat]
    BY BudgetAssumption DEF Init, StoreInit
  <2>4. listeners \in [Queries -> Seq(Callback(Len(heap)))]
    BY DEF Init, StoreInit
  <2>5. mutations \in [Users \cup {Nobody} -> Seq(Mutation)]
    BY DEF Init, StoreInit
  <2>6. history \in [filed : SUBSET DocIds, deleted : SUBSET DocIds,
                     refused : SUBSET DocIds, gone : SUBSET DocIds]
    BY DEF Init, StoreInit
  <2> QED BY <2>2, <2>3, <2>4, <2>5, <2>6 DEF StoreTypeOK, Init, StoreInit, DocState
<1>2. ManagerTypeOK
  BY DEF Init, ManagerInit, ManagerTypeOK
<1>3. SessionTypeOK
  BY DEF Init, SessionTypeOK, Observer
<1>4. ClientReady
  BY DEF Init, StoreInit, ClientReady, InitialBlock
<1> QED BY <1>1, <1>2, <1>3, <1>4 DEF IInv, TypeOK

\* A crash takes the objects and everything that refers to them at once.
LEMMA CrashStep == IInv /\ Crash => IInv'
<1> SUFFICES ASSUME IInv, Crash PROVE IInv'
  OBVIOUS
<1>1. Launched /\ StoreCrash /\ UNCHANGED <<keychain, added>>
  BY DEF Crash, Launched
<1>2. /\ heap' = << >> /\ transactions' = << >> /\ Len(heap') = 0
      /\ observers' = <<Observer(1)>> /\ Len(observers') = 1
      /\ main' = <<InitialBlock(1)>>
  BY <1>1 DEF Launched
<1>3. main' \in Seq(Block(Len(heap'), Len(observers')))
  BY <1>2 DEF Block, InitialBlock
<1>4. budget' \in [Event -> Nat]
  BY SpendType DEF IInv, TypeOK, StoreTypeOK, Crash, Event
<1>5. listeners' \in [Queries -> Seq(Callback(Len(heap')))]
  BY <1>1 DEF StoreCrash
<1>6. StoreTypeOK'
  BY <1>1, <1>3, <1>4, <1>5 DEF IInv, TypeOK, StoreTypeOK, StoreCrash
<1>7. ManagerTypeOK'
  BY <1>2 DEF ManagerTypeOK
<1>8. SessionTypeOK'
  BY <1>1, <1>2 DEF IInv, TypeOK, SessionTypeOK, Launched, Observer
<1>9. ClientReady'
  BY <1>1, <1>2 DEF ClientReady, Launched, StoreCrash, InitialBlock
<1> QED BY <1>6, <1>7, <1>8, <1>9 DEF IInv, TypeOK

\* The user read from the keychain is announced by a typed block.
LEMMA LoadKeychainStep == IInv /\ LoadKeychain => IInv'
<1> SUFFICES ASSUME IInv, LoadKeychain PROVE IInv'
  OBVIOUS
<1>1. AuthBlock(keychain) \in Block(Len(heap), Len(observers))
  BY DEF IInv, TypeOK, SessionTypeOK, AuthBlock, Block
<1>2. StoreTypeOK'
  BY <1>1 DEF IInv, TypeOK, StoreTypeOK, LoadKeychain, managerVars
<1>3. ManagerTypeOK'
  BY DEF IInv, TypeOK, ManagerTypeOK, LoadKeychain, managerVars
<1>4. SessionTypeOK'
  BY DEF IInv, TypeOK, SessionTypeOK, LoadKeychain, managerVars
<1>5. ClientReady'
  BY DEF IInv, TypeOK, StoreTypeOK, ClientReady, LoadKeychain, AuthBlock
<1> QED BY <1>2, <1>3, <1>4, <1>5 DEF IInv, TypeOK

\* A sign-in that is sent is counted, and nothing else happens.
LEMMA SendSignInStep ==
    ASSUME NEW u \in Users
    PROVE  IInv /\ SendSignIn(u) => IInv'
<1> SUFFICES ASSUME IInv, SendSignIn(u) PROVE IInv'
  OBVIOUS
<1>1. budget' \in [Event -> Nat]
  <2>1. "hurry" \in Event /\ "signIn" \in Event
    BY DEF Event
  <2>2. Spend("hurry") \/ Spend("signIn")
    BY DEF SendSignIn
  <2> QED BY <2>1, <2>2, SpendType DEF IInv, TypeOK, StoreTypeOK
<1>2. StoreTypeOK'
  BY <1>1 DEF IInv, TypeOK, StoreTypeOK, SendSignIn, storeVars, managerVars
<1>3. ManagerTypeOK'
  BY DEF IInv, TypeOK, ManagerTypeOK, SendSignIn, managerVars
<1>4. SessionTypeOK'
  BY DEF IInv, TypeOK, SessionTypeOK, SendSignIn, managerVars
<1>5. ClientReady'
  BY DEF IInv, ClientReady, SendSignIn, storeVars
<1> QED BY <1>2, <1>3, <1>4, <1>5 DEF IInv, TypeOK

\* A user whose sign-in is answered is announced by a typed block.
LEMMA SignInAnsweredStep ==
    ASSUME NEW u \in Users
    PROVE  IInv /\ SignInAnswered(u) => IInv'
<1> SUFFICES ASSUME IInv, SignInAnswered(u) PROVE IInv'
  OBVIOUS
<1>1. AuthBlock(u) \in Block(Len(heap), Len(observers))
  BY DEF AuthBlock, Block
<1>2. StoreTypeOK'
  BY <1>1 DEF IInv, TypeOK, StoreTypeOK, SignInAnswered, managerVars
<1>3. ManagerTypeOK'
  BY DEF IInv, TypeOK, ManagerTypeOK, SignInAnswered, managerVars
<1>4. SessionTypeOK'
  BY DEF IInv, TypeOK, SessionTypeOK, SignInAnswered, managerVars
<1>5. ClientReady'
  BY DEF IInv, TypeOK, StoreTypeOK, ClientReady, SignInAnswered, AuthBlock
<1> QED BY <1>2, <1>3, <1>4, <1>5 DEF IInv, TypeOK

\* A refusal is only counted.
LEMMA SignInRefusedStep ==
    ASSUME NEW u \in Users
    PROVE  IInv /\ SignInRefused(u) => IInv'
<1> SUFFICES ASSUME IInv, SignInRefused(u) PROVE IInv'
  OBVIOUS
<1>1. StoreTypeOK'
  BY DEF IInv, TypeOK, StoreTypeOK, SignInRefused, storeVars, managerVars
<1>2. ManagerTypeOK'
  BY DEF IInv, TypeOK, ManagerTypeOK, SignInRefused, managerVars
<1>3. SessionTypeOK'
  BY DEF IInv, TypeOK, SessionTypeOK, SignInRefused, managerVars
<1>4. ClientReady'
  BY DEF IInv, ClientReady, SignInRefused, storeVars
<1> QED BY <1>1, <1>2, <1>3, <1>4 DEF IInv, TypeOK

\* The user whose token is renewed is announced again.
LEMMA RefreshTokenStep == IInv /\ RefreshToken => IInv'
<1> SUFFICES ASSUME IInv, RefreshToken PROVE IInv'
  OBVIOUS
<1>1. AuthBlock(authUser) \in Block(Len(heap), Len(observers))
  BY DEF IInv, TypeOK, SessionTypeOK, AuthBlock, Block
<1>2. budget' \in [Event -> Nat]
  BY SpendType DEF IInv, TypeOK, StoreTypeOK, RefreshToken, Event
<1>3. StoreTypeOK'
  BY <1>1, <1>2 DEF IInv, TypeOK, StoreTypeOK, RefreshToken, managerVars, sessionVars
<1>4. ManagerTypeOK' /\ SessionTypeOK'
  BY DEF IInv, TypeOK, ManagerTypeOK, SessionTypeOK, RefreshToken, managerVars,
         sessionVars
<1>5. ClientReady'
  BY DEF IInv, TypeOK, StoreTypeOK, ClientReady, RefreshToken, AuthBlock, sessionVars
<1> QED BY <1>3, <1>4, <1>5 DEF IInv, TypeOK

\* When Auth signs its user out, it announces that there is none.
LEMMA SignOutByForceStep == IInv /\ SignOutByForce => IInv'
<1> SUFFICES ASSUME IInv, SignOutByForce PROVE IInv'
  OBVIOUS
<1>1. AuthBlock(Nobody) \in Block(Len(heap), Len(observers))
  BY DEF AuthBlock, Block
<1>2. budget' \in [Event -> Nat]
  BY SpendType DEF IInv, TypeOK, StoreTypeOK, SignOutByForce, Event
<1>3. StoreTypeOK'
  BY <1>1, <1>2 DEF IInv, TypeOK, StoreTypeOK, SignOutByForce, managerVars
<1>4. ManagerTypeOK' /\ SessionTypeOK'
  BY DEF IInv, TypeOK, ManagerTypeOK, SessionTypeOK, SignOutByForce, managerVars
<1>5. ClientReady'
  BY DEF IInv, TypeOK, StoreTypeOK, ClientReady, SignOutByForce, AuthBlock
<1> QED BY <1>3, <1>4, <1>5 DEF IInv, TypeOK

\* A listener more, and a block that calls it, are typed.
LEMMA checkLoggedInTypes ==
    ASSUME StoreTypeOK, ManagerTypeOK, SessionTypeOK,
           NEW n \in Nat,
           NEW queue \in Seq(Block(Len(heap), Len(observers))),
           checkLoggedIn(n, queue)
    PROVE  /\ observers' \in Seq([login : Nat, prev : Users \cup {Nobody, Unset}])
           /\ main' \in Seq(Block(Len(heap), Len(observers')))
<1>1. /\ observers' \in Seq([login : Nat, prev : Users \cup {Nobody, Unset}])
      /\ Len(observers) \in Nat /\ Len(observers') = Len(observers) + 1
  BY DEF SessionTypeOK, checkLoggedIn, Observer
<1>2. InitialBlock(Len(observers) + 1) \in Block(Len(heap), Len(observers'))
  BY <1>1 DEF InitialBlock, Block
<1>3. Len(heap) \in Nat
  BY DEF ManagerTypeOK
<1>4. Block(Len(heap), Len(observers)) \subseteq Block(Len(heap), Len(observers'))
  BY <1>1, <1>3, TypesGrow
<1>5. queue \in Seq(Block(Len(heap), Len(observers')))
  BY <1>4, SeqGrows
<1> QED BY <1>1, <1>2, <1>5 DEF checkLoggedIn

\* A login controller that appears again adds one listener and its block.
LEMMA ReturnFromSignUpStep == IInv /\ ReturnFromSignUp => IInv'
<1> SUFFICES ASSUME IInv, ReturnFromSignUp PROVE IInv'
  OBVIOUS
<1>1. checkLoggedIn((depth + 1) \div 2, main)
  BY DEF ReturnFromSignUp
<1>2. (depth + 1) \div 2 \in Nat
  BY DEF IInv, TypeOK, SessionTypeOK
<1>3. main \in Seq(Block(Len(heap), Len(observers)))
  BY DEF IInv, TypeOK, StoreTypeOK
<1>4. /\ observers' \in Seq([login : Nat, prev : Users \cup {Nobody, Unset}])
      /\ main' \in Seq(Block(Len(heap), Len(observers')))
  BY <1>1, <1>2, <1>3, checkLoggedInTypes DEF IInv, TypeOK
<1>5. budget' \in [Event -> Nat]
  <2>1. "hurry" \in Event /\ "return" \in Event
    BY DEF Event
  <2>2. Spend("hurry") \/ Spend("return")
    BY DEF ReturnFromSignUp
  <2> QED BY <2>1, <2>2, SpendType DEF IInv, TypeOK, StoreTypeOK
<1>6. StoreTypeOK'
  BY <1>4, <1>5 DEF IInv, TypeOK, StoreTypeOK, ReturnFromSignUp, managerVars
<1>7. ManagerTypeOK'
  BY DEF IInv, TypeOK, ManagerTypeOK, ReturnFromSignUp, managerVars
<1>8. SessionTypeOK'
  BY <1>4 DEF IInv, TypeOK, SessionTypeOK, ReturnFromSignUp, managerVars
<1>9. ClientReady'
  BY <1>1, <1>3 DEF IInv, ClientReady, ReturnFromSignUp, checkLoggedIn, InitialBlock
<1> QED BY <1>6, <1>7, <1>8, <1>9 DEF IInv, TypeOK

\* So does the one presented after a logout, over tabs that have a client.
LEMMA SignOutStep == IInv /\ SignOut => IInv'
<1> SUFFICES ASSUME IInv, SignOut PROVE IInv'
  OBVIOUS
<1> DEFINE queue == IF authUser = Nobody THEN main
                    ELSE Append(main, AuthBlock(Nobody))
<1>1. checkLoggedIn((depth + 2) \div 2, queue)
  BY DEF SignOut
<1>2. (depth + 2) \div 2 \in Nat
  BY DEF IInv, TypeOK, SessionTypeOK
<1>3. queue \in Seq(Block(Len(heap), Len(observers)))
  BY DEF IInv, TypeOK, StoreTypeOK, AuthBlock, Block
<1>4. fsUser # NoClient /\ fsUser' = fsUser
  <2>1. depth # 1
    BY DEF SignOut, OnTabs
  <2> QED BY <2>1 DEF IInv, ClientReady, SignOut
<1> HIDE DEF queue
<1>5. /\ observers' \in Seq([login : Nat, prev : Users \cup {Nobody, Unset}])
      /\ main' \in Seq(Block(Len(heap), Len(observers')))
  BY <1>1, <1>2, <1>3, checkLoggedInTypes DEF IInv, TypeOK
<1>6. budget' \in [Event -> Nat]
  BY SpendType DEF IInv, TypeOK, StoreTypeOK, SignOut, Event
<1>7. StoreTypeOK'
  BY <1>5, <1>6 DEF IInv, TypeOK, StoreTypeOK, SignOut, managerVars
<1>8. ManagerTypeOK'
  BY DEF IInv, TypeOK, ManagerTypeOK, SignOut, managerVars
<1>9. SessionTypeOK'
  BY <1>5 DEF IInv, TypeOK, SessionTypeOK, SignOut, managerVars
<1> QED BY <1>4, <1>7, <1>8, <1>9 DEF IInv, TypeOK, ClientReady

\* The next block of the main queue is a block, and so are the others.
LEMMA NextBlock ==
    ASSUME StoreTypeOK, ManagerTypeOK, SessionTypeOK, main # << >>
    PROVE  /\ Head(main) \in Block(Len(heap), Len(observers))
           /\ Tail(main) \in Seq(Block(Len(heap), Len(observers)))
           /\ \A i \in DOMAIN Tail(main) : Tail(main)[i] = main[i + 1]
                                           /\ i + 1 \in DOMAIN main
           /\ Len(heap) \in Nat /\ Len(observers) \in Nat
BY DEF StoreTypeOK, ManagerTypeOK, SessionTypeOK

\* Calling listeners asks for loads, and makes sure there is a client first.
LEMMA NotifyTypes ==
    ASSUME StoreTypeOK, ManagerTypeOK, SessionTypeOK,
           NEW I \in SUBSET DOMAIN observers,
           NEW tasks \in Seq(Task(Len(heap))),
           Notify(I, tasks)
    PROVE  /\ observers' \in Seq([login : Nat, prev : Users \cup {Nobody, Unset}])
           /\ Len(observers') = Len(observers)
           /\ worker' \in Seq(Task(Len(heap)))
           /\ fsUser' \in Users \cup {Nobody, NoClient}
           /\ fsUser' = NoClient => fsUser = NoClient /\ worker' = worker \o tasks
<1> DEFINE called == {i \in I : observers[i].prev # authUser}
           loads  == IF authUser = Nobody THEN {} ELSE called
           n      == Cardinality(loads)
           load(j) == ListenTask(ByUser(authUser),
                                 LoadCallback(observers[Ascending(loads)[j]].login))
           noted(i) == IF i \in I THEN [observers[i] EXCEPT !.prev = authUser]
                       ELSE observers[i]
<1>1. /\ observers \in Seq([login : Nat, prev : Users \cup {Nobody, Unset}])
      /\ DOMAIN observers = 1 .. Len(observers) /\ Len(observers) \in Nat
      /\ authUser \in Users \cup {Nobody}
  BY DEF SessionTypeOK
<1>1a. ASSUME NEW i \in 1 .. Len(observers)
       PROVE  observers[i] \in [login : Nat, prev : Users \cup {Nobody, Unset}]
  BY <1>1, ElementOfSeq
<1>2. /\ observers' = [i \in DOMAIN observers |-> noted(i)]
      /\ worker' = worker \o tasks \o [j \in 1 .. n |-> load(j)]
      /\ fsUser' = IF fsUser = NoClient /\ loads # {} THEN authUser ELSE fsUser
  BY DEF Notify
<1>3. /\ observers' \in Seq([login : Nat, prev : Users \cup {Nobody, Unset}])
      /\ Len(observers') = Len(observers)
  <2>1. \A i \in 1 .. Len(observers) :
           noted(i) \in [login : Nat, prev : Users \cup {Nobody, Unset}]
    BY <1>1, <1>1a
  <2>2. observers' = [i \in 1 .. Len(observers) |-> noted(i)]
    BY <1>1, <1>2
  <2> HIDE DEF noted
  <2> QED BY <1>1, <2>1, <2>2
<1>4. loads \in SUBSET (1 .. Len(observers))
  BY <1>1
<1>5. IsFiniteSet(loads) /\ loads \in SUBSET Int
  <2>1. IsFiniteSet(1 .. Len(observers))
    BY <1>1, FS_Interval
  <2>2. IsFiniteSet(loads)
    BY <1>4, <2>1, FS_Subset
  <2>3. loads \in SUBSET Int
    BY <1>4
  <2> QED BY <2>2, <2>3
<1>6. n \in Nat /\ (loads = {} <=> n = 0)
  BY <1>5, FS_CardinalityType, FS_EmptySet
<1>7. ASSUME NEW j \in 1 .. n
      PROVE  load(j) \in Task(Len(heap))
  <2> HIDE DEF loads
  <2>1. Ascending(loads)[j] \in loads
    BY <1>5, AscendingProperties
  <2>2. observers[Ascending(loads)[j]].login \in Nat
    <3>1. Ascending(loads)[j] \in 1 .. Len(observers)
      BY <1>4, <2>1
    <3>2. \A i \in 1 .. Len(observers) : observers[i].login \in Nat
      BY <1>1a
    <3> QED BY <3>1, <3>2
  <2>3. LoadCallback(observers[Ascending(loads)[j]].login) \in Callback(Len(heap))
    BY <2>2 DEF LoadCallback, Callback
  <2>4. authUser \in Users
    BY <1>1, <2>1 DEF loads
  <2>5. ByUser(authUser) \in Queries
    BY <2>4 DEF Queries
  <2> QED BY <2>3, <2>5 DEF ListenTask, Task
<1> HIDE DEF called, loads, load, noted
<1>8. worker' \in Seq(Task(Len(heap)))
  <2>1. [j \in 1 .. n |-> load(j)] \in Seq(Task(Len(heap)))
    BY <1>6, <1>7
  <2>2. worker \o tasks \in Seq(Task(Len(heap)))
    BY DEF StoreTypeOK
  <2> QED BY <1>2, <2>1, <2>2
<1>9. fsUser' \in Users \cup {Nobody, NoClient}
  BY <1>1, <1>2 DEF StoreTypeOK
<1>10. ASSUME fsUser' = NoClient
       PROVE  fsUser = NoClient /\ worker' = worker \o tasks
  <2>1. fsUser = NoClient /\ loads = {}
    BY <1>1, <1>2, <1>10, UsersAssumption
  <2>2. worker \in Seq(Task(Len(heap))) /\ n = 0
    BY <1>6, <2>1 DEF StoreTypeOK
  <2> QED BY <1>2, <2>1, <2>2
<1> QED BY <1>3, <1>8, <1>9, <1>10

\* The loads that calling the listeners in I asks for.
Asked(I) ==
    LET called == {i \in I : observers[i].prev # authUser}
        loads  == IF authUser = Nobody THEN {} ELSE called
    IN  [j \in 1 .. Cardinality(loads) |->
           ListenTask(ByUser(authUser),
                      LoadCallback(observers[Ascending(loads)[j]].login))]

\* They are asked for on behalf of a user, by listeners that were called.
LEMMA NotifyAsks ==
    ASSUME TypeOK, NEW I \in SUBSET DOMAIN observers, NEW tasks,
           Notify(I, tasks)
    PROVE  /\ worker' = worker \o tasks \o Asked(I)
           /\ Asked(I) \in Seq({Asked(I)[j] : j \in DOMAIN Asked(I)})
           /\ \A j \in DOMAIN Asked(I) :
                 /\ authUser # Nobody
                 /\ \E i \in I : /\ observers[i].prev # authUser
                                 /\ Asked(I)[j] = ListenTask(ByUser(authUser),
                                                    LoadCallback(observers[i].login))
<1> DEFINE called == {i \in I : observers[i].prev # authUser}
           loads  == IF authUser = Nobody THEN {} ELSE called
           n      == Cardinality(loads)
           load(j) == ListenTask(ByUser(authUser),
                                 LoadCallback(observers[Ascending(loads)[j]].login))
<1>1. Asked(I) = [j \in 1 .. n |-> load(j)]
  BY DEF Asked
<1>2. worker' = worker \o tasks \o Asked(I)
  BY <1>1 DEF Notify
<1>3. IsFiniteSet(loads) /\ loads \in SUBSET Int /\ n \in Nat
  <2>1. DOMAIN observers = 1 .. Len(observers) /\ Len(observers) \in Nat
    BY DEF TypeOK, SessionTypeOK
  <2>2. IsFiniteSet(1 .. Len(observers))
    BY <2>1, FS_Interval
  <2>3. loads \in SUBSET (1 .. Len(observers))
    BY <2>1
  <2>4. IsFiniteSet(loads)
    BY <2>2, <2>3, FS_Subset
  <2>5. loads \in SUBSET Int
    BY <2>1, <2>3
  <2> QED BY <2>4, <2>5, FS_CardinalityType
<1>4. ASSUME NEW j \in 1 .. n
      PROVE  /\ authUser # Nobody
             /\ \E i \in I : /\ observers[i].prev # authUser
                             /\ load(j) = ListenTask(ByUser(authUser),
                                            LoadCallback(observers[i].login))
  <2>1. Ascending(loads)[j] \in loads
    <3> HIDE DEF loads
    <3> QED BY <1>3, <1>4, AscendingProperties
  <2> QED BY <2>1
<1> HIDE DEF load, n
<1>5. Asked(I) \in Seq({Asked(I)[j] : j \in DOMAIN Asked(I)})
  <2> DEFINE S == {Asked(I)[j] : j \in DOMAIN Asked(I)}
  <2>1. DOMAIN Asked(I) = 1 .. n /\ Asked(I) = [j \in 1 .. n |-> Asked(I)[j]]
    BY <1>1
  <2>2. \A j \in 1 .. n : Asked(I)[j] \in S
    BY <2>1
  <2> HIDE DEF S
  <2>3. Asked(I) \in Seq(S)
    BY <1>3, <2>1, <2>2
  <2> QED BY <2>3 DEF S
<1> QED BY <1>1, <1>2, <1>4, <1>5

\* A notification tells the worker of a user once there is a client.
LEMMA RunAuthBlockStep == IInv /\ RunAuthBlock => IInv'
<1> SUFFICES ASSUME IInv, RunAuthBlock PROVE IInv'
  OBVIOUS
<1> DEFINE tasks == IF CredentialsUser \in {NoClient, Head(main).user} THEN << >>
                    ELSE <<UserTask(Head(main).user)>>
<1>1. /\ Notify(DOMAIN observers, tasks)
      /\ main' = Tail(main) /\ main # << >> /\ Head(main).kind = "auth"
      /\ UNCHANGED <<server, cache, mutations, listeners, online, budget,
                     history, heap, transactions, keychain, authUser, depth, signIns, ousted,
                     list, added>>
  BY DEF RunAuthBlock, managerVars
<1>2. /\ Head(main) \in Block(Len(heap), Len(observers))
      /\ main' \in Seq(Block(Len(heap), Len(observers)))
      /\ \A i \in DOMAIN main' : main'[i] = main[i + 1] /\ i + 1 \in DOMAIN main
  BY <1>1, NextBlock DEF IInv, TypeOK
<1>3. Head(main).user \in Users \cup {Nobody}
  BY <1>1, <1>2 DEF Block
<1>4. tasks \in Seq(Task(Len(heap)))
  <2>1. UserTask(Head(main).user) \in Task(Len(heap))
    BY <1>3 DEF UserTask, Task
  <2>2. <<UserTask(Head(main).user)>> \in Seq(Task(Len(heap)))
    BY <2>1
  <2> QED BY <2>2
<1>5. fsUser = NoClient => tasks = << >>
  <2> SUFFICES ASSUME fsUser = NoClient PROVE tasks = << >>
    OBVIOUS
  <2>1. worker = << >>
    BY DEF IInv, ClientReady
  <2>2. CredentialsUser = NoClient
    BY <2>1 DEF CredentialsUser
  <2> QED BY <2>2
<1> HIDE DEF tasks
<1>6. /\ observers' \in Seq([login : Nat, prev : Users \cup {Nobody, Unset}])
      /\ Len(observers') = Len(observers)
      /\ worker' \in Seq(Task(Len(heap)))
      /\ fsUser' \in Users \cup {Nobody, NoClient}
      /\ fsUser' = NoClient => fsUser = NoClient /\ worker' = worker \o tasks
  <2>1. DOMAIN observers \in SUBSET DOMAIN observers
    OBVIOUS
  <2> QED BY <1>1, <1>4, <2>1, NotifyTypes DEF IInv, TypeOK
<1>7. StoreTypeOK'
  BY <1>1, <1>2, <1>6 DEF IInv, TypeOK, StoreTypeOK
<1>8. ManagerTypeOK'
  BY <1>1 DEF IInv, TypeOK, ManagerTypeOK
<1>9. SessionTypeOK'
  BY <1>1, <1>6 DEF IInv, TypeOK, SessionTypeOK
<1>10. ClientReady'
  <2> SUFFICES ASSUME fsUser' = NoClient
               PROVE  /\ worker' = << >>
                      /\ \A q \in Queries : listeners'[q] = << >>
                      /\ \A i \in DOMAIN main' : main'[i].kind # "snapshot"
                      /\ depth' = 1
    BY DEF ClientReady
  <2>1. fsUser = NoClient /\ worker = << >> /\ tasks = << >>
    BY <1>5, <1>6 DEF IInv, ClientReady
  <2>2. worker' = << >>
    BY <1>6, <2>1
  <2> QED BY <1>1, <1>2, <2>1, <2>2 DEF IInv, ClientReady
<1> QED BY <1>7, <1>8, <1>9, <1>10 DEF IInv, TypeOK

\* The listener the block names exists, and is called alone.
LEMMA RunInitialBlockStep == IInv /\ RunInitialBlock => IInv'
<1> SUFFICES ASSUME IInv, RunInitialBlock PROVE IInv'
  OBVIOUS
<1>1. /\ Notify({Head(main).observer}, << >>)
      /\ main' = Tail(main) /\ main # << >> /\ Head(main).kind = "initial"
      /\ UNCHANGED <<server, cache, mutations, listeners, online, budget,
                     history, heap, transactions, keychain, authUser, depth, signIns, ousted,
                     list, added>>
  BY DEF RunInitialBlock, managerVars
<1>2. /\ Head(main) \in Block(Len(heap), Len(observers))
      /\ main' \in Seq(Block(Len(heap), Len(observers)))
      /\ \A i \in DOMAIN main' : main'[i] = main[i + 1] /\ i + 1 \in DOMAIN main
  BY <1>1, NextBlock DEF IInv, TypeOK
<1>3. {Head(main).observer} \in SUBSET DOMAIN observers
  <2>1. Head(main).observer \in 1 .. Len(observers)
    BY <1>1, <1>2 DEF Block
  <2> QED BY <2>1 DEF IInv, TypeOK, SessionTypeOK
<1>4. << >> \in Seq(Task(Len(heap)))
  OBVIOUS
<1>5. /\ observers' \in Seq([login : Nat, prev : Users \cup {Nobody, Unset}])
      /\ Len(observers') = Len(observers)
      /\ worker' \in Seq(Task(Len(heap)))
      /\ fsUser' \in Users \cup {Nobody, NoClient}
      /\ fsUser' = NoClient => fsUser = NoClient /\ worker' = worker \o << >>
  BY <1>1, <1>3, <1>4, NotifyTypes DEF IInv, TypeOK
<1>6. StoreTypeOK'
  BY <1>1, <1>2, <1>5 DEF IInv, TypeOK, StoreTypeOK
<1>7. ManagerTypeOK'
  BY <1>1 DEF IInv, TypeOK, ManagerTypeOK
<1>8. SessionTypeOK'
  BY <1>1, <1>5 DEF IInv, TypeOK, SessionTypeOK
<1>9. ClientReady'
  <2> SUFFICES ASSUME fsUser' = NoClient
               PROVE  /\ worker' = << >>
                      /\ \A q \in Queries : listeners'[q] = << >>
                      /\ \A i \in DOMAIN main' : main'[i].kind # "snapshot"
                      /\ depth' = 1
    BY DEF ClientReady
  <2>1. fsUser = NoClient /\ worker = << >>
    BY <1>5 DEF IInv, ClientReady
  <2>2. worker' = << >>
    BY <1>5, <2>1
  <2> QED BY <1>1, <1>2, <2>1, <2>2 DEF IInv, ClientReady
<1> QED BY <1>6, <1>7, <1>8, <1>9 DEF IInv, TypeOK

-----------------------------------------------------------------------------
\* The callbacks.

\* An answer holds a callback and the documents that were found, and only an
\* SDK that has a client answers.
LEMMA AnsweredTypes ==
    ASSUME IInv, NEW kind, Answered(kind)
    PROVE  /\ Head(main).callback \in Callback(Len(heap))
           /\ Head(main).callback.kind = kind
           /\ Head(main).docs \in [DocIds -> DocState]
           /\ main' \in Seq(Block(Len(heap), Len(observers)))
           /\ fsUser # NoClient
<1>1. main # << >> /\ main' = Tail(main) /\ Head(main).kind = "snapshot"
  BY DEF Answered
<1>2. /\ Head(main) \in Block(Len(heap), Len(observers))
      /\ main' \in Seq(Block(Len(heap), Len(observers)))
  BY <1>1, NextBlock DEF IInv, TypeOK
<1>3. fsUser # NoClient
  <2>1. 1 \in DOMAIN main /\ Head(main) = main[1]
    BY <1>1 DEF IInv, TypeOK, StoreTypeOK
  <2> QED BY <1>1, <2>1 DEF IInv, ClientReady
<1> QED BY <1>1, <1>2, <1>3 DEF Block, Answered

\* The heap grows by the loaded objects; what refers to the old ones stays.
LEMMA RunLoadCallbackStep == IInv /\ RunLoadCallback => IInv'
<1> SUFFICES ASSUME IInv, RunLoadCallback PROVE IInv'
  OBVIOUS
<1> DEFINE docs == Head(main).docs
           keys == Ascending(Found(docs))
           n == Cardinality(Found(docs))
           object(i) == [id |-> docs[keys[i]].id,
                         content |-> Decode(docs[keys[i]].content)]
           loaded == [i \in 1 .. n |-> object(i)]
<1>1. /\ docs \in [DocIds -> DocState] /\ fsUser # NoClient
      /\ main' \in Seq(Block(Len(heap), Len(observers)))
      /\ Head(main).callback \in Callback(Len(heap))
  BY AnsweredTypes DEF RunLoadCallback
<1>2. /\ heap' = heap \o loaded
      /\ transactions' = [i \in 1 .. n |-> Len(heap) + i]
      /\ UNCHANGED <<server, cache, mutations, fsUser, worker, listeners,
                     online, budget, history, keychain, authUser, observers,
                     signIns, ousted, added>>
  BY DEF RunLoadCallback, setLoadedTransactions
<1>3. n \in Nat /\ \A i \in 1 .. n : docs[keys[i]] \in Document
  <2> HIDE DEF docs
  <2> QED BY <1>1, FoundProperties
<1>4. ASSUME NEW i \in 1 .. n
      PROVE  object(i) \in Transaction
  <2>1. docs[keys[i]] \in Document
    BY <1>3
  <2>2. docs[keys[i]].id \in Ids /\ docs[keys[i]].content \in StoredContent
    BY <2>1 DEF Document
  <2>3. Decode(docs[keys[i]].content) \in Content
    BY <2>2, DecodeType
  <2> QED BY <2>2, <2>3 DEF Transaction
<1> HIDE DEF object, n, keys, docs
<1>5. loaded \in Seq(Transaction) /\ Len(loaded) = n
  BY <1>3, <1>4
<1> HIDE DEF loaded
<1>6. /\ heap \in Seq(Transaction) /\ Len(heap) \in Nat
      /\ heap' \in Seq(Transaction)
      /\ Len(heap') = Len(heap) + n
  <2>1. heap \in Seq(Transaction)
    BY DEF IInv, TypeOK, ManagerTypeOK
  <2>2. /\ heap \o loaded \in Seq(Transaction)
        /\ Len(heap \o loaded) = Len(heap) + n
    BY <1>5, <2>1, ConcatProperties
  <2> QED BY <1>2, <2>1, <2>2
<1>7. ManagerTypeOK'
  <2>1. \A i \in 1 .. n : Len(heap) + i \in 1 .. Len(heap')
    BY <1>3, <1>6
  <2>2. transactions' \in Seq(1 .. Len(heap'))
    BY <1>2, <1>3, <2>1
  <2> QED BY <1>6, <2>2 DEF ManagerTypeOK
<1>8. /\ 1 .. Len(heap) \subseteq 1 .. Len(heap')
      /\ Callback(Len(heap)) \subseteq Callback(Len(heap'))
      /\ Task(Len(heap)) \subseteq Task(Len(heap'))
      /\ Block(Len(heap), Len(observers)) \subseteq Block(Len(heap'), Len(observers'))
  <2>1. Len(heap) <= Len(heap') /\ Len(heap') \in Nat
    BY <1>3, <1>6
  <2>2. Len(observers) \in Nat /\ observers' = observers
    BY <1>2 DEF IInv, TypeOK, SessionTypeOK
  <2> QED BY <1>6, <2>1, <2>2, TypesGrow
<1>9. StoreTypeOK'
  <2>1. worker' \in Seq(Task(Len(heap')))
    BY <1>2, <1>8, SeqGrows DEF IInv, TypeOK, StoreTypeOK
  <2>2. main' \in Seq(Block(Len(heap'), Len(observers')))
    BY <1>1, <1>8, SeqGrows
  <2>3. Seq(Callback(Len(heap))) \subseteq Seq(Callback(Len(heap')))
    BY <1>8, SeqGrows
  <2>4. listeners' \in [Queries -> Seq(Callback(Len(heap')))]
    BY <1>2, <2>3 DEF IInv, TypeOK, StoreTypeOK
  <2> QED BY <1>2, <2>1, <2>2, <2>4 DEF IInv, TypeOK, StoreTypeOK
<1>10. SessionTypeOK'
  <2>1. Seq(1 .. Len(heap)) \subseteq Seq(1 .. Len(heap'))
    BY <1>8, SeqGrows
  <2>2. list' \in Seq(1 .. Len(heap')) \cup {NotLoaded}
    BY <2>1 DEF IInv, TypeOK, SessionTypeOK, RunLoadCallback
  <2>3. depth' \in Nat \ {0}
    BY DEF IInv, TypeOK, SessionTypeOK, RunLoadCallback
  <2> QED BY <1>2, <2>2, <2>3 DEF IInv, TypeOK, SessionTypeOK
<1>11. ClientReady'
  BY <1>1, <1>2 DEF ClientReady
<1> QED BY <1>7, <1>9, <1>10, <1>11 DEF IInv, TypeOK

\* The deletes are of keys that were found; the SDK that answered has a client.
LEMMA RunRemoveCallbackStep == IInv /\ RunRemoveCallback => IInv'
<1> SUFFICES ASSUME IInv, RunRemoveCallback PROVE IInv'
  OBVIOUS
<1> DEFINE docs == Head(main).docs
           n == Cardinality(Found(docs))
           task(i) == WriteTask(Delete(Ascending(Found(docs))[i]))
<1>1. /\ docs \in [DocIds -> DocState] /\ fsUser # NoClient
      /\ main' \in Seq(Block(Len(heap), Len(observers)))
  BY AnsweredTypes DEF RunRemoveCallback
<1>2. /\ worker' = worker \o [i \in 1 .. n |-> task(i)]
      /\ UNCHANGED <<heap, transactions, server, cache, mutations, fsUser,
                     listeners, online, budget, history, keychain, authUser,
                     observers, depth, signIns, ousted, list, added>>
  BY DEF RunRemoveCallback, deleteFound, managerVars, sessionVars
<1>3. n \in Nat /\ \A i \in 1 .. n : Ascending(Found(docs))[i] \in DocIds
  <2> HIDE DEF docs
  <2> QED BY <1>1, FoundProperties
<1>4. \A i \in 1 .. n : task(i) \in Task(Len(heap))
  BY <1>3 DEF WriteTask, Delete, Task, Mutation
<1> HIDE DEF task, n, docs
<1>5. [i \in 1 .. n |-> task(i)] \in Seq(Task(Len(heap)))
  BY <1>3, <1>4
<1>6. StoreTypeOK'
  BY <1>1, <1>2, <1>5 DEF IInv, TypeOK, StoreTypeOK
<1>7. ManagerTypeOK'
  BY <1>2 DEF IInv, TypeOK, ManagerTypeOK
<1>8. SessionTypeOK'
  BY <1>2 DEF IInv, TypeOK, SessionTypeOK
<1> QED BY <1>1, <1>2, <1>6, <1>7, <1>8 DEF IInv, TypeOK, ClientReady

\* The object the callback refers to exists; so do the keys patched.
LEMMA RunUpdateCallbackStep == IInv /\ RunUpdateCallback => IInv'
<1> SUFFICES ASSUME IInv, RunUpdateCallback PROVE IInv'
  OBVIOUS
<1> DEFINE docs == Head(main).docs
           r == Head(main).callback.ref
           n == Cardinality(Found(docs))
           task(i) == WriteTask(Patch(Ascending(Found(docs))[i],
                                      Encode(heap[r].content)))
<1>1. /\ docs \in [DocIds -> DocState] /\ fsUser # NoClient
      /\ main' \in Seq(Block(Len(heap), Len(observers)))
      /\ Head(main).callback \in Callback(Len(heap))
      /\ Head(main).callback.kind = "update"
  BY AnsweredTypes DEF RunUpdateCallback
<1>2. /\ worker' = worker \o [i \in 1 .. n |-> task(i)]
      /\ UNCHANGED <<heap, transactions, server, cache, mutations, fsUser,
                     listeners, online, budget, history, keychain, authUser,
                     observers, depth, signIns, ousted, list, added>>
  BY DEF RunUpdateCallback, updateFound, managerVars, sessionVars
<1>3. n \in Nat /\ \A i \in 1 .. n : Ascending(Found(docs))[i] \in DocIds
  <2> HIDE DEF docs
  <2> QED BY <1>1, FoundProperties
<1>4. Encode(heap[r].content) \in StoredContent
  <2>1. r \in 1 .. Len(heap)
    BY <1>1 DEF Callback
  <2>2. heap[r] \in Transaction
    BY <2>1, ElementOfSeq DEF IInv, TypeOK, ManagerTypeOK
  <2> QED BY <2>2, EncodeType DEF Transaction
<1>5. \A i \in 1 .. n : task(i) \in Task(Len(heap))
  <2> HIDE DEF docs, n, r
  <2> QED BY <1>3, <1>4 DEF WriteTask, Patch, Task, Mutation
<1> HIDE DEF task, n, docs, r
<1>6. [i \in 1 .. n |-> task(i)] \in Seq(Task(Len(heap)))
  BY <1>3, <1>5
<1>7. StoreTypeOK'
  BY <1>1, <1>2, <1>6 DEF IInv, TypeOK, StoreTypeOK
<1>8. ManagerTypeOK'
  BY <1>2 DEF IInv, TypeOK, ManagerTypeOK
<1>9. SessionTypeOK'
  BY <1>2 DEF IInv, TypeOK, SessionTypeOK
<1> QED BY <1>1, <1>2, <1>7, <1>8, <1>9 DEF IInv, TypeOK, ClientReady

\* An error changes nothing but the main queue.
LEMMA RunErrorCallbackStep == IInv /\ RunErrorCallback => IInv'
<1> SUFFICES ASSUME IInv, RunErrorCallback PROVE IInv'
  OBVIOUS
<1>1. /\ main' \in Seq(Block(Len(heap), Len(observers)))
      /\ \A i \in DOMAIN main' : main'[i] = main[i + 1] /\ i + 1 \in DOMAIN main
  BY NextBlock DEF IInv, TypeOK, RunErrorCallback
<1>2. StoreTypeOK'
  BY <1>1 DEF IInv, TypeOK, StoreTypeOK, RunErrorCallback, managerVars, sessionVars
<1>3. ManagerTypeOK'
  BY DEF IInv, TypeOK, ManagerTypeOK, RunErrorCallback, managerVars
<1>4. SessionTypeOK'
  BY DEF IInv, TypeOK, SessionTypeOK, RunErrorCallback, managerVars, sessionVars
<1>5. ClientReady'
  BY <1>1 DEF IInv, ClientReady, RunErrorCallback, sessionVars
<1> QED BY <1>2, <1>3, <1>4, <1>5 DEF IInv, TypeOK

-----------------------------------------------------------------------------
\* The transactions tab.

\* Tabs are shown only by an SDK that has a client.
LEMMA OnTabsReady == IInv /\ OnTabs => fsUser # NoClient
<1>1. depth = 1 => ~OnTabs
  BY DEF OnTabs
<1> QED BY <1>1 DEF IInv, ClientReady

\* The table copies references to objects that exist.
LEMMA OpenTableStep == IInv /\ OpenTable => IInv'
<1> SUFFICES ASSUME IInv, OpenTable PROVE IInv'
  OBVIOUS
<1>1. StoreTypeOK'
  BY DEF IInv, TypeOK, StoreTypeOK, OpenTable, storeVars, managerVars, sessionVars
<1>2. ManagerTypeOK'
  BY DEF IInv, TypeOK, ManagerTypeOK, OpenTable, managerVars
<1>3. SessionTypeOK'
  BY DEF IInv, TypeOK, ManagerTypeOK, SessionTypeOK, OpenTable, managerVars,
         sessionVars
<1>4. ClientReady'
  BY OnTabsReady DEF ClientReady, OpenTable, storeVars
<1> QED BY <1>1, <1>2, <1>3, <1>4 DEF IInv, TypeOK

\* The new object is the last of the heap, and the reference to it the last of
\* the array and of the table.
LEMMA AddTransactionStep == IInv /\ AddTransaction => IInv'
<1> SUFFICES ASSUME IInv, AddTransaction PROVE IInv'
  OBVIOUS
<1>1. PICK x \in Ids, d \in DocIds \ UsedKeys, c \in NewContents :
        /\ addTransactions([id |-> x, content |-> c], authUser, d)
        /\ added' = [added EXCEPT ![x] =
                       [key |-> IF authUser = Nobody THEN NoKey ELSE d,
                        user |-> authUser]]
  BY DEF AddTransaction
<1>2. /\ list' = transactions'
      /\ UNCHANGED <<server, cache, mutations, fsUser, listeners, online, main,
                     budget, history, keychain, authUser, observers, depth,
                     signIns, ousted>>
  BY DEF AddTransaction, sessionVars
<1>3. /\ heap \in Seq(Transaction) /\ Len(heap) \in Nat
      /\ transactions \in Seq(1 .. Len(heap))
      /\ authUser \in Users \cup {Nobody}
  BY DEF IInv, TypeOK, ManagerTypeOK, SessionTypeOK
<1>4. c \in Content
  BY PickerAssumption DEF NewContents, Content, ReadableTypes, TransactionType
<1>5. heap' \in Seq(Transaction) /\ Len(heap') = Len(heap) + 1
  BY <1>1, <1>3, <1>4 DEF addTransactions, Transaction
<1>6. /\ 1 .. Len(heap) \subseteq 1 .. Len(heap')
      /\ Callback(Len(heap)) \subseteq Callback(Len(heap'))
      /\ Task(Len(heap)) \subseteq Task(Len(heap'))
      /\ Block(Len(heap), Len(observers)) \subseteq Block(Len(heap'), Len(observers'))
  <2>1. Len(heap) <= Len(heap') /\ Len(heap') \in Nat
    BY <1>3, <1>5
  <2>2. Len(observers) \in Nat /\ observers' = observers
    BY <1>2 DEF IInv, TypeOK, SessionTypeOK
  <2> QED BY <1>3, <2>1, <2>2, TypesGrow
<1>7. transactions' \in Seq(1 .. Len(heap'))
  <2>1. transactions \in Seq(1 .. Len(heap'))
    BY <1>3, <1>6, SeqGrows
  <2>2. Len(heap) + 1 \in 1 .. Len(heap')
    BY <1>3, <1>5
  <2> QED BY <1>1, <2>1, <2>2 DEF addTransactions
<1>8. worker' \in Seq(Task(Len(heap')))
  <2>1. worker \in Seq(Task(Len(heap')))
    BY <1>6, SeqGrows DEF IInv, TypeOK, StoreTypeOK
  <2>2. CASE authUser = Nobody
    BY <1>1, <2>1, <2>2 DEF addTransactions
  <2>3. CASE authUser # Nobody
    <3> DEFINE document == [id |-> x, user_id |-> authUser, content |-> Encode(c)]
    <3>1. document \in Document
      BY <1>3, <1>4, <2>3, EncodeType DEF Document
    <3>2. worker' = Append(worker, WriteTask(Set(d, document)))
      BY <1>1, <2>3 DEF addTransactions
    <3> HIDE DEF document
    <3>3. WriteTask(Set(d, document)) \in Task(Len(heap'))
      BY <3>1 DEF WriteTask, Set, Mutation, Task
    <3> QED BY <2>1, <3>2, <3>3
  <2> QED BY <2>2, <2>3
<1>9. StoreTypeOK'
  <2>1. main' \in Seq(Block(Len(heap'), Len(observers')))
    BY <1>2, <1>6, SeqGrows DEF IInv, TypeOK, StoreTypeOK
  <2>2. Seq(Callback(Len(heap))) \subseteq Seq(Callback(Len(heap')))
    BY <1>6, SeqGrows
  <2>3. listeners' \in [Queries -> Seq(Callback(Len(heap')))]
    BY <1>2, <2>2 DEF IInv, TypeOK, StoreTypeOK
  <2> QED BY <1>2, <1>8, <2>1, <2>3 DEF IInv, TypeOK, StoreTypeOK
<1>10. SessionTypeOK'
  <2>1. added' \in [Ids -> [key : DocIds \cup {NoKey},
                           user : Users \cup {Nobody}] \cup {NotAdded}]
    BY <1>1, <1>3 DEF IInv, TypeOK, SessionTypeOK
  <2> QED BY <1>2, <1>7, <2>1 DEF IInv, TypeOK, SessionTypeOK
<1>11. ClientReady'
  BY <1>2, OnTabsReady DEF ClientReady, AddTransaction
<1> QED BY <1>5, <1>7, <1>9, <1>10, <1>11 DEF IInv, TypeOK, ManagerTypeOK

\* The rows of a table are objects.
LEMMA RowTypes ==
    ASSUME IInv, list # NotLoaded, NEW row \in DOMAIN list
    PROVE  /\ list \in Seq(1 .. Len(heap))
           /\ list[row] \in 1 .. Len(heap)
           /\ heap[list[row]] \in Transaction
           /\ ById(heap[list[row]].id) \in Queries
<1>1. list \in Seq(1 .. Len(heap)) /\ heap \in Seq(Transaction)
  BY DEF IInv, TypeOK, ManagerTypeOK, SessionTypeOK
<1>2. list[row] \in 1 .. Len(heap)
  BY <1>1
<1>3. heap[list[row]] \in Transaction
  BY <1>1, <1>2, ElementOfSeq
<1>4. ById(heap[list[row]].id) \in Queries
  BY <1>3 DEF Transaction, Queries
<1> QED BY <1>1, <1>2, <1>3, <1>4

\* An edit keeps the object's place in the heap; its callback refers to it.
LEMMA SaveEditStep == IInv /\ SaveEdit => IInv'
<1> SUFFICES ASSUME IInv, SaveEdit PROVE IInv'
  OBVIOUS
<1>1. PICK row \in DOMAIN list :
        \E c \in EditedContents(heap[list[row]].content) :
           updatetransaction(list[row], c)
  BY DEF SaveEdit
<1> DEFINE r == list[row]
<1>2. PICK c \in EditedContents(heap[r].content) : updatetransaction(r, c)
  BY <1>1
<1>3. r \in 1 .. Len(heap) /\ heap[r] \in Transaction /\ ById(heap[r].id) \in Queries
  BY RowTypes DEF SaveEdit
<1> HIDE DEF r
<1>4. UNCHANGED <<server, cache, mutations, fsUser, listeners, online, main,
                  history, keychain, authUser, observers, depth, signIns, ousted, list,
                  added>>
  BY DEF SaveEdit, sessionVars
<1>5. budget' \in [Event -> Nat]
  BY SpendType DEF IInv, TypeOK, StoreTypeOK, SaveEdit, Event
<1>6. c \in Content
  <2>1. heap[r].content \in Content
    BY <1>3 DEF Transaction
  <2> QED BY <2>1, PickerAssumption
          DEF EditedContents, Content, ReadableTypes, TransactionType
<1>7. heap' \in Seq(Transaction) /\ Len(heap') = Len(heap)
  <2>1. heap \in Seq(Transaction)
    BY DEF IInv, TypeOK, ManagerTypeOK
  <2>2. [heap[r] EXCEPT !.content = c] \in Transaction
    BY <1>3, <1>6 DEF Transaction
  <2>3. heap' = [heap EXCEPT ![r] = [heap[r] EXCEPT !.content = c]]
    BY <1>2 DEF updatetransaction
  <2> QED BY <1>3, <2>1, <2>2, <2>3, ExceptSeq
<1> DEFINE found == PositionsOf(transactions, heap[r].id)
<1>8. /\ transactions' \in Seq(1 .. Len(heap))
      /\ worker' \in Seq(Task(Len(heap)))
  <2>1. transactions \in Seq(1 .. Len(heap)) /\ worker \in Seq(Task(Len(heap)))
    BY DEF IInv, TypeOK, ManagerTypeOK, StoreTypeOK
  <2>2. CASE found = {}
    BY <1>2, <2>1, <2>2 DEF updatetransaction
  <2>3. CASE found # {}
    <3>1. /\ transactions' = [transactions EXCEPT ![Ascending(found)[1]] = r]
          /\ worker' = Append(worker, ListenTask(ById(heap[r].id), UpdateCallback(r)))
      BY <1>2, <2>3 DEF updatetransaction
    <3>2. ListenTask(ById(heap[r].id), UpdateCallback(r)) \in Task(Len(heap))
      BY <1>3 DEF ListenTask, UpdateCallback, Callback, Task
    <3>3. transactions' \in Seq(1 .. Len(heap))
      <4>1. Len(transactions) \in Nat
            /\ transactions \in [1 .. Len(transactions) -> 1 .. Len(heap)]
        BY <2>1
      <4>2. transactions' \in [1 .. Len(transactions) -> 1 .. Len(heap)]
        BY <1>3, <3>1, <4>1
      <4>3. \A l \in Nat : [1 .. l -> 1 .. Len(heap)] \subseteq Seq(1 .. Len(heap))
        OBVIOUS
      <4> QED BY <4>1, <4>2, <4>3
    <3> QED BY <2>1, <3>1, <3>2, <3>3
  <2> QED BY <2>2, <2>3
<1>9. StoreTypeOK'
  BY <1>4, <1>5, <1>7, <1>8 DEF IInv, TypeOK, StoreTypeOK
<1>10. SessionTypeOK'
  BY <1>4, <1>7 DEF IInv, TypeOK, SessionTypeOK
<1>11. ClientReady'
  BY <1>4, OnTabsReady DEF ClientReady, SaveEdit
<1> QED BY <1>7, <1>8, <1>9, <1>10, <1>11 DEF IInv, TypeOK, ManagerTypeOK

\* The rows and entries that stay refer to objects that exist.
LEMMA DeleteTransactionStep == IInv /\ DeleteTransaction => IInv'
<1> SUFFICES ASSUME IInv, DeleteTransaction PROVE IInv'
  OBVIOUS
<1>1. PICK row \in DOMAIN list :
        /\ list' = Subsequence(list, DOMAIN list \ {row})
        /\ removeTransaction(heap[list[row]].id)
  BY DEF DeleteTransaction
<1>2. list \in Seq(1 .. Len(heap)) /\ ById(heap[list[row]].id) \in Queries
  BY RowTypes DEF DeleteTransaction
<1>3. /\ heap' = heap
      /\ UNCHANGED <<server, cache, mutations, fsUser, listeners, online, main,
                     history, keychain, authUser, observers, depth, signIns, ousted,
                     added>>
  BY <1>1 DEF DeleteTransaction, removeTransaction, sessionVars
<1>4. budget' \in [Event -> Nat]
  BY SpendType DEF IInv, TypeOK, StoreTypeOK, DeleteTransaction, Event
<1>5. list' \in Seq(1 .. Len(heap))
  BY <1>1, <1>2, SubsequenceType
<1>6. transactions' \in Seq(1 .. Len(heap))
  <2>1. transactions \in Seq(1 .. Len(heap))
    BY DEF IInv, TypeOK, ManagerTypeOK
  <2> QED BY <1>1, <2>1, SubsequenceType DEF removeTransaction
<1>7. worker' \in Seq(Task(Len(heap)))
  <2>1. ListenTask(ById(heap[list[row]].id), RemoveCallback) \in Task(Len(heap))
    BY <1>2 DEF ListenTask, RemoveCallback, Callback, Task
  <2> QED BY <1>1, <2>1 DEF IInv, TypeOK, StoreTypeOK, removeTransaction
<1>8. StoreTypeOK'
  BY <1>3, <1>4, <1>7 DEF IInv, TypeOK, StoreTypeOK
<1>9. ManagerTypeOK'
  BY <1>3, <1>6 DEF IInv, TypeOK, ManagerTypeOK
<1>10. SessionTypeOK'
  BY <1>3, <1>5 DEF IInv, TypeOK, SessionTypeOK
<1>11. ClientReady'
  BY <1>3, OnTabsReady DEF ClientReady, DeleteTransaction
<1> QED BY <1>8, <1>9, <1>10, <1>11 DEF IInv, TypeOK

-----------------------------------------------------------------------------
\* Every step keeps the invariant.
LEMMA Invariance == IInv /\ [Next]_vars => IInv'
<1> SUFFICES ASSUME IInv, [Next]_vars PROVE IInv'
  OBVIOUS
<1>1. CASE UserStep
  BY <1>1, SendSignInStep, SignOutStep, ReturnFromSignUpStep, OpenTableStep,
     AddTransactionStep, SaveEditStep, DeleteTransactionStep DEF UserStep
<1>2. CASE MainStep
  BY <1>2, RunAuthBlockStep, RunInitialBlockStep, RunLoadCallbackStep,
     RunRemoveCallbackStep, RunUpdateCallbackStep, RunErrorCallbackStep DEF MainStep
<1>3. CASE AuthStep
  BY <1>3, LoadKeychainStep, RefreshTokenStep, SignOutByForceStep,
     SignInAnsweredStep, SignInRefusedStep DEF AuthStep
<1>4. CASE Crash
  BY <1>4, CrashStep
<1>5. CASE Frame /\ StoreStep({Encode(c) : c \in NewContents})
  BY <1>5, StoreSteps
<1>6. CASE UNCHANGED vars
  <2>1. StoreTypeOK' /\ ManagerTypeOK' /\ SessionTypeOK'
    BY <1>6 DEF IInv, TypeOK, StoreTypeOK, ManagerTypeOK, SessionTypeOK, vars
  <2>2. ClientReady'
    BY <1>6 DEF IInv, ClientReady, vars
  <2> QED BY <2>1, <2>2 DEF IInv, TypeOK
<1> QED BY <1>1, <1>2, <1>3, <1>4, <1>5, <1>6 DEF Next

\* The program keeps its types, for any number of users, documents and events:
\* in particular every reference held by the manager's array, the table's copy
\* of it or a pending callback denotes an object that exists.
THEOREM TypeCorrect == Spec => []TypeOK
<1>1. IInv => TypeOK
  BY DEF IInv
<1> QED BY <1>1, InitTypes, Invariance, PTL DEF Spec

-----------------------------------------------------------------------------
\* Who sees the tabs.

\* The callbacks still to be run: on the worker queue, registered, answered.
OnWorkerQueue == {worker[i].callback :
                    i \in {j \in DOMAIN worker : worker[j].kind = "listen"}}
Registered == UNION {{listeners[q][i] : i \in DOMAIN listeners[q]} : q \in Queries}
OnMainQueue == {main[i].callback :
                  i \in {j \in DOMAIN main : main[j].kind = "snapshot"}}

Awaited == OnWorkerQueue \cup Registered \cup OnMainQueue

\* There is a user, or Auth has signed the last one out by itself.
Accounted == authUser # Nobody \/ ousted # Nobody

\* The login controller of the load c is not above the topmost one, and if it
\* is the topmost one, someone is signed in or was until Auth intervened.
Expected(c) ==
    c.kind = "load" => /\ c.login \in Nat
                       /\ 2 * c.login <= depth + 1
                       /\ 2 * c.login <= depth \/ Accounted

OnTime == \A c \in Awaited : Expected(c)

\* No listener belongs to a controller above the topmost one.
Listening == \A i \in DOMAIN observers : 2 * observers[i].login <= depth + 1

\* The inductive invariant.
Presence == IInv /\ TabsAreSignedIn /\ Listening /\ OnTime

\* If c is a load, it is one that a listener asks for on behalf of a user it has
\* not been called with last.
Fresh(c) == c.kind = "load" =>
                /\ authUser # Nobody
                /\ \E i \in DOMAIN observers : /\ c.login = observers[i].login
                                               /\ observers[i].prev # authUser

\* Every callback to be run after the step was so before, or is fresh.
NoStrayLoad == \A c \in Awaited' : c \in Awaited \/ Fresh(c)

-----------------------------------------------------------------------------
\* The queues.

\* What is left of the main queue was in it before.
LEMMA TailOfMain ==
    ASSUME StoreTypeOK, main # << >>, main' = Tail(main)
    PROVE  OnMainQueue' \subseteq OnMainQueue
<1>1. \A i \in DOMAIN Tail(main) : /\ i + 1 \in DOMAIN main
                                   /\ Tail(main)[i] = main[i + 1]
  BY DEF StoreTypeOK
<1> QED BY <1>1 DEF OnMainQueue

\* Blocks appended to it add what they answer.
LEMMA AppendedBlocks ==
    ASSUME StoreTypeOK, NEW T, NEW t \in Seq(T), main' = main \o t
    PROVE  \A c \in OnMainQueue' :
              \/ c \in OnMainQueue
              \/ \E j \in DOMAIN t : t[j].kind = "snapshot" /\ t[j].callback = c
<1> SUFFICES ASSUME NEW i \in DOMAIN main', main'[i].kind = "snapshot"
             PROVE  \/ main'[i].callback \in OnMainQueue
                    \/ \E j \in DOMAIN t : /\ t[j].kind = "snapshot"
                                           /\ t[j].callback = main'[i].callback
  BY DEF OnMainQueue
<1>1. main \in Seq(Block(Len(heap), Len(observers)))
  BY DEF StoreTypeOK
<1>2. \/ i \in DOMAIN main /\ main'[i] = main[i]
      \/ \E j \in DOMAIN t : main'[i] = t[j]
  BY <1>1, ElementOfConcat
<1> QED BY <1>2 DEF OnMainQueue

\* One block that is no answer adds none.
LEMMA AppendedBlock ==
    ASSUME StoreTypeOK, NEW b, b.kind # "snapshot", main' = Append(main, b)
    PROVE  OnMainQueue' \subseteq OnMainQueue
<1>1. main' = main \o <<b>> /\ <<b>> \in Seq({b})
  BY DEF StoreTypeOK
<1>2. \A j \in DOMAIN <<b>> : <<b>>[j].kind # "snapshot"
  OBVIOUS
<1> QED BY <1>1, <1>2, AppendedBlocks

\* What is left of the worker queue was in it before.
LEMMA TailOfWorkerQueue ==
    ASSUME StoreTypeOK, worker # << >>, worker' = Tail(worker)
    PROVE  /\ OnWorkerQueue' \subseteq OnWorkerQueue
           /\ Head(worker).kind = "listen" => Head(worker).callback \in OnWorkerQueue
<1>1. /\ \A i \in DOMAIN Tail(worker) : /\ i + 1 \in DOMAIN worker
                                        /\ Tail(worker)[i] = worker[i + 1]
      /\ 1 \in DOMAIN worker /\ Head(worker) = worker[1]
  BY DEF StoreTypeOK
<1> QED BY <1>1 DEF OnWorkerQueue

\* Tasks appended to it add what they look up.
LEMMA AppendedLookUps ==
    ASSUME NEW S, worker \in Seq(S), NEW T, NEW t \in Seq(T),
           worker' = worker \o t,
           \A j \in DOMAIN t : t[j].kind = "listen" => Fresh(t[j].callback)
    PROVE  \A c \in OnWorkerQueue' : c \in OnWorkerQueue \/ Fresh(c)
<1> SUFFICES ASSUME NEW i \in DOMAIN worker', worker'[i].kind = "listen"
             PROVE  \/ worker'[i].callback \in OnWorkerQueue
                    \/ Fresh(worker'[i].callback)
  BY DEF OnWorkerQueue
<1>1. \/ i \in DOMAIN worker /\ worker'[i] = worker[i]
      \/ \E j \in DOMAIN t : worker'[i] = t[j]
  BY ElementOfConcat
<1> QED BY <1>1 DEF OnWorkerQueue

\* Queues that stay as they are add nothing.
LEMMA QueuesKept ==
    /\ worker' = worker => OnWorkerQueue' = OnWorkerQueue
    /\ listeners' = listeners => Registered' = Registered
    /\ main' = main => OnMainQueue' = OnMainQueue
BY DEF OnWorkerQueue, Registered, OnMainQueue

-----------------------------------------------------------------------------
\* Which callbacks a step adds.

\* A listener that is registered was on the worker queue.
LEMMA AddListenerStrays == IInv /\ Frame /\ AddListener => NoStrayLoad
<1> SUFFICES ASSUME IInv, AddListener PROVE NoStrayLoad
  OBVIOUS
<1>1. StoreTypeOK /\ ManagerTypeOK
  BY DEF IInv, TypeOK
<1>2. /\ OnWorkerQueue' \subseteq OnWorkerQueue
      /\ Head(worker).callback \in OnWorkerQueue
  BY <1>1, TailOfWorkerQueue DEF AddListener
<1>3. ASSUME NEW c \in Registered'
      PROVE  c \in Registered \/ c = Head(worker).callback
  <2>0. PICK q \in Queries : \E i \in DOMAIN listeners'[q] : c = listeners'[q][i]
    BY DEF Registered
  <2>1. PICK i \in DOMAIN listeners'[q] : c = listeners'[q][i]
    BY <2>0
  <2>2. listeners[q] \in Seq(Callback(Len(heap)))
    BY <1>1 DEF StoreTypeOK
  <2>3. \/ listeners'[q] = listeners[q]
        \/ listeners'[q] = Append(listeners[q], Head(worker).callback)
    BY <1>1 DEF AddListener, StoreTypeOK
  <2>4. \/ i \in DOMAIN listeners[q] /\ c = listeners[q][i]
        \/ c = Head(worker).callback
    BY <2>1, <2>2, <2>3
  <2> QED BY <2>4 DEF Registered
<1> QED BY <1>2, <1>3, QueuesKept DEF NoStrayLoad, Awaited, AddListener

\* A listener that is raised was registered.
LEMMA RaiseStrays ==
    ASSUME IInv, NEW q \in Queries, NEW T, NEW t \in Seq(T),
           main' = main \o t, listeners' = [listeners EXCEPT ![q] = << >>],
           worker' = worker,
           \A j \in DOMAIN t : t[j].kind = "snapshot" =>
                \E i \in DOMAIN listeners[q] : t[j].callback = listeners[q][i]
    PROVE  NoStrayLoad
<1>1. StoreTypeOK
  BY DEF IInv, TypeOK
<1>2. ASSUME NEW c \in OnMainQueue'
      PROVE  c \in OnMainQueue \cup Registered
  <2>1. \/ c \in OnMainQueue
        \/ \E j \in DOMAIN t : t[j].kind = "snapshot" /\ t[j].callback = c
    BY <1>1, <1>2, AppendedBlocks
  <2>2. (\E i \in DOMAIN listeners[q] : c = listeners[q][i]) => c \in Registered
    BY DEF Registered
  <2> QED BY <2>1, <2>2
<1>3. Registered' \subseteq Registered
  BY <1>1 DEF Registered, StoreTypeOK
<1> QED BY <1>2, <1>3, QueuesKept DEF NoStrayLoad, Awaited

\* All raised listeners of the SDK.
LEMMA AnswerStrays ==
    ASSUME IInv, NEW q \in Queries,
           RaiseFromServer(q) \/ RaiseFromCache(q) \/ RejectListen(q)
    PROVE  NoStrayLoad
<1> DEFINE n == Len(listeners[q])
<1>1. listeners[q] \in Seq(Callback(Len(heap))) /\ n \in Nat /\ DOMAIN listeners[q] = 1 .. n
  BY DEF IInv, TypeOK, StoreTypeOK
<1>2. ASSUME NEW docs,
             main' = main \o [i \in 1 .. n |-> SnapshotBlock(listeners[q][i], docs)],
             listeners' = [listeners EXCEPT ![q] = << >>], worker' = worker
      PROVE  NoStrayLoad
  <2> DEFINE block(i) == SnapshotBlock(listeners[q][i], docs)
             S == {block(i) : i \in 1 .. n}
             t == [i \in 1 .. n |-> block(i)]
  <2>1. \A i \in 1 .. n : block(i) \in S /\ block(i).callback = listeners[q][i]
    BY DEF SnapshotBlock
  <2> HIDE DEF block, S, n
  <2>2. t \in Seq(S) /\ DOMAIN t = 1 .. n /\ \A i \in 1 .. n : t[i] = block(i)
    BY <1>1, <2>1
  <2>3. main' = main \o t
    BY <1>2 DEF block, n
  <2> HIDE DEF t
  <2>4. \A j \in DOMAIN t : t[j].kind = "snapshot" =>
           \E i \in DOMAIN listeners[q] : t[j].callback = listeners[q][i]
    BY <1>1, <2>1, <2>2
  <2> QED BY <1>2, <2>2, <2>3, <2>4, RaiseStrays
<1>3. ASSUME main' = main \o [i \in 1 .. n |-> ErrorBlock(listeners[q][i])],
             listeners' = [listeners EXCEPT ![q] = << >>], worker' = worker
      PROVE  NoStrayLoad
  <2> DEFINE block(i) == ErrorBlock(listeners[q][i])
             S == {block(i) : i \in 1 .. n}
             t == [i \in 1 .. n |-> block(i)]
  <2>1. \A i \in 1 .. n : block(i) \in S /\ block(i).kind # "snapshot"
    BY DEF ErrorBlock
  <2> HIDE DEF block, S, n
  <2>2. t \in Seq(S) /\ DOMAIN t = 1 .. n /\ \A i \in 1 .. n : t[i] = block(i)
    BY <1>1, <2>1
  <2>3. main' = main \o t
    BY <1>3 DEF block, n
  <2> HIDE DEF t
  <2>4. \A j \in DOMAIN t : t[j].kind = "snapshot" =>
           \E i \in DOMAIN listeners[q] : t[j].callback = listeners[q][i]
    BY <1>1, <2>1, <2>2
  <2> QED BY <1>3, <2>2, <2>3, <2>4, RaiseStrays
<1>4. CASE RaiseFromServer(q)
  BY <1>2, <1>4 DEF RaiseFromServer, Raise
<1>5. CASE RaiseFromCache(q)
  BY <1>2, <1>5 DEF RaiseFromCache, Raise
<1>6. CASE RejectListen(q)
  BY <1>3, <1>6 DEF RejectListen, Raise
<1> QED BY <1>4, <1>5, <1>6

\* No other step of the SDK or the server adds one.
LEMMA StoreStrays ==
    ASSUME IInv, Frame, StoreStep({Encode(c) : c \in NewContents})
    PROVE  NoStrayLoad
<1>1. CASE UserDidChange \/ WriteMutations
  BY <1>1, TailOfWorkerQueue, QueuesKept
     DEF UserDidChange, WriteMutations, IInv, TypeOK, NoStrayLoad, Awaited
<1>2. CASE AddListener
  BY <1>2, AddListenerStrays
<1>3. CASE \E q \in Queries : \/ RaiseFromServer(q) \/ RaiseFromCache(q)
                              \/ RejectListen(q)
  BY <1>3, AnswerStrays
<1>4. CASE \/ ApplySuccessfulWrite \/ CommitWithoutResponse \/ RejectFailedWrite
           \/ GoOffline \/ GoOnline \/ OtherDevice({Encode(c) : c \in NewContents})
  <2>1. UNCHANGED <<worker, listeners, main>>
    BY <1>4 DEF ApplySuccessfulWrite, CommitWithoutResponse, RejectFailedWrite,
       GoOffline, GoOnline, OtherDevice
  <2> QED BY <2>1, QueuesKept DEF NoStrayLoad, Awaited
<1> QED BY <1>1, <1>2, <1>3, <1>4 DEF StoreStep

\* Listeners that are called ask for loads that are fresh.
LEMMA NotifyStrays ==
    ASSUME IInv, RunAuthBlock \/ RunInitialBlock
    PROVE  NoStrayLoad
<1>1. /\ StoreTypeOK /\ ManagerTypeOK /\ SessionTypeOK /\ TypeOK
      /\ main # << >> /\ main' = Tail(main) /\ listeners' = listeners
      /\ Head(main) \in Block(Len(heap), Len(observers))
  BY NextBlock DEF IInv, TypeOK, RunAuthBlock, RunInitialBlock
<1>2. PICK I \in SUBSET DOMAIN observers, tasks \in Seq(Task(Len(heap))) :
        Notify(I, tasks) /\ \A j \in DOMAIN tasks : tasks[j].kind # "listen"
  <2>1. CASE RunAuthBlock
    <3> DEFINE u == Head(main).user
    <3>1. UserTask(u) \in Task(Len(heap)) /\ UserTask(u).kind # "listen"
      BY <1>1, <2>1 DEF RunAuthBlock, Block, UserTask, Task
    <3>2. \/ Notify(DOMAIN observers, << >>)
          \/ Notify(DOMAIN observers, <<UserTask(u)>>)
      BY <2>1 DEF RunAuthBlock
    <3> DEFINE task == UserTask(u)
    <3> HIDE DEF task
    <3>3. /\ << >> \in Seq(Task(Len(heap))) /\ <<task>> \in Seq(Task(Len(heap)))
          /\ \A j \in DOMAIN << >> : << >>[j].kind # "listen"
          /\ \A j \in DOMAIN <<task>> : <<task>>[j].kind # "listen"
      BY <3>1 DEF task
    <3> QED BY <3>2, <3>3 DEF task
  <2>2. CASE RunInitialBlock
    <3>1. Notify({Head(main).observer}, << >>)
      BY <2>2 DEF RunInitialBlock
    <3>2. {Head(main).observer} \in SUBSET DOMAIN observers
      <4>1. Head(main).observer \in 1 .. Len(observers)
        BY <1>1, <2>2 DEF RunInitialBlock, Block
      <4> QED BY <1>1, <4>1 DEF SessionTypeOK
    <3>3. << >> \in Seq(Task(Len(heap))) /\ \A j \in DOMAIN << >> : << >>[j].kind # "listen"
      OBVIOUS
    <3> QED BY <3>1, <3>2, <3>3
  <2> QED BY <2>1, <2>2
<1>3. /\ worker' = worker \o tasks \o Asked(I)
      /\ Asked(I) \in Seq({Asked(I)[j] : j \in DOMAIN Asked(I)})
      /\ \A j \in DOMAIN Asked(I) :
            /\ authUser # Nobody
            /\ \E i \in I : /\ observers[i].prev # authUser
                            /\ Asked(I)[j] = ListenTask(ByUser(authUser),
                                               LoadCallback(observers[i].login))
  BY <1>1, <1>2, NotifyAsks
<1>4. \A j \in DOMAIN Asked(I) : Fresh(Asked(I)[j].callback)
  BY <1>2, <1>3 DEF Fresh, ListenTask, LoadCallback
<1> DEFINE S == {Asked(I)[j] : j \in DOMAIN Asked(I)}
           t == tasks \o Asked(I)
<1>5. Asked(I) \in Seq(S)
  BY <1>3
<1> HIDE DEF S
<1>6. /\ t \in Seq(Task(Len(heap)) \cup S)
      /\ worker' = worker \o t /\ worker \in Seq(Task(Len(heap)))
  <2>1. /\ tasks \in Seq(Task(Len(heap)) \cup S) /\ Asked(I) \in Seq(Task(Len(heap)) \cup S)
        /\ worker \in Seq(Task(Len(heap)) \cup S)
    BY <1>1, <1>5, SeqGrows DEF StoreTypeOK
  <2>2. (worker \o tasks) \o Asked(I) = worker \o (tasks \o Asked(I))
    BY <2>1, ConcatAssociative
  <2>3. worker \in Seq(Task(Len(heap)))
    BY <1>1 DEF StoreTypeOK
  <2> QED BY <1>3, <2>1, <2>2, <2>3
<1>7. \A j \in DOMAIN t : t[j].kind = "listen" => Fresh(t[j].callback)
  <2>1. ASSUME NEW j \in DOMAIN t
        PROVE  \/ j \in DOMAIN tasks /\ t[j] = tasks[j]
               \/ \E k \in DOMAIN Asked(I) : t[j] = Asked(I)[k]
    BY <1>5, ElementOfConcat
  <2> HIDE DEF t
  <2> QED BY <1>2, <1>4, <2>1
<1> HIDE DEF t
<1>8. \A c \in OnWorkerQueue' : c \in OnWorkerQueue \/ Fresh(c)
  BY <1>6, <1>7, AppendedLookUps
<1>9. OnMainQueue' \subseteq OnMainQueue
  BY <1>1, TailOfMain
<1> QED BY <1>1, <1>8, <1>9, QueuesKept DEF NoStrayLoad, Awaited

\* A load callback that is run adds nothing; the deletes and patches of the
\* other callbacks are no lookups.
LEMMA CallbackStrays ==
    ASSUME IInv, RunLoadCallback \/ RunRemoveCallback \/ RunUpdateCallback
    PROVE  NoStrayLoad
<1>1. /\ StoreTypeOK /\ main # << >> /\ main' = Tail(main) /\ listeners' = listeners
  BY DEF IInv, TypeOK, RunLoadCallback, RunRemoveCallback, RunUpdateCallback, Answered
<1>2. OnMainQueue' \subseteq OnMainQueue
  BY <1>1, TailOfMain
<1>3. CASE RunLoadCallback
  BY <1>1, <1>2, <1>3, QueuesKept
     DEF RunLoadCallback, setLoadedTransactions, NoStrayLoad, Awaited
<1>4. CASE RunRemoveCallback \/ RunUpdateCallback
  <2> DEFINE docs == Head(main).docs
             n == Cardinality(Found(docs))
             removal(i) == Delete(Ascending(Found(docs))[i])
             patch(i) == Patch(Ascending(Found(docs))[i],
                               Encode(heap[Head(main).callback.ref].content))
  <2>1. docs \in [DocIds -> DocState]
    BY <1>4, AnsweredTypes DEF RunRemoveCallback, RunUpdateCallback
  <2>2. n \in Nat
    <3> HIDE DEF docs
    <3> QED BY <2>1, FoundProperties
  <2>3. \/ worker' = worker \o [i \in 1 .. n |-> WriteTask(removal(i))]
        \/ worker' = worker \o [i \in 1 .. n |-> WriteTask(patch(i))]
    BY <1>4 DEF RunRemoveCallback, deleteFound, RunUpdateCallback, updateFound
  <2> HIDE DEF removal, patch, n
  <2>4. PICK write : worker' = worker \o [i \in 1 .. n |-> WriteTask(write[i])]
    <3>1. CASE worker' = worker \o [i \in 1 .. n |-> WriteTask(removal(i))]
      <4> DEFINE w == [i \in 1 .. n |-> removal(i)]
      <4>1. worker' = worker \o [i \in 1 .. n |-> WriteTask(w[i])]
        BY <3>1
      <4> HIDE DEF w
      <4> QED BY <4>1
    <3>2. CASE worker' = worker \o [i \in 1 .. n |-> WriteTask(patch(i))]
      <4> DEFINE w == [i \in 1 .. n |-> patch(i)]
      <4>1. worker' = worker \o [i \in 1 .. n |-> WriteTask(w[i])]
        BY <3>2
      <4> HIDE DEF w
      <4> QED BY <4>1
    <3> QED BY <2>3, <3>1, <3>2
  <2> DEFINE t == [i \in 1 .. n |-> WriteTask(write[i])]
             S == {WriteTask(write[i]) : i \in 1 .. n}
  <2>5. \A i \in 1 .. n : WriteTask(write[i]) \in S /\ WriteTask(write[i]).kind # "listen"
    BY DEF WriteTask
  <2> HIDE DEF S
  <2>6. t \in Seq(S) /\ \A i \in DOMAIN t : t[i].kind # "listen"
    BY <2>2, <2>5
  <2>7. worker \in Seq(Task(Len(heap))) /\ worker' = worker \o t
    BY <1>1, <2>4 DEF StoreTypeOK
  <2> HIDE DEF t
  <2>8. \A c \in OnWorkerQueue' : c \in OnWorkerQueue \/ Fresh(c)
    BY <2>6, <2>7, AppendedLookUps
  <2> QED BY <1>1, <1>2, <2>8, QueuesKept DEF NoStrayLoad, Awaited
<1> QED BY <1>3, <1>4

\* An addition writes; an edit and a deletion ask for lookups that are no loads.
LEMMA TabStrays ==
    ASSUME IInv, AddTransaction \/ SaveEdit \/ DeleteTransaction
    PROVE  NoStrayLoad
<1>1. StoreTypeOK /\ UNCHANGED <<main, listeners>>
  BY DEF IInv, TypeOK, AddTransaction, SaveEdit, DeleteTransaction
<1>2. \/ worker' = worker
      \/ \E m : worker' = Append(worker, WriteTask(m))
      \/ \E q, r : worker' = Append(worker, ListenTask(q, UpdateCallback(r)))
      \/ \E q : worker' = Append(worker, ListenTask(q, RemoveCallback))
  BY DEF AddTransaction, addTransactions, SaveEdit, updatetransaction,
         DeleteTransaction, removeTransaction
<1>3. ASSUME NEW task, worker' = Append(worker, task),
             task.kind = "listen" => task.callback.kind # "load"
      PROVE  \A c \in OnWorkerQueue' : c \in OnWorkerQueue \/ Fresh(c)
  <2>1. /\ worker \in Seq(Task(Len(heap))) /\ worker' = worker \o <<task>>
        /\ <<task>> \in Seq({task})
    BY <1>1, <1>3 DEF StoreTypeOK
  <2>2. \A j \in DOMAIN <<task>> :
           <<task>>[j].kind = "listen" => Fresh(<<task>>[j].callback)
    BY <1>3 DEF Fresh
  <2> QED BY <2>1, <2>2, AppendedLookUps
<1>4. \A c \in OnWorkerQueue' : c \in OnWorkerQueue \/ Fresh(c)
  <2>1. \A m : WriteTask(m).kind # "listen"
    BY DEF WriteTask
  <2>2. /\ \A q, r : ListenTask(q, UpdateCallback(r)).callback.kind # "load"
        /\ \A q : ListenTask(q, RemoveCallback).callback.kind # "load"
    BY DEF ListenTask, UpdateCallback, RemoveCallback
  <2> QED BY <1>2, <1>3, <2>1, <2>2, QueuesKept
<1> QED BY <1>1, <1>4, QueuesKept DEF NoStrayLoad, Awaited

\* The steps of Auth put blocks on the main queue that are no answers.
LEMMA SessionStrays ==
    ASSUME IInv, LoadKeychain \/ (\E u \in Users : SignInAnswered(u)) \/ RefreshToken
                 \/ SignOutByForce \/ SignOut \/ ReturnFromSignUp
    PROVE  NoStrayLoad
<1>1. StoreTypeOK /\ UNCHANGED <<worker, listeners>>
  BY DEF IInv, TypeOK, LoadKeychain, SignInAnswered, RefreshToken, SignOutByForce,
         SignOut, ReturnFromSignUp
<1>2. CASE LoadKeychain \/ (\E u \in Users : SignInAnswered(u)) \/ RefreshToken
           \/ SignOutByForce \/ ReturnFromSignUp
  <2>1. \/ \E u : main' = Append(main, AuthBlock(u))
        \/ \E i : main' = Append(main, InitialBlock(i))
    BY <1>2 DEF LoadKeychain, SignInAnswered, RefreshToken, SignOutByForce,
                ReturnFromSignUp, checkLoggedIn
  <2>2. /\ \A u : AuthBlock(u).kind # "snapshot"
        /\ \A i : InitialBlock(i).kind # "snapshot"
    BY DEF AuthBlock, InitialBlock
  <2>3. OnMainQueue' \subseteq OnMainQueue
    BY <1>1, <2>1, <2>2, AppendedBlock
  <2> QED BY <1>1, <2>3, QueuesKept DEF NoStrayLoad, Awaited
<1>3. CASE SignOut
  <2> DEFINE a == AuthBlock(Nobody)
             b == InitialBlock(Len(observers) + 1)
  <2>1. main' = Append(Append(main, a), b) \/ main' = Append(main, b)
    <3>1. CASE authUser = Nobody
      BY <1>3, <3>1 DEF SignOut, checkLoggedIn
    <3>2. CASE authUser # Nobody
      BY <1>3, <3>2 DEF SignOut, checkLoggedIn
    <3> QED BY <3>1, <3>2
  <2>2. a.kind # "snapshot" /\ b.kind # "snapshot"
    BY DEF AuthBlock, InitialBlock
  <2> HIDE DEF a, b
  <2>3. ASSUME main' = Append(Append(main, a), b)
        PROVE  OnMainQueue' \subseteq OnMainQueue
    <3> DEFINE S == Block(Len(heap), Len(observers)) \cup {a, b}
    <3>1. main' = main \o <<a, b>> /\ <<a, b>> \in Seq({a, b})
      <4>1. main \in Seq(S) /\ a \in S /\ b \in S
        BY <1>1, SeqGrows DEF StoreTypeOK
      <4> HIDE DEF S
      <4> QED BY <2>3, <4>1
    <3>2. \A j \in DOMAIN <<a, b>> : <<a, b>>[j].kind # "snapshot"
      BY <2>2
    <3> QED BY <1>1, <3>1, <3>2, AppendedBlocks
  <2>4. ASSUME main' = Append(main, b)
        PROVE  OnMainQueue' \subseteq OnMainQueue
    BY <1>1, <2>2, <2>4, AppendedBlock
  <2>5. OnMainQueue' \subseteq OnMainQueue
    BY <2>1, <2>3, <2>4
  <2> QED BY <1>1, <2>5, QueuesKept DEF NoStrayLoad, Awaited
<1> QED BY <1>2, <1>3

\* After a crash nothing is awaited.
LEMMA CrashStrays == Crash => Awaited' = {}
BY DEF Crash, Launched, StoreCrash, InitialBlock, Awaited, OnWorkerQueue,
       Registered, OnMainQueue

\* So it is for all steps.
LEMMA NoStray ==
    ASSUME IInv, [Next]_vars
    PROVE  NoStrayLoad
<1>1. CASE UserStep
  <2>1. CASE OpenTable
    BY <2>1, QueuesKept DEF OpenTable, storeVars, NoStrayLoad, Awaited
  <2>2. CASE \E u \in Users : SendSignIn(u)
    BY <2>2, QueuesKept DEF SendSignIn, storeVars, NoStrayLoad, Awaited
  <2> QED BY <1>1, <2>1, <2>2, SessionStrays, TabStrays DEF UserStep
<1>2. CASE MainStep
  <2>1. CASE RunErrorCallback
    <3>1. OnMainQueue' \subseteq OnMainQueue
      BY <2>1, TailOfMain DEF IInv, TypeOK, RunErrorCallback
    <3> QED BY <2>1, <3>1, QueuesKept DEF RunErrorCallback, NoStrayLoad, Awaited
  <2> QED BY <1>2, <2>1, NotifyStrays, CallbackStrays DEF MainStep
<1>3. CASE AuthStep
  <2>1. CASE \E u \in Users : SignInRefused(u)
    BY <2>1, QueuesKept DEF SignInRefused, storeVars, NoStrayLoad, Awaited
  <2> QED BY <1>3, <2>1, SessionStrays DEF AuthStep
<1>4. CASE Crash
  BY <1>4, CrashStrays DEF NoStrayLoad
<1>5. CASE Frame /\ StoreStep({Encode(c) : c \in NewContents})
  BY <1>5, StoreStrays
<1>6. CASE UNCHANGED vars
  BY <1>6, QueuesKept DEF vars, NoStrayLoad, Awaited
<1> QED BY <1>1, <1>2, <1>3, <1>4, <1>5, <1>6 DEF Next

-----------------------------------------------------------------------------
\* Presentations, logouts and listeners.

\* Only a load, a logout and a crash change what is presented, and but for the
\* last two no step leaves a user unaccounted for.
LEMMA Presentations ==
    ASSUME IInv, [Next]_vars
    PROVE  \/ /\ depth' = depth
              /\ Accounted => Accounted'
              /\ \/ observers' = observers \/ ReturnFromSignUp
                 \/ RunAuthBlock \/ RunInitialBlock
           \/ RunLoadCallback \/ SignOut \/ Crash
<1>1. CASE UserStep
  BY <1>1, UsersAssumption
     DEF UserStep, SendSignIn, ReturnFromSignUp, OpenTable, AddTransaction, SaveEdit,
         DeleteTransaction, sessionVars, Accounted
<1>2. CASE MainStep
  BY <1>2 DEF Accounted, MainStep, RunAuthBlock, RunInitialBlock, RunRemoveCallback,
              RunUpdateCallback, RunErrorCallback, sessionVars
<1>3. CASE AuthStep
  <2>1. CASE LoadKeychain \/ RefreshToken \/ SignOutByForce
    BY <2>1 DEF LoadKeychain, RefreshToken, SignOutByForce, sessionVars, Accounted,
                IInv, TypeOK, SessionTypeOK
  <2>2. CASE \E u \in Users : SignInAnswered(u) \/ SignInRefused(u)
    BY <2>2, UsersAssumption DEF SignInAnswered, SignInRefused, Accounted
  <2> QED BY <1>3, <2>1, <2>2 DEF AuthStep
<1>4. CASE Frame /\ StoreStep({Encode(c) : c \in NewContents})
  BY <1>4 DEF Frame, sessionVars, Accounted
<1>5. CASE UNCHANGED vars
  BY <1>5 DEF vars, Accounted
<1> QED BY <1>1, <1>2, <1>3, <1>4, <1>5 DEF Next

\* The depths at which a login controller is, and tabs are, on top.
LEMMA Depths ==
    ASSUME SessionTypeOK
    PROVE  /\ depth \in Nat \ {0}
           /\ \A n \in Nat : OnTabs /\ 2 * n <= depth + 1 => 2 * n <= depth
           /\ OnTabs => (depth + 1) % 2 = 1 /\ 2 * ((depth + 2) \div 2) = depth + 2
           /\ OnLogin => 2 * ((depth + 1) \div 2) = depth + 1
<1>1. depth \in Nat \ {0}
  BY DEF SessionTypeOK
<1>2. \A d \in Nat : d % 2 = 0 =>
         /\ \A n \in Nat : 2 * n <= d + 1 => 2 * n <= d
         /\ (d + 1) % 2 = 1 /\ 2 * ((d + 2) \div 2) = d + 2
  OBVIOUS
<1>3. \A d \in Nat : d % 2 = 1 => 2 * ((d + 1) \div 2) = d + 1
  OBVIOUS
<1> QED BY <1>1, <1>2, <1>3 DEF OnTabs, OnLogin

\* A load stays expected: after a logout its controller is covered.
LEMMA StaysExpected ==
    ASSUME IInv, [Next]_vars, ~Crash, NEW c, Expected(c)
    PROVE  Expected(c)'
<1> SUFFICES ASSUME c.kind = "load"
             PROVE  /\ 2 * c.login <= depth' + 1
                    /\ 2 * c.login <= depth' \/ Accounted'
  BY DEF Expected
<1>1. /\ c.login \in Nat /\ 2 * c.login <= depth + 1
      /\ 2 * c.login <= depth \/ Accounted
      /\ depth \in Nat
  BY Depths DEF Expected, IInv, TypeOK
<1>2. CASE depth' = depth /\ (Accounted => Accounted')
  BY <1>1, <1>2
<1>3. CASE depth' = depth + 1
  BY <1>1, <1>3
<1>4. RunLoadCallback => /\ depth' = depth \/ depth' = depth + 1
                         /\ Accounted' = Accounted
  BY DEF RunLoadCallback, Accounted
<1>5. SignOut => depth' = depth + 1
  BY DEF SignOut
<1> QED BY <1>2, <1>3, <1>4, <1>5, Presentations

\* A listener belongs to a login controller.
LEMMA ListenerLogins ==
    ASSUME SessionTypeOK
    PROVE  \A i \in DOMAIN observers : observers[i].login \in Nat
<1> DEFINE type == [login : Nat, prev : Users \cup {Nobody, Unset}]
<1>1. observers \in Seq(type) /\ \A t \in type : t.login \in Nat
  BY DEF SessionTypeOK
<1> HIDE DEF type
<1>2. \A i \in DOMAIN observers : observers[i] \in type
  BY <1>1
<1> QED BY <1>1, <1>2

\* What a listener asks for on behalf of a user is expected.
LEMMA FreshIsExpected ==
    ASSUME IInv, Listening, NEW c, Fresh(c)
    PROVE  Expected(c)
<1>1. \A i \in DOMAIN observers : /\ observers[i].login \in Nat
                                  /\ 2 * observers[i].login <= depth + 1
  BY ListenerLogins DEF IInv, TypeOK, Listening
<1> QED BY <1>1 DEF Fresh, Expected, Accounted

\* Listeners are added for the topmost controller, calling them moves none.
LEMMA ListeningStep ==
    ASSUME IInv, Listening, [Next]_vars
    PROVE  Listening'
<1> DEFINE type == [login : Nat, prev : Users \cup {Nobody, Unset}]
<1>1. /\ SessionTypeOK /\ observers \in Seq(type) /\ depth \in Nat
      /\ \A i \in DOMAIN observers : observers[i].login \in Nat
  BY Depths, ListenerLogins DEF IInv, TypeOK, SessionTypeOK
<1>2. ASSUME NEW n \in Nat, NEW queue, checkLoggedIn(n, queue),
             depth' \in Nat, depth <= depth', 2 * n <= depth' + 1
      PROVE  Listening'
  <2>1. \A i \in DOMAIN observers' :
           \/ i \in DOMAIN observers /\ observers'[i] = observers[i]
           \/ observers'[i].login = n
    BY <1>1, <1>2 DEF checkLoggedIn, Observer
  <2> QED BY <1>1, <1>2, <2>1 DEF Listening
<1>3. CASE observers' = observers /\ (depth' = depth \/ depth' = depth + 1)
  BY <1>1, <1>3 DEF Listening
<1>4. CASE RunAuthBlock \/ RunInitialBlock
  <2>1. PICK I, tasks : Notify(I, tasks)
    BY <1>4 DEF RunAuthBlock, RunInitialBlock
  <2>2. /\ DOMAIN observers' = DOMAIN observers
        /\ \A i \in DOMAIN observers : observers'[i].login = observers[i].login
    BY <1>1, <2>1 DEF Notify
  <2> QED BY <1>4, <2>2 DEF Listening, RunAuthBlock, RunInitialBlock
<1>5. CASE ReturnFromSignUp
  <2>1. /\ checkLoggedIn((depth + 1) \div 2, main) /\ depth' = depth
        /\ (depth + 1) \div 2 \in Nat /\ 2 * ((depth + 1) \div 2) = depth + 1
    BY <1>1, <1>5, Depths DEF ReturnFromSignUp
  <2> QED BY <1>1, <1>2, <2>1
<1>6. CASE SignOut
  <2>1. /\ checkLoggedIn((depth + 2) \div 2,
                         IF authUser = Nobody THEN main
                         ELSE Append(main, AuthBlock(Nobody)))
        /\ depth' = depth + 1
        /\ (depth + 2) \div 2 \in Nat /\ 2 * ((depth + 2) \div 2) = depth + 2
    BY <1>1, <1>6, Depths DEF SignOut
  <2> QED BY <1>1, <1>2, <2>1
<1>7. CASE Crash
  <2>1. observers' = <<Observer(1)>> /\ depth' = 1
    BY <1>7 DEF Crash, Launched
  <2> QED BY <2>1 DEF Listening, Observer
<1>8. RunLoadCallback => /\ observers' = observers
                         /\ depth' = depth \/ depth' = depth + 1
  BY DEF RunLoadCallback
<1> QED BY <1>3, <1>4, <1>5, <1>6, <1>7, <1>8, Presentations

\* The callbacks still to be run are the expected ones.
LEMMA OnTimeStep ==
    ASSUME Presence, [Next]_vars
    PROVE  OnTime'
<1>1. CASE Crash
  BY <1>1, CrashStrays DEF OnTime
<1>2. CASE ~Crash
  <2>1. NoStrayLoad
    BY NoStray DEF Presence
  <2> SUFFICES ASSUME NEW c \in Awaited' PROVE Expected(c)'
    BY DEF OnTime
  <2>2. Expected(c)
    BY <2>1, FreshIsExpected DEF NoStrayLoad, Presence, OnTime
  <2> QED BY <1>2, <2>2, StaysExpected DEF Presence
<1> QED BY <1>1, <1>2

\* Tabs appear only for an expected load, and a logout covers them.
LEMMA TabsStep ==
    ASSUME Presence, [Next]_vars
    PROVE  TabsAreSignedIn'
<1>1. SessionTypeOK
  BY DEF Presence, IInv, TypeOK
<1>2. CASE depth' = depth /\ (Accounted => Accounted')
  BY <1>2 DEF Presence, TabsAreSignedIn, OnTabs, Accounted
<1>3. CASE RunLoadCallback
  <2> DEFINE c == Head(main).callback
  <2>1. CASE depth' = depth
    BY <1>2, <1>3, <2>1 DEF RunLoadCallback, Accounted
  <2>2. CASE depth = 2 * c.login - 1
    <3>1. c \in Awaited
      <4>1. main # << >> /\ Head(main).kind = "snapshot"
        BY <1>3 DEF RunLoadCallback, Answered
      <4>2. 1 \in DOMAIN main /\ Head(main) = main[1]
        BY <4>1 DEF Presence, IInv, TypeOK, StoreTypeOK
      <4> QED BY <4>1, <4>2 DEF Awaited, OnMainQueue
    <3>2. Expected(c) /\ c.kind = "load"
      BY <1>3, <3>1 DEF Presence, OnTime, RunLoadCallback, Answered
    <3>3. c.login \in Nat /\ (2 * c.login <= depth \/ Accounted)
      BY <3>2 DEF Expected
    <3>4. Accounted
      <4> HIDE DEF c
      <4> QED BY <2>2, <3>3
    <3> QED BY <1>3, <3>4 DEF RunLoadCallback, TabsAreSignedIn, Accounted
  <2> QED BY <1>3, <2>1, <2>2 DEF RunLoadCallback
<1>4. CASE SignOut
  <2>1. OnTabs /\ depth' = depth + 1
    BY <1>4 DEF SignOut
  <2> QED BY <1>1, <2>1, Depths DEF TabsAreSignedIn, OnTabs
<1>5. CASE Crash
  BY <1>5 DEF Crash, Launched, TabsAreSignedIn, OnTabs
<1>6. IInv
  BY DEF Presence
<1> QED BY <1>2, <1>3, <1>4, <1>5, <1>6, Presentations

\* The inductive invariant holds at first.
LEMMA PresenceInit == Init => Presence
<1> SUFFICES ASSUME Init PROVE TabsAreSignedIn /\ Listening /\ OnTime
  BY InitTypes DEF Presence
<1>1. depth = 1 /\ observers = <<Observer(1)>> /\ main = <<InitialBlock(1)>>
  BY DEF Init
<1>2. TabsAreSignedIn /\ Listening
  BY <1>1 DEF TabsAreSignedIn, OnTabs, Listening, Observer
<1>3. Awaited = {}
  BY <1>1 DEF Init, StoreInit, Awaited, OnWorkerQueue, Registered, OnMainQueue,
              InitialBlock
<1> QED BY <1>2, <1>3 DEF OnTime

\* A step keeps it.
LEMMA PresenceStep == Presence /\ [Next]_vars => Presence'
BY Invariance, TabsStep, ListeningStep, OnTimeStep DEF Presence

\* Whoever sees the tabs is signed in, although every login controller ever
\* shown still listens and its loads may be answered after a logout; unless
\* Auth has signed the user out by itself.
THEOREM TabsSignedIn == Spec => []TabsAreSignedIn
<1>1. Presence => TabsAreSignedIn
  BY DEF Presence
<1> QED BY <1>1, PresenceInit, PresenceStep, PTL DEF Spec

-----------------------------------------------------------------------------
\* What becomes of a document.

\* A deletion was recorded when it was filed, so its commit makes no creation
\* disappear that still counts.
DeletionsRecorded ==
    \A u \in Users \cup {Nobody} : \A i \in DOMAIN mutations[u] :
        mutations[u][i].op = "delete" => mutations[u][i].key \in history.deleted

-----------------------------------------------------------------------------
\* Queues.

\* The mutation queues after the first write of one was dropped: every write
\* was there before, and every other write still is.
LEMMA DroppedWrite ==
    ASSUME StoreTypeOK, Sending, DropNextWrite
    PROVE  /\ \A u \in Users \cup {Nobody} : \A i \in DOMAIN mutations'[u] :
                 \E j \in DOMAIN mutations[u] : mutations'[u][i] = mutations[u][j]
           /\ \A u \in Users \cup {Nobody} : \A j \in DOMAIN mutations[u] :
                 \/ u = fsUser /\ mutations[u][j] = NextWrite
                 \/ \E i \in DOMAIN mutations'[u] : mutations'[u][i] = mutations[u][j]
<1>1. fsUser \in Users \cup {Nobody}
  BY SendingTypes
<1> DEFINE q == mutations[fsUser]
<1>2. q \in Seq(Mutation) /\ q # << >> /\ NextWrite = q[1]
  BY <1>1 DEF StoreTypeOK, Sending, NextWrite
<1>3. /\ mutations'[fsUser] = Tail(q)
      /\ \A u \in Users \cup {Nobody} : u # fsUser => mutations'[u] = mutations[u]
  BY <1>1 DEF StoreTypeOK, DropNextWrite
<1> HIDE DEF q
<1>4. /\ \A i \in DOMAIN Tail(q) : i + 1 \in DOMAIN q /\ Tail(q)[i] = q[i + 1]
      /\ \A j \in DOMAIN q : j = 1 \/ (j - 1 \in DOMAIN Tail(q) /\ Tail(q)[j - 1] = q[j])
  <2>1. /\ Len(q) \in Nat \ {0} /\ DOMAIN q = 1 .. Len(q)
        /\ DOMAIN Tail(q) = 1 .. Len(q) - 1
        /\ \A i \in 1 .. Len(q) - 1 : Tail(q)[i] = q[i + 1]
    BY <1>2
  <2>2. \A i \in DOMAIN Tail(q) : i + 1 \in DOMAIN q /\ Tail(q)[i] = q[i + 1]
    BY <2>1
  <2>3. ASSUME NEW j \in DOMAIN q, j # 1
        PROVE  j - 1 \in DOMAIN Tail(q) /\ Tail(q)[j - 1] = q[j]
    <3>1. j \in Int /\ j - 1 \in 1 .. Len(q) - 1 /\ (j - 1) + 1 = j
      BY <2>1, <2>3
    <3>2. Tail(q)[j - 1] = q[(j - 1) + 1]
      BY <2>1, <3>1
    <3> QED BY <2>1, <3>1, <3>2
  <2> QED BY <2>2, <2>3
<1>5. ASSUME NEW u \in Users \cup {Nobody}, NEW i \in DOMAIN mutations'[u]
      PROVE  \E j \in DOMAIN mutations[u] : mutations'[u][i] = mutations[u][j]
  <2>1. CASE u # fsUser
    BY <1>3, <2>1
  <2>2. CASE u = fsUser
    <3>1. mutations'[u] = Tail(q) /\ mutations[u] = q
      BY <1>3, <2>2 DEF q
    <3>2. \E j \in DOMAIN q : mutations'[u][i] = q[j]
      BY <1>4, <3>1
    <3> QED BY <3>1, <3>2
  <2> QED BY <2>1, <2>2
<1>6. ASSUME NEW u \in Users \cup {Nobody}, NEW j \in DOMAIN mutations[u]
      PROVE  \/ u = fsUser /\ mutations[u][j] = NextWrite
             \/ \E i \in DOMAIN mutations'[u] : mutations'[u][i] = mutations[u][j]
  <2>1. CASE u # fsUser
    BY <1>3, <2>1
  <2>2. CASE u = fsUser
    <3>1. mutations'[u] = Tail(q) /\ mutations[u] = q
      BY <1>3, <2>2 DEF q
    <3>2. q[j] = NextWrite \/ \E i \in DOMAIN Tail(q) : Tail(q)[i] = q[j]
      BY <1>2, <1>4, <3>1
    <3> QED BY <2>2, <3>1, <3>2
  <2> QED BY <2>1, <2>2
<1> QED BY <1>5, <1>6

\* The mutation queues after the worker has filed a write.
LEMMA FiledWrite ==
    ASSUME IInv, WriteMutations
    PROVE  /\ fsUser \in Users \cup {Nobody}
           /\ Head(worker).mutation \in Mutation
           /\ \A u \in Users \cup {Nobody} : \A i \in DOMAIN mutations'[u] :
                 \/ mutations'[u][i] = Head(worker).mutation
                 \/ i \in DOMAIN mutations[u] /\ mutations'[u][i] = mutations[u][i]
           /\ \A u \in Users \cup {Nobody} : \A i \in DOMAIN mutations[u] :
                 i \in DOMAIN mutations'[u] /\ mutations'[u][i] = mutations[u][i]
           /\ \E i \in DOMAIN mutations'[fsUser] :
                 mutations'[fsUser][i] = Head(worker).mutation
<1>1. fsUser \in Users \cup {Nobody}
  BY DEF IInv, ClientReady, WriteMutations, TypeOK, StoreTypeOK
<1>2. Head(worker).mutation \in Mutation
  BY NextTask DEF IInv, TypeOK, WriteMutations, Task
<1> DEFINE q == mutations[fsUser]
           m == Head(worker).mutation
<1>3. q \in Seq(Mutation)
  BY <1>1 DEF IInv, TypeOK, StoreTypeOK
<1>4. /\ mutations'[fsUser] = Append(q, m)
      /\ \A u \in Users \cup {Nobody} : u # fsUser => mutations'[u] = mutations[u]
  BY <1>1 DEF IInv, TypeOK, StoreTypeOK, WriteMutations
<1> HIDE DEF q, m
<1>5. /\ \A i \in DOMAIN Append(q, m) : Append(q, m)[i] = m
                                     \/ (i \in DOMAIN q /\ Append(q, m)[i] = q[i])
      /\ \A i \in DOMAIN q : i \in DOMAIN Append(q, m) /\ Append(q, m)[i] = q[i]
      /\ \E i \in DOMAIN Append(q, m) : Append(q, m)[i] = m
  <2>1. /\ DOMAIN q = 1 .. Len(q) /\ Len(q) \in Nat
        /\ DOMAIN Append(q, m) = 1 .. Len(q) + 1
        /\ Append(q, m)[Len(q) + 1] = m
        /\ \A i \in 1 .. Len(q) : Append(q, m)[i] = q[i]
    BY <1>3
  <2>2. Len(q) + 1 \in DOMAIN Append(q, m)
    BY <2>1
  <2> QED BY <2>1, <2>2
<1>6. ASSUME NEW u \in Users \cup {Nobody}, NEW i \in DOMAIN mutations'[u]
      PROVE  \/ mutations'[u][i] = m
             \/ i \in DOMAIN mutations[u] /\ mutations'[u][i] = mutations[u][i]
  BY <1>4, <1>5 DEF q
<1>7. ASSUME NEW u \in Users \cup {Nobody}, NEW i \in DOMAIN mutations[u]
      PROVE  i \in DOMAIN mutations'[u] /\ mutations'[u][i] = mutations[u][i]
  BY <1>4, <1>5 DEF q
<1>8. \E i \in DOMAIN mutations'[fsUser] : mutations'[fsUser][i] = m
  BY <1>4, <1>5
<1> QED BY <1>1, <1>2, <1>6, <1>7, <1>8 DEF m

-----------------------------------------------------------------------------
\* A filed creation is not lost.

Durable == IInv /\ DeletionsRecorded /\ AddedNotLost

OtherDevices == OtherDevice({Encode(c) : c \in NewContents})

\* Few steps touch the server, the mutation queues or the record of them.
LEMMA WritingSteps ==
    ASSUME [Next]_vars
    PROVE  \/ UNCHANGED <<server, mutations, history>>
           \/ WriteMutations \/ ApplySuccessfulWrite \/ CommitWithoutResponse
           \/ RejectFailedWrite \/ OtherDevices
<1>1. CASE UserStep
  BY <1>1 DEF UserStep, SendSignIn, SignOut, ReturnFromSignUp, OpenTable,
     AddTransaction, SaveEdit, DeleteTransaction, storeVars
<1>2. CASE MainStep
  BY <1>2 DEF MainStep, RunAuthBlock, RunInitialBlock, RunLoadCallback,
     RunRemoveCallback, RunUpdateCallback, RunErrorCallback
<1>3. CASE AuthStep
  BY <1>3 DEF AuthStep, LoadKeychain, RefreshToken, SignOutByForce, SignInAnswered,
     SignInRefused, storeVars, managerVars, sessionVars
<1>4. CASE Crash
  BY <1>4 DEF Crash, Launched, StoreCrash
<1>5. CASE StoreStep({Encode(c) : c \in NewContents})
  BY <1>5 DEF StoreStep, OtherDevices, UserDidChange, AddListener, RaiseFromServer,
     RaiseFromCache, RejectListen, GoOffline, GoOnline
<1>6. CASE UNCHANGED vars
  BY <1>6 DEF vars
<1> QED BY <1>1, <1>2, <1>3, <1>4, <1>5, <1>6 DEF Next

\* Filing a creation queues it, and filing a deletion is recorded.
LEMMA WriteMutationsDurable ==
    ASSUME Durable, WriteMutations
    PROVE  DeletionsRecorded' /\ AddedNotLost'
<1> DEFINE m == Head(worker).mutation
<1>1. /\ fsUser \in Users \cup {Nobody} /\ m \in Mutation
      /\ \A u \in Users \cup {Nobody} : \A i \in DOMAIN mutations'[u] :
            \/ mutations'[u][i] = m
            \/ i \in DOMAIN mutations[u] /\ mutations'[u][i] = mutations[u][i]
      /\ \A u \in Users \cup {Nobody} : \A i \in DOMAIN mutations[u] :
            i \in DOMAIN mutations'[u] /\ mutations'[u][i] = mutations[u][i]
      /\ \E i \in DOMAIN mutations'[fsUser] : mutations'[fsUser][i] = m
  BY FiledWrite DEF Durable
<1>2. server' = server /\ history' = Recorded(m)
  BY DEF WriteMutations
<1>3. history \in [filed : SUBSET DocIds, deleted : SUBSET DocIds,
                   refused : SUBSET DocIds, gone : SUBSET DocIds]
  BY DEF Durable, IInv, TypeOK, StoreTypeOK
<1> HIDE DEF m
<1>4. /\ m.op = "set" => history'.filed = history.filed \cup {m.key}
      /\ m.op # "set" => history'.filed = history.filed
      /\ history.deleted \subseteq history'.deleted
      /\ m.op = "delete" => m.key \in history'.deleted
      /\ history'.refused = history.refused
  BY <1>1, <1>2, <1>3 DEF Recorded, Mutation
<1>5. DeletionsRecorded'
  BY <1>1, <1>4 DEF Durable, DeletionsRecorded
<1>6. ASSUME NEW d \in history'.filed \ (history'.deleted \cup history'.refused)
      PROVE  server'[d] # Absent \/ SetPending(d)'
  <2>1. CASE m.op = "set" /\ m.key = d
    BY <1>1, <2>1 DEF SetPending
  <2>2. CASE ~(m.op = "set" /\ m.key = d)
    <3>1. d \in history.filed \ (history.deleted \cup history.refused)
      BY <1>4, <2>2
    <3>2. server[d] # Absent \/ SetPending(d)
      BY <3>1 DEF Durable, AddedNotLost
    <3>3. SetPending(d) => SetPending(d)'
      BY <1>1 DEF SetPending
    <3> QED BY <1>2, <3>2, <3>3
  <2> QED BY <2>1, <2>2
<1> QED BY <1>5, <1>6 DEF AddedNotLost

\* Committing writes makes no document disappear that still counts, and the
\* next write's is there afterwards if that write is a creation.
LEMMA CommitDurable ==
    ASSUME Durable, Sending, NEW n \in Nat \ {0}, CommitWrites(n)
    PROVE  /\ history'.filed = history.filed
           /\ history'.deleted = history.deleted
           /\ history'.refused = history.refused
           /\ \A d \in DocIds : server[d] # Absent /\ d \notin history.deleted
                                  => server'[d] # Absent
           /\ NextWrite.op = "set" /\ NextWrite.key \notin history.deleted
              => server'[NextWrite.key] # Absent
<1>1. StoreTypeOK
  BY DEF Durable, IInv, TypeOK
<1>2. fsUser \in Users \cup {Nobody} /\ NextWrite \in Mutation /\ NextWrite.key \in DocIds
  BY <1>1, SendingTypes
<1>3. /\ n <= Len(mutations[fsUser])
      /\ server' = [d \in DocIds |-> Written(Sent(n), server[d], d)]
  BY <1>1, CommitEffect
<1>4. /\ Sent(n) \in Seq(Mutation)
      /\ DOMAIN Sent(n) = 1 .. n
      /\ \A i \in 1 .. n : /\ i \in DOMAIN mutations[fsUser]
                           /\ Sent(n)[i] = mutations[fsUser][i]
  BY <1>1, <1>3, SentTypes
<1>5. \A d \in DocIds : server[d] \in DocState
  BY <1>1 DEF StoreTypeOK
<1>6. ASSUME NEW d \in DocIds, d \notin history.deleted
      PROVE  \A i \in DOMAIN Sent(n) : Sent(n)[i].key = d => Sent(n)[i].op # "delete"
  BY <1>2, <1>4, <1>6 DEF Durable, DeletionsRecorded
<1>7. ASSUME NEW d \in DocIds, d \notin history.deleted,
             \/ server[d] # Absent
             \/ \E i \in DOMAIN Sent(n) : Sent(n)[i].op = "set" /\ Sent(n)[i].key = d
      PROVE  server'[d] # Absent
  <2>1. Written(Sent(n), server[d], d) # Absent
    BY <1>4, <1>5, <1>6, <1>7, WrittenPresence
  <2> QED BY <1>3, <2>1
<1>8. ASSUME NextWrite.op = "set", NextWrite.key \notin history.deleted
      PROVE  server'[NextWrite.key] # Absent
  <2>1. mutations[fsUser] \in Seq(Mutation) /\ mutations[fsUser] # << >>
    BY <1>1, <1>2 DEF StoreTypeOK, Sending
  <2>2. 1 \in 1 .. n /\ NextWrite = mutations[fsUser][1]
    BY <2>1 DEF NextWrite
  <2>3. 1 \in DOMAIN Sent(n) /\ Sent(n)[1] = NextWrite
    BY <1>4, <2>2
  <2> QED BY <1>2, <1>7, <1>8, <2>3
<1>9. /\ history'.filed = history.filed
      /\ history'.deleted = history.deleted
      /\ history'.refused = history.refused
  <2>1. PICK R \in SUBSET DocIds : history' = [history EXCEPT !.gone = @ \cup R]
    BY <1>1, CommitEffect
  <2> QED BY <1>1, <2>1 DEF StoreTypeOK
<1> QED BY <1>7, <1>8, <1>9

\* An acknowledged creation leaves its queue for the server.
LEMMA ApplySuccessfulWriteDurable ==
    ASSUME Durable, ApplySuccessfulWrite
    PROVE  DeletionsRecorded' /\ AddedNotLost'
<1>1. StoreTypeOK /\ Sending /\ CommitWrites(1) /\ 1 \in Nat \ {0} /\ DropNextWrite
  BY DEF Durable, IInv, TypeOK, ApplySuccessfulWrite
<1>2. DeletionsRecorded'
  <2>1. \A u \in Users \cup {Nobody} : \A i \in DOMAIN mutations'[u] :
           \E j \in DOMAIN mutations[u] : mutations'[u][i] = mutations[u][j]
    BY <1>1, DroppedWrite
  <2>2. history'.deleted = history.deleted
    BY <1>1, CommitDurable
  <2> QED BY <2>1, <2>2 DEF Durable, DeletionsRecorded
<1>3. ASSUME NEW d \in history'.filed \ (history'.deleted \cup history'.refused)
      PROVE  server'[d] # Absent \/ SetPending(d)'
  <2>1. d \in history.filed \ (history.deleted \cup history.refused)
    BY <1>1, CommitDurable
  <2>2. d \in DocIds
    BY <1>1, <2>1 DEF StoreTypeOK
  <2>3. CASE server[d] # Absent
    BY <1>1, <2>1, <2>2, <2>3, CommitDurable
  <2>4. CASE SetPending(d)
    <3>0. PICK u \in Users \cup {Nobody} : \E j \in DOMAIN mutations[u] :
            mutations[u][j].op = "set" /\ mutations[u][j].key = d
      BY <2>4 DEF SetPending
    <3>1. PICK j \in DOMAIN mutations[u] :
            mutations[u][j].op = "set" /\ mutations[u][j].key = d
      BY <3>0
    <3>2. \/ mutations[u][j] = NextWrite
          \/ \E i \in DOMAIN mutations'[u] : mutations'[u][i] = mutations[u][j]
      BY <1>1, DroppedWrite
    <3>3. CASE mutations[u][j] = NextWrite
      BY <1>1, <2>1, <3>1, <3>3, CommitDurable
    <3>4. CASE \E i \in DOMAIN mutations'[u] : mutations'[u][i] = mutations[u][j]
      BY <3>1, <3>4 DEF SetPending
    <3> QED BY <3>2, <3>3, <3>4
  <2> QED BY <2>1, <2>3, <2>4 DEF Durable, AddedNotLost
<1> QED BY <1>2, <1>3 DEF AddedNotLost

\* Lost responses leave the writes queued and the server further on.
LEMMA CommitWithoutResponseDurable ==
    ASSUME Durable, CommitWithoutResponse
    PROVE  DeletionsRecorded' /\ AddedNotLost'
<1>0. PICK n \in Nat \ {0} : CommitWrites(n)
  BY SomeCommitted
<1>1. StoreTypeOK /\ Sending /\ CommitWrites(n) /\ mutations' = mutations
  BY <1>0 DEF Durable, IInv, TypeOK, CommitWithoutResponse
<1>2. DeletionsRecorded'
  <2>1. history'.deleted = history.deleted
    BY <1>1, CommitDurable
  <2> QED BY <1>1, <2>1 DEF Durable, DeletionsRecorded
<1>3. ASSUME NEW d \in history'.filed \ (history'.deleted \cup history'.refused)
      PROVE  server'[d] # Absent \/ SetPending(d)'
  <2>1. d \in history.filed \ (history.deleted \cup history.refused)
    BY <1>1, CommitDurable
  <2>2. d \in DocIds
    BY <1>1, <2>1 DEF StoreTypeOK
  <2>3. server[d] # Absent => server'[d] # Absent
    BY <1>1, <2>1, <2>2, CommitDurable
  <2>4. SetPending(d) => SetPending(d)'
    BY <1>1 DEF SetPending
  <2> QED BY <2>1, <2>3, <2>4 DEF Durable, AddedNotLost
<1> QED BY <1>2, <1>3 DEF AddedNotLost

\* A creation that is refused is recorded as such; others stay queued.
LEMMA RejectFailedWriteDurable ==
    ASSUME Durable, RejectFailedWrite
    PROVE  DeletionsRecorded' /\ AddedNotLost'
<1>1. StoreTypeOK /\ Sending /\ DropNextWrite /\ server' = server
  BY DEF Durable, IInv, TypeOK, RejectFailedWrite
<1>2. /\ history'.filed = history.filed
      /\ history'.deleted = history.deleted
      /\ history.refused \subseteq history'.refused
      /\ NextWrite.op = "set" => NextWrite.key \in history'.refused
  BY <1>1 DEF StoreTypeOK, RejectFailedWrite
<1>3. DeletionsRecorded'
  <2>1. \A u \in Users \cup {Nobody} : \A i \in DOMAIN mutations'[u] :
           \E j \in DOMAIN mutations[u] : mutations'[u][i] = mutations[u][j]
    BY <1>1, DroppedWrite
  <2> QED BY <1>2, <2>1 DEF Durable, DeletionsRecorded
<1>4. ASSUME NEW d \in history'.filed \ (history'.deleted \cup history'.refused)
      PROVE  server'[d] # Absent \/ SetPending(d)'
  <2>1. d \in history.filed \ (history.deleted \cup history.refused)
    BY <1>2
  <2>2. CASE server[d] # Absent
    BY <1>1, <2>2
  <2>3. CASE SetPending(d)
    <3>0. PICK u \in Users \cup {Nobody} : \E j \in DOMAIN mutations[u] :
            mutations[u][j].op = "set" /\ mutations[u][j].key = d
      BY <2>3 DEF SetPending
    <3>1. PICK j \in DOMAIN mutations[u] :
            mutations[u][j].op = "set" /\ mutations[u][j].key = d
      BY <3>0
    <3>2. \/ mutations[u][j] = NextWrite
          \/ \E i \in DOMAIN mutations'[u] : mutations'[u][i] = mutations[u][j]
      BY <1>1, DroppedWrite
    <3>3. mutations[u][j] # NextWrite
      BY <1>2, <3>1
    <3> QED BY <3>1, <3>2, <3>3 DEF SetPending
  <2> QED BY <2>1, <2>2, <2>3 DEF Durable, AddedNotLost
<1> QED BY <1>3, <1>4 DEF AddedNotLost

\* Another device's deletion is recorded as one.
LEMMA OtherDevicesDurable ==
    ASSUME Durable, OtherDevices
    PROVE  DeletionsRecorded' /\ AddedNotLost'
<1>1. StoreTypeOK /\ mutations' = mutations
  BY DEF Durable, IInv, TypeOK, OtherDevices, OtherDevice
<1>2. PICK d \in Found(server) :
        \/ \E c \in {Encode(k) : k \in NewContents} :
              server' = [server EXCEPT ![d].content = c] /\ history' = history
        \/ /\ server' = [server EXCEPT ![d] = Absent]
           /\ history' = [history EXCEPT !.deleted = @ \cup {d}]
  BY DEF OtherDevices, OtherDevice
<1>3. /\ d \in DocIds /\ server[d] \in Document
      /\ server \in [DocIds -> DocState]
  BY <1>1 DEF StoreTypeOK, Found, DocState
<1>4. /\ history'.filed = history.filed
      /\ history.deleted \subseteq history'.deleted
      /\ history'.refused = history.refused
  BY <1>1, <1>2 DEF StoreTypeOK
<1>5. \A e \in DocIds : server[e] # Absent /\ e \notin history'.deleted
                          => server'[e] # Absent
  <2>1. CASE \E c \in {Encode(k) : k \in NewContents} :
               server' = [server EXCEPT ![d].content = c] /\ history' = history
    <3>1. PICK k \in NewContents :
            server' = [server EXCEPT ![d] = [server[d] EXCEPT !.content = Encode(k)]]
      BY <2>1
    <3>2. k \in Content
      BY PickerAssumption DEF NewContents, Content, ReadableTypes, TransactionType
    <3>3. [server[d] EXCEPT !.content = Encode(k)] \in Document
      BY <1>3, <3>2, EncodeType DEF Document
    <3> QED BY <1>3, <3>1, <3>3, MarkerAssumption
  <2>2. CASE /\ server' = [server EXCEPT ![d] = Absent]
             /\ history' = [history EXCEPT !.deleted = @ \cup {d}]
    <3>1. d \in history'.deleted
      BY <1>1, <2>2 DEF StoreTypeOK
    <3> QED BY <1>3, <2>2, <3>1
  <2> QED BY <1>2, <2>1, <2>2
<1>6. DeletionsRecorded'
  BY <1>1, <1>4 DEF Durable, DeletionsRecorded
<1>7. ASSUME NEW e \in history'.filed \ (history'.deleted \cup history'.refused)
      PROVE  server'[e] # Absent \/ SetPending(e)'
  <2>1. e \in history.filed \ (history.deleted \cup history.refused)
    BY <1>4
  <2>2. e \in DocIds
    BY <1>1, <2>1 DEF StoreTypeOK
  <2>3. server[e] # Absent => server'[e] # Absent
    BY <1>5, <2>2
  <2>4. SetPending(e) => SetPending(e)'
    BY <1>1 DEF SetPending
  <2> QED BY <2>1, <2>3, <2>4 DEF Durable, AddedNotLost
<1> QED BY <1>6, <1>7 DEF AddedNotLost

\* Once the SDK has filed the creation of a document, the document is on the
\* server or its creation is queued on disk until it is deleted or refused:
\* through any crashes, outages, lost responses and changes of user.
THEOREM AddedTransactionsKept == Spec => []AddedNotLost
<1>1. Init => Durable
  <2> SUFFICES ASSUME Init PROVE DeletionsRecorded /\ AddedNotLost
    BY InitTypes DEF Durable
  <2> QED BY DEF Init, StoreInit, DeletionsRecorded, AddedNotLost
<1>2. Durable /\ [Next]_vars => Durable'
  <2> SUFFICES ASSUME Durable, [Next]_vars PROVE DeletionsRecorded' /\ AddedNotLost'
    BY Invariance DEF Durable
  <2>1. CASE UNCHANGED <<server, mutations, history>>
    BY <2>1 DEF Durable, DeletionsRecorded, AddedNotLost, SetPending
  <2> QED BY <2>1, WritingSteps, WriteMutationsDurable, ApplySuccessfulWriteDurable,
             CommitWithoutResponseDurable, RejectFailedWriteDurable,
             OtherDevicesDurable
<1>3. Durable => AddedNotLost
  BY DEF Durable
<1> QED BY <1>1, <1>2, <1>3, PTL DEF Spec

-----------------------------------------------------------------------------
\* A document is the one its transaction was added with.

\* The transaction with the id of doc was added, according to a, with the key d
\* and the user doc names.
Genuine(a, d, doc) == a[doc.id] = [key |-> d, user |-> doc.user_id]

\* Every document is the one its transaction was added with, on the server and
\* in every creation still on its way to it.
OnServer == \A d \in DocIds : server[d] # Absent => Genuine(added, d, server[d])

InQueues ==
    \A u \in Users \cup {Nobody} : \A i \in DOMAIN mutations[u] :
        mutations[u][i].op = "set" =>
            Genuine(added, mutations[u][i].key, mutations[u][i].document)

IsCreation(task) == task.kind = "write" /\ task.mutation.op = "set"

OnWorker ==
    \A i \in DOMAIN worker : IsCreation(worker[i]) =>
        Genuine(added, worker[i].mutation.key, worker[i].mutation.document)

\* The inductive invariant.
Provenance == IInv /\ OnServer /\ InQueues /\ OnWorker

\* The worker queue has no creation that was not in it before.
NoNewCreation ==
    \A i \in DOMAIN worker' :
        IsCreation(worker'[i]) => \E j \in DOMAIN worker : worker'[i] = worker[j]

\* Those it has are where they were.
CreationsStay ==
    \A i \in DOMAIN worker' :
        IsCreation(worker'[i]) => i \in DOMAIN worker /\ worker'[i] = worker[i]

\* A listener that asks for a user's transactions.
IsLoad(task) == task.kind = "listen" /\ task.callback.kind = "load"

\* Tasks t are added to the queue, that neither create nor load nor change the
\* user.
Adds(t) ==
    /\ worker' = worker \o t
    /\ \A j \in DOMAIN t : t[j].kind # "user" /\ ~IsCreation(t[j]) /\ ~IsLoad(t[j])
LooksUpOrChanges == \E T : \E t \in Seq(T) : Adds(t)

-----------------------------------------------------------------------------
\* The worker queue.

\* Appending tasks that are no creations makes no new creation.
LEMMA AppendedTasks ==
    ASSUME NEW S, worker \in Seq(S), NEW T, NEW t \in Seq(T),
           Adds(t)
    PROVE  NoNewCreation /\ LooksUpOrChanges
<1>1. LooksUpOrChanges
  BY DEF LooksUpOrChanges
<1>2. worker' = worker \o t /\ \A j \in DOMAIN t : ~IsCreation(t[j])
  BY DEF Adds
<1> QED BY <1>1, <1>2, ElementOfConcat DEF NoNewCreation

\* Neither does taking a task from the front.
LEMMA TailOfWorker ==
    ASSUME StoreTypeOK, worker # << >>, worker' = Tail(worker)
    PROVE  /\ NoNewCreation
           /\ 1 \in DOMAIN worker /\ Head(worker) = worker[1]
<1>1. /\ \A i \in DOMAIN Tail(worker) : i + 1 \in DOMAIN worker
                                        /\ Tail(worker)[i] = worker[i + 1]
      /\ 1 \in DOMAIN worker /\ Head(worker) = worker[1]
  BY DEF StoreTypeOK
<1> QED BY <1>1 DEF NoNewCreation

-----------------------------------------------------------------------------
\* Steps that only look documents up, answer, or delete and patch.

\* Listeners that are called ask for loads.
LEMMA NotifyMakesNoCreation ==
    ASSUME TypeOK, NEW I \in SUBSET DOMAIN observers,
           NEW tasks \in Seq(Task(Len(heap))), Notify(I, tasks),
           \A j \in DOMAIN tasks : ~IsCreation(tasks[j])
    PROVE  NoNewCreation /\ CreationsStay
<1>1. /\ worker' = worker \o tasks \o Asked(I)
      /\ Asked(I) \in Seq({Asked(I)[j] : j \in DOMAIN Asked(I)})
      /\ \A j \in DOMAIN Asked(I) : \E q, c : Asked(I)[j] = ListenTask(q, c)
  BY NotifyAsks
<1>2. \A j \in DOMAIN Asked(I) : ~IsCreation(Asked(I)[j])
  BY <1>1 DEF ListenTask, IsCreation
<1> DEFINE before == worker \o tasks
<1>3. /\ worker \in Seq(Task(Len(heap))) /\ before \in Seq(Task(Len(heap)))
      /\ worker' = before \o Asked(I)
  BY <1>1 DEF TypeOK, StoreTypeOK
<1>4. ASSUME NEW i \in DOMAIN before, IsCreation(before[i])
      PROVE  i \in DOMAIN worker /\ before[i] = worker[i]
  <2>1. \/ i \in DOMAIN worker /\ before[i] = worker[i]
        \/ \E j \in DOMAIN tasks : before[i] = tasks[j]
    BY <1>3, ElementOfConcat
  <2> QED BY <1>4, <2>1
<1> HIDE DEF before
<1>5. ASSUME NEW i \in DOMAIN worker', IsCreation(worker'[i])
      PROVE  i \in DOMAIN worker /\ worker'[i] = worker[i]
  <2> DEFINE S == {Asked(I)[j] : j \in DOMAIN Asked(I)}
  <2>1. Asked(I) \in Seq(S)
    BY <1>1
  <2> HIDE DEF S
  <2>2. \/ i \in DOMAIN before /\ worker'[i] = before[i]
        \/ \E j \in DOMAIN Asked(I) : worker'[i] = Asked(I)[j]
    BY <1>3, <2>1, ElementOfConcat
  <2> QED BY <1>2, <1>4, <1>5, <2>2
<1> QED BY <1>5 DEF NoNewCreation, CreationsStay

\* A change of user or a call of the listeners asks for loads only.
LEMMA AuthMakesNoCreation ==
    ASSUME IInv, RunAuthBlock \/ RunInitialBlock
    PROVE  NoNewCreation /\ CreationsStay
<1>1. main # << >> /\ Head(main) \in Block(Len(heap), Len(observers))
  BY NextBlock DEF IInv, TypeOK, RunAuthBlock, RunInitialBlock
<1>2. CASE RunAuthBlock
  <2> DEFINE tasks == IF CredentialsUser \in {NoClient, Head(main).user} THEN << >>
                      ELSE <<UserTask(Head(main).user)>>
  <2>1. Notify(DOMAIN observers, tasks) /\ DOMAIN observers \in SUBSET DOMAIN observers
    BY <1>2 DEF RunAuthBlock
  <2>2. UserTask(Head(main).user) \in Task(Len(heap))
    BY <1>1, <1>2 DEF RunAuthBlock, Block, UserTask, Task
  <2>3. /\ << >> \in Seq(Task(Len(heap)))
        /\ <<UserTask(Head(main).user)>> \in Seq(Task(Len(heap)))
    BY <2>2
  <2>4. tasks \in Seq(Task(Len(heap))) /\ \A j \in DOMAIN tasks : ~IsCreation(tasks[j])
    BY <2>3 DEF UserTask, IsCreation
  <2> HIDE DEF tasks
  <2> QED BY <2>1, <2>4, NotifyMakesNoCreation DEF IInv
<1>3. CASE RunInitialBlock
  <2>1. Notify({Head(main).observer}, << >>)
    BY <1>3 DEF RunInitialBlock
  <2>2. {Head(main).observer} \in SUBSET DOMAIN observers
    <3>1. Head(main).observer \in 1 .. Len(observers)
      BY <1>1, <1>3 DEF RunInitialBlock, Block
    <3> QED BY <3>1 DEF IInv, TypeOK, SessionTypeOK
  <2>3. /\ << >> \in Seq(Task(Len(heap)))
        /\ \A j \in DOMAIN << >> : ~IsCreation(<< >>[j])
    OBVIOUS
  <2> QED BY <2>1, <2>2, <2>3, NotifyMakesNoCreation DEF IInv
<1> QED BY <1>2, <1>3

\* The callbacks of the program delete and patch.
LEMMA CallbacksMakeNoCreation ==
    ASSUME IInv, RunRemoveCallback \/ RunUpdateCallback
    PROVE  NoNewCreation /\ LooksUpOrChanges
<1> DEFINE docs == Head(main).docs
           r == Head(main).callback.ref
           n == Cardinality(Found(docs))
           removal(i) == WriteTask(Delete(Ascending(Found(docs))[i]))
           patch(i) == WriteTask(Patch(Ascending(Found(docs))[i],
                                       Encode(heap[r].content)))
<1>1. docs \in [DocIds -> DocState]
  BY AnsweredTypes DEF RunRemoveCallback, RunUpdateCallback
<1>2. n \in Nat
  <2> HIDE DEF docs
  <2> QED BY <1>1, FoundProperties
<1>3. \/ worker' = worker \o [i \in 1 .. n |-> removal(i)]
      \/ worker' = worker \o [i \in 1 .. n |-> patch(i)]
  BY DEF RunRemoveCallback, deleteFound, RunUpdateCallback, updateFound
<1>4. \A i \in 1 .. n : /\ ~IsCreation(removal(i)) /\ ~IsCreation(patch(i))
                         /\ removal(i).kind # "user" /\ patch(i).kind # "user"
                         /\ ~IsLoad(removal(i)) /\ ~IsLoad(patch(i))
  BY DEF WriteTask, Delete, Patch, IsCreation, IsLoad
<1> HIDE DEF removal, patch, n
<1>5. worker \in Seq(Task(Len(heap)))
  BY DEF IInv, TypeOK, StoreTypeOK
<1>6. CASE worker' = worker \o [i \in 1 .. n |-> removal(i)]
  <2> DEFINE t == [i \in 1 .. n |-> removal(i)]
  <2>1. t \in Seq({removal(i) : i \in 1 .. n})
    BY <1>2
  <2>2. \A i \in DOMAIN t : t[i].kind # "user" /\ ~IsCreation(t[i]) /\ ~IsLoad(t[i])
    BY <1>4
  <2>3. worker' = worker \o t
    BY <1>6
  <2> HIDE DEF t
  <2> QED BY <1>5, <2>1, <2>2, <2>3, AppendedTasks DEF Adds
<1>7. CASE worker' = worker \o [i \in 1 .. n |-> patch(i)]
  <2> DEFINE t == [i \in 1 .. n |-> patch(i)]
  <2>1. t \in Seq({patch(i) : i \in 1 .. n})
    BY <1>2
  <2>2. \A i \in DOMAIN t : t[i].kind # "user" /\ ~IsCreation(t[i]) /\ ~IsLoad(t[i])
    BY <1>4
  <2>3. worker' = worker \o t
    BY <1>7
  <2> HIDE DEF t
  <2> QED BY <1>5, <2>1, <2>2, <2>3, AppendedTasks DEF Adds
<1> QED BY <1>3, <1>6, <1>7

\* Saving an edit and confirming a deletion ask for lookups only.
LEMMA LookUpsMakeNoCreation ==
    ASSUME IInv, SaveEdit \/ DeleteTransaction
    PROVE  NoNewCreation /\ (worker' = worker \/ LooksUpOrChanges)
<1>1. \/ worker' = worker
      \/ \E q, c : c.kind # "load" /\ worker' = Append(worker, ListenTask(q, c))
  BY DEF SaveEdit, updatetransaction, DeleteTransaction, removeTransaction,
         UpdateCallback, RemoveCallback
<1>2. worker \in Seq(Task(Len(heap)))
  BY DEF IInv, TypeOK, StoreTypeOK
<1>3. ASSUME NEW q, NEW c, c.kind # "load", worker' = Append(worker, ListenTask(q, c))
      PROVE  NoNewCreation /\ LooksUpOrChanges
  <2> DEFINE task == ListenTask(q, c)
  <2>1. task.kind # "user" /\ ~IsCreation(task) /\ ~IsLoad(task)
    BY <1>3 DEF ListenTask, IsCreation, IsLoad
  <2> HIDE DEF task
  <2>2. worker' = worker \o <<task>> /\ <<task>> \in Seq({task})
    BY <1>2, <1>3 DEF task
  <2>3. \A j \in DOMAIN <<task>> : /\ <<task>>[j].kind # "user" /\ ~IsCreation(<<task>>[j])
                                   /\ ~IsLoad(<<task>>[j])
    BY <2>1
  <2> QED BY <1>2, <2>2, <2>3, AppendedTasks DEF Adds
<1> QED BY <1>1, <1>3 DEF NoNewCreation

\* All steps but seven leave the documents and the record of what was added
\* alone, and make no creation.
LEMMA StepsWithoutCreation ==
    ASSUME IInv, [Next]_vars
    PROVE  \/ NoNewCreation /\ UNCHANGED <<server, mutations, added>>
           \/ AddTransaction
           \/ UNCHANGED added /\ ( \/ WriteMutations \/ ApplySuccessfulWrite
                                   \/ CommitWithoutResponse \/ RejectFailedWrite
                                   \/ OtherDevices)
<1>1. (worker' = worker \/ worker' = << >>) => NoNewCreation
  BY DEF NoNewCreation
<1>2. CASE UserStep
  <2>1. CASE SaveEdit \/ DeleteTransaction
    BY <2>1, LookUpsMakeNoCreation DEF SaveEdit, DeleteTransaction
  <2>2. CASE (\E u \in Users : SendSignIn(u)) \/ SignOut \/ ReturnFromSignUp \/ OpenTable
    BY <1>1, <2>2 DEF SendSignIn, SignOut, ReturnFromSignUp, OpenTable, storeVars
  <2> QED BY <1>2, <2>1, <2>2 DEF UserStep
<1>3. CASE MainStep
  <2>1. CASE RunAuthBlock \/ RunInitialBlock
    BY <2>1, AuthMakesNoCreation DEF RunAuthBlock, RunInitialBlock
  <2>2. CASE RunRemoveCallback \/ RunUpdateCallback
    BY <2>2, CallbacksMakeNoCreation DEF RunRemoveCallback, RunUpdateCallback
  <2>3. CASE RunLoadCallback \/ RunErrorCallback
    BY <1>1, <2>3 DEF RunLoadCallback, setLoadedTransactions, RunErrorCallback
  <2> QED BY <1>3, <2>1, <2>2, <2>3 DEF MainStep
<1>4. CASE AuthStep \/ Crash
  BY <1>1, <1>4 DEF AuthStep, LoadKeychain, RefreshToken, SignOutByForce, SignInAnswered,
                SignInRefused, storeVars, Crash, Launched,
                    StoreCrash
<1>5. CASE Frame /\ StoreStep({Encode(c) : c \in NewContents})
  <2>1. added' = added
    BY <1>5 DEF Frame
  <2>2. CASE UserDidChange \/ AddListener
    BY <2>1, <2>2, TailOfWorker DEF UserDidChange, AddListener, IInv, TypeOK
  <2>3. CASE \/ \E q \in Queries : \/ RaiseFromServer(q) \/ RaiseFromCache(q)
                                   \/ RejectListen(q)
             \/ GoOffline \/ GoOnline
    BY <1>1, <2>1, <2>3 DEF RaiseFromServer, RaiseFromCache, RejectListen, GoOffline,
       GoOnline
  <2> QED BY <1>5, <2>1, <2>2, <2>3 DEF StoreStep, OtherDevices
<1>6. CASE UNCHANGED vars
  BY <1>1, <1>6 DEF vars
<1> QED BY <1>2, <1>3, <1>4, <1>5, <1>6 DEF Next

-----------------------------------------------------------------------------
\* The steps that make, move or change documents.

\* An id is new when a transaction is added, so that no document has it yet.
LEMMA StaysGenuine ==
    ASSUME TypeOK, NEW x \in Ids, added[x] = NotAdded, NEW entry,
           added' = [added EXCEPT ![x] = entry],
           NEW d \in DocIds, NEW doc \in Document, Genuine(added, d, doc)
    PROVE  Genuine(added', d, doc)
<1>1. doc.id \in Ids /\ doc.user_id \in Users
  BY DEF Document
<1>2. [key |-> d, user |-> doc.user_id] \in [key : DocIds \cup {NoKey},
                                             user : Users \cup {Nobody}]
  BY <1>1
<1>3. added[doc.id] # NotAdded
  BY <1>2, MarkerAssumption DEF Genuine
<1>4. added'[doc.id] = added[doc.id]
  BY <1>1, <1>3 DEF TypeOK, SessionTypeOK
<1> QED BY <1>4 DEF Genuine

\* A new transaction is recorded with the key and the user its creation names.
LEMMA AddTransactionGenuine ==
    ASSUME Provenance, AddTransaction
    PROVE  OnServer' /\ InQueues' /\ OnWorker'
<1>1. PICK x \in Ids, d \in DocIds \ UsedKeys, c \in NewContents :
        /\ added[x] = NotAdded
        /\ addTransactions([id |-> x, content |-> c], authUser, d)
        /\ added' = [added EXCEPT ![x] =
                       [key |-> IF authUser = Nobody THEN NoKey ELSE d,
                        user |-> authUser]]
  BY DEF AddTransaction
<1> DEFINE document == [id |-> x, user_id |-> authUser, content |-> Encode(c)]
           task == WriteTask(Set(d, document))
<1>2. /\ server' = server /\ mutations' = mutations
      /\ worker' = IF authUser = Nobody THEN worker ELSE Append(worker, task)
  BY <1>1 DEF AddTransaction, addTransactions
<1>3. TypeOK /\ StoreTypeOK
  BY DEF Provenance, IInv, TypeOK
<1>4. ASSUME NEW e \in DocIds, NEW doc \in Document, Genuine(added, e, doc)
      PROVE  Genuine(added', e, doc)
  BY <1>1, <1>3, <1>4, StaysGenuine
<1>5. authUser # Nobody => Genuine(added', d, document)
  <2>1. added'[x] = [key |-> IF authUser = Nobody THEN NoKey ELSE d,
                     user |-> authUser]
    BY <1>1, <1>3 DEF TypeOK, SessionTypeOK
  <2> QED BY <2>1 DEF Genuine
<1> HIDE DEF document
<1>6. OnServer'
  <2>1. ASSUME NEW e \in DocIds, server[e] # Absent
        PROVE  Genuine(added', e, server[e])
    <3>1. server[e] \in Document /\ Genuine(added, e, server[e])
      BY <1>3, <2>1 DEF StoreTypeOK, DocState, Provenance, OnServer
    <3> QED BY <1>4, <3>1
  <2> QED BY <1>2, <2>1 DEF OnServer
<1>7. InQueues'
  <2>1. ASSUME NEW u \in Users \cup {Nobody}, NEW i \in DOMAIN mutations[u],
               mutations[u][i].op = "set"
        PROVE  Genuine(added', mutations[u][i].key, mutations[u][i].document)
    <3>1. mutations[u] \in Seq(Mutation)
      BY <1>3 DEF StoreTypeOK
    <3>2. mutations[u][i] \in Mutation
      BY <3>1
    <3>3. mutations[u][i].key \in DocIds /\ mutations[u][i].document \in Document
      BY <2>1, <3>2 DEF Mutation
    <3>4. Genuine(added, mutations[u][i].key, mutations[u][i].document)
      BY <2>1 DEF Provenance, InQueues
    <3> QED BY <1>4, <3>3, <3>4
  <2> QED BY <1>2, <2>1 DEF InQueues
<1>8. OnWorker'
  <2>1. worker \in Seq(Task(Len(heap)))
    BY <1>3 DEF StoreTypeOK
  <2>2. ASSUME NEW i \in DOMAIN worker, IsCreation(worker[i])
        PROVE  Genuine(added', worker[i].mutation.key, worker[i].mutation.document)
    <3>1. worker[i] \in Task(Len(heap))
      BY <2>1
    <3>2. worker[i].mutation \in Mutation /\ worker[i].mutation.op = "set"
      BY <2>2, <3>1 DEF IsCreation, Task
    <3>3. /\ worker[i].mutation.key \in DocIds
          /\ worker[i].mutation.document \in Document
      BY <3>2 DEF Mutation
    <3>4. Genuine(added, worker[i].mutation.key, worker[i].mutation.document)
      BY <2>2 DEF Provenance, OnWorker
    <3> QED BY <1>4, <3>3, <3>4
  <2>3. CASE authUser = Nobody
    BY <1>2, <2>2, <2>3 DEF OnWorker
  <2>4. CASE authUser # Nobody
    <3>1. task.mutation.key = d /\ task.mutation.document = document
      BY DEF WriteTask, Set
    <3>2. Genuine(added', task.mutation.key, task.mutation.document)
      BY <1>5, <2>4, <3>1
    <3> HIDE DEF task
    <3>3. worker' = Append(worker, task)
      BY <1>2, <2>4
    <3>4. \A i \in DOMAIN worker' : \/ i \in DOMAIN worker /\ worker'[i] = worker[i]
                                    \/ worker'[i] = task
      BY <2>1, <3>3
    <3> QED BY <2>2, <3>2, <3>4 DEF OnWorker
  <2> QED BY <2>3, <2>4
<1> QED BY <1>6, <1>7, <1>8

\* A creation goes from the worker queue into a mutation queue unchanged.
LEMMA WriteMutationsGenuine ==
    ASSUME Provenance, WriteMutations, added' = added
    PROVE  OnServer' /\ InQueues' /\ OnWorker'
<1>1. \A u \in Users \cup {Nobody} : \A i \in DOMAIN mutations'[u] :
         \/ mutations'[u][i] = Head(worker).mutation
         \/ i \in DOMAIN mutations[u] /\ mutations'[u][i] = mutations[u][i]
  BY FiledWrite DEF Provenance
<1>2. NoNewCreation /\ 1 \in DOMAIN worker /\ Head(worker) = worker[1]
  BY TailOfWorker DEF Provenance, IInv, TypeOK, WriteMutations
<1>3. Head(worker).mutation.op = "set" =>
         Genuine(added, Head(worker).mutation.key, Head(worker).mutation.document)
  BY <1>2 DEF Provenance, OnWorker, IsCreation, WriteMutations
<1>4. OnServer'
  BY DEF WriteMutations, Provenance, OnServer
<1>5. InQueues'
  BY <1>1, <1>3 DEF Provenance, InQueues
<1>6. OnWorker'
  BY <1>2 DEF Provenance, OnWorker, NoNewCreation
<1> QED BY <1>4, <1>5, <1>6

\* It is a document under d that the transaction was added with, or none.
GenuineOrNone(d, doc) == doc \in DocState /\ (doc # Absent => Genuine(added, d, doc))

\* A write does not change what a document is.
LEMMA ApplyToGenuine ==
    ASSUME NEW m \in Mutation, NEW d, m.op = "set" => Genuine(added, d, m.document),
           NEW doc, GenuineOrNone(d, doc)
    PROVE  GenuineOrNone(d, ApplyTo(m, doc))
<1>1. doc \in DocState /\ ApplyTo(m, doc) \in DocState
  BY ApplyToType DEF GenuineOrNone
<1>2. CASE ~Precondition(m, doc)
  <2>1. ApplyTo(m, doc) = doc
    BY <1>2 DEF ApplyTo, Precondition
  <2> QED BY <2>1
<1>3. CASE m.op = "set"
  <2>1. ApplyTo(m, doc) = m.document
    BY <1>3 DEF ApplyTo, Precondition
  <2> QED BY <1>1, <1>3, <2>1 DEF GenuineOrNone
<1>4. CASE m.op = "patch" /\ doc # Absent
  <2>1. doc \in Document /\ Genuine(added, d, doc)
    BY <1>4 DEF GenuineOrNone, DocState
  <2>2. ApplyTo(m, doc) = [doc EXCEPT !.content = m.content]
    BY <1>4 DEF ApplyTo, Precondition
  <2>3. ApplyTo(m, doc).id = doc.id /\ ApplyTo(m, doc).user_id = doc.user_id
    BY <2>1, <2>2 DEF Document
  <2> QED BY <1>1, <2>1, <2>3 DEF GenuineOrNone, Genuine
<1>5. CASE m.op = "delete"
  <2>1. ApplyTo(m, doc) = Absent
    BY <1>5 DEF ApplyTo, Precondition
  <2> QED BY <1>1, <2>1 DEF GenuineOrNone
<1> QED BY <1>2, <1>3, <1>4, <1>5 DEF Mutation, Precondition

\* Nor do several.
LEMMA WrittenGenuine ==
    ASSUME NEW q \in Seq(Mutation), NEW d, NEW doc, GenuineOrNone(d, doc),
           \A i \in DOMAIN q : q[i].op = "set" /\ q[i].key = d
                                 => Genuine(added, d, q[i].document)
    PROVE  GenuineOrNone(d, Written(q, doc, d))
<1>1. \A i \in DOMAIN q : q[i] \in Mutation
  OBVIOUS
<1>a. PICK p, k \in Nat : \E b :
         BasedOn(q, doc, d, p, b) /\ PatchedBy(q, d, p, k)
         /\ Written(q, doc, d) = IF k = 0 THEN b ELSE ApplyTo(q[k], b)
  BY WrittenIsOverlaid DEF Overlaid
<1>2. PICK b :
         BasedOn(q, doc, d, p, b) /\ PatchedBy(q, d, p, k)
         /\ Written(q, doc, d) = IF k = 0 THEN b ELSE ApplyTo(q[k], b)
  BY <1>a
<1>3. ASSUME NEW i \in DOMAIN q, q[i].key = d
      PROVE  q[i] \in Mutation /\ (q[i].op = "set" => Genuine(added, d, q[i].document))
  BY <1>1, <1>3
<1>4. GenuineOrNone(d, b)
  <2>1. CASE p \in DOMAIN q /\ Replaces(q[p], d) /\ b = ApplyTo(q[p], doc)
    <3>1. q[p] \in Mutation /\ (q[p].op = "set" => Genuine(added, d, q[p].document))
      BY <1>3, <2>1 DEF Replaces
    <3> QED BY <2>1, <3>1, ApplyToGenuine
  <2> QED BY <1>2, <2>1 DEF BasedOn
<1>5. CASE k # 0
  <2>1. k \in DOMAIN q /\ q[k].key = d
    BY <1>2, <1>5 DEF PatchedBy, Patches
  <2>2. q[k] \in Mutation /\ (q[k].op = "set" => Genuine(added, d, q[k].document))
    BY <1>3, <2>1
  <2>3. GenuineOrNone(d, ApplyTo(q[k], b))
    BY <1>4, <2>2, ApplyToGenuine
  <2> QED BY <1>2, <1>5, <2>3
<1> QED BY <1>2, <1>4, <1>5

\* What the server commits is genuine: a creation was so already, and a patch
\* keeps the id and the user.
LEMMA CommitGenuine ==
    ASSUME Provenance, Sending, NEW n \in Nat \ {0}, CommitWrites(n), added' = added
    PROVE  OnServer'
<1>1. StoreTypeOK /\ fsUser \in Users \cup {Nobody}
  BY SendingTypes DEF Provenance, IInv, TypeOK
<1>2. /\ n <= Len(mutations[fsUser])
      /\ server' = [d \in DocIds |-> Written(Sent(n), server[d], d)]
  BY <1>1, CommitEffect
<1>3. /\ Sent(n) \in Seq(Mutation)
      /\ DOMAIN Sent(n) = 1 .. n
      /\ \A i \in 1 .. n : /\ i \in DOMAIN mutations[fsUser]
                           /\ Sent(n)[i] = mutations[fsUser][i]
  BY <1>1, <1>2, SentTypes
<1>4. ASSUME NEW d \in DocIds, server'[d] # Absent
      PROVE  Genuine(added, d, server'[d])
  <2>1. GenuineOrNone(d, server[d])
    BY <1>1 DEF Provenance, OnServer, StoreTypeOK, GenuineOrNone
  <2>2. \A i \in DOMAIN Sent(n) : Sent(n)[i].op = "set" /\ Sent(n)[i].key = d
                                    => Genuine(added, d, Sent(n)[i].document)
    BY <1>1, <1>3 DEF Provenance, InQueues
  <2>3. GenuineOrNone(d, Written(Sent(n), server[d], d))
    BY <1>3, <2>1, <2>2, WrittenGenuine
  <2>4. server'[d] = Written(Sent(n), server[d], d)
    BY <1>2
  <2> QED BY <1>4, <2>3, <2>4 DEF GenuineOrNone
<1> QED BY <1>4 DEF OnServer

\* Dropping the next write leaves genuine ones in the queues.
LEMMA DropGenuine ==
    ASSUME Provenance, Sending, DropNextWrite, added' = added
    PROVE  InQueues'
<1>1. \A u \in Users \cup {Nobody} : \A i \in DOMAIN mutations'[u] :
         \E j \in DOMAIN mutations[u] : mutations'[u][i] = mutations[u][j]
  BY DroppedWrite DEF Provenance, IInv, TypeOK
<1>2. ASSUME NEW u \in Users \cup {Nobody}, NEW i \in DOMAIN mutations'[u],
             mutations'[u][i].op = "set"
      PROVE  Genuine(added, mutations'[u][i].key, mutations'[u][i].document)
  <2>1. PICK j \in DOMAIN mutations[u] : mutations'[u][i] = mutations[u][j]
    BY <1>1
  <2> QED BY <1>2, <2>1 DEF Provenance, InQueues
<1> QED BY <1>2 DEF InQueues

\* Another device rewrites the content of a document, or removes it.
LEMMA OtherDevicesGenuine ==
    ASSUME Provenance, OtherDevices, added' = added
    PROVE  OnServer'
<1>1. PICK d \in Found(server) :
        \/ \E c \in {Encode(k) : k \in NewContents} :
              server' = [server EXCEPT ![d].content = c]
        \/ server' = [server EXCEPT ![d] = Absent]
  BY DEF OtherDevices, OtherDevice
<1>2. /\ d \in DocIds /\ server[d] \in Document /\ server[d] # Absent
      /\ server \in [DocIds -> DocState]
  BY DEF Provenance, IInv, TypeOK, StoreTypeOK, Found, DocState
<1>3. ASSUME NEW e \in DocIds, server'[e] # Absent
      PROVE  /\ server[e] # Absent
             /\ server'[e].id = server[e].id /\ server'[e].user_id = server[e].user_id
  <2>1. CASE e # d
    BY <1>1, <1>2, <1>3, <2>1
  <2>2. CASE e = d
    <3>1. PICK c : server' = [server EXCEPT ![d].content = c]
      BY <1>1, <1>2, <1>3, <2>2
    <3>2. server'[d] = [server[d] EXCEPT !.content = c]
      BY <1>2, <3>1
    <3> QED BY <1>2, <2>2, <3>2 DEF Document
  <2> QED BY <2>1, <2>2
<1> QED BY <1>3 DEF Provenance, OnServer, Genuine

\* Where neither documents nor the record of what was added change, and no new
\* creation is made, everything stays as it was.
LEMMA UndisturbedParts ==
    ASSUME Provenance, added' = added
    PROVE  /\ server' = server => OnServer'
           /\ mutations' = mutations => InQueues'
           /\ NoNewCreation => OnWorker'
           /\ worker' = worker => OnWorker'
<1>1. server' = server => OnServer'
  BY DEF Provenance, OnServer
<1>2. mutations' = mutations => InQueues'
  BY DEF Provenance, InQueues
<1>3. NoNewCreation => OnWorker'
  BY DEF Provenance, OnWorker, NoNewCreation
<1>4. worker' = worker => OnWorker'
  BY DEF Provenance, OnWorker
<1> QED BY <1>1, <1>2, <1>3, <1>4

\* The inductive invariant holds at first.
LEMMA ProvenanceInit == Init => Provenance
<1> SUFFICES ASSUME Init PROVE OnServer /\ InQueues /\ OnWorker
  BY InitTypes DEF Provenance
<1> QED BY DEF Init, StoreInit, OnServer, InQueues, OnWorker

\* A step keeps it.
LEMMA ProvenanceStep == Provenance /\ [Next]_vars => Provenance'
<1> SUFFICES ASSUME Provenance, [Next]_vars PROVE OnServer' /\ InQueues' /\ OnWorker'
  BY Invariance DEF Provenance
<1>1. CASE NoNewCreation /\ UNCHANGED <<server, mutations, added>>
  BY <1>1, UndisturbedParts
<1>2. CASE AddTransaction
  BY <1>2, AddTransactionGenuine
<1>3. CASE added' = added /\ WriteMutations
  BY <1>3, WriteMutationsGenuine
<1>4. CASE added' = added /\ ApplySuccessfulWrite
  <2>1. Sending /\ CommitWrites(1) /\ 1 \in Nat \ {0}
    BY <1>4 DEF ApplySuccessfulWrite
  <2> QED BY <1>4, <2>1, CommitGenuine, DropGenuine, UndisturbedParts
             DEF ApplySuccessfulWrite
<1>5. CASE added' = added /\ CommitWithoutResponse
  <2>1. Sending /\ \E n \in Nat \ {0} : CommitWrites(n)
    BY <1>5, SomeCommitted DEF CommitWithoutResponse
  <2> QED BY <1>5, <2>1, CommitGenuine, UndisturbedParts DEF CommitWithoutResponse
<1>6. CASE added' = added /\ RejectFailedWrite
  BY <1>6, DropGenuine, UndisturbedParts DEF RejectFailedWrite
<1>7. CASE added' = added /\ OtherDevices
  BY <1>7, OtherDevicesGenuine, UndisturbedParts DEF OtherDevices, OtherDevice
<1>8. IInv
  BY DEF Provenance
<1> QED BY <1>1, <1>2, <1>3, <1>4, <1>5, <1>6, <1>7, <1>8, StepsWithoutCreation

\* A transaction has one document at most, the one it was created with, and
\* the document names the user who created it, whatever was edited, re-sent,
\* reloaded or rewritten by another device since: looking documents up by the
\* "id" field finds one.
THEOREM OneDocument == Spec => []OneDocumentPerTransaction
<1>1. Provenance => OneDocumentPerTransaction
  BY DEF Provenance, OnServer, Genuine, OneDocumentPerTransaction, Found
<1> QED BY <1>1, ProvenanceInit, ProvenanceStep, PTL DEF Spec


-----------------------------------------------------------------------------
\* In whose name the SDK's worker acts.

\* The user it acts for when it has run the first n tasks of the queue w, if it
\* is f now.
ActsFor(w, f, n, u) ==
    \/ u = f /\ \A j \in 1 .. n : w[j].kind # "user"
    \/ \E j \in 1 .. n : /\ w[j].kind = "user" /\ w[j].user = u
                         /\ \A k \in 1 .. n : k > j => w[k].kind # "user"

\* That is one user only.
LEMMA OneActor ==
    ASSUME NEW w, NEW f, NEW n \in Nat, NEW u, NEW v, ActsFor(w, f, n, u), ActsFor(w, f, n, v)
    PROVE  u = v
<1>1. ASSUME NEW j \in 1 .. n, w[j].kind = "user", \A k \in 1 .. n : k > j => w[k].kind # "user",
             NEW i \in 1 .. n, w[i].kind = "user", \A k \in 1 .. n : k > i => w[k].kind # "user"
      PROVE  i = j
  BY <1>1
<1> QED BY <1>1 DEF ActsFor

\* It is the one that CredentialsUser gives for the whole queue.
LEMMA CredentialsActs ==
    ASSUME StoreTypeOK
    PROVE  ActsFor(worker, fsUser, Len(worker), CredentialsUser)
<1> DEFINE changes == {i \in DOMAIN worker : worker[i].kind = "user"}
<1>1. DOMAIN worker = 1 .. Len(worker) /\ Len(worker) \in Nat
  BY DEF StoreTypeOK
<1>2. CASE changes = {}
  BY <1>1, <1>2 DEF CredentialsUser, ActsFor
<1>3. CASE changes # {}
  <2>1. changes \in SUBSET Int /\ IsFiniteSet(changes)
    <3>1. IsFiniteSet(1 .. Len(worker))
      BY <1>1, FS_Interval
    <3>2. changes \in SUBSET (1 .. Len(worker))
      BY <1>1
    <3>3. IsFiniteSet(changes)
      BY <3>1, <3>2, FS_Subset
    <3> QED BY <1>1, <3>2, <3>3
  <2>2. CredentialsUser = worker[Greatest(changes)].user
    BY <1>3 DEF CredentialsUser
  <2> HIDE DEF changes
  <2>3. Greatest(changes) \in changes /\ \A k \in changes : k <= Greatest(changes)
    BY <1>3, <2>1, GreatestProperties
  <2> DEFINE g == Greatest(changes)
  <2> HIDE DEF g
  <2>4. /\ g \in 1 .. Len(worker) /\ worker[g].kind = "user" /\ CredentialsUser = worker[g].user
        /\ \A k \in 1 .. Len(worker) : worker[k].kind = "user" => k <= g
    BY <1>1, <2>2, <2>3 DEF changes, g
  <2>5. \A k \in 1 .. Len(worker) : k > g => worker[k].kind # "user"
    BY <1>1, <2>4
  <2> QED BY <2>4, <2>5 DEF ActsFor
<1> QED BY <1>2, <1>3

\* The tasks that follow the first find the user that it leaves.
LEMMA ActorOfTail ==
    ASSUME NEW S, NEW w \in Seq(S), w # << >>, NEW n \in 1 .. Len(w), NEW f, NEW u,
           ActsFor(w, f, n, u)
    PROVE  ActsFor(Tail(w), IF Head(w).kind = "user" THEN Head(w).user ELSE f, n - 1, u)
<1> DEFINE g == IF Head(w).kind = "user" THEN Head(w).user ELSE f
           t == Tail(w)
<1>1. /\ Len(w) \in Nat /\ Head(w) = w[1] /\ 1 \in 1 .. n
      /\ \A j \in 1 .. n - 1 : t[j] = w[j + 1] /\ j + 1 \in 1 .. n
  OBVIOUS
<1>2. CASE u = f /\ \A j \in 1 .. n : w[j].kind # "user"
  BY <1>1, <1>2 DEF ActsFor
<1>3. CASE w[1].kind = "user" /\ w[1].user = u /\ \A k \in 1 .. n : k > 1 => w[k].kind # "user"
  <2>1. \A j \in 1 .. n - 1 : t[j].kind # "user"
    BY <1>1, <1>3
  <2> QED BY <1>1, <1>3, <2>1 DEF ActsFor
<1>4. ASSUME NEW j \in 1 .. n, j # 1, w[j].kind = "user", w[j].user = u,
             \A k \in 1 .. n : k > j => w[k].kind # "user"
      PROVE  ActsFor(t, g, n - 1, u)
  <2>1. /\ j - 1 \in 1 .. n - 1 /\ t[j - 1] = w[j]
        /\ \A k \in 1 .. n - 1 : k > j - 1 => t[k].kind # "user"
    BY <1>1, <1>4
  <2> QED BY <1>4, <2>1 DEF ActsFor
<1> QED BY <1>2, <1>3, <1>4 DEF ActsFor

\* Tasks that are appended change nothing for those before, and the user for
\* those behind only if they say so.
LEMMA ActorOfConcat ==
    ASSUME NEW S, NEW w \in Seq(S), NEW T, NEW t \in Seq(T), NEW f, NEW u
    PROVE  /\ \A n \in 1 .. Len(w) : ActsFor(w, f, n, u) => ActsFor(w \o t, f, n, u)
           /\ ActsFor(w, f, Len(w), u) /\ (\A j \in DOMAIN t : t[j].kind # "user")
                => ActsFor(w \o t, f, Len(w \o t), u)
<1>1. w \in Seq(S \cup T) /\ t \in Seq(S \cup T)
  BY SeqGrows
<1>2. /\ Len(w \o t) = Len(w) + Len(t) /\ Len(w) \in Nat /\ Len(t) \in Nat
      /\ DOMAIN t = 1 .. Len(t)
      /\ \A k \in 1 .. Len(w) + Len(t) :
            (w \o t)[k] = IF k <= Len(w) THEN w[k] ELSE t[k - Len(w)]
  BY <1>1, ConcatProperties
<1> DEFINE c == w \o t
<1>3. \A k \in 1 .. Len(w) : c[k] = w[k] /\ k \in 1 .. Len(c)
  BY <1>2
<1>4. \A k \in 1 .. Len(c) : k \in 1 .. Len(w) \/ (k - Len(w) \in DOMAIN t /\ c[k] = t[k - Len(w)])
  BY <1>2
<1> HIDE DEF c
<1>5. ASSUME NEW n \in 1 .. Len(w), ActsFor(w, f, n, u)
      PROVE  ActsFor(c, f, n, u)
  <2>1. \A k \in 1 .. n : c[k] = w[k]
    BY <1>2, <1>3
  <2> QED BY <1>5, <2>1 DEF ActsFor
<1>6. ASSUME ActsFor(w, f, Len(w), u), \A j \in DOMAIN t : t[j].kind # "user"
      PROVE  ActsFor(c, f, Len(c), u)
  <2>1. \A k \in 1 .. Len(c) : c[k].kind = "user" => k \in 1 .. Len(w)
    BY <1>4, <1>6
  <2>2. CASE u = f /\ \A j \in 1 .. Len(w) : w[j].kind # "user"
    BY <1>3, <2>1, <2>2 DEF ActsFor
  <2>3. ASSUME NEW j \in 1 .. Len(w), w[j].kind = "user", w[j].user = u,
               \A k \in 1 .. Len(w) : k > j => w[k].kind # "user"
        PROVE  ActsFor(c, f, Len(c), u)
    <3>1. j \in 1 .. Len(c) /\ c[j] = w[j]
      BY <1>3
    <3>2. \A k \in 1 .. Len(c) : k > j => c[k].kind # "user"
      BY <1>3, <2>1, <2>3
    <3> QED BY <2>3, <3>1, <3>2 DEF ActsFor
  <2> QED BY <1>6, <2>2, <2>3 DEF ActsFor
<1> QED BY <1>5, <1>6 DEF c

\* A task that changes the user leaves that user.
LEMMA ActorChanged ==
    ASSUME NEW S, NEW w \in Seq(S), NEW f, NEW u
    PROVE  ActsFor(w \o <<UserTask(u)>>, f, Len(w \o <<UserTask(u)>>), u)
<1> DEFINE task == UserTask(u)
<1>0. task.kind = "user" /\ task.user = u
  BY DEF UserTask
<1> HIDE DEF task
<1>1. <<task>> \in Seq({task}) /\ w \in Seq(S \cup {task}) /\ <<task>> \in Seq(S \cup {task})
  BY SeqGrows
<1> DEFINE c == w \o <<task>>
<1>2. Len(c) = Len(w) + 1 /\ Len(w) \in Nat /\ c[Len(c)] = task
  BY <1>1
<1> HIDE DEF c
<1>3. Len(c) \in 1 .. Len(c) /\ \A k \in 1 .. Len(c) : ~(k > Len(c))
  BY <1>2
<1> QED BY <1>0, <1>2, <1>3 DEF ActsFor, c, task

-----------------------------------------------------------------------------
\* What Auth has announced.

\* A block of the queue m names a user; the last that does names u; all do.
Announces(m) == \E i \in DOMAIN m : m[i].kind = "auth"
LastAnnounces(m, u) ==
    \A i \in DOMAIN m :
        m[i].kind = "auth" /\ (\A j \in DOMAIN m : j > i => m[j].kind # "auth") => m[i].user = u
OnlyAnnounces(m, u) == \A i \in DOMAIN m : m[i].kind = "auth" => m[i].user = u

\* The step announces nothing and delivers no announcement.
SameAnnouncements ==
    /\ Announces(main) => Announces(main')
    /\ \A u : LastAnnounces(main, u) => LastAnnounces(main', u)
    /\ \A u : OnlyAnnounces(main, u) => OnlyAnnounces(main', u)

\* It does neither if it leaves the main queue alone, runs a block that is no
\* announcement, or appends such blocks.
LEMMA BlockRun ==
    ASSUME StoreTypeOK, main # << >>, main' = Tail(main)
    PROVE  /\ Head(main).kind # "auth" => SameAnnouncements
           /\ \A u : LastAnnounces(main, u) => LastAnnounces(main', u)
           /\ \A u : OnlyAnnounces(main, u) =>
                OnlyAnnounces(main', u) /\ (Head(main).kind = "auth" => Head(main).user = u)
           /\ \A u : LastAnnounces(main, u) /\ ~Announces(main') /\ Head(main).kind = "auth"
                => Head(main).user = u
<1> DEFINE t == Tail(main)
<1>1. /\ Head(main) = main[1] /\ 1 \in DOMAIN main
      /\ \A i \in DOMAIN t : t[i] = main[i + 1] /\ i + 1 \in DOMAIN main /\ i \in Nat
      /\ \A i \in DOMAIN main : i \in Nat /\ (i = 1 \/ (i - 1 \in DOMAIN t /\ t[i - 1] = main[i]))
  BY DEF StoreTypeOK
<1> HIDE DEF t
<1>2. ASSUME NEW u, LastAnnounces(main, u)
      PROVE  LastAnnounces(t, u)
  <2> SUFFICES ASSUME NEW i \in DOMAIN t, t[i].kind = "auth",
                      \A j \in DOMAIN t : j > i => t[j].kind # "auth"
               PROVE  t[i].user = u
    BY DEF LastAnnounces
  <2>1. \A j \in DOMAIN main : j > i + 1 => main[j].kind # "auth"
    BY <1>1
  <2> QED BY <1>1, <1>2, <2>1 DEF LastAnnounces
<1>3. ASSUME NEW u, OnlyAnnounces(main, u)
      PROVE  OnlyAnnounces(t, u) /\ (Head(main).kind = "auth" => Head(main).user = u)
  BY <1>1, <1>3 DEF OnlyAnnounces
<1>4. ASSUME NEW u, LastAnnounces(main, u), ~Announces(t), Head(main).kind = "auth"
      PROVE  Head(main).user = u
  <2>1. \A j \in DOMAIN main : j > 1 => main[j].kind # "auth"
    BY <1>1, <1>4 DEF Announces
  <2> QED BY <1>1, <1>4, <2>1 DEF LastAnnounces
<1>5. Head(main).kind # "auth" /\ Announces(main) => Announces(t)
  BY <1>1 DEF Announces
<1> QED BY <1>2, <1>3, <1>4, <1>5 DEF SameAnnouncements, t

\* Blocks t appended to the main queue, which announce nothing.
LEMMA BlocksAppended ==
    ASSUME StoreTypeOK, NEW T, NEW t \in Seq(T), main' = main \o t,
           \A j \in DOMAIN t : t[j].kind # "auth"
    PROVE  SameAnnouncements
<1> DEFINE S == Block(Len(heap), Len(observers))
<1>1. main \in Seq(S \cup T) /\ t \in Seq(S \cup T)
  BY SeqGrows DEF StoreTypeOK
<1> HIDE DEF S
<1>2. /\ Len(main') = Len(main) + Len(t) /\ Len(main) \in Nat /\ Len(t) \in Nat
      /\ DOMAIN t = 1 .. Len(t) /\ DOMAIN main = 1 .. Len(main) /\ DOMAIN main' = 1 .. Len(main')
      /\ \A k \in 1 .. Len(main) + Len(t) :
            main'[k] = IF k <= Len(main) THEN main[k] ELSE t[k - Len(main)]
  BY <1>1, ConcatProperties
<1>3. \A k \in DOMAIN main : main'[k] = main[k] /\ k \in DOMAIN main'
  BY <1>2
<1>4. \A k \in DOMAIN main' : main'[k].kind = "auth" => k \in DOMAIN main
  BY <1>2
<1> QED BY <1>3, <1>4 DEF SameAnnouncements, Announces, LastAnnounces, OnlyAnnounces

\* One block appended to it, an announcement or not.
LEMMA BlockAppended ==
    ASSUME StoreTypeOK, NEW b, main' = Append(main, b)
    PROVE  /\ b.kind # "auth" => SameAnnouncements
           /\ b.kind = "auth" => Announces(main') /\ LastAnnounces(main', b.user)
           /\ OnlyAnnounces(main, b.user) => OnlyAnnounces(main', b.user)
<1> DEFINE S == Block(Len(heap), Len(observers)) \cup {b}
<1>1. main \in Seq(S) /\ b \in S
  BY SeqGrows DEF StoreTypeOK
<1> HIDE DEF S
<1>2. /\ main' = main \o <<b>> /\ <<b>> \in Seq({b}) /\ \A j \in DOMAIN <<b>> : <<b>>[j] = b
      /\ Len(main') \in DOMAIN main' /\ main'[Len(main')] = b
      /\ \A k \in DOMAIN main' : k = Len(main') \/ (k < Len(main') /\ k \in DOMAIN main /\ main'[k] = main[k])
      /\ DOMAIN main' = 1 .. Len(main') /\ Len(main') \in Nat
  BY <1>1
<1>3. b.kind # "auth" => SameAnnouncements
  BY <1>2, BlocksAppended
<1>4. b.kind = "auth" => Announces(main') /\ LastAnnounces(main', b.user)
  BY <1>2 DEF Announces, LastAnnounces
<1>5. OnlyAnnounces(main, b.user) => OnlyAnnounces(main', b.user)
  BY <1>2 DEF OnlyAnnounces
<1> QED BY <1>3, <1>4, <1>5

\* Answers announce nothing.
LEMMA AnswersAnnounceNothing ==
    ASSUME IInv, NEW q \in Queries,
           RaiseFromServer(q) \/ RaiseFromCache(q) \/ RejectListen(q)
    PROVE  SameAnnouncements
<1> DEFINE n == Len(listeners[q])
<1>1. StoreTypeOK /\ n \in Nat
  BY DEF IInv, TypeOK, StoreTypeOK
<1>2. ASSUME NEW docs, main' = main \o [i \in 1 .. n |-> SnapshotBlock(listeners[q][i], docs)]
      PROVE  SameAnnouncements
  <2> DEFINE block(i) == SnapshotBlock(listeners[q][i], docs)
             S == {block(i) : i \in 1 .. n}
             t == [i \in 1 .. n |-> block(i)]
  <2>1. \A i \in 1 .. n : block(i) \in S /\ block(i).kind # "auth"
    BY DEF SnapshotBlock
  <2>2. main' = main \o t
    BY <1>2
  <2> HIDE DEF block, S, n
  <2>3. t \in Seq(S) /\ \A i \in DOMAIN t : t[i].kind # "auth"
    BY <1>1, <2>1
  <2> HIDE DEF t
  <2> QED BY <1>1, <2>2, <2>3, BlocksAppended
<1>3. ASSUME main' = main \o [i \in 1 .. n |-> ErrorBlock(listeners[q][i])]
      PROVE  SameAnnouncements
  <2> DEFINE block(i) == ErrorBlock(listeners[q][i])
             S == {block(i) : i \in 1 .. n}
             t == [i \in 1 .. n |-> block(i)]
  <2>1. \A i \in 1 .. n : block(i) \in S /\ block(i).kind # "auth"
    BY DEF ErrorBlock
  <2>2. main' = main \o t
    BY <1>3
  <2> HIDE DEF block, S, n
  <2>3. t \in Seq(S) /\ \A i \in DOMAIN t : t[i].kind # "auth"
    BY <1>1, <2>1
  <2> HIDE DEF t
  <2> QED BY <1>1, <2>2, <2>3, BlocksAppended
<1>4. CASE RaiseFromServer(q)
  BY <1>2, <1>4 DEF RaiseFromServer, Raise
<1>5. CASE RaiseFromCache(q)
  BY <1>2, <1>5 DEF RaiseFromCache, Raise
<1>6. CASE RejectListen(q)
  BY <1>3, <1>6 DEF RejectListen, Raise
<1> QED BY <1>4, <1>5, <1>6

\* Only Auth and the end of the process change what is announced.
LEMMA AnnouncingSteps ==
    ASSUME IInv, [Next]_vars
    PROVE  \/ SameAnnouncements
           \/ LoadKeychain \/ (\E u \in Users : SignInAnswered(u)) \/ RefreshToken
           \/ SignOutByForce \/ SignOut \/ RunAuthBlock \/ Crash
<1>1. main' = main => SameAnnouncements
  BY DEF SameAnnouncements
<1>2. StoreTypeOK
  BY DEF IInv, TypeOK
<1>3. CASE UserStep
  <2>1. CASE ReturnFromSignUp
    <3>1. \E i : main' = Append(main, InitialBlock(i))
      BY <2>1 DEF ReturnFromSignUp, checkLoggedIn
    <3>2. \A i : InitialBlock(i).kind # "auth"
      BY DEF InitialBlock
    <3> QED BY <1>2, <3>1, <3>2, BlockAppended
  <2>2. CASE \/ OpenTable \/ AddTransaction \/ SaveEdit \/ DeleteTransaction
             \/ \E u \in Users : SendSignIn(u)
    BY <1>1, <2>2 DEF OpenTable, AddTransaction, SaveEdit, DeleteTransaction, SendSignIn,
                      storeVars
  <2> QED BY <1>3, <2>1, <2>2 DEF UserStep
<1>4. CASE MainStep
  <2>1. CASE RunInitialBlock
    BY <1>2, <2>1, BlockRun DEF RunInitialBlock
  <2>2. CASE RunLoadCallback \/ RunRemoveCallback \/ RunUpdateCallback
    BY <1>2, <2>2, BlockRun DEF RunLoadCallback, RunRemoveCallback, RunUpdateCallback, Answered
  <2>3. CASE RunErrorCallback
    BY <1>2, <2>3, BlockRun DEF RunErrorCallback
  <2> QED BY <1>4, <2>1, <2>2, <2>3 DEF MainStep
<1>5. CASE Frame /\ StoreStep({Encode(c) : c \in NewContents})
  <2>1. CASE \E q \in Queries : RaiseFromServer(q) \/ RaiseFromCache(q) \/ RejectListen(q)
    BY <2>1, AnswersAnnounceNothing
  <2>2. CASE UserDidChange \/ WriteMutations \/ AddListener \/ ApplySuccessfulWrite
             \/ CommitWithoutResponse \/ RejectFailedWrite \/ GoOffline \/ GoOnline
    BY <1>1, <2>2 DEF UserDidChange, WriteMutations, AddListener, ApplySuccessfulWrite,
       CommitWithoutResponse, RejectFailedWrite, GoOffline, GoOnline
  <2>3. CASE OtherDevices
    BY <1>1, <2>3 DEF OtherDevices, OtherDevice
  <2> QED BY <1>5, <2>1, <2>2, <2>3 DEF StoreStep, OtherDevices
<1>6. CASE UNCHANGED vars
  BY <1>1, <1>6 DEF vars
<1>7. CASE \E u \in Users : SignInRefused(u)
  BY <1>1, <1>7 DEF SignInRefused, storeVars
<1> QED BY <1>3, <1>4, <1>5, <1>6, <1>7 DEF Next, AuthStep

\* The other steps leave the session alone and do not bring up the table.
LEMMA SessionSteps ==
    ASSUME TypeOK, [Next]_vars
    PROVE  \/ LoadKeychain \/ (\E u \in Users : SignInAnswered(u)) \/ RefreshToken
           \/ SignOutByForce \/ SignOut \/ RunAuthBlock \/ RunInitialBlock
           \/ OpenTable \/ Crash
           \/ /\ UNCHANGED <<authUser, keychain, ousted>>
              /\ OnTabs' /\ list' # NotLoaded => OnTabs /\ list # NotLoaded
<1>1. CASE UserStep
  <2>1. CASE \/ ReturnFromSignUp \/ AddTransaction \/ SaveEdit \/ DeleteTransaction
             \/ \E u \in Users : SendSignIn(u)
    BY <2>1 DEF ReturnFromSignUp, AddTransaction, SaveEdit, DeleteTransaction,
       SendSignIn, sessionVars, OnTabs
  <2> QED BY <1>1, <2>1 DEF UserStep
<1>2. CASE MainStep
  <2>1. CASE RunLoadCallback
    BY <2>1 DEF RunLoadCallback, OnTabs
  <2>2. CASE RunRemoveCallback \/ RunUpdateCallback \/ RunErrorCallback
    BY <2>2 DEF RunRemoveCallback, RunUpdateCallback, RunErrorCallback, sessionVars, OnTabs
  <2> QED BY <1>2, <2>1, <2>2 DEF MainStep
<1>3. CASE Frame
  BY <1>3 DEF Frame, sessionVars, OnTabs
<1>4. CASE UNCHANGED vars
  BY <1>4 DEF vars, OnTabs
<1>5. CASE \E u \in Users : SignInRefused(u)
  BY <1>5 DEF SignInRefused, OnTabs
<1> QED BY <1>1, <1>2, <1>3, <1>4, <1>5 DEF Next, AuthStep

-----------------------------------------------------------------------------
\* The worker's queue.

\* A task is taken from the front of the queue.
TakesTask ==
    /\ worker # << >> /\ worker' = Tail(worker)
    /\ fsUser' = IF Head(worker).kind = "user" THEN Head(worker).user ELSE fsUser

\* What a step does to the worker's queue.
LEMMA WorkerSteps ==
    ASSUME IInv, [Next]_vars
    PROVE  \/ UNCHANGED <<worker, fsUser>>
           \/ LooksUpOrChanges /\ fsUser' = fsUser
           \/ TakesTask
           \/ AddTransaction \/ RunAuthBlock \/ RunInitialBlock \/ Crash
<1>1. CASE UserStep
  <2>1. CASE SaveEdit \/ DeleteTransaction
    BY <2>1, LookUpsMakeNoCreation DEF SaveEdit, DeleteTransaction
  <2>2. CASE (\E u \in Users : SendSignIn(u)) \/ SignOut \/ ReturnFromSignUp \/ OpenTable
    BY <2>2 DEF SendSignIn, SignOut, ReturnFromSignUp, OpenTable, storeVars
  <2> QED BY <1>1, <2>1, <2>2 DEF UserStep
<1>2. CASE MainStep
  <2>1. CASE RunRemoveCallback \/ RunUpdateCallback
    BY <2>1, CallbacksMakeNoCreation DEF RunRemoveCallback, RunUpdateCallback
  <2>2. CASE RunLoadCallback \/ RunErrorCallback
    BY <2>2 DEF RunLoadCallback, setLoadedTransactions, RunErrorCallback
  <2> QED BY <1>2, <2>1, <2>2 DEF MainStep
<1>3. CASE AuthStep
  BY <1>3 DEF AuthStep, LoadKeychain, RefreshToken, SignOutByForce, SignInAnswered,
     SignInRefused, storeVars, managerVars, sessionVars
<1>4. CASE Frame /\ StoreStep({Encode(c) : c \in NewContents})
  <2>1. CASE UserDidChange
    BY <2>1 DEF UserDidChange, TakesTask
  <2>2. CASE WriteMutations \/ AddListener
    BY <2>2 DEF WriteMutations, AddListener, TakesTask
  <2>3. CASE \E q \in Queries : RaiseFromServer(q) \/ RaiseFromCache(q) \/ RejectListen(q)
    BY <2>3 DEF RaiseFromServer, RaiseFromCache, RejectListen
  <2>4. CASE ApplySuccessfulWrite \/ CommitWithoutResponse \/ RejectFailedWrite
             \/ GoOffline \/ GoOnline
    BY <2>4 DEF ApplySuccessfulWrite, CommitWithoutResponse, RejectFailedWrite, GoOffline,
       GoOnline
  <2>5. CASE OtherDevices
    BY <2>5 DEF OtherDevices, OtherDevice
  <2> QED BY <1>4, <2>1, <2>2, <2>3, <2>4, <2>5 DEF StoreStep, OtherDevices
<1>5. CASE UNCHANGED vars
  BY <1>5 DEF vars
<1> QED BY <1>1, <1>2, <1>3, <1>4, <1>5 DEF Next

-----------------------------------------------------------------------------
\* The queries of the loads.

\* They ask one of the queries Q.
LoadsIn(Q) ==
    /\ \A i \in DOMAIN worker : IsLoad(worker[i]) => worker[i].query \in Q
    /\ \A q \in Queries : \A i \in DOMAIN listeners[q] :
          listeners[q][i].kind = "load" => q \in Q

\* A load asks for a user's transactions.
LoadsAskUsers == LoadsIn({ByUser(u) : u \in Users})

\* A listener that is called asks for the current user's transactions.
LEMMA NotifyLoads ==
    ASSUME IInv, RunAuthBlock \/ RunInitialBlock
    PROVE  \A i \in DOMAIN worker' : IsLoad(worker'[i]) =>
              \/ \E j \in DOMAIN worker : worker'[i] = worker[j]
              \/ authUser # Nobody /\ worker'[i].query = ByUser(authUser)
<1>1. TypeOK /\ worker \in Seq(Task(Len(heap))) /\ DOMAIN observers = 1 .. Len(observers)
      /\ main # << >> /\ Head(main) \in Block(Len(heap), Len(observers))
  <2>1. TypeOK /\ StoreTypeOK /\ ManagerTypeOK /\ SessionTypeOK
    BY DEF IInv, TypeOK
  <2>2. main # << >> /\ Head(main) \in Block(Len(heap), Len(observers))
    BY <2>1, NextBlock DEF RunAuthBlock, RunInitialBlock
  <2>3. DOMAIN observers = 1 .. Len(observers)
    BY <2>1 DEF SessionTypeOK
  <2> QED BY <2>1, <2>2, <2>3 DEF StoreTypeOK
<1>2. PICK I \in SUBSET DOMAIN observers, tasks \in Seq(Task(Len(heap))) :
        Notify(I, tasks) /\ \A j \in DOMAIN tasks : ~IsLoad(tasks[j])
  <2>1. CASE RunAuthBlock
    <3> DEFINE u == Head(main).user
               task == UserTask(u)
    <3>1. task \in Task(Len(heap)) /\ ~IsLoad(task)
      BY <1>1, <2>1 DEF RunAuthBlock, Block, UserTask, Task, IsLoad
    <3>2. \/ Notify(DOMAIN observers, << >>)
          \/ Notify(DOMAIN observers, <<task>>)
      BY <2>1 DEF RunAuthBlock
    <3> HIDE DEF task
    <3>3. /\ << >> \in Seq(Task(Len(heap))) /\ <<task>> \in Seq(Task(Len(heap)))
          /\ \A j \in DOMAIN << >> : ~IsLoad(<< >>[j])
          /\ \A j \in DOMAIN <<task>> : ~IsLoad(<<task>>[j])
      BY <3>1
    <3> QED BY <3>2, <3>3
  <2>2. CASE RunInitialBlock
    <3>1. Notify({Head(main).observer}, << >>)
      BY <2>2 DEF RunInitialBlock
    <3>2. {Head(main).observer} \in SUBSET DOMAIN observers
      BY <1>1, <2>2 DEF RunInitialBlock, Block
    <3>3. << >> \in Seq(Task(Len(heap))) /\ \A j \in DOMAIN << >> : ~IsLoad(<< >>[j])
      OBVIOUS
    <3> QED BY <3>1, <3>2, <3>3
  <2> QED BY <2>1, <2>2
<1> DEFINE S == {Asked(I)[j] : j \in DOMAIN Asked(I)}
           before == worker \o tasks
<1>3. worker' = worker \o tasks \o Asked(I) /\ Asked(I) \in Seq(S)
  BY <1>1, <1>2, NotifyAsks
<1>4. \A j \in DOMAIN Asked(I) : authUser # Nobody /\ Asked(I)[j].query = ByUser(authUser)
  <2>1. \A j \in DOMAIN Asked(I) : /\ authUser # Nobody
                                  /\ \E c : Asked(I)[j] = ListenTask(ByUser(authUser), c)
    BY <1>1, <1>2, NotifyAsks
  <2> QED BY <2>1 DEF ListenTask
<1>5. before \in Seq(Task(Len(heap))) /\ worker' = before \o Asked(I)
  BY <1>1, <1>2, <1>3
<1>6. ASSUME NEW i \in DOMAIN before, IsLoad(before[i])
      PROVE  \E j \in DOMAIN worker : before[i] = worker[j]
  BY <1>1, <1>2, <1>6, ElementOfConcat
<1> HIDE DEF before, S
<1>7. ASSUME NEW i \in DOMAIN worker'
      PROVE  \/ \E j \in DOMAIN before : worker'[i] = before[j]
             \/ \E j \in DOMAIN Asked(I) : worker'[i] = Asked(I)[j]
  <2>1. i \in DOMAIN (before \o Asked(I))
    BY <1>5
  <2>2. \/ i \in DOMAIN before /\ (before \o Asked(I))[i] = before[i]
        \/ \E j \in DOMAIN Asked(I) : (before \o Asked(I))[i] = Asked(I)[j]
    BY <1>3, <1>5, <2>1, ElementOfConcat
  <2> QED BY <1>5, <2>2
<1> QED BY <1>4, <1>6, <1>7

\* Nobody else makes a load.
LEMMA LoadTasks ==
    ASSUME IInv, [Next]_vars
    PROVE  \A i \in DOMAIN worker' : IsLoad(worker'[i]) =>
              \/ \E j \in DOMAIN worker : worker'[i] = worker[j]
              \/ /\ RunAuthBlock \/ RunInitialBlock
                 /\ authUser # Nobody /\ worker'[i].query = ByUser(authUser)
<1>1. StoreTypeOK /\ worker \in Seq(Task(Len(heap)))
  BY DEF IInv, TypeOK, StoreTypeOK
<1>2. CASE LooksUpOrChanges
  <2>0. PICK T : \E t \in Seq(T) : Adds(t)
    BY <1>2 DEF LooksUpOrChanges
  <2>1. PICK t \in Seq(T) : Adds(t)
    BY <2>0
  <2>2. worker' = worker \o t /\ \A j \in DOMAIN t : ~IsLoad(t[j])
    BY <2>1 DEF Adds
  <2> QED BY <1>1, <2>2, ElementOfConcat
<1>3. CASE TakesTask
  <2>1. \A i \in DOMAIN Tail(worker) : i + 1 \in DOMAIN worker /\ Tail(worker)[i] = worker[i + 1]
    BY <1>1, <1>3 DEF TakesTask
  <2> QED BY <1>3, <2>1 DEF TakesTask
<1>4. CASE AddTransaction
  <2>1. PICK m : worker' = worker \/ worker' = Append(worker, WriteTask(m))
    BY <1>4 DEF AddTransaction, addTransactions
  <2> DEFINE task == WriteTask(m)
  <2>2. ~IsLoad(task)
    BY DEF WriteTask, IsLoad
  <2> HIDE DEF task
  <2>3. \A i \in DOMAIN worker' : (\E j \in DOMAIN worker : worker'[i] = worker[j]) \/ worker'[i] = task
    BY <1>1, <2>1 DEF task
  <2> QED BY <2>2, <2>3
<1>5. CASE Crash
  BY <1>5 DEF Crash, Launched, StoreCrash
<1> QED BY <1>2, <1>3, <1>4, <1>5, WorkerSteps, NotifyLoads

\* What becomes of the registered listeners.
LEMMA ListenerSteps ==
    ASSUME IInv, [Next]_vars
    PROVE  \A q \in Queries : \A i \in DOMAIN listeners'[q] :
              \/ i \in DOMAIN listeners[q] /\ listeners'[q][i] = listeners[q][i]
              \/ /\ AddListener /\ i = Len(listeners[q]) + 1
                 /\ 1 \in DOMAIN worker /\ worker[1].kind = "listen"
                 /\ worker[1].query = q /\ worker[1].callback = listeners'[q][i]
<1>1. /\ listeners \in [Queries -> Seq(Callback(Len(heap)))]
      /\ worker \in Seq(Task(Len(heap)))
  BY DEF IInv, TypeOK, StoreTypeOK
<1>2. CASE AddListener
  <2>1. Head(worker) = worker[1] /\ 1 \in DOMAIN worker /\ worker[1].kind = "listen"
    BY <1>1, <1>2 DEF AddListener
  <2> DEFINE c == Head(worker).callback
  <2>2. listeners' = [listeners EXCEPT ![Head(worker).query] = Append(@, c)]
    BY <1>2 DEF AddListener
  <2> SUFFICES ASSUME NEW q \in Queries, NEW i \in DOMAIN listeners'[q]
               PROVE  \/ i \in DOMAIN listeners[q] /\ listeners'[q][i] = listeners[q][i]
                      \/ /\ i = Len(listeners[q]) + 1
                         /\ Head(worker).query = q /\ c = listeners'[q][i]
    BY <1>2, <2>1
  <2> HIDE DEF c
  <2>3. CASE q = Head(worker).query
    <3>1. listeners'[q] = Append(listeners[q], c) /\ listeners[q] \in Seq(Callback(Len(heap)))
      BY <1>1, <2>2, <2>3
    <3> QED BY <2>3, <3>1
  <2>4. CASE q # Head(worker).query
    BY <1>1, <2>2, <2>4
  <2> QED BY <2>3, <2>4
<1>3. CASE \E q \in Queries : listeners' = [listeners EXCEPT ![q] = << >>]
  BY <1>1, <1>3
<1>4. CASE listeners' = listeners
  BY <1>4
<1>5. CASE Crash
  <2>1. listeners' = [q \in Queries |-> << >>]
    BY <1>5 DEF Crash, Launched, StoreCrash
  <2> QED BY <2>1
<1>6. \/ AddListener \/ listeners' = listeners \/ Crash
      \/ \E q \in Queries : listeners' = [listeners EXCEPT ![q] = << >>]
  <2>1. CASE UserStep
    BY <2>1 DEF UserStep, SendSignIn, SignOut, ReturnFromSignUp, OpenTable, AddTransaction,
                SaveEdit, DeleteTransaction, storeVars
  <2>2. CASE MainStep
    BY <2>2 DEF MainStep, RunAuthBlock, RunInitialBlock, RunLoadCallback, RunRemoveCallback,
                RunUpdateCallback, RunErrorCallback
  <2>3. CASE AuthStep
    BY <2>3 DEF AuthStep, LoadKeychain, RefreshToken, SignOutByForce, SignInAnswered,
                SignInRefused, storeVars
  <2>4. CASE Frame /\ StoreStep({Encode(c) : c \in NewContents})
    BY <2>4 DEF StoreStep, UserDidChange, WriteMutations, RaiseFromServer, RaiseFromCache,
                RejectListen, Raise, ApplySuccessfulWrite, CommitWithoutResponse,
                RejectFailedWrite, GoOffline, GoOnline, OtherDevice
  <2>5. CASE UNCHANGED vars
    BY <2>5 DEF vars
  <2> QED BY <2>1, <2>2, <2>3, <2>4, <2>5 DEF Next
<1> QED BY <1>2, <1>3, <1>4, <1>5, <1>6

\* Loads ask the queries they asked before, if the new ones do.
LEMMA LoadsInStep ==
    ASSUME IInv, [Next]_vars, NEW Q, LoadsIn(Q),
           (RunAuthBlock \/ RunInitialBlock) /\ authUser # Nobody => ByUser(authUser) \in Q
    PROVE  LoadsIn(Q)'
<1>1. \A i \in DOMAIN worker' : IsLoad(worker'[i]) => worker'[i].query \in Q
  BY LoadTasks DEF LoadsIn
<1>2. \A q \in Queries : \A i \in DOMAIN listeners'[q] : listeners'[q][i].kind = "load" => q \in Q
  BY ListenerSteps DEF LoadsIn, IsLoad
<1> QED BY <1>1, <1>2 DEF LoadsIn, IsLoad

-----------------------------------------------------------------------------
\* Users who wait.

\* What is left of the budget of those who do not.
HurryBounded == budget["hurry"] <= Budget["hurry"]

\* Patience that is lost does not come back.  It is lost by a sign-in sent
\* before Auth has its user, the listeners have been called, a load has ended
\* or another sign-in has been answered, and by one left unanswered when the
\* login controller comes back from the sign-up form.
LEMMA Patience ==
    ASSUME IInv, HurryBounded, [Next]_vars
    PROVE  /\ HurryBounded' /\ (Patient' => Patient)
           /\ (\E u \in Users : SendSignIn(u)) /\ (Loading \/ SigningIn \/ authUser # keychain)
                => ~Patient'
           /\ ReturnFromSignUp /\ SigningIn => ~Patient'
<1>1. budget \in [Event -> Nat] /\ Budget["hurry"] \in Nat /\ "hurry" \in Event
  BY BudgetAssumption DEF IInv, TypeOK, StoreTypeOK, Event
<1>2. ASSUME NEW e \in Event, Spend(e)
      PROVE  /\ budget'["hurry"] \in Nat /\ budget'["hurry"] <= budget["hurry"]
             /\ e = "hurry" => budget'["hurry"] < budget["hurry"]
  BY <1>1, <1>2 DEF Spend
<1>3. ASSUME UNCHANGED budget \/ \E e \in Event : Spend(e)
      PROVE  HurryBounded' /\ (Patient' => Patient)
  <2>1. budget'["hurry"] \in Nat /\ budget'["hurry"] <= budget["hurry"]
    BY <1>1, <1>2, <1>3
  <2> QED BY <1>1, <2>1 DEF HurryBounded, Patient
<1>4. Spend("hurry") => ~Patient'
  BY <1>1, <1>2 DEF HurryBounded, Patient
<1>5. /\ (\E u \in Users : SendSignIn(u)) /\ (Loading \/ SigningIn \/ authUser # keychain)
           => Spend("hurry")
      /\ ReturnFromSignUp /\ SigningIn => Spend("hurry")
  BY DEF SendSignIn, ReturnFromSignUp
<1>6. UNCHANGED budget \/ \E e \in Event : Spend(e)
  <2>1. CASE \E u \in Users : SendSignIn(u)
    <3>1. Spend("hurry") \/ Spend("signIn")
      BY <2>1 DEF SendSignIn
    <3> QED BY <3>1 DEF Event
  <2>2. CASE ReturnFromSignUp
    <3>1. Spend("hurry") \/ Spend("return")
      BY <2>2 DEF ReturnFromSignUp
    <3> QED BY <3>1 DEF Event
  <2>3. CASE SignOut \/ OpenTable \/ AddTransaction \/ SaveEdit \/ DeleteTransaction
    BY <2>3 DEF SignOut, OpenTable, AddTransaction, SaveEdit, DeleteTransaction, Event
  <2>4. CASE MainStep
    BY <2>4 DEF MainStep, RunAuthBlock, RunInitialBlock, RunLoadCallback, RunRemoveCallback,
                RunUpdateCallback, RunErrorCallback
  <2>5. CASE AuthStep
    BY <2>5 DEF AuthStep, LoadKeychain, RefreshToken, SignOutByForce, SignInAnswered,
                SignInRefused, Event
  <2>6. CASE Crash
    BY <2>6 DEF Crash, Event
  <2>7. CASE Frame /\ StoreStep({Encode(c) : c \in NewContents})
    BY <2>7 DEF StoreStep, UserDidChange, WriteMutations, AddListener, RaiseFromServer,
                RaiseFromCache, RejectListen, ApplySuccessfulWrite, CommitWithoutResponse,
                RejectFailedWrite, GoOffline, GoOnline, OtherDevice, Event
  <2>8. CASE UNCHANGED vars
    BY <2>8 DEF vars
  <2> QED BY <2>1, <2>2, <2>3, <2>4, <2>5, <2>6, <2>7, <2>8 DEF Next, UserStep
<1> QED BY <1>3, <1>4, <1>5, <1>6

\* A listener has been called with the current user, or is about to be.
PrevKnown ==
    \A i \in DOMAIN observers :
        \/ observers[i].prev = authUser
        \/ Announces(main)
        \/ \E j \in DOMAIN main : main[j].kind = "initial" /\ main[j].observer = i

\* While a user who waits has a sign-in unanswered, it is the only one, the
\* login form stays on the screen, and nothing that is under way can bring up
\* the tabs.
Waits ==
    Patient /\ SigningIn =>
        /\ OnLogin /\ authUser = keychain
        /\ \A u, v \in Users : signIns[u] > 0 => signIns[u] = 1 /\ (v # u => signIns[v] = 0)
        /\ authUser = Nobody \/ \A i \in DOMAIN observers : observers[i].prev = authUser
        /\ \A c \in Awaited : c.kind # "load"

\* The inductive invariant.
Waiting == Presence /\ HurryBounded /\ LoadsAskUsers /\ PrevKnown /\ Waits

\* A block stays on the main queue until it is run.
LEMMA BlocksStay ==
    ASSUME IInv, [Next]_vars, NEW j \in DOMAIN main
    PROVE  \/ \E k \in DOMAIN main' : main'[k] = main[j]
           \/ MainStep /\ j = 1 /\ Head(main) = main[j]
           \/ Crash
<1> DEFINE S == Block(Len(heap), Len(observers))
<1>1. main \in Seq(S) /\ StoreTypeOK
  BY DEF IInv, TypeOK, StoreTypeOK
<1> HIDE DEF S
<1>2. CASE main' = main
  BY <1>2
<1>3. ASSUME NEW T, NEW t \in Seq(T), main' = main \o t
      PROVE  \E k \in DOMAIN main' : main'[k] = main[j]
  <2>1. main \in Seq(S \cup T) /\ t \in Seq(S \cup T)
    BY <1>1, SeqGrows
  <2>2. j \in DOMAIN main' /\ main'[j] = main[j]
    BY <1>3, <2>1
  <2> QED BY <2>2
<1>4. ASSUME NEW b, main' = Append(main, b)
      PROVE  \E k \in DOMAIN main' : main'[k] = main[j]
  <2>1. main' = main \o <<b>> /\ <<b>> \in Seq({b})
    BY <1>1, <1>4
  <2> QED BY <1>3, <2>1
<1>5. CASE UserStep
  <2>1. CASE SignOut
    <3>1. PICK a, b : main' = Append(main, b) \/ main' = Append(Append(main, a), b)
      BY <2>1 DEF SignOut, checkLoggedIn
    <3>2. ASSUME main' = Append(Append(main, a), b)
          PROVE  main' = main \o <<a, b>> /\ <<a, b>> \in Seq({a, b})
      <4> DEFINE R == S \cup {a, b}
      <4>1. main \in Seq(R) /\ a \in R /\ b \in R
        BY <1>1, SeqGrows
      <4> HIDE DEF R
      <4> QED BY <3>2, <4>1
    <3> QED BY <1>3, <1>4, <3>1, <3>2
  <2>2. CASE ReturnFromSignUp
    BY <1>4, <2>2 DEF ReturnFromSignUp, checkLoggedIn
  <2> QED BY <1>2, <1>5, <2>1, <2>2
          DEF UserStep, SendSignIn, OpenTable, AddTransaction, SaveEdit, DeleteTransaction, storeVars
<1>6. CASE MainStep
  <2>1. main # << >> /\ main' = Tail(main)
    BY <1>6 DEF MainStep, RunAuthBlock, RunInitialBlock, RunLoadCallback, RunRemoveCallback,
                RunUpdateCallback, RunErrorCallback, Answered
  <2>2. CASE j = 1
    BY <1>1, <1>6, <2>1, <2>2
  <2>3. CASE j # 1
    <3>1. j - 1 \in DOMAIN main' /\ main'[j - 1] = main[j]
      BY <1>1, <2>1, <2>3
    <3> QED BY <3>1
  <2> QED BY <2>2, <2>3
<1>7. CASE AuthStep
  BY <1>2, <1>4, <1>7 DEF AuthStep, LoadKeychain, RefreshToken, SignOutByForce, SignInAnswered,
                          SignInRefused, storeVars
<1>8. CASE Frame /\ StoreStep({Encode(c) : c \in NewContents})
  <2>1. ASSUME NEW q \in Queries, RaiseFromServer(q) \/ RaiseFromCache(q) \/ RejectListen(q)
        PROVE  \E k \in DOMAIN main' : main'[k] = main[j]
    <3>1. Len(listeners[q]) \in Nat
      BY DEF IInv, TypeOK, StoreTypeOK
    <3>2. PICK f : main' = main \o [i \in 1 .. Len(listeners[q]) |-> f[i]]
      <4> DEFINE n == Len(listeners[q])
                 g(docs) == [i \in 1 .. n |-> SnapshotBlock(listeners[q][i], docs)]
                 e == [i \in 1 .. n |-> ErrorBlock(listeners[q][i])]
      <4>1. /\ \A docs : g(docs) = [i \in 1 .. n |-> g(docs)[i]]
            /\ e = [i \in 1 .. n |-> e[i]]
        OBVIOUS
      <4>2. (\E docs : main' = main \o g(docs)) \/ main' = main \o e
        BY <2>1 DEF RaiseFromServer, RaiseFromCache, RejectListen, Raise
      <4> HIDE DEF g, e
      <4> QED BY <4>1, <4>2
    <3> DEFINE t == [i \in 1 .. Len(listeners[q]) |-> f[i]]
    <3>3. t \in Seq({f[i] : i \in 1 .. Len(listeners[q])})
      BY <3>1
    <3> HIDE DEF t
    <3> QED BY <1>3, <3>2, <3>3 DEF t
  <2>2. (\E q \in Queries : RaiseFromServer(q) \/ RaiseFromCache(q) \/ RejectListen(q)) \/ main' = main
    BY <1>8 DEF StoreStep, UserDidChange, WriteMutations, AddListener, ApplySuccessfulWrite,
       CommitWithoutResponse, RejectFailedWrite, GoOffline, GoOnline, OtherDevice
  <2> QED BY <1>2, <2>1, <2>2
<1>9. CASE UNCHANGED vars
  BY <1>2, <1>9 DEF vars
<1> QED BY <1>5, <1>6, <1>7, <1>8, <1>9 DEF Next

\* Called listeners have heard of the current user, the others as before.
LEMMA CalledListeners ==
    ASSUME IInv, RunAuthBlock \/ RunInitialBlock
    PROVE  /\ DOMAIN observers' = DOMAIN observers
           /\ \A i \in DOMAIN observers :
                 \/ observers'[i].prev = authUser
                 \/ /\ observers'[i].prev = observers[i].prev
                    /\ RunInitialBlock /\ Head(main).observer # i
<1>1. SessionTypeOK
  BY DEF IInv, TypeOK
<1> DEFINE type == [login : Nat, prev : Users \cup {Nobody, Unset}]
<1>2. observers \in Seq(type) /\ \A o \in type : [o EXCEPT !.prev = authUser].prev = authUser
  BY <1>1 DEF SessionTypeOK
<1> HIDE DEF type
<1>3. ASSUME NEW I, observers' = [i \in DOMAIN observers |->
                           IF i \in I THEN [observers[i] EXCEPT !.prev = authUser]
                           ELSE observers[i]]
      PROVE  /\ DOMAIN observers' = DOMAIN observers
             /\ \A i \in DOMAIN observers :
                   \/ observers'[i].prev = authUser
                   \/ i \notin I /\ observers'[i].prev = observers[i].prev
  BY <1>2, <1>3
<1>4. CASE RunAuthBlock
  BY <1>3, <1>4 DEF RunAuthBlock, Notify
<1>5. CASE RunInitialBlock
  BY <1>3, <1>5 DEF RunInitialBlock, Notify
<1> QED BY <1>4, <1>5

\* A listener that is added is about to be called.
LEMMA AddedListener ==
    ASSUME IInv, NEW n, NEW b, NEW queue \in {main, Append(main, b)}, checkLoggedIn(n, queue)
    PROVE  /\ \A i \in DOMAIN observers' : \/ i \in DOMAIN observers /\ observers'[i] = observers[i]
                                           \/ i = Len(observers) + 1
           /\ \E j \in DOMAIN main' : /\ main'[j].kind = "initial"
                                      /\ main'[j].observer = Len(observers) + 1
<1> DEFINE type == [login : Nat, prev : Users \cup {Nobody, Unset}]
           S == Block(Len(heap), Len(observers))
           a == InitialBlock(Len(observers) + 1)
           o == Observer(n)
<1>1. /\ observers \in Seq(type) /\ main \in Seq(S)
      /\ a.kind = "initial" /\ a.observer = Len(observers) + 1
  BY DEF IInv, TypeOK, StoreTypeOK, SessionTypeOK, InitialBlock
<1>2. observers' = Append(observers, o) /\ main' = Append(queue, a)
  BY DEF checkLoggedIn
<1> HIDE DEF type, a, o, S
<1>3. queue \in Seq(S \cup {b})
  <2>1. main \in Seq(S \cup {b}) /\ b \in S \cup {b}
    BY <1>1, SeqGrows
  <2> QED BY <2>1
<1>4. Len(main') \in DOMAIN main' /\ main'[Len(main')] = a
  BY <1>2, <1>3
<1>5. \A i \in DOMAIN observers' : \/ i \in DOMAIN observers /\ observers'[i] = observers[i]
                                   \/ i = Len(observers) + 1
  BY <1>1, <1>2
<1> QED BY <1>1, <1>4, <1>5

\* A step keeps every listener that has not heard of the current user about to
\* be called.
LEMMA PrevKnownStep ==
    ASSUME IInv, PrevKnown, [Next]_vars
    PROVE  PrevKnown'
<1>1. StoreTypeOK /\ SessionTypeOK /\ TypeOK
  BY DEF IInv, TypeOK
<1>2. ASSUME NEW u, main' = Append(main, AuthBlock(u))
      PROVE  PrevKnown'
  <2> DEFINE b == AuthBlock(u)
  <2>1. b.kind = "auth"
    BY DEF AuthBlock
  <2> HIDE DEF b
  <2>2. Announces(main')
    BY <1>1, <1>2, <2>1, BlockAppended DEF b
  <2> QED BY <2>2 DEF PrevKnown
<1>3. ASSUME NEW i \in DOMAIN observers, authUser' = authUser, SameAnnouncements, ~Crash,
             observers'[i].prev = observers[i].prev,
             RunInitialBlock => Head(main).observer # i
      PROVE  \/ observers'[i].prev = authUser'
             \/ Announces(main')
             \/ \E k \in DOMAIN main' : main'[k].kind = "initial" /\ main'[k].observer = i
  <2>1. CASE observers[i].prev = authUser \/ Announces(main)
    BY <1>3, <2>1 DEF SameAnnouncements
  <2>2. ASSUME NEW j \in DOMAIN main, main[j].kind = "initial", main[j].observer = i
        PROVE  \E k \in DOMAIN main' : main'[k].kind = "initial" /\ main'[k].observer = i
    <3>1. ~(MainStep /\ Head(main) = main[j])
      BY <1>3, <2>2 DEF MainStep, RunAuthBlock, RunLoadCallback, RunRemoveCallback,
                        RunUpdateCallback, RunErrorCallback, Answered
    <3> QED BY <1>3, <2>2, <3>1, BlocksStay
  <2> QED BY <2>1, <2>2 DEF PrevKnown
<1>4. CASE Crash
  <2>1. observers' = <<Observer(1)>> /\ main' = <<InitialBlock(1)>>
    BY <1>4 DEF Crash, Launched
  <2>2. 1 \in DOMAIN main' /\ main'[1].kind = "initial" /\ main'[1].observer = 1
    BY <2>1 DEF InitialBlock
  <2>3. \A i \in DOMAIN observers' : i = 1
    BY <2>1
  <2> QED BY <2>1, <2>2, <2>3 DEF PrevKnown
<1>5. CASE LoadKeychain \/ (\E u \in Users : SignInAnswered(u)) \/ RefreshToken \/ SignOutByForce
  BY <1>2, <1>5 DEF LoadKeychain, SignInAnswered, RefreshToken, SignOutByForce
<1>6. CASE RunAuthBlock
  BY <1>1, <1>6, CalledListeners DEF PrevKnown, RunAuthBlock, RunInitialBlock
<1>7. CASE RunInitialBlock /\ ~Crash
  <2>1. authUser' = authUser /\ SameAnnouncements
    BY <1>1, <1>7, BlockRun DEF RunInitialBlock
  <2> QED BY <1>3, <1>7, <2>1, CalledListeners DEF PrevKnown
<1>8. ASSUME ReturnFromSignUp \/ (SignOut /\ authUser = Nobody), ~Crash
      PROVE  PrevKnown'
  <2>1. PICK n : checkLoggedIn(n, main) /\ authUser' = authUser
    BY <1>8 DEF ReturnFromSignUp, SignOut
  <2>2. PICK b : b.kind # "auth" /\ main' = Append(main, b)
    BY <2>1 DEF checkLoggedIn, InitialBlock
  <2>3. SameAnnouncements
    BY <1>1, <2>2, BlockAppended
  <2>4. ~RunInitialBlock
    <3> DEFINE S == Block(Len(heap), Len(observers)) \cup {b}
    <3>1. main \in Seq(S) /\ b \in S
      BY <1>1, SeqGrows DEF StoreTypeOK
    <3> HIDE DEF S
    <3>2. Len(main') = Len(main) + 1 /\ Len(main) \in Nat
      BY <2>2, <3>1
    <3>3. RunInitialBlock => Len(main') = Len(main) - 1
      BY <3>1 DEF RunInitialBlock
    <3> QED BY <3>2, <3>3
  <2>5. main \in {main, Append(main, b)}
    OBVIOUS
  <2>6. /\ \A i \in DOMAIN observers' : \/ i \in DOMAIN observers /\ observers'[i] = observers[i]
                                        \/ i = Len(observers) + 1
        /\ \E j \in DOMAIN main' : /\ main'[j].kind = "initial"
                                   /\ main'[j].observer = Len(observers) + 1
    BY <2>1, <2>5, AddedListener
  <2> QED BY <1>3, <1>8, <2>1, <2>3, <2>4, <2>6 DEF PrevKnown
<1>9. CASE SignOut /\ authUser # Nobody
  <2>1. PICK b : main' = Append(Append(main, AuthBlock(Nobody)), b)
    BY <1>9 DEF SignOut, checkLoggedIn
  <2> DEFINE a == AuthBlock(Nobody)
             S == Block(Len(heap), Len(observers)) \cup {a, b}
  <2>2. a.kind = "auth"
    BY DEF AuthBlock
  <2>3. main \in Seq(S) /\ a \in S /\ b \in S /\ main' = Append(Append(main, a), b)
    BY <1>1, <2>1, SeqGrows DEF StoreTypeOK
  <2> HIDE DEF S, a
  <2>4. Len(main) + 1 \in DOMAIN main' /\ main'[Len(main) + 1] = a
    BY <2>3
  <2> QED BY <2>2, <2>4 DEF PrevKnown, Announces
<1>10. ASSUME ~Crash, observers' = observers, authUser' = authUser, SameAnnouncements,
              ~RunInitialBlock
       PROVE  PrevKnown'
  BY <1>3, <1>10 DEF PrevKnown
<1>11. /\ RunLoadCallback => observers' = observers
       /\ OpenTable => authUser' = authUser
  BY DEF RunLoadCallback, OpenTable, sessionVars
<1> QED BY <1>1, <1>4, <1>5, <1>6, <1>7, <1>8, <1>9, <1>10, <1>11,
           Presentations, SessionSteps, AnnouncingSteps

\* What becomes of the sign-ins that are unanswered.
LEMMA SignInSteps ==
    ASSUME IInv, [Next]_vars
    PROVE  \/ signIns' = signIns
           \/ Crash /\ signIns' = [u \in Users |-> 0]
           \/ \E u \in Users : SendSignIn(u)
           \/ \E u \in Users : /\ SignInAnswered(u) \/ SignInRefused(u)
                               /\ signIns[u] > 0
                               /\ signIns' = [signIns EXCEPT ![u] = @ - 1]
<1>1. CASE UserStep
  BY <1>1 DEF UserStep, SignOut, ReturnFromSignUp, OpenTable, AddTransaction, SaveEdit,
              DeleteTransaction, sessionVars
<1>2. CASE MainStep
  BY <1>2 DEF MainStep, RunAuthBlock, RunInitialBlock, RunLoadCallback, RunRemoveCallback,
              RunUpdateCallback, RunErrorCallback, sessionVars
<1>3. CASE AuthStep
  BY <1>3 DEF AuthStep, LoadKeychain, RefreshToken, SignOutByForce, SignInAnswered,
              SignInRefused, sessionVars
<1>4. CASE Crash
  BY <1>4 DEF Crash, Launched
<1>5. CASE Frame
  BY <1>5 DEF Frame, sessionVars
<1>6. CASE UNCHANGED vars
  BY <1>6 DEF vars
<1> QED BY <1>1, <1>2, <1>3, <1>4, <1>5, <1>6 DEF Next

\* A user who waits signs in when nothing is under way.
LEMMA SendWaits ==
    ASSUME Waiting, [Next]_vars, Patient', NEW u \in Users, SendSignIn(u)
    PROVE  Waits'
<1>1. IInv /\ TypeOK /\ StoreTypeOK /\ SessionTypeOK /\ HurryBounded
  BY DEF Waiting, Presence, IInv, TypeOK
<1>2. ~Loading /\ ~SigningIn /\ authUser = keychain
  BY <1>1, Patience
<1>3. /\ OnLogin /\ signIns' = [signIns EXCEPT ![u] = @ + 1]
      /\ UNCHANGED <<worker, listeners, main, keychain, authUser, observers, depth>>
  BY DEF SendSignIn, storeVars
<1>4. \A v \in Users : signIns'[v] = IF v = u THEN 1 ELSE 0
  BY <1>1, <1>2, <1>3 DEF SessionTypeOK, SigningIn
<1>5. main = << >> /\ \A i \in DOMAIN worker : worker[i].kind # "listen"
  BY <1>2 DEF Loading
<1>6. \A i \in DOMAIN observers : observers[i].prev = authUser
  BY <1>5 DEF Waiting, PrevKnown, Announces
<1>7. \A c \in Awaited : c.kind # "load"
  <2>1. \A q \in Queries : \A i \in DOMAIN listeners[q] : listeners[q][i].kind # "load"
    <3> SUFFICES ASSUME NEW q \in Queries, NEW i \in DOMAIN listeners[q],
                        listeners[q][i].kind = "load"
                 PROVE  FALSE
      OBVIOUS
    <3>1. \E w \in Users : q = ByUser(w)
      BY DEF Waiting, LoadsAskUsers, LoadsIn
    <3>2. listeners[q] = << >>
      BY <1>2, <3>1 DEF Loading
    <3> QED BY <3>2
  <2>2. OnWorkerQueue = {} /\ OnMainQueue = {}
    BY <1>5 DEF OnWorkerQueue, OnMainQueue
  <2> QED BY <2>1, <2>2 DEF Awaited, Registered
<1>8. Awaited' = Awaited
  BY <1>3, QueuesKept DEF Awaited
<1>9. /\ OnLogin' /\ authUser' = keychain'
      /\ \A v, w \in Users : signIns'[v] > 0 => signIns'[v] = 1 /\ (w # v => signIns'[w] = 0)
  BY <1>2, <1>3, <1>4 DEF OnLogin
<1>10. \A i \in DOMAIN observers' : observers'[i].prev = authUser'
  BY <1>3, <1>6
<1>11. \A c \in Awaited' : c.kind # "load"
  BY <1>7, <1>8
<1> QED BY <1>9, <1>10, <1>11 DEF Waits

\* While the sign-in is unanswered, nothing happens that could bring up the
\* tabs.
LEMMA WaitsStep ==
    ASSUME Waiting, [Next]_vars
    PROVE  Waits'
<1>1. IInv /\ TypeOK /\ StoreTypeOK /\ SessionTypeOK /\ HurryBounded
  BY DEF Waiting, Presence, IInv, TypeOK
<1> SUFFICES ASSUME Patient', SigningIn', \A u \in Users : ~SendSignIn(u)
             PROVE  Waits'
  BY SendWaits DEF Waits
<1>2. Patient
  BY <1>1, Patience
<1>3. signIns' = signIns /\ SigningIn
  <2>1. CASE Crash /\ signIns' = [u \in Users |-> 0]
    BY <2>1 DEF SigningIn
  <2>2. ASSUME NEW u \in Users, signIns[u] > 0, signIns' = [signIns EXCEPT ![u] = @ - 1]
        PROVE  FALSE
    <3>1. signIns[u] = 1 /\ \A v \in Users : v # u => signIns[v] = 0
      BY <1>2, <2>2 DEF Waiting, Waits, SigningIn
    <3>2. \A v \in Users : signIns'[v] = 0
      BY <1>1, <2>2, <3>1 DEF SessionTypeOK
    <3> QED BY <3>2 DEF SigningIn
  <2>3. signIns' = signIns => SigningIn
    BY DEF SigningIn
  <2> QED BY <1>1, <2>1, <2>2, <2>3, SignInSteps
<1>4. /\ OnLogin /\ authUser = keychain
      /\ \A u, v \in Users : signIns[u] > 0 => signIns[u] = 1 /\ (v # u => signIns[v] = 0)
      /\ authUser = Nobody \/ \A i \in DOMAIN observers : observers[i].prev = authUser
      /\ \A c \in Awaited : c.kind # "load"
  BY <1>2, <1>3 DEF Waiting, Waits
<1>5. ~ReturnFromSignUp /\ ~SignOut /\ ~OpenTable /\ ~LoadKeychain
  <2>1. ~ReturnFromSignUp
    BY <1>1, <1>3, Patience
  <2>2. ~OnTabs
    BY <1>4 DEF OnLogin, OnTabs
  <2> QED BY <1>4, <2>1, <2>2 DEF SignOut, OpenTable, LoadKeychain
<1>6. ~RunLoadCallback
  <2> SUFFICES ASSUME RunLoadCallback PROVE FALSE
    OBVIOUS
  <2>1. /\ 1 \in DOMAIN main /\ main[1].kind = "snapshot" /\ main[1].callback.kind = "load"
    BY <1>1 DEF RunLoadCallback, Answered, StoreTypeOK
  <2>2. main[1].callback \in Awaited
    BY <2>1 DEF Awaited, OnMainQueue
  <2> QED BY <1>4, <2>1, <2>2
<1>7. ~Crash /\ ~\E u \in Users : SignInAnswered(u)
  <2>1. PICK u \in Users : signIns[u] > 0
    BY <1>3 DEF SigningIn
  <2>2. signIns'[u] > 0
    BY <1>3, <2>1
  <2>3. Crash => signIns'[u] = 0
    BY DEF Crash, Launched
  <2>4. ASSUME NEW v \in Users, SignInAnswered(v) PROVE FALSE
    <3>1. signIns[v] \in Nat /\ signIns[v] > 0 /\ signIns'[v] = signIns[v] - 1
      BY <1>1, <2>4 DEF SignInAnswered, SessionTypeOK
    <3> QED BY <1>3, <3>1
  <2> QED BY <1>1, <2>2, <2>3, <2>4 DEF SessionTypeOK
<1>8. /\ depth' = depth /\ authUser' = keychain'
      /\ authUser' = authUser \/ authUser' = Nobody
  <2>1. depth' = depth
    BY <1>1, <1>5, <1>6, <1>7, Presentations
  <2>2. RefreshToken \/ RunAuthBlock \/ RunInitialBlock => UNCHANGED <<authUser, keychain>>
    BY DEF RefreshToken, RunAuthBlock, RunInitialBlock, sessionVars
  <2>3. SignOutByForce => authUser' = Nobody /\ keychain' = Nobody
    BY DEF SignOutByForce
  <2> QED BY <1>1, <1>4, <1>5, <1>7, <2>1, <2>2, <2>3, SessionSteps
<1>9. authUser' = Nobody \/ \A i \in DOMAIN observers' : observers'[i].prev = authUser'
  <2>1. CASE observers' = observers
    BY <1>4, <1>8, <2>1
  <2>2. CASE RunAuthBlock \/ RunInitialBlock
    <3>1. authUser' = authUser
      BY <2>2 DEF RunAuthBlock, RunInitialBlock
    <3> QED BY <1>1, <1>4, <2>2, <3>1, CalledListeners
  <2> QED BY <1>1, <1>5, <1>6, <1>7, <2>1, <2>2, Presentations
<1>10. \A c \in Awaited' : c.kind # "load"
  BY <1>1, <1>4, NoStray DEF NoStrayLoad, Fresh
<1>11. OnLogin'
  BY <1>4, <1>8 DEF OnLogin
<1> QED BY <1>3, <1>4, <1>8, <1>9, <1>10, <1>11 DEF Waits

\* A step keeps the invariant.
LEMMA WaitingStep == Waiting /\ [Next]_vars => Waiting'
<1> SUFFICES ASSUME Waiting, [Next]_vars PROVE Waiting'
  OBVIOUS
<1>1. Presence /\ IInv /\ SessionTypeOK /\ HurryBounded /\ LoadsAskUsers /\ PrevKnown
  BY DEF Waiting, Presence, IInv, TypeOK
<1>2. Presence' /\ HurryBounded' /\ PrevKnown' /\ Waits'
  BY <1>1, PresenceStep, Patience, PrevKnownStep, WaitsStep
<1>3. authUser # Nobody => ByUser(authUser) \in {ByUser(u) : u \in Users}
  BY <1>1 DEF SessionTypeOK
<1>4. LoadsAskUsers'
  BY <1>1, <1>3, LoadsInStep DEF LoadsAskUsers
<1> QED BY <1>2, <1>4 DEF Waiting

\* It holds at first.
LEMMA WaitingInit == Init => Waiting
<1> SUFFICES ASSUME Init PROVE Waiting
  OBVIOUS
<1>1. Presence
  BY PresenceInit
<1>2. /\ budget = Budget /\ worker = << >> /\ listeners = [q \in Queries |-> << >>]
      /\ main = <<InitialBlock(1)>> /\ observers = <<Observer(1)>>
      /\ signIns = [u \in Users |-> 0]
  BY DEF Init, StoreInit
<1>3. HurryBounded
  BY <1>2, BudgetAssumption DEF HurryBounded, Event
<1>4. LoadsAskUsers
  BY <1>2 DEF LoadsAskUsers, LoadsIn
<1>5. PrevKnown
  <2>1. 1 \in DOMAIN main /\ main[1].kind = "initial" /\ main[1].observer = 1
    BY <1>2 DEF InitialBlock
  <2>2. \A i \in DOMAIN observers : i = 1
    BY <1>2
  <2> QED BY <2>1, <2>2 DEF PrevKnown
<1>6. Waits
  BY <1>2 DEF Waits, SigningIn
<1> QED BY <1>1, <1>3, <1>4, <1>5, <1>6 DEF Waiting

-----------------------------------------------------------------------------
\* A creation is filed for the user it names.

\* Each creation in the worker's queue will be run for the user it names.
InOwnersTurn ==
    \A i \in DOMAIN worker : IsCreation(worker[i]) =>
        ActsFor(worker, fsUser, i, worker[i].mutation.document.user_id)

\* The user the SDK will act for when it has done all there is to do.
Heading(u) == ActsFor(worker, fsUser, Len(worker), u)

\* Auth tells the SDK of each change, and users who wait touch the table only
\* when the last one has been heard, unless Auth has signed the user out by
\* itself.
OustedGone == ousted # Nobody => keychain = Nobody
Announced == LastAnnounces(main, authUser)
Heard == ~Announces(main) /\ fsUser # NoClient => Heading(authUser)
TableHeard ==
    Patient /\ OnTabs /\ list # NotLoaded /\ authUser # Nobody =>
        OnlyAnnounces(main, authUser) /\ Heading(authUser)

\* The inductive invariant.
Filing ==
    /\ Waiting
    /\ OustedGone /\ Announced /\ Heard /\ TableHeard
    /\ (Patient => InOwnersTurn) /\ FiledUnderOwner

\* Tasks that are added keep the creations' turns, and the user that follows.
LEMMA AddedTasks ==
    ASSUME IInv, LooksUpOrChanges, fsUser' = fsUser
    PROVE  /\ InOwnersTurn => InOwnersTurn'
           /\ \A u : Heading(u) => Heading(u)'
<1> DEFINE R == Task(Len(heap))
<1>0. PICK T : \E t \in Seq(T) : Adds(t)
  BY DEF LooksUpOrChanges
<1>1. PICK t \in Seq(T) : Adds(t)
  BY <1>0
<1>2. worker \in Seq(R) /\ worker' = worker \o t /\ DOMAIN worker = 1 .. Len(worker)
  BY <1>1 DEF IInv, TypeOK, StoreTypeOK, Adds
<1> HIDE DEF R
<1>3. ASSUME InOwnersTurn, NEW i \in DOMAIN worker', IsCreation(worker'[i])
      PROVE  ActsFor(worker', fsUser, i, worker'[i].mutation.document.user_id)
  <2>1. \/ i \in DOMAIN worker /\ worker'[i] = worker[i]
        \/ \E j \in DOMAIN t : worker'[i] = t[j]
    <3>1. worker \in Seq(R) /\ t \in Seq(T) /\ i \in DOMAIN (worker \o t)
      BY <1>2, <1>3
    <3>2. \/ i \in DOMAIN worker /\ (worker \o t)[i] = worker[i]
          \/ \E j \in DOMAIN t : (worker \o t)[i] = t[j]
      BY ONLY <3>1, ElementOfConcat
    <3> QED BY <3>2, <1>2
  <2>2. i \in DOMAIN worker /\ worker'[i] = worker[i]
    BY <1>1, <1>3, <2>1 DEF Adds
  <2>3. ActsFor(worker, fsUser, i, worker[i].mutation.document.user_id)
    BY <1>3, <2>2 DEF InOwnersTurn
  <2> DEFINE u == worker[i].mutation.document.user_id
  <2>4. ActsFor(worker, fsUser, i, u) => ActsFor(worker \o t, fsUser, i, u)
    <3> HIDE DEF u
    <3> QED BY <1>2, <2>2, ActorOfConcat
  <2> QED BY <1>2, <2>2, <2>3, <2>4
<1>4. ASSUME NEW u, Heading(u)
      PROVE  ActsFor(worker', fsUser, Len(worker'), u)
  <2>1. \A j \in DOMAIN t : t[j].kind # "user"
    BY <1>1 DEF Adds
  <2> QED BY <1>2, <1>4, <2>1, ActorOfConcat DEF Heading
<1> QED BY <1>3, <1>4 DEF InOwnersTurn, Heading

\* So does taking a task.
LEMMA TakenTask ==
    ASSUME IInv, TakesTask
    PROVE  /\ InOwnersTurn => InOwnersTurn'
           /\ \A u : Heading(u) => Heading(u)'
<1> DEFINE R == Task(Len(heap))
<1>1. /\ worker \in Seq(R) /\ worker # << >> /\ worker' = Tail(worker)
      /\ fsUser' = IF Head(worker).kind = "user" THEN Head(worker).user ELSE fsUser
      /\ DOMAIN worker = 1 .. Len(worker)
      /\ \A i \in DOMAIN worker' : i + 1 \in DOMAIN worker /\ worker'[i] = worker[i + 1]
                                   /\ i + 1 - 1 = i
      /\ Len(worker) \in Nat \ {0} /\ Len(worker') = Len(worker) - 1
      /\ Len(worker) \in 1 .. Len(worker)
  BY DEF IInv, TypeOK, StoreTypeOK, TakesTask
<1> HIDE DEF R
<1>2. ASSUME NEW n \in 1 .. Len(worker), NEW u, ActsFor(worker, fsUser, n, u)
      PROVE  ActsFor(worker', fsUser', n - 1, u)
  BY <1>1, <1>2, ActorOfTail
<1>3. ASSUME InOwnersTurn, NEW i \in DOMAIN worker', IsCreation(worker'[i])
      PROVE  ActsFor(worker', fsUser', i, worker'[i].mutation.document.user_id)
  <2>1. IsCreation(worker[i + 1]) /\ i + 1 \in DOMAIN worker /\ worker'[i] = worker[i + 1]
    BY <1>1, <1>3
  <2>2. ActsFor(worker, fsUser, i + 1, worker[i + 1].mutation.document.user_id)
    BY <1>3, <2>1 DEF InOwnersTurn
  <2>3. ActsFor(worker', fsUser', i + 1 - 1, worker[i + 1].mutation.document.user_id)
    BY <1>1, <1>2, <2>1, <2>2
  <2>4. i + 1 - 1 = i
    BY <1>1
  <2> QED BY <2>1, <2>3, <2>4
<1>4. ASSUME NEW u, Heading(u)
      PROVE  ActsFor(worker', fsUser', Len(worker'), u)
  BY <1>1, <1>2, <1>4 DEF Heading
<1> QED BY <1>3, <1>4 DEF InOwnersTurn, Heading

\* Listeners that are called with a user leave the worker to that user, once
\* there is a client; the first call makes one, for the current user.
LEMMA NotifyHeads ==
    ASSUME IInv, NEW I \in SUBSET DOMAIN observers, NEW tasks, Notify(I, tasks),
           NEW u, tasks = << >> \/ tasks = <<UserTask(u)>>, authUser' = authUser
    PROVE  /\ fsUser # NoClient => fsUser' = fsUser
           /\ fsUser' # NoClient /\ fsUser = NoClient /\ tasks = << >> => Heading(authUser)'
           /\ fsUser # NoClient /\ tasks # << >> => Heading(u)'
           /\ \A v : fsUser # NoClient /\ tasks = << >> /\ Heading(v) => Heading(v)'
           /\ InOwnersTurn /\ (fsUser = NoClient => tasks = << >>) => InOwnersTurn'
<1> DEFINE R == Task(Len(heap)) \cup {UserTask(u)}
           S == {Asked(I)[j] : j \in DOMAIN Asked(I)}
           before == worker \o tasks
           asked == Asked(I)
<1>1. /\ worker' = worker \o tasks \o asked
      /\ asked \in Seq(S)
      /\ \A j \in DOMAIN asked : \E q, c : asked[j] = ListenTask(q, c)
  BY NotifyAsks DEF IInv
<1>2. \A j \in DOMAIN asked : asked[j].kind # "user" /\ ~IsCreation(asked[j])
  BY <1>1 DEF ListenTask, IsCreation
<1>3. worker \in Seq(R) /\ tasks \in Seq(R) /\ \A j \in DOMAIN tasks : ~IsCreation(tasks[j])
  <2>1. worker \in Seq(R)
    BY SeqGrows DEF IInv, TypeOK, StoreTypeOK
  <2> DEFINE task == UserTask(u)
  <2>2. task \in R /\ ~IsCreation(task)
    BY DEF UserTask, IsCreation
  <2>3. tasks = << >> \/ tasks = <<task>>
    OBVIOUS
  <2> HIDE DEF R, task
  <2>4. CASE tasks = << >>
    BY <2>1, <2>4
  <2>5. CASE tasks = <<task>>
    BY <2>1, <2>2, <2>5
  <2> QED BY <2>3, <2>4, <2>5
<1>4. /\ fsUser # NoClient => fsUser' = fsUser
      /\ fsUser = NoClient => fsUser' = authUser \/ fsUser' = NoClient
  BY DEF Notify
<1>5. fsUser = NoClient => worker = << >>
  BY DEF IInv, ClientReady
<1> HIDE DEF R, S, asked
<1>6. before \in Seq(R) /\ worker' = before \o asked /\ (tasks = << >> => before = worker)
  BY <1>1, <1>3
<1>7. ASSUME NEW f, NEW v, ActsFor(before, f, Len(before), v)
      PROVE  ActsFor(worker', f, Len(worker'), v)
  BY <1>1, <1>2, <1>6, <1>7, ActorOfConcat
<1>8. ASSUME fsUser = NoClient, fsUser' # NoClient, tasks = << >>
      PROVE  Heading(authUser)'
  <2>1. fsUser' = authUser /\ before = << >>
    BY <1>4, <1>5, <1>6, <1>8
  <2>2. ActsFor(before, authUser, Len(before), authUser)
    BY <2>1 DEF ActsFor
  <2>3. ActsFor(worker', fsUser', Len(worker'), authUser)
    BY <1>7, <2>1, <2>2
  <2> QED BY <2>3 DEF Heading
<1>9. ASSUME fsUser # NoClient, tasks # << >>
      PROVE  Heading(u)'
  <2>1. ActsFor(before, fsUser, Len(before), u)
    BY <1>3, <1>9, ActorChanged
  <2> QED BY <1>4, <1>7, <1>9, <2>1 DEF Heading
<1>10. ASSUME NEW v, fsUser # NoClient, tasks = << >>, Heading(v)
       PROVE  Heading(v)'
  BY <1>4, <1>6, <1>7, <1>10 DEF Heading
<1>11. ASSUME InOwnersTurn, fsUser = NoClient => tasks = << >>
       PROVE  InOwnersTurn'
  <2> HIDE DEF before
  <2> SUFFICES ASSUME NEW i \in DOMAIN worker', IsCreation(worker'[i])
               PROVE  ActsFor(worker', fsUser', i, worker'[i].mutation.document.user_id)
    BY DEF InOwnersTurn
  <2>1. i \in DOMAIN before /\ worker'[i] = before[i]
    <3>1. \/ i \in DOMAIN before /\ worker'[i] = before[i]
          \/ \E j \in DOMAIN asked : worker'[i] = asked[j]
      BY <1>1, <1>6, ElementOfConcat
    <3> QED BY <1>2, <3>1
  <2>2. i \in DOMAIN worker /\ worker[i] = before[i]
    <3>1. \/ i \in DOMAIN worker /\ before[i] = worker[i]
          \/ \E j \in DOMAIN tasks : before[i] = tasks[j]
      BY <1>3, <2>1, ElementOfConcat DEF before
    <3> QED BY <1>3, <2>1, <3>1
  <2>3. fsUser # NoClient /\ fsUser' = fsUser
    BY <1>4, <1>5, <2>2
  <2> DEFINE v == worker[i].mutation.document.user_id
  <2>4. ActsFor(worker, fsUser, i, v)
    BY <1>11, <2>1, <2>2 DEF InOwnersTurn
  <2> HIDE DEF v
  <2>5. i \in 1 .. Len(worker) /\ i \in 1 .. Len(before)
    BY <1>3, <1>6, <2>1, <2>2
  <2>6. ActsFor(before, fsUser, i, v)
    BY <1>3, <2>4, <2>5, ActorOfConcat DEF before
  <2>7. ActsFor(worker', fsUser, i, v)
    BY <1>1, <1>6, <2>5, <2>6, ActorOfConcat
  <2> QED BY <2>1, <2>2, <2>3, <2>7 DEF v
<1> QED BY <1>4, <1>8, <1>9, <1>10, <1>11

\* A step that leaves the session and what is announced alone, and the worker
\* headed for the same user, keeps everyone told.
LEMMA QuietSteps ==
    ASSUME OustedGone, Announced, Heard, TableHeard, SameAnnouncements,
           UNCHANGED <<authUser, keychain, ousted>>,
           fsUser' # NoClient => fsUser # NoClient,
           OnTabs' /\ list' # NotLoaded => OnTabs /\ list # NotLoaded,
           \A u : Heading(u) => Heading(u)', Patient' => Patient
    PROVE  OustedGone' /\ Announced' /\ Heard' /\ TableHeard'
<1>1. /\ Heading(authUser) => ActsFor(worker', fsUser', Len(worker'), authUser)
      /\ authUser' = authUser
  BY DEF Heading
<1>2. OustedGone' /\ Announced'
  BY DEF OustedGone, Announced, SameAnnouncements
<1>3. Heard'
  BY <1>1 DEF Heard, Heading, SameAnnouncements
<1>4. TableHeard'
  BY <1>1 DEF TableHeard, Heading, SameAnnouncements
<1> QED BY <1>2, <1>3, <1>4

\* A worker and a user that stay as they are.
LEMMA WorkerKept ==
    ASSUME UNCHANGED <<worker, fsUser>>
    PROVE  /\ InOwnersTurn => InOwnersTurn'
           /\ \A u : Heading(u) => Heading(u)'
<1>1. ASSUME InOwnersTurn PROVE InOwnersTurn'
  BY <1>1 DEF InOwnersTurn
<1>2. ASSUME NEW u, Heading(u) PROVE ActsFor(worker', fsUser', Len(worker'), u)
  BY <1>2 DEF Heading
<1> QED BY <1>1, <1>2 DEF Heading

\* A transaction is added under the user the worker is headed for.
LEMMA AddTransactionHeads ==
    ASSUME IInv, TableHeard, AddTransaction
    PROVE  /\ Patient /\ InOwnersTurn => InOwnersTurn'
           /\ \A u : Heading(u) => Heading(u)'
<1>1. UNCHANGED <<fsUser, authUser>> /\ OnTabs /\ list # NotLoaded
  BY DEF AddTransaction, sessionVars
<1>2. CASE worker' = worker
  BY <1>1, <1>2, WorkerKept
<1>3. CASE authUser # Nobody
  <2>1. \E x, d, c :
            worker' = Append(worker, WriteTask(Set(d,
                        [id |-> x, user_id |-> authUser, content |-> Encode(c)])))
    <3>1. PICK x \in Ids, d \in DocIds, c \in NewContents :
              addTransactions([id |-> x, content |-> c], authUser, d)
      BY DEF AddTransaction
    <3> QED BY <1>3, <3>1 DEF addTransactions
  <2>2. PICK task : /\ worker' = Append(worker, task)
                    /\ task.kind = "write"
                    /\ task.mutation.document.user_id = authUser
    <3>1. \A x, d, c : LET task == WriteTask(Set(d,
                              [id |-> x, user_id |-> authUser, content |-> c]))
                       IN  task.kind = "write" /\ task.mutation.document.user_id = authUser
      BY DEF WriteTask, Set
    <3> QED BY <2>1, <3>1
  <2> DEFINE R == Task(Len(heap))
             t == <<task>>
  <2>3. worker \in Seq(R) /\ DOMAIN worker = 1 .. Len(worker)
    BY DEF IInv, TypeOK, StoreTypeOK
  <2> HIDE DEF R
  <2>4. t \in Seq({task}) /\ \A j \in DOMAIN t : t[j] = task /\ t[j].kind # "user"
    BY <2>2
  <2>5. worker' = worker \o t
    BY <2>2, <2>3
  <2> HIDE DEF t
  <2>6. \A u : Heading(u) => ActsFor(worker', fsUser', Len(worker'), u)
    BY <1>1, <2>3, <2>4, <2>5, ActorOfConcat DEF Heading
  <2>7. ASSUME Patient, InOwnersTurn, NEW i \in DOMAIN worker', IsCreation(worker'[i])
        PROVE  ActsFor(worker', fsUser', i, worker'[i].mutation.document.user_id)
    <3>1. /\ worker \in Seq(R \cup {task})
          /\ \/ i \in DOMAIN worker /\ worker'[i] = worker[i]
             \/ i = Len(worker') /\ worker'[i] = task
      <4>1. worker \in Seq(R \cup {task}) /\ task \in R \cup {task}
        BY <2>3, SeqGrows
      <4> QED BY <2>2, <4>1
    <3>2. CASE i \in DOMAIN worker /\ worker'[i] = worker[i]
      <4> DEFINE v == worker[i].mutation.document.user_id
      <4>1. ActsFor(worker, fsUser, i, v)
        BY <2>7, <3>2 DEF InOwnersTurn
      <4> HIDE DEF v
      <4>2. ActsFor(worker', fsUser, i, v)
        BY <2>3, <2>4, <2>5, <3>2, <4>1, ActorOfConcat
      <4> QED BY <1>1, <3>2, <4>2 DEF v
    <3>3. CASE i = Len(worker') /\ worker'[i] = task
      <4>1. Heading(authUser)
        BY <1>1, <1>3, <2>7 DEF TableHeard
      <4> QED BY <2>2, <2>6, <3>3, <4>1
    <3> QED BY <3>1, <3>2, <3>3
  <2> QED BY <2>6, <2>7 DEF InOwnersTurn, Heading
<1>4. authUser = Nobody => worker' = worker
  BY DEF AddTransaction, addTransactions
<1> QED BY <1>2, <1>3, <1>4

-----------------------------------------------------------------------------
\* Everyone stays told.

Told == OustedGone /\ Announced /\ Heard /\ TableHeard

\* A relaunch: nothing is announced, asked or shown.
LEMMA CrashTells == Crash => Told' /\ InOwnersTurn'
<1> SUFFICES ASSUME Crash PROVE Told' /\ InOwnersTurn'
  OBVIOUS
<1>1. /\ main' = <<InitialBlock(1)>> /\ depth' = 1 /\ ousted' = Nobody
      /\ worker' = << >> /\ fsUser' = NoClient
  BY DEF Crash, Launched, StoreCrash
<1>2. \A i \in DOMAIN main' : main'[i].kind # "auth"
  BY <1>1 DEF InitialBlock
<1>3. ~OnTabs'
  BY <1>1 DEF OnTabs
<1>4. OustedGone' /\ TableHeard' /\ Heard' /\ Announced' /\ InOwnersTurn'
  BY <1>1, <1>2, <1>3 DEF OustedGone, TableHeard, Heard, Announced, LastAnnounces, InOwnersTurn
<1> QED BY <1>4 DEF Told

\* Auth announces each change; the tabs are on the screen only if someone is
\* signed in, or was until Auth intervened, and of users who wait only if no
\* sign-in is unanswered.
LEMMA AuthTells ==
    ASSUME Waiting, Told, Patient' => Patient,
           LoadKeychain \/ (\E u \in Users : SignInAnswered(u)) \/ RefreshToken \/ SignOutByForce
    PROVE  Told'
<1>1. /\ StoreTypeOK /\ IInv /\ authUser \in {Nobody, keychain} /\ depth \in Nat
      /\ Presence
  BY DEF Waiting, Presence, IInv, TypeOK, SessionTypeOK
<1>2. \A u : AuthBlock(u).kind = "auth" /\ AuthBlock(u).user = u
  BY DEF AuthBlock
<1>3. UNCHANGED <<worker, fsUser, depth, list>> /\ main' = Append(main, AuthBlock(authUser'))
  BY DEF LoadKeychain, SignInAnswered, RefreshToken, SignOutByForce, sessionVars
<1>4. /\ Announces(main') /\ LastAnnounces(main', authUser')
      /\ OnlyAnnounces(main, authUser') => OnlyAnnounces(main', authUser')
  <2> DEFINE u == authUser'
             b == AuthBlock(u)
  <2>1. b.kind = "auth" /\ b.user = u
    BY <1>2
  <2>2. main' = Append(main, b)
    BY <1>3
  <2> HIDE DEF b
  <2>3. /\ Announces(main') /\ LastAnnounces(main', b.user)
        /\ OnlyAnnounces(main, b.user) => OnlyAnnounces(main', b.user)
    BY <1>1, <2>1, <2>2, BlockAppended
  <2> QED BY <2>1, <2>3
<1>5. Announced' /\ Heard'
  BY <1>4 DEF Announced, Heard
<1>6. OustedGone'
  BY DEF Told, OustedGone, LoadKeychain, SignInAnswered, RefreshToken, SignOutByForce, sessionVars
<1>7. TableHeard'
  <2>1. CASE LoadKeychain
    <3>1. ~OnTabs
      BY <1>1, <2>1 DEF Presence, Told, TabsAreSignedIn, OustedGone, LoadKeychain
    <3> QED BY <1>3, <3>1 DEF TableHeard, OnTabs
  <2>2. CASE \E u \in Users : SignInAnswered(u)
    <3>1. SigningIn
      BY <2>2 DEF SignInAnswered, SigningIn
    <3>2. Patient => ~OnTabs
      BY <1>1, <3>1 DEF Waiting, Waits, OnLogin, OnTabs
    <3> QED BY <1>3, <3>2 DEF TableHeard, OnTabs
  <2>3. CASE RefreshToken
    <3>1. authUser' = authUser
      BY <2>3 DEF RefreshToken, sessionVars
    <3> QED BY <1>3, <1>4, <3>1 DEF Told, TableHeard, OnTabs, Heading
  <2>4. CASE SignOutByForce
    BY <2>4 DEF SignOutByForce, TableHeard
  <2> QED BY <2>1, <2>2, <2>3, <2>4
<1> QED BY <1>5, <1>6, <1>7 DEF Told

\* So does a logout, before a new login controller covers the tabs.
LEMMA SignOutTells ==
    ASSUME Presence, Told, SignOut
    PROVE  Told'
<1>1. StoreTypeOK /\ depth \in Nat
  BY DEF Presence, IInv, TypeOK, SessionTypeOK
<1>2. UNCHANGED <<worker, fsUser>> /\ authUser' = Nobody /\ ousted' = Nobody
  BY DEF SignOut
<1>3. ~OnTabs'
  BY <1>1 DEF SignOut, OnTabs
<1>4. OustedGone' /\ TableHeard'
  BY <1>2, <1>3 DEF OustedGone, TableHeard
<1>5. \E i : main' = Append(IF authUser = Nobody THEN main ELSE Append(main, AuthBlock(Nobody)),
                            InitialBlock(i))
  BY DEF SignOut, checkLoggedIn
<1>6. Announced' /\ Heard'
  <2>1. CASE authUser = Nobody
    <3>1. \E b : b.kind # "auth" /\ main' = Append(main, b)
      BY <1>5, <2>1 DEF InitialBlock
    <3>2. SameAnnouncements
      BY <1>1, <3>1, BlockAppended
    <3> QED BY <1>2, <2>1, <3>2 DEF Told, Announced, Heard, Heading, SameAnnouncements
  <2>2. CASE authUser # Nobody
    <3>1. \E b : b.kind # "auth" /\ main' = Append(Append(main, AuthBlock(Nobody)), b)
      BY <1>5, <2>2 DEF InitialBlock
    <3>2. PICK b : b.kind # "auth" /\ main' = Append(Append(main, AuthBlock(Nobody)), b)
      BY <3>1
    <3> DEFINE a == AuthBlock(Nobody)
               S == Block(Len(heap), Len(observers)) \cup {a, b}
    <3>3. a.kind = "auth" /\ a.user = Nobody
      BY DEF AuthBlock
    <3>4. main \in Seq(S) /\ a \in S /\ b \in S /\ main' = Append(Append(main, a), b)
      BY <1>1, <3>2, SeqGrows DEF StoreTypeOK
    <3> HIDE DEF S, a
    <3>5. /\ Len(main) \in Nat /\ DOMAIN main' = 1 .. Len(main) + 2
          /\ main'[Len(main) + 1] = a /\ main'[Len(main) + 2] = b
      BY <3>4
    <3>6. Announces(main')
      BY <3>3, <3>5 DEF Announces
    <3>7. LastAnnounces(main', Nobody)
      <4> SUFFICES ASSUME NEW i \in DOMAIN main', main'[i].kind = "auth",
                          \A j \in DOMAIN main' : j > i => main'[j].kind # "auth"
                   PROVE  main'[i].user = Nobody
        BY DEF LastAnnounces
      <4>1. Len(main) + 1 \in DOMAIN main' /\ i \in Nat
        BY <3>5
      <4>2. ~(Len(main) + 1 > i) /\ i # Len(main) + 2
        BY <3>2, <3>3, <3>5, <4>1
      <4>3. i = Len(main) + 1
        BY <3>5, <4>2
      <4> QED BY <3>3, <3>5, <4>3
    <3> QED BY <1>2, <3>6, <3>7 DEF Announced, Heard
  <2> QED BY <2>1, <2>2
<1> QED BY <1>4, <1>6 DEF Told

\* The SDK is told of the user of each notification.
LEMMA RunAuthBlockTells ==
    ASSUME Presence, Told, Patient' => Patient, RunAuthBlock
    PROVE  Told' /\ (InOwnersTurn => InOwnersTurn')
<1>0. PICK u : u = Head(main).user
  OBVIOUS
<1>t. PICK tasks : tasks = IF CredentialsUser \in {NoClient, u} THEN << >> ELSE <<UserTask(u)>>
  OBVIOUS
<1> DEFINE I == DOMAIN observers
<1>1. StoreTypeOK /\ IInv /\ I \in SUBSET DOMAIN observers
  BY DEF Presence, IInv, TypeOK
<1>2. /\ main # << >> /\ main' = Tail(main) /\ Head(main).kind = "auth"
      /\ UNCHANGED <<authUser, keychain, ousted, depth, list>>
  BY DEF RunAuthBlock
<1>3. Notify(I, tasks)
  BY <1>0, <1>t DEF RunAuthBlock
<1>4. fsUser = NoClient => worker = << >> /\ depth = 1
  BY <1>1 DEF IInv, ClientReady
<1>5. fsUser = NoClient => CredentialsUser = NoClient
  BY <1>4 DEF CredentialsUser
<1>6. ActsFor(worker, fsUser, Len(worker), CredentialsUser)
  BY <1>1, CredentialsActs
<1>7. fsUser # NoClient => CredentialsUser # NoClient
  <2> SUFFICES ASSUME fsUser # NoClient, CredentialsUser = NoClient PROVE FALSE
    OBVIOUS
  <2>1. PICK j \in 1 .. Len(worker) : worker[j].kind = "user" /\ worker[j].user = NoClient
    BY <1>6 DEF ActsFor
  <2>2. worker[j] \in Task(Len(heap))
    BY <1>1, <2>1 DEF StoreTypeOK
  <2>3. worker[j].user \in Users \cup {Nobody}
    BY <2>1, <2>2 DEF Task
  <2> QED BY <2>1, <2>3, UsersAssumption
<1>8. /\ tasks = << >> \/ tasks = <<UserTask(u)>>
      /\ fsUser = NoClient => tasks = << >>
      /\ fsUser # NoClient /\ tasks = << >> => CredentialsUser = u
  BY <1>t, <1>5, <1>7
<1> HIDE DEF I
<1>9. /\ fsUser # NoClient => fsUser' = fsUser
      /\ fsUser' # NoClient /\ fsUser = NoClient => Heading(authUser)'
      /\ fsUser # NoClient /\ tasks # << >> => Heading(u)'
      /\ fsUser # NoClient /\ tasks = << >> /\ Heading(u) => Heading(u)'
      /\ InOwnersTurn => InOwnersTurn'
  BY <1>1, <1>2, <1>3, <1>8, NotifyHeads
<1>10. fsUser # NoClient => ActsFor(worker', fsUser', Len(worker'), u)
  <2>1. fsUser # NoClient /\ tasks = << >> => Heading(u)
    BY <1>6, <1>8 DEF Heading
  <2>2. fsUser # NoClient => Heading(u)'
    BY <1>9, <2>1
  <2> QED BY <2>2 DEF Heading
<1>11. /\ \A v : LastAnnounces(main, v) => LastAnnounces(main', v)
       /\ \A v : OnlyAnnounces(main, v) => OnlyAnnounces(main', v) /\ u = v
       /\ \A v : LastAnnounces(main, v) /\ ~Announces(main') => u = v
  BY <1>0, <1>1, <1>2, BlockRun
<1>12. OustedGone' /\ Announced'
  BY <1>2, <1>11 DEF Told, OustedGone, Announced
<1>13. Heard'
  <2>1. CASE fsUser = NoClient
    BY <1>9, <2>1 DEF Heard, Heading
  <2>2. CASE fsUser # NoClient /\ ~Announces(main')
    BY <1>2, <1>10, <1>11, <2>2 DEF Told, Announced, Heard, Heading
  <2> QED BY <2>1, <2>2 DEF Heard
<1>14. TableHeard'
  <2> SUFFICES ASSUME Patient', OnTabs', list' # NotLoaded, authUser' # Nobody
               PROVE  OnlyAnnounces(main', authUser') /\ ActsFor(worker', fsUser', Len(worker'), authUser')
    BY DEF TableHeard, Heading
  <2>1. OnTabs /\ OnlyAnnounces(main, authUser)
    BY <1>2 DEF OnTabs, Told, TableHeard
  <2>2. fsUser # NoClient
    BY <1>4, <2>1 DEF OnTabs
  <2> QED BY <1>2, <1>10, <1>11, <2>1, <2>2
<1> QED BY <1>9, <1>12, <1>13, <1>14 DEF Told

\* The first call of a listener may come before any notification; the client it
\* creates starts with the user of that moment.
LEMMA RunInitialBlockTells ==
    ASSUME Presence, Told, Patient' => Patient, RunInitialBlock
    PROVE  Told' /\ (InOwnersTurn => InOwnersTurn')
<1> DEFINE I == {Head(main).observer}
           tasks == << >>
<1>1. StoreTypeOK /\ IInv /\ I \in SUBSET DOMAIN observers
  <2>1. Head(main) \in Block(Len(heap), Len(observers))
    BY DEF Presence, IInv, TypeOK, StoreTypeOK, RunInitialBlock
  <2>2. Head(main).observer \in 1 .. Len(observers)
    BY <2>1 DEF Block, RunInitialBlock
  <2> QED BY <2>2 DEF Presence, IInv, TypeOK, SessionTypeOK
<1>2. /\ main # << >> /\ main' = Tail(main) /\ Head(main).kind # "auth"
      /\ UNCHANGED <<authUser, keychain, ousted, depth, list>>
      /\ Notify(I, tasks)
  BY DEF RunInitialBlock
<1>3. SameAnnouncements
  BY <1>1, <1>2, BlockRun
<1> DEFINE u == Nobody
<1>4. tasks = << >> \/ tasks = <<UserTask(u)>>
  OBVIOUS
<1> HIDE DEF I, u
<1>5. /\ fsUser # NoClient => fsUser' = fsUser
      /\ fsUser' # NoClient /\ fsUser = NoClient => Heading(authUser)'
      /\ \A v : fsUser # NoClient /\ Heading(v) => Heading(v)'
      /\ InOwnersTurn => InOwnersTurn'
  <2> HIDE DEF tasks
  <2>1. /\ fsUser # NoClient => fsUser' = fsUser
        /\ fsUser' # NoClient /\ fsUser = NoClient /\ tasks = << >> => Heading(authUser)'
        /\ \A v : fsUser # NoClient /\ tasks = << >> /\ Heading(v) => Heading(v)'
        /\ InOwnersTurn /\ (fsUser = NoClient => tasks = << >>) => InOwnersTurn'
    BY <1>1, <1>2, <1>4, NotifyHeads
  <2>2. tasks = << >>
    BY DEF tasks
  <2> QED BY <2>1, <2>2
<1>6. CASE fsUser # NoClient
  <2>1. \A v : Heading(v) => Heading(v)'
    BY <1>5, <1>6
  <2>2. OnTabs' /\ list' # NotLoaded => OnTabs /\ list # NotLoaded
    BY <1>2 DEF OnTabs
  <2> QED BY <1>2, <1>3, <1>5, <1>6, <2>1, <2>2, QuietSteps DEF Told
<1>7. CASE fsUser = NoClient
  <2>1. ~OnTabs'
    BY <1>1, <1>2, <1>7 DEF IInv, ClientReady, OnTabs
  <2>2. OustedGone' /\ Announced' /\ TableHeard'
    BY <1>2, <1>3, <2>1 DEF Told, OustedGone, Announced, TableHeard, SameAnnouncements
  <2>3. Heard'
    BY <1>5, <1>7 DEF Heard, Heading
  <2> QED BY <1>5, <2>2, <2>3 DEF Told
<1> QED BY <1>6, <1>7

\* The table is shown when everything announced has been heard.
LEMMA OpenTableTells ==
    ASSUME Presence, Told, OpenTable
    PROVE  Told' /\ (InOwnersTurn => InOwnersTurn')
<1>1. UNCHANGED <<worker, fsUser, main, authUser, keychain, ousted, depth>>
  BY DEF OpenTable, storeVars, sessionVars
<1>2. OnTabs /\ ~Announces(main)
  BY DEF OpenTable, Announces
<1>3. fsUser # NoClient
  BY <1>2 DEF Presence, IInv, ClientReady, OnTabs
<1>4. Heading(authUser)
  BY <1>2, <1>3 DEF Told, Heard
<1>5. OnlyAnnounces(main, authUser)
  BY <1>2 DEF OnlyAnnounces, Announces
<1>6. TableHeard'
  BY <1>1, <1>4, <1>5 DEF TableHeard, Heading
<1>7. OustedGone' /\ Announced' /\ Heard'
  BY <1>1 DEF Told, OustedGone, Announced, Heard, Heading
<1>8. InOwnersTurn => InOwnersTurn'
  BY <1>1, WorkerKept
<1> QED BY <1>6, <1>7, <1>8 DEF Told

\* A task is taken only when there is a client.
LEMMA ClientStays ==
    ASSUME IInv, TakesTask \/ UNCHANGED <<worker, fsUser>> \/ fsUser' = fsUser
    PROVE  fsUser' # NoClient => fsUser # NoClient
BY DEF IInv, ClientReady, TakesTask

\* Everyone stays told, and each creation keeps its turn.
LEMMA EveryoneTold ==
    ASSUME Waiting, Told, [Next]_vars
    PROVE  Told' /\ (Patient /\ InOwnersTurn => InOwnersTurn')
<1>1. IInv /\ TypeOK /\ Presence /\ (Patient' => Patient)
  BY Patience DEF Waiting, Presence, IInv
<1>2. CASE LoadKeychain \/ (\E u \in Users : SignInAnswered(u)) \/ RefreshToken \/ SignOutByForce
  <2>1. UNCHANGED <<worker, fsUser>>
    BY <1>2 DEF LoadKeychain, SignInAnswered, RefreshToken, SignOutByForce
  <2> QED BY <1>1, <1>2, <2>1, AuthTells, WorkerKept
<1>3. CASE SignOut
  <2>1. UNCHANGED <<worker, fsUser>>
    BY <1>3 DEF SignOut
  <2> QED BY <1>1, <1>3, <2>1, SignOutTells, WorkerKept
<1>4. CASE Crash \/ RunAuthBlock \/ RunInitialBlock \/ OpenTable
  BY <1>1, <1>4, CrashTells, RunAuthBlockTells, RunInitialBlockTells, OpenTableTells
<1>5. CASE /\ UNCHANGED <<authUser, keychain, ousted>>
           /\ OnTabs' /\ list' # NotLoaded => OnTabs /\ list # NotLoaded
           /\ SameAnnouncements
           /\ \/ UNCHANGED <<worker, fsUser>>
              \/ LooksUpOrChanges /\ fsUser' = fsUser
              \/ TakesTask
              \/ AddTransaction
  <2>1. /\ Patient /\ InOwnersTurn => InOwnersTurn'
        /\ \A u : Heading(u) => Heading(u)'
    <3>1. CASE UNCHANGED <<worker, fsUser>>
      BY <3>1, WorkerKept
    <3>2. CASE LooksUpOrChanges /\ fsUser' = fsUser
      BY <1>1, <3>2, AddedTasks
    <3>3. CASE TakesTask
      BY <1>1, <3>3, TakenTask
    <3>4. CASE AddTransaction
      BY <1>1, <3>4, AddTransactionHeads DEF Told
    <3> QED BY <1>5, <3>1, <3>2, <3>3, <3>4
  <2>2. fsUser' # NoClient => fsUser # NoClient
    <3>1. AddTransaction => fsUser' = fsUser
      BY DEF AddTransaction
    <3> QED BY <1>1, <1>5, <3>1, ClientStays
  <2> QED BY <1>1, <1>5, <2>1, <2>2, QuietSteps DEF Told
<1> QED BY <1>1, <1>2, <1>3, <1>4, <1>5, AnnouncingSteps, WorkerSteps, SessionSteps

-----------------------------------------------------------------------------
\* The creation at the front of the worker's queue is in its owner's turn: it
\* is filed in the owner's queue.
LEMMA WriteMutationsFiles ==
    ASSUME IInv, Patient, InOwnersTurn, FiledUnderOwner, WriteMutations
    PROVE  FiledUnderOwner'
<1> DEFINE m == Head(worker).mutation
           Owners == Users \cup {Nobody}
<1>1. /\ worker # << >> /\ Head(worker) = worker[1] /\ 1 \in DOMAIN worker
      /\ Head(worker).kind = "write"
      /\ mutations' = [mutations EXCEPT ![fsUser] = Append(@, m)]
  BY DEF WriteMutations, IInv, TypeOK, StoreTypeOK
<1>2. /\ mutations \in [Owners -> Seq(Mutation)] /\ m \in Mutation
      /\ fsUser \in Owners
  <2>1. Head(worker) \in Task(Len(heap))
    BY <1>1 DEF IInv, TypeOK, StoreTypeOK
  <2>2. m \in Mutation
    BY <1>1, <2>1 DEF Task
  <2>3. fsUser # NoClient
    BY <1>1 DEF IInv, ClientReady
  <2> QED BY <2>2, <2>3 DEF IInv, TypeOK, StoreTypeOK
<1>3. m.op = "set" => m.document.user_id = fsUser
  <2> SUFFICES ASSUME m.op = "set" PROVE m.document.user_id = fsUser
    OBVIOUS
  <2>1. ActsFor(worker, fsUser, 1, m.document.user_id)
    BY <1>1 DEF InOwnersTurn, IsCreation
  <2>2. worker[1].kind # "user"
    BY <1>1
  <2> QED BY <2>1, <2>2 DEF ActsFor
<1> HIDE DEF m
<1> SUFFICES ASSUME NEW u \in Owners, NEW i \in DOMAIN mutations'[u],
                    mutations'[u][i].op = "set"
             PROVE  mutations'[u][i].document.user_id = u
  BY DEF FiledUnderOwner
<1>4. mutations[u] \in Seq(Mutation) /\ (u # fsUser => mutations'[u] = mutations[u])
      /\ (u = fsUser => mutations'[u] = Append(mutations[u], m))
  BY <1>1, <1>2
<1>5. \/ i \in DOMAIN mutations[u] /\ mutations'[u][i] = mutations[u][i]
      \/ u = fsUser /\ mutations'[u][i] = m
  <2>1. CASE u # fsUser
    BY <1>4, <2>1
  <2>2. CASE u = fsUser
    <3>1. /\ mutations[u] \in Seq(Mutation \cup {m})
          /\ mutations'[u] = mutations[u] \o <<m>> /\ <<m>> \in Seq(Mutation \cup {m})
      BY <1>2, <1>4, <2>2, SeqGrows
    <3>2. \/ i \in DOMAIN mutations[u] /\ mutations'[u][i] = mutations[u][i]
          \/ \E j \in DOMAIN <<m>> : mutations'[u][i] = <<m>>[j]
      BY <3>1, ElementOfConcat
    <3> QED BY <2>2, <3>2
  <2> QED BY <2>1, <2>2
<1> QED BY <1>3, <1>5 DEF FiledUnderOwner

\* What leaves a queue changes nothing for the rest; no other step files
\* anything.
LEMMA FiledStep ==
    ASSUME IInv, Patient => InOwnersTurn, Patient' => Patient, FiledUnderOwner, [Next]_vars
    PROVE  FiledUnderOwner'
<1>1. CASE mutations' = mutations
  BY <1>1 DEF FiledUnderOwner
<1>2. CASE WriteMutations
  <2>1. Patient => FiledUnderOwner'
    BY <1>2, WriteMutationsFiles
  <2> QED BY <2>1 DEF FiledUnderOwner
<1>3. CASE Sending /\ DropNextWrite
  <2>1. StoreTypeOK
    BY DEF IInv, TypeOK
  <2>2. \A u \in Users \cup {Nobody} : \A i \in DOMAIN mutations'[u] :
            \E j \in DOMAIN mutations[u] : mutations'[u][i] = mutations[u][j]
    BY <1>3, <2>1, DroppedWrite
  <2> QED BY <2>2 DEF FiledUnderOwner
<1> QED BY <1>1, <1>2, <1>3, WritingSteps DEF ApplySuccessfulWrite, RejectFailedWrite,
        CommitWithoutResponse, OtherDevices, OtherDevice

\* A step keeps the inductive invariant.
LEMMA FilingStep == Filing /\ [Next]_vars => Filing'
<1> SUFFICES ASSUME Filing, [Next]_vars PROVE Filing'
  OBVIOUS
<1>1. Waiting /\ Told /\ (Patient => InOwnersTurn) /\ FiledUnderOwner /\ IInv
  BY DEF Filing, Told, Waiting, Presence
<1>2. Waiting' /\ (Patient' => Patient)
  BY <1>1, WaitingStep, Patience DEF Waiting
<1>3. Told' /\ (Patient' => InOwnersTurn')
  BY <1>1, <1>2, EveryoneTold
<1>4. FiledUnderOwner'
  BY <1>1, <1>2, FiledStep
<1> QED BY <1>2, <1>3, <1>4 DEF Filing, Told

\* It holds at first.
LEMMA FilingInit == Init => Filing
<1> SUFFICES ASSUME Init PROVE Filing
  OBVIOUS
<1>1. Waiting
  BY WaitingInit
<1>2. /\ ousted = Nobody /\ fsUser = NoClient /\ worker = << >> /\ list = NotLoaded
      /\ main = <<InitialBlock(1)>> /\ mutations = [u \in Users \cup {Nobody} |-> << >>]
  BY DEF Init, StoreInit
<1>3. \A i \in DOMAIN main : main[i].kind # "auth"
  BY <1>2 DEF InitialBlock
<1>4. OustedGone /\ Announced /\ Heard /\ TableHeard
  BY <1>2, <1>3 DEF OustedGone, Announced, LastAnnounces, Heard, TableHeard
<1>5. InOwnersTurn /\ FiledUnderOwner
  BY <1>2 DEF InOwnersTurn, FiledUnderOwner
<1> QED BY <1>1, <1>4, <1>5 DEF Filing

\* The creation of a document is filed in the queue of the user whose id it
\* carries, although the program takes the id from Auth and the SDK files the
\* write under the user it was last told of: whatever users who wait do between
\* a change of user and its announcement, and whatever the worker still has to
\* do when it arrives.
THEOREM OwnersFile == Spec => []FiledUnderOwner
<1>1. Filing => FiledUnderOwner
  BY DEF Filing
<1> QED BY <1>1, FilingInit, FilingStep, PTL DEF Spec

-----------------------------------------------------------------------------
\* A creation is on its way once, and not ahead of its document.

\* A key is drawn for one transaction.
KeysOnce ==
    \A x, y \in Ids :
        /\ added[x] # NotAdded /\ added[y] # NotAdded
        /\ added[x].key = added[y].key /\ added[x].key # NoKey
        => x = y

\* The creation of d is on the worker queue.
ToBeFiled(d) == \E i \in DOMAIN worker : IsCreation(worker[i]) /\ worker[i].mutation.key = d

OnWorkerOnce ==
    \A i, j \in DOMAIN worker :
        IsCreation(worker[i]) /\ IsCreation(worker[j])
        /\ worker[i].mutation.key = worker[j].mutation.key => i = j

InQueuesOnce ==
    \A u, v \in Users \cup {Nobody} : \A i \in DOMAIN mutations[u], j \in DOMAIN mutations[v] :
        mutations[u][i].op = "set" /\ mutations[v][j].op = "set"
        /\ mutations[u][i].key = mutations[v][j].key => u = v /\ i = j

\* A creation that is filed has left the worker queue.
FiledOnce ==
    \A u \in Users \cup {Nobody} : \A i \in DOMAIN mutations[u] :
        mutations[u][i].op = "set" => ~ToBeFiled(mutations[u][i].key)

\* A creation the server has committed has left the worker queue.
CommittedOnce == \A d \in DocIds : server[d] # Absent => ~ToBeFiled(d)

Once == KeysOnce /\ OnWorkerOnce /\ InQueuesOnce /\ FiledOnce /\ CommittedOnce

\* The inductive invariant.
Uniqueness == Provenance /\ Once

\* The key of a genuine document has been drawn.
LEMMA GenuineDrawn ==
    ASSUME NEW d \in DocIds, NEW doc \in Document, Genuine(added, d, doc)
    PROVE  d \in UsedKeys
<1>1. doc.id \in Ids /\ doc.user_id \in Users
  BY DEF Document
<1>2. [key |-> d, user |-> doc.user_id] \in [key : DocIds \cup {NoKey},
                                             user : Users \cup {Nobody}]
  BY <1>1
<1>3. added[doc.id] # NotAdded /\ added[doc.id].key = d
  BY <1>2, MarkerAssumption DEF Genuine
<1> QED BY <1>1, <1>3 DEF UsedKeys

\* The key of a creation or a document has been drawn.
LEMMA KeysDrawn ==
    ASSUME Provenance
    PROVE  /\ \A d : ToBeFiled(d) => d \in UsedKeys
           /\ \A d : SetPending(d) => d \in UsedKeys
           /\ \A d \in DocIds : server[d] # Absent => d \in UsedKeys
<1>1. StoreTypeOK
  BY DEF Provenance, IInv, TypeOK
<1>3. ASSUME NEW d, ToBeFiled(d)
      PROVE  d \in UsedKeys
  <2>1. PICK i \in DOMAIN worker : IsCreation(worker[i]) /\ worker[i].mutation.key = d
    BY <1>3 DEF ToBeFiled
  <2>2. worker[i] \in Task(Len(heap))
    BY <1>1, <2>1 DEF StoreTypeOK
  <2>3. worker[i].mutation \in Mutation /\ worker[i].mutation.op = "set"
    BY <2>1, <2>2 DEF IsCreation, Task
  <2>4. d \in DocIds /\ worker[i].mutation.document \in Document
    BY <2>1, <2>3 DEF Mutation
  <2>5. Genuine(added, d, worker[i].mutation.document)
    BY <2>1 DEF Provenance, OnWorker
  <2> QED BY GenuineDrawn, <2>4, <2>5
<1>4. ASSUME NEW d, SetPending(d)
      PROVE  d \in UsedKeys
  <2>1. PICK u \in Users \cup {Nobody} : \E i \in DOMAIN mutations[u] :
            mutations[u][i].op = "set" /\ mutations[u][i].key = d
    BY <1>4 DEF SetPending
  <2>2. PICK i \in DOMAIN mutations[u] : mutations[u][i].op = "set" /\ mutations[u][i].key = d
    BY <2>1
  <2>3. mutations[u] \in Seq(Mutation)
    BY <1>1 DEF StoreTypeOK
  <2>4. mutations[u][i] \in Mutation
    BY <2>3
  <2>5. d \in DocIds /\ mutations[u][i].document \in Document
    BY <2>2, <2>4 DEF Mutation
  <2>6. Genuine(added, d, mutations[u][i].document)
    BY <2>2 DEF Provenance, InQueues
  <2> QED BY GenuineDrawn, <2>5, <2>6
<1>5. ASSUME NEW d \in DocIds, server[d] # Absent
      PROVE  d \in UsedKeys
  <2>1. server[d] \in Document
    BY <1>1, <1>5 DEF StoreTypeOK, DocState
  <2>2. Genuine(added, d, server[d])
    BY <1>5 DEF Provenance, OnServer
  <2> QED BY GenuineDrawn, <2>1, <2>2
<1> QED BY <1>3, <1>4, <1>5

\* No step but the adding of a transaction puts a creation on the worker queue.
LEMMA WorkerOnceStep ==
    ASSUME IInv, [Next]_vars
    PROVE  \/ AddTransaction
           \/ /\ OnWorkerOnce => OnWorkerOnce'
              /\ \A d : ToBeFiled(d)' => ToBeFiled(d)
<1>1. CreationsStay => /\ OnWorkerOnce => OnWorkerOnce'
                       /\ \A d : ToBeFiled(d)' => ToBeFiled(d)
  BY DEF CreationsStay, OnWorkerOnce, ToBeFiled
<1>2. CASE UNCHANGED <<worker, fsUser>> \/ Crash
  BY <1>1, <1>2 DEF CreationsStay, Crash, Launched, StoreCrash
<1>3. CASE LooksUpOrChanges
  <2>1. PICK T : \E t \in Seq(T) : Adds(t)
    BY <1>3 DEF LooksUpOrChanges
  <2>2. PICK t \in Seq(T) : Adds(t)
    BY <2>1
  <2>3. worker \in Seq(Task(Len(heap)))
    BY DEF IInv, TypeOK, StoreTypeOK
  <2>4. CreationsStay
    BY <2>2, <2>3, ElementOfConcat DEF Adds, CreationsStay
  <2> QED BY <1>1, <2>4
<1>4. CASE RunAuthBlock \/ RunInitialBlock
  BY <1>1, <1>4, AuthMakesNoCreation
<1>5. CASE TakesTask
  <2>1. \A i \in DOMAIN worker' : i + 1 \in DOMAIN worker /\ worker'[i] = worker[i + 1] /\ i \in Nat
    BY <1>5 DEF IInv, TypeOK, StoreTypeOK, TakesTask
  <2>2. ASSUME OnWorkerOnce, NEW i \in DOMAIN worker', NEW j \in DOMAIN worker',
               IsCreation(worker'[i]), IsCreation(worker'[j]),
               worker'[i].mutation.key = worker'[j].mutation.key
        PROVE  i = j
    <3>1. i + 1 = j + 1
      BY <2>1, <2>2 DEF OnWorkerOnce
    <3> QED BY <2>1, <3>1
  <2>3. ASSUME NEW d, NEW i \in DOMAIN worker', IsCreation(worker'[i]), worker'[i].mutation.key = d
        PROVE  ToBeFiled(d)
    BY <2>1, <2>3 DEF ToBeFiled
  <2>4. OnWorkerOnce => OnWorkerOnce'
    BY <2>2 DEF OnWorkerOnce
  <2>5. \A d : ToBeFiled(d)' => ToBeFiled(d)
    BY <2>3 DEF ToBeFiled
  <2> QED BY <2>4, <2>5
<1> QED BY <1>2, <1>3, <1>4, <1>5, WorkerSteps

\* A creation is added with a key that was never drawn.
LEMMA AddedCreation ==
    ASSUME IInv, AddTransaction
    PROVE  \E d \in DocIds \ UsedKeys :
              /\ \A i \in DOMAIN worker' :
                    \/ i \in DOMAIN worker /\ worker'[i] = worker[i]
                    \/ /\ i = Len(worker) + 1 /\ worker'[i].mutation.key = d
                       /\ d \in UsedKeys'
              /\ \E x \in Ids : \E entry :
                    /\ added[x] = NotAdded /\ entry.key \in {d, NoKey}
                    /\ added' = [added EXCEPT ![x] = entry]
<1>1. PICK x \in Ids, d \in DocIds \ UsedKeys, c \in NewContents :
        /\ added[x] = NotAdded
        /\ addTransactions([id |-> x, content |-> c], authUser, d)
        /\ added' = [added EXCEPT ![x] =
                       [key |-> IF authUser = Nobody THEN NoKey ELSE d,
                        user |-> authUser]]
  BY DEF AddTransaction
<1> DEFINE task == WriteTask(Set(d, [id |-> x, user_id |-> authUser, content |-> Encode(c)]))
           entry == [key |-> IF authUser = Nobody THEN NoKey ELSE d, user |-> authUser]
<1>2. task.mutation.key = d /\ entry.key \in {d, NoKey}
  BY DEF WriteTask, Set
<1>3. \/ worker' = worker
      \/ worker' = Append(worker, task) /\ entry = [key |-> d, user |-> authUser]
  BY <1>1 DEF addTransactions
<1>9. \/ worker' = worker
      \/ worker' = Append(worker, task) /\ d \in UsedKeys'
  <2> SUFFICES ASSUME worker' # worker PROVE d \in UsedKeys'
    BY <1>3
  <2>1. entry = [key |-> d, user |-> authUser] /\ added' = [added EXCEPT ![x] = entry]
    BY <1>1, <1>3
  <2>2. added \in [Ids -> [key : DocIds \cup {NoKey}, user : Users \cup {Nobody}]
                          \cup {NotAdded}]
        /\ authUser \in Users \cup {Nobody}
    BY DEF IInv, TypeOK, SessionTypeOK
  <2> HIDE DEF entry
  <2>3. added'[x] = [key |-> d, user |-> authUser] /\ added'[x] # NotAdded
    BY <1>1, <2>1, <2>2, MarkerAssumption
  <2> QED BY <1>1, <2>3 DEF UsedKeys
<1> HIDE DEF task, entry
<1>4. worker \in Seq(Task(Len(heap)) \cup {task})
  BY SeqGrows DEF IInv, TypeOK, StoreTypeOK
<1> DEFINE R == Task(Len(heap)) \cup {task}
<1>5. task \in R
  OBVIOUS
<1> HIDE DEF R
<1>6. \A i \in DOMAIN worker' : \/ i \in DOMAIN worker /\ worker'[i] = worker[i]
                                \/ /\ i = Len(worker) + 1 /\ worker'[i] = task
                                   /\ worker' # worker
  BY <1>3, <1>4, <1>5 DEF R
<1>7. \A i \in DOMAIN worker' : \/ i \in DOMAIN worker /\ worker'[i] = worker[i]
                                \/ /\ i = Len(worker) + 1 /\ worker'[i].mutation.key = d
                                   /\ d \in UsedKeys'
  BY <1>2, <1>6, <1>9
<1>8. added' = [added EXCEPT ![x] = entry]
  BY <1>1 DEF entry
<1> QED BY <1>1, <1>2, <1>7, <1>8

\* So everything is on its way once still.
LEMMA AddTransactionOnce ==
    ASSUME IInv, Provenance, Once, AddTransaction
    PROVE  Once'
<1>1. PICK d \in DocIds \ UsedKeys :
              /\ \A i \in DOMAIN worker' :
                    \/ i \in DOMAIN worker /\ worker'[i] = worker[i]
                    \/ i = Len(worker) + 1 /\ worker'[i].mutation.key = d
              /\ \E x \in Ids : \E entry :
                    /\ added[x] = NotAdded /\ entry.key \in {d, NoKey}
                    /\ added' = [added EXCEPT ![x] = entry]
  BY AddedCreation
<1>2. PICK x \in Ids : \E entry :
                    /\ added[x] = NotAdded /\ entry.key \in {d, NoKey}
                    /\ added' = [added EXCEPT ![x] = entry]
  BY <1>1
<1>3. PICK entry : /\ added[x] = NotAdded /\ entry.key \in {d, NoKey}
                   /\ added' = [added EXCEPT ![x] = entry]
  BY <1>2
<1>4. /\ DOMAIN added = Ids /\ \A y \in Ids : added'[y] = IF y = x THEN entry ELSE added[y]
  BY <1>3 DEF IInv, TypeOK, SessionTypeOK
<1>5. UNCHANGED <<server, mutations, history>>
  BY DEF AddTransaction, addTransactions
<1>6. d \notin UsedKeys /\ DOMAIN worker = 1 .. Len(worker) /\ Len(worker) \in Nat
  BY <1>1 DEF IInv, TypeOK, StoreTypeOK
<1>7. /\ \A e : ToBeFiled(e) => e # d
      /\ \A e : SetPending(e) => e # d
      /\ \A e \in DocIds : server[e] # Absent => e # d
  BY <1>6, KeysDrawn
<1>8. \A e : ToBeFiled(e)' => ToBeFiled(e) \/ e = d
  BY <1>1 DEF ToBeFiled
<1>9. KeysOnce'
  <2> SUFFICES ASSUME NEW y \in Ids, NEW z \in Ids, added'[y] # NotAdded, added'[z] # NotAdded,
                      added'[y].key = added'[z].key, added'[y].key # NoKey
               PROVE  y = z
    BY DEF KeysOnce
  <2>1. \A w \in Ids : added[w] # NotAdded => added[w].key # d
    BY <1>6 DEF UsedKeys
  <2>2. CASE y # x /\ z # x
    BY <1>4, <2>2 DEF Once, KeysOnce
  <2>3. CASE y = x /\ z # x
    BY <1>3, <1>4, <2>1, <2>3
  <2>4. CASE y # x /\ z = x
    BY <1>3, <1>4, <2>1, <2>4
  <2> QED BY <2>2, <2>3, <2>4
<1>10. OnWorkerOnce'
  <2> SUFFICES ASSUME NEW i \in DOMAIN worker', NEW j \in DOMAIN worker',
                      IsCreation(worker'[i]), IsCreation(worker'[j]),
                      worker'[i].mutation.key = worker'[j].mutation.key
               PROVE  i = j
    BY DEF OnWorkerOnce
  <2>1. \A k \in DOMAIN worker : IsCreation(worker[k]) => worker[k].mutation.key # d
    BY <1>7 DEF ToBeFiled
  <2>2. CASE i \in DOMAIN worker /\ worker'[i] = worker[i]
             /\ j \in DOMAIN worker /\ worker'[j] = worker[j]
    BY <2>2 DEF Once, OnWorkerOnce
  <2> QED BY <1>1, <2>1, <2>2
<1>11. InQueuesOnce'
  BY <1>5 DEF Once, InQueuesOnce
<1>12. FiledOnce'
  <2> SUFFICES ASSUME NEW u \in Users \cup {Nobody}, NEW i \in DOMAIN mutations[u],
                      mutations[u][i].op = "set"
               PROVE  ~ToBeFiled(mutations[u][i].key)'
    BY <1>5 DEF FiledOnce, ToBeFiled
  <2> DEFINE e == mutations[u][i].key
  <2>1. SetPending(e) /\ ~ToBeFiled(e)
    BY DEF SetPending, Once, FiledOnce
  <2>2. e' = e
    BY <1>5
  <2> HIDE DEF e
  <2>3. ~(\E k \in DOMAIN worker' : IsCreation(worker'[k]) /\ worker'[k].mutation.key = e)
    BY <1>7, <1>8, <2>1 DEF ToBeFiled
  <2> QED BY <2>2, <2>3 DEF ToBeFiled, e
<1>13. CommittedOnce'
  BY <1>5, <1>7, <1>8 DEF Once, CommittedOnce
<1> QED BY <1>9, <1>10, <1>11, <1>12, <1>13 DEF Once

\* A write is filed behind those of the user the worker acts for.
LEMMA FiledLast ==
    ASSUME IInv, WriteMutations, NEW u \in Users \cup {Nobody}
    PROVE  /\ \A i \in DOMAIN mutations[u] :
                 i \in DOMAIN mutations'[u] /\ mutations'[u][i] = mutations[u][i]
           /\ \A i \in DOMAIN mutations'[u] :
                 \/ i \in DOMAIN mutations[u] /\ mutations'[u][i] = mutations[u][i]
                 \/ /\ u = fsUser /\ i = Len(mutations[u]) + 1
                    /\ mutations'[u][i] = Head(worker).mutation
<1> DEFINE m == Head(worker).mutation
<1>1. /\ fsUser \in Users \cup {Nobody} /\ m \in Mutation
      /\ mutations \in [Users \cup {Nobody} -> Seq(Mutation)]
  BY FiledWrite DEF IInv, TypeOK, StoreTypeOK
<1>2. mutations' = [mutations EXCEPT ![fsUser] = Append(@, m)]
  BY DEF WriteMutations
<1> HIDE DEF m
<1>3. mutations[u] \in Seq(Mutation)
  BY <1>1
<1>4. CASE u # fsUser
  BY <1>1, <1>2, <1>4
<1>5. CASE u = fsUser
  <2>1. mutations'[u] = Append(mutations[u], m)
    BY <1>1, <1>2, <1>5
  <2> QED BY <1>1, <1>3, <1>5, <2>1 DEF m
<1> QED BY <1>4, <1>5

\* A creation that is filed moves from the worker queue to a mutation queue.
LEMMA WriteMutationsOnce ==
    ASSUME IInv, Once, WriteMutations, added' = added
    PROVE  Once'
<1> DEFINE m == Head(worker).mutation
           Owners == Users \cup {Nobody}
<1>1. /\ UNCHANGED server
      /\ mutations' = [mutations EXCEPT ![fsUser] = Append(@, m)]
  BY DEF WriteMutations
<1>2. /\ fsUser \in Owners /\ m \in Mutation /\ mutations \in [Owners -> Seq(Mutation)]
  BY FiledWrite DEF IInv, TypeOK, StoreTypeOK
<1>3. /\ worker # << >> /\ worker[1] = Head(worker) /\ 1 \in DOMAIN worker
      /\ \A i \in DOMAIN worker' : i + 1 \in DOMAIN worker /\ worker'[i] = worker[i + 1]
                                   /\ i + 1 # 1 /\ i \in Nat
  BY DEF WriteMutations, IInv, TypeOK, StoreTypeOK
<1>4. m.op = "set" => IsCreation(worker[1])
  BY <1>3 DEF WriteMutations, IsCreation
<1>5. \A u \in Owners : \A i \in DOMAIN mutations'[u] :
         \/ i \in DOMAIN mutations[u] /\ mutations'[u][i] = mutations[u][i]
         \/ u = fsUser /\ i = Len(mutations[u]) + 1 /\ mutations'[u][i] = m
  BY FiledLast
<1>6. m.op = "set" => ToBeFiled(m.key)
  BY <1>3, <1>4 DEF ToBeFiled
<1>7. \A d : ToBeFiled(d)' => ToBeFiled(d)
  BY <1>3 DEF ToBeFiled
<1> DEFINE k == m.key
<1>8. m.key \in DocIds
  BY <1>2 DEF Mutation
<1>9. m.op = "set" => /\ server[m.key] = Absent
                       /\ \A u \in Owners : \A i \in DOMAIN mutations[u] :
                             mutations[u][i].op = "set" => mutations[u][i].key # m.key
  BY <1>6, <1>8 DEF Once, CommittedOnce, FiledOnce
<1>10. m.op = "set" => ~(\E i \in DOMAIN worker' : IsCreation(worker'[i]) /\ worker'[i].mutation.key = k)
  <2> SUFFICES ASSUME m.op = "set", NEW i \in DOMAIN worker', IsCreation(worker'[i]),
                      worker'[i].mutation.key = k
               PROVE  FALSE
    OBVIOUS
  <2>1. i + 1 = 1
    BY <1>3, <1>4 DEF Once, OnWorkerOnce
  <2> QED BY <1>3, <2>1
<1> HIDE DEF m
<1>11. InQueuesOnce'
  <2> SUFFICES ASSUME NEW u \in Owners, NEW v \in Owners,
                      NEW i \in DOMAIN mutations'[u], NEW j \in DOMAIN mutations'[v],
                      mutations'[u][i].op = "set", mutations'[v][j].op = "set",
                      mutations'[u][i].key = mutations'[v][j].key
               PROVE  u = v /\ i = j
    BY DEF InQueuesOnce
  <2>1. CASE i \in DOMAIN mutations[u] /\ mutations'[u][i] = mutations[u][i]
             /\ j \in DOMAIN mutations[v] /\ mutations'[v][j] = mutations[v][j]
    BY <2>1 DEF Once, InQueuesOnce
  <2> QED BY <1>5, <1>9, <2>1
<1>12. FiledOnce'
  <2> SUFFICES ASSUME NEW u \in Owners, NEW i \in DOMAIN mutations'[u],
                      mutations'[u][i].op = "set"
               PROVE  ~(\E j \in DOMAIN worker' : /\ IsCreation(worker'[j])
                                                  /\ worker'[j].mutation.key = mutations'[u][i].key)
    BY DEF FiledOnce, ToBeFiled
  <2>1. CASE i \in DOMAIN mutations[u] /\ mutations'[u][i] = mutations[u][i]
    <3>1. ~ToBeFiled(mutations[u][i].key)
      BY <2>1 DEF Once, FiledOnce
    <3> QED BY <1>3, <2>1, <3>1 DEF ToBeFiled
  <2>2. CASE mutations'[u][i] = m
    BY <1>10, <2>2
  <2> QED BY <1>5, <2>1, <2>2
<1>13. CommittedOnce'
  BY <1>1, <1>7 DEF Once, CommittedOnce
<1>14. KeysOnce'
  BY DEF Once, KeysOnce
<1>15. OnWorkerOnce'
  <2> SUFFICES ASSUME NEW i \in DOMAIN worker', NEW j \in DOMAIN worker',
                      IsCreation(worker'[i]), IsCreation(worker'[j]),
                      worker'[i].mutation.key = worker'[j].mutation.key
               PROVE  i = j
    BY DEF OnWorkerOnce
  <2>1. i + 1 = j + 1
    BY <1>3 DEF Once, OnWorkerOnce
  <2> QED BY <1>3, <2>1
<1> QED BY <1>11, <1>12, <1>13, <1>14, <1>15 DEF Once

\* Only creations make documents.
LEMMA CommittedDocuments ==
    ASSUME StoreTypeOK, Sending, NEW n \in Nat \ {0}, CommitWrites(n),
           NEW d \in DocIds, server'[d] # Absent
    PROVE  \/ server[d] # Absent
           \/ \E i \in DOMAIN mutations[fsUser] :
                 mutations[fsUser][i].op = "set" /\ mutations[fsUser][i].key = d
<1>1. /\ n <= Len(mutations[fsUser])
      /\ server'[d] = Written(Sent(n), server[d], d)
  BY CommitEffect
<1>2. /\ Sent(n) \in Seq(Mutation)
      /\ \A i \in DOMAIN Sent(n) : /\ i \in DOMAIN mutations[fsUser]
                                   /\ Sent(n)[i] = mutations[fsUser][i]
  BY <1>1, SentTypes
<1>3. server[d] \in DocState
  BY DEF StoreTypeOK
<1>4. server[d] # Absent \/ \E i \in DOMAIN Sent(n) : Sent(n)[i].op = "set" /\ Sent(n)[i].key = d
  BY <1>1, <1>2, <1>3, WrittenPresence
<1> QED BY <1>2, <1>4

\* Where the i-th write of u was before the first of the current user was dropped.
Was(u, i) == IF u = fsUser THEN i + 1 ELSE i

\* The queues after that.
LEMMA DropMoves ==
    ASSUME StoreTypeOK, Sending, DropNextWrite, NEW u \in Users \cup {Nobody}
    PROVE  /\ \A i \in DOMAIN mutations'[u] :
                 /\ i \in Nat \ {0} /\ Was(u, i) \in DOMAIN mutations[u]
                 /\ mutations'[u][i] = mutations[u][Was(u, i)]
           /\ \A j \in DOMAIN mutations[u] :
                 \/ u = fsUser /\ j = 1 /\ mutations[u][j] = NextWrite
                 \/ \E i \in DOMAIN mutations'[u] : Was(u, i) = j
<1> DEFINE q == mutations[u]
<1>1. q \in Seq(Mutation) /\ mutations \in [Users \cup {Nobody} -> Seq(Mutation)]
  BY DEF StoreTypeOK
<1>2. CASE u # fsUser
  <2>1. mutations'[u] = q
    BY <1>1, <1>2 DEF DropNextWrite
  <2>2. \A i : Was(u, i) = i
    BY <1>2 DEF Was
  <2> HIDE DEF q
  <2> QED BY <1>1, <2>1, <2>2 DEF q
<1>3. CASE u = fsUser
  <2>1. mutations'[u] = Tail(q) /\ q # << >> /\ NextWrite = Head(q)
    BY <1>1, <1>3 DEF DropNextWrite, Sending, NextWrite
  <2>2. \A i : Was(u, i) = i + 1
    BY <1>3 DEF Was
  <2> HIDE DEF q
  <2>3. /\ Len(q) \in Nat \ {0} /\ DOMAIN q = 1 .. Len(q) /\ Head(q) = q[1]
        /\ DOMAIN Tail(q) = 1 .. Len(q) - 1
        /\ \A i \in 1 .. Len(q) - 1 : Tail(q)[i] = q[i + 1]
    BY <1>1, <2>1
  <2>4. \A i \in DOMAIN Tail(q) : i \in Nat \ {0} /\ i + 1 \in DOMAIN q /\ Tail(q)[i] = q[i + 1]
    BY <2>3
  <2>5. \A j \in DOMAIN q : j = 1 \/ (j - 1 \in DOMAIN Tail(q) /\ (j - 1) + 1 = j)
    BY <2>3
  <2>6. \A j \in DOMAIN q : j = 1 \/ \E i \in DOMAIN Tail(q) : Was(u, i) = j
    BY <2>2, <2>5
  <2>7. \A j \in DOMAIN q : j = 1 => q[j] = NextWrite
    BY <2>1, <2>3
  <2> QED BY <1>3, <2>1, <2>2, <2>4, <2>6, <2>7 DEF q
<1> QED BY <1>2, <1>3

\* So what is on its way once still is.
LEMMA DropOnce ==
    ASSUME StoreTypeOK, InQueuesOnce, FiledOnce, Sending, DropNextWrite, worker' = worker
    PROVE  InQueuesOnce' /\ FiledOnce'
<1> DEFINE Owners == Users \cup {Nobody}
<1>1. \A u \in Owners : \A i \in DOMAIN mutations'[u] :
         /\ i \in Nat \ {0} /\ Was(u, i) \in DOMAIN mutations[u]
         /\ mutations'[u][i] = mutations[u][Was(u, i)]
  BY DropMoves
<1>2. /\ \A u \in Owners : \A i, j \in Nat \ {0} : Was(u, i) = Was(u, j) => i = j
      /\ \A u \in Owners : \A i \in Nat \ {0} : u # fsUser => Was(u, i) = i
  BY DEF Was
<1>3. InQueuesOnce'
  <2> SUFFICES ASSUME NEW u \in Owners, NEW v \in Owners,
                      NEW i \in DOMAIN mutations'[u], NEW j \in DOMAIN mutations'[v],
                      mutations'[u][i].op = "set", mutations'[v][j].op = "set",
                      mutations'[u][i].key = mutations'[v][j].key
               PROVE  u = v /\ i = j
    BY DEF InQueuesOnce
  <2>1. u = v /\ Was(u, i) = Was(v, j)
    BY <1>1 DEF InQueuesOnce
  <2> QED BY <1>1, <1>2, <2>1
<1>4. FiledOnce'
  <2> SUFFICES ASSUME NEW u \in Owners, NEW i \in DOMAIN mutations'[u],
                      mutations'[u][i].op = "set"
               PROVE  ~(\E j \in DOMAIN worker : /\ IsCreation(worker[j])
                                                 /\ worker[j].mutation.key = mutations'[u][i].key)
    BY DEF FiledOnce, ToBeFiled
  <2> QED BY <1>1 DEF FiledOnce, ToBeFiled
<1> QED BY <1>3, <1>4

\* Where no creation or document is made and no write is filed or dropped,
\* everything stays as it was.
LEMMA UndisturbedOnce ==
    ASSUME Once, OnWorkerOnce', \A d : ToBeFiled(d)' => ToBeFiled(d),
           UNCHANGED <<mutations, added>>,
           \A d \in DocIds : server'[d] # Absent => server[d] # Absent
    PROVE  Once'
<1>1. KeysOnce'
  BY DEF Once, KeysOnce
<1>2. InQueuesOnce'
  BY DEF Once, InQueuesOnce
<1>3. FiledOnce'
  <2> SUFFICES ASSUME NEW u \in Users \cup {Nobody}, NEW i \in DOMAIN mutations[u],
                      mutations[u][i].op = "set"
               PROVE  ~(\E j \in DOMAIN worker' : /\ IsCreation(worker'[j])
                                                  /\ worker'[j].mutation.key = mutations[u][i].key)
    BY DEF FiledOnce, ToBeFiled
  <2>1. ~ToBeFiled(mutations[u][i].key)
    BY DEF Once, FiledOnce
  <2> DEFINE e == mutations[u][i].key
  <2>2. \A d : (\E j \in DOMAIN worker' : IsCreation(worker'[j]) /\ worker'[j].mutation.key = d)
                   => ToBeFiled(d)
    BY DEF ToBeFiled
  <2> QED BY <2>1, <2>2
<1>4. CommittedOnce'
  BY DEF Once, CommittedOnce
<1> QED BY <1>1, <1>2, <1>3, <1>4 DEF Once

\* The worker queue and the record of what was added are left alone while the
\* server commits or refuses writes, and what it commits makes documents of
\* filed creations only.
LEMMA SendingOnce ==
    ASSUME IInv, Once, added' = added,
           ApplySuccessfulWrite \/ CommitWithoutResponse \/ RejectFailedWrite
    PROVE  Once'
<1>1. StoreTypeOK /\ Sending /\ worker' = worker
  BY DEF IInv, TypeOK, ApplySuccessfulWrite, CommitWithoutResponse, RejectFailedWrite
<1>2. KeysOnce' /\ OnWorkerOnce'
  BY <1>1 DEF Once, KeysOnce, OnWorkerOnce
<1>3. CommittedOnce'
  <2>1. ASSUME NEW n \in Nat \ {0}, CommitWrites(n), NEW d \in DocIds, server'[d] # Absent
        PROVE  ~ToBeFiled(d)
    <3>1. CASE server[d] # Absent
      BY <3>1 DEF Once, CommittedOnce
    <3>2. CASE \E i \in DOMAIN mutations[fsUser] :
                  mutations[fsUser][i].op = "set" /\ mutations[fsUser][i].key = d
      <4>1. fsUser \in Users \cup {Nobody}
        BY <1>1, SendingTypes
      <4> QED BY <3>2, <4>1 DEF Once, FiledOnce
    <3> QED BY <1>1, <2>1, <3>1, <3>2, CommittedDocuments
  <2>2. \A d \in DocIds : server'[d] # Absent => ~ToBeFiled(d)
    <3>1. CASE \E n \in Nat \ {0} : CommitWrites(n)
      BY <2>1, <3>1
    <3>2. CASE RejectFailedWrite
      BY <3>2 DEF RejectFailedWrite, Once, CommittedOnce
    <3>3. CASE ApplySuccessfulWrite
      <4>1. CommitWrites(1) /\ 1 \in Nat \ {0}
        BY <3>3 DEF ApplySuccessfulWrite
      <4> QED BY <3>1, <4>1
    <3> QED BY <3>1, <3>2, <3>3, SomeCommitted
  <2> QED BY <1>1, <2>2 DEF CommittedOnce, ToBeFiled
<1>4. InQueuesOnce' /\ FiledOnce'
  <2>1. CASE DropNextWrite
    <3>1. InQueuesOnce /\ FiledOnce
      BY DEF Once
    <3> QED BY <1>1, <2>1, <3>1, DropOnce
  <2>2. CASE mutations' = mutations
    BY <1>1, <2>2 DEF Once, InQueuesOnce, FiledOnce, ToBeFiled
  <2> QED BY <2>1, <2>2 DEF ApplySuccessfulWrite, CommitWithoutResponse, RejectFailedWrite
<1> QED BY <1>2, <1>3, <1>4 DEF Once

\* Another device makes no document.
LEMMA OtherDevicesOnce ==
    ASSUME IInv, Once, added' = added, OtherDevices
    PROVE  Once'
<1>1. StoreTypeOK
  BY DEF IInv, TypeOK
<1>2. UNCHANGED <<mutations, worker>>
  BY DEF OtherDevices, OtherDevice
<1>3. \A d \in DocIds : server'[d] # Absent => server[d] # Absent
  BY <1>1 DEF OtherDevices, OtherDevice, StoreTypeOK, Found
<1>4. OnWorkerOnce' /\ \A d : ToBeFiled(d)' => ToBeFiled(d)
  BY <1>2 DEF Once, OnWorkerOnce, ToBeFiled
<1> QED BY <1>2, <1>3, <1>4, UndisturbedOnce

\* A step keeps the inductive invariant.
LEMMA UniquenessStep == Uniqueness /\ [Next]_vars => Uniqueness'
<1> SUFFICES ASSUME Uniqueness, [Next]_vars PROVE Uniqueness'
  OBVIOUS
<1>1. IInv /\ Provenance /\ Once
  BY DEF Uniqueness, Provenance
<1>2. Provenance'
  BY <1>1, ProvenanceStep
<1>3. CASE AddTransaction
  BY <1>1, <1>2, <1>3, AddTransactionOnce DEF Uniqueness
<1>4. CASE added' = added /\ WriteMutations
  BY <1>1, <1>2, <1>4, WriteMutationsOnce DEF Uniqueness
<1>5. CASE added' = added /\ (ApplySuccessfulWrite \/ CommitWithoutResponse \/ RejectFailedWrite)
  BY <1>1, <1>2, <1>5, SendingOnce DEF Uniqueness
<1>6. CASE added' = added /\ OtherDevices
  BY <1>1, <1>2, <1>6, OtherDevicesOnce DEF Uniqueness
<1>7. CASE UNCHANGED <<server, mutations, history, added>> /\ ~AddTransaction
  <2>1. OnWorkerOnce' /\ \A d : ToBeFiled(d)' => ToBeFiled(d)
    BY <1>1, <1>7, WorkerOnceStep DEF Once
  <2>2. Once'
    BY <1>1, <1>7, <2>1, UndisturbedOnce
  <2> QED BY <1>2, <2>2 DEF Uniqueness
<1> QED BY <1>1, <1>3, <1>4, <1>5, <1>6, <1>7, StepsWithoutCreation, WritingSteps

\* It holds at first.
LEMMA UniquenessInit == Init => Uniqueness
<1> SUFFICES ASSUME Init PROVE Uniqueness
  OBVIOUS
<1>1. Provenance
  BY ProvenanceInit
<1>2. /\ server = [d \in DocIds |-> Absent] /\ worker = << >>
      /\ mutations = [u \in Users \cup {Nobody} |-> << >>]
      /\ added = [x \in Ids |-> NotAdded]
  BY DEF Init, StoreInit
<1>3. /\ \A u \in Users \cup {Nobody} : DOMAIN mutations[u] = {}
      /\ DOMAIN worker = {} /\ \A x \in Ids : added[x] = NotAdded
  BY <1>2
<1>4. KeysOnce /\ OnWorkerOnce /\ InQueuesOnce /\ FiledOnce
  BY <1>3 DEF KeysOnce, OnWorkerOnce, InQueuesOnce, FiledOnce
<1>5. CommittedOnce
  BY <1>2, <1>3 DEF CommittedOnce, ToBeFiled
<1> QED BY <1>1, <1>4, <1>5 DEF Uniqueness, Once

-----------------------------------------------------------------------------
\* What a device shows of a document.

\* A cached document is the one its transaction was added with.
InCache == \A d \in DocIds : cache[d] # Absent => Genuine(added, d, cache[d])

\* The user's pending writes over a genuine document give one.
LEMMA LocalDocumentGenuine ==
    ASSUME Provenance, NEW c, NEW u \in Users \cup {Nobody}, NEW d \in DocIds,
           GenuineOrNone(d, c[d])
    PROVE  GenuineOrNone(d, LocalDocument(c, u, d))
<1> DEFINE q == mutations[u]
<1>1. q \in Seq(Mutation)
  BY DEF Provenance, IInv, TypeOK, StoreTypeOK
<1>2. \A i \in DOMAIN q : q[i].op = "set" /\ q[i].key = d
                            => Genuine(added, d, q[i].document)
  BY DEF Provenance, InQueues
<1>3. LocalDocument(c, u, d) = Written(q, c[d], d)
  BY DEF LocalDocument
<1> HIDE DEF q
<1> QED BY <1>1, <1>2, <1>3, WrittenGenuine

\* The transactions of the documents docs were added, according to a, by u.
Owned(a, docs, u) == \A d \in Found(docs) : a[docs[d].id] # NotAdded /\ a[docs[d].id].user = u

\* A query by user finds what that user has added.
LEMMA ResultOwned ==
    ASSUME Provenance, fsUser # NoClient, NEW c, \A d \in DocIds : GenuineOrNone(d, c[d]),
           NEW u \in Users
    PROVE  Owned(added, Result(c, ByUser(u)), u)
<1> DEFINE docs == Result(c, ByUser(u))
<1> SUFFICES ASSUME NEW d \in Found(docs)
             PROVE  added[docs[d].id] # NotAdded /\ added[docs[d].id].user = u
  BY DEF Owned
<1> DEFINE doc == LocalDocument(c, fsUser, d)
<1>1. fsUser \in Users \cup {Nobody} /\ d \in DocIds
  BY DEF Provenance, IInv, TypeOK, StoreTypeOK, Found
<1>2. docs[d] = doc /\ Matches(ByUser(u), doc)
  BY <1>1 DEF Found, Result
<1>3. GenuineOrNone(d, doc)
  BY <1>1, LocalDocumentGenuine
<1> HIDE DEF doc, docs
<1>4. doc # Absent /\ doc.user_id = u
  BY <1>2 DEF Matches, ByUser
<1>5. added[doc.id] = [key |-> d, user |-> u]
  BY <1>3, <1>4 DEF GenuineOrNone, Genuine
<1>6. [key |-> d, user |-> u] \in [key : DocIds \cup {NoKey}, user : Users \cup {Nobody}]
  BY <1>1
<1>7. added[doc.id] # NotAdded
  BY <1>5, <1>6, MarkerAssumption
<1> QED BY <1>2, <1>5, <1>7

\* What is cached stays genuine.
LEMMA InCacheStep ==
    ASSUME Provenance, InCache, [Next]_vars
    PROVE  InCache'
<1>1. /\ cache \in [DocIds -> DocState] /\ server \in [DocIds -> DocState] /\ TypeOK
      /\ StoreTypeOK
  BY DEF Provenance, IInv, TypeOK, StoreTypeOK
<1>2. CASE UNCHANGED <<cache, added>>
  BY <1>2 DEF InCache
<1>3. CASE AddTransaction
  <2>1. PICK x \in Ids, d \in DocIds \ UsedKeys :
          /\ added[x] = NotAdded
          /\ added' = [added EXCEPT ![x] =
                       [key |-> IF authUser = Nobody THEN NoKey ELSE d,
                        user |-> authUser]]
    BY <1>3 DEF AddTransaction
  <2>2. cache' = cache
    BY <1>3 DEF AddTransaction
  <2>3. \A e \in DocIds : cache[e] # Absent => cache[e] \in Document
    BY <1>1 DEF DocState
  <2>4. \A e \in DocIds : cache[e] # Absent => Genuine(added', e, cache[e])
    BY <1>1, <2>1, <2>3, StaysGenuine DEF InCache
  <2> QED BY <2>2, <2>4 DEF InCache
<1>4. CASE added' = added /\ \E q \in Queries : RaiseFromServer(q)
  <2>1. \A d \in DocIds : cache'[d] \in {server[d], cache[d]}
    BY <1>4 DEF RaiseFromServer
  <2> QED BY <1>4, <2>1 DEF InCache, Provenance, OnServer
<1>5. CASE added' = added /\ ApplySuccessfulWrite
  <2> DEFINE m == NextWrite
  <2>1. /\ fsUser \in Users \cup {Nobody} /\ m \in Mutation /\ m.key \in DocIds
        /\ 1 \in DOMAIN mutations[fsUser] /\ m = mutations[fsUser][1]
    <3>1. /\ fsUser \in Users \cup {Nobody} /\ m \in Mutation /\ m.key \in DocIds
          /\ mutations[fsUser] \in Seq(Mutation)
      BY <1>1, <1>5, SendingTypes DEF ApplySuccessfulWrite, StoreTypeOK
    <3> QED BY <1>5, <3>1 DEF ApplySuccessfulWrite, Sending, NextWrite
  <2>2. cache' = [cache EXCEPT ![m.key] = ApplyTo(m, cache[m.key])]
    BY <1>5 DEF ApplySuccessfulWrite
  <2>3. m.op = "set" => Genuine(added, m.key, m.document)
    BY <2>1 DEF Provenance, InQueues
  <2> HIDE DEF m
  <2>4. GenuineOrNone(m.key, cache[m.key])
    BY <1>1, <2>1 DEF GenuineOrNone, InCache
  <2>5. GenuineOrNone(m.key, ApplyTo(m, cache[m.key]))
    BY <2>1, <2>3, <2>4, ApplyToGenuine
  <2>6. \A d \in DocIds : cache'[d] # Absent => Genuine(added, d, cache'[d])
    BY <1>1, <2>2, <2>5 DEF GenuineOrNone, InCache
  <2> QED BY <1>5, <2>6 DEF InCache
<1>6. \/ UNCHANGED <<cache, added>> \/ AddTransaction
      \/ added' = added /\ \E q \in Queries : RaiseFromServer(q)
      \/ added' = added /\ ApplySuccessfulWrite
  <2>1. CASE UserStep
    BY <2>1 DEF UserStep, SendSignIn, SignOut, ReturnFromSignUp, OpenTable, SaveEdit,
                DeleteTransaction, storeVars
  <2>2. CASE MainStep
    BY <2>2 DEF MainStep, RunAuthBlock, RunInitialBlock, RunLoadCallback, RunRemoveCallback,
                RunUpdateCallback, RunErrorCallback
  <2>3. CASE AuthStep \/ Crash
    BY <2>3 DEF AuthStep, LoadKeychain, RefreshToken, SignOutByForce, SignInAnswered,
                SignInRefused, storeVars, Crash, Launched, StoreCrash
  <2>4. CASE Frame /\ StoreStep({Encode(c) : c \in NewContents})
    BY <2>4 DEF Frame, StoreStep, UserDidChange, WriteMutations, AddListener, RaiseFromCache,
                RejectListen, CommitWithoutResponse, RejectFailedWrite, GoOffline, GoOnline,
                OtherDevice
  <2>5. CASE UNCHANGED vars
    BY <2>5 DEF vars
  <2> QED BY <2>1, <2>2, <2>3, <2>4, <2>5 DEF Next
<1> QED BY <1>2, <1>3, <1>4, <1>5, <1>6

-----------------------------------------------------------------------------
\* The loads under way.

\* Their answers have the transactions of u.
AnswersOf(u) ==
    \A i \in DOMAIN main : main[i].kind = "snapshot" /\ main[i].callback.kind = "load"
        => Owned(added, main[i].docs, u)

LoadsFor(u) == LoadsIn({ByUser(u)}) /\ AnswersOf(u)

\* No step takes back what was added.
LEMMA AddedStays ==
    ASSUME IInv, [Next]_vars
    PROVE  \A x \in Ids : added[x] # NotAdded => added'[x] = added[x]
<1>1. CASE AddTransaction
  <2>1. PICK x \in Ids : added[x] = NotAdded /\ \E e : added' = [added EXCEPT ![x] = e]
    BY <1>1 DEF AddTransaction
  <2> QED BY <2>1 DEF IInv, TypeOK, SessionTypeOK
<1> QED BY <1>1, StepsWithoutCreation

\* So the documents of an answer stay those of one user.
LEMMA StaysOwned ==
    ASSUME IInv, [Next]_vars, NEW docs \in [DocIds -> DocState], NEW u, Owned(added, docs, u)
    PROVE  Owned(added', docs, u)
<1>1. \A d \in Found(docs) : docs[d].id \in Ids
  BY DEF Found, DocState, Document
<1>2. \A x \in Ids : added[x] # NotAdded => added'[x] = added[x]
  BY AddedStays
<1> QED BY <1>1, <1>2 DEF Owned

\* A block of the main queue is no answer, or was there before, s places behind,
\* or is the answer to a registered listener.
Kept(i, s) == i + s \in DOMAIN main /\ main'[i] = main[i + s]
Answers(i, q) ==
    /\ RaiseFromServer(q) \/ RaiseFromCache(q)
    /\ i - Len(main) \in DOMAIN listeners[q]
    /\ main'[i] = SnapshotBlock(listeners[q][i - Len(main)], Result(cache', q))

\* Whichever it is, all the blocks that were there before have moved alike.
LEMMA AnswerPositions ==
    ASSUME IInv, [Next]_vars
    PROVE  \E s \in {0, 1} : \A i \in DOMAIN main' :
              \/ main'[i].kind # "snapshot"
              \/ Kept(i, s)
              \/ \E q \in Queries : Answers(i, q)
<1> DEFINE S == Block(Len(heap), Len(observers))
<1>1. main \in Seq(S) /\ listeners \in [Queries -> Seq(Callback(Len(heap)))]
      /\ DOMAIN main = 1 .. Len(main) /\ Len(main) \in Nat
  BY DEF IInv, TypeOK, StoreTypeOK
<1> HIDE DEF S
<1> DEFINE Placed(s) == \A i \in DOMAIN main' : \/ main'[i].kind # "snapshot"
                                               \/ Kept(i, s)
                                               \/ \E q \in Queries : Answers(i, q)
<1> SUFFICES Placed(0) \/ Placed(1)
  OBVIOUS
<1>2. CASE main # << >> /\ main' = Tail(main)
  <2>1. \A i \in DOMAIN main' : Kept(i, 1)
    BY <1>1, <1>2 DEF Kept
  <2> QED BY <2>1
<1>3. ASSUME NEW b, b.kind # "snapshot", main' = Append(main, b)
      PROVE  Placed(0)
  <2>1. \A i \in DOMAIN main' : main'[i] = b \/ Kept(i, 0)
    BY <1>1, <1>3 DEF Kept
  <2> QED BY <1>3, <2>1
<1>4. CASE SignOut
  <2>0. \A i : InitialBlock(i).kind # "snapshot" /\ AuthBlock(i).kind # "snapshot"
    BY DEF InitialBlock, AuthBlock
  <2> DEFINE before == IF authUser = Nobody THEN main ELSE Append(main, AuthBlock(Nobody))
  <2>1. PICK b : main' = Append(before, b) /\ b.kind # "snapshot"
    BY <1>4, <2>0 DEF SignOut, checkLoggedIn
  <2>2. PICK a : before \in {main, Append(main, a)} /\ a.kind # "snapshot"
    BY <2>0
  <2> HIDE DEF before
  <2>3. before \in Seq(S \cup {a})
    <3>1. main \in Seq(S \cup {a})
      BY <1>1, SeqGrows
    <3> QED BY <2>2, <3>1
  <2>4. \A i \in DOMAIN before : before[i] = a \/ (i \in DOMAIN main /\ before[i] = main[i])
    BY <1>1, <2>2
  <2>5. \A i \in DOMAIN main' : main'[i] = b \/ (i \in DOMAIN before /\ main'[i] = before[i])
    BY <2>1, <2>3
  <2>6. \A i \in DOMAIN main' : main'[i].kind # "snapshot" \/ Kept(i, 0)
    BY <1>1, <2>1, <2>2, <2>4, <2>5 DEF Kept
  <2> QED BY <2>6
<1>5. CASE ReturnFromSignUp \/ LoadKeychain \/ (\E u \in Users : SignInAnswered(u)) \/ RefreshToken
           \/ SignOutByForce
  <2>0. \A i : InitialBlock(i).kind # "snapshot" /\ AuthBlock(i).kind # "snapshot"
    BY DEF InitialBlock, AuthBlock
  <2>1. \E b : main' = Append(main, b) /\ b.kind # "snapshot"
    BY <1>5, <2>0 DEF ReturnFromSignUp, LoadKeychain, SignInAnswered, RefreshToken, SignOutByForce,
                      checkLoggedIn
  <2> QED BY <1>3, <2>1
<1>6. CASE Crash
  <2>1. main' = <<InitialBlock(1)>>
    BY <1>6 DEF Crash, Launched
  <2> QED BY <2>1 DEF InitialBlock
<1>7. ASSUME NEW q \in Queries, RaiseFromServer(q) \/ RaiseFromCache(q)
      PROVE  Placed(0)
  <2> DEFINE n == Len(listeners[q])
  <2>1. n \in Nat /\ DOMAIN listeners[q] = 1 .. n
    BY <1>1
  <2>2. PICK docs : docs = Result(cache', q)
    OBVIOUS
  <2> DEFINE block(i) == SnapshotBlock(listeners[q][i], docs)
             T == {block(i) : i \in 1 .. n}
             t == [i \in 1 .. n |-> block(i)]
  <2>3. main' = main \o t
    <3>1. CASE RaiseFromServer(q)
      BY <2>2, <3>1 DEF RaiseFromServer, Raise
    <3>2. CASE RaiseFromCache(q)
      BY <2>2, <3>2 DEF RaiseFromCache, Raise
    <3> QED BY <1>7, <3>1, <3>2
  <2>4. DOMAIN t = 1 .. n /\ \A k \in 1 .. n : t[k] = SnapshotBlock(listeners[q][k], docs)
    OBVIOUS
  <2> HIDE DEF block, n
  <2>5. t \in Seq(T)
    BY <2>1
  <2> HIDE DEF t, T
  <2>6. ASSUME NEW i \in DOMAIN main'
        PROVE  \/ i \in DOMAIN main /\ main'[i] = main[i]
               \/ /\ i - Len(main) \in 1 .. n
                  /\ main'[i] = SnapshotBlock(listeners[q][i - Len(main)], docs)
    <3>1. i \in DOMAIN (main \o t)
      BY <2>3
    <3>2. \/ i \in DOMAIN main /\ (main \o t)[i] = main[i]
          \/ i - Len(main) \in DOMAIN t /\ (main \o t)[i] = t[i - Len(main)]
      BY <1>1, <2>5, <3>1, PlaceInConcat
    <3> QED BY <2>3, <2>4, <3>2
  <2>7. ASSUME NEW i \in DOMAIN main'
        PROVE  Kept(i, 0) \/ Answers(i, q)
    <3>1. i \in DOMAIN main => i + 0 = i
      BY <1>1
    <3> QED BY <1>7, <2>1, <2>2, <2>6, <3>1 DEF Kept, Answers
  <2> QED BY <2>7
<1>8. ASSUME NEW q \in Queries, RejectListen(q)
      PROVE  Placed(0)
  <2> DEFINE n == Len(listeners[q])
             block(i) == ErrorBlock(listeners[q][i])
             T == {block(i) : i \in 1 .. n}
             t == [i \in 1 .. n |-> block(i)]
  <2>1. n \in Nat /\ \A i \in 1 .. n : block(i).kind # "snapshot"
    BY <1>1 DEF ErrorBlock
  <2>2. main' = main \o t
    BY <1>8 DEF RejectListen, Raise
  <2> HIDE DEF block, n
  <2>3. t \in Seq(T) /\ \A k \in DOMAIN t : t[k].kind # "snapshot"
    BY <2>1
  <2> HIDE DEF t, T
  <2>4. ASSUME NEW i \in DOMAIN main'
        PROVE  main'[i].kind # "snapshot" \/ Kept(i, 0)
    <3>1. i \in DOMAIN (main \o t)
      BY <2>2
    <3>2. main'[i].kind # "snapshot" \/ (i \in DOMAIN main /\ main'[i] = main[i])
      BY <1>1, <2>2, <2>3, <3>1, ElementOfConcat
    <3> QED BY <1>1, <3>2 DEF Kept
  <2> QED BY <2>4
<1>9. CASE main' = main
  <2>1. \A i \in DOMAIN main' : Kept(i, 0)
    BY <1>1, <1>9 DEF Kept
  <2> QED BY <2>1
<1>10. \/ main' = main \/ (main # << >> /\ main' = Tail(main))
       \/ SignOut \/ ReturnFromSignUp \/ LoadKeychain \/ (\E u \in Users : SignInAnswered(u))
       \/ RefreshToken \/ SignOutByForce \/ Crash
       \/ \E q \in Queries : RaiseFromServer(q) \/ RaiseFromCache(q) \/ RejectListen(q)
  <2>1. CASE UserStep
    BY <2>1 DEF UserStep, SendSignIn, OpenTable, AddTransaction, SaveEdit, DeleteTransaction,
                storeVars
  <2>2. CASE MainStep
    BY <2>2 DEF MainStep, RunAuthBlock, RunInitialBlock, RunLoadCallback, RunRemoveCallback,
                RunUpdateCallback, RunErrorCallback, Answered
  <2>5. CASE AuthStep
    BY <2>5 DEF AuthStep, SignInRefused, storeVars
  <2>3. CASE Frame /\ StoreStep({Encode(c) : c \in NewContents})
    BY <2>3 DEF StoreStep, UserDidChange, WriteMutations, AddListener, ApplySuccessfulWrite,
                CommitWithoutResponse, RejectFailedWrite, GoOffline, GoOnline, OtherDevice
  <2>4. CASE UNCHANGED vars
    BY <2>4 DEF vars
  <2> QED BY <2>1, <2>2, <2>3, <2>4, <2>5 DEF Next
<1> QED BY <1>2, <1>4, <1>5, <1>6, <1>7, <1>8, <1>9, <1>10

\* So it is no answer, or was there before, or is the answer to a registered
\* listener.
LEMMA AnswerSteps ==
    ASSUME IInv, [Next]_vars
    PROVE  \A i \in DOMAIN main' :
              \/ main'[i].kind # "snapshot"
              \/ \E j \in DOMAIN main : main'[i] = main[j]
              \/ \E q \in Queries : /\ RaiseFromServer(q) \/ RaiseFromCache(q)
                                    /\ \E k \in DOMAIN listeners[q] : main'[i] =
                                          SnapshotBlock(listeners[q][k], Result(cache', q))
BY AnswerPositions DEF Kept, Answers

\* The answers to loads of u have u's transactions.
LEMMA AnswersStep ==
    ASSUME Provenance, InCache, [Next]_vars, NEW u \in Users, LoadsFor(u)
    PROVE  AnswersOf(u)'
<1>1. IInv /\ main \in Seq(Block(Len(heap), Len(observers)))
  BY DEF Provenance, IInv, TypeOK, StoreTypeOK
<1> SUFFICES ASSUME NEW i \in DOMAIN main', main'[i].kind = "snapshot",
                    main'[i].callback.kind = "load"
             PROVE  Owned(added', main'[i].docs, u)
  BY DEF AnswersOf
<1>2. ASSUME NEW j \in DOMAIN main, main'[i] = main[j]
      PROVE  Owned(added', main'[i].docs, u)
  <2> DEFINE docs == main[j].docs
  <2>1. main[j] \in Block(Len(heap), Len(observers)) /\ main[j].kind = "snapshot"
    BY <1>1, <1>2
  <2>2. docs \in [DocIds -> DocState]
    BY <2>1 DEF Block
  <2>3. Owned(added, docs, u)
    BY <1>2, <2>1 DEF LoadsFor, AnswersOf
  <2> HIDE DEF docs
  <2>4. Owned(added', docs, u)
    BY <1>1, <2>2, <2>3, StaysOwned
  <2> QED BY <1>2, <2>4 DEF docs
<1>3. ASSUME NEW q \in Queries, RaiseFromServer(q) \/ RaiseFromCache(q),
             NEW k \in DOMAIN listeners[q],
             main'[i] = SnapshotBlock(listeners[q][k], Result(cache', q))
      PROVE  Owned(added', main'[i].docs, u)
  <2>1. main'[i].docs = Result(cache', q) /\ listeners[q][k].kind = "load"
    BY <1>3 DEF SnapshotBlock
  <2>2. q = ByUser(u)
    BY <2>1 DEF LoadsFor, LoadsIn
  <2>3. IInv' /\ InCache'
    BY <1>1, Invariance, InCacheStep
  <2>4. \A d \in DocIds : cache'[d] \in DocState /\ (cache'[d] # Absent => Genuine(added', d, cache'[d]))
    BY <2>3 DEF IInv, TypeOK, StoreTypeOK, InCache
  <2>5. fsUser # NoClient /\ added' = added
    <3>1. listeners[q] # << >>
      BY <1>3 DEF RaiseFromServer, RaiseFromCache, Raise
    <3>2. fsUser # NoClient
      BY <1>1, <3>1 DEF IInv, ClientReady
    <3> QED BY <3>2, <1>1, <1>3, StepsWithoutCreation DEF AddTransaction, RaiseFromServer, RaiseFromCache, Raise
  <2>6. PICK c : c = cache'
    OBVIOUS
  <2>7. \A d \in DocIds : GenuineOrNone(d, c[d])
    BY <2>4, <2>5, <2>6 DEF GenuineOrNone
  <2>8. Owned(added, Result(c, ByUser(u)), u)
    BY <2>5, <2>7, ResultOwned
  <2> QED BY <2>1, <2>2, <2>5, <2>6, <2>8
<1> QED BY <1>1, <1>2, <1>3, AnswerSteps

-----------------------------------------------------------------------------
\* The loads of the users who wait.

\* A load under way is the signed-in user's, or the one's whom Auth has signed
\* out.
LoadsOwned == Patient => \A u \in Users : u \in {keychain, ousted} => LoadsFor(u)

\* No load is under way when a sign-in is answered.
LEMMA SignInLoadsNothing ==
    ASSUME IInv, \A c \in Awaited : c.kind # "load", NEW v \in Users, SignInAnswered(v),
           NEW u \in Users
    PROVE  LoadsFor(u)'
<1>1. main' = Append(main, AuthBlock(v)) /\ UNCHANGED <<worker, listeners>>
  BY DEF SignInAnswered
<1>2. \A i \in DOMAIN worker : ~IsLoad(worker[i])
  BY DEF Awaited, OnWorkerQueue, IsLoad
<1>3. \A q \in Queries : \A i \in DOMAIN listeners[q] : listeners[q][i].kind # "load"
  BY DEF Awaited, Registered
<1>4. \A i \in DOMAIN main' : ~(main'[i].kind = "snapshot" /\ main'[i].callback.kind = "load")
  <2>1. AuthBlock(v).kind # "snapshot"
    BY DEF AuthBlock
  <2>2. \A i \in DOMAIN main' : main'[i] = AuthBlock(v) \/ (i \in DOMAIN main /\ main'[i] = main[i])
    BY <1>1 DEF IInv, TypeOK, StoreTypeOK
  <2>3. \A i \in DOMAIN main : ~(main[i].kind = "snapshot" /\ main[i].callback.kind = "load")
    BY DEF Awaited, OnMainQueue
  <2> QED BY <2>1, <2>2, <2>3
<1> QED BY <1>1, <1>2, <1>3, <1>4 DEF LoadsFor, LoadsIn, AnswersOf, IsLoad

\* A step keeps the loads under way what they are.
LEMMA LoadsOwnedStep ==
    ASSUME Provenance, InCache, OustedGone, Waiting, LoadsOwned, [Next]_vars
    PROVE  LoadsOwned'
<1>1. IInv /\ SessionTypeOK /\ HurryBounded
  BY DEF Provenance, IInv, TypeOK, Waiting
<1>3. ASSUME Patient', NEW u \in Users, u \in {keychain', ousted'}
      PROVE  LoadsFor(u)'
  <2>1. CASE u \in {keychain, ousted}
    <3>1. LoadsFor(u)
      BY <1>1, <1>3, <2>1, Patience DEF LoadsOwned
    <3>2. authUser # Nobody => ByUser(authUser) \in {ByUser(u)}
      BY <1>1, <2>1, UsersAssumption DEF SessionTypeOK, OustedGone
    <3>3. LoadsIn({ByUser(u)})'
      BY <1>1, <3>1, <3>2, LoadsInStep DEF LoadsFor
    <3>4. AnswersOf(u)'
      BY <3>1, AnswersStep
    <3> QED BY <3>3, <3>4 DEF LoadsFor
  <2>2. CASE u \notin {keychain, ousted}
    <3>1. PICK v \in Users : SignInAnswered(v)
      <4>1. UNCHANGED <<keychain, ousted>> => FALSE
        BY <1>3, <2>2
      <4>2. ~LoadKeychain /\ ~RefreshToken /\ ~RunAuthBlock /\ ~RunInitialBlock /\ ~OpenTable
        BY <4>1 DEF LoadKeychain, RefreshToken, RunAuthBlock, RunInitialBlock, OpenTable,
                    sessionVars
      <4>3. ~SignOutByForce /\ ~SignOut /\ ~Crash
        BY <1>1, <1>3, <2>2, UsersAssumption
           DEF SignOutByForce, SignOut, Crash, Launched, SessionTypeOK
      <4> QED BY <1>1, <4>1, <4>2, <4>3, SessionSteps DEF IInv
    <3>2. Patient /\ SigningIn
      BY <1>1, <1>3, <3>1, Patience DEF SignInAnswered, SigningIn
    <3>3. \A c \in Awaited : c.kind # "load"
      BY <3>2 DEF Waiting, Waits
    <3> QED BY <1>1, <3>1, <3>3, SignInLoadsNothing
  <2> QED BY <2>1, <2>2
<1> QED BY <1>3 DEF LoadsOwned

-----------------------------------------------------------------------------
\* What is shown is the user's own.

\* The transaction x was added by the signed-in user; or, if Auth has signed
\* the user out, by that one or for nobody.
Own(x) ==
    /\ added[x] # NotAdded
    /\ IF authUser # Nobody THEN added[x].user = authUser
       ELSE added[x].user \in {ousted, Nobody}

Shown == {heap[transactions[i]].id : i \in DOMAIN transactions}
OwnShown == Patient /\ OnTabs => \A x \in Shown : Own(x)

\* The inductive invariant.
Belonging ==
    Filing /\ Provenance /\ InCache /\ LoadsOwned /\ OwnShown

\* What the manager holds has an id.
LEMMA ShownTypes ==
    ASSUME ManagerTypeOK
    PROVE  /\ transactions \in Seq(1 .. Len(heap)) /\ heap \in Seq(Transaction)
           /\ \A i \in DOMAIN transactions : /\ transactions[i] \in 1 .. Len(heap)
                                             /\ heap[transactions[i]].id \in Ids
<1>1. transactions \in Seq(1 .. Len(heap)) /\ heap \in Seq(Transaction)
  BY DEF ManagerTypeOK
<1>2. \A i \in DOMAIN transactions : transactions[i] \in 1 .. Len(heap)
  BY <1>1
<1>3. \A r \in 1 .. Len(heap) : heap[r] \in Transaction
  BY <1>1
<1>4. \A t \in Transaction : t.id \in Ids
  BY DEF Transaction
<1> QED BY <1>1, <1>2, <1>3, <1>4

\* An edit shows no other transaction, whatever entry it replaces.
LEMMA EditShows ==
    ASSUME IInv, SaveEdit
    PROVE  Shown' \subseteq Shown
<1>1. PICK row \in DOMAIN list :
        \E c \in EditedContents(heap[list[row]].content) :
           updatetransaction(list[row], c)
  BY DEF SaveEdit
<1> DEFINE r == list[row]
           found == PositionsOf(transactions, heap[r].id)
<1>2. PICK c : updatetransaction(r, c)
  BY <1>1
<1>3. r \in 1 .. Len(heap) /\ heap[r] \in Transaction
  BY RowTypes DEF SaveEdit
<1>4. /\ transactions \in Seq(1 .. Len(heap)) /\ heap \in Seq(Transaction)
      /\ \A i \in DOMAIN transactions : transactions[i] \in 1 .. Len(heap)
  BY ShownTypes DEF IInv, TypeOK
<1> HIDE DEF r
<1>5. \A s \in 1 .. Len(heap) : heap'[s].id = heap[s].id
  <2>1. heap' = [heap EXCEPT ![r] = [heap[r] EXCEPT !.content = c]]
    BY <1>2 DEF updatetransaction
  <2> DEFINE object == [heap[r] EXCEPT !.content = c]
  <2>2. object.id = heap[r].id
    BY <1>3 DEF Transaction
  <2> HIDE DEF object
  <2>3. \A s \in 1 .. Len(heap) : heap'[s] = IF s = r THEN object ELSE heap[s]
    BY <1>4, <2>1 DEF object
  <2> QED BY <2>2, <2>3
<1>6. CASE found = {}
  <2>1. transactions' = transactions
    BY <1>2, <1>6 DEF updatetransaction
  <2> QED BY <1>4, <1>5, <2>1 DEF Shown
<1>7. CASE found # {}
  <2> DEFINE first == Ascending(found)[1]
  <2>1. transactions' = [transactions EXCEPT ![first] = r]
    BY <1>2, <1>7 DEF updatetransaction
  <2>2. heap[r].id \in Shown
    BY <1>7 DEF PositionsOf, Shown
  <2> HIDE DEF first, found
  <2>3. \A i \in DOMAIN transactions' : /\ i \in DOMAIN transactions
                                        /\ transactions'[i] \in {r, transactions[i]}
    BY <1>4, <2>1
  <2>4. \A i \in DOMAIN transactions' : heap'[transactions'[i]].id \in Shown
    BY <1>3, <1>4, <1>5, <2>2, <2>3 DEF Shown
  <2> QED BY <2>4 DEF Shown
<1> QED BY <1>6, <1>7

\* A deletion takes away.
LEMMA DeletionShows ==
    ASSUME IInv, DeleteTransaction
    PROVE  Shown' \subseteq Shown
<1>1. PICK x : /\ heap' = heap
               /\ transactions' = Subsequence(transactions,
                                    DOMAIN transactions \ PositionsOf(transactions, x))
  BY DEF DeleteTransaction, removeTransaction
<1> DEFINE S == {transactions[i] : i \in DOMAIN transactions}
           K == DOMAIN transactions \ PositionsOf(transactions, x)
<1>2. transactions \in Seq(S) /\ K \in SUBSET DOMAIN transactions
  <2>1. transactions \in Seq(1 .. Len(heap))
    BY DEF IInv, TypeOK, ManagerTypeOK
  <2> QED BY <2>1
<1>3. Subsequence(transactions, K) \in Seq(S)
  <2> HIDE DEF S, K
  <2> QED BY <1>2, SubsequenceType
<1>4. \A i \in DOMAIN transactions' : transactions'[i] \in S
  <2> HIDE DEF S
  <2> QED BY <1>1, <1>3
<1> QED BY <1>1, <1>4 DEF Shown

\* Only additions and loads show more.
LEMMA ShownSteps ==
    ASSUME IInv, [Next]_vars
    PROVE  AddTransaction \/ RunLoadCallback \/ Shown' \subseteq Shown
<1>1. UNCHANGED <<heap, transactions>> => Shown' = Shown
  BY DEF Shown
<1>2. CASE UserStep
  BY <1>1, <1>2, EditShows, DeletionShows
     DEF UserStep, SendSignIn, SignOut, ReturnFromSignUp, OpenTable, managerVars
<1>3. CASE MainStep
  BY <1>1, <1>3 DEF MainStep, RunAuthBlock, RunInitialBlock, RunRemoveCallback, deleteFound,
                    RunUpdateCallback, updateFound, RunErrorCallback, managerVars
<1>4. CASE AuthStep
  BY <1>1, <1>4 DEF AuthStep, LoadKeychain, RefreshToken, SignOutByForce, SignInAnswered,
                SignInRefused, storeVars, managerVars
<1>5. CASE Crash
  <2>1. transactions' = << >>
    BY <1>5 DEF Crash, Launched
  <2> QED BY <2>1 DEF Shown
<1>6. CASE Frame
  BY <1>1, <1>6 DEF Frame, managerVars
<1>7. CASE UNCHANGED vars
  BY <1>1, <1>7 DEF vars
<1> QED BY <1>2, <1>3, <1>4, <1>5, <1>6, <1>7 DEF Next

\* While the tabs are shown, no one who waits becomes another user.
LEMMA OwnersStay ==
    ASSUME Filing, Patient, [Next]_vars, OnTabs', ~RunLoadCallback
    PROVE  OnTabs /\ (UNCHANGED <<authUser, ousted>> \/ SignOutByForce)
<1>1. IInv /\ SessionTypeOK /\ OustedGone /\ TabsAreSignedIn
  BY DEF Filing, Waiting, Presence, IInv, TypeOK
<1>2. depth \in Nat \ {0} /\ (OnTabs => (depth + 1) % 2 = 1)
  BY <1>1, Depths
<1>3. ~SignOut
  BY <1>2 DEF SignOut, OnTabs
<1>4. ~Crash
  BY DEF Crash, Launched, OnTabs
<1>5. depth' = depth
  BY <1>1, <1>3, <1>4, Presentations
<1>6. OnTabs
  BY <1>5 DEF OnTabs
<1>7. \A u \in Users : ~SignInAnswered(u)
  BY <1>6 DEF Filing, Waiting, Waits, SigningIn, SignInAnswered, OnTabs, OnLogin
<1>8. ~LoadKeychain
  BY <1>1, <1>6 DEF LoadKeychain, TabsAreSignedIn, OustedGone, SessionTypeOK
<1>9. RefreshToken \/ RunAuthBlock \/ RunInitialBlock \/ OpenTable
        => UNCHANGED <<authUser, ousted>>
  BY DEF RefreshToken, RunAuthBlock, RunInitialBlock, OpenTable, sessionVars
<1> QED BY <1>1, <1>3, <1>4, <1>6, <1>7, <1>8, <1>9, SessionSteps DEF IInv

\* A load shows one entry for each document of its answer, in key order.
LEMMA LoadedEntries ==
    ASSUME IInv, RunLoadCallback, NEW docs, docs = Head(main).docs
    PROVE  /\ docs \in [DocIds -> DocState]
           /\ DOMAIN transactions' = 1 .. Cardinality(Found(docs))
           /\ \A i \in 1 .. Cardinality(Found(docs)) :
                 /\ Ascending(Found(docs))[i] \in Found(docs)
                 /\ heap'[transactions'[i]].id = docs[Ascending(Found(docs))[i]].id
<1> DEFINE keys == Ascending(Found(docs))
           n == Cardinality(Found(docs))
           object(i) == [id |-> docs[keys[i]].id,
                         content |-> Decode(docs[keys[i]].content)]
           S == {object(i) : i \in 1 .. n}
           loaded == [i \in 1 .. n |-> object(i)]
<1>1. docs \in [DocIds -> DocState]
  BY AnsweredTypes DEF RunLoadCallback
<1>2. /\ heap' = heap \o loaded
      /\ transactions' = [i \in 1 .. n |-> Len(heap) + i]
  BY DEF RunLoadCallback, setLoadedTransactions
<1>3. n \in Nat /\ \A i \in 1 .. n : keys[i] \in Found(docs) /\ object(i).id = docs[keys[i]].id
  <2>1. n \in Nat /\ \A i \in 1 .. n : keys[i] \in DocIds /\ docs[keys[i]] \in Document
    BY <1>1, FoundProperties
  <2> QED BY <2>1, MarkerAssumption DEF Found
<1> HIDE DEF object, n, keys
<1>4. loaded \in Seq(S) /\ Len(loaded) = n /\ \A i \in 1 .. n : loaded[i] = object(i)
  BY <1>3
<1> HIDE DEF loaded, S
<1>5. heap \in Seq(Transaction \cup S) /\ loaded \in Seq(Transaction \cup S) /\ Len(heap) \in Nat
  BY <1>4, SeqGrows DEF IInv, TypeOK, ManagerTypeOK
<1>6. \A k \in 1 .. Len(heap) + n :
         (heap \o loaded)[k] = IF k <= Len(heap) THEN heap[k] ELSE loaded[k - Len(heap)]
  BY <1>4, <1>5, ConcatProperties
<1>7. ASSUME NEW i \in 1 .. n
      PROVE  heap'[transactions'[i]] = object(i)
  <2>1. transactions'[i] = Len(heap) + i
    BY <1>2
  <2>2. Len(heap) + i \in 1 .. Len(heap) + n /\ ~(Len(heap) + i <= Len(heap))
        /\ (Len(heap) + i) - Len(heap) = i
    BY <1>3, <1>5
  <2> QED BY <1>2, <1>4, <1>6, <2>1, <2>2
<1>8. DOMAIN transactions' = 1 .. n
  BY <1>2
<1> QED BY <1>1, <1>3, <1>7, <1>8 DEF n, keys

\* It shows what its answer has.
LEMMA LoadShows ==
    ASSUME IInv, RunLoadCallback
    PROVE  \A x \in Shown' : \E d \in Found(Head(main).docs) : x = Head(main).docs[d].id
<1>1. PICK docs : docs = Head(main).docs
  OBVIOUS
<1>2. \A i \in DOMAIN transactions' :
         \E d \in Found(docs) : heap'[transactions'[i]].id = docs[d].id
  BY <1>1, LoadedEntries
<1> QED BY <1>1, <1>2 DEF Shown

\* The answer is the user's own, or the one's whom Auth has signed out.
LEMMA LoadShowsOwn ==
    ASSUME Belonging, RunLoadCallback, [Next]_vars, Patient', OnTabs', NEW x \in Shown'
    PROVE  Own(x)'
<1> DEFINE docs == Head(main).docs
<1>1. IInv /\ SessionTypeOK /\ OustedGone /\ StoreTypeOK
  BY DEF Belonging, Filing, Waiting, Presence, IInv, TypeOK
<1>2. TabsAreSignedIn' /\ UNCHANGED <<authUser, ousted, added>>
  BY PresenceStep DEF Belonging, Filing, Waiting, Presence, RunLoadCallback
<1>3. Patient
  BY <1>1, Patience DEF Belonging, Filing, Waiting
<1>4. PICK d \in Found(docs) : x = docs[d].id
  BY <1>1, LoadShows
<1>5. /\ 1 \in DOMAIN main /\ docs = main[1].docs
      /\ main[1].kind = "snapshot" /\ main[1].callback.kind = "load"
  BY <1>1 DEF RunLoadCallback, Answered, StoreTypeOK
<1> HIDE DEF docs
<1>6. ASSUME NEW u \in Users, u \in {keychain, ousted}
      PROVE  added[x] # NotAdded /\ added[x].user = u
  <2>1. LoadsFor(u)
    BY <1>3, <1>6 DEF Belonging, LoadsOwned
  <2>2. Owned(added, docs, u)
    BY <1>5, <2>1 DEF LoadsFor, AnswersOf
  <2> QED BY <1>4, <2>2 DEF Owned
<1>7. CASE authUser # Nobody
  <2>1. authUser \in Users /\ authUser = keychain
    BY <1>1, <1>7 DEF SessionTypeOK
  <2> QED BY <1>2, <1>6, <1>7, <2>1 DEF Own
<1>8. CASE authUser = Nobody
  <2>1. ousted \in Users
    BY <1>1, <1>2, <1>8 DEF TabsAreSignedIn, SessionTypeOK
  <2> QED BY <1>2, <1>6, <1>8, <2>1 DEF Own
<1> QED BY <1>7, <1>8

\* What is added is the user's own, and nothing else changes.
LEMMA AdditionShowsOwn ==
    ASSUME Belonging, AddTransaction, OwnShown, Patient, NEW x \in Shown'
    PROVE  Own(x)'
<1>1. IInv /\ ManagerTypeOK /\ SessionTypeOK
  BY DEF Belonging, Provenance, IInv, TypeOK
<1>2. PICK y \in Ids, d \in DocIds \ UsedKeys, c \in NewContents :
        /\ added[y] = NotAdded
        /\ addTransactions([id |-> y, content |-> c], authUser, d)
        /\ added' = [added EXCEPT ![y] =
                       [key |-> IF authUser = Nobody THEN NoKey ELSE d,
                        user |-> authUser]]
  BY DEF AddTransaction
<1> DEFINE object == [id |-> y, content |-> c]
           entry == [key |-> IF authUser = Nobody THEN NoKey ELSE d, user |-> authUser]
<1>3. /\ heap' = Append(heap, object) /\ object.id = y
      /\ transactions' = Append(transactions, Len(heap) + 1)
      /\ OnTabs /\ UNCHANGED <<authUser, ousted>>
  BY <1>2 DEF addTransactions, AddTransaction, sessionVars
<1>4. entry \in [key : DocIds \cup {NoKey}, user : Users \cup {Nobody}] /\ entry.user = authUser
  BY <1>1, <1>2 DEF SessionTypeOK
<1>5. /\ added' = [added EXCEPT ![y] = entry]
      /\ added \in [Ids -> [key : DocIds \cup {NoKey}, user : Users \cup {Nobody}] \cup {NotAdded}]
  BY <1>1, <1>2 DEF SessionTypeOK
<1> HIDE DEF object, entry
<1>6. x \in Shown \/ x = y
  <2>1. /\ transactions \in Seq(1 .. Len(heap)) /\ heap \in Seq(Transaction)
        /\ \A i \in DOMAIN transactions : transactions[i] \in 1 .. Len(heap)
    BY <1>1, ShownTypes
  <2>2. /\ \A r \in 1 .. Len(heap) : heap'[r] = heap[r]
        /\ heap'[Len(heap) + 1] = object
    BY <1>3, <2>1
  <2>3. \A i \in DOMAIN transactions' :
           \/ i \in DOMAIN transactions /\ transactions'[i] = transactions[i]
           \/ transactions'[i] = Len(heap) + 1
    BY <1>3, <2>1
  <2> QED BY <1>3, <2>1, <2>2, <2>3 DEF Shown
<1>7. CASE x = y
  <2>1. added'[x] = entry
    BY <1>5, <1>7
  <2> QED BY <1>3, <1>4, <2>1, MarkerAssumption DEF Own
<1>8. CASE x \in Shown /\ x # y
  <2>1. Own(x)
    BY <1>3, <1>8 DEF OwnShown
  <2>2. added'[x] = added[x]
    BY <1>5, <1>8
  <2> QED BY <1>3, <2>1, <2>2 DEF Own
<1> QED BY <1>6, <1>7, <1>8

\* A step keeps the invariant.
LEMMA BelongingStep == Belonging /\ [Next]_vars => Belonging'
<1> SUFFICES ASSUME Belonging, [Next]_vars PROVE Belonging'
  OBVIOUS
<1>1. IInv /\ OustedGone /\ Waiting /\ HurryBounded
  BY DEF Belonging, Provenance, Filing, Waiting
<1>2. Filing' /\ Provenance'
  BY FilingStep, ProvenanceStep DEF Belonging
<1>3. InCache' /\ LoadsOwned'
  BY <1>1, InCacheStep, LoadsOwnedStep DEF Belonging
<1>4. ASSUME Patient', OnTabs', NEW x \in Shown'
      PROVE  Own(x)'
  <2>1. Patient
    BY <1>1, <1>4, Patience DEF Belonging
  <2>2. CASE RunLoadCallback
    BY <1>4, <2>2, LoadShowsOwn
  <2>3. CASE AddTransaction
    BY <1>4, <2>1, <2>3, AdditionShowsOwn DEF Belonging
  <2>4. CASE ~RunLoadCallback /\ ~AddTransaction
    <3>1. OnTabs /\ (UNCHANGED <<authUser, ousted>> \/ SignOutByForce)
      BY <1>4, <2>1, <2>4, OwnersStay DEF Belonging
    <3>2. x \in Shown
      BY <1>1, <1>4, <2>4, ShownSteps
    <3>3. Own(x)
      BY <2>1, <3>1, <3>2 DEF Belonging, OwnShown
    <3>4. added' = added
      BY <1>1, <2>4, StepsWithoutCreation
    <3>5. SignOutByForce => authUser # Nobody /\ authUser' = Nobody /\ ousted' = authUser
      BY DEF SignOutByForce
    <3> QED BY <3>1, <3>3, <3>4, <3>5 DEF Own
  <2> QED BY <2>2, <2>3, <2>4
<1> QED BY <1>2, <1>3, <1>4 DEF Belonging, OwnShown

\* It holds at first.
LEMMA BelongingInit == Init => Belonging
<1> SUFFICES ASSUME Init
             PROVE  InCache /\ LoadsOwned /\ OwnShown
  BY FilingInit, ProvenanceInit DEF Belonging
<1>1. /\ cache = [d \in DocIds |-> Absent] /\ worker = << >>
      /\ listeners = [q \in Queries |-> << >>] /\ transactions = << >>
      /\ main = <<InitialBlock(1)>>
  BY DEF Init, StoreInit, ManagerInit
<1>2. InCache /\ OwnShown
  BY <1>1 DEF InCache, OwnShown, Shown
<1>4. LoadsOwned
  <2>1. \A u \in Users : LoadsIn({ByUser(u)})
    BY <1>1 DEF LoadsIn
  <2>2. \A i \in DOMAIN main : main[i].kind # "snapshot"
    BY <1>1 DEF InitialBlock
  <2> QED BY <2>1, <2>2 DEF LoadsOwned, LoadsFor, AnswersOf
<1> QED BY <1>2, <1>4

\* The manager never holds another user's transactions while the tabs are
\* shown, although the listeners and callbacks of earlier sessions are never
\* removed, for users who wait.
THEOREM OwnTransactionsShown == Spec => []ShowsOwnTransactions
<1>1. Belonging => ShowsOwnTransactions
  BY DEF Belonging, OwnShown, Shown, Patient, Own, ShowsOwnTransactions
<1> QED BY <1>1, BelongingInit, BelongingStep, PTL DEF Spec


-----------------------------------------------------------------------------
\* Each transaction is shown once.

\* The documents docs are the ones their transactions were added with.
AllGenuine(a, docs) == \A d \in Found(docs) : Genuine(a, d, docs[d])

AnswersGenuine ==
    \A i \in DOMAIN main : main[i].kind = "snapshot" => AllGenuine(added, main[i].docs)

\* The array never has two objects of one transaction, and the transactions it
\* has were added.
ShownOnce == \A i, j \in DOMAIN transactions :
                heap[transactions[i]].id = heap[transactions[j]].id => i = j
ShownAdded == \A x \in Shown : added[x] # NotAdded

\* A query finds genuine documents.
LEMMA ResultGenuine ==
    ASSUME Provenance, fsUser # NoClient, NEW c, \A d \in DocIds : GenuineOrNone(d, c[d]),
           NEW q
    PROVE  AllGenuine(added, Result(c, q))
<1> DEFINE docs == Result(c, q)
<1> SUFFICES ASSUME NEW d \in Found(docs)
             PROVE  Genuine(added, d, docs[d])
  BY DEF AllGenuine
<1> DEFINE doc == LocalDocument(c, fsUser, d)
<1>1. fsUser \in Users \cup {Nobody} /\ d \in DocIds
  BY DEF Provenance, IInv, TypeOK, StoreTypeOK, Found
<1>2. docs[d] = doc /\ Matches(q, doc)
  BY <1>1 DEF Found, Result
<1>3. GenuineOrNone(d, doc)
  BY <1>1, LocalDocumentGenuine
<1> HIDE DEF doc, docs
<1>4. doc # Absent
  BY <1>2 DEF Matches
<1> QED BY <1>2, <1>3, <1>4 DEF GenuineOrNone

\* What is added next leaves the documents of an answer genuine.
LEMMA StayGenuine ==
    ASSUME IInv, [Next]_vars, NEW docs \in [DocIds -> DocState], AllGenuine(added, docs)
    PROVE  AllGenuine(added', docs)
<1> SUFFICES ASSUME NEW d \in Found(docs)
             PROVE  Genuine(added', d, docs[d])
  BY DEF AllGenuine
<1>1. d \in DocIds /\ docs[d] \in Document /\ docs[d].id \in Ids /\ docs[d].user_id \in Users
  BY DEF Found, DocState, Document
<1>2. Genuine(added, d, docs[d])
  BY DEF AllGenuine
<1> DEFINE entry == [key |-> d, user |-> docs[d].user_id]
<1>3. entry \in [key : DocIds \cup {NoKey}, user : Users \cup {Nobody}]
  BY <1>1
<1>4. added[docs[d].id] = entry /\ added[docs[d].id] # NotAdded
  BY <1>2, <1>3, MarkerAssumption DEF Genuine
<1>5. added'[docs[d].id] = entry
  BY <1>1, <1>4, AddedStays
<1> QED BY <1>5 DEF Genuine

\* An answer has genuine documents.
LEMMA AnswersGenuineStep ==
    ASSUME Provenance, InCache, AnswersGenuine, [Next]_vars
    PROVE  AnswersGenuine'
<1>1. IInv /\ main \in Seq(Block(Len(heap), Len(observers)))
  BY DEF Provenance, IInv, TypeOK, StoreTypeOK
<1> SUFFICES ASSUME NEW i \in DOMAIN main', main'[i].kind = "snapshot"
             PROVE  AllGenuine(added', main'[i].docs)
  BY DEF AnswersGenuine
<1>2. ASSUME NEW j \in DOMAIN main, main'[i] = main[j]
      PROVE  AllGenuine(added', main'[i].docs)
  <2> DEFINE docs == main[j].docs
  <2>1. main[j] \in Block(Len(heap), Len(observers)) /\ main[j].kind = "snapshot"
    BY <1>1, <1>2
  <2>2. docs \in [DocIds -> DocState]
    BY <2>1 DEF Block
  <2>3. AllGenuine(added, docs)
    BY <2>1 DEF AnswersGenuine
  <2> HIDE DEF docs
  <2>4. AllGenuine(added', docs)
    BY <1>1, <2>2, <2>3, StayGenuine
  <2> QED BY <1>2, <2>4 DEF docs
<1>3. ASSUME NEW q \in Queries, RaiseFromServer(q) \/ RaiseFromCache(q),
             NEW k \in DOMAIN listeners[q],
             main'[i] = SnapshotBlock(listeners[q][k], Result(cache', q))
      PROVE  AllGenuine(added', main'[i].docs)
  <2>1. main'[i].docs = Result(cache', q)
    BY <1>3 DEF SnapshotBlock
  <2>3. IInv' /\ InCache'
    BY <1>1, Invariance, InCacheStep
  <2>4. \A d \in DocIds : cache'[d] \in DocState /\ (cache'[d] # Absent => Genuine(added', d, cache'[d]))
    BY <2>3 DEF IInv, TypeOK, StoreTypeOK, InCache
  <2>5. fsUser # NoClient /\ added' = added /\ fsUser' = fsUser /\ mutations' = mutations
    <3>1. listeners[q] # << >>
      BY <1>3 DEF RaiseFromServer, RaiseFromCache, Raise
    <3>2. fsUser # NoClient
      BY <1>1, <3>1 DEF IInv, ClientReady
    <3>3. fsUser' = fsUser /\ mutations' = mutations
      BY <1>3 DEF RaiseFromServer, RaiseFromCache
    <3> QED BY <3>2, <3>3, <1>1, <1>3, StepsWithoutCreation DEF AddTransaction, RaiseFromServer, RaiseFromCache, Raise
  <2>6. PICK c : c = cache'
    OBVIOUS
  <2>7. \A d \in DocIds : GenuineOrNone(d, c[d])
    BY <2>4, <2>5, <2>6 DEF GenuineOrNone
  <2>8. AllGenuine(added, Result(c, q))
    BY <2>5, <2>7, ResultGenuine
  <2> QED BY <2>1, <2>5, <2>6, <2>8
<1> QED BY <1>1, <1>2, <1>3, AnswerSteps

\* An edit changes neither an entry's transaction nor, if the row is the only
\* entry of its transaction, the entry.
LEMMA EditKeepsEntries ==
    ASSUME IInv, NEW r \in 1 .. Len(heap), NEW c, updatetransaction(r, c)
    PROVE  /\ DOMAIN transactions' = DOMAIN transactions
           /\ \A i \in DOMAIN transactions :
                 heap'[transactions'[i]].id = heap[transactions[i]].id
           /\ ShownOnce /\ (\E i \in DOMAIN transactions : transactions[i] = r)
                 => transactions' = transactions
<1> DEFINE found == PositionsOf(transactions, heap[r].id)
<1>3. r \in 1 .. Len(heap) /\ heap[r] \in Transaction
  BY DEF IInv, TypeOK, ManagerTypeOK
<1>4. /\ transactions \in Seq(1 .. Len(heap)) /\ heap \in Seq(Transaction)
      /\ \A i \in DOMAIN transactions : transactions[i] \in 1 .. Len(heap)
  BY ShownTypes DEF IInv, TypeOK
<1>5. \A s \in 1 .. Len(heap) : heap'[s].id = heap[s].id
  <2>1. heap' = [heap EXCEPT ![r] = [heap[r] EXCEPT !.content = c]]
    BY DEF updatetransaction
  <2> DEFINE object == [heap[r] EXCEPT !.content = c]
  <2>2. object.id = heap[r].id
    BY <1>3 DEF Transaction
  <2> HIDE DEF object
  <2>3. \A s \in 1 .. Len(heap) : heap'[s] = IF s = r THEN object ELSE heap[s]
    BY <1>4, <2>1 DEF object
  <2> QED BY <2>2, <2>3
<1>6. CASE found = {}
  <2>1. transactions' = transactions
    BY <1>6 DEF updatetransaction
  <2> QED BY <1>4, <1>5, <2>1
<1>7. CASE found # {}
  <2> DEFINE first == Ascending(found)[1]
  <2>1. transactions' = [transactions EXCEPT ![first] = r]
    BY <1>7 DEF updatetransaction
  <2>2. found \in SUBSET DOMAIN transactions /\ \A i \in found : heap[transactions[i]].id = heap[r].id
    BY DEF PositionsOf
  <2>3. first \in found
    <3> HIDE DEF found
    <3>1. DOMAIN transactions = 1 .. Len(transactions) /\ Len(transactions) \in Nat
      BY <1>4
    <3>2. IsFiniteSet(1 .. Len(transactions))
      BY <3>1, FS_Interval
    <3>3. IsFiniteSet(found) /\ found \in SUBSET Int
      BY <2>2, <3>1, <3>2, FS_Subset
    <3>4. Cardinality(found) \in Nat /\ Cardinality(found) # 0
      BY <1>7, <3>3, FS_CardinalityType, FS_EmptySet
    <3> QED BY <3>3, <3>4, AscendingProperties
  <2>4. \A i \in DOMAIN transactions :
           transactions[i] = r => i \in found
    BY DEF PositionsOf
  <2> HIDE DEF first, found
  <2>5. first \in DOMAIN transactions /\ heap[transactions[first]].id = heap[r].id
    BY <2>2, <2>3
  <2>6. DOMAIN transactions' = DOMAIN transactions
    BY <2>1
  <2>7. \A i \in DOMAIN transactions :
           transactions'[i] = IF i = first THEN r ELSE transactions[i]
    BY <1>4, <2>1
  <2>8. \A i \in DOMAIN transactions : heap'[transactions'[i]].id = heap[transactions[i]].id
    BY <1>3, <1>4, <1>5, <2>5, <2>7
  <2>9. ASSUME ShownOnce, NEW i \in DOMAIN transactions, transactions[i] = r
        PROVE  transactions' = transactions
    <3>1. i = first
      BY <2>2, <2>3, <2>4, <2>5, <2>9 DEF ShownOnce
    <3> QED BY <1>4, <2>1, <2>9, <3>1
  <2> QED BY <2>6, <2>8, <2>9
<1> QED BY <1>6, <1>7

\* A deletion leaves no transaction twice.
LEMMA DeletionShowsOnce ==
    ASSUME IInv, ShownOnce, DeleteTransaction
    PROVE  ShownOnce'
<1>1. PICK x : /\ heap' = heap
               /\ transactions' = Subsequence(transactions,
                                    DOMAIN transactions \ PositionsOf(transactions, x))
  BY DEF DeleteTransaction, removeTransaction
<1> DEFINE K == DOMAIN transactions \ PositionsOf(transactions, x)
           n == Cardinality(K)
           keys == Ascending(K)
<1>2. transactions \in Seq(1 .. Len(heap))
  BY DEF IInv, TypeOK, ManagerTypeOK
<1>3. K \in SUBSET DOMAIN transactions
  OBVIOUS
<1>4. IsFiniteSet(K) /\ K \in SUBSET Int
  <2> HIDE DEF K
  <2>1. DOMAIN transactions = 1 .. Len(transactions) /\ Len(transactions) \in Nat
    BY <1>2
  <2>2. IsFiniteSet(1 .. Len(transactions))
    BY <2>1, FS_Interval
  <2> QED BY <1>3, <2>1, <2>2, FS_Subset
<1>5. transactions' = [i \in 1 .. n |-> transactions[keys[i]]]
  BY <1>1 DEF Subsequence
<1> HIDE DEF K
<1>6. /\ n \in Nat /\ \A i \in 1 .. n : keys[i] \in K /\ keys[i] \in Int
      /\ \A i, j \in 1 .. n : i < j => keys[i] < keys[j]
  BY <1>4, AscendingProperties
<1> HIDE DEF n, keys
<1>7. \A i, j \in 1 .. n : keys[i] = keys[j] => i = j
  BY <1>6
<1>8. DOMAIN transactions' = 1 .. n
  BY <1>5
<1> SUFFICES ASSUME NEW i \in 1 .. n, NEW j \in 1 .. n,
                    heap'[transactions'[i]].id = heap'[transactions'[j]].id
             PROVE  i = j
  BY <1>8 DEF ShownOnce
<1>9. heap[transactions[keys[i]]].id = heap[transactions[keys[j]]].id
  BY <1>1, <1>5
<1> QED BY <1>3, <1>6, <1>7, <1>9 DEF ShownOnce

\* A deletion from an array that has each transaction once takes away the
\* row and no other.
LEMMA DeletionOfRow ==
    ASSUME IInv, ShownOnce, NEW row \in DOMAIN transactions
    PROVE  PositionsOf(transactions, heap[transactions[row]].id) = {row}
BY DEF ShownOnce, PositionsOf

\* What is added is shown once, being new.
LEMMA AdditionShowsOnce ==
    ASSUME IInv, ShownOnce, ShownAdded, AddTransaction
    PROVE  ShownOnce' /\ ShownAdded'
<1>1. IInv /\ ManagerTypeOK /\ SessionTypeOK
  BY DEF IInv, TypeOK
<1>2. PICK y \in Ids, d \in DocIds \ UsedKeys, c \in NewContents :
        /\ added[y] = NotAdded
        /\ addTransactions([id |-> y, content |-> c], authUser, d)
        /\ added' = [added EXCEPT ![y] =
                       [key |-> IF authUser = Nobody THEN NoKey ELSE d,
                        user |-> authUser]]
  BY DEF AddTransaction
<1> DEFINE object == [id |-> y, content |-> c]
           entry == [key |-> IF authUser = Nobody THEN NoKey ELSE d, user |-> authUser]
           n == Len(transactions)
<1>3. /\ heap' = Append(heap, object) /\ object.id = y
      /\ transactions' = Append(transactions, Len(heap) + 1)
  BY <1>2 DEF addTransactions
<1>4. entry \in [key : DocIds \cup {NoKey}, user : Users \cup {Nobody}] /\ entry # NotAdded
  BY <1>1, <1>2, MarkerAssumption DEF SessionTypeOK
<1>5. added' = [added EXCEPT ![y] = entry] /\ DOMAIN added = Ids
  BY <1>1, <1>2 DEF SessionTypeOK
<1> HIDE DEF object, entry
<1>6. /\ transactions \in Seq(1 .. Len(heap)) /\ heap \in Seq(Transaction)
      /\ \A i \in DOMAIN transactions : /\ transactions[i] \in 1 .. Len(heap)
                                        /\ heap[transactions[i]].id \in Ids
      /\ n \in Nat /\ DOMAIN transactions = 1 .. n
  BY <1>1, ShownTypes
<1>7. /\ \A r \in 1 .. Len(heap) : heap'[r] = heap[r]
      /\ heap'[Len(heap) + 1] = object
  BY <1>3, <1>6
<1>8. /\ DOMAIN transactions' = 1 .. n + 1 /\ transactions'[n + 1] = Len(heap) + 1
      /\ \A i \in 1 .. n : transactions'[i] = transactions[i]
  BY <1>3, <1>6
<1>9. /\ heap'[transactions'[n + 1]].id = y
      /\ \A i \in 1 .. n : heap'[transactions'[i]].id = heap[transactions[i]].id
  BY <1>3, <1>6, <1>7, <1>8
<1>10. \A i \in 1 .. n : heap[transactions[i]].id # y
  BY <1>2, <1>6 DEF ShownAdded, Shown
<1> HIDE DEF n
<1>11. ASSUME NEW i \in 1 .. n + 1, NEW j \in 1 .. n + 1,
              heap'[transactions'[i]].id = heap'[transactions'[j]].id
       PROVE  i = j
  <2>1. i \in 1 .. n \/ i = n + 1
    BY <1>6
  <2>2. j \in 1 .. n \/ j = n + 1
    BY <1>6
  <2> QED BY <1>6, <1>9, <1>10, <1>11, <2>1, <2>2 DEF ShownOnce
<1>12. ASSUME NEW i \in 1 .. n + 1
       PROVE  added'[heap'[transactions'[i]].id] # NotAdded
  <2>1. CASE i \in 1 .. n
    <3>1. added[heap[transactions[i]].id] # NotAdded
      BY <1>6, <2>1 DEF ShownAdded, Shown
    <3> QED BY <1>4, <1>5, <1>6, <1>9, <2>1, <3>1
  <2>2. CASE i = n + 1
    BY <1>2, <1>4, <1>5, <1>9, <2>2
  <2>3. i \in 1 .. n \/ i = n + 1
    BY <1>6
  <2> QED BY <2>1, <2>2, <2>3
<1> QED BY <1>8, <1>11, <1>12 DEF ShownOnce, ShownAdded, Shown

\* What is loaded is shown once: a transaction has one document.
LEMMA LoadShowsOnce ==
    ASSUME IInv, AnswersGenuine, RunLoadCallback
    PROVE  ShownOnce' /\ ShownAdded'
<1>1. PICK docs : docs = Head(main).docs
  OBVIOUS
<1> DEFINE n == Cardinality(Found(docs))
           keys == Ascending(Found(docs))
<1>2. /\ docs \in [DocIds -> DocState] /\ DOMAIN transactions' = 1 .. n
      /\ \A i \in 1 .. n : /\ keys[i] \in Found(docs)
                           /\ heap'[transactions'[i]].id = docs[keys[i]].id
  BY <1>1, LoadedEntries
<1>3. AllGenuine(added, docs)
  <2>1. main \in Seq(Block(Len(heap), Len(observers)))
    BY DEF IInv, TypeOK, StoreTypeOK
  <2>2. 1 \in DOMAIN main /\ main[1].kind = "snapshot" /\ docs = main[1].docs
    BY <1>1, <2>1 DEF RunLoadCallback, Answered
  <2> QED BY <2>2 DEF AnswersGenuine
<1>4. \A d \in Found(docs) : /\ d \in DocIds /\ docs[d].user_id \in Users
                             /\ added[docs[d].id] = [key |-> d, user |-> docs[d].user_id]
  BY <1>2, <1>3 DEF AllGenuine, Genuine, Found, DocState, Document
<1>5. \A d, e \in Found(docs) : docs[d].id = docs[e].id => d = e
  <2> SUFFICES ASSUME NEW d \in Found(docs), NEW e \in Found(docs), docs[d].id = docs[e].id
               PROVE  d = e
    OBVIOUS
  <2>1. [key |-> d, user |-> docs[d].user_id] = [key |-> e, user |-> docs[e].user_id]
    BY <1>4
  <2> QED BY <2>1
<1>6. \A d \in Found(docs) : added[docs[d].id] # NotAdded
  <2> SUFFICES ASSUME NEW d \in Found(docs)
               PROVE  added[docs[d].id] # NotAdded
    OBVIOUS
  <2>1. [key |-> d, user |-> docs[d].user_id]
          \in [key : DocIds \cup {NoKey}, user : Users \cup {Nobody}]
    BY <1>4
  <2> QED BY <1>4, <2>1, MarkerAssumption
<1>7. \A i, j \in 1 .. n : keys[i] = keys[j] => i = j
  <2>1. /\ DocIds \subseteq Nat /\ IsFiniteSet(DocIds)
        /\ Found(docs) \in SUBSET DocIds
    BY DocIdsAssumption DEF Found
  <2>2. IsFiniteSet(Found(docs)) /\ Found(docs) \in SUBSET Int
    <3>1. PICK F : F = Found(docs)
      OBVIOUS
    <3>2. F \in SUBSET DocIds
      BY <2>1, <3>1
    <3>3. IsFiniteSet(F)
      BY <2>1, <3>2, FS_Subset
    <3>4. F \in SUBSET Int
      BY <2>1, <3>2
    <3> QED BY <3>1, <3>3, <3>4
  <2>3. n \in Nat /\ \A i \in 1 .. n : keys[i] \in Int
    BY <2>2, AscendingProperties
  <2>4. \A i, j \in 1 .. n : i < j => keys[i] < keys[j]
    BY <2>2, AscendingProperties
  <2> HIDE DEF n, keys
  <2> QED BY <2>3, <2>4
<1>8. added' = added
  BY DEF RunLoadCallback
<1> HIDE DEF n, keys
<1>9. ShownOnce'
  BY <1>2, <1>5, <1>7 DEF ShownOnce
<1>10. ShownAdded'
  BY <1>2, <1>6, <1>8 DEF ShownAdded, Shown
<1> QED BY <1>9, <1>10

\* No step shows a transaction twice.
LEMMA ShownOnceStep ==
    ASSUME IInv, AnswersGenuine, ShownOnce, ShownAdded, [Next]_vars
    PROVE  ShownOnce' /\ ShownAdded'
<1>1. CASE AddTransaction
  BY <1>1, AdditionShowsOnce
<1>2. CASE RunLoadCallback
  BY <1>2, LoadShowsOnce
<1>3. CASE ~AddTransaction /\ ~RunLoadCallback
  <2>1. ShownAdded'
    <3>1. Shown' \subseteq Shown /\ added' = added
      BY <1>3, ShownSteps, StepsWithoutCreation
    <3> QED BY <3>1 DEF ShownAdded
  <2>2. CASE SaveEdit
    <3>1. PICK row \in DOMAIN list : \E c : updatetransaction(list[row], c)
      BY <2>2 DEF SaveEdit
    <3>2. list[row] \in 1 .. Len(heap)
      BY <2>2, RowTypes DEF SaveEdit
    <3>3. /\ DOMAIN transactions' = DOMAIN transactions
          /\ \A i \in DOMAIN transactions : heap'[transactions'[i]].id = heap[transactions[i]].id
      BY <3>1, <3>2, EditKeepsEntries
    <3> QED BY <2>1, <3>3 DEF ShownOnce
  <2>3. CASE DeleteTransaction
    BY <2>1, <2>3, DeletionShowsOnce
  <2>4. CASE UNCHANGED <<heap, transactions>>
    BY <2>1, <2>4 DEF ShownOnce
  <2>5. CASE Crash
    <3>1. transactions' = << >>
      BY <2>5 DEF Crash, Launched
    <3> QED BY <2>1, <3>1 DEF ShownOnce
  <2>6. SaveEdit \/ DeleteTransaction \/ Crash \/ UNCHANGED <<heap, transactions>>
    <3>1. CASE UserStep
      BY <1>3, <3>1 DEF UserStep, SendSignIn, SignOut, ReturnFromSignUp, OpenTable, managerVars
    <3>2. CASE MainStep
      BY <1>3, <3>2 DEF MainStep, RunAuthBlock, RunInitialBlock, RunRemoveCallback, deleteFound,
                        RunUpdateCallback, updateFound, RunErrorCallback, managerVars
    <3>3. CASE AuthStep
      BY <3>3 DEF AuthStep, LoadKeychain, RefreshToken, SignOutByForce, SignInAnswered,
                SignInRefused, storeVars, managerVars
    <3>4. CASE Frame \/ UNCHANGED vars
      BY <3>4 DEF Frame, managerVars, vars
    <3> QED BY <3>1, <3>2, <3>3, <3>4 DEF Next
  <2> QED BY <2>2, <2>3, <2>4, <2>5, <2>6
<1> QED BY <1>1, <1>2, <1>3

-----------------------------------------------------------------------------
\* How many loads are under way.

\* Where they are: on the worker queue, with the listeners of a query, and,
\* answered, on the main queue.
WorkerLoads == {i \in DOMAIN worker : IsLoad(worker[i])}
LoadListeners(q) == {i \in DOMAIN listeners[q] : listeners[q][i].kind = "load"}
MainLoads == {i \in DOMAIN main : main[i].kind = "snapshot" /\ main[i].callback.kind = "load"}

NoWorkerLoad == WorkerLoads = {}
NoLoadListener == \A q \in Queries : LoadListeners(q) = {}
NoMainLoad == MainLoads = {}

OneWorkerLoad == \A i, j \in WorkerLoads : i = j
OneLoadListener == \A q, r \in Queries : \A i \in LoadListeners(q), j \in LoadListeners(r) :
                      q = r /\ i = j
OneMainLoad == \A i, j \in MainLoads : i = j

NoLoad == NoWorkerLoad /\ NoLoadListener /\ NoMainLoad

\* One at most.
OneLoad ==
    /\ OneWorkerLoad /\ OneLoadListener /\ OneMainLoad
    /\ NoWorkerLoad \/ NoLoadListener
    /\ NoWorkerLoad \/ NoMainLoad
    /\ NoLoadListener \/ NoMainLoad

Notifying == RunAuthBlock \/ RunInitialBlock

\* The loads on the worker queue stay, s places ahead.
LEMMA WorkerLoadsMove ==
    ASSUME IInv, [Next]_vars, ~Notifying
    PROVE  \/ \A i \in WorkerLoads' : i \in WorkerLoads
           \/ TakesTask /\ \A i \in WorkerLoads' : i + 1 \in WorkerLoads /\ i \in Nat \ {0}
<1>1. worker \in Seq(Task(Len(heap)))
  BY DEF IInv, TypeOK, StoreTypeOK
<1>2. CASE LooksUpOrChanges
  <2>0. PICK T : \E t \in Seq(T) : Adds(t)
    BY <1>2 DEF LooksUpOrChanges
  <2>1. PICK t \in Seq(T) : Adds(t)
    BY <2>0
  <2>2. worker' = worker \o t /\ \A j \in DOMAIN t : ~IsLoad(t[j])
    BY <2>1 DEF Adds
  <2>3. \A i \in DOMAIN worker' : IsLoad(worker'[i]) =>
           i \in DOMAIN worker /\ worker'[i] = worker[i]
    BY <1>1, <2>2, ElementOfConcat
  <2> QED BY <2>3 DEF WorkerLoads, IsLoad
<1>3. CASE TakesTask
  <2>1. \A i \in DOMAIN Tail(worker) : /\ i \in Nat \ {0} /\ i + 1 \in DOMAIN worker
                                       /\ Tail(worker)[i] = worker[i + 1]
    BY <1>1, <1>3 DEF TakesTask
  <2>2. worker' = Tail(worker)
    BY <1>3 DEF TakesTask
  <2> QED BY <1>3, <2>1, <2>2 DEF WorkerLoads, IsLoad
<1>4. CASE AddTransaction
  <2>1. PICK m : worker' = worker \/ worker' = Append(worker, WriteTask(m))
    BY <1>4 DEF AddTransaction, addTransactions
  <2> DEFINE task == WriteTask(m)
  <2>2. ~IsLoad(task)
    BY DEF WriteTask, IsLoad
  <2> HIDE DEF task
  <2>3. \A i \in DOMAIN worker' : \/ i \in DOMAIN worker /\ worker'[i] = worker[i]
                                  \/ worker'[i] = task
    BY <1>1, <2>1 DEF task
  <2>4. \A i \in DOMAIN worker' : IsLoad(worker'[i]) =>
           i \in DOMAIN worker /\ worker'[i] = worker[i]
    BY <2>2, <2>3
  <2> QED BY <2>4 DEF WorkerLoads, IsLoad
<1>5. CASE Crash
  BY <1>5 DEF Crash, Launched, StoreCrash, WorkerLoads
<1>6. CASE worker' = worker
  BY <1>6 DEF WorkerLoads, IsLoad
<1> QED BY <1>2, <1>3, <1>4, <1>5, <1>6, WorkerSteps DEF Notifying

\* So there are no more than before, and none if the only one is taken.
LEMMA WorkerLoadsLeft ==
    ASSUME IInv, [Next]_vars, ~Notifying
    PROVE  /\ NoWorkerLoad => NoWorkerLoad'
           /\ OneWorkerLoad => OneWorkerLoad'
           /\ OneWorkerLoad /\ 1 \in WorkerLoads /\ AddListener => NoWorkerLoad'
<1>1. worker \in Seq(Task(Len(heap)))
  BY DEF IInv, TypeOK, StoreTypeOK
<1>2. NoWorkerLoad => NoWorkerLoad'
  BY WorkerLoadsMove DEF NoWorkerLoad
<1>3. OneWorkerLoad => OneWorkerLoad'
  <2>1. CASE \A i \in WorkerLoads' : i \in WorkerLoads
    BY <2>1 DEF OneWorkerLoad
  <2>2. CASE \A i \in WorkerLoads' : i + 1 \in WorkerLoads /\ i \in Nat \ {0}
    <3> SUFFICES ASSUME OneWorkerLoad, NEW i \in WorkerLoads', NEW j \in WorkerLoads'
                 PROVE  i = j
      BY DEF OneWorkerLoad
    <3>1. i + 1 = j + 1 /\ i \in Nat /\ j \in Nat
      BY <2>2 DEF OneWorkerLoad
    <3> QED BY <3>1
  <2> QED BY <2>1, <2>2, WorkerLoadsMove
<1>4. ASSUME OneWorkerLoad, 1 \in WorkerLoads, AddListener
      PROVE  NoWorkerLoad'
  <2>1. \A i \in DOMAIN Tail(worker) : /\ i \in Nat \ {0} /\ i + 1 \in DOMAIN worker
                                       /\ Tail(worker)[i] = worker[i + 1]
    BY <1>1, <1>4 DEF AddListener
  <2>2. worker' = Tail(worker)
    BY <1>4 DEF AddListener
  <2> SUFFICES ASSUME NEW i \in WorkerLoads'
               PROVE  FALSE
    BY DEF NoWorkerLoad
  <2>3. i + 1 \in WorkerLoads /\ i \in Nat \ {0}
    BY <2>1, <2>2 DEF WorkerLoads, IsLoad
  <2>4. i + 1 = 1
    BY <1>4, <2>3 DEF OneWorkerLoad
  <2> QED BY <2>3, <2>4
<1> QED BY <1>2, <1>3, <1>4

\* A load that is taken from the worker queue is registered; no other is.
LEMMA LoadListenersLeft ==
    ASSUME IInv, [Next]_vars
    PROVE  /\ ~(AddListener /\ 1 \in WorkerLoads) =>
                 /\ NoLoadListener => NoLoadListener'
                 /\ OneLoadListener => OneLoadListener'
           /\ NoLoadListener => OneLoadListener'
<1>1. ASSUME NEW q \in Queries, NEW i \in LoadListeners(q)'
      PROVE  \/ i \in LoadListeners(q)
             \/ /\ AddListener /\ 1 \in WorkerLoads
                /\ q = worker[1].query /\ i = Len(listeners[q]) + 1
  <2>1. i \in DOMAIN listeners'[q] /\ listeners'[q][i].kind = "load"
    BY <1>1 DEF LoadListeners
  <2> QED BY <2>1, ListenerSteps DEF LoadListeners, WorkerLoads, IsLoad
<1>2. ASSUME ~(AddListener /\ 1 \in WorkerLoads)
      PROVE  \A q \in Queries : \A i \in LoadListeners(q)' : i \in LoadListeners(q)
  BY <1>1, <1>2
<1>3. ASSUME NoLoadListener, NEW q \in Queries, NEW r \in Queries,
             NEW i \in LoadListeners(q)', NEW j \in LoadListeners(r)'
      PROVE  q = r /\ i = j
  <2>1. q = worker[1].query /\ i = Len(listeners[q]) + 1
    BY <1>1, <1>3 DEF NoLoadListener
  <2>2. r = worker[1].query /\ j = Len(listeners[r]) + 1
    BY <1>1, <1>3 DEF NoLoadListener
  <2> QED BY <2>1, <2>2
<1> QED BY <1>2, <1>3 DEF NoLoadListener, OneLoadListener

\* Loads that are answered were registered and are no longer; the others stay.
LEMMA MainLoadsLeft ==
    ASSUME IInv, [Next]_vars
    PROVE  /\ NoLoadListener /\ NoMainLoad => NoMainLoad'
           /\ NoLoadListener /\ OneMainLoad => OneMainLoad'
           /\ OneLoadListener /\ NoMainLoad =>
                 OneMainLoad' /\ (NoLoadListener' \/ NoMainLoad')
<1>0. /\ main \in Seq(Block(Len(heap), Len(observers))) /\ Len(main) \in Nat
      /\ listeners \in [Queries -> Seq(Callback(Len(heap)))]
  BY DEF IInv, TypeOK, StoreTypeOK
<1>1. PICK s \in {0, 1} : \A i \in DOMAIN main' : \/ main'[i].kind # "snapshot"
                                                  \/ Kept(i, s)
                                                  \/ \E q \in Queries : Answers(i, q)
  BY AnswerPositions
<1>2. ASSUME NEW i \in MainLoads'
      PROVE  i \in Int /\ (i + s \in MainLoads \/ \E q \in Queries :
                             /\ RaiseFromServer(q) \/ RaiseFromCache(q)
                             /\ i - Len(main) \in LoadListeners(q))
  <2>1. i \in DOMAIN main' /\ main'[i].kind = "snapshot" /\ main'[i].callback.kind = "load"
    BY <1>2 DEF MainLoads
  <2>2. i \in Int
    <3>1. IInv'
      BY Invariance
    <3>2. DOMAIN main' \subseteq Int
      BY <3>1 DEF IInv, TypeOK, StoreTypeOK
    <3> QED BY <2>1, <3>2
  <2>3. Kept(i, s) => i + s \in MainLoads
    BY <2>1 DEF Kept, MainLoads
  <2>4. ASSUME NEW q \in Queries, Answers(i, q)
        PROVE  /\ RaiseFromServer(q) \/ RaiseFromCache(q)
               /\ i - Len(main) \in LoadListeners(q)
    <3>1. main'[i].callback = listeners[q][i - Len(main)]
      BY <2>4 DEF Answers, SnapshotBlock
    <3> QED BY <2>1, <2>4, <3>1 DEF Answers, LoadListeners
  <2> QED BY <1>1, <2>1, <2>2, <2>3, <2>4
<1>3. NoLoadListener => \A i \in MainLoads' : i \in Int /\ i + s \in MainLoads
  BY <1>2 DEF NoLoadListener
<1>4. NoLoadListener /\ NoMainLoad => NoMainLoad'
  BY <1>3 DEF NoMainLoad
<1>5. NoLoadListener /\ OneMainLoad => OneMainLoad'
  <2> SUFFICES ASSUME NoLoadListener, OneMainLoad, NEW i \in MainLoads', NEW j \in MainLoads'
               PROVE  i = j
    BY DEF OneMainLoad
  <2>1. i \in Int /\ j \in Int /\ i + s = j + s
    BY <1>3 DEF OneMainLoad
  <2> QED BY <2>1
<1>6. ASSUME OneLoadListener, NoMainLoad
      PROVE  OneMainLoad' /\ (NoLoadListener' \/ NoMainLoad')
  <2>1. ASSUME NEW i \in MainLoads', NEW j \in MainLoads'
        PROVE  i = j
    <3>1. /\ i \in Int /\ j \in Int
          /\ \E q \in Queries : i - Len(main) \in LoadListeners(q)
          /\ \E q \in Queries : j - Len(main) \in LoadListeners(q)
      BY <1>2, <1>6 DEF NoMainLoad
    <3>2. i - Len(main) = j - Len(main)
      BY <1>6, <3>1 DEF OneLoadListener
    <3> QED BY <1>0, <3>1, <3>2
  <2>2. ASSUME NEW i \in MainLoads'
        PROVE  NoLoadListener'
    <3>1. PICK q \in Queries : /\ RaiseFromServer(q) \/ RaiseFromCache(q)
                               /\ i - Len(main) \in LoadListeners(q)
      BY <1>2, <1>6, <2>2 DEF NoMainLoad
    <3>2. listeners' = [listeners EXCEPT ![q] = << >>]
      BY <3>1 DEF RaiseFromServer, RaiseFromCache, Raise
    <3>3. \A r \in Queries : r # q => LoadListeners(r) = {}
      BY <1>6, <3>1 DEF OneLoadListener
    <3>4. \A r \in Queries : listeners'[r] = IF r = q THEN << >> ELSE listeners[r]
      BY <1>0, <3>2
    <3> QED BY <3>3, <3>4 DEF NoLoadListener, LoadListeners
  <2> QED BY <2>1, <2>2 DEF OneMainLoad, NoMainLoad
<1> QED BY <1>4, <1>5, <1>6

\* Without a call of the listeners, no load comes to be.
LEMMA LoadsLeft ==
    ASSUME IInv, [Next]_vars, ~Notifying
    PROVE  (NoLoad => NoLoad') /\ (OneLoad => OneLoad')
<1>1. NoLoad => NoLoad'
  <2> SUFFICES ASSUME NoLoad PROVE NoLoad'
    OBVIOUS
  <2>1. ~(1 \in WorkerLoads)
    BY DEF NoLoad, NoWorkerLoad
  <2> QED BY <2>1, WorkerLoadsLeft, LoadListenersLeft, MainLoadsLeft DEF NoLoad
<1>2. ASSUME OneLoad
      PROVE  OneLoad'
  <2>1. CASE AddListener /\ 1 \in WorkerLoads
    <3>1. NoLoadListener /\ NoMainLoad /\ OneWorkerLoad
      BY <1>2, <2>1 DEF OneLoad, NoWorkerLoad
    <3>2. NoWorkerLoad' /\ OneWorkerLoad'
      BY <2>1, <3>1, WorkerLoadsLeft
    <3>3. OneLoadListener' /\ NoMainLoad'
      BY <3>1, LoadListenersLeft, MainLoadsLeft
    <3>4. OneMainLoad'
      BY <3>3 DEF NoMainLoad, OneMainLoad
    <3> QED BY <3>2, <3>3, <3>4 DEF OneLoad
  <2>2. CASE ~(AddListener /\ 1 \in WorkerLoads)
    <3>1. /\ OneWorkerLoad' /\ OneLoadListener'
          /\ NoWorkerLoad => NoWorkerLoad'
          /\ NoLoadListener => NoLoadListener'
      BY <1>2, <2>2, WorkerLoadsLeft, LoadListenersLeft DEF OneLoad
    <3>2. CASE NoLoadListener
      <4>1. OneMainLoad' /\ NoLoadListener' /\ (NoMainLoad => NoMainLoad')
        BY <1>2, <3>1, <3>2, MainLoadsLeft DEF OneLoad
      <4> QED BY <1>2, <3>1, <4>1 DEF OneLoad
    <3>3. CASE ~NoLoadListener
      <4>1. NoWorkerLoad /\ NoMainLoad /\ OneLoadListener
        BY <1>2, <3>3 DEF OneLoad
      <4>2. OneMainLoad' /\ (NoLoadListener' \/ NoMainLoad')
        BY <4>1, MainLoadsLeft
      <4> QED BY <3>1, <4>1, <4>2 DEF OneLoad
    <3> QED BY <3>2, <3>3
  <2> QED BY <2>1, <2>2
<1> QED BY <1>1, <1>2

-----------------------------------------------------------------------------
\* A single listener.

OneListener == Patient /\ Len(observers) = 1

\* The listener is to be called with a user it was not called with last.
ToBeLoaded == keychain # Nobody /\ observers[1].prev # keychain

\* It loads a user's transactions once, before the tabs are shown.
LoadedOnce == OneListener =>
    /\ OneLoad
    /\ OnTabs \/ ToBeLoaded => NoLoad
    /\ OnTabs => ~ToBeLoaded
    /\ authUser # keychain => observers[1].prev # keychain

SameTable == OneListener /\ OnTabs /\ list # NotLoaded => list = transactions

\* The inductive invariant.
Tabular ==
    /\ Belonging
    /\ AnswersGenuine /\ ShownOnce /\ ShownAdded
    /\ observers # << >> /\ LoadedOnce /\ SameTable

\* Called with a user, it asks for one load at most.
LEMMA SingleAsks ==
    ASSUME TypeOK, Len(observers) = 1
    PROVE  /\ authUser = Nobody \/ observers[1].prev = authUser => DOMAIN Asked({1}) = {}
           /\ DOMAIN Asked({1}) \subseteq {1}
<1> DEFINE called == {i \in {1} : observers[i].prev # authUser}
           loads  == IF authUser = Nobody THEN {} ELSE called
           n      == Cardinality(loads)
<1>1. DOMAIN Asked({1}) = 1 .. n
  BY DEF Asked
<1>2. loads = {} \/ loads = {1}
  OBVIOUS
<1>3. Cardinality({}) = 0 /\ Cardinality({1}) = 1
  BY FS_EmptySet, FS_Singleton
<1>4. n \in {0, 1}
  BY <1>2, <1>3
<1>5. authUser = Nobody \/ observers[1].prev = authUser => n = 0
  BY <1>3
<1> HIDE DEF n
<1> QED BY <1>1, <1>4, <1>5

\* It is called with the current user.
LEMMA SingleNotified ==
    ASSUME IInv, Len(observers) = 1, Notifying
    PROVE  /\ Len(observers') = 1 /\ observers'[1].prev = authUser
           /\ authUser = Nobody \/ observers[1].prev = authUser => WorkerLoads' \subseteq WorkerLoads
           /\ NoWorkerLoad => OneWorkerLoad'
           /\ UNCHANGED <<listeners, keychain, authUser, depth>>
<1>1. TypeOK /\ worker \in Seq(Task(Len(heap))) /\ DOMAIN observers = {1}
      /\ main # << >> /\ Head(main) \in Block(Len(heap), Len(observers))
  <2>1. TypeOK /\ StoreTypeOK /\ ManagerTypeOK /\ SessionTypeOK
    BY DEF IInv, TypeOK
  <2>2. main # << >>
    BY DEF Notifying, RunAuthBlock, RunInitialBlock
  <2>3. worker \in Seq(Task(Len(heap)))
    BY <2>1 DEF StoreTypeOK
  <2>4. DOMAIN observers = {1}
    BY <2>1 DEF SessionTypeOK
  <2> QED BY <2>1, <2>2, <2>3, <2>4, NextBlock
<1>2. PICK tasks \in Seq(Task(Len(heap))) :
        Notify({1}, tasks) /\ \A j \in DOMAIN tasks : ~IsLoad(tasks[j])
  <2>1. CASE RunAuthBlock
    <3> DEFINE u == Head(main).user
               task == UserTask(u)
    <3>1. task \in Task(Len(heap)) /\ ~IsLoad(task)
      BY <1>1, <2>1 DEF RunAuthBlock, Block, UserTask, Task, IsLoad
    <3>2. \/ Notify({1}, << >>)
          \/ Notify({1}, <<task>>)
      BY <1>1, <2>1 DEF RunAuthBlock
    <3> HIDE DEF task
    <3>3. /\ << >> \in Seq(Task(Len(heap))) /\ <<task>> \in Seq(Task(Len(heap)))
          /\ \A j \in DOMAIN << >> : ~IsLoad(<< >>[j])
          /\ \A j \in DOMAIN <<task>> : ~IsLoad(<<task>>[j])
      BY <3>1
    <3> QED BY <3>2, <3>3
  <2>2. CASE RunInitialBlock
    <3>1. Head(main).observer \in 1 .. 1
      BY <1>1, <2>2 DEF RunInitialBlock, Block
    <3>2. Head(main).observer = 1
      BY <3>1
    <3>3. Notify({1}, << >>)
      BY <2>2, <3>2 DEF RunInitialBlock
    <3>4. << >> \in Seq(Task(Len(heap))) /\ \A j \in DOMAIN << >> : ~IsLoad(<< >>[j])
      OBVIOUS
    <3> QED BY <3>3, <3>4
  <2> QED BY <2>1, <2>2 DEF Notifying
<1> DEFINE S == {Asked({1})[j] : j \in DOMAIN Asked({1})}
           before == worker \o tasks
<1>3. worker' = worker \o tasks \o Asked({1}) /\ Asked({1}) \in Seq(S)
  BY <1>1, <1>2, NotifyAsks
<1>4. before \in Seq(Task(Len(heap))) /\ worker' = before \o Asked({1})
  BY <1>1, <1>2, <1>3
<1>5. ASSUME NEW i \in DOMAIN before, IsLoad(before[i])
      PROVE  i \in WorkerLoads
  BY <1>1, <1>2, <1>5, ElementOfConcat DEF WorkerLoads
<1> HIDE DEF before, S
<1>6. ASSUME NEW i \in WorkerLoads'
      PROVE  i \in WorkerLoads \/ i - Len(before) \in DOMAIN Asked({1})
  <2>1. i \in DOMAIN worker' /\ IsLoad(worker'[i])
    BY <1>6 DEF WorkerLoads, IsLoad
  <2>2. \/ i \in DOMAIN before /\ worker'[i] = before[i]
        \/ i - Len(before) \in DOMAIN Asked({1})
    BY <1>3, <1>4, <2>1, PlaceInConcat
  <2> QED BY <1>5, <2>1, <2>2
<1>7. authUser = Nobody \/ observers[1].prev = authUser => WorkerLoads' \subseteq WorkerLoads
  BY <1>1, <1>6, SingleAsks
<1>8. NoWorkerLoad => OneWorkerLoad'
  <2> SUFFICES ASSUME NoWorkerLoad, NEW i \in WorkerLoads', NEW j \in WorkerLoads'
               PROVE  i = j
    BY DEF OneWorkerLoad
  <2>1. i - Len(before) = 1 /\ j - Len(before) = 1
    BY <1>1, <1>6, SingleAsks DEF NoWorkerLoad
  <2>2. i \in Int /\ j \in Int /\ Len(before) \in Nat
    <3>1. IInv'
      BY Invariance DEF Notifying, Next, MainStep
    <3>2. DOMAIN worker' \subseteq Int
      BY <3>1 DEF IInv, TypeOK, StoreTypeOK
    <3> QED BY <1>4, <3>2 DEF WorkerLoads
  <2> QED BY <2>1, <2>2
<1>9. Len(observers') = 1 /\ observers'[1].prev = authUser
  <2>1. observers' = [i \in {1} |-> [observers[1] EXCEPT !.prev = authUser]]
    BY <1>1, <1>2 DEF Notify
  <2>2. observers \in Seq([login : Nat, prev : Users \cup {Nobody, Unset}])
    BY <1>1 DEF TypeOK, SessionTypeOK
  <2>3. observers[1] \in [login : Nat, prev : Users \cup {Nobody, Unset}]
    <3>1. 1 \in 1 .. Len(observers)
      OBVIOUS
    <3> QED BY <2>2, <3>1, ElementOfSeq
  <2>4. observers'[1].prev = authUser
    BY <2>1, <2>3
  <2>5. Len(observers') = Len(observers)
    BY <1>1, <1>2, NotifyTypes DEF TypeOK
  <2> QED BY <2>4, <2>5
<1>10. UNCHANGED <<listeners, keychain, authUser, depth>>
  BY DEF Notifying, RunAuthBlock, RunInitialBlock
<1> QED BY <1>7, <1>8, <1>9, <1>10

\* The steps that matter to it.
LEMMA ListenerLifeSteps ==
    ASSUME IInv, observers # << >>, [Next]_vars, Len(observers') = 1
    PROVE  \/ Crash
           \/ /\ Len(observers) = 1
              /\ \/ Notifying \/ LoadKeychain \/ (\E u \in Users : SignInAnswered(u))
                 \/ SignOutByForce \/ RunLoadCallback
                 \/ UNCHANGED <<authUser, keychain, depth>>
              /\ Notifying \/ UNCHANGED observers
<1>1. observers \in Seq([login : Nat, prev : Users \cup {Nobody, Unset}])
  BY DEF IInv, TypeOK, SessionTypeOK
<1>2. ASSUME NEW o, observers' = Append(observers, o)
      PROVE  FALSE
  <2>1. Len(observers') = Len(observers) + 1 /\ Len(observers) \in Nat \ {0}
    BY <1>1, <1>2
  <2> QED BY <2>1
<1>3. ~ReturnFromSignUp /\ ~SignOut
  BY <1>2 DEF ReturnFromSignUp, SignOut, checkLoggedIn
<1>4. Notifying => Len(observers) = 1
  <2>1. ASSUME NEW I, NEW tasks, Notify(I, tasks)
        PROVE  Len(observers) = 1
    <3>1. DOMAIN observers' = DOMAIN observers
      BY <2>1 DEF Notify
    <3>2. DOMAIN observers = 1 .. Len(observers) /\ Len(observers) \in Nat
      BY <1>1
    <3>3. IInv'
      BY Invariance
    <3>4. DOMAIN observers' = 1 .. 1
      BY <3>3 DEF IInv, TypeOK, SessionTypeOK
    <3> QED BY <3>1, <3>2, <3>4
  <2> QED BY <2>1 DEF Notifying, RunAuthBlock, RunInitialBlock
<1>5. CASE UserStep
  BY <1>3, <1>5 DEF UserStep, SendSignIn, OpenTable, AddTransaction, SaveEdit, DeleteTransaction,
                    sessionVars
<1>6. CASE MainStep
  BY <1>4, <1>6 DEF MainStep, Notifying, RunLoadCallback, RunRemoveCallback, RunUpdateCallback,
                    RunErrorCallback, sessionVars
<1>7. CASE AuthStep
  BY <1>7 DEF AuthStep, LoadKeychain, RefreshToken, SignOutByForce, SignInAnswered,
                SignInRefused, storeVars, sessionVars
<1>8. CASE Frame \/ UNCHANGED vars
  BY <1>8 DEF Frame, sessionVars, vars
<1> QED BY <1>5, <1>6, <1>7, <1>8 DEF Next

\* When no load is awaited there is none.
LEMMA NothingAwaited ==
    ASSUME \A c \in Awaited : c.kind # "load"
    PROVE  NoLoad
<1>1. NoWorkerLoad
  BY DEF Awaited, OnWorkerQueue, NoWorkerLoad, WorkerLoads, IsLoad
<1>2. NoLoadListener
  BY DEF Awaited, Registered, NoLoadListener, LoadListeners
<1>3. NoMainLoad
  BY DEF Awaited, OnMainQueue, NoMainLoad, MainLoads
<1> QED BY <1>1, <1>2, <1>3 DEF NoLoad

\* If there is none, there is one at most.
LEMMA NoneIsOne == NoLoad => OneLoad
BY DEF NoLoad, OneLoad, NoWorkerLoad, OneWorkerLoad, NoLoadListener, OneLoadListener,
       NoMainLoad, OneMainLoad

\* The callback of the only load is run, and there is none.
LEMMA LoadRun ==
    ASSUME IInv, OneLoad, RunLoadCallback
    PROVE  ~NoLoad /\ NoLoad'
<1>1. main \in Seq(Block(Len(heap), Len(observers)))
  BY DEF IInv, TypeOK, StoreTypeOK
<1>2. 1 \in MainLoads /\ worker' = worker /\ listeners' = listeners /\ main' = Tail(main)
  <2>1. /\ main # << >> /\ Head(main).kind = "snapshot" /\ Head(main).callback.kind = "load"
        /\ main' = Tail(main)
    BY DEF RunLoadCallback, Answered
  <2>2. 1 \in DOMAIN main /\ main[1] = Head(main)
    BY <1>1, <2>1
  <2>3. worker' = worker /\ listeners' = listeners
    BY DEF RunLoadCallback, setLoadedTransactions
  <2> QED BY <2>1, <2>2, <2>3 DEF MainLoads
<1>3. NoWorkerLoad /\ NoLoadListener
  BY <1>2 DEF OneLoad, NoMainLoad
<1>4. NoWorkerLoad' /\ NoLoadListener'
  BY <1>2, <1>3 DEF NoWorkerLoad, WorkerLoads, NoLoadListener, LoadListeners, IsLoad
<1>5. NoMainLoad'
  <2>1. \A i \in DOMAIN Tail(main) : /\ i \in Nat \ {0} /\ i + 1 \in DOMAIN main
                                     /\ Tail(main)[i] = main[i + 1]
    BY <1>1, <1>2 DEF RunLoadCallback, Answered
  <2> SUFFICES ASSUME NEW i \in MainLoads'
               PROVE  FALSE
    BY DEF NoMainLoad
  <2>2. i + 1 \in MainLoads /\ i \in Nat \ {0}
    BY <1>2, <2>1 DEF MainLoads
  <2>3. i + 1 = 1
    BY <1>2, <2>2 DEF OneLoad, OneMainLoad
  <2> QED BY <2>2, <2>3
<1> QED BY <1>2, <1>4, <1>5 DEF NoLoad, NoMainLoad

\* When it is called, its load is the only one.
LEMMA NotifyingLoads ==
    ASSUME IInv, LoadedOnce, OneListener, Notifying, [Next]_vars
    PROVE  LoadedOnce'
<1>1. /\ OneLoad
      /\ OnTabs \/ ToBeLoaded => NoLoad
      /\ OnTabs => ~ToBeLoaded
      /\ authUser # keychain => observers[1].prev # keychain
  BY DEF LoadedOnce
<1>2. /\ observers'[1].prev = authUser
      /\ authUser = Nobody \/ observers[1].prev = authUser => WorkerLoads' \subseteq WorkerLoads
      /\ NoWorkerLoad => OneWorkerLoad'
      /\ UNCHANGED <<listeners, keychain, authUser, depth>>
  BY SingleNotified DEF OneListener
<1>3. /\ NoLoadListener' <=> NoLoadListener
      /\ OneLoadListener' <=> OneLoadListener
      /\ OnTabs' <=> OnTabs
  BY <1>2 DEF NoLoadListener, OneLoadListener, LoadListeners, OnTabs
<1>4. authUser \in {Nobody, keychain}
  BY DEF IInv, TypeOK, SessionTypeOK
<1>5. CASE authUser = Nobody \/ observers[1].prev = authUser
  <2>1. (NoWorkerLoad => NoWorkerLoad') /\ (OneWorkerLoad => OneWorkerLoad')
    BY <1>2, <1>5 DEF NoWorkerLoad, OneWorkerLoad
  <2>2. NoLoad => NoLoad'
    BY <1>3, <2>1, MainLoadsLeft DEF NoLoad
  <2>3. OneLoad'
    <3>1. CASE NoLoadListener
      <4>1. OneMainLoad' /\ (NoMainLoad => NoMainLoad')
        BY <1>1, <3>1, MainLoadsLeft DEF OneLoad
      <4> QED BY <1>1, <1>3, <2>1, <3>1, <4>1 DEF OneLoad
    <3>2. CASE ~NoLoadListener
      <4>1. NoWorkerLoad /\ NoMainLoad /\ OneLoadListener
        BY <1>1, <3>2 DEF OneLoad
      <4>2. OneMainLoad' /\ (NoLoadListener' \/ NoMainLoad')
        BY <4>1, MainLoadsLeft
      <4> QED BY <1>1, <1>3, <2>1, <4>1, <4>2 DEF OneLoad
    <3> QED BY <3>1, <3>2
  <2>4. ToBeLoaded' => ToBeLoaded
    BY <1>1, <1>2, <1>4, <1>5 DEF ToBeLoaded
  <2>5. authUser' # keychain' => observers'[1].prev # keychain'
    BY <1>2
  <2> QED BY <1>1, <1>3, <2>2, <2>3, <2>4, <2>5 DEF LoadedOnce
<1>6. CASE authUser # Nobody /\ observers[1].prev # authUser
  <2>1. ToBeLoaded /\ authUser = keychain
    BY <1>4, <1>6 DEF ToBeLoaded
  <2>2. NoLoad /\ ~OnTabs
    BY <1>1, <2>1
  <2>3. OneWorkerLoad' /\ NoLoadListener' /\ NoMainLoad'
    BY <1>2, <1>3, <2>2, MainLoadsLeft DEF NoLoad
  <2>4. OneLoad'
    <3>1. OneLoadListener' /\ OneMainLoad'
      BY <2>3 DEF NoLoadListener, OneLoadListener, NoMainLoad, OneMainLoad
    <3> QED BY <2>3, <3>1 DEF OneLoad
  <2>5. ~ToBeLoaded' /\ ~OnTabs'
    BY <1>2, <1>3, <2>1, <2>2 DEF ToBeLoaded
  <2> QED BY <1>2, <2>4, <2>5 DEF LoadedOnce
<1> QED BY <1>5, <1>6

\* A launch has no load yet.
LEMMA CrashLoads ==
    ASSUME IInv, Crash
    PROVE  LoadedOnce' /\ observers' # << >> /\ ~OnTabs'
<1>1. /\ main' = <<InitialBlock(1)>> /\ worker' = << >>
      /\ listeners' = [q \in Queries |-> << >>]
      /\ observers' = <<Observer(1)>> /\ depth' = 1
  BY DEF Crash, Launched, StoreCrash
<1>2. NoLoad'
  <2>1. \A i \in DOMAIN main' : main'[i].kind # "snapshot"
    BY <1>1 DEF InitialBlock
  <2>2. NoMainLoad' /\ NoWorkerLoad'
    BY <1>1, <2>1 DEF NoMainLoad, MainLoads, NoWorkerLoad, WorkerLoads
  <2>3. \A q \in Queries : listeners'[q] = << >>
    BY <1>1
  <2>4. NoLoadListener'
    BY <2>3 DEF NoLoadListener, LoadListeners
  <2> QED BY <2>2, <2>4 DEF NoLoad
<1>3. NoLoad' => OneLoad'
  BY DEF NoLoad, OneLoad, NoWorkerLoad, OneWorkerLoad, NoLoadListener, OneLoadListener,
         NoMainLoad, OneMainLoad
<1>4. ~OnTabs'
  BY <1>1 DEF OnTabs
<1>5. authUser' # keychain' => observers'[1].prev # keychain'
  <2>1. authUser' \in {Nobody, keychain} /\ keychain' = keychain
    BY DEF Crash, Launched
  <2>2. observers'[1].prev = Unset
    BY <1>1 DEF Observer
  <2>3. keychain # Unset
    BY MarkerAssumption DEF IInv, TypeOK, SessionTypeOK
  <2> QED BY <2>1, <2>2, <2>3
<1> QED BY <1>1, <1>2, <1>3, <1>4, <1>5 DEF LoadedOnce

\* The listener loads once.
LEMMA LoadedOnceStep ==
    ASSUME IInv, Waiting, observers # << >>, LoadedOnce, [Next]_vars
    PROVE  LoadedOnce' /\ observers' # << >>
<1>1. observers' # << >>
  <2>1. observers \in Seq([login : Nat, prev : Users \cup {Nobody, Unset}])
    BY DEF IInv, TypeOK, SessionTypeOK
  <2>2. CASE Crash
    BY <2>2, CrashLoads
  <2>3. ASSUME NEW o, observers' = Append(observers, o)
        PROVE  observers' # << >>
    BY <2>1, <2>3
  <2>4. ASSUME NEW I, NEW tasks, Notify(I, tasks)
        PROVE  observers' # << >>
    <3>1. DOMAIN observers' = DOMAIN observers /\ 1 \in DOMAIN observers
      BY <2>1, <2>4 DEF Notify
    <3> QED BY <3>1
  <2>5. CASE UserStep
    BY <2>3, <2>5 DEF UserStep, SendSignIn, SignOut, ReturnFromSignUp, checkLoggedIn, OpenTable,
                      AddTransaction, SaveEdit, DeleteTransaction, sessionVars
  <2>6. CASE MainStep
    BY <2>4, <2>6 DEF MainStep, RunAuthBlock, RunInitialBlock, RunLoadCallback, RunRemoveCallback,
                      RunUpdateCallback, RunErrorCallback, sessionVars
  <2>7. CASE AuthStep
    BY <2>7 DEF AuthStep, LoadKeychain, RefreshToken, SignOutByForce, SignInAnswered,
                SignInRefused, storeVars, sessionVars
  <2>8. CASE Frame \/ UNCHANGED vars
    BY <2>8 DEF Frame, sessionVars, vars
  <2> QED BY <2>2, <2>5, <2>6, <2>7, <2>8 DEF Next
<1>2. CASE Crash
  BY <1>1, <1>2, CrashLoads
<1>3. CASE ~Crash
  <2> SUFFICES ASSUME OneListener' PROVE LoadedOnce'
    BY <1>1 DEF LoadedOnce
  <2>1. /\ Patient /\ Len(observers) = 1
        /\ \/ Notifying \/ LoadKeychain \/ (\E u \in Users : SignInAnswered(u))
           \/ SignOutByForce \/ RunLoadCallback
           \/ UNCHANGED <<authUser, keychain, depth>>
        /\ Notifying \/ UNCHANGED observers
    BY <1>3, Patience, ListenerLifeSteps DEF OneListener, Waiting
  <2>2. OneListener
    BY <2>1 DEF OneListener
  <2>3. /\ OneLoad
        /\ OnTabs \/ ToBeLoaded => NoLoad
        /\ OnTabs => ~ToBeLoaded
        /\ authUser # keychain => observers[1].prev # keychain
    BY <2>2 DEF LoadedOnce
  <2>4. CASE Notifying
    BY <2>2, <2>4, NotifyingLoads
  <2>5. CASE ~Notifying
    <3>1. (NoLoad => NoLoad') /\ (OneLoad => OneLoad') /\ UNCHANGED observers
      BY <2>1, <2>5, LoadsLeft
    <3>2. CASE UNCHANGED <<authUser, keychain, depth>>
      <4>1. (OnTabs' <=> OnTabs) /\ (ToBeLoaded' <=> ToBeLoaded)
        BY <3>1, <3>2 DEF OnTabs, ToBeLoaded
      <4> QED BY <2>3, <3>1, <3>2, <4>1 DEF LoadedOnce
    <3>3. CASE LoadKeychain
      <4>1. authUser' = keychain /\ keychain' = keychain /\ depth' = depth
        BY <3>3 DEF LoadKeychain
      <4>2. (OnTabs' <=> OnTabs) /\ (ToBeLoaded' <=> ToBeLoaded)
        BY <3>1, <4>1 DEF OnTabs, ToBeLoaded
      <4> QED BY <2>3, <3>1, <4>1, <4>2 DEF LoadedOnce
    <3>4. CASE SignOutByForce
      <4>1. authUser' = Nobody /\ keychain' = Nobody /\ depth' = depth
        BY <3>4 DEF SignOutByForce
      <4>2. (OnTabs' <=> OnTabs) /\ ~ToBeLoaded'
        BY <4>1 DEF OnTabs, ToBeLoaded
      <4> QED BY <2>3, <3>1, <4>1, <4>2 DEF LoadedOnce
    <3>5. CASE \E u \in Users : SignInAnswered(u)
      <4>1. OnLogin /\ \A c \in Awaited : c.kind # "load"
        BY <2>1, <3>5 DEF Waiting, Waits, SigningIn, SignInAnswered
      <4>2. NoLoad' /\ OneLoad'
        BY <3>1, <4>1, NothingAwaited, NoneIsOne
      <4>3. authUser' = keychain' /\ ~OnTabs /\ depth' = depth
        BY <3>5, <4>1 DEF SignInAnswered, OnLogin, OnTabs
      <4>4. ~OnTabs'
        BY <4>3 DEF OnTabs
      <4> QED BY <4>2, <4>3, <4>4 DEF LoadedOnce
    <3>6. CASE RunLoadCallback
      <4>1. ~NoLoad /\ NoLoad'
        BY <2>3, <3>6, LoadRun
      <4>2. ~ToBeLoaded /\ UNCHANGED <<authUser, keychain>>
        BY <2>3, <3>6, <4>1 DEF RunLoadCallback
      <4>3. ~ToBeLoaded' /\ OneLoad'
        BY <2>3, <3>1, <4>2 DEF ToBeLoaded
      <4> QED BY <2>3, <3>1, <4>1, <4>2, <4>3 DEF LoadedOnce
    <3> QED BY <2>1, <2>5, <3>2, <3>3, <3>4, <3>5, <3>6
  <2> QED BY <2>4, <2>5
<1> QED BY <1>2, <1>3

\* The table goes on showing what the manager has.
LEMMA SameTableStep ==
    ASSUME IInv, HurryBounded, ShownOnce, observers # << >>, LoadedOnce, SameTable, [Next]_vars
    PROVE  SameTable'
<1> SUFFICES ASSUME OneListener', OnTabs', list' # NotLoaded
             PROVE  list' = transactions'
  BY DEF SameTable
<1>1. ~Crash
  BY CrashLoads
<1>3. OneListener
  BY <1>1, Patience, ListenerLifeSteps DEF OneListener
<1>4. CASE RunLoadCallback
  <2>1. ~OnTabs
    BY <1>3, <1>4, LoadRun DEF LoadedOnce
  <2>2. depth' = depth
    BY <1>4 DEF RunLoadCallback
  <2> QED BY <2>1, <2>2 DEF OnTabs
<1>5. CASE OpenTable
  BY <1>5 DEF OpenTable, managerVars
<1>6. CASE AddTransaction
  BY <1>6 DEF AddTransaction
<1>7. CASE SaveEdit
  <2>1. PICK row \in DOMAIN list : \E c : updatetransaction(list[row], c)
    BY <1>7 DEF SaveEdit
  <2>2. PICK c : updatetransaction(list[row], c)
    BY <2>1
  <2>3. list = transactions /\ list' = list
    BY <1>3, <1>7 DEF SameTable, SaveEdit
  <2>4. list[row] \in 1 .. Len(heap)
    BY <1>7, RowTypes DEF SaveEdit
  <2>5. \E i \in DOMAIN transactions : transactions[i] = list[row]
    BY <2>3
  <2>6. transactions' = transactions
    BY <2>2, <2>4, <2>5, EditKeepsEntries
  <2> QED BY <2>3, <2>6
<1>8. CASE DeleteTransaction
  <2>1. PICK row \in DOMAIN list :
           /\ list' = Subsequence(list, DOMAIN list \ {row})
           /\ removeTransaction(heap[list[row]].id)
    BY <1>8 DEF DeleteTransaction
  <2>2. list = transactions
    BY <1>3, <1>8 DEF SameTable, DeleteTransaction
  <2>3. PositionsOf(transactions, heap[transactions[row]].id) = {row}
    BY <2>1, <2>2, DeletionOfRow
  <2> QED BY <2>1, <2>2, <2>3 DEF removeTransaction
<1>9. CASE UNCHANGED <<list, transactions, depth>>
  <2>1. OnTabs /\ list # NotLoaded
    BY <1>9 DEF OnTabs
  <2> QED BY <1>3, <1>9, <2>1 DEF SameTable
<1>10. \/ RunLoadCallback \/ OpenTable \/ AddTransaction \/ SaveEdit \/ DeleteTransaction
       \/ UNCHANGED <<list, transactions, depth>>
  <2>1. ~SignOut
    <3>1. observers \in Seq([login : Nat, prev : Users \cup {Nobody, Unset}])
      BY DEF IInv, TypeOK, SessionTypeOK
    <3>2. SignOut => \E o : observers' = Append(observers, o)
      BY DEF SignOut, checkLoggedIn
    <3>3. ASSUME NEW o, observers' = Append(observers, o)
          PROVE  FALSE
      <4>1. Len(observers') = Len(observers) + 1 /\ Len(observers) \in Nat \ {0}
        BY <3>1, <3>3
      <4> QED BY <4>1 DEF OneListener
    <3> QED BY <3>2, <3>3
  <2>2. CASE UserStep
    BY <2>1, <2>2 DEF UserStep, SendSignIn, ReturnFromSignUp, managerVars
  <2>3. CASE MainStep
    BY <2>3 DEF MainStep, RunAuthBlock, RunInitialBlock, RunRemoveCallback, deleteFound,
                RunUpdateCallback, updateFound, RunErrorCallback, managerVars, sessionVars
  <2>4. CASE AuthStep
    BY <2>4 DEF AuthStep, LoadKeychain, RefreshToken, SignOutByForce, SignInAnswered,
                SignInRefused, storeVars, managerVars, sessionVars
  <2>5. CASE Frame \/ UNCHANGED vars
    BY <2>5 DEF Frame, managerVars, sessionVars, vars
  <2> QED BY <1>1, <2>2, <2>3, <2>4, <2>5 DEF Next
<1> QED BY <1>4, <1>5, <1>6, <1>7, <1>8, <1>9, <1>10

\* A step keeps the invariant.
LEMMA TabularStep == Tabular /\ [Next]_vars => Tabular'
<1> SUFFICES ASSUME Tabular, [Next]_vars PROVE Tabular'
  OBVIOUS
<1>1. IInv /\ Provenance /\ InCache /\ Waiting /\ HurryBounded
  BY DEF Tabular, Belonging, Provenance, Filing, Waiting
<1>2. Belonging'
  BY BelongingStep DEF Tabular
<1>3. AnswersGenuine'
  BY <1>1, AnswersGenuineStep DEF Tabular
<1>4. ShownOnce' /\ ShownAdded'
  BY <1>1, ShownOnceStep DEF Tabular
<1>5. LoadedOnce' /\ observers' # << >>
  BY <1>1, LoadedOnceStep DEF Tabular
<1>6. SameTable'
  BY <1>1, SameTableStep DEF Tabular
<1> QED BY <1>2, <1>3, <1>4, <1>5, <1>6 DEF Tabular

\* It holds at first.
LEMMA TabularInit == Init => Tabular
<1> SUFFICES ASSUME Init PROVE Tabular
  OBVIOUS
<1>1. /\ worker = << >> /\ listeners = [q \in Queries |-> << >>] /\ transactions = << >>
      /\ main = <<InitialBlock(1)>> /\ observers = <<Observer(1)>> /\ depth = 1
      /\ keychain = Nobody /\ authUser = Nobody /\ list = NotLoaded
  BY DEF Init, StoreInit, ManagerInit
<1>2. Belonging
  BY BelongingInit
<1>3. \A i \in DOMAIN main : main[i].kind # "snapshot"
  BY <1>1 DEF InitialBlock
<1>4. AnswersGenuine /\ ShownOnce /\ ShownAdded
  BY <1>1, <1>3 DEF AnswersGenuine, ShownOnce, ShownAdded, Shown
<1>5. NoLoad
  BY <1>1, <1>3 DEF NoLoad, NoWorkerLoad, WorkerLoads, NoLoadListener, LoadListeners,
                    NoMainLoad, MainLoads
<1>6. OneLoad /\ ~OnTabs
  BY <1>1, <1>5, NoneIsOne DEF OnTabs
<1> QED BY <1>1, <1>2, <1>4, <1>5, <1>6 DEF Tabular, LoadedOnce, SameTable

\* The table shows the manager's array, object for object, and has the rows
\* UIKit is told of, while there is one listener and users wait: an edit or a
\* deletion touches the entry of the row only, since no transaction is shown
\* twice, and the single load is answered before the table opens.
THEOREM TableIsManagers == Spec => []TableShowsManager
<1>1. Tabular => TableShowsManager
  BY DEF Tabular, SameTable, OneListener, Patient, TableShowsManager
<1> QED BY <1>1, TabularInit, TabularStep, PTL DEF Spec
-----------------------------------------------------------------------------
\* What is deleted stays deleted.

\* What is written has a drawn key.
TasksDrawn ==
    \A i \in DOMAIN worker : worker[i].kind = "write" => worker[i].mutation.key \in UsedKeys
QueuesDrawn ==
    \A u \in Users \cup {Nobody} : \A i \in DOMAIN mutations[u] :
        mutations[u][i].key \in UsedKeys

\* No write of a document is ahead of its creation.
OnWorkerFirst ==
    \A i, j \in DOMAIN worker :
        worker[i].kind = "write" /\ IsCreation(worker[j])
        /\ worker[i].mutation.key = worker[j].mutation.key => j <= i
FiledFirst ==
    \A u \in Users \cup {Nobody} : \A i \in DOMAIN mutations[u] :
        ~ToBeFiled(mutations[u][i].key)
InQueuesFirst ==
    \A u \in Users \cup {Nobody} : \A i, j \in DOMAIN mutations[u] :
        mutations[u][j].op = "set" /\ mutations[u][i].key = mutations[u][j].key => j <= i

\* A deletion of d is queued for the user u, behind place n.
DeletionQueued(d, u, n) == \E j \in DOMAIN mutations[u] : j > n /\ mutations[u][j] = Delete(d)

\* While a creation of d may be sent again, and while it has been, a deletion
\* is queued behind it for the same user.
StaysGone(d) ==
    /\ d \in UsedKeys /\ ~ToBeFiled(d)
    /\ \A u \in Users \cup {Nobody} : \A i \in DOMAIN mutations[u] :
          mutations[u][i].op = "set" /\ mutations[u][i].key = d => DeletionQueued(d, u, i)
    /\ server[d] # Absent => DeletionQueued(d, server[d].user_id, 0)

GoneForGood == Patient => \A d \in history.gone \ history.refused : StaysGone(d)

\* The inductive invariant.
Finality ==
    /\ Filing /\ Uniqueness /\ InCache /\ AnswersGenuine
    /\ TasksDrawn /\ QueuesDrawn /\ OnWorkerFirst /\ FiledFirst /\ InQueuesFirst
    /\ GoneForGood

\* A key that is drawn stays so.
LEMMA DrawnStays ==
    ASSUME IInv, [Next]_vars
    PROVE  UsedKeys \subseteq UsedKeys'
<1> SUFFICES ASSUME NEW d \in UsedKeys
             PROVE  d \in UsedKeys'
  OBVIOUS
<1>1. PICK x \in Ids : added[x] # NotAdded /\ d = added[x].key
  BY DEF UsedKeys
<1>2. added'[x] = added[x]
  BY <1>1, AddedStays
<1> QED BY <1>1, <1>2 DEF UsedKeys

\* A task that may follow a creation: it creates nothing, and what it writes has
\* a drawn key.
MayFollow(task) ==
    ~IsCreation(task) /\ (task.kind = "write" => task.mutation.key \in UsedKeys)

\* Only such tasks are put behind those on the worker queue.
AddsBehind ==
    \A i \in DOMAIN worker' :
        \/ i \in DOMAIN worker /\ worker'[i] = worker[i]
        \/ i > Len(worker) /\ MayFollow(worker'[i])

\* It is so when they are appended.
LEMMA AppendedBehind ==
    ASSUME IInv, NEW T, NEW t \in Seq(T), worker' = worker \o t,
           \A j \in DOMAIN t : MayFollow(t[j])
    PROVE  AddsBehind
<1>1. worker \in Seq(Task(Len(heap)))
  BY DEF IInv, TypeOK, StoreTypeOK
<1> SUFFICES ASSUME NEW i \in DOMAIN worker'
             PROVE  \/ i \in DOMAIN worker /\ worker'[i] = worker[i]
                    \/ i > Len(worker) /\ MayFollow(worker'[i])
  BY DEF AddsBehind
<1>2. \/ i \in DOMAIN worker /\ worker'[i] = worker[i]
      \/ i - Len(worker) \in DOMAIN t /\ worker'[i] = t[i - Len(worker)]
  BY <1>1, PlaceInConcat
<1>3. i - Len(worker) \in DOMAIN t => i > Len(worker)
  <2>1. worker' \in Seq(Task(Len(heap)) \cup T)
    BY <1>1, SeqGrows
  <2> QED BY <1>1, <2>1
<1> QED BY <1>2, <1>3

\* Listeners that are called ask for loads behind what the queue has.
LEMMA NotifiedBehind ==
    ASSUME IInv, NEW I \in SUBSET DOMAIN observers,
           NEW tasks \in Seq(Task(Len(heap))), Notify(I, tasks),
           \A j \in DOMAIN tasks : MayFollow(tasks[j])
    PROVE  AddsBehind
<1>1. /\ worker' = worker \o tasks \o Asked(I)
      /\ Asked(I) \in Seq({Asked(I)[j] : j \in DOMAIN Asked(I)})
      /\ \A j \in DOMAIN Asked(I) : \E q, c : Asked(I)[j] = ListenTask(q, c)
  BY NotifyAsks DEF IInv
<1>2. \A j \in DOMAIN Asked(I) : MayFollow(Asked(I)[j])
  BY <1>1 DEF ListenTask, IsCreation, MayFollow
<1> DEFINE S == {Asked(I)[j] : j \in DOMAIN Asked(I)}
           R == Task(Len(heap)) \cup S
           t == tasks \o Asked(I)
<1>3. Asked(I) \in Seq(S)
  BY <1>1
<1>4. worker \in Seq(Task(Len(heap)))
  BY DEF IInv, TypeOK, StoreTypeOK
<1> HIDE DEF S
<1>5. worker \in Seq(R) /\ tasks \in Seq(R) /\ Asked(I) \in Seq(R)
  BY <1>3, <1>4, SeqGrows
<1>6. \A j \in DOMAIN t : MayFollow(t[j])
  BY <1>2, <1>5, ElementOfConcat
<1> HIDE DEF R
<1>7. worker \o tasks \o Asked(I) = worker \o t
  BY <1>5
<1>8. t \in Seq(R)
  BY <1>5
<1> HIDE DEF t
<1> QED BY <1>1, <1>6, <1>7, <1>8, AppendedBehind

\* What a step does to the worker's queue, as far as writes go.
LEMMA WorkerWrites ==
    ASSUME Provenance, AnswersGenuine, [Next]_vars
    PROVE  AddsBehind \/ TakesTask \/ AddTransaction
<1>1. IInv /\ worker \in Seq(Task(Len(heap))) /\ main \in Seq(Block(Len(heap), Len(observers)))
  BY DEF Provenance, IInv, TypeOK, StoreTypeOK
<1>2. CASE worker' = worker \/ worker' = << >>
  BY <1>1, <1>2 DEF AddsBehind
<1>3. ASSUME NEW q, NEW c, worker' = Append(worker, ListenTask(q, c))
      PROVE  AddsBehind
  <2> DEFINE task == ListenTask(q, c)
  <2>1. MayFollow(task)
    BY DEF ListenTask, IsCreation, MayFollow
  <2> HIDE DEF task
  <2>2. worker' = worker \o <<task>> /\ <<task>> \in Seq({task})
    BY <1>1, <1>3 DEF task
  <2>3. \A j \in DOMAIN <<task>> : MayFollow(<<task>>[j])
    BY <2>1
  <2> QED BY <1>1, <2>2, <2>3, AppendedBehind
<1>4. CASE SaveEdit \/ DeleteTransaction
  <2>1. worker' = worker \/ \E q, c : worker' = Append(worker, ListenTask(q, c))
    BY <1>4 DEF SaveEdit, updatetransaction, DeleteTransaction, removeTransaction
  <2> QED BY <1>2, <1>3, <2>1
<1>5. CASE RunAuthBlock \/ RunInitialBlock
  <2>1. main # << >> /\ Head(main) \in Block(Len(heap), Len(observers))
    BY <1>1, <1>5 DEF RunAuthBlock, RunInitialBlock
  <2>2. /\ << >> \in Seq(Task(Len(heap)))
        /\ \A j \in DOMAIN << >> : MayFollow(<< >>[j])
    OBVIOUS
  <2>3. CASE RunAuthBlock
    <3> DEFINE task == UserTask(Head(main).user)
    <3>1. task \in Task(Len(heap))
      BY <2>1, <2>3 DEF RunAuthBlock, Block, UserTask, Task
    <3>2. MayFollow(task)
      BY DEF UserTask, IsCreation, MayFollow
    <3>3. Notify(DOMAIN observers, << >>) \/ Notify(DOMAIN observers, <<task>>)
      BY <2>3 DEF RunAuthBlock
    <3> HIDE DEF task
    <3>4. /\ <<task>> \in Seq(Task(Len(heap)))
          /\ \A j \in DOMAIN <<task>> : MayFollow(<<task>>[j])
      BY <3>1, <3>2
    <3>5. DOMAIN observers \in SUBSET DOMAIN observers
      OBVIOUS
    <3> QED BY <1>1, <2>2, <3>3, <3>4, <3>5, NotifiedBehind
  <2>4. CASE RunInitialBlock
    <3>1. Notify({Head(main).observer}, << >>)
      BY <2>4 DEF RunInitialBlock
    <3>2. {Head(main).observer} \in SUBSET DOMAIN observers
      <4>1. Head(main).observer \in 1 .. Len(observers)
        BY <2>1, <2>4 DEF RunInitialBlock, Block
      <4> QED BY <1>1, <4>1 DEF IInv, TypeOK, SessionTypeOK
    <3> QED BY <1>1, <2>2, <3>1, <3>2, NotifiedBehind
  <2> QED BY <1>5, <2>3, <2>4
<1>6. CASE RunRemoveCallback \/ RunUpdateCallback
  <2> DEFINE docs == Head(main).docs
             r == Head(main).callback.ref
             n == Cardinality(Found(docs))
             removal(i) == WriteTask(Delete(Ascending(Found(docs))[i]))
             patch(i) == WriteTask(Patch(Ascending(Found(docs))[i], Encode(heap[r].content)))
  <2>1. docs \in [DocIds -> DocState]
    BY <1>1, <1>6, AnsweredTypes DEF RunRemoveCallback, RunUpdateCallback
  <2>2. \A d \in Found(docs) : d \in UsedKeys
    <3>1. 1 \in DOMAIN main /\ docs = main[1].docs /\ main[1].kind = "snapshot"
      BY <1>1, <1>6 DEF RunRemoveCallback, RunUpdateCallback, Answered
    <3> HIDE DEF docs
    <3>2. AllGenuine(added, docs)
      BY <3>1 DEF AnswersGenuine
    <3>3. \A d \in Found(docs) : d \in DocIds /\ docs[d] \in Document /\ Genuine(added, d, docs[d])
      BY <2>1, <3>2 DEF AllGenuine, Found, DocState
    <3> QED BY <3>3, GenuineDrawn
  <2>3. n \in Nat /\ \A i \in 1 .. n : Ascending(Found(docs))[i] \in UsedKeys
    <3> HIDE DEF docs
    <3>1. n \in Nat /\ \A i \in 1 .. n : /\ Ascending(Found(docs))[i] \in DocIds
                                         /\ docs[Ascending(Found(docs))[i]] \in Document
      BY <2>1, FoundProperties
    <3>2. \A i \in 1 .. n : Ascending(Found(docs))[i] \in Found(docs)
      BY <3>1, MarkerAssumption DEF Found
    <3> QED BY <2>2, <3>1, <3>2
  <2>4. \A i \in 1 .. n : MayFollow(removal(i)) /\ MayFollow(patch(i))
    BY <2>3 DEF WriteTask, Delete, Patch, IsCreation, MayFollow
  <2>5. \/ worker' = worker \o [i \in 1 .. n |-> removal(i)]
        \/ worker' = worker \o [i \in 1 .. n |-> patch(i)]
    BY <1>6 DEF RunRemoveCallback, deleteFound, RunUpdateCallback, updateFound
  <2>6. n \in Nat
    BY <2>3
  <2> HIDE DEF removal, patch, n
  <2>7. CASE worker' = worker \o [i \in 1 .. n |-> removal(i)]
    <3> DEFINE t == [i \in 1 .. n |-> removal(i)]
    <3>1. t \in Seq({removal(i) : i \in 1 .. n}) /\ \A i \in DOMAIN t : MayFollow(t[i])
      BY <2>4, <2>6
    <3>2. worker' = worker \o t
      BY <2>7
    <3> HIDE DEF t
    <3> QED BY <1>1, <3>1, <3>2, AppendedBehind
  <2>8. CASE worker' = worker \o [i \in 1 .. n |-> patch(i)]
    <3> DEFINE t == [i \in 1 .. n |-> patch(i)]
    <3>1. t \in Seq({patch(i) : i \in 1 .. n}) /\ \A i \in DOMAIN t : MayFollow(t[i])
      BY <2>4, <2>6
    <3>2. worker' = worker \o t
      BY <2>8
    <3> HIDE DEF t
    <3> QED BY <1>1, <3>1, <3>2, AppendedBehind
  <2> QED BY <2>5, <2>7, <2>8
<1>7. \/ worker' = worker \/ worker' = << >> \/ TakesTask \/ AddTransaction
      \/ SaveEdit \/ DeleteTransaction \/ RunAuthBlock \/ RunInitialBlock
      \/ RunRemoveCallback \/ RunUpdateCallback
  <2>1. CASE UserStep
    BY <2>1 DEF UserStep, SendSignIn, SignOut, ReturnFromSignUp, OpenTable, storeVars
  <2>2. CASE MainStep
    BY <2>2 DEF MainStep, RunLoadCallback, setLoadedTransactions, RunErrorCallback
  <2>3. CASE AuthStep
    BY <2>3 DEF AuthStep, LoadKeychain, RefreshToken, SignOutByForce, SignInAnswered,
                SignInRefused, storeVars
  <2>4. CASE Crash
    BY <2>4 DEF Crash, Launched, StoreCrash
  <2>5. CASE Frame /\ StoreStep({Encode(c) : c \in NewContents})
    <3>1. CASE UserDidChange \/ WriteMutations \/ AddListener
      BY <3>1 DEF UserDidChange, WriteMutations, AddListener, TakesTask
    <3>2. CASE ~(UserDidChange \/ WriteMutations \/ AddListener)
      BY <2>5, <3>2 DEF StoreStep, RaiseFromServer, RaiseFromCache, RejectListen,
                  ApplySuccessfulWrite, CommitWithoutResponse, RejectFailedWrite, GoOffline,
                  GoOnline, OtherDevice
    <3> QED BY <3>1, <3>2
  <2>6. CASE UNCHANGED vars
    BY <2>6 DEF vars
  <2> QED BY <2>1, <2>2, <2>3, <2>4, <2>5, <2>6 DEF Next
<1> QED BY <1>2, <1>4, <1>5, <1>6, <1>7

\* A creation stays the first write of its document on the worker's queue, and
\* no creation of a drawn key is put there.
LEMMA OnWorkerFirstStep ==
    ASSUME Provenance, AnswersGenuine, TasksDrawn, OnWorkerFirst, [Next]_vars
    PROVE  /\ TasksDrawn' /\ OnWorkerFirst'
           /\ \A d \in UsedKeys : ToBeFiled(d)' => ToBeFiled(d)
<1>1. IInv /\ worker \in Seq(Task(Len(heap))) /\ DOMAIN worker = 1 .. Len(worker)
      /\ Len(worker) \in Nat
  BY DEF Provenance, IInv, TypeOK, StoreTypeOK
<1>2. UsedKeys \subseteq UsedKeys'
  BY <1>1, DrawnStays
<1>3. CASE AddsBehind
  <2>1. TasksDrawn'
    BY <1>2, <1>3 DEF AddsBehind, MayFollow, TasksDrawn
  <2>a. ASSUME NEW i \in DOMAIN worker', NEW j \in DOMAIN worker', worker'[i].kind = "write",
               IsCreation(worker'[j]), worker'[i].mutation.key = worker'[j].mutation.key
        PROVE  j <= i
    <3>1. j \in DOMAIN worker /\ worker'[j] = worker[j]
      BY <1>3, <2>a DEF AddsBehind, MayFollow
    <3>2. CASE i \in DOMAIN worker /\ worker'[i] = worker[i]
      BY <2>a, <3>1, <3>2 DEF OnWorkerFirst
    <3>3. CASE i > Len(worker)
      <4>1. i \in Nat
        <5>1. worker' \in Seq(Task(Len(heap')))
          BY <1>1, Invariance DEF IInv, TypeOK, StoreTypeOK
        <5> QED BY <5>1
      <4> QED BY <1>1, <3>1, <3>3, <4>1
    <3> QED BY <1>3, <3>2, <3>3 DEF AddsBehind
  <2>2. OnWorkerFirst'
    BY <2>a DEF OnWorkerFirst
  <2>3. \A d \in UsedKeys : ToBeFiled(d)' => ToBeFiled(d)
    BY <1>3 DEF AddsBehind, MayFollow, ToBeFiled
  <2> QED BY <2>1, <2>2, <2>3
<1>4. CASE TakesTask
  <2>1. \A i \in DOMAIN worker' : i \in Nat /\ i + 1 \in DOMAIN worker /\ worker'[i] = worker[i + 1]
    BY <1>1, <1>4 DEF TakesTask
  <2>2. TasksDrawn'
    BY <1>2, <2>1 DEF TasksDrawn
  <2>3. ASSUME NEW i \in DOMAIN worker', NEW j \in DOMAIN worker', worker'[i].kind = "write",
               IsCreation(worker'[j]), worker'[i].mutation.key = worker'[j].mutation.key
        PROVE  j <= i
    <3>1. j + 1 <= i + 1
      BY <2>1, <2>3 DEF OnWorkerFirst
    <3> QED BY <2>1, <3>1
  <2>4. OnWorkerFirst'
    BY <2>3 DEF OnWorkerFirst
  <2>5. \A d \in UsedKeys : ToBeFiled(d)' => ToBeFiled(d)
    BY <2>1 DEF ToBeFiled
  <2> QED BY <2>2, <2>4, <2>5
<1>5. CASE AddTransaction
  <2>1. PICK e \in DocIds \ UsedKeys :
          \A i \in DOMAIN worker' :
             \/ i \in DOMAIN worker /\ worker'[i] = worker[i]
             \/ i = Len(worker) + 1 /\ worker'[i].mutation.key = e /\ e \in UsedKeys'
    BY <1>1, <1>5, AddedCreation
  <2>2. TasksDrawn'
    BY <1>2, <2>1 DEF TasksDrawn
  <2>3. ASSUME NEW i \in DOMAIN worker', NEW j \in DOMAIN worker', worker'[i].kind = "write",
               IsCreation(worker'[j]), worker'[i].mutation.key = worker'[j].mutation.key
        PROVE  j <= i
    <3>1. CASE j \in DOMAIN worker /\ worker'[j] = worker[j]
               /\ i \in DOMAIN worker /\ worker'[i] = worker[i]
      BY <2>3, <3>1 DEF OnWorkerFirst
    <3>2. CASE j \in DOMAIN worker /\ i = Len(worker) + 1
      BY <1>1, <3>2
    <3>3. CASE j = Len(worker) + 1 /\ i = Len(worker) + 1
      BY <1>1, <3>3
    <3>4. CASE i \in DOMAIN worker /\ worker'[i] = worker[i] /\ worker'[j].mutation.key = e
      BY <2>1, <2>3, <3>4 DEF TasksDrawn
    <3> QED BY <2>1, <3>1, <3>2, <3>3, <3>4
  <2>4. OnWorkerFirst'
    BY <2>3 DEF OnWorkerFirst
  <2>5. \A d \in UsedKeys : ToBeFiled(d)' => ToBeFiled(d)
    BY <2>1 DEF ToBeFiled
  <2> QED BY <2>2, <2>4, <2>5
<1> QED BY <1>3, <1>4, <1>5, WorkerWrites

\* What a step does to the mutation queues.
LEMMA QueueSteps ==
    ASSUME IInv, [Next]_vars
    PROVE  \/ mutations' = mutations
           \/ WriteMutations
           \/ Sending /\ DropNextWrite
BY WritingSteps DEF ApplySuccessfulWrite, CommitWithoutResponse, RejectFailedWrite,
   OtherDevices, OtherDevice

\* So it stays the first write of its document in the mutation queue.
LEMMA InQueuesFirstStep ==
    ASSUME Provenance, AnswersGenuine, TasksDrawn, QueuesDrawn, OnWorkerFirst, FiledFirst,
           InQueuesFirst, [Next]_vars
    PROVE  QueuesDrawn' /\ FiledFirst' /\ InQueuesFirst'
<1> DEFINE Owners == Users \cup {Nobody}
<1>1. IInv /\ StoreTypeOK /\ worker \in Seq(Task(Len(heap)))
      /\ mutations \in [Owners -> Seq(Mutation)]
  BY DEF Provenance, IInv, TypeOK, StoreTypeOK
<1>2. UsedKeys \subseteq UsedKeys' /\ \A d \in UsedKeys : ToBeFiled(d)' => ToBeFiled(d)
  BY <1>1, DrawnStays, OnWorkerFirstStep
<1>3. ASSUME NEW u \in Owners, NEW i \in DOMAIN mutations[u]
      PROVE  /\ mutations[u][i].key \in UsedKeys'
             /\ ~(\E k \in DOMAIN worker' : /\ IsCreation(worker'[k])
                                            /\ worker'[k].mutation.key = mutations[u][i].key)
  <2>1. PICK e : e = mutations[u][i].key
    OBVIOUS
  <2>2. e \in UsedKeys /\ ~ToBeFiled(e)
    BY <2>1 DEF QueuesDrawn, FiledFirst
  <2>3. ~ToBeFiled(e)'
    BY <1>2, <2>2
  <2> QED BY <1>2, <2>1, <2>2, <2>3 DEF ToBeFiled
<1>4. CASE mutations' = mutations
  BY <1>3, <1>4 DEF QueuesDrawn, FiledFirst, ToBeFiled, InQueuesFirst
<1>5. CASE Sending /\ DropNextWrite
  <2>1. ASSUME NEW u \in Owners, NEW i \in DOMAIN mutations'[u]
        PROVE  /\ i \in Nat \ {0} /\ Was(u, i) \in DOMAIN mutations[u]
               /\ mutations'[u][i] = mutations[u][Was(u, i)]
    BY <1>1, <1>5, DropMoves
  <2>2. QueuesDrawn' /\ FiledFirst'
    BY <1>3, <2>1 DEF QueuesDrawn, FiledFirst, ToBeFiled
  <2>3. ASSUME NEW u \in Owners, NEW i \in DOMAIN mutations'[u], NEW j \in DOMAIN mutations'[u],
               mutations'[u][j].op = "set", mutations'[u][i].key = mutations'[u][j].key
        PROVE  j <= i
    <3>1. Was(u, j) <= Was(u, i)
      BY <2>1, <2>3 DEF InQueuesFirst
    <3> QED BY <2>1, <3>1 DEF Was
  <2> QED BY <2>2, <2>3 DEF InQueuesFirst
<1>6. CASE WriteMutations
  <2> DEFINE m == Head(worker).mutation
  <2>1. /\ 1 \in DOMAIN worker /\ m = worker[1].mutation /\ worker[1].kind = "write"
        /\ \A k \in DOMAIN worker' : k \in Nat /\ k + 1 \in DOMAIN worker
                                     /\ worker'[k] = worker[k + 1] /\ ~(k + 1 <= 1)
    BY <1>1, <1>6 DEF WriteMutations
  <2>2. ASSUME NEW u \in Owners, NEW i \in DOMAIN mutations'[u]
        PROVE  \/ i \in DOMAIN mutations[u] /\ mutations'[u][i] = mutations[u][i]
               \/ u = fsUser /\ i = Len(mutations[u]) + 1 /\ mutations'[u][i] = m
    BY <1>1, <1>6, FiledLast
  <2>3. /\ m.key \in UsedKeys'
        /\ ~(\E k \in DOMAIN worker' : IsCreation(worker'[k]) /\ worker'[k].mutation.key = m.key)
    BY <1>2, <2>1 DEF TasksDrawn, OnWorkerFirst
  <2>4. m.op = "set" => ToBeFiled(m.key)
    BY <2>1 DEF ToBeFiled, IsCreation
  <2> HIDE DEF m
  <2>5. QueuesDrawn' /\ FiledFirst'
    BY <1>3, <2>2, <2>3 DEF QueuesDrawn, FiledFirst, ToBeFiled
  <2>6. ASSUME NEW u \in Owners, NEW i \in DOMAIN mutations'[u], NEW j \in DOMAIN mutations'[u],
               mutations'[u][j].op = "set", mutations'[u][i].key = mutations'[u][j].key
        PROVE  j <= i
    <3>1. DOMAIN mutations[u] = 1 .. Len(mutations[u]) /\ Len(mutations[u]) \in Nat
      BY <1>1
    <3>2. CASE i \in DOMAIN mutations[u] /\ mutations'[u][i] = mutations[u][i]
               /\ j \in DOMAIN mutations[u] /\ mutations'[u][j] = mutations[u][j]
      BY <2>6, <3>2 DEF InQueuesFirst
    <3>3. CASE i \in DOMAIN mutations[u] /\ mutations'[u][i] = mutations[u][i] /\ mutations'[u][j] = m
      <4>1. ~ToBeFiled(mutations[u][i].key)
        BY <3>3 DEF FiledFirst
      <4> QED BY <2>4, <2>6, <3>3, <4>1
    <3>4. CASE i = Len(mutations[u]) + 1
      BY <2>2, <3>1, <3>4
    <3> QED BY <2>2, <3>2, <3>3, <3>4
  <2> QED BY <2>5, <2>6 DEF InQueuesFirst
<1> QED BY <1>1, <1>4, <1>5, <1>6, QueueSteps

\* Two documents of one key name the same user.
LEMMA OneOwner ==
    ASSUME KeysOnce, NEW d \in DocIds, NEW a \in Document, NEW b \in Document,
           Genuine(added, d, a), Genuine(added, d, b)
    PROVE  a.user_id = b.user_id
<1>1. /\ a.id \in Ids /\ a.user_id \in Users /\ b.id \in Ids /\ b.user_id \in Users
  BY DEF Document
<1>2. /\ added[a.id] = [key |-> d, user |-> a.user_id]
      /\ added[b.id] = [key |-> d, user |-> b.user_id]
  BY DEF Genuine
<1>3. added[a.id] # NotAdded /\ added[b.id] # NotAdded /\ d # NoKey
  <2>1. /\ [key |-> d, user |-> a.user_id] \in [key : DocIds \cup {NoKey},
                                                user : Users \cup {Nobody}]
        /\ [key |-> d, user |-> b.user_id] \in [key : DocIds \cup {NoKey},
                                                user : Users \cup {Nobody}]
    BY <1>1
  <2> QED BY <1>2, <2>1, MarkerAssumption
<1>4. a.id = b.id
  BY <1>1, <1>2, <1>3 DEF KeysOnce
<1> QED BY <1>2, <1>4

\* A creation names the user in whose queue it is, and so does a document of the
\* same key.
LEMMA CreatedFor ==
    ASSUME Provenance, KeysOnce, FiledUnderOwner, Patient,
           NEW u \in Users \cup {Nobody}, NEW i \in DOMAIN mutations[u],
           mutations[u][i].op = "set",
           NEW doc \in Document, Genuine(added, mutations[u][i].key, doc)
    PROVE  doc.user_id = u
<1> DEFINE m == mutations[u][i]
<1>1. m \in Mutation
  BY DEF Provenance, IInv, TypeOK, StoreTypeOK
<1>2. m.key \in DocIds /\ m.document \in Document
  BY <1>1 DEF Mutation
<1>3. Genuine(added, m.key, m.document) /\ m.document.user_id = u
  BY DEF Provenance, InQueues, FiledUnderOwner
<1>4. Genuine(added, m.key, doc)
  OBVIOUS
<1> HIDE DEF m
<1>5. doc.user_id = m.document.user_id
  BY <1>2, <1>3, <1>4, OneOwner
<1> QED BY <1>3, <1>5

\* The write of a queue that deletes d.
LEMMA DeletionWrite ==
    ASSUME StoreTypeOK, NEW u \in Users \cup {Nobody}, NEW i \in DOMAIN mutations[u],
           mutations[u][i].op = "delete"
    PROVE  mutations[u][i] = Delete(mutations[u][i].key)
<1> DEFINE m == mutations[u][i]
<1>1. m \in Mutation /\ m.op = "delete"
  BY DEF StoreTypeOK
<1> HIDE DEF m
<1>2. m \in [op : {"delete"}, key : DocIds]
  BY <1>1 DEF Mutation
<1>3. m = Delete(m.key)
  BY <1>2 DEF Delete
<1> QED BY <1>3 DEF m

\* A commit removes a document that was created, and so finds its deletion
\* behind its creation.
LEMMA RemovedByCommit ==
    ASSUME Provenance, KeysOnce, FiledUnderOwner, InQueuesFirst, Patient,
           NEW u \in Users \cup {Nobody}, NEW i \in DOMAIN mutations[u], NEW d \in DocIds,
           mutations[u][i].op = "delete", mutations[u][i].key = d,
           NEW doc \in Document, Genuine(added, d, doc), doc.user_id = u
    PROVE  /\ \A v \in Users \cup {Nobody} : \A k \in DOMAIN mutations[v] :
                 mutations[v][k].op = "set" /\ mutations[v][k].key = d => DeletionQueued(d, v, k)
           /\ \A e \in Document : Genuine(added, d, e) => DeletionQueued(d, e.user_id, 0)
<1>1. StoreTypeOK /\ mutations[u] \in Seq(Mutation) /\ i \in Nat \ {0}
  BY DEF Provenance, IInv, TypeOK, StoreTypeOK
<1>2. mutations[u][i] = Delete(d)
  BY <1>1, DeletionWrite
<1>3. ASSUME NEW v \in Users \cup {Nobody}, NEW k \in DOMAIN mutations[v],
             mutations[v][k].op = "set", mutations[v][k].key = d
      PROVE  DeletionQueued(d, v, k)
  <2>1. v = u
    BY <1>3, CreatedFor
  <2>2. k <= i /\ k # i /\ k \in Nat
    BY <1>1, <1>3, <2>1 DEF InQueuesFirst
  <2> QED BY <1>1, <1>2, <2>1, <2>2 DEF DeletionQueued
<1>4. ASSUME NEW e \in Document, Genuine(added, d, e)
      PROVE  DeletionQueued(d, e.user_id, 0)
  <2>1. e.user_id = u
    BY <1>4, OneOwner
  <2> QED BY <1>1, <1>2, <2>1 DEF DeletionQueued
<1> QED BY <1>3, <1>4

\* A commit leaves a deletion behind everything that may bring d back.
LEMMA CommitStaysGone ==
    ASSUME Provenance, KeysOnce, FiledUnderOwner, QueuesDrawn, FiledFirst, InQueuesFirst,
           GoneForGood, Patient, Sending, added' = added,
           NEW n \in Nat \ {0}, CommitWrites(n),
           NEW d \in history'.gone \ history'.refused
    PROVE  /\ d \in UsedKeys /\ ~ToBeFiled(d)
           /\ \A u \in Users \cup {Nobody} : \A i \in DOMAIN mutations[u] :
                 mutations[u][i].op = "set" /\ mutations[u][i].key = d => DeletionQueued(d, u, i)
           /\ \A v : d \in DocIds /\ v = server'[d] /\ v # Absent => DeletionQueued(d, v.user_id, 0)
<1> DEFINE q == mutations[fsUser]
<1>1. StoreTypeOK /\ fsUser \in Users \cup {Nobody} /\ q \in Seq(Mutation)
  BY SendingTypes DEF Provenance, IInv, TypeOK, StoreTypeOK
<1>2. n <= Len(q)
  BY <1>1, CommitEffect
<1>a. \E R \in SUBSET DocIds :
         /\ history' = [history EXCEPT !.gone = @ \cup R]
         /\ \A e \in R : \E i \in 1 .. n :
               /\ mutations[fsUser][i].key = e
               /\ mutations[fsUser][i].op = "delete"
               /\ Written(SubSeq(mutations[fsUser], 1, i - 1), server[e], e) # Absent
               /\ Written(SubSeq(mutations[fsUser], 1, i - 1), server[e], e).user_id = fsUser
  BY <1>1, CommitEffect, Zenon
<1>3. PICK R \in SUBSET DocIds :
         /\ history' = [history EXCEPT !.gone = @ \cup R]
         /\ \A e \in R : \E i \in 1 .. n :
               /\ q[i].key = e /\ q[i].op = "delete"
               /\ Written(SubSeq(q, 1, i - 1), server[e], e) # Absent
               /\ Written(SubSeq(q, 1, i - 1), server[e], e).user_id = fsUser
  BY <1>a, Zenon
<1>4. /\ history'.gone = history.gone \cup R /\ history'.refused = history.refused
      /\ d \in DocIds
  BY <1>1, <1>3 DEF StoreTypeOK
<1>5. ASSUME NEW v, v = server'[d], v # Absent
      PROVE  v \in Document /\ Genuine(added, d, v)
  <2>1. OnServer' /\ server' \in [DocIds -> DocState]
    BY <1>1, CommitGenuine, CommitWritesTypes
  <2>2. Genuine(added', d, server'[d])
    BY <1>4, <1>5, <2>1 DEF OnServer
  <2> QED BY <1>4, <1>5, <2>1, <2>2 DEF DocState
<1>6. CASE d \in R
  <2>1. PICK i \in 1 .. n :
               /\ q[i].key = d /\ q[i].op = "delete"
               /\ Written(SubSeq(q, 1, i - 1), server[d], d) # Absent
               /\ Written(SubSeq(q, 1, i - 1), server[d], d).user_id = fsUser
    BY <1>3, <1>6
  <2>2. i \in DOMAIN q /\ i - 1 \in Nat /\ i - 1 <= Len(q)
    BY <1>1, <1>2
  <2> DEFINE sent == SubSeq(q, 1, i - 1)
             doc == Written(sent, server[d], d)
  <2>3. doc # Absent /\ doc.user_id = fsUser
    BY <2>1
  <2>4. /\ sent \in Seq(Mutation)
        /\ \A k \in DOMAIN sent : k \in DOMAIN q /\ sent[k] = q[k]
    <3>1. sent = Sent(i - 1)
      BY DEF Sent
    <3>2. /\ Sent(i - 1) \in Seq(Mutation) /\ DOMAIN Sent(i - 1) = 1 .. i - 1
          /\ \A k \in 1 .. i - 1 : k \in DOMAIN q /\ Sent(i - 1)[k] = q[k]
      BY <1>1, <2>2, SentTypes
    <3> QED BY <3>1, <3>2
  <2>5. GenuineOrNone(d, server[d])
    BY <1>1, <1>4 DEF Provenance, OnServer, StoreTypeOK, GenuineOrNone
  <2>6. \A k \in DOMAIN sent : sent[k].op = "set" /\ sent[k].key = d
                                  => Genuine(added, d, sent[k].document)
    BY <1>1, <2>4 DEF Provenance, InQueues
  <2> HIDE DEF sent
  <2>7. GenuineOrNone(d, doc)
    BY <2>4, <2>5, <2>6, WrittenGenuine
  <2> HIDE DEF doc
  <2>8. doc \in Document /\ Genuine(added, d, doc)
    BY <2>3, <2>7 DEF GenuineOrNone, DocState
  <2>9. /\ \A v \in Users \cup {Nobody} : \A k \in DOMAIN mutations[v] :
              mutations[v][k].op = "set" /\ mutations[v][k].key = d => DeletionQueued(d, v, k)
        /\ \A e \in Document : Genuine(added, d, e) => DeletionQueued(d, e.user_id, 0)
    BY <1>1, <1>4, <2>1, <2>2, <2>3, <2>8, RemovedByCommit
  <2>10. d \in UsedKeys /\ ~ToBeFiled(d)
    BY <1>1, <2>1, <2>2 DEF QueuesDrawn, FiledFirst
  <2> QED BY <1>5, <2>9, <2>10
<1>7. CASE d \in history.gone
  <2>1. StaysGone(d)
    BY <1>4, <1>7 DEF GoneForGood
  <2>2. ASSUME NEW v, v = server'[d], v # Absent
        PROVE  DeletionQueued(d, v.user_id, 0)
    <3>1. v \in Document /\ Genuine(added, d, v)
      BY <1>5, <2>2
    <3>2. CASE server[d] # Absent
      <4>1. server[d] \in Document
        BY <1>1, <1>4, <3>2 DEF StoreTypeOK, DocState
      <4>2. Genuine(added, d, server[d])
        BY <1>4, <3>2 DEF Provenance, OnServer
      <4>3. v.user_id = server[d].user_id
        BY <1>4, <3>1, <4>1, <4>2, OneOwner
      <4>4. DeletionQueued(d, server[d].user_id, 0)
        BY <2>1, <3>2 DEF StaysGone
      <4> QED BY <4>3, <4>4
    <3>3. CASE \E i \in DOMAIN q : q[i].op = "set" /\ q[i].key = d
      <4>1. PICK i \in DOMAIN q : q[i].op = "set" /\ q[i].key = d
        BY <3>3
      <4>2. v.user_id = fsUser
        BY <1>1, <3>1, <4>1, CreatedFor
      <4>3. DeletionQueued(d, fsUser, i)
        BY <1>1, <2>1, <4>1 DEF StaysGone
      <4>4. DeletionQueued(d, fsUser, 0)
        BY <1>1, <4>3 DEF DeletionQueued
      <4> QED BY <4>2, <4>4
    <3> QED BY <1>1, <1>4, <2>2, <3>2, <3>3, CommittedDocuments
  <2> QED BY <2>1, <2>2 DEF StaysGone
<1> QED BY <1>4, <1>6, <1>7

\* A deletion that is queued behind a write stays there when the first write of
\* a queue is dropped, and stays queued unless it is that write.
LEMMA DropKeepsDeletion ==
    ASSUME StoreTypeOK, Sending, DropNextWrite, NEW d, NEW u \in Users \cup {Nobody}
    PROVE  /\ \A n \in DOMAIN mutations'[u] :
                 DeletionQueued(d, u, Was(u, n)) =>
                    \E j \in DOMAIN mutations'[u] : j > n /\ mutations'[u][j] = Delete(d)
           /\ NextWrite # Delete(d) /\ DeletionQueued(d, u, 0) =>
                 \E j \in DOMAIN mutations'[u] : j > 0 /\ mutations'[u][j] = Delete(d)
<1>1. /\ \A i \in DOMAIN mutations'[u] :
            /\ i \in Nat \ {0} /\ Was(u, i) \in DOMAIN mutations[u]
            /\ mutations'[u][i] = mutations[u][Was(u, i)]
      /\ \A j \in DOMAIN mutations[u] :
            \/ u = fsUser /\ j = 1 /\ mutations[u][j] = NextWrite
            \/ \E i \in DOMAIN mutations'[u] : Was(u, i) = j
  BY DropMoves
<1>2. ASSUME NEW n \in DOMAIN mutations'[u], DeletionQueued(d, u, Was(u, n))
      PROVE  \E j \in DOMAIN mutations'[u] : j > n /\ mutations'[u][j] = Delete(d)
  <2>1. PICK j \in DOMAIN mutations[u] : j > Was(u, n) /\ mutations[u][j] = Delete(d)
    BY <1>2 DEF DeletionQueued
  <2>2. n \in Nat \ {0}
    BY <1>1
  <2>3. ~(u = fsUser /\ j = 1)
    BY <2>1, <2>2 DEF Was
  <2>4. PICK i \in DOMAIN mutations'[u] : Was(u, i) = j
    BY <1>1, <2>3
  <2>5. i > n /\ mutations'[u][i] = Delete(d)
    BY <1>1, <2>1, <2>2, <2>4 DEF Was
  <2> QED BY <2>5
<1>3. ASSUME NextWrite # Delete(d), DeletionQueued(d, u, 0)
      PROVE  \E j \in DOMAIN mutations'[u] : j > 0 /\ mutations'[u][j] = Delete(d)
  <2>1. PICK j \in DOMAIN mutations[u] : j > 0 /\ mutations[u][j] = Delete(d)
    BY <1>3 DEF DeletionQueued
  <2>2. PICK i \in DOMAIN mutations'[u] : Was(u, i) = j
    BY <1>1, <1>3, <2>1
  <2>3. i > 0 /\ mutations'[u][i] = Delete(d)
    BY <1>1, <2>1, <2>2
  <2> QED BY <2>3
<1> QED BY <1>2, <1>3

\* Where no queue changes, no creation is put on the worker's queue and no
\* document made, d stays gone.
LEMMA UndisturbedGone ==
    ASSUME NEW d, StaysGone(d), UsedKeys \subseteq UsedKeys', ToBeFiled(d)' => ToBeFiled(d),
           mutations' = mutations,
           server'[d] # Absent =>
               server[d] # Absent /\ server'[d].user_id = server[d].user_id
    PROVE  StaysGone(d)'
BY DEF StaysGone, DeletionQueued

\* When the first write of a queue is dropped, it does so if what the server has
\* now still has a deletion behind it, or is none.
LEMMA DroppedGone ==
    ASSUME StoreTypeOK, Sending, DropNextWrite, UsedKeys \subseteq UsedKeys',
           server' \in [DocIds -> DocState],
           NEW d \in DocIds, d \in UsedKeys, ~ToBeFiled(d)',
           \A u \in Users \cup {Nobody} : \A i \in DOMAIN mutations[u] :
              mutations[u][i].op = "set" /\ mutations[u][i].key = d => DeletionQueued(d, u, i),
           \A v : v = server'[d] /\ v # Absent =>
                     NextWrite # Delete(d) /\ DeletionQueued(d, v.user_id, 0)
    PROVE  StaysGone(d)'
<1>1. ASSUME NEW u \in Users \cup {Nobody}, NEW i \in DOMAIN mutations'[u],
             mutations'[u][i].op = "set", mutations'[u][i].key = d
      PROVE  \E j \in DOMAIN mutations'[u] : j > i /\ mutations'[u][j] = Delete(d)
  <2>1. Was(u, i) \in DOMAIN mutations[u] /\ mutations'[u][i] = mutations[u][Was(u, i)]
    BY DropMoves
  <2>2. DeletionQueued(d, u, Was(u, i))
    BY <1>1, <2>1
  <2> QED BY <2>2, DropKeepsDeletion
<1>2. ASSUME server'[d] # Absent
      PROVE  \E j \in DOMAIN mutations'[server'[d].user_id] :
                j > 0 /\ mutations'[server'[d].user_id][j] = Delete(d)
  <2>1. PICK v : v = server'[d]
    OBVIOUS
  <2>2. v \in Document
    BY <1>2, <2>1 DEF DocState
  <2>3. v.user_id \in Users \cup {Nobody}
    BY <2>2 DEF Document
  <2>4. NextWrite # Delete(d) /\ DeletionQueued(d, v.user_id, 0)
    BY <1>2, <2>1
  <2>5. \E j \in DOMAIN mutations'[v.user_id] : j > 0 /\ mutations'[v.user_id][j] = Delete(d)
    BY <2>3, <2>4, DropKeepsDeletion
  <2> QED BY <2>1, <2>5
<1>3. d \in UsedKeys'
  OBVIOUS
<1> QED BY <1>1, <1>2, <1>3 DEF StaysGone, DeletionQueued

\* What has gone for good stays so.
LEMMA GoneForGoodStep ==
    ASSUME Finality, [Next]_vars
    PROVE  GoneForGood'
<1>1. /\ Provenance /\ KeysOnce /\ FiledUnderOwner /\ AnswersGenuine /\ TasksDrawn
      /\ QueuesDrawn /\ OnWorkerFirst /\ FiledFirst /\ InQueuesFirst /\ GoneForGood
      /\ IInv /\ HurryBounded
  BY DEF Finality, Uniqueness, Once, Provenance, Filing, Waiting
<1>2. StoreTypeOK /\ history.gone \subseteq DocIds /\ StoreTypeOK'
  BY <1>1, Invariance DEF IInv, TypeOK, StoreTypeOK
<1>3. UsedKeys \subseteq UsedKeys' /\ \A d \in UsedKeys : ToBeFiled(d)' => ToBeFiled(d)
  BY <1>1, DrawnStays, OnWorkerFirstStep
<1> SUFFICES ASSUME Patient', NEW d \in history'.gone \ history'.refused
             PROVE  StaysGone(d)'
  BY DEF GoneForGood
<1>4. Patient
  BY <1>1, Patience
<1>5. history' \in [filed : SUBSET DocIds, deleted : SUBSET DocIds,
                    refused : SUBSET DocIds, gone : SUBSET DocIds]
      /\ d \in DocIds /\ server' \in [DocIds -> DocState]
  BY <1>2 DEF StoreTypeOK
<1>6. ASSUME d \in history.gone \ history.refused
      PROVE  /\ StaysGone(d) /\ d \in UsedKeys /\ ~ToBeFiled(d) /\ ~ToBeFiled(d)'
             /\ \A u \in Users \cup {Nobody} : \A i \in DOMAIN mutations[u] :
                   mutations[u][i].op = "set" /\ mutations[u][i].key = d => DeletionQueued(d, u, i)
             /\ server[d] # Absent => DeletionQueued(d, server[d].user_id, 0)
  <2>1. StaysGone(d)
    BY <1>1, <1>4, <1>6 DEF GoneForGood
  <2>2. d \in UsedKeys /\ ~ToBeFiled(d)
    BY <2>1 DEF StaysGone
  <2>3. ~ToBeFiled(d)'
    BY <1>3, <2>2
  <2> QED BY <2>1, <2>2, <2>3 DEF StaysGone
<1>7. CASE UNCHANGED <<server, mutations, history>>
  BY <1>3, <1>6, <1>7, UndisturbedGone DEF StaysGone
<1>8. CASE OtherDevices
  <2>1. history'.gone = history.gone /\ history'.refused = history.refused
        /\ mutations' = mutations
    BY <1>2, <1>8 DEF OtherDevices, OtherDevice, StoreTypeOK
  <2>2. server'[d] # Absent => server[d] # Absent /\ server'[d].user_id = server[d].user_id
    <3>1. PICK e \in Found(server) :
            \/ \E c \in {Encode(k) : k \in NewContents} :
                  server' = [server EXCEPT ![e].content = c]
            \/ server' = [server EXCEPT ![e] = Absent]
      BY <1>8 DEF OtherDevices, OtherDevice
    <3>2. /\ e \in DocIds /\ server[e] \in Document /\ server[e] # Absent
          /\ server \in [DocIds -> DocState]
      BY <1>2 DEF StoreTypeOK, Found, DocState
    <3>3. CASE d # e
      BY <1>5, <3>1, <3>2, <3>3
    <3>4. CASE d = e
      <4>1. CASE server' = [server EXCEPT ![e] = Absent]
        BY <3>2, <3>4, <4>1
      <4>2. ASSUME NEW c, server' = [server EXCEPT ![e].content = c]
            PROVE  server'[d].user_id = server[d].user_id
        <5>1. server'[e] = [server[e] EXCEPT !.content = c]
          BY <3>2, <4>2
        <5> QED BY <3>2, <3>4, <5>1 DEF Document
      <4> QED BY <3>1, <3>2, <3>4, <4>1, <4>2
    <3> QED BY <3>3, <3>4
  <2> QED BY <1>3, <1>6, <2>1, <2>2, UndisturbedGone DEF StaysGone
<1>9. CASE WriteMutations
  <2>1. /\ history'.gone = history.gone /\ history'.refused = history.refused
        /\ server' = server
    BY <1>2, <1>9 DEF WriteMutations, Recorded, StoreTypeOK
  <2>2. d \in history.gone \ history.refused
    BY <2>1
  <2>3. Head(worker).mutation.op = "set" => ToBeFiled(Head(worker).mutation.key)
    <3>1. 1 \in DOMAIN worker /\ Head(worker) = worker[1] /\ Head(worker).kind = "write"
      BY <1>2, <1>9, TailOfWorker DEF WriteMutations
    <3> QED BY <3>1 DEF ToBeFiled, IsCreation
  <2>4. ASSUME NEW u \in Users \cup {Nobody}, NEW n, DeletionQueued(d, u, n)
        PROVE  \E j \in DOMAIN mutations'[u] : j > n /\ mutations'[u][j] = Delete(d)
    <3>1. PICK j \in DOMAIN mutations[u] : j > n /\ mutations[u][j] = Delete(d)
      BY <2>4 DEF DeletionQueued
    <3>2. j \in DOMAIN mutations'[u] /\ mutations'[u][j] = mutations[u][j]
      BY <1>1, <1>9, FiledLast
    <3> QED BY <3>1, <3>2
  <2>5. ASSUME NEW u \in Users \cup {Nobody}, NEW i \in DOMAIN mutations'[u],
               mutations'[u][i].op = "set", mutations'[u][i].key = d
        PROVE  \E j \in DOMAIN mutations'[u] : j > i /\ mutations'[u][j] = Delete(d)
    <3>1. mutations'[u][i] # Head(worker).mutation
      BY <1>6, <2>2, <2>3, <2>5
    <3>2. i \in DOMAIN mutations[u] /\ mutations'[u][i] = mutations[u][i]
      BY <1>1, <1>9, <3>1, FiledLast
    <3>3. DeletionQueued(d, u, i)
      BY <1>6, <2>2, <2>5, <3>2
    <3> QED BY <2>4, <3>3
  <2>6. ASSUME server[d] # Absent
        PROVE  \E j \in DOMAIN mutations'[server[d].user_id] :
                  j > 0 /\ mutations'[server[d].user_id][j] = Delete(d)
    <3>1. server[d] \in Document
      BY <1>2, <1>5, <2>6 DEF StoreTypeOK, DocState
    <3>2. server[d].user_id \in Users \cup {Nobody}
      BY <3>1 DEF Document
    <3>3. DeletionQueued(d, server[d].user_id, 0)
      BY <1>6, <2>2, <2>6
    <3> QED BY <2>4, <3>2, <3>3
  <2>7. d \in UsedKeys' /\ ~ToBeFiled(d)'
    BY <1>3, <1>6, <2>2
  <2> QED BY <2>1, <2>5, <2>6, <2>7 DEF StaysGone, DeletionQueued
<1>10. CASE RejectFailedWrite
  <2>1. /\ Sending /\ DropNextWrite /\ server' = server /\ history'.gone = history.gone
        /\ history.refused \subseteq history'.refused
        /\ NextWrite.op # "patch" => NextWrite.key \in history'.refused
    BY <1>2, <1>10 DEF RejectFailedWrite, StoreTypeOK
  <2>2. d \in history.gone \ history.refused
    BY <2>1
  <2>3. NextWrite # Delete(d)
    BY <2>1 DEF Delete
  <2>4. \A v : v = server'[d] /\ v # Absent => NextWrite # Delete(d) /\ DeletionQueued(d, v.user_id, 0)
    BY <1>6, <2>1, <2>2, <2>3
  <2>5. /\ d \in UsedKeys /\ ~ToBeFiled(d)'
        /\ \A u \in Users \cup {Nobody} : \A i \in DOMAIN mutations[u] :
              mutations[u][i].op = "set" /\ mutations[u][i].key = d => DeletionQueued(d, u, i)
    BY <1>6, <2>2
  <2> QED BY <1>2, <1>3, <1>5, <2>1, <2>4, <2>5, DroppedGone
<1>11. ASSUME Sending, added' = added, NEW n \in Nat \ {0}, CommitWrites(n)
       PROVE  /\ d \in UsedKeys /\ ~ToBeFiled(d)'
              /\ \A u \in Users \cup {Nobody} : \A i \in DOMAIN mutations[u] :
                    mutations[u][i].op = "set" /\ mutations[u][i].key = d => DeletionQueued(d, u, i)
              /\ \A v : v = server'[d] /\ v # Absent => DeletionQueued(d, v.user_id, 0)
  <2>1. /\ d \in UsedKeys /\ ~ToBeFiled(d)
        /\ \A u \in Users \cup {Nobody} : \A i \in DOMAIN mutations[u] :
              mutations[u][i].op = "set" /\ mutations[u][i].key = d => DeletionQueued(d, u, i)
        /\ \A v : d \in DocIds /\ v = server'[d] /\ v # Absent => DeletionQueued(d, v.user_id, 0)
    BY <1>1, <1>4, <1>11, CommitStaysGone
  <2> QED BY <1>3, <1>5, <2>1
<1>12. CASE added' = added /\ CommitWithoutResponse
  <2>1. PICK n \in Nat \ {0} : CommitWrites(n)
    BY <1>12, SomeCommitted
  <2>2. Sending /\ mutations' = mutations
    BY <1>12 DEF CommitWithoutResponse
  <2>3. /\ d \in UsedKeys' /\ ~ToBeFiled(d)'
        /\ \A u \in Users \cup {Nobody} : \A i \in DOMAIN mutations[u] :
              mutations[u][i].op = "set" /\ mutations[u][i].key = d => DeletionQueued(d, u, i)
        /\ server'[d] # Absent => DeletionQueued(d, server'[d].user_id, 0)
    BY <1>3, <1>11, <1>12, <2>1, <2>2
  <2> QED BY <2>2, <2>3 DEF StaysGone, DeletionQueued
<1>13. CASE added' = added /\ ApplySuccessfulWrite
  <2>1. CommitWrites(1) /\ 1 \in Nat \ {0} /\ Sending /\ DropNextWrite
    BY <1>13 DEF ApplySuccessfulWrite
  <2>2. NextWrite = Delete(d) => server'[d] = Absent
    <3>1. server' = [server EXCEPT ![NextWrite.key] = ApplyTo(NextWrite, @)]
      BY <1>2, <2>1, OneCommit DEF CommitNextWrite
    <3>2. NextWrite = Delete(d) => ApplyTo(NextWrite, server[d]) = Absent /\ NextWrite.key = d
      BY DEF Delete, ApplyTo, Precondition
    <3> QED BY <1>2, <1>5, <3>1, <3>2 DEF StoreTypeOK
  <2>3. /\ d \in UsedKeys /\ ~ToBeFiled(d)'
        /\ \A u \in Users \cup {Nobody} : \A i \in DOMAIN mutations[u] :
              mutations[u][i].op = "set" /\ mutations[u][i].key = d => DeletionQueued(d, u, i)
        /\ \A v : v = server'[d] /\ v # Absent => DeletionQueued(d, v.user_id, 0)
    BY <1>11, <1>13, <2>1
  <2>4. \A v : v = server'[d] /\ v # Absent => NextWrite # Delete(d) /\ DeletionQueued(d, v.user_id, 0)
    BY <2>2, <2>3
  <2> QED BY <1>2, <1>3, <1>5, <2>1, <2>3, <2>4, DroppedGone
<1>14. added' = added \/ UNCHANGED <<server, mutations, history>>
  BY <1>1, StepsWithoutCreation DEF AddTransaction, addTransactions
<1> QED BY <1>7, <1>8, <1>9, <1>10, <1>12, <1>13, <1>14, WritingSteps

\* A step keeps the inductive invariant.
LEMMA FinalityStep == Finality /\ [Next]_vars => Finality'
<1> SUFFICES ASSUME Finality, [Next]_vars PROVE Finality'
  OBVIOUS
<1>1. /\ Filing /\ Uniqueness /\ Provenance /\ InCache /\ AnswersGenuine /\ TasksDrawn
      /\ QueuesDrawn /\ OnWorkerFirst /\ FiledFirst /\ InQueuesFirst
  BY DEF Finality, Uniqueness
<1>2. Filing' /\ Uniqueness' /\ InCache' /\ AnswersGenuine'
  BY <1>1, FilingStep, UniquenessStep, InCacheStep, AnswersGenuineStep
<1>3. TasksDrawn' /\ OnWorkerFirst' /\ QueuesDrawn' /\ FiledFirst' /\ InQueuesFirst'
  BY <1>1, OnWorkerFirstStep, InQueuesFirstStep
<1> QED BY <1>2, <1>3, GoneForGoodStep DEF Finality

\* It holds at first.
LEMMA FinalityInit == Init => Finality
<1> SUFFICES ASSUME Init PROVE Finality
  OBVIOUS
<1>1. Filing /\ Uniqueness
  BY FilingInit, UniquenessInit
<1>2. /\ cache = [d \in DocIds |-> Absent] /\ worker = << >> /\ main = <<InitialBlock(1)>>
      /\ mutations = [u \in Users \cup {Nobody} |-> << >>]
      /\ history = [filed |-> {}, deleted |-> {}, refused |-> {}, gone |-> {}]
  BY DEF Init, StoreInit
<1>3. /\ \A u \in Users \cup {Nobody} : DOMAIN mutations[u] = {}
      /\ DOMAIN worker = {} /\ \A i \in DOMAIN main : main[i].kind # "snapshot"
  BY <1>2 DEF InitialBlock
<1>4. InCache /\ AnswersGenuine
  BY <1>2, <1>3 DEF InCache, AnswersGenuine
<1>5. TasksDrawn /\ QueuesDrawn /\ OnWorkerFirst /\ FiledFirst /\ InQueuesFirst
  BY <1>3 DEF TasksDrawn, QueuesDrawn, OnWorkerFirst, FiledFirst, InQueuesFirst
<1>6. GoneForGood
  BY <1>2 DEF GoneForGood
<1> QED BY <1>1, <1>4, <1>5, <1>6 DEF Finality

\* A document whose deletion the server has committed for its owner does not
\* come back for good, for users who wait: not by a late patch, nor by another
\* user's session, and the creation that is sent again, because no response was
\* heard, has its deletion behind it in the same queue, unless the server
\* refuses one of the two.
THEOREM DeletionIsFinal == Spec => []DeletedStaysDeleted
<1>1. Finality => DeletedStaysDeleted
  <2> SUFFICES ASSUME Finality, Patient, NEW d \in history.gone \ history.refused,
                      server[d] # Absent
               PROVE  \E i \in DOMAIN mutations[server[d].user_id] :
                         mutations[server[d].user_id][i] = Delete(d)
    BY DEF DeletedStaysDeleted
  <2>1. StaysGone(d)
    BY DEF Finality, GoneForGood
  <2> QED BY <2>1 DEF StaysGone, DeletionQueued
<1> QED BY <1>1, FinalityInit, FinalityStep, PTL DEF Spec

=============================================================================
