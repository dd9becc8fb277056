------------------------- MODULE LevelDbTransaction -------------------------
(***************************************************************************)
(* Transactions of the Firestore SDK on its LevelDB database: changes are  *)
(* collected in memory, reads go through them, and an iterator merges them *)
(* with the rows on disk while the code that uses it sets and deletes      *)
(* rows.  A commit writes one batch.                                       *)
(*                                                                         *)
(* Keys are numbers, the position of the encoded key; the worker queue     *)
(* runs one transaction at a time, so the rows on disk stand still during  *)
(* it.  One iterator is enough: iterators do not see each other.           *)
(***************************************************************************)
EXTENDS Integers, FiniteSets, FiniteSetsExt

CONSTANTS MaxKey,      \* the last key
          Values,      \* what a row may hold
          None,        \* no row
          MaxChanges   \* the bound on the changes of one transaction

ASSUME TransactionAssumption == /\ MaxKey \in Nat \ {0}
                                /\ MaxChanges \in Nat
                                /\ None \notin Values

Keys == 1 .. MaxKey
End == MaxKey + 1      \* past the last row

VARIABLES
    diskRows,      \* the rows on disk
    mutations,     \* the rows this transaction sets
    deletions,     \* the keys it deletes
    version,       \* the number of its changes so far
    dbPos,         \* db_iter_, the iterator over the rows on disk
    mutPos,        \* mutations_iter_
    lastVersion,   \* last_version_
    isMutation,    \* is_mutation_
    isValid,       \* is_valid_
    current        \* current_, the entry handed out

iterVars == <<dbPos, mutPos, lastVersion, isMutation, isValid, current>>
vars == <<diskRows, mutations, deletions, version, iterVars>>

OnDisk == {k \in Keys : diskRows[k] # None}
Pending == {k \in Keys : mutations[k] # None}

\* The first key of S at or after k, or the end.
LowerBound(k, S) == Min({j \in S : j >= k} \cup {End})

Get(k) == IF k \in deletions THEN None
          ELSE IF mutations[k] # None THEN mutations[k]
          ELSE diskRows[k]

\* A transaction without changes, and no iterator.
Begin ==
    /\ mutations' = [k \in Keys |-> None]
    /\ deletions' = {}
    /\ version' = 0
    /\ dbPos' = End
    /\ mutPos' = End
    /\ lastVersion' = 0
    /\ isMutation' = FALSE
    /\ isValid' = FALSE
    /\ current' = [key |-> 0, value |-> None]

Init ==
    /\ diskRows \in [Keys -> Values \cup {None}]
    /\ mutations = [k \in Keys |-> None]
    /\ deletions = {}
    /\ version = 0
    /\ dbPos = End
    /\ mutPos = End
    /\ lastVersion = 0
    /\ isMutation = FALSE
    /\ isValid = FALSE
    /\ current = [key |-> 0, value |-> None]

-----------------------------------------------------------------------------
Put(k, v) ==
    /\ version < MaxChanges
    /\ mutations' = [mutations EXCEPT ![k] = v]
    /\ deletions' = deletions \ {k}
    /\ version' = version + 1
    /\ UNCHANGED <<diskRows, iterVars>>

\* Mutant: iterators do not hear of the deletion.
DeleteSilently(k) ==
    /\ version < MaxChanges
    /\ mutations' = [mutations EXCEPT ![k] = None]
    /\ deletions' = deletions \cup {k}
    /\ UNCHANGED <<diskRows, version, iterVars>>

\* Deleting a pending row invalidates the iterator that stands on it.
Delete(k) ==
    /\ version < MaxChanges
    /\ mutations' = [mutations EXCEPT ![k] = None]
    /\ deletions' = deletions \cup {k}
    /\ version' = version + 1
    /\ UNCHANGED <<diskRows, iterVars>>

-----------------------------------------------------------------------------
NewIterator ==
    /\ dbPos' = End
    /\ mutPos' = LowerBound(1, Pending)
    /\ lastVersion' = version
    /\ isMutation' = FALSE
    /\ isValid' = FALSE
    /\ current' = [key |-> 0, value |-> None]
    /\ UNCHANGED <<diskRows, mutations, deletions, version>>

\* Mutant: a row on disk comes before the pending one that shadows it.
AtMutationUnlessEqual(d, m) == m # End /\ m < d

\* Whether a pending row is next: it comes sooner than the row on disk or
\* shadows it.
AtMutation(d, m) == m # End /\ m <= d

\* The next row on disk that is not deleted.
AdvanceLDB(d) == LowerBound(d + 1, OnDisk \ deletions)

\* The iterators stand at d and m: the current entry is saved.
UpdateCurrent(d, m) ==
    /\ dbPos' = d
    /\ mutPos' = m
    /\ isValid' = (m # End \/ d # End)
    /\ \/ /\ isValid'
          /\ isMutation' = AtMutation(d, m)
          /\ current' = IF AtMutation(d, m)
                        THEN [key |-> m, value |-> mutations[m]]
                        ELSE [key |-> d, value |-> diskRows[d]]
       \/ /\ ~isValid'
          /\ UNCHANGED <<isMutation, current>>

SeekDB(k) == LowerBound(k, OnDisk \ deletions)
SeekMutations(k) == LowerBound(k, Pending)

Seek(k) ==
    /\ UpdateCurrent(SeekDB(k), SeekMutations(k))
    /\ lastVersion' = version
    /\ UNCHANGED <<diskRows, mutations, deletions, version>>

\* One entry further, past the row on disk that a pending one shadows.
Advance(d, m, mutation) ==
    \/ mutation /\ UpdateCurrent(IF d = m THEN AdvanceLDB(d) ELSE d,
                                 LowerBound(m + 1, Pending))
    \/ ~mutation /\ UpdateCurrent(AdvanceLDB(d), m)

\* After a change of the transaction the iterator looks its key up again; if
\* that takes it to another entry, it has moved already.
Next ==
    /\ isValid
    /\ lastVersion' = version
    /\ LET d == SeekDB(current.key)
           m == SeekMutations(current.key)
       IN \/ /\ lastVersion = version
             /\ Advance(dbPos, mutPos, isMutation)
          \/ /\ lastVersion < version
             /\ current.key \in {d, m}
             /\ Advance(d, m, AtMutation(d, m))
          \/ /\ lastVersion < version
             /\ current.key \notin {d, m}
             /\ UpdateCurrent(d, m)
    /\ UNCHANGED <<diskRows, mutations, deletions, version>>

-----------------------------------------------------------------------------
\* The deletions and then the mutations, in one batch.
Commit ==
    /\ diskRows' = [k \in Keys |-> IF mutations[k] # None THEN mutations[k]
                                   ELSE IF k \in deletions THEN None
                                   ELSE diskRows[k]]
    /\ Begin

\* The process ends before the commit.
Crash ==
    /\ Begin
    /\ UNCHANGED diskRows

Step ==
    \/ \E k \in Keys, v \in Values : Put(k, v)
    \/ \E k \in Keys : Delete(k) \/ Seek(k)
    \/ NewIterator \/ Next \/ Commit \/ Crash

Spec == Init /\ [][Step]_vars

-----------------------------------------------------------------------------
IteratorEntry == [key : {0} \cup Keys, value : Values \cup {None}]

\* Every variable has its type; the iterator over the disk stands on a row.
TransactionTypeOK ==
    /\ diskRows \in [Keys -> Values \cup {None}]
    /\ mutations \in [Keys -> Values \cup {None}]
    /\ deletions \subseteq Keys
    /\ version \in 0 .. MaxChanges
    /\ dbPos \in OnDisk \cup {End}
    /\ mutPos \in Keys \cup {End}
    /\ lastVersion \in 0 .. version
    /\ isMutation \in BOOLEAN
    /\ isValid \in BOOLEAN
    /\ current \in IteratorEntry

\* An iterator that has seen every change of its transaction stands on rows
\* that exist and hands out the one the transaction would read: the position
\* in the map of mutations, which a deletion may have freed, is used in no
\* other case.  (With the type invariant.)
IteratorInSync ==
    /\ TransactionTypeOK
    /\ isValid /\ lastVersion = version =>
      /\ mutPos \in Pending \cup {End}
      /\ dbPos \in (OnDisk \ deletions) \cup {End}
      /\ current.key = Min({dbPos, mutPos})
      /\ isMutation <=> AtMutation(dbPos, mutPos)
      /\ current.value = Get(current.key)
      /\ current.value # None

-----------------------------------------------------------------------------
V == INSTANCE OrderedView WITH
       committed <- diskRows,
       view <- [k \in Keys |-> Get(k)],
       cursor <- IF isValid THEN current ELSE [key |-> 0, value |-> None]

\* A walk over the rows visits every row the transaction has, in order and
\* once, whatever it sets and deletes under way, and a commit writes what the
\* transaction saw.
ImplementsView == V!Spec
=============================================================================
