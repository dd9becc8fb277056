------------------------- MODULE TransactionsManager -------------------------
(***************************************************************************)
(* The singleton TransactionsManager and the callbacks it hands to         *)
(* Firestore.  Transaction is a class, so the manager's array, the table's *)
(* copy of it and a pending update callback share objects: an object is an *)
(* index of the sequence heap, and arrays hold such references.            *)
(*                                                                         *)
(* The operators below are the methods; the module MoneyApp makes actions  *)
(* of them.  Each says what becomes of heap, transactions and the worker   *)
(* queue; the rest of the store is unchanged.                              *)
(***************************************************************************)
EXTENDS Firestore, TransactionRecord

VARIABLES heap,          \* all Transaction objects made since the launch
          transactions   \* the manager's array

managerVars == <<heap, transactions>>

Transaction == [id : Ids, content : Content]
Document == [id : Ids, user_id : Users, content : StoredContent]

Refs == DOMAIN heap

\* What a getDocuments of the program does with its answer.
LoadCallback(n)   == [kind |-> "load", login |-> n]
RemoveCallback    == [kind |-> "remove"]
UpdateCallback(r) == [kind |-> "update", ref |-> r]

ManagerInit == heap = << >> /\ transactions = << >>

\* The positions of an array whose objects have the id x.
PositionsOf(array, x) == {i \in DOMAIN array : heap[array[i]].id = x}

-----------------------------------------------------------------------------
\* addTransactions with one new object: append it, then write it to the
\* database under the current user u; nothing is written without one.
addTransactions(t, u, d) ==
    /\ heap' = Append(heap, t)
    /\ transactions' = Append(transactions, Len(heap) + 1)
    /\ worker' = IF u = Nobody THEN worker
                 ELSE Append(worker, WriteTask(Set(d,
                        [id |-> t.id, user_id |-> u,
                         content |-> Encode(t.content)])))

\* Mutant: the documents are looked up, the array keeps its entries.
removeTransactionFromDatabaseOnly(x) ==
    /\ worker' = Append(worker, ListenTask(ById(x), RemoveCallback))
    /\ UNCHANGED managerVars

\* removeTransaction: drop every entry with the id, then look the documents
\* up in order to delete them.
removeTransaction(x) ==
    /\ transactions' = Subsequence(transactions,
                         DOMAIN transactions \ PositionsOf(transactions, x))
    /\ worker' = Append(worker, ListenTask(ById(x), RemoveCallback))
    /\ UNCHANGED heap

\* updatetransaction, called with the object r after it was given the content
\* c: it replaces the first entry with its id, and only if there is one are
\* the documents looked up in order to patch them.
updatetransaction(r, c) ==
    LET found == PositionsOf(transactions, heap[r].id)
    IN  /\ heap' = [heap EXCEPT ![r].content = c]
        /\ IF found = {}
           THEN UNCHANGED <<transactions, worker>>
           ELSE /\ transactions' =
                     [transactions EXCEPT ![Ascending(found)[1]] = r]
                /\ worker' = Append(worker, ListenTask(ById(heap[r].id),
                                                       UpdateCallback(r)))

-----------------------------------------------------------------------------
\* The callbacks, run with the documents of the answer.

\* Mutant: the loaded objects are added to those of the last load.
appendLoadedTransactions(docs) ==
    LET keys == Ascending(Found(docs))
        n    == Cardinality(Found(docs))
    IN  /\ heap' = heap \o [i \in 1 .. n |->
                              [id      |-> docs[keys[i]].id,
                               content |-> Decode(docs[keys[i]].content)]]
        /\ transactions' = transactions \o [i \in 1 .. n |-> Len(heap) + i]
        /\ UNCHANGED worker

\* Mutant: the objects of the last load are released, whoever still uses them.
releaseAndLoadTransactions(docs) ==
    LET keys == Ascending(Found(docs))
        n    == Cardinality(Found(docs))
    IN  /\ heap' = [i \in 1 .. n |->
                      [id      |-> docs[keys[i]].id,
                       content |-> Decode(docs[keys[i]].content)]]
        /\ transactions' = [i \in 1 .. n |-> i]
        /\ UNCHANGED worker

\* getTransactionsForUser: a new object per document, in key order, and
\* setTransactions with them.
setLoadedTransactions(docs) ==
    LET keys == Ascending(Found(docs))
        n    == Cardinality(Found(docs))
    IN  /\ heap' = heap \o [i \in 1 .. n |->
                              [id      |-> docs[keys[i]].id,
                               content |-> Decode(docs[keys[i]].content)]]
        /\ transactions' = [i \in 1 .. n |-> Len(heap) + i]
        /\ UNCHANGED worker

\* removeTransactionFromDatabase: delete every document of the answer.
deleteFound(docs) ==
    /\ worker' = worker \o [i \in 1 .. Cardinality(Found(docs)) |->
                              WriteTask(Delete(Ascending(Found(docs))[i]))]
    /\ UNCHANGED managerVars

\* Mutant: the edited transaction is added as a new document.
addUpdated(docs, r) ==
    /\ worker' = worker \o [i \in 1 .. Cardinality(Found(docs)) |->
           WriteTask(Set(CHOOSE k \in DocIds : k \notin Found(docs),
             [docs[Ascending(Found(docs))[i]] EXCEPT
                !.content = Encode(heap[r].content)]))]
    /\ UNCHANGED managerVars

\* Mutant: the listener is not removed and answers to its own patch.
updateFoundAgain(docs, r) ==
    /\ worker' = Append(worker \o [i \in 1 .. Cardinality(Found(docs)) |->
                              WriteTask(Patch(Ascending(Found(docs))[i],
                                              Encode(heap[r].content)))],
                        ListenTask(ById(heap[r].id), UpdateCallback(r)))
    /\ UNCHANGED managerVars

\* updateTransactionInDatabase: patch every document of the answer with the
\* content the object has by now.
updateFound(docs, r) ==
    /\ worker' = worker \o [i \in 1 .. Cardinality(Found(docs)) |->
                              WriteTask(Patch(Ascending(Found(docs))[i],
                                              Encode(heap[r].content)))]
    /\ UNCHANGED managerVars
=============================================================================
