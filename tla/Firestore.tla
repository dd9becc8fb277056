------------------------------ MODULE Firestore ------------------------------
(***************************************************************************)
(* The Firestore SDK the program links (collection "transactions" only)    *)
(* and the server behind it.                                               *)
(*                                                                         *)
(* Every call of the program puts a task on the SDK's worker queue, which  *)
(* runs them in order: a write is filed in the mutation queue of the user  *)
(* the SDK knows at that moment and is sent from there; a getDocuments     *)
(* registers a one-shot listener that is raised when its query has been    *)
(* synchronised with the server, or from the local cache when the SDK is   *)
(* offline.  What the listener is raised with is put on the main queue,    *)
(* where the program's callback runs later.  The mutation queues and the   *)
(* cache are on disk; the worker queue, the listeners and the main queue   *)
(* are lost when the process dies.                                         *)
(*                                                                         *)
(* Not represented: a listener that joins a view which is still in sync is *)
(* raised by the next RaiseFromServer instead of at once, an acknowledged  *)
(* batch that the SDK holds until its watch stream has caught up is        *)
(* applied to the cache when it is acknowledged, and the response to a     *)
(* write that is not lost comes with its commit (WritePipeline has the     *)
(* steps between).                                                         *)
(***************************************************************************)
EXTENDS Ordering

CONSTANTS Users,    \* the accounts
          Nobody,   \* no user is signed in
          NoClient, \* the SDK has not been asked for anything yet
          DocIds,   \* the document keys addDocument may draw, as numbers in
                    \* key order
          Ids,      \* the transaction ids UUID() may return
          Absent,   \* there is no such document
          MaxPendingWrites, \* how many writes are sent ahead of the responses
          Budget    \* how often each bounded event may happen

ASSUME UsersAssumption == Nobody \notin Users /\ NoClient \notin Users \cup {Nobody}
ASSUME DocIdsAssumption == DocIds \subseteq Nat /\ IsFiniteSet(DocIds)
ASSUME PipelineAssumption == MaxPendingWrites \in Nat \ {0}

VARIABLES server,     \* the documents the server has
          cache,      \* the SDK's copy of server documents (on disk)
          mutations,  \* per user, the writes not yet acknowledged (on disk)
          fsUser,     \* the user the SDK's worker acts for, or NoClient
                      \* until the first call of the program creates it
          worker,     \* the tasks of the SDK's worker queue
          listeners,  \* per query, the callbacks not yet raised
          online,     \* FALSE once the SDK has decided that it is offline
          main,       \* the blocks of the main dispatch queue
          budget,     \* what is left of Budget
          history     \* auxiliary: the keys of the documents whose creation
                      \* was filed, whose deletion was filed, whose creation
                      \* or deletion the server refused, and whose deletion it
                      \* committed for their owner on this device

storeVars == <<server, cache, mutations, fsUser, worker, listeners, online,
               main, history>>

\* The bounded events.  Ids and DocIds bound the transactions added; "hurry" is
\* a sign-in that does not wait for what the one before it set off.
Event == {"edit", "delete", "crash", "outage", "signIn", "hurry", "signOut",
          "return", "failure", "remote", "refresh", "revoke"}

Spend(e) == /\ budget[e] > 0
            /\ budget' = [budget EXCEPT ![e] = @ - 1]

-----------------------------------------------------------------------------
\* Mutations.

Set(d, doc)       == [op |-> "set", key |-> d, document |-> doc]
Patch(d, content) == [op |-> "patch", key |-> d, content |-> content]
Delete(d)         == [op |-> "delete", key |-> d]

\* setData and delete carry no precondition, updateData that the document
\* exists.
Precondition(m, doc) == m.op = "patch" => doc # Absent

ApplyTo(m, doc) ==
    CASE ~Precondition(m, doc) -> doc
      [] m.op = "set"    -> m.document
      [] m.op = "patch" /\ doc # Absent -> [doc EXCEPT !.content = m.content]
      [] m.op = "delete" -> Absent

\* The document d after the writes q in order.  A set or a delete hides what
\* was before; a patch rewrites the whole content, so the last one counts.
Written(q, doc, d) ==
    LET replaced == {i \in DOMAIN q : q[i].key = d /\ q[i].op # "patch"}
        base     == IF replaced = {} THEN doc
                    ELSE ApplyTo(q[Greatest(replaced)], doc)
        patched  == {i \in DOMAIN q : /\ q[i].key = d /\ q[i].op = "patch"
                                      /\ \A j \in replaced : j < i}
    IN  IF patched = {} THEN base ELSE ApplyTo(q[Greatest(patched)], base)

\* Mutant: the pending writes are not laid over the cache.
LocalDocumentWithoutOverlay(c, u, d) == c[d]

\* The document d as user u's device sees it: the cached document c, under
\* u's unacknowledged writes.
LocalDocument(c, u, d) == Written(mutations[u], c[d], d)

-----------------------------------------------------------------------------
\* Queries: whereField("user_id"/"id", isEqualTo: ...).

ByUser(u) == [field |-> "user_id", value |-> u]
ById(x)   == [field |-> "id", value |-> x]

Queries == {ByUser(u) : u \in Users} \cup {ById(x) : x \in Ids}

Matches(q, doc) == doc # Absent /\ (IF q.field = "id" THEN doc.id = q.value
                                    ELSE doc.user_id = q.value)

\* The result of query q over the cache c, as a function of the keys.
Result(c, q) == [d \in DocIds |-> IF Matches(q, LocalDocument(c, fsUser, d))
                                  THEN LocalDocument(c, fsUser, d)
                                  ELSE Absent]

Found(docs) == {d \in DocIds : docs[d] # Absent}

-----------------------------------------------------------------------------
\* The tasks the program puts on the worker queue.

UserTask(u)      == [kind |-> "user", user |-> u]
WriteTask(m)     == [kind |-> "write", mutation |-> m]
ListenTask(q, c) == [kind |-> "listen", query |-> q, callback |-> c]

\* What the main queue gets when a listener is raised.
SnapshotBlock(c, docs) ==
    [kind |-> "snapshot", callback |-> c, docs |-> docs]
ErrorBlock(c) == [kind |-> "error", callback |-> c]

\* The user the SDK was last told of: that of the last user task, or else the
\* one the worker acts for.
CredentialsUser ==
    LET changes == {i \in DOMAIN worker : worker[i].kind = "user"}
    IN  IF changes = {} THEN fsUser ELSE worker[Greatest(changes)].user

-----------------------------------------------------------------------------
StoreInit ==
    /\ server = [d \in DocIds |-> Absent]
    /\ cache = [d \in DocIds |-> Absent]
    /\ mutations = [u \in Users \cup {Nobody} |-> << >>]
    /\ fsUser = NoClient
    /\ worker = << >>
    /\ listeners = [q \in Queries |-> << >>]
    /\ online = TRUE
    /\ budget = Budget
    /\ history = [filed |-> {}, deleted |-> {}, refused |-> {},
                   gone |-> {}]

\* Mutant: the client ignores all users but its first.
UserDidChangeIgnored ==
    /\ worker # << >>
    /\ Head(worker).kind = "user"
    /\ worker' = Tail(worker)
    /\ UNCHANGED <<server, cache, mutations, fsUser, listeners, online, main,
                   budget, history>>

\* The worker swaps the mutation queue for that of another user.
UserDidChange ==
    /\ worker # << >>
    /\ Head(worker).kind = "user"
    /\ fsUser' = Head(worker).user
    /\ worker' = Tail(worker)
    /\ UNCHANGED <<server, cache, mutations, listeners, online, main, budget,
                   history>>

\* The auxiliary record of a filed write.
Recorded(m) ==
    CASE m.op = "set"    -> [history EXCEPT !.filed = @ \cup {m.key}]
      [] m.op = "delete" -> [history EXCEPT !.deleted = @ \cup {m.key}]
      [] OTHER           -> history

\* Mutant: the newest write is sent first.
WriteMutationsLastInFirstOut ==
    /\ worker # << >>
    /\ Head(worker).kind = "write"
    /\ mutations' = [mutations EXCEPT ![fsUser] =
                       <<Head(worker).mutation>> \o @]
    /\ history' = Recorded(Head(worker).mutation)
    /\ worker' = Tail(worker)
    /\ UNCHANGED <<server, cache, fsUser, listeners, online, main, budget>>

\* The worker files a write in the current user's mutation queue.
WriteMutations ==
    /\ worker # << >>
    /\ Head(worker).kind = "write"
    /\ mutations' = [mutations EXCEPT ![fsUser] =
                       Append(@, Head(worker).mutation)]
    /\ history' = Recorded(Head(worker).mutation)
    /\ worker' = Tail(worker)
    /\ UNCHANGED <<server, cache, fsUser, listeners, online, main, budget>>

\* The worker registers a listener behind the others of the same query.
AddListener ==
    /\ worker # << >>
    /\ Head(worker).kind = "listen"
    /\ listeners' = [listeners EXCEPT
                       ![Head(worker).query] = Append(@, Head(worker).callback)]
    /\ worker' = Tail(worker)
    /\ UNCHANGED <<server, cache, mutations, fsUser, online, main, budget,
                   history>>

-----------------------------------------------------------------------------
\* All listeners of q get a block each, in the order of registration.
Raise(q, Block(_)) ==
    /\ listeners[q] # << >>
    /\ main' = main \o [i \in 1 .. Len(listeners[q]) |-> Block(listeners[q][i])]
    /\ listeners' = [listeners EXCEPT ![q] = << >>]

\* The watch stream has caught up: every document that matches on either side
\* is now cached as the server has it.
RaiseFromServer(q) ==
    LET caughtUp == [d \in DocIds |->
                        IF Matches(q, server[d]) \/ Matches(q, cache[d])
                        THEN server[d] ELSE cache[d]]
    IN  /\ online
        /\ cache' = caughtUp
        /\ Raise(q, LAMBDA c : SnapshotBlock(c, Result(caughtUp, q)))
        /\ UNCHANGED <<server, mutations, fsUser, worker, online, budget,
                       history>>

\* An offline SDK answers from the cache.
RaiseFromCache(q) ==
    /\ ~online
    /\ Raise(q, LAMBDA c : SnapshotBlock(c, Result(cache, q)))
    /\ UNCHANGED <<server, cache, mutations, fsUser, worker, online, budget,
                   history>>

\* The server refuses the query.
RejectListen(q) ==
    /\ online
    /\ Spend("failure")
    /\ Raise(q, ErrorBlock)
    /\ UNCHANGED <<server, cache, mutations, fsUser, worker, online, history>>

-----------------------------------------------------------------------------
\* The first unacknowledged write of the current user.
Sending == online /\ fsUser # NoClient /\ mutations[fsUser] # << >>
NextWrite == Head(mutations[fsUser])
DropNextWrite == mutations' = [mutations EXCEPT ![fsUser] = Tail(@)]

\* The server commits the first n writes of the current user one after another.
\* The precondition of each holds when its turn comes.
CommitWrites(n) ==
    LET q         == mutations[fsUser]
        Before(i) == Written(SubSeq(q, 1, i - 1), server[q[i].key], q[i].key)
        removed   == {i \in 1 .. n : /\ q[i].op = "delete"
                                     /\ Before(i) # Absent
                                     /\ Before(i).user_id = fsUser}
    IN  /\ n <= Len(q)
        /\ \A i \in 1 .. n : Precondition(q[i], Before(i))
        /\ server' = [d \in DocIds |-> Written(SubSeq(q, 1, n), server[d], d)]
        /\ history' = [history EXCEPT !.gone = @ \cup {q[i].key : i \in removed}]

\* Mutant: the acknowledged write is dropped without being cached.
ApplySuccessfulWriteUncached ==
    /\ Sending
    /\ CommitWrites(1)
    /\ DropNextWrite
    /\ UNCHANGED <<cache, fsUser, worker, listeners, online, main, budget>>

\* The server commits the write and the SDK hears of it.
ApplySuccessfulWrite ==
    /\ Sending
    /\ CommitWrites(1)
    /\ cache' = [cache EXCEPT ![NextWrite.key] = ApplyTo(NextWrite, @)]
    /\ DropNextWrite
    /\ UNCHANGED <<fsUser, worker, listeners, online, main, budget>>

\* Up to MaxPendingWrites writes are sent without waiting for a response.  The
\* server commits some of them, the stream breaks before the SDK hears of any,
\* and all of them stay in the queue to be sent again.
CommitWithoutResponse ==
    /\ Sending
    /\ Spend("failure")
    /\ \E n \in 1 .. MaxPendingWrites : CommitWrites(n)
    /\ UNCHANGED <<cache, mutations, fsUser, worker, listeners, online, main>>

\* The server refuses the write for good (its precondition fails, or the
\* request is not permitted): the SDK drops it.
RejectFailedWrite ==
    /\ Sending
    /\ \/ ~Precondition(NextWrite, server[NextWrite.key]) /\ UNCHANGED budget
       \/ Precondition(NextWrite, server[NextWrite.key]) /\ Spend("failure")
    /\ DropNextWrite
    /\ history' = IF NextWrite.op # "patch"
                  THEN [history EXCEPT !.refused = @ \cup {NextWrite.key}]
                  ELSE history
    /\ UNCHANGED <<server, cache, fsUser, worker, listeners, online, main>>

-----------------------------------------------------------------------------
GoOffline == /\ online
             /\ Spend("outage")
             /\ online' = FALSE
             /\ UNCHANGED <<server, cache, mutations, fsUser, worker, listeners,
                            main, history>>

GoOnline == /\ ~online
            /\ online' = TRUE
            /\ UNCHANGED <<server, cache, mutations, fsUser, worker, listeners,
                           main, budget, history>>

\* The same account on another device rewrites or deletes a document.
OtherDevice(Contents) ==
    /\ Spend("remote")
    /\ \E d \in Found(server) :
         \/ /\ \E c \in Contents : server' = [server EXCEPT ![d].content = c]
            /\ UNCHANGED history
         \/ /\ server' = [server EXCEPT ![d] = Absent]
            /\ history' = [history EXCEPT !.deleted = @ \cup {d}]
    /\ UNCHANGED <<cache, mutations, fsUser, worker, listeners, online, main>>

\* Mutant: the mutation queues are kept in memory only.
StoreCrashWithoutPersistence ==
    /\ worker' = << >>
    /\ listeners' = [q \in Queries |-> << >>]
    /\ mutations' = [u \in Users \cup {Nobody} |-> << >>]
    /\ fsUser' = NoClient
    /\ UNCHANGED <<server, cache, online, history>>

\* The process dies; what is on disk and on the server stays.
StoreCrash ==
    /\ worker' = << >>
    /\ listeners' = [q \in Queries |-> << >>]
    /\ fsUser' = NoClient
    /\ UNCHANGED <<server, cache, mutations, online, history>>

StoreStep(Contents) ==
    \/ UserDidChange \/ WriteMutations \/ AddListener
    \/ \E q \in Queries : \/ RaiseFromServer(q) \/ RaiseFromCache(q)
                          \/ RejectListen(q)
    \/ ApplySuccessfulWrite \/ CommitWithoutResponse \/ RejectFailedWrite
    \/ GoOffline \/ GoOnline
    \/ OtherDevice(Contents)
=============================================================================
