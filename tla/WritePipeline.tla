--------------------------- MODULE WritePipeline ---------------------------
(***************************************************************************)
(* The path of a write through the Firestore SDK, in the detail that       *)
(* Firestore.tla leaves out: the mutation queues in the database (ids,     *)
(* rows, the last acknowledged id), the sync engine's completion blocks,   *)
(* the remote store's pipeline of pending writes over a stream that opens, *)
(* shakes hands, idles and breaks, and the local store, which holds an     *)
(* acknowledged write back until the watch stream has caught up with it.   *)
(*                                                                         *)
(* Everything here runs on the worker queue: one action is one block of    *)
(* it, or one step of the server.  Every database access is a transaction. *)
(*                                                                         *)
(* Writes are numbered in the order they are made; the content of a        *)
(* document is the number of the write that made it (a set, a patch and a  *)
(* deletion replace it alike).  The server's version of a write is its     *)
(* place in the log of the writes the server applied.                      *)
(***************************************************************************)
EXTENDS Integers, Sequences, FiniteSets, FiniteSetsExt

CONSTANTS Users,             \* the users of this device
          Elsewhere,         \* the author of another device's writes
          Keys,              \* the documents
          Targets,           \* the queries, each matching every document
          MaxPendingWrites,  \* kMaxPendingWrites
          Budget             \* how often each event may happen

\* "refusal" and "failure" are the server's and the network's, "remote" is a
\* write of another device, "listen" a query being started.
Event == {"write", "remote", "refusal", "failure", "idle", "switch",
          "relaunch", "listen"}

ASSUME UsersAssumption == Elsewhere \notin Users
ASSUME PipelineAssumption == /\ MaxPendingWrites \in Nat \ {0}
                             /\ Budget \in [Event -> Nat]

VARIABLES
    writes,         \* auxiliary: every write made so far, with user and key
    log,            \* the writes in the order the server applied them
    rows,           \* rows[u]: the mutations table, one row per batch of u
    lastAcked,      \* lastAcknowledgedBatchId in the metadata row of u
    cache,          \* remoteDocumentCache: content and version per document
    remoteVersion,  \* lastRemoteSnapshotVersion
    resume,         \* the snapshot version of each query's resume token
    user,           \* the user the engine works for
    nextBatchID,    \* of the mutation queue in use
    held,           \* heldBatchResults
    targets,        \* the targets of the active queries
    blocks,         \* blocks[u]: the completion blocks by batch id
    pendingWrites,  \* the pipeline
    lastBatchSeen,  \* the last batch that entered it
    stream,         \* the write stream
    idleTimer,      \* whether the stream's idle timer runs
    requests,       \* batches sent and not yet handled by the server
    responses,      \* answers not yet received: versions, or Refusal last
    floor,          \* the oldest snapshot the server may still send
    told,           \* auxiliary: what the caller of each write was told
    confirmed,      \* auxiliary: the acknowledged writes
    refused,        \* auxiliary: the refused writes
    dropped,        \* auxiliary: the held writes dropped by a restart
    budget

disk == <<rows, lastAcked, cache, remoteVersion, resume>>
pipeline == <<pendingWrites, lastBatchSeen, stream, idleTimer, requests,
              responses>>
ghosts == <<told, confirmed, refused, dropped>>
vars == <<writes, log, disk, user, nextBatchID, held, targets, blocks,
          pipeline, floor, ghosts, budget>>

Unknown == -1        \* kFSTBatchIDUnknown
Refusal == 0         \* an answer that closes the stream with an error
Missing == [write |-> 0, version |-> 0]

Batch == [id : Nat, write : Nat \ {0}]

Spend(e) == /\ budget[e] > 0
            /\ budget' = [budget EXCEPT ![e] = @ - 1]

\* The rows of a table in the order of their ids.
InOrder(set) == [i \in 1 .. Cardinality(set) |->
                   CHOOSE b \in set : Cardinality({c \in set : c.id < b.id}) = i - 1]

\* The first n elements of s, or all of them.
FirstOf(s, n) == SubSeq(s, 1, Min({n, Len(s)}))

Unacked(table, acked) == {b \in table : b.id > acked}

-----------------------------------------------------------------------------
\* Reading documents: the pending writes of the current user over the cache.
LocalDocument(k) ==
    LET mine == {b \in rows[user] : writes[b.write].key = k}
    IN IF mine = {} THEN cache[k].write
       ELSE (CHOOSE b \in mine : \A c \in mine : c.id <= b.id).write

-----------------------------------------------------------------------------
\* Fills the pipeline from table and sends what enters it, if the stream is
\* ready; an empty pipeline marks an open stream idle.
FillWritePipeline(table, acked, pend, seen, str, sent, timer) ==
    LET new == FirstOf(InOrder({b \in table : b.id > seen /\ b.id > acked}),
                       MaxPendingWrites - Len(pend))
    IN /\ pendingWrites' = pend \o new
       /\ lastBatchSeen' = IF new = << >> THEN seen ELSE new[Len(new)].id
       /\ stream' = IF new # << >> /\ str = "initial" THEN "starting" ELSE str
       /\ requests' = IF str = "ready" THEN sent \o new ELSE sent
       /\ idleTimer' = CASE str \notin {"open", "ready"} -> "off"
                         [] pend \o new = << >> -> "on"
                         [] str = "ready" /\ new # << >> -> "off"
                         [] OTHER -> timer

\* Mutant: only u's own rows are looked at for the next id.
StartMutationQueueAlone(u) ==
    /\ nextBatchID' = Max({b.id : b \in rows[u]} \cup {Unknown}) + 1
    /\ lastAcked' = [lastAcked EXCEPT ![u] = Unknown]
    /\ rows' = [rows EXCEPT ![u] = Unacked(@, lastAcked[u])]
    /\ held' = << >>
    /\ dropped' = dropped \cup {held[i].batch.write : i \in DOMAIN held}

\* The mutation queue of u is opened: ids continue after the highest in the
\* whole table, a last acknowledged id from a table long emptied is reset, the
\* rows that were acknowledged are removed, and what was held is forgotten.
StartMutationQueue(u) ==
    LET next == Max({b.id : b \in UNION {rows[v] : v \in Users}} \cup {Unknown}) + 1
        acked == IF lastAcked[u] >= next THEN Unknown ELSE lastAcked[u]
    IN /\ nextBatchID' = next
       /\ lastAcked' = [lastAcked EXCEPT ![u] = acked]
       /\ rows' = [rows EXCEPT ![u] = Unacked(@, acked)]
       /\ held' = << >>
       /\ dropped' = dropped \cup {held[i].batch.write : i \in DOMAIN held}

\* Mutant: the place in the queue survives the old user's pipeline.
RestartNetworkWhereItWas(u) ==
    /\ FillWritePipeline(rows'[u], lastAcked'[u], << >>, lastBatchSeen,
                         "initial", << >>, "off")
    /\ responses' = << >>

\* Streams are torn down and built anew, the pipeline refilled for u.
RestartNetwork(u) ==
    /\ FillWritePipeline(rows'[u], lastAcked'[u], << >>, Unknown, "initial",
                         << >>, "off")
    /\ responses' = << >>

Init ==
    /\ writes = << >>
    /\ log = << >>
    /\ rows = [u \in Users |-> {}]
    /\ lastAcked = [u \in Users |-> Unknown]
    /\ cache = [k \in Keys |-> Missing]
    /\ remoteVersion = 0
    /\ resume = [t \in Targets |-> 0]
    /\ user \in Users
    /\ nextBatchID = 0
    /\ held = << >>
    /\ targets = {}
    /\ blocks = [u \in Users |-> {}]
    /\ pendingWrites = << >>
    /\ lastBatchSeen = Unknown
    /\ stream = "initial"
    /\ idleTimer = "off"
    /\ requests = << >>
    /\ responses = << >>
    /\ floor = 0
    /\ told = << >>
    /\ confirmed = {}
    /\ refused = {}
    /\ dropped = {}
    /\ budget = Budget

-----------------------------------------------------------------------------
\* The sync engine files a write and hands it to the pipeline.
WriteMutations(k) ==
    /\ Spend("write")
    /\ LET w == Len(writes) + 1
           b == [id |-> nextBatchID, write |-> w]
       IN /\ writes' = Append(writes, [user |-> user, key |-> k])
          /\ rows' = [rows EXCEPT ![user] = @ \cup {b}]
          /\ blocks' = [blocks EXCEPT ![user] =
                          {c \in @ : c.id # b.id} \cup {b}]
          /\ told' = Append(told, "waiting")
    /\ nextBatchID' = nextBatchID + 1
    /\ FillWritePipeline(rows'[user], lastAcked[user], pendingWrites,
                         lastBatchSeen, stream, requests, idleTimer)
    /\ UNCHANGED <<log, lastAcked, cache, remoteVersion, resume, user, held,
                   targets, responses, floor, confirmed, refused, dropped>>

\* Another device's write.
RemoteWrite(k) ==
    /\ Spend("remote")
    /\ writes' = Append(writes, [user |-> Elsewhere, key |-> k])
    /\ log' = Append(log, Len(writes) + 1)
    /\ told' = Append(told, "gone")
    /\ UNCHANGED <<disk, user, nextBatchID, held, targets, blocks, pipeline,
                   floor, confirmed, refused, dropped>>

-----------------------------------------------------------------------------
\* The write stream.

\* The token arrived and the call started; the handshake is sent.
StreamOpens ==
    /\ stream = "starting"
    /\ stream' = "open"
    /\ UNCHANGED <<writes, log, disk, user, nextBatchID, held, targets, blocks,
                   pendingWrites, lastBatchSeen, idleTimer, requests, responses,
                   floor, ghosts, budget>>

\* The handshake is answered: the whole pipeline is sent, again if need be.
CompleteHandshake ==
    /\ stream = "open"
    /\ stream' = "ready"
    /\ requests' = pendingWrites
    /\ idleTimer' = IF pendingWrites = << >> THEN idleTimer ELSE "off"
    /\ UNCHANGED <<writes, log, disk, user, nextBatchID, held, targets, blocks,
                   pendingWrites, lastBatchSeen, responses, floor, ghosts,
                   budget>>

\* Mutants: answers of the old stream still arrive, or the stream is not
\* started again.
CloseStreamKeepingAnswers ==
    /\ stream' = IF pendingWrites # << >> THEN "starting" ELSE "initial"
    /\ idleTimer' = "off"
    /\ requests' = << >>
    /\ UNCHANGED <<writes, log, disk, user, nextBatchID, held, targets, blocks,
                   pendingWrites, lastBatchSeen, responses, floor, ghosts>>

CloseStreamForGood ==
    /\ stream' = "initial"
    /\ idleTimer' = "off"
    /\ requests' = << >>
    /\ responses' = << >>
    /\ UNCHANGED <<writes, log, disk, user, nextBatchID, held, targets, blocks,
                   pendingWrites, lastBatchSeen, floor, ghosts>>

\* A closed stream is started again if writes are pending.
CloseStream ==
    /\ stream' = IF pendingWrites # << >> THEN "starting" ELSE "initial"
    /\ idleTimer' = "off"
    /\ requests' = << >>
    /\ responses' = << >>
    /\ UNCHANGED <<writes, log, disk, user, nextBatchID, held, targets, blocks,
                   pendingWrites, lastBatchSeen, floor, ghosts>>

\* It breaks with an error that does not condemn the write: no token, no
\* network, a refused handshake.
BreakStream ==
    /\ stream \in {"starting", "open", "ready"}
    /\ Spend("failure")
    /\ CloseStream

\* The idle timer fires.
CloseIdleStream ==
    /\ idleTimer = "on"
    /\ Spend("idle")
    /\ CloseStream

-----------------------------------------------------------------------------
\* The server handles the requests of a stream in order, until it refuses one.
Refusing == responses # << >> /\ responses[Len(responses)] = Refusal

ServerApplies ==
    /\ requests # << >>
    /\ ~Refusing
    /\ log' = Append(log, Head(requests).write)
    /\ requests' = Tail(requests)
    /\ responses' = Append(responses, Len(log) + 1)
    /\ UNCHANGED <<writes, disk, user, nextBatchID, held, targets, blocks,
                   pendingWrites, lastBatchSeen, stream, idleTimer, floor,
                   ghosts, budget>>

ServerRefuses ==
    /\ requests # << >>
    /\ ~Refusing
    /\ Spend("refusal")
    /\ requests' = << >>
    /\ responses' = Append(responses, Refusal)
    /\ UNCHANGED <<writes, log, disk, user, nextBatchID, held, targets, blocks,
                   pendingWrites, lastBatchSeen, stream, idleTimer, floor,
                   ghosts>>

-----------------------------------------------------------------------------
\* Mutant: the block stays.
ProcessUserCallbacksAgain(id, answer) ==
    /\ told' = [w \in DOMAIN told |->
                  IF \E c \in blocks[user] : c.id = id /\ c.write = w
                  THEN answer ELSE told[w]]
    /\ UNCHANGED blocks

\* Calls and removes the completion block of a batch of the current user.
ProcessUserCallbacks(id, answer) ==
    /\ told' = [w \in DOMAIN told |->
                  IF \E c \in blocks[user] : c.id = id /\ c.write = w
                  THEN answer ELSE told[w]]
    /\ blocks' = [blocks EXCEPT ![user] = {c \in @ : c.id # id}]

IsRemoteUpTo(v, remote, active) == v <= remote \/ active = {}

\* An acknowledged batch is held back if the watch stream is behind it or
\* others are being held.  (Mutant: only in the latter case.)
ShouldHoldBehindOthers(v) == held # << >>

ShouldHold(v) == ~IsRemoteUpTo(v, remoteVersion, targets) \/ held # << >>

\* The cache after the results rel were applied in order.  A document keeps
\* the version it had; one the watch stream has already brought is left alone.
ApplyBatchResults(docs, rel) ==
    [k \in Keys |->
       LET mine == {i \in DOMAIN rel : /\ writes[rel[i].batch.write].key = k
                                       /\ docs[k].version < rel[i].version}
       IN IF mine = {} THEN docs[k]
          ELSE [docs[k] EXCEPT !.write = rel[Max(mine)].batch.write]]

RemoveBatches(table, rel) == table \ {rel[i].batch : i \in DOMAIN rel}

\* Releases the longest prefix of the held results the watch stream has
\* caught up with.
ReleaseHeldBatchResults(docs, remote, active) ==
    LET n == Max({i \in 0 .. Len(held) :
                    \A j \in 1 .. i : IsRemoteUpTo(held[j].version, remote, active)})
        rel == SubSeq(held, 1, n)
    IN /\ held' = SubSeq(held, n + 1, Len(held))
       /\ cache' = ApplyBatchResults(docs, rel)
       /\ rows' = [rows EXCEPT ![user] = RemoveBatches(@, rel)]

\* The answer to the first pending write: its block is called, the write is
\* acknowledged and held or released, and the pipeline is filled up.
ReceiveResponse ==
    /\ responses # << >>
    /\ Head(responses) # Refusal
    /\ LET b == Head(pendingWrites)
           result == <<[batch |-> b, version |-> Head(responses)]>>
           hold == ShouldHold(Head(responses))
       IN /\ ProcessUserCallbacks(b.id, "success")
          /\ lastAcked' = [lastAcked EXCEPT ![user] = b.id]
          /\ confirmed' = confirmed \cup {b.write}
          /\ \/ /\ hold
                /\ held' = held \o result
                /\ UNCHANGED <<cache, rows>>
             \/ /\ ~hold
                /\ cache' = ApplyBatchResults(cache, result)
                /\ rows' = [rows EXCEPT ![user] = RemoveBatches(@, result)]
                /\ UNCHANGED held
    /\ FillWritePipeline(rows'[user], lastAcked'[user], Tail(pendingWrites),
                         lastBatchSeen, stream, requests, idleTimer)
    /\ responses' = Tail(responses)
    /\ UNCHANGED <<writes, log, remoteVersion, resume, user, nextBatchID,
                   targets, floor, refused, dropped, budget>>

\* The stream closes with an error that condemns the first pending write: its
\* block is called, its row removed, and the stream starts again at once.
ReceiveRefusal ==
    /\ responses # << >>
    /\ Head(responses) = Refusal
    /\ LET b == Head(pendingWrites)
           rest == Tail(pendingWrites)
       IN /\ ProcessUserCallbacks(b.id, "failure")
          /\ rows' = [rows EXCEPT ![user] = @ \ {b}]
          /\ refused' = refused \cup {b.write}
          /\ FillWritePipeline(rows'[user], lastAcked[user], rest,
                               lastBatchSeen,
                               IF rest = << >> THEN "initial" ELSE "starting",
                               << >>, "off")
    /\ responses' = << >>
    /\ UNCHANGED <<writes, log, lastAcked, cache, remoteVersion, resume, user,
                   nextBatchID, held, targets, floor, confirmed, dropped,
                   budget>>

-----------------------------------------------------------------------------
\* Queries and the snapshots of the watch stream.
Listen(t) ==
    /\ t \notin targets
    /\ Spend("listen")
    /\ targets' = targets \cup {t}
    /\ floor' = Len(log)
    /\ UNCHANGED <<writes, log, disk, user, nextBatchID, held, blocks, pipeline,
                   ghosts>>

\* Mutant: what is held stays held.
ReleaseQueryOnly(t) ==
    /\ t \in targets
    /\ targets' = targets \ {t}
    /\ UNCHANGED <<writes, log, disk, user, nextBatchID, held, blocks, pipeline,
                   floor, ghosts, budget>>

\* The query was answered, cancelled or refused.  Without a target nothing
\* is held back any more.
ReleaseQuery(t) ==
    /\ t \in targets
    /\ targets' = targets \ {t}
    /\ \/ /\ targets' = {}
          /\ ReleaseHeldBatchResults(cache, remoteVersion, {})
       \/ /\ targets' # {}
          /\ UNCHANGED <<held, cache, rows>>
    /\ UNCHANGED <<writes, log, lastAcked, remoteVersion, resume, user,
                   nextBatchID, blocks, pipeline, floor, ghosts, budget>>

\* The place of the last write to k among the first v of the log, or 0.
VersionAt(k, v) == Max({i \in 1 .. v : writes[log[i]].key = k} \cup {0})

\* A consistent snapshot at version v: the documents that changed since the
\* resume tokens enter the cache unless it has a newer one, and held results
\* are released.
WatchSnapshot(v) ==
    /\ targets # {}
    /\ v \in Max({remoteVersion, floor}) .. Len(log)
    /\ v > Min({resume[t] : t \in targets})
    /\ LET since == Min({resume[t] : t \in targets})
           docs == [k \in Keys |->
                      IF /\ VersionAt(k, v) > since
                         /\ VersionAt(k, v) >= cache[k].version
                      THEN [write |-> log[VersionAt(k, v)],
                            version |-> VersionAt(k, v)]
                      ELSE cache[k]]
       IN ReleaseHeldBatchResults(docs, v, targets)
    /\ remoteVersion' = v
    /\ resume' = [t \in Targets |-> IF t \in targets THEN v ELSE resume[t]]
    /\ UNCHANGED <<writes, log, lastAcked, user, nextBatchID, targets, blocks,
                   pipeline, floor, ghosts, budget>>

-----------------------------------------------------------------------------
\* The credentials provider reports another user.
UserDidChange(u) ==
    /\ u # user
    /\ Spend("switch")
    /\ user' = u
    /\ StartMutationQueue(u)
    /\ RestartNetwork(u)
    /\ UNCHANGED <<writes, log, cache, remoteVersion, resume, targets, blocks,
                   floor, told, confirmed, refused>>

\* The process dies and is launched again: what is on disk is left.
Relaunch(u) ==
    /\ Spend("relaunch")
    /\ user' = u
    /\ StartMutationQueue(u)
    /\ RestartNetwork(u)
    /\ targets' = {}
    /\ blocks' = [v \in Users |-> {}]
    /\ told' = [w \in DOMAIN told |->
                  IF told[w] = "waiting" THEN "gone" ELSE told[w]]
    /\ UNCHANGED <<writes, log, cache, remoteVersion, resume, floor, confirmed,
                   refused>>

-----------------------------------------------------------------------------
Next ==
    \/ \E k \in Keys : WriteMutations(k) \/ RemoteWrite(k)
    \/ StreamOpens \/ CompleteHandshake \/ BreakStream \/ CloseIdleStream
    \/ ServerApplies \/ ServerRefuses
    \/ ReceiveResponse \/ ReceiveRefusal
    \/ \E t \in Targets : Listen(t) \/ ReleaseQuery(t)
    \/ \E v \in 1 .. Len(log) : WatchSnapshot(v)
    \/ \E u \in Users : UserDidChange(u) \/ Relaunch(u)

Spec == Init /\ [][Next]_vars

-----------------------------------------------------------------------------
WriteNumbers == 1 .. Len(writes)

\* Every variable has its type.
PipelineTypeOK ==
    /\ writes \in Seq([user : Users \cup {Elsewhere}, key : Keys])
    /\ log \in Seq(WriteNumbers)
    /\ \A u \in Users : /\ rows[u] \subseteq Batch
                        /\ blocks[u] \subseteq Batch
    /\ lastAcked \in [Users -> Int]
    /\ cache \in [Keys -> [write : {0} \cup WriteNumbers, version : 0 .. Len(log)]]
    /\ remoteVersion \in 0 .. Len(log)
    /\ resume \in [Targets -> 0 .. Len(log)]
    /\ user \in Users
    /\ nextBatchID \in Nat
    /\ held \in Seq([batch : Batch, version : 1 .. Len(log)])
    /\ targets \subseteq Targets
    /\ pendingWrites \in Seq(Batch)
    /\ Len(pendingWrites) <= MaxPendingWrites
    /\ lastBatchSeen \in Int
    /\ stream \in {"initial", "starting", "open", "ready"}
    /\ idleTimer \in {"off", "on"}
    /\ requests \in Seq(Batch)
    /\ responses \in Seq(0 .. Len(log))
    /\ floor \in 0 .. Len(log)
    /\ told \in [WriteNumbers -> {"waiting", "success", "failure", "gone"}]
    /\ confirmed \cup refused \cup dropped \subseteq WriteNumbers
    /\ budget \in [Event -> Nat]

\* What the asserts of the mutation queue rely on: batch ids are unique across
\* the queues of all users and below the next one, and the ids of a queue are
\* above its last acknowledged one except for batches being held (for a user
\* away, batches that were); a last acknowledged id from before the numbering
\* began again finds its queue empty.
IdsInOrder ==
    /\ \A u, v \in Users : \A b \in rows[u], c \in rows[v] :
         b.id = c.id => u = v /\ b = c
    /\ \A u \in Users : \A b \in rows[u] :
         /\ b.id < nextBatchID
         /\ b.id <= lastAcked[u] => b.write \in confirmed
    /\ \A u \in Users : lastAcked[u] >= nextBatchID => rows[u] = {}
    /\ {b \in rows[user] : b.id <= lastAcked[user]}
         = {held[i].batch : i \in DOMAIN held}

\* The pipeline holds the oldest unacknowledged batches of the current user,
\* as many as it takes, and its stream is at work as long as it holds any: no
\* write is passed over, overtaken or left behind.  (With the type invariant.)
PipelineFull ==
    /\ PipelineTypeOK
    /\ pendingWrites = FirstOf(InOrder(Unacked(rows[user], lastAcked[user])),
                               MaxPendingWrites)
    /\ pendingWrites # << >> => stream # "initial"

\* The answers on their way belong to the first pending writes, in order, and
\* the requests on their way are the rest of the pipeline.
AnswersMatchPipeline ==
    LET answered == IF Refusing THEN Len(responses) - 1 ELSE Len(responses)
    IN /\ Len(responses) <= Len(pendingWrites)
       /\ \A i \in 1 .. answered : log[responses[i]] = pendingWrites[i].write
       /\ stream = "ready" /\ ~Refusing =>
            requests = SubSeq(pendingWrites, answered + 1, Len(pendingWrites))

\* The caller of a write hears of its own outcome, once: the blocks waiting
\* are those of the unanswered writes of this launch, under the ids of their
\* rows, although ids are used again.
CallersToldTheTruth ==
    /\ \A w \in WriteNumbers : /\ told[w] = "success" => w \in confirmed
                               /\ told[w] = "failure" => w \in refused
    /\ {c.write : c \in UNION {blocks[u] : u \in Users}}
         = {w \in WriteNumbers : told[w] = "waiting"}
    /\ \A u \in Users : blocks[u] \subseteq Unacked(rows[u], lastAcked[u])

-----------------------------------------------------------------------------
\* Where in the log a write was applied: more than once if it was sent again.
Places(w) == {i \in DOMAIN log : log[i] = w}

PendingWritesOfUser ==
    {b.write : b \in Unacked(rows[user], lastAcked[user])}

\* Content x of a document does not hide the effect of w: it is w's, or newer
\* on the server, or waits to become newer.
NotOlder(x, w) == \/ x = w
                  \/ x \in PendingWritesOfUser /\ w \notin PendingWritesOfUser
                  \/ x \in PendingWritesOfUser /\ x > w
                  \/ \E i \in Places(w), j \in Places(x) : i < j

Visible(w) == NotOlder(LocalDocument(writes[w].key), w)

\* The comment on heldBatchResults: holding back "ensures that the local write
\* remains visible and doesn't temporarily appear reverted because the watch
\* stream is slower than the write stream".  Only a write that was being held
\* when the engine changed its user or the process ended can appear reverted,
\* and only until the watch stream reaches it.
NotReverted ==
    \A w \in confirmed \cup PendingWritesOfUser :
      \/ Visible(w)
      \/ w \in dropped /\ \A i \in Places(w) : remoteVersion < i

-----------------------------------------------------------------------------
\* The pipeline implements the outbox.
PendingNumbers(u) ==
    LET b == InOrder(Unacked(rows[u], lastAcked[u]))
    IN [i \in DOMAIN b |-> b[i].write]

O == INSTANCE Outbox WITH
       made <- Len(writes),
       outbox <- [u \in Users |-> PendingNumbers(u)]

\* Filed writes reach the server in order, none is skipped, and none is
\* confirmed before the server applied it.
ImplementsOutbox == O!Spec

-----------------------------------------------------------------------------
\* The worker queue runs its blocks, the stream opens and the server answers
\* unless it is interrupted, which the budget bounds; and a query of this
\* program ends with its first answer.
Fairness ==
    /\ WF_vars(StreamOpens) /\ WF_vars(CompleteHandshake)
    /\ WF_vars(ServerApplies)
    /\ WF_vars(ReceiveResponse) /\ WF_vars(ReceiveRefusal)
    /\ \A t \in Targets : WF_vars(ReleaseQuery(t))

FairSpec == Spec /\ Fairness

\* Whatever is filed leaves the queue: every batch is sent until it has an
\* outcome, and every acknowledged one is released in the end.
QueueDrains == <>[](rows[user] = {})
=============================================================================
