---------------------------- MODULE WatchTargets ----------------------------
(***************************************************************************)
(* How the remote store of the Firestore SDK listens: queries come and go  *)
(* under target ids that are used again for the same query, requests and   *)
(* changes cross on the watch stream, and the stream idles, breaks and is  *)
(* built anew.  Changes pile up until a snapshot version makes them        *)
(* consistent; while requests for a target are unanswered, changes for it  *)
(* are those of an earlier listen and are thrown away.                     *)
(*                                                                         *)
(* Listens are numbered.  The number travels with the requests and changes *)
(* of the model so that properties can tell which listen a change was      *)
(* meant for; the program sees target ids only.                            *)
(***************************************************************************)
EXTENDS Integers, Sequences, FiniteSets, Functions

CONSTANTS Targets,       \* the target ids
          MaxVersion,    \* the newest snapshot version
          Budget         \* how often each event may happen

Event == {"listen", "stop", "refusal", "failure", "idle"}

ASSUME WatchAssumption == /\ IsFiniteSet(Targets)
                          /\ MaxVersion \in Nat \ {0}
                          /\ Budget \in [Event -> Nat]

VARIABLES
    listenTargets,  \* the listen of each watched target, or None
    pendingTargetResponses,  \* requests not yet answered, by target
    accumulated,    \* accumulatedChanges
    remoteVersion,  \* lastRemoteSnapshotVersion
    stream,         \* the watch stream
    idleTimer,      \* whether its idle timer runs
    requests,       \* on their way to the server
    changes,        \* on their way to the client
    serving,        \* the server: the listen of each target it serves, or None
    due,            \* the server: the listens it has not answered yet
    sent,           \* the server: the last snapshot version sent on the stream
    fate,           \* auxiliary: what became of each listen
    heard,          \* auxiliary: whose changes were given to each listen
    budget

vars == <<listenTargets, pendingTargetResponses, accumulated, remoteVersion,
          stream, idleTimer, requests, changes, serving, due, sent, fate,
          heard, budget>>

None == 0
Listens == 1 .. Len(fate)

Request == [op : {"watch", "unwatch"}, target : Targets, listen : Nat]
Change == [type : {"added", "removed", "refused", "document", "current"},
           target : Targets, listen : Nat]
          \cup [type : {"snapshot"}, version : 1 .. MaxVersion]

TargetChange(kind, t, n) == [type |-> kind, target |-> t, listen |-> n]
Snapshot(v) == [type |-> "snapshot", version |-> v]

Spend(e) == /\ budget[e] > 0
            /\ budget' = [budget EXCEPT ![e] = @ - 1]

Init ==
    /\ listenTargets = [t \in Targets |-> None]
    /\ pendingTargetResponses = [t \in Targets |-> 0]
    /\ accumulated = << >>
    /\ remoteVersion = 0
    /\ stream = "initial"
    /\ idleTimer = "off"
    /\ requests = << >>
    /\ changes = << >>
    /\ serving = [t \in Targets |-> None]
    /\ due = {}
    /\ sent = 0
    /\ fate = << >>
    /\ heard = << >>
    /\ budget = Budget

Watched(targets) == {t \in Targets : targets[t] # None}

-----------------------------------------------------------------------------
\* The sync engine starts a query under its target id.
ListenToTarget(t) ==
    /\ listenTargets[t] = None
    /\ Spend("listen")
    /\ LET n == Len(fate) + 1
       IN /\ listenTargets' = [listenTargets EXCEPT ![t] = n]
          /\ fate' = Append(fate, "waiting")
          /\ heard' = Append(heard, {})
          /\ \/ /\ stream = "open"
                /\ pendingTargetResponses' =
                     [pendingTargetResponses EXCEPT ![t] = @ + 1]
                /\ requests' = Append(requests, [op |-> "watch", target |-> t,
                                                 listen |-> n])
                /\ idleTimer' = "off"
                /\ UNCHANGED stream
             \/ /\ stream # "open"
                /\ stream' = "starting"
                /\ UNCHANGED <<pendingTargetResponses, requests, idleTimer>>
    /\ UNCHANGED <<accumulated, remoteVersion, changes, serving, due, sent>>

\* The sync engine stops a query; this program does so with the first answer,
\* a listener that is removed may do so before it.
StopListening(t) ==
    /\ listenTargets[t] # None
    /\ \/ /\ fate[listenTargets[t]] = "waiting"
          /\ Spend("stop")
          /\ fate' = [fate EXCEPT ![listenTargets[t]] = "stopped"]
       \/ /\ fate[listenTargets[t]] = "answered"
          /\ UNCHANGED <<fate, budget>>
    /\ listenTargets' = [listenTargets EXCEPT ![t] = None]
    /\ \/ /\ stream = "open"
          /\ pendingTargetResponses' =
               [pendingTargetResponses EXCEPT ![t] = @ + 1]
          /\ requests' = Append(requests,
                                [op |-> "unwatch", target |-> t,
                                 listen |-> listenTargets[t]])
          /\ idleTimer' = IF Watched(listenTargets') = {} THEN "on" ELSE "off"
       \/ /\ stream # "open"
          /\ UNCHANGED <<pendingTargetResponses, requests, idleTimer>>
    /\ UNCHANGED <<accumulated, remoteVersion, stream, changes, serving, due,
                   sent, heard>>

-----------------------------------------------------------------------------
\* Mutant: only targets listened to later are asked for.
StreamDidOpenAnew ==
    /\ stream = "starting"
    /\ stream' = "open"
    /\ UNCHANGED <<listenTargets, pendingTargetResponses, accumulated,
                   remoteVersion, idleTimer, requests, changes, serving, due,
                   sent, fate, heard, budget>>

\* The stream opens: every watched target is asked for again.
StreamDidOpen ==
    /\ stream = "starting"
    /\ stream' = "open"
    /\ \E order \in Bijection(1 .. Cardinality(Watched(listenTargets)),
                              Watched(listenTargets)) :
         requests' = [i \in DOMAIN order |->
                        [op |-> "watch", target |-> order[i],
                         listen |-> listenTargets[order[i]]]]
    /\ pendingTargetResponses' =
         [t \in Targets |-> IF t \in Watched(listenTargets)
                            THEN pendingTargetResponses[t] + 1
                            ELSE pendingTargetResponses[t]]
    /\ UNCHANGED <<listenTargets, accumulated, remoteVersion, idleTimer,
                   changes, serving, due, sent, fate, heard, budget>>

\* Mutant: the counts survive the stream.
CloseStreamKeepingCounts ==
    /\ stream' = IF Watched(listenTargets) # {} THEN "starting" ELSE "initial"
    /\ idleTimer' = "off"
    /\ accumulated' = << >>
    /\ requests' = << >>
    /\ changes' = << >>
    /\ serving' = [t \in Targets |-> None]
    /\ due' = {}
    /\ sent' = 0
    /\ UNCHANGED <<listenTargets, pendingTargetResponses, remoteVersion, fate,
                   heard>>

\* The stream was closed, by an error, its idle timer or a change of user:
\* what is under way is lost and what was accumulated is tossed.
CloseStream ==
    /\ stream' = IF Watched(listenTargets) # {} THEN "starting" ELSE "initial"
    /\ idleTimer' = "off"
    /\ accumulated' = << >>
    /\ pendingTargetResponses' = [t \in Targets |-> 0]
    /\ requests' = << >>
    /\ changes' = << >>
    /\ serving' = [t \in Targets |-> None]
    /\ due' = {}
    /\ sent' = 0
    /\ UNCHANGED <<listenTargets, remoteVersion, fate, heard>>

BreakStream ==
    /\ stream \in {"starting", "open"}
    /\ Spend("failure")
    /\ CloseStream

CloseIdleStream ==
    /\ idleTimer = "on"
    /\ Spend("idle")
    /\ CloseStream

-----------------------------------------------------------------------------
\* The server handles requests in order.
Handle(r, answer) ==
    /\ requests # << >>
    /\ Head(requests) = r
    /\ requests' = Tail(requests)
    /\ changes' = changes \o answer
    /\ UNCHANGED <<listenTargets, pendingTargetResponses, accumulated,
                   remoteVersion, stream, idleTimer, sent, fate, heard>>

ServerAdds ==
    \E r \in Range(requests) :
      /\ r.op = "watch"
      /\ Handle(r, <<TargetChange("added", r.target, r.listen)>>)
      /\ serving' = [serving EXCEPT ![r.target] = r.listen]
      /\ due' = due \cup {r.listen}
      /\ UNCHANGED budget

\* It may refuse a query (a rule, a missing index, a limit), after it has
\* confirmed the target: a refusal alone is no response for the client.
ServerRefuses ==
    \E r \in Range(requests) :
      /\ r.op = "watch"
      /\ Spend("refusal")
      /\ Handle(r, <<TargetChange("added", r.target, r.listen),
                     TargetChange("refused", r.target, r.listen)>>)
      /\ UNCHANGED <<serving, due>>

ServerRemoves ==
    \E r \in Range(requests) :
      /\ r.op = "unwatch"
      /\ Handle(r, <<TargetChange("removed", r.target, r.listen)>>)
      /\ serving' = [serving EXCEPT ![r.target] = None]
      /\ due' = due \ {serving[r.target]}
      /\ UNCHANGED budget

\* It answers a target with its documents and a mark that they are current,
\* and makes them consistent with a snapshot version.  On a new stream these
\* may start below what the client has seen.
ServerAnswers(t) ==
    /\ serving[t] \in due
    /\ \E v \in {sent, sent + 1} \cap 1 .. MaxVersion :
         /\ changes' = changes \o <<TargetChange("document", t, serving[t]),
                                    TargetChange("current", t, serving[t]),
                                    Snapshot(v)>>
         /\ sent' = v
    /\ due' = due \ {serving[t]}
    /\ UNCHANGED <<listenTargets, pendingTargetResponses, accumulated,
                   remoteVersion, stream, idleTimer, requests, serving, fate,
                   heard, budget>>

\* Time goes on.
ServerCatchesUp ==
    /\ Watched(serving) # {}
    /\ sent < MaxVersion
    /\ changes' = Append(changes, Snapshot(sent + 1))
    /\ sent' = sent + 1
    /\ UNCHANGED <<listenTargets, pendingTargetResponses, accumulated,
                   remoteVersion, stream, idleTimer, requests, serving, due,
                   fate, heard, budget>>

-----------------------------------------------------------------------------
\* The aggregator walks the accumulated changes.  It keeps the counts of
\* unanswered requests, the listens whose documents and marks each target was
\* given, and the targets that are current.
\* (Mutant: a target is active as soon as it is watched.)
IsActiveOnceWatched(count, t) == listenTargets[t] # None

IsActive(count, t) == listenTargets[t] # None /\ count[t] = 0

AddWatchChange(a, c) ==
    CASE c.type = "added" ->
           LET count == [a.count EXCEPT ![c.target] = @ - 1]
               given == IF count[c.target] = 0 THEN {} ELSE a.given[c.target]
               current == IF count[c.target] = 0
                          THEN a.current \ {c.target} ELSE a.current
           IN [count |-> count, current |-> current,
               given |-> [a.given EXCEPT ![c.target] = given]]
      [] c.type = "removed" -> [a EXCEPT !.count[c.target] = @ - 1]
      [] c.type = "document" /\ IsActive(a.count, c.target) ->
           [a EXCEPT !.given[c.target] = @ \cup {c.listen}]
      [] c.type = "current" /\ IsActive(a.count, c.target) ->
           [a EXCEPT !.given[c.target] = @ \cup {c.listen},
                     !.current = @ \cup {c.target}]
      [] OTHER -> a

Unchanged == [count |-> pendingTargetResponses,
              given |-> [t \in Targets |-> {}], current |-> {}]

Aggregate(list) ==
    LET after[i \in 0 .. Len(list)] ==
          IF i = 0 THEN Unchanged ELSE AddWatchChange(after[i - 1], list[i])
    IN after[Len(list)]

\* A consistent snapshot: changes of active targets reach their queries, and
\* a current one has its answer.
ProcessBatchedWatchChanges(list, v) ==
    LET a == Aggregate(list)
        Reached(n) == {t \in Targets : IsActive(a.count, t) /\ listenTargets[t] = n}
    IN /\ pendingTargetResponses' = a.count
       /\ accumulated' = << >>
       /\ remoteVersion' = v
       /\ heard' = [n \in Listens |-> heard[n] \cup UNION {a.given[t] : t \in Reached(n)}]
       /\ fate' = [n \in Listens |->
                     IF fate[n] = "waiting" /\ Reached(n) \cap a.current # {}
                     THEN "answered" ELSE fate[n]]
       /\ UNCHANGED <<listenTargets, idleTimer>>

\* The refusal of a target is handled at once; one that is no longer watched
\* is ignored.
ProcessTargetError(t) ==
    /\ \/ /\ listenTargets[t] # None
          /\ listenTargets' = [listenTargets EXCEPT ![t] = None]
          /\ fate' = [fate EXCEPT ![listenTargets[t]] = "refused"]
       \/ /\ listenTargets[t] = None
          /\ UNCHANGED <<listenTargets, fate>>
    /\ UNCHANGED <<pendingTargetResponses, accumulated, remoteVersion,
                   idleTimer, heard>>

\* A change without a version, or with one older than the last, is kept for
\* later.
WatchStreamDidChange ==
    /\ changes # << >>
    /\ LET c == Head(changes)
       IN \/ /\ c.type = "refused"
             /\ ProcessTargetError(c.target)
          \/ /\ c.type = "snapshot"
             /\ c.version >= remoteVersion
             /\ ProcessBatchedWatchChanges(Append(accumulated, c), c.version)
          \/ /\ c.type # "refused"
             /\ c.type = "snapshot" => c.version < remoteVersion
             /\ accumulated' = Append(accumulated, c)
             /\ UNCHANGED <<listenTargets, pendingTargetResponses,
                            remoteVersion, idleTimer, fate, heard>>
    /\ changes' = Tail(changes)
    /\ UNCHANGED <<stream, requests, serving, due, sent, budget>>

-----------------------------------------------------------------------------
Next ==
    \/ \E t \in Targets : ListenToTarget(t) \/ StopListening(t) \/ ServerAnswers(t)
    \/ StreamDidOpen \/ BreakStream \/ CloseIdleStream
    \/ ServerAdds \/ ServerRefuses \/ ServerRemoves \/ ServerCatchesUp
    \/ WatchStreamDidChange

Spec == Init /\ [][Next]_vars

\* The server answers, the stream opens and the worker queue takes what
\* arrives.
Fairness == /\ WF_vars(StreamDidOpen)
            /\ WF_vars(ServerAdds) /\ WF_vars(ServerRemoves)
            /\ \A t \in Targets : WF_vars(ServerAnswers(t))
            /\ WF_vars(ServerCatchesUp)
            /\ WF_vars(WatchStreamDidChange)

FairSpec == Spec /\ Fairness

-----------------------------------------------------------------------------
WatchTypeOK ==
    /\ listenTargets \in [Targets -> {None} \cup Listens]
    /\ pendingTargetResponses \in [Targets -> Nat]
    /\ accumulated \in Seq(Change)
    /\ remoteVersion \in 0 .. MaxVersion
    /\ stream \in {"initial", "starting", "open"}
    /\ idleTimer \in {"off", "on"}
    /\ requests \in Seq(Request)
    /\ changes \in Seq(Change)
    /\ serving \in [Targets -> {None} \cup Listens]
    /\ due \subseteq Listens
    /\ sent \in 0 .. MaxVersion
    /\ fate \in Seq({"waiting", "answered", "stopped", "refused"})
    /\ heard \in [Listens -> SUBSET Listens]
    /\ budget \in [Event -> Nat]

\* A listen is only given what the server sent for it, although the changes of
\* earlier listens under the same target id may still be on their way.
OwnChangesOnly == \A n \in Listens : heard[n] \subseteq {n}

\* The comment on pendingTargetResponses: "We increment the count here
\* everytime we issue a request over the stream to watch or unwatch.  We then
\* decrement the count everytime we get a target added or target removed
\* message from the server."  So it counts the requests whose answer has not
\* been taken yet.  (CountsUnanswered includes the type invariant.)
Asked(t) == {i \in DOMAIN requests : requests[i].target = t}
Responses(list, t) ==
    {i \in DOMAIN list : list[i].type \in {"added", "removed"} /\ list[i].target = t}

Unanswered(t) == Cardinality(Asked(t)) + Cardinality(Responses(changes, t))
                   + Cardinality(Responses(accumulated, t))

CountsUnanswered ==
    /\ WatchTypeOK
    /\ \A t \in Targets : pendingTargetResponses[t] = Unanswered(t)

\* Every query is answered, refused or stopped.
EveryListenEnds ==
    \A n \in 1 .. Budget["listen"] :
      (n \in Listens /\ fate[n] = "waiting")
        ~> (n \in Listens /\ fate[n] # "waiting")
=============================================================================
