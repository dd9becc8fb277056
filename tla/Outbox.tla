------------------------------- MODULE Outbox -------------------------------
(***************************************************************************)
(* What the write side of the Firestore SDK promises, seen from outside:   *)
(* one queue of filed writes per user, and a server that applies writes.   *)
(* The writes of a user reach the server in the order they were filed, a   *)
(* write is confirmed only after the server applied it, and none is        *)
(* skipped.  A write may be applied more than once, because the answer to  *)
(* it may be lost, and even a refused write may have been applied before.  *)
(*                                                                         *)
(* Writes are numbered in the order they are made, on this device or any   *)
(* other.                                                                  *)
(***************************************************************************)
EXTENDS Integers, Sequences

CONSTANT Users

VARIABLES made,       \* how many writes were made so far
          outbox,     \* outbox[u]: the filed writes of u without an outcome
          log,        \* the writes in the order the server applied them
          confirmed,  \* the writes whose success was reported
          refused     \* the writes whose failure was reported

outboxVars == <<made, outbox, log, confirmed, refused>>

Applied == {log[i] : i \in DOMAIN log}

Init ==
    /\ made = 0
    /\ outbox = [u \in Users |-> << >>]
    /\ log = << >>
    /\ confirmed = {}
    /\ refused = {}

File(u) ==
    /\ made' = made + 1
    /\ outbox' = [outbox EXCEPT ![u] = Append(@, made + 1)]
    /\ UNCHANGED <<log, confirmed, refused>>

\* The server applies a write of u all of whose predecessors it has applied.
Apply(u) ==
    /\ \E i \in DOMAIN outbox[u] :
         /\ \A j \in 1 .. i - 1 : outbox[u][j] \in Applied
         /\ log' = Append(log, outbox[u][i])
    /\ UNCHANGED <<made, outbox, confirmed, refused>>

\* A write of another device.
ApplyForeign ==
    /\ made' = made + 1
    /\ log' = Append(log, made + 1)
    /\ UNCHANGED <<outbox, confirmed, refused>>

Confirm(u) ==
    /\ outbox[u] # << >>
    /\ Head(outbox[u]) \in Applied
    /\ confirmed' = confirmed \cup {Head(outbox[u])}
    /\ outbox' = [outbox EXCEPT ![u] = Tail(@)]
    /\ UNCHANGED <<made, log, refused>>

Refuse(u) ==
    /\ outbox[u] # << >>
    /\ refused' = refused \cup {Head(outbox[u])}
    /\ outbox' = [outbox EXCEPT ![u] = Tail(@)]
    /\ UNCHANGED <<made, log, confirmed>>

Next ==
    \/ ApplyForeign
    \/ \E u \in Users : File(u) \/ Apply(u) \/ Confirm(u) \/ Refuse(u)

Spec == Init /\ [][Next]_outboxVars
=============================================================================
