---------------------------- MODULE OrderedView ----------------------------
(***************************************************************************)
(* What a transaction of the local database promises to the code above it: *)
(* a map whose changes are seen at once by the transaction itself, a       *)
(* cursor that walks the map in the order of its keys while it is being    *)
(* changed, and all changes or none on disk.                               *)
(***************************************************************************)
EXTENDS Integers

CONSTANTS MaxKey, Values, None

Keys == 1 .. MaxKey
NoEntry == [key |-> 0, value |-> None]

VARIABLES committed,  \* the map on disk
          view,       \* the map as the transaction sees it
          cursor      \* the entry the cursor stands on, or NoEntry

viewVars == <<committed, view, cursor>>

\* e is the entry of the first key in S that the map m has, or NoEntry.
IsFirst(e, S, m) ==
    \/ /\ e.key \in S
       /\ e.value = m[e.key]
       /\ e.value # None
       /\ \A k \in S : m[k] # None => e.key <= k
    \/ /\ e = NoEntry
       /\ \A k \in S : m[k] = None

Init ==
    /\ committed \in [Keys -> Values \cup {None}]
    /\ view = committed
    /\ cursor = NoEntry

\* A key is set or, with None, deleted.  The cursor keeps its entry.
Change(k, v) ==
    /\ view' = [view EXCEPT ![k] = v]
    /\ UNCHANGED <<committed, cursor>>

NewCursor ==
    /\ cursor' = NoEntry
    /\ UNCHANGED <<committed, view>>

Seek(k) ==
    /\ cursor' \in [key : {0} \cup Keys, value : Values \cup {None}]
    /\ IsFirst(cursor', k .. MaxKey, view)
    /\ UNCHANGED <<committed, view>>

Next ==
    /\ cursor # NoEntry
    /\ cursor' \in [key : {0} \cup Keys, value : Values \cup {None}]
    /\ IsFirst(cursor', cursor.key + 1 .. MaxKey, view)
    /\ UNCHANGED <<committed, view>>

Commit ==
    /\ committed' = view
    /\ cursor' = NoEntry
    /\ UNCHANGED view

Abandon ==
    /\ view' = committed
    /\ cursor' = NoEntry
    /\ UNCHANGED committed

Step ==
    \/ \E k \in Keys, v \in Values \cup {None} : Change(k, v)
    \/ \E k \in Keys : Seek(k)
    \/ NewCursor \/ Next \/ Commit \/ Abandon

Spec == Init /\ [][Step]_viewVars
=============================================================================
