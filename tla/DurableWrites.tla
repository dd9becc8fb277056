--------------------------- MODULE DurableWrites ---------------------------
(***************************************************************************)
(* What the Firestore SDK relies on when it commits to its database: a     *)
(* write takes effect as a whole while it is being called, for good, and a *)
(* call that has returned has taken effect; the process may end at any     *)
(* time.  The end of the machine may undo what is not yet safe.            *)
(***************************************************************************)
CONSTANT Writes

VARIABLES contents,  \* the writes that have taken effect
          safe,      \* those that a loss of power does not undo
          calls      \* the writes being called

durableVars == <<contents, safe, calls>>

Init ==
    /\ contents = {}
    /\ safe = {}
    /\ calls = {}

Call(w) ==
    /\ w \notin contents \cup calls
    /\ calls' = calls \cup {w}
    /\ UNCHANGED <<contents, safe>>

TakeEffect(set) ==
    /\ contents' = contents \cup set
    /\ UNCHANGED <<safe, calls>>

MakeSafe(set) ==
    /\ set \subseteq contents
    /\ safe' = safe \cup set
    /\ UNCHANGED <<contents, calls>>

Return(set) ==
    /\ set \subseteq contents
    /\ calls' = calls \ set
    /\ UNCHANGED <<contents, safe>>

Crash ==
    /\ calls' = {}
    /\ UNCHANGED <<contents, safe>>

PowerLoss ==
    /\ calls' = {}
    /\ \E lost \in SUBSET (contents \ safe) : contents' = contents \ lost
    /\ UNCHANGED safe

Next ==
    \/ \E w \in Writes : Call(w)
    \/ \E set \in SUBSET calls : TakeEffect(set) \/ Return(set)
    \/ \E set \in SUBSET contents : MakeSafe(set)
    \/ Crash \/ PowerLoss

Spec == Init /\ [][Next]_durableVars
=============================================================================
