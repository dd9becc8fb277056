--------------------------- MODULE MCWatchTargets ---------------------------
(***************************************************************************)
(* An instance of WatchTargets for TLC.                                    *)
(***************************************************************************)
EXTENDS WatchTargets

CONSTANT t1

\* Three listens under one id, two of them stopped, and one of everything that
\* can come between.
ReuseBudget == [[e \in Event |-> 1] EXCEPT !["listen"] = 3, !["stop"] = 2]
=============================================================================
