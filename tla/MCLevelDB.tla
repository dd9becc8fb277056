----------------------------- MODULE MCLevelDB -----------------------------
(***************************************************************************)
(* Instances of LevelDB for TLC.                                           *)
(***************************************************************************)
EXTENDS LevelDB

CONSTANTS w1, w2

NoEvents == [e \in Event |-> 0]

\* The process ends, the machine ends, a file cannot be written, in any order.
FaultBudget == [e \in Event |-> 1]

\* A machine that ends while the database is created.
CreationBudget == [NoEvents EXCEPT !["powerloss"] = 1]
=============================================================================
