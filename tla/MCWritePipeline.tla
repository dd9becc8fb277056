-------------------------- MODULE MCWritePipeline --------------------------
(***************************************************************************)
(* Instances of WritePipeline for TLC.                                     *)
(***************************************************************************)
EXTENDS WritePipeline

CONSTANTS u1, u2, k1, t1, t2

NoEvents == [e \in Event |-> 0]

\* Two users, three writes, and one of everything that can go wrong.
QueueBudget == [NoEvents EXCEPT !["write"] = 3, !["refusal"] = 1,
                  !["failure"] = 1, !["idle"] = 1, !["switch"] = 2,
                  !["relaunch"] = 1]

\* Two queries, so that acknowledgements are held and released, another device,
\* an idle stream, a change of user and a relaunch.
HeldBudget == [NoEvents EXCEPT !["write"] = 2, !["remote"] = 1, !["idle"] = 1,
                 !["switch"] = 1, !["relaunch"] = 1, !["listen"] = 2]
=============================================================================
