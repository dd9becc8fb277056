----------------------------- MODULE MCDashboard -----------------------------
(***************************************************************************)
(* Instance of Dashboard for TLC.                                          *)
(***************************************************************************)
EXTENDS Dashboard

\* A day in December, two in January and one in the next December.
FourDays == [d \in 1 .. 4 |->
               CASE d = 1 -> [month |-> 12, year |-> 1]
                 [] d = 2 -> [month |-> 1, year |-> 2]
                 [] d = 3 -> [month |-> 1, year |-> 2]
                 [] d = 4 -> [month |-> 12, year |-> 2]]
=============================================================================
