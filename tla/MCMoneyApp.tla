----------------------------- MODULE MCMoneyApp -----------------------------
(***************************************************************************)
(* Instances of MoneyApp for TLC.                                          *)
(***************************************************************************)
EXTENDS MoneyApp, TLC

CONSTANTS x1, x2, u1, u2

\* The ids are interchangeable; the document keys are not (they are ordered).
IdSymmetry == Permutations(Ids)

NoEvents == [e \in Event |-> 0]

\* One user with two transactions: an edit and a deletion around a crash, an
\* outage, a request that fails, another device and a token that is renewed.
FailuresBudget == [NoEvents EXCEPT !["signIn"] = 1, !["edit"] = 1,
                     !["delete"] = 1, !["crash"] = 1, !["outage"] = 1,
                     !["failure"] = 1, !["remote"] = 1, !["refresh"] = 1]

\* Two users, sign-ins that wait for the answer and the load of the one before
\* and one that does not, two logouts, with a deletion under way, a request
\* that fails, and an account whose token is revoked.
SessionsBudget == [NoEvents EXCEPT !["signIn"] = 2, !["hurry"] = 1,
                     !["signOut"] = 2, !["delete"] = 1, !["failure"] = 1,
                     !["revoke"] = 1]

\* Liveness: the user edits a transaction twice and deletes it, returns from
\* the sign-up screen and relaunches the program around an outage.
ProgressBudget == [NoEvents EXCEPT !["signIn"] = 1, !["edit"] = 2,
                     !["delete"] = 1, !["outage"] = 1, !["return"] = 1,
                     !["crash"] = 1]
=============================================================================
