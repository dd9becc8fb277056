------------------------ MODULE MCLevelDbTransaction ------------------------
(***************************************************************************)
(* An instance of LevelDbTransaction for TLC.                              *)
(***************************************************************************)
EXTENDS LevelDbTransaction

CONSTANTS v1, v2
=============================================================================
