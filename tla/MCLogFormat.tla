---------------------------- MODULE MCLogFormat ----------------------------
(***************************************************************************)
(* LogFormat with short blocks: every place of a record in its block, and  *)
(* records of up to three blocks.                                          *)
(***************************************************************************)
EXTENDS LogFormat
=============================================================================
