-------------------------- MODULE MCUciTransaction --------------------------
(* Small instances of UciTransaction for TLC.                              *)
EXTENDS UciTransaction
=============================================================================
