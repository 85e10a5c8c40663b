------------------------- MODULE MCRuntimeOverride -------------------------
(* Small instances of RuntimeOverride for TLC.  Jobs are interchangeable:  *)
(* no definition tells one from another.                                   *)
EXTENDS RuntimeOverride, TLC

JobSymmetry == Permutations(Jobs)
=============================================================================
