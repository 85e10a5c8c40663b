-------------------------- MODULE MCJobCoordinator --------------------------
(* Small instances of JobCoordinator for TLC.                              *)
EXTENDS JobCoordinator

CONSTANTS a1, s1, r1, i1, i2, wan1, wan2

\* An Auto-Tune and an unshaped Speed Test of two instances on one uplink, and
\* a rating on another.
MCKind == [j \in Jobs |-> CASE j = a1 -> "autotune"
                            [] j = s1 -> "speedtest"
                            [] OTHER  -> "rating"]
MCInstance == [j \in Jobs |-> IF j = a1 THEN i1 ELSE i2]
MCLocalKeys == [j \in Jobs |-> CASE j = a1 -> {i1, wan1}
                                 [] j = s1 -> {i2, wan1}
                                 [] OTHER  -> {i2, wan2}]
=============================================================================
