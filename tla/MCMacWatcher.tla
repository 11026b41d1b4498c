---------------------------- MODULE MCMacWatcher ----------------------------
(* Model-checking instances of MacWatcher.                                 *)
EXTENDS MacWatcher, TLC

CONSTANTS c1, c2, k1, k2

MCCallers2 == {c1, c2}
MCCallers1 == {c1}
MCKeys2 == {k1, k2}
MCKeys1 == {k1}
=============================================================================
