---------------------------- MODULE MCWinWatcher ----------------------------
(* Model-checking instances of WinWatcher.                                 *)
EXTENDS WinWatcher, TLC

CONSTANTS c1, c2, w1, w2

MCCallers2 == {c1, c2}
MCCallers1 == {c1}
MCWatches2 == {w1, w2}
MCWatches1 == {w1}

(* Callers are interchangeable, and so are watches; used by safety runs.  *)
MCSymmetry == Permutations(MCCallers2) \cup Permutations(MCWatches2)
(* Bound for runs with DequeueMayFail: once the event thread has exited,  *)
(* nothing consumes the port, and every poll of a watch in error posts an *)
(* entry and returns at once; the queue is cut off at MaxOrphaned entries. *)
MaxOrphaned == 2
OrphanBound == tstate = "exited" => Len(port) <= MaxOrphaned
=============================================================================
