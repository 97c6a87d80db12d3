---- MODULE MCHeapLocks ----
(* Two cores and three frames, all free at boot. *)
EXTENDS HeapLocks

CONSTANTS c1, c2, f1, f2, f3

MCCores == {c1, c2}
MCFrameIds == {f1, f2, f3}
MCInitList == <<f1, f2, f3>>

=============================================================================
