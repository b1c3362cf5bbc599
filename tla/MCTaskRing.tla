----------------------------- MODULE MCTaskRing -----------------------------
(* TaskRing with the threads, producers and sizes of the .cfg files. *)
EXTENDS TaskRing
=============================================================================
