----------------------------- MODULE MCRegistry -----------------------------
(* Instances of WorkerRegistry for TLC. *)
EXTENDS WorkerRegistry, TLC

Symmetric == Permutations(Workers)
=============================================================================
