-------------------------- MODULE MCDurableWorker --------------------------
(* DurableWorker on small instances. *)
EXTENDS DurableWorker, TLC

Symmetry == Permutations(Workers)
=============================================================================
