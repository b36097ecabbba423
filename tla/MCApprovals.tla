----------------------------- MODULE MCApprovals -----------------------------
(* An instance of Approvals for TLC. *)
EXTENDS Approvals, TLC

Symmetry == Permutations(Tickers) \cup Permutations(Deciders) \cup Permutations(Approvers)
=============================================================================
