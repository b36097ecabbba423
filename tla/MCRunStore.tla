----------------------------- MODULE MCRunStore -----------------------------
(***************************************************************************)
(* RunStore for TLC: workers, keys and checkpoints are interchangeable.    *)
(***************************************************************************)
EXTENDS RunStore, TLC

Symmetry ==
    Permutations(Workers) \cup Permutations(IdempotencyKeys)
        \cup Permutations(ConcurrencyKeys)
=============================================================================
