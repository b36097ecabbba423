--------------------------- MODULE MCGovernedCall ---------------------------
(* GovernedCall on small instances: two calls that are one and the same,   *)
(* two different ones, or one of each kind.                                *)
EXTENDS GovernedCall, TLC

CONSTANTS c1, c2, pay, list

SamePrint == c1 :> pay @@ c2 :> pay

TwoPrints == c1 :> pay @@ c2 :> list
=============================================================================
