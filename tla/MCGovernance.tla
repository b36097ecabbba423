---------------------------- MODULE MCGovernance ----------------------------
(* Instances of Governance for TLC. *)
EXTENDS Governance, TLC

CONSTANTS c1, org, tenant

(* One process mirrors the organisation and a tenant and writes the first. *)
TwoScopes == c1 :> <<org, tenant>>

=============================================================================
