---------------------------- MODULE MCScheduler ----------------------------
(* Scheduler on small instances. *)
EXTENDS Scheduler, TLC

Every2 == [kind |-> "Every", step |-> 2, times |-> {}]
Every1 == [kind |-> "Every", step |-> 1, times |-> {}]
Cron134 == [kind |-> "Cron", step |-> 0, times |-> {1, 3, 4}]
At2 == [kind |-> "At", step |-> 0, times |-> {2}]
Bad == [kind |-> "Unparsable", step |-> 0, times |-> {}]

Skip == [kind |-> "Skip", wanted |-> 1]
FireOnce == [kind |-> "FireOnce", wanted |-> 1]
CatchUp2 == [kind |-> "CatchUp", wanted |-> 2]

AllSpecs == {Every1, Every2, Cron134, At2, Bad}
AllPolicies == {Skip, FireOnce, CatchUp2}
RaceSpecs == {Every1}
RacePolicies == {FireOnce}

Symmetry == Permutations(Replicas)
=============================================================================
