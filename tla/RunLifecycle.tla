---------------------------- MODULE RunLifecycle ----------------------------
(***************************************************************************)
(* What the run store promises about each run: the lifecycle table of      *)
(* run_store.rs (the module documentation and RunState).  A run moves      *)
(* along one row of the table at a time; its attempts and its fencing      *)
(* epoch change as the row says; a finished run never changes again, and a *)
(* pruned one never comes back.  One operation may move several runs.      *)
(***************************************************************************)
EXTENDS Naturals

CONSTANT RunIds

VARIABLE life           \* what a client can see of each run

Finished == {"Completed", "Failed", "Cancelled"}

Life ==
    [phase : Finished \cup {"New", "Queued", "Running", "Waiting", "Pruned"},
     attempt : Nat,
     epoch : Nat]

NewLife == [phase |-> "New", attempt |-> 0, epoch |-> 0]

Moves(a, b, from, to) == a.phase \in from /\ b.phase \in to

SameAttempt(a, b) == b.attempt = a.attempt
SameEpoch(a, b) == b.epoch = a.epoch

(* One operator per group of rows with the same effect on the counters. *)
Enqueued(a, b) ==
    /\ Moves(a, b, {"New"}, {"Queued"})
    /\ b.attempt = 0 /\ b.epoch = 0

(* The claim of a queued run, or the recovery of an abandoned one. *)
AttemptStarts(a, b) ==
    /\ Moves(a, b, {"Queued", "Running"}, {"Running"})
    /\ b.attempt = a.attempt + 1 /\ b.epoch = a.epoch + 1

(* The claim of a parked run resumes the attempt that parked it. *)
Resumes(a, b) ==
    /\ Moves(a, b, {"Waiting"}, {"Running"})
    /\ SameAttempt(a, b) /\ b.epoch = a.epoch + 1

(* wait, finish, an exhausted recovery. *)
AttemptEnds(a, b) ==
    /\ Moves(a, b, {"Running"}, Finished \cup {"Queued", "Waiting"})
    /\ SameAttempt(a, b) /\ SameEpoch(a, b)

CancelledUnheld(a, b) ==
    /\ Moves(a, b, {"Queued", "Waiting"}, {"Cancelled"})
    /\ SameAttempt(a, b) /\ SameEpoch(a, b)

PrunedAway(a, b) ==
    /\ Moves(a, b, Finished, {"Pruned"})
    /\ b.attempt = 0 /\ b.epoch = 0

Row(a, b) ==
    \/ Enqueued(a, b)
    \/ AttemptStarts(a, b)
    \/ Resumes(a, b)
    \/ AttemptEnds(a, b)
    \/ CancelledUnheld(a, b)
    \/ PrunedAway(a, b)

Init == life = [r \in RunIds |-> NewLife]

Next ==
    /\ life' \in [RunIds -> Life]
    /\ \A r \in RunIds : life'[r] = life[r] \/ Row(life[r], life'[r])

Spec == Init /\ [][Next]_life
=============================================================================
