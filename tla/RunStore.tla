------------------------------ MODULE RunStore ------------------------------
(***************************************************************************)
(* The durable run store of adk-core (run_store.rs): the queue of agent    *)
(* and workflow runs that workers claim under fenced leases.  The state    *)
(* and the transitions are those of InMemoryRunStore; the transitions the  *)
(* durable backends share (adk-session/src/durable_transitions.rs) are the *)
(* same functions of a record.                                             *)
(*                                                                         *)
(* Every operation takes the table's mutex once, so it is one action.  But *)
(* it reads the clock BEFORE it takes the mutex: `at' is that reading, and *)
(* it may be up to MaxLag ticks older than `now', the time at which the    *)
(* operation takes effect.  MaxLag = 0 is a store whose callers never wait *)
(* for the mutex, and whose replicas share one clock.                      *)
(*                                                                         *)
(* Left out, because no transition depends on it: the application, user,   *)
(* session, target, input, principal, result and error of a run, and       *)
(* heartbeat_at.  `revision' counts the steps that change a run.           *)
(***************************************************************************)
EXTENDS Naturals

CONSTANTS
    Queues,             \* queue names
    Workers,            \* worker identifiers
    IdempotencyKeys,    \* idempotency keys callers use
    ConcurrencyKeys,    \* concurrency keys callers use
    Checkpoints,        \* checkpoint references workers record
    AttemptLimits,      \* the max_attempts callers ask for (0 is refused)
    StartTimes,         \* the not_before callers ask for: times, or None
    ParkTimes,          \* the `until' workers park with: times, or None
    Ttl,                \* the lease TTL, in ticks
    MaxRuns,            \* bound: runs ever enqueued
    MaxTime,            \* bound: the last clock value
    MaxEpoch,           \* bound: claims of one run
    MaxLag,             \* ticks a call may wait between its clock read and the mutex
    None                \* Option::None

ASSUME RunStoreAssumption ==
    /\ Ttl \in Nat \ {0}
    /\ MaxRuns \in Nat
    /\ MaxTime \in Nat
    /\ MaxEpoch \in Nat
    /\ MaxLag \in Nat
    /\ AttemptLimits \subseteq Nat
    /\ None \notin Nat
    /\ None \notin Workers
    /\ None \notin IdempotencyKeys
    /\ None \notin ConcurrencyKeys
    /\ None \notin Checkpoints
    /\ StartTimes \subseteq Nat \cup {None}
    /\ ParkTimes \subseteq Nat \cup {None}

VARIABLES
    runs,                 \* RunTable.runs; "Absent" where there is no entry
    by_idempotency_key,   \* RunTable.by_idempotency_key
    next_seq,             \* RunTable.next_seq, also the identifier of the next run
    now                   \* the store's clock

storeVars == <<runs, by_idempotency_key, next_seq, now>>

-----------------------------------------------------------------------------
(* Run identifiers are uuids in the code; here a run is named by its seq,  *)
(* which like a uuid is never used twice.                                  *)

RunIds == 1 .. MaxRuns

Terminal == {"Completed", "Failed", "Cancelled"}
Unfinished == {"Queued", "Running", "Waiting"}
OnConflict == {"Reject", "Enqueue", "Interrupt"}

Time == Nat
OptTime == Nat \cup {None}

NewRun ==
    [queue : Queues,
     idempotency_key : IdempotencyKeys \cup {None},
     concurrency_key : ConcurrencyKeys \cup {None},
     on_conflict : OnConflict,
     not_before : StartTimes,
     max_attempts : AttemptLimits]

RunRecord ==
    [state : Terminal \cup Unfinished \cup {"Absent"},
     queue : Queues \cup {None},
     idempotency_key : IdempotencyKeys \cup {None},
     concurrency_key : ConcurrencyKeys \cup {None},
     not_before : OptTime,
     max_attempts : Nat,
     attempt : Nat,
     lease_owner : Workers \cup {None},
     lease_epoch : Nat,
     lease_expires_at : OptTime,
     checkpoint : Checkpoints \cup {None},
     cancel_requested : BOOLEAN,
     wake_pending : BOOLEAN,
     created_at : Time,
     updated_at : Time]

(* There is no entry for the identifier: never enqueued, or pruned. *)
AbsentRun ==
    [state |-> "Absent", queue |-> None, idempotency_key |-> None,
     concurrency_key |-> None, not_before |-> None, max_attempts |-> 0,
     attempt |-> 0, lease_owner |-> None, lease_epoch |-> 0,
     lease_expires_at |-> None, checkpoint |-> None,
     cancel_requested |-> FALSE, wake_pending |-> FALSE,
     created_at |-> 0, updated_at |-> 0]

(* RunRecord::queued *)
QueuedRun(run, at) ==
    [state |-> "Queued", queue |-> run.queue,
     idempotency_key |-> run.idempotency_key,
     concurrency_key |-> run.concurrency_key,
     not_before |-> run.not_before, max_attempts |-> run.max_attempts,
     attempt |-> 0, lease_owner |-> None, lease_epoch |-> 0,
     lease_expires_at |-> None, checkpoint |-> None,
     cancel_requested |-> FALSE, wake_pending |-> FALSE,
     created_at |-> at, updated_at |-> at]

(* NewRun::validate; an empty name or key is not in the constants' sets. *)
Valid(run) == run.max_attempts # 0

IsTerminal(r) == runs[r].state \in Terminal
IsUnfinished(r) == runs[r].state \in Unfinished

(* RunEntry::order *)
Before(r, s) ==
    \/ runs[r].created_at < runs[s].created_at
    \/ runs[r].created_at = runs[s].created_at /\ r < s

(* Variant: a parked run does not hold its key. *)
HoldersNotWaiting(queue, key) ==
    {r \in RunIds : /\ runs[r].queue = queue
                    /\ runs[r].concurrency_key = key
                    /\ runs[r].state \in {"Queued", "Running"}}

(* RunTable::holders *)
Holders(queue, key) ==
    {r \in RunIds : /\ runs[r].queue = queue
                    /\ runs[r].concurrency_key = key
                    /\ IsUnfinished(r)}

(* RunTable::fenced: the worker write of epoch e is accepted. *)
Fenced(r, e) ==
    /\ runs[r].state = "Running"
    /\ runs[r].lease_epoch = e

(* touch and release_lease *)
Touch(record, at) == [record EXCEPT !.updated_at = at]

ReleaseLease(record) ==
    [record EXCEPT !.lease_owner = None, !.lease_expires_at = None]

(* The clock values a call that takes effect now may have read. *)
ClockReads == {t \in 0 .. now : now <= t + MaxLag}

-----------------------------------------------------------------------------
Init ==
    /\ runs = [r \in RunIds |-> AbsentRun]
    /\ by_idempotency_key = [p \in Queues \X IdempotencyKeys |-> None]
    /\ next_seq = 1
    /\ now = 0

(* Variant: a finished run no longer answers for its key. *)
ExistingUnfinished(run) ==
    /\ run.idempotency_key # None
    /\ LET found == by_idempotency_key[<<run.queue, run.idempotency_key>>]
       IN  found # None /\ IsUnfinished(found)

(* The existing run an enqueue returns instead of creating one. *)
Existing(run) ==
    /\ run.idempotency_key # None
    /\ LET found == by_idempotency_key[<<run.queue, run.idempotency_key>>]
       IN  found # None /\ runs[found].state # "Absent"

(* The enqueue is refused: an unfinished run holds its concurrency key. *)
Rejected(run) ==
    /\ run.concurrency_key # None
    /\ run.on_conflict = "Reject"
    /\ Holders(run.queue, run.concurrency_key) # {}

(* What OnConflict::Interrupt does to a holder of the key. *)
Interrupted(record, at) ==
    Touch(IF record.state = "Running"
            THEN [record EXCEPT !.cancel_requested = TRUE]
            ELSE ReleaseLease([record EXCEPT !.state = "Cancelled"]),
          at)

Interrupts(run, r) ==
    /\ run.concurrency_key # None
    /\ run.on_conflict = "Interrupt"
    /\ r \in Holders(run.queue, run.concurrency_key)

(* Variant: the sequence number is not advanced. *)
EnqueueSameSeq(run, at) ==
    /\ next_seq \in RunIds
    /\ Valid(run)
    /\ runs' = [runs EXCEPT ![next_seq] = QueuedRun(run, at)]
    /\ UNCHANGED <<by_idempotency_key, next_seq, now>>

(* enqueue, where it returns Enqueued::Created. *)
Enqueue(run, at) ==
    /\ next_seq \in RunIds
    /\ Valid(run)
    /\ ~Existing(run)
    /\ ~Rejected(run)
    /\ runs' = [r \in RunIds |->
                    IF r = next_seq THEN QueuedRun(run, at)
                    ELSE IF Interrupts(run, r) THEN Interrupted(runs[r], at)
                    ELSE runs[r]]
    /\ by_idempotency_key' =
           IF run.idempotency_key = None THEN by_idempotency_key
           ELSE [by_idempotency_key EXCEPT
                    ![<<run.queue, run.idempotency_key>>] = next_seq]
    /\ next_seq' = next_seq + 1
    /\ UNCHANGED now

-----------------------------------------------------------------------------
(* claim walks the unfinished runs of the queue in order.  It fails every  *)
(* exhausted run it passes, and takes the first claimable one.             *)

(* Variant: the expiry is compared the wrong way round at the boundary. *)
LeaseExpiredEarly(r, at) ==
    /\ runs[r].state = "Running"
    /\ ~(runs[r].lease_expires_at # None /\ runs[r].lease_expires_at > at + 1)

LeaseExpired(r, at) ==
    /\ runs[r].state = "Running"
    /\ ~(runs[r].lease_expires_at # None /\ runs[r].lease_expires_at > at)

Exhausted(r, at) ==
    /\ LeaseExpired(r, at)
    /\ runs[r].attempt >= runs[r].max_attempts

Delayed(r, at) == runs[r].not_before # None /\ runs[r].not_before > at

(* Variant: only a running holder blocks. *)
BlockedByRunning(r, at) ==
    /\ runs[r].concurrency_key # None
    /\ \E h \in Holders(runs[r].queue, runs[r].concurrency_key) :
           Before(h, r) /\ runs[h].state = "Running" /\ ~Exhausted(h, at)

(* An earlier unfinished run holds the key of r.  The exhausted ones among *)
(* them have been failed by the time the walk reaches r.                   *)
Blocked(r, at) ==
    /\ runs[r].concurrency_key # None
    /\ \E h \in Holders(runs[r].queue, runs[r].concurrency_key) :
           Before(h, r) /\ ~Exhausted(h, at)

Claimable(r, at) ==
    \/ /\ runs[r].state = "Queued"
       /\ ~Delayed(r, at)
       /\ ~Blocked(r, at)
    \/ /\ runs[r].state = "Waiting"
       /\ runs[r].not_before # None
       /\ runs[r].not_before <= at
    \/ /\ LeaseExpired(r, at)
       /\ ~Exhausted(r, at)

FirstClaimable(queue, r, at) ==
    /\ runs[r].queue = queue
    /\ Claimable(r, at)
    /\ \A s \in RunIds : runs[s].queue = queue /\ Claimable(s, at)
                            => s = r \/ Before(r, s)

ExhaustedRun(record, at) ==
    Touch(ReleaseLease([record EXCEPT !.state = "Failed"]), at)

(* Variant: resuming a parked run is counted as an attempt. *)
ClaimedRunCounted(record, worker, at) ==
    Touch([record EXCEPT
              !.state = "Running",
              !.attempt = @ + 1,
              !.lease_epoch = @ + 1,
              !.lease_owner = worker,
              !.lease_expires_at = at + Ttl,
              !.not_before = None],
          at)

ClaimedRun(record, worker, at) ==
    Touch([record EXCEPT
              !.state = "Running",
              !.attempt = IF record.state = "Waiting" THEN @ ELSE @ + 1,
              !.lease_epoch = @ + 1,
              !.lease_owner = worker,
              !.lease_expires_at = at + Ttl,
              !.not_before = None],
          at)

(* claim, where it returns run r. *)
Claim(queue, worker, r, at) ==
    /\ FirstClaimable(queue, r, at)
    /\ runs[r].lease_epoch < MaxEpoch
    /\ runs' = [s \in RunIds |->
                    IF s = r THEN ClaimedRun(runs[s], worker, at)
                    ELSE IF /\ runs[s].queue = queue
                            /\ Exhausted(s, at)
                            /\ Before(s, r)
                         THEN ExhaustedRun(runs[s], at)
                    ELSE runs[s]]
    /\ UNCHANGED <<by_idempotency_key, next_seq, now>>

(* claim, where it returns None: every exhausted run of the queue fails. *)
ClaimNone(queue, at) ==
    /\ \A s \in RunIds : runs[s].queue = queue => ~Claimable(s, at)
    /\ runs' = [s \in RunIds |->
                    IF runs[s].queue = queue /\ Exhausted(s, at)
                    THEN ExhaustedRun(runs[s], at)
                    ELSE runs[s]]
    /\ UNCHANGED <<by_idempotency_key, next_seq, now>>

-----------------------------------------------------------------------------
(* The writes of the worker that claimed r at epoch e.  A write whose      *)
(* epoch is not current is refused and changes nothing.                    *)

Update(r, record) ==
    /\ runs' = [runs EXCEPT ![r] = record]
    /\ UNCHANGED <<by_idempotency_key, next_seq, now>>

Heartbeat(r, e, at) ==
    /\ Fenced(r, e)
    /\ Update(r, Touch([runs[r] EXCEPT !.lease_expires_at = at + Ttl], at))

SetCheckpoint(r, e, checkpoint, at) ==
    /\ Fenced(r, e)
    /\ Update(r, Touch([runs[r] EXCEPT !.checkpoint = checkpoint], at))

(* Variant: wait drops a wake that arrived early. *)
WaitingRunDeaf(record, until, at) ==
    Touch(ReleaseLease([record EXCEPT !.state = "Waiting", !.not_before = until,
                                      !.wake_pending = FALSE]),
          at)

WaitingRun(record, until, at) ==
    Touch(ReleaseLease(
              [record EXCEPT
                  !.state = "Waiting",
                  !.not_before = IF record.wake_pending THEN at ELSE until,
                  !.wake_pending = FALSE]),
          at)

Wait(r, e, until, at) ==
    /\ Fenced(r, e)
    /\ Update(r, WaitingRun(runs[r], until, at))

(* Variants: one attempt too many; a retry that ignores the request to stop. *)
RetriesOnceMore(record) ==
    /\ record.attempt <= record.max_attempts
    /\ ~record.cancel_requested

RetriesAnyway(record) == record.attempt < record.max_attempts

(* The state an attempt's outcome leaves a run in. *)
Retries(record) ==
    /\ record.attempt < record.max_attempts
    /\ ~record.cancel_requested

OutcomeState(record, outcome) ==
    CASE outcome = "Completed" -> "Completed"
      [] outcome = "Cancelled" -> "Cancelled"
      [] outcome = "Failed"    -> "Failed"
      [] outcome = "Retryable" -> IF Retries(record) THEN "Queued" ELSE "Failed"

Outcomes == {"Completed", "Cancelled", "Failed", "Retryable"}

FinishedRun(record, outcome, at) ==
    Touch(ReleaseLease(
              [record EXCEPT
                  !.state = OutcomeState(record, outcome),
                  !.wake_pending = FALSE]),
          at)

Finish(r, e, outcome, at) ==
    /\ Fenced(r, e)
    /\ Update(r, FinishedRun(runs[r], outcome, at))

-----------------------------------------------------------------------------
(* Requests that carry no epoch. *)

Wake(r, at) ==
    \/ /\ runs[r].state = "Waiting"
       /\ Update(r, Touch([runs[r] EXCEPT !.not_before = at], at))
    \/ /\ runs[r].state = "Running"
       /\ Update(r, Touch([runs[r] EXCEPT !.wake_pending = TRUE], at))

RequestCancel(r, at) ==
    \/ /\ runs[r].state \in {"Queued", "Waiting"}
       /\ Update(r, Touch(ReleaseLease([runs[r] EXCEPT !.state = "Cancelled"]), at))
    \/ /\ runs[r].state = "Running"
       /\ Update(r, Touch([runs[r] EXCEPT !.cancel_requested = TRUE], at))

Prunable(r, before) == IsTerminal(r) /\ runs[r].updated_at < before

Prune(before) ==
    /\ \E r \in RunIds : Prunable(r, before)
    /\ runs' = [r \in RunIds |-> IF Prunable(r, before) THEN AbsentRun ELSE runs[r]]
    /\ by_idempotency_key' =
           [p \in Queues \X IdempotencyKeys |->
               IF \E r \in RunIds : /\ Prunable(r, before)
                                    /\ runs[r].queue = p[1]
                                    /\ runs[r].idempotency_key = p[2]
               THEN None ELSE by_idempotency_key[p]]
    /\ UNCHANGED <<next_seq, now>>

Tick ==
    /\ now < MaxTime
    /\ now' = now + 1
    /\ UNCHANGED <<runs, by_idempotency_key, next_seq>>

-----------------------------------------------------------------------------
(* A caller presents an epoch some claim returned; only the current one    *)
(* passes the fence, so the others are stuttering steps.                   *)
WorkerWrite ==
    \E r \in RunIds, at \in ClockReads :
        LET e == runs[r].lease_epoch IN
        \/ Heartbeat(r, e, at)
        \/ \E c \in Checkpoints : SetCheckpoint(r, e, c, at)
        \/ \E until \in ParkTimes : Wait(r, e, until, at)
        \/ \E outcome \in Outcomes : Finish(r, e, outcome, at)

ClientRequest ==
    \/ \E run \in NewRun, at \in ClockReads : Enqueue(run, at)
    \/ \E r \in RunIds, at \in ClockReads : Wake(r, at) \/ RequestCancel(r, at)

Next ==
    \/ ClientRequest
    \/ \E q \in Queues, w \in Workers, r \in RunIds, at \in ClockReads : Claim(q, w, r, at)
    \/ \E q \in Queues, at \in ClockReads : ClaimNone(q, at)
    \/ WorkerWrite
    \/ \E before \in 0 .. now : Prune(before)
    \/ Tick

Spec == Init /\ [][Next]_storeVars

-----------------------------------------------------------------------------
(* Type invariant: the table holds records of RunRecord, and no run was    *)
(* given a sequence number that has not been handed out.                   *)
TypeOK ==
    /\ runs \in [RunIds -> RunRecord]
    /\ by_idempotency_key \in [Queues \X IdempotencyKeys -> RunIds \cup {None}]
    /\ next_seq \in 1 .. MaxRuns + 1
    /\ now \in Nat
    /\ \A r \in RunIds : r >= next_seq => runs[r] = AbsentRun

(* The attempts a run takes, retries and recoveries together, never pass   *)
(* max_attempts (finish, claim); a queued run always has one left, so the  *)
(* claim of a queued run need not look.                                    *)
AttemptBudget ==
    \A r \in RunIds :
        /\ runs[r].attempt <= runs[r].max_attempts
        /\ runs[r].state = "Queued" => runs[r].attempt < runs[r].max_attempts
        /\ runs[r].state \in {"Running", "Waiting"} => runs[r].attempt > 0

(* A cancellation request is never forgotten by a retry: a run that was    *)
(* flagged while it ran does not return to the queue (finish).             *)
NoRetryAfterCancel ==
    \A r \in RunIds : runs[r].state = "Queued" => ~runs[r].cancel_requested

(* A lease is on record exactly while the run is Running (claim, wait,     *)
(* finish), so the claim's recovery branch sees every abandoned run.       *)
LeaseWhileRunning ==
    \A r \in RunIds :
        /\ (runs[r].state = "Running") <=> (runs[r].lease_expires_at # None)
        /\ (runs[r].lease_owner = None) <=> (runs[r].lease_expires_at = None)
        /\ runs[r].state = "Running" => runs[r].lease_epoch > 0

(* A wake is kept only where a later wait will honour it: no parked or     *)
(* queued run carries a pending wake (wake, wait, finish, claim).          *)
WakePendingWhileRunning ==
    \A r \in RunIds : runs[r].wake_pending => runs[r].state \in {"Running", "Failed"}

(* Idempotency: the index and the table agree (enqueue, prune), so a queue *)
(* never holds two runs with one idempotency key.                          *)
IdempotencyIndex ==
    \A r \in RunIds :
        runs[r].state # "Absent" /\ runs[r].idempotency_key # None
            => by_idempotency_key[<<runs[r].queue, runs[r].idempotency_key>>] = r

(* The run of a concurrency key that has started (it runs, is parked, or   *)
(* was requeued by a failed attempt) is the first of its unfinished runs.  *)
Started(r) == IsUnfinished(r) /\ runs[r].attempt > 0

SameKey(r, s) ==
    /\ runs[r].queue = runs[s].queue
    /\ runs[r].concurrency_key # None
    /\ runs[r].concurrency_key = runs[s].concurrency_key

StartedRunIsFirst ==
    \A r, s \in RunIds :
        Started(r) /\ IsUnfinished(s) /\ SameKey(r, s) => r = s \/ Before(r, s)

(* "Runs that share a concurrency_key in one queue run one at a time"      *)
(* (run_store.rs, Double texting): two runs of one key are never Running   *)
(* together.                                                               *)
OneAtATime ==
    \A r, s \in RunIds :
        runs[r].state = "Running" /\ runs[s].state = "Running" /\ SameKey(r, s) => r = s

(* No step takes a run away from a worker whose lease has not expired, or  *)
(* changes who may write it: while the lease is live the epoch stays.      *)
LiveLeaseKept ==
    [][\A r \in RunIds :
          (runs[r].state = "Running" /\ runs[r].lease_expires_at > now)
              => \/ runs'[r].state # "Running"
                 \/ /\ runs'[r].lease_epoch = runs[r].lease_epoch
                    /\ runs'[r].lease_owner = runs[r].lease_owner]_storeVars

(* A wake that arrives while a run is Running is answered by the park that *)
(* follows it: the run is claimable at once, whatever `until' the worker   *)
(* asked for, also when the run was recovered by another worker meanwhile. *)
PendingWakeEndsWait ==
    [][\A r \in RunIds :
          runs[r].wake_pending /\ runs'[r].state = "Waiting"
              => runs'[r].not_before # None /\ runs'[r].not_before <= now]_storeVars

(* The store implements the lifecycle table of run_store.rs: what a client *)
(* sees of a run through get moves along the rows of the table.            *)
LifeOf(r) ==
    [phase |-> IF runs[r].state # "Absent" THEN runs[r].state
               ELSE IF r < next_seq THEN "Pruned" ELSE "New",
     attempt |-> runs[r].attempt,
     epoch |-> runs[r].lease_epoch]

Lifecycle == INSTANCE RunLifecycle WITH life <- [r \in RunIds |-> LifeOf(r)]

(* Every operation of the store moves every run along a row of the table,  *)
(* or leaves it where it was.                                              *)
ImplementsLifecycle == Lifecycle!Spec
=============================================================================
