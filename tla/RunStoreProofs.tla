--------------------------- MODULE RunStoreProofs ---------------------------
(***************************************************************************)
(* Proofs about RunStore.                                                  *)
(***************************************************************************)
EXTENDS RunStore, TLAPS

-----------------------------------------------------------------------------
(* The operators that rewrite a record return a record. *)

LEMMA TouchType ==
    ASSUME NEW rec \in RunRecord, NEW at \in Nat
    PROVE  Touch(rec, at) \in RunRecord
  BY DEF Touch, RunRecord, Time

LEMMA ReleaseType ==
    ASSUME NEW rec \in RunRecord
    PROVE  ReleaseLease(rec) \in RunRecord
  BY DEF ReleaseLease, RunRecord, OptTime

LEMMA AbsentType == AbsentRun \in RunRecord
  BY DEF AbsentRun, RunRecord, OptTime, Time

LEMMA QueuedType ==
    ASSUME NEW run \in NewRun, NEW at \in Nat
    PROVE  QueuedRun(run, at) \in RunRecord
  BY RunStoreAssumption DEF QueuedRun, NewRun, RunRecord, OptTime, Time, Unfinished

LEMMA InterruptedType ==
    ASSUME NEW rec \in RunRecord, NEW at \in Nat
    PROVE  Interrupted(rec, at) \in RunRecord
  <1>1. [rec EXCEPT !.cancel_requested = TRUE] \in RunRecord
    BY DEF RunRecord
  <1>2. [rec EXCEPT !.state = "Cancelled"] \in RunRecord
    BY DEF RunRecord, Terminal
  <1>3. ReleaseLease([rec EXCEPT !.state = "Cancelled"]) \in RunRecord
    BY <1>2, ReleaseType
  <1>4. QED
    BY <1>1, <1>3, TouchType, Zenon DEF Interrupted

LEMMA ClaimedType ==
    ASSUME NEW rec \in RunRecord, NEW w \in Workers, NEW at \in Nat
    PROVE  ClaimedRun(rec, w, at) \in RunRecord
  <1> DEFINE n == IF rec.state = "Waiting" THEN rec.attempt ELSE rec.attempt + 1
             claimed == [rec EXCEPT !.state = "Running", !.attempt = n,
                                    !.lease_epoch = rec.lease_epoch + 1,
                                    !.lease_owner = w,
                                    !.lease_expires_at = at + Ttl,
                                    !.not_before = None]
  <1>1. n \in Nat /\ rec.lease_epoch + 1 \in Nat /\ at + Ttl \in Nat
    BY RunStoreAssumption DEF RunRecord
  <1>2. claimed \in RunRecord
    <2> HIDE DEF n
    <2> QED BY <1>1 DEF RunRecord, OptTime, Unfinished
  <1>3. ClaimedRun(rec, w, at) = Touch(claimed, at)
    BY DEF ClaimedRun
  <1>4. QED
    BY <1>2, <1>3, TouchType

LEMMA ExhaustedType ==
    ASSUME NEW rec \in RunRecord, NEW at \in Nat
    PROVE  ExhaustedRun(rec, at) \in RunRecord
  BY DEF ExhaustedRun, Touch, ReleaseLease, RunRecord, OptTime, Time, Terminal

LEMMA WaitingType ==
    ASSUME NEW rec \in RunRecord, NEW until \in OptTime, NEW at \in Nat
    PROVE  WaitingRun(rec, until, at) \in RunRecord
  <1> DEFINE nb == IF rec.wake_pending THEN at ELSE until
             parked == [rec EXCEPT !.state = "Waiting", !.not_before = nb,
                                   !.wake_pending = FALSE]
  <1>1. nb \in OptTime
    BY DEF OptTime
  <1>2. parked \in RunRecord
    <2> HIDE DEF nb
    <2> QED BY <1>1 DEF RunRecord, Unfinished
  <1>3. WaitingRun(rec, until, at) = Touch(ReleaseLease(parked), at)
    BY DEF WaitingRun
  <1>4. QED
    BY <1>2, <1>3, ReleaseType, TouchType

LEMMA FinishedType ==
    ASSUME NEW rec \in RunRecord, NEW outcome \in Outcomes, NEW at \in Nat
    PROVE  FinishedRun(rec, outcome, at) \in RunRecord
  <1> DEFINE st == OutcomeState(rec, outcome)
             ended == [rec EXCEPT !.state = st, !.wake_pending = FALSE]
  <1>1. st \in Terminal \cup Unfinished
    BY DEF OutcomeState, Outcomes, Terminal, Unfinished
  <1>2. ended \in RunRecord
    <2> HIDE DEF st
    <2> QED BY <1>1 DEF RunRecord
  <1>3. FinishedRun(rec, outcome, at) = Touch(ReleaseLease(ended), at)
    BY DEF FinishedRun
  <1>4. QED
    BY <1>2, <1>3, ReleaseType, TouchType

-----------------------------------------------------------------------------
(* Type correctness. *)

LEMMA ClockReadsType == TypeOK => ClockReads \subseteq Nat
  BY DEF TypeOK, ClockReads

LEMMA UpdateType ==
    ASSUME TypeOK, NEW r \in RunIds, runs[r].state # "Absent",
           NEW rec \in RunRecord, Update(r, rec)
    PROVE  TypeOK'
  <1>1. runs' \in [RunIds -> RunRecord]
    BY DEF TypeOK, Update
  <1>2. r < next_seq
    BY DEF TypeOK, AbsentRun, RunIds
  <1>3. \A s \in RunIds : s >= next_seq' => runs'[s] = AbsentRun
    BY <1>2 DEF TypeOK, Update, RunIds
  <1>4. QED
    BY <1>1, <1>3 DEF TypeOK, Update

LEMMA EnqueueType ==
    ASSUME TypeOK, NEW run \in NewRun, NEW at \in Nat, Enqueue(run, at)
    PROVE  TypeOK'
  <1>1. runs' \in [RunIds -> RunRecord]
    <2>1. QueuedRun(run, at) \in RunRecord
      BY QueuedType
    <2>2. \A r \in RunIds : Interrupted(runs[r], at) \in RunRecord
      BY InterruptedType DEF TypeOK
    <2>3. QED
      BY <2>1, <2>2 DEF TypeOK, Enqueue
  <1>2. next_seq \in RunIds /\ next_seq' = next_seq + 1
    BY DEF Enqueue
  <1>3. \A s \in RunIds : s >= next_seq' => runs'[s] = AbsentRun
    <2>1. \A s \in RunIds : s > next_seq => runs[s] = AbsentRun
      BY DEF TypeOK, RunIds
    <2>2. \A s \in RunIds : runs[s] = AbsentRun => ~Interrupts(run, s)
      BY DEF Interrupts, Holders, IsUnfinished, Unfinished, AbsentRun
    <2>3. SUFFICES ASSUME NEW s \in RunIds, s > next_seq
                   PROVE  runs'[s] = AbsentRun
      BY <1>2, RunStoreAssumption DEF RunIds
    <2>4. runs[s] = AbsentRun /\ ~Interrupts(run, s) /\ s # next_seq
      BY <2>1, <2>2, <2>3, <1>2 DEF RunIds
    <2>5. QED
      BY <2>4 DEF Enqueue
  <1>4. by_idempotency_key' \in [Queues \X IdempotencyKeys -> RunIds \cup {None}]
    <2>1. CASE run.idempotency_key = None
      BY <2>1 DEF TypeOK, Enqueue
    <2>2. CASE run.idempotency_key # None
      <3>1. <<run.queue, run.idempotency_key>> \in Queues \X IdempotencyKeys
        BY <2>2 DEF NewRun
      <3>2. QED
        BY <2>2, <3>1, <1>2 DEF TypeOK, Enqueue
    <2>3. QED
      BY <2>1, <2>2
  <1>5. next_seq' \in 1 .. MaxRuns + 1 /\ now' \in Nat
    BY <1>2, RunStoreAssumption DEF TypeOK, Enqueue, RunIds
  <1>6. QED
    BY <1>1, <1>3, <1>4, <1>5 DEF TypeOK

LEMMA ClaimType ==
    ASSUME TypeOK, NEW q \in Queues, NEW w \in Workers, NEW r \in RunIds,
           NEW at \in Nat, Claim(q, w, r, at)
    PROVE  TypeOK'
  <1>1. runs' \in [RunIds -> RunRecord]
    <2>1. \A s \in RunIds : /\ ClaimedRun(runs[s], w, at) \in RunRecord
                            /\ ExhaustedRun(runs[s], at) \in RunRecord
      BY ClaimedType, ExhaustedType DEF TypeOK
    <2>2. QED
      BY <2>1 DEF TypeOK, Claim
  <1>2. \A s \in RunIds : runs[s] = AbsentRun => ~Claimable(s, at) /\ ~Exhausted(s, at)
    BY DEF Claimable, Exhausted, LeaseExpired, AbsentRun
  <1>3. runs[r] # AbsentRun
    BY <1>2 DEF Claim, FirstClaimable
  <1>4. \A s \in RunIds : s >= next_seq' => runs'[s] = AbsentRun
    BY <1>2, <1>3 DEF TypeOK, Claim
  <1>5. QED
    BY <1>1, <1>4 DEF TypeOK, Claim

LEMMA ClaimNoneType ==
    ASSUME TypeOK, NEW q \in Queues, NEW at \in Nat, ClaimNone(q, at)
    PROVE  TypeOK'
  <1>1. runs' \in [RunIds -> RunRecord]
    <2>1. \A s \in RunIds : ExhaustedRun(runs[s], at) \in RunRecord
      BY ExhaustedType DEF TypeOK
    <2>2. QED
      BY <2>1 DEF TypeOK, ClaimNone
  <1>2. \A s \in RunIds : runs[s] = AbsentRun => ~Exhausted(s, at)
    BY DEF Exhausted, LeaseExpired, AbsentRun
  <1>3. \A s \in RunIds : s >= next_seq' => runs'[s] = AbsentRun
    BY <1>2 DEF TypeOK, ClaimNone
  <1>4. QED
    BY <1>1, <1>3 DEF TypeOK, ClaimNone

LEMMA HeartbeatType ==
    ASSUME TypeOK, NEW r \in RunIds, NEW e, NEW at \in Nat, Heartbeat(r, e, at)
    PROVE  TypeOK'
  <1>1. [runs[r] EXCEPT !.lease_expires_at = at + Ttl] \in RunRecord
    BY RunStoreAssumption DEF TypeOK, RunRecord, OptTime
  <1>2. Touch([runs[r] EXCEPT !.lease_expires_at = at + Ttl], at) \in RunRecord
    BY <1>1, TouchType
  <1>3. runs[r].state # "Absent" /\ Update(r, Touch([runs[r] EXCEPT !.lease_expires_at = at + Ttl], at))
    BY DEF Heartbeat, Fenced
  <1>4. QED
    BY <1>2, <1>3, UpdateType

LEMMA SetCheckpointType ==
    ASSUME TypeOK, NEW r \in RunIds, NEW e, NEW c \in Checkpoints, NEW at \in Nat,
           SetCheckpoint(r, e, c, at)
    PROVE  TypeOK'
  <1>1. [runs[r] EXCEPT !.checkpoint = c] \in RunRecord
    <2>1. runs[r] \in RunRecord
      BY DEF TypeOK
    <2>2. QED
      BY <2>1 DEF RunRecord
  <1>2. Touch([runs[r] EXCEPT !.checkpoint = c], at) \in RunRecord
    BY <1>1, TouchType
  <1>3. runs[r].state # "Absent" /\ Update(r, Touch([runs[r] EXCEPT !.checkpoint = c], at))
    BY DEF SetCheckpoint, Fenced
  <1>4. QED
    BY <1>2, <1>3, UpdateType

LEMMA WaitType ==
    ASSUME TypeOK, NEW r \in RunIds, NEW e, NEW until \in ParkTimes, NEW at \in Nat,
           Wait(r, e, until, at)
    PROVE  TypeOK'
  <1>1. runs[r] \in RunRecord /\ until \in OptTime
    BY RunStoreAssumption DEF TypeOK, OptTime
  <1>2. WaitingRun(runs[r], until, at) \in RunRecord
    BY <1>1, WaitingType
  <1>3. runs[r].state # "Absent" /\ Update(r, WaitingRun(runs[r], until, at))
    BY DEF Wait, Fenced
  <1>4. QED
    BY <1>2, <1>3, UpdateType

LEMMA FinishType ==
    ASSUME TypeOK, NEW r \in RunIds, NEW e, NEW outcome \in Outcomes, NEW at \in Nat,
           Finish(r, e, outcome, at)
    PROVE  TypeOK'
  <1>1. FinishedRun(runs[r], outcome, at) \in RunRecord
    BY FinishedType DEF TypeOK
  <1>2. runs[r].state # "Absent" /\ Update(r, FinishedRun(runs[r], outcome, at))
    BY DEF Finish, Fenced
  <1>3. QED
    BY <1>1, <1>2, UpdateType

LEMMA WakeType ==
    ASSUME TypeOK, NEW r \in RunIds, NEW at \in Nat, Wake(r, at)
    PROVE  TypeOK'
  <1>1. /\ [runs[r] EXCEPT !.not_before = at] \in RunRecord
        /\ [runs[r] EXCEPT !.wake_pending = TRUE] \in RunRecord
    <2>1. runs[r] \in RunRecord
      BY DEF TypeOK
    <2>2. [runs[r] EXCEPT !.not_before = at] \in RunRecord
      BY <2>1 DEF RunRecord, OptTime
    <2>3. [runs[r] EXCEPT !.wake_pending = TRUE] \in RunRecord
      BY <2>1 DEF RunRecord
    <2>4. QED
      BY <2>2, <2>3
  <1>2. /\ Touch([runs[r] EXCEPT !.not_before = at], at) \in RunRecord
        /\ Touch([runs[r] EXCEPT !.wake_pending = TRUE], at) \in RunRecord
    BY <1>1, TouchType
  <1>3. CASE runs[r].state = "Waiting"
    BY <1>2, <1>3, UpdateType DEF Wake
  <1>4. CASE runs[r].state = "Running"
    BY <1>2, <1>4, UpdateType DEF Wake
  <1>5. QED
    BY <1>3, <1>4 DEF Wake

LEMMA RequestCancelType ==
    ASSUME TypeOK, NEW r \in RunIds, NEW at \in Nat, RequestCancel(r, at)
    PROVE  TypeOK'
  <1>1. /\ [runs[r] EXCEPT !.state = "Cancelled"] \in RunRecord
        /\ [runs[r] EXCEPT !.cancel_requested = TRUE] \in RunRecord
    <2>1. runs[r] \in RunRecord
      BY DEF TypeOK
    <2>2. [runs[r] EXCEPT !.state = "Cancelled"] \in RunRecord
      BY <2>1 DEF RunRecord, Terminal
    <2>3. [runs[r] EXCEPT !.cancel_requested = TRUE] \in RunRecord
      BY <2>1 DEF RunRecord
    <2>4. QED
      BY <2>2, <2>3
  <1>2. /\ Touch(ReleaseLease([runs[r] EXCEPT !.state = "Cancelled"]), at) \in RunRecord
        /\ Touch([runs[r] EXCEPT !.cancel_requested = TRUE], at) \in RunRecord
    BY <1>1, TouchType, ReleaseType
  <1>3. CASE runs[r].state \in {"Queued", "Waiting"}
    BY <1>2, <1>3, UpdateType DEF RequestCancel
  <1>4. CASE runs[r].state = "Running"
    BY <1>2, <1>4, UpdateType DEF RequestCancel
  <1>5. QED
    BY <1>3, <1>4 DEF RequestCancel

LEMMA PruneType ==
    ASSUME TypeOK, NEW before \in Nat, Prune(before)
    PROVE  TypeOK'
  <1>1. runs' \in [RunIds -> RunRecord]
    BY AbsentType DEF TypeOK, Prune
  <1>2. \A s \in RunIds : s >= next_seq' => runs'[s] = AbsentRun
    BY DEF TypeOK, Prune
  <1>3. by_idempotency_key' \in [Queues \X IdempotencyKeys -> RunIds \cup {None}]
    BY DEF TypeOK, Prune
  <1>4. QED
    BY <1>1, <1>2, <1>3 DEF TypeOK, Prune

(* The actions of Next, once, for every proof that splits on them. *)
LEMMA NextCases ==
    ASSUME TypeOK, Next
    PROVE  \/ \E run \in NewRun, at \in Nat : Enqueue(run, at) /\ at <= now /\ now <= at + MaxLag
           \/ \E q \in Queues, w \in Workers, r \in RunIds, at \in Nat :
                  Claim(q, w, r, at) /\ at <= now
           \/ \E q \in Queues, at \in Nat : ClaimNone(q, at) /\ at <= now
           \/ \E r \in RunIds, at \in Nat :
                  LET e == runs[r].lease_epoch IN
                  /\ at <= now
                  /\ \/ Heartbeat(r, e, at)
                     \/ \E c \in Checkpoints : SetCheckpoint(r, e, c, at)
                     \/ \E until \in ParkTimes : Wait(r, e, until, at)
                     \/ \E outcome \in Outcomes : Finish(r, e, outcome, at)
                     \/ Wake(r, at)
                     \/ RequestCancel(r, at)
           \/ \E before \in Nat : Prune(before)
           \/ Tick
  <1>1. \A t \in ClockReads : t \in Nat /\ t <= now /\ now <= t + MaxLag
    BY DEF TypeOK, ClockReads
  <1>2. 0 .. now \subseteq Nat
    BY DEF TypeOK
  <1>3. CASE ClientRequest
    BY <1>1, <1>3 DEF ClientRequest
  <1>4. CASE WorkerWrite
    BY <1>1, <1>4 DEF WorkerWrite
  <1>5. QED
    BY <1>1, <1>2, <1>3, <1>4 DEF Next

LEMMA TypeInvariant == TypeOK /\ [Next]_storeVars => TypeOK'
  <1> SUFFICES ASSUME TypeOK, [Next]_storeVars PROVE TypeOK'
    OBVIOUS
  <1>1. CASE UNCHANGED storeVars
    BY <1>1 DEF storeVars, TypeOK
  <1>2. CASE Next
    <2>1. CASE Tick
      BY <2>1 DEF Tick, TypeOK
    <2>2. QED
      BY <1>2, <2>1, NextCases, EnqueueType, ClaimType, ClaimNoneType, HeartbeatType,
         SetCheckpointType, WaitType, FinishType, WakeType, RequestCancelType, PruneType
  <1>3. QED
    BY <1>1, <1>2

(* Every state of the store is well typed: no operation writes a record    *)
(* outside RunRecord, or one beyond next_seq.                              *)
THEOREM TypeCorrect == Spec => []TypeOK
  <1>1. Init => TypeOK
    BY AbsentType, RunStoreAssumption DEF Init, TypeOK, RunIds
  <1>2. QED
    BY <1>1, TypeInvariant, PTL DEF Spec

-----------------------------------------------------------------------------
(* What one step does to one run.  Every per-run property is proved from   *)
(* this case analysis, one case per transition of a record.                *)

RunStep(r) ==
    \/ runs'[r] = runs[r]
    \/ /\ r = next_seq /\ next_seq' = next_seq + 1
       /\ runs[r] = AbsentRun
       /\ \E run \in NewRun, at \in Nat :
             at <= now /\ Valid(run) /\ runs'[r] = QueuedRun(run, at)
    \/ IsUnfinished(r) /\ \E at \in Nat : at <= now /\ runs'[r] = Interrupted(runs[r], at)
    \/ \E w \in Workers, at \in Nat :
          at <= now /\ Claimable(r, at) /\ runs'[r] = ClaimedRun(runs[r], w, at)
    \/ \E at \in Nat :
          at <= now /\ Exhausted(r, at) /\ runs'[r] = ExhaustedRun(runs[r], at)
    \/ /\ runs[r].state = "Running"
       /\ \E at \in Nat :
             /\ at <= now
             /\ \/ runs'[r] = Touch([runs[r] EXCEPT !.lease_expires_at = at + Ttl], at)
                \/ \E c \in Checkpoints :
                       runs'[r] = Touch([runs[r] EXCEPT !.checkpoint = c], at)
                \/ \E until \in OptTime : runs'[r] = WaitingRun(runs[r], until, at)
                \/ \E outcome \in Outcomes : runs'[r] = FinishedRun(runs[r], outcome, at)
                \/ runs'[r] = Touch([runs[r] EXCEPT !.wake_pending = TRUE], at)
                \/ runs'[r] = Touch([runs[r] EXCEPT !.cancel_requested = TRUE], at)
    \/ /\ runs[r].state = "Waiting"
       /\ \E at \in Nat :
             at <= now /\ runs'[r] = Touch([runs[r] EXCEPT !.not_before = at], at)
    \/ /\ runs[r].state \in {"Queued", "Waiting"}
       /\ \E at \in Nat :
             /\ at <= now
             /\ runs'[r] = Touch(ReleaseLease([runs[r] EXCEPT !.state = "Cancelled"]), at)
    \/ IsTerminal(r) /\ runs'[r] = AbsentRun

LEMMA UpdateStep ==
    ASSUME TypeOK, NEW s \in RunIds, NEW r \in RunIds, NEW rec, Update(s, rec)
    PROVE  runs'[r] = IF r = s THEN rec ELSE runs[r]
  BY DEF TypeOK, Update

LEMMA EveryRunSteps ==
    ASSUME TypeOK, Next, NEW r \in RunIds
    PROVE  RunStep(r)
  <1>1. ASSUME NEW run \in NewRun, NEW at \in Nat, Enqueue(run, at), at <= now
        PROVE  RunStep(r)
    <2>1. CASE r = next_seq
      <3>1. runs[r] = AbsentRun
        BY <2>1 DEF TypeOK, RunIds
      <3>2. QED
        BY <1>1, <2>1, <3>1 DEF Enqueue, RunStep
    <2>2. CASE r # next_seq /\ Interrupts(run, r)
      BY <1>1, <2>2 DEF Enqueue, Interrupts, Holders, RunStep
    <2>3. CASE r # next_seq /\ ~Interrupts(run, r)
      BY <1>1, <2>3 DEF Enqueue, RunStep
    <2>4. QED
      BY <2>1, <2>2, <2>3
  <1>2. ASSUME NEW q \in Queues, NEW w \in Workers, NEW s \in RunIds, NEW at \in Nat,
               Claim(q, w, s, at), at <= now
        PROVE  RunStep(r)
    <2>1. CASE r = s
      BY <1>2, <2>1 DEF Claim, FirstClaimable, RunStep
    <2>2. CASE r # s /\ runs[r].queue = q /\ Exhausted(r, at) /\ Before(r, s)
      BY <1>2, <2>2 DEF Claim, RunStep
    <2>3. CASE r # s /\ ~(runs[r].queue = q /\ Exhausted(r, at) /\ Before(r, s))
      BY <1>2, <2>3 DEF Claim, RunStep
    <2>4. QED
      BY <2>1, <2>2, <2>3
  <1>3. ASSUME NEW q \in Queues, NEW at \in Nat, ClaimNone(q, at), at <= now
        PROVE  RunStep(r)
    BY <1>3 DEF ClaimNone, RunStep
  <1>4. ASSUME NEW s \in RunIds, NEW e, NEW at \in Nat, at <= now,
               Heartbeat(s, e, at)
        PROVE  RunStep(r)
    BY <1>4, UpdateStep DEF Heartbeat, Fenced, RunStep
  <1>5. ASSUME NEW s \in RunIds, NEW e, NEW at \in Nat, at <= now,
               NEW c \in Checkpoints, SetCheckpoint(s, e, c, at)
        PROVE  RunStep(r)
    BY <1>5, UpdateStep DEF SetCheckpoint, Fenced, RunStep
  <1>6. ASSUME NEW s \in RunIds, NEW e, NEW at \in Nat, at <= now,
               NEW until \in ParkTimes, Wait(s, e, until, at)
        PROVE  RunStep(r)
    <2>1. until \in OptTime
      BY RunStoreAssumption DEF OptTime
    <2>2. QED
      BY <1>6, <2>1, UpdateStep DEF Wait, Fenced, RunStep
  <1>7. ASSUME NEW s \in RunIds, NEW e, NEW at \in Nat, at <= now,
               NEW outcome \in Outcomes, Finish(s, e, outcome, at)
        PROVE  RunStep(r)
    BY <1>7, UpdateStep DEF Finish, Fenced, RunStep
  <1>8. ASSUME NEW s \in RunIds, NEW at \in Nat, at <= now, Wake(s, at)
        PROVE  RunStep(r)
    <2>1. CASE r # s
      BY <1>8, <2>1, UpdateStep DEF Wake, RunStep
    <2>2. CASE r = s /\ runs[s].state = "Waiting"
      <3>1. runs'[r] = Touch([runs[r] EXCEPT !.not_before = at], at)
        BY <1>8, <2>2, UpdateStep DEF Wake
      <3>2. QED
        BY <1>8, <2>2, <3>1 DEF RunStep
    <2>3. CASE r = s /\ runs[s].state = "Running"
      <3>1. runs'[r] = Touch([runs[r] EXCEPT !.wake_pending = TRUE], at)
        BY <1>8, <2>3, UpdateStep DEF Wake
      <3>2. QED
        BY <1>8, <2>3, <3>1 DEF RunStep
    <2>4. QED
      BY <1>8, <2>1, <2>2, <2>3 DEF Wake
  <1>9. ASSUME NEW s \in RunIds, NEW at \in Nat, at <= now, RequestCancel(s, at)
        PROVE  RunStep(r)
    <2>1. CASE r # s
      BY <1>9, <2>1, UpdateStep DEF RequestCancel, RunStep
    <2>2. CASE r = s /\ runs[s].state \in {"Queued", "Waiting"}
      <3>1. runs'[r] = Touch(ReleaseLease([runs[r] EXCEPT !.state = "Cancelled"]), at)
        BY <1>9, <2>2, UpdateStep DEF RequestCancel
      <3>2. QED
        BY <1>9, <2>2, <3>1 DEF RunStep
    <2>3. CASE r = s /\ runs[s].state = "Running"
      <3>1. runs'[r] = Touch([runs[r] EXCEPT !.cancel_requested = TRUE], at)
        BY <1>9, <2>3, UpdateStep DEF RequestCancel
      <3>2. QED
        BY <1>9, <2>3, <3>1 DEF RunStep
    <2>4. QED
      BY <1>9, <2>1, <2>2, <2>3 DEF RequestCancel
  <1>10. ASSUME NEW before \in Nat, Prune(before)
         PROVE  RunStep(r)
    BY <1>10 DEF Prune, Prunable, RunStep
  <1>11. Tick => RunStep(r)
    BY DEF Tick, RunStep
  <1>12. QED
    BY <1>1, <1>2, <1>3, <1>4, <1>5, <1>6, <1>7, <1>8, <1>9, <1>10, <1>11, NextCases

-----------------------------------------------------------------------------
(* The per-run invariants, as one invariant of a record: they support one  *)
(* another (a recovery is recognised by its lease, an attempt is counted   *)
(* by the state it starts from).                                           *)

RecordInv(rec) ==
    /\ (rec.state = "Running") <=> (rec.lease_expires_at # None)
    /\ (rec.lease_owner = None) <=> (rec.lease_expires_at = None)
    /\ rec.state = "Running" => rec.lease_epoch > 0
    /\ rec.attempt <= rec.max_attempts
    /\ rec.state = "Queued" => rec.attempt < rec.max_attempts
    /\ rec.state \in {"Running", "Waiting"} => rec.attempt > 0
    /\ rec.state = "Queued" => ~rec.cancel_requested
    /\ rec.wake_pending => rec.state \in {"Running", "Failed"}

RecordsInv == \A r \in RunIds : RecordInv(runs[r])

LEMMA RecordsInvMeans ==
    RecordsInv <=> /\ AttemptBudget
                   /\ NoRetryAfterCancel
                   /\ LeaseWhileRunning
                   /\ WakePendingWhileRunning
  BY DEF RecordsInv, RecordInv, AttemptBudget, NoRetryAfterCancel, LeaseWhileRunning,
         WakePendingWhileRunning

LEMMA RecordInvStep ==
    ASSUME TypeOK, NEW r \in RunIds, RecordInv(runs[r]), RunStep(r)
    PROVE  RecordInv(runs'[r])
  <1> DEFINE rec == runs[r]
  <1>0. rec \in RunRecord
    BY DEF TypeOK
  <1>1. CASE runs'[r] = rec
    BY <1>1
  <1>2. ASSUME NEW run \in NewRun, NEW at \in Nat, Valid(run), runs'[r] = QueuedRun(run, at)
        PROVE  RecordInv(runs'[r])
    <2>1. run.max_attempts \in Nat \ {0}
      BY <1>2, RunStoreAssumption DEF Valid, NewRun
    <2>2. QED
      BY <1>2, <2>1 DEF QueuedRun, RecordInv
  <1>3. ASSUME NEW at \in Nat, IsUnfinished(r), runs'[r] = Interrupted(rec, at)
        PROVE  RecordInv(runs'[r])
    BY <1>0, <1>3 DEF Interrupted, Touch, ReleaseLease, RecordInv, RunRecord, IsUnfinished,
                      Unfinished
  <1>4. ASSUME NEW w \in Workers, NEW at \in Nat, Claimable(r, at),
               runs'[r] = ClaimedRun(rec, w, at)
        PROVE  RecordInv(runs'[r])
    <2>1. at + Ttl # None /\ w # None
      BY RunStoreAssumption
    <2>2. rec.state = "Waiting" \/ rec.attempt < rec.max_attempts
      BY <1>0, <1>4 DEF Claimable, LeaseExpired, Exhausted, RecordInv, RunRecord
    <2>3. /\ runs'[r].state = "Running"
          /\ runs'[r].lease_expires_at = at + Ttl
          /\ runs'[r].lease_owner = w
          /\ runs'[r].lease_epoch = rec.lease_epoch + 1
          /\ runs'[r].max_attempts = rec.max_attempts
          /\ runs'[r].attempt = IF rec.state = "Waiting" THEN rec.attempt ELSE rec.attempt + 1
      BY <1>0, <1>4 DEF ClaimedRun, Touch, RunRecord
    <2>4. rec.attempt \in Nat /\ rec.max_attempts \in Nat /\ rec.lease_epoch \in Nat
      BY <1>0 DEF RunRecord
    <2>5. QED
      BY <2>1, <2>2, <2>3, <2>4 DEF RecordInv
  <1>5. ASSUME NEW at \in Nat, Exhausted(r, at), runs'[r] = ExhaustedRun(rec, at)
        PROVE  RecordInv(runs'[r])
    BY <1>0, <1>5 DEF ExhaustedRun, Touch, ReleaseLease, RecordInv, RunRecord
  <1>6. ASSUME NEW at \in Nat, rec.state = "Running",
               runs'[r] = Touch([rec EXCEPT !.lease_expires_at = at + Ttl], at)
        PROVE  RecordInv(runs'[r])
    <2>1. at + Ttl # None
      BY RunStoreAssumption
    <2>2. QED
      BY <1>0, <1>6, <2>1 DEF Touch, RecordInv, RunRecord
  <1>7. ASSUME NEW at \in Nat, NEW c \in Checkpoints,
               runs'[r] = Touch([rec EXCEPT !.checkpoint = c], at)
        PROVE  RecordInv(runs'[r])
    BY <1>0, <1>7 DEF Touch, RecordInv, RunRecord
  <1>8. ASSUME NEW at \in Nat, NEW until \in OptTime, rec.state = "Running",
               runs'[r] = WaitingRun(rec, until, at)
        PROVE  RecordInv(runs'[r])
    BY <1>0, <1>8 DEF WaitingRun, Touch, ReleaseLease, RecordInv, RunRecord
  <1>9. ASSUME NEW at \in Nat, NEW outcome \in Outcomes, rec.state = "Running",
               runs'[r] = FinishedRun(rec, outcome, at)
        PROVE  RecordInv(runs'[r])
    <2>1. /\ runs'[r].state = OutcomeState(rec, outcome)
          /\ runs'[r].lease_expires_at = None
          /\ runs'[r].lease_owner = None
          /\ runs'[r].wake_pending = FALSE
          /\ runs'[r].max_attempts = rec.max_attempts
          /\ runs'[r].attempt = rec.attempt
          /\ runs'[r].cancel_requested = rec.cancel_requested
      BY <1>0, <1>9 DEF FinishedRun, Touch, ReleaseLease, RunRecord
    <2>2. OutcomeState(rec, outcome) \in Terminal \/ (OutcomeState(rec, outcome) = "Queued" /\ Retries(rec))
      BY DEF OutcomeState, Outcomes, Terminal
    <2>3. QED
      BY <1>0, <2>1, <2>2 DEF RecordInv, Terminal, Retries, RunRecord
  <1>10. ASSUME NEW at \in Nat, rec.state = "Running",
                runs'[r] = Touch([rec EXCEPT !.wake_pending = TRUE], at)
         PROVE  RecordInv(runs'[r])
    BY <1>0, <1>10 DEF Touch, RecordInv, RunRecord
  <1>11. ASSUME NEW at \in Nat, rec.state = "Running",
                runs'[r] = Touch([rec EXCEPT !.cancel_requested = TRUE], at)
         PROVE  RecordInv(runs'[r])
    BY <1>0, <1>11 DEF Touch, RecordInv, RunRecord
  <1>12. ASSUME NEW at \in Nat, runs'[r] = Touch([rec EXCEPT !.not_before = at], at)
         PROVE  RecordInv(runs'[r])
    BY <1>0, <1>12 DEF Touch, RecordInv, RunRecord
  <1>13. ASSUME NEW at \in Nat, rec.state \in {"Queued", "Waiting"},
                runs'[r] = Touch(ReleaseLease([rec EXCEPT !.state = "Cancelled"]), at)
         PROVE  RecordInv(runs'[r])
    BY <1>0, <1>13 DEF Touch, ReleaseLease, RecordInv, RunRecord
  <1>14. CASE runs'[r] = AbsentRun
    BY <1>14 DEF AbsentRun, RecordInv
  <1>15. QED
    BY <1>1, <1>2, <1>3, <1>4, <1>5, <1>6, <1>7, <1>8, <1>9, <1>10, <1>11, <1>12, <1>13,
       <1>14 DEF RunStep

LEMMA RecordsInvariant == TypeOK /\ RecordsInv /\ [Next]_storeVars => RecordsInv'
  <1> SUFFICES ASSUME TypeOK, RecordsInv, [Next]_storeVars, NEW r \in RunIds
               PROVE  RecordInv(runs'[r])
    BY DEF RecordsInv
  <1>1. RecordInv(runs[r])
    BY DEF RecordsInv
  <1>2. CASE UNCHANGED storeVars
    BY <1>1, <1>2 DEF storeVars
  <1>3. CASE Next
    BY <1>1, <1>3, EveryRunSteps, RecordInvStep
  <1>4. QED
    BY <1>2, <1>3

LEMMA RecordsAlways == Spec => [](TypeOK /\ RecordsInv)
  <1>1. Init => RecordsInv
    BY DEF Init, RecordsInv, RecordInv, AbsentRun
  <1>2. QED
    BY <1>1, TypeCorrect, RecordsInvariant, PTL DEF Spec

(* A run never takes more attempts than max_attempts allows, counting the  *)
(* recoveries of abandoned attempts, in any history of the store.          *)
THEOREM AttemptsBounded == Spec => []AttemptBudget
  BY RecordsAlways, RecordsInvMeans, PTL

(* A run whose cancellation was requested while it ran never goes back to  *)
(* the queue.                                                              *)
THEOREM CancelSurvivesRetry == Spec => []NoRetryAfterCancel
  BY RecordsAlways, RecordsInvMeans, PTL

-----------------------------------------------------------------------------
(* Leases and wakes: what a step may not do. *)

LEMMA LiveLeaseStep ==
    ASSUME TypeOK, NEW r \in RunIds, RecordInv(runs[r]), RunStep(r),
           runs[r].state = "Running", runs[r].lease_expires_at > now,
           runs'[r].state = "Running"
    PROVE  /\ runs'[r].lease_epoch = runs[r].lease_epoch
           /\ runs'[r].lease_owner = runs[r].lease_owner
  <1> DEFINE rec == runs[r]
  <1>0. rec \in RunRecord /\ now \in Nat
    BY DEF TypeOK
  <1>1. rec.lease_expires_at \in Nat
    BY <1>0 DEF RecordInv, RunRecord, OptTime
  <1>2. ASSUME NEW at \in Nat, at <= now PROVE ~LeaseExpired(r, at)
    BY <1>0, <1>1, <1>2, RunStoreAssumption DEF LeaseExpired
  <1>3. \A at \in Nat : at <= now => ~Claimable(r, at)
    BY <1>2 DEF Claimable
  <1>4. ASSUME NEW at \in Nat, runs'[r] = Interrupted(rec, at)
        PROVE  runs'[r].lease_epoch = rec.lease_epoch /\ runs'[r].lease_owner = rec.lease_owner
    BY <1>0, <1>4 DEF Interrupted, Touch, RunRecord
  <1>5. \A at \in Nat : runs'[r] # ExhaustedRun(rec, at)
    BY <1>0 DEF ExhaustedRun, Touch, ReleaseLease, RunRecord
  <1>6. \A at \in Nat, until \in OptTime : runs'[r] # WaitingRun(rec, until, at)
    BY <1>0 DEF WaitingRun, Touch, ReleaseLease, RunRecord
  <1>7. \A at \in Nat, outcome \in Outcomes : runs'[r] # FinishedRun(rec, outcome, at)
    <2> SUFFICES ASSUME NEW at \in Nat, NEW outcome \in Outcomes
                 PROVE  FinishedRun(rec, outcome, at).state # "Running"
      OBVIOUS
    <2>1. FinishedRun(rec, outcome, at).state = OutcomeState(rec, outcome)
      BY <1>0 DEF FinishedRun, Touch, ReleaseLease, RunRecord
    <2>2. QED
      BY <2>1 DEF OutcomeState, Outcomes
  <1>8. ASSUME NEW at \in Nat,
               \/ runs'[r] = Touch([rec EXCEPT !.lease_expires_at = at + Ttl], at)
               \/ \E c \in Checkpoints : runs'[r] = Touch([rec EXCEPT !.checkpoint = c], at)
               \/ runs'[r] = Touch([rec EXCEPT !.wake_pending = TRUE], at)
               \/ runs'[r] = Touch([rec EXCEPT !.cancel_requested = TRUE], at)
        PROVE  runs'[r].lease_epoch = rec.lease_epoch /\ runs'[r].lease_owner = rec.lease_owner
    BY <1>0, <1>8 DEF Touch, RunRecord
  <1>9. runs[r] # AbsentRun /\ ~IsTerminal(r)
    BY DEF AbsentRun, IsTerminal, Terminal
  <1>10. QED
    BY <1>3, <1>4, <1>5, <1>6, <1>7, <1>8, <1>9 DEF RunStep

(* While the lease a worker was granted is live, no operation of any other *)
(* caller changes the epoch its writes must carry, in any history.         *)
THEOREM LiveLeasesAreKept == Spec => LiveLeaseKept
  <1>1. TypeOK /\ RecordsInv /\ [Next]_storeVars =>
            [\A r \in RunIds :
               (runs[r].state = "Running" /\ runs[r].lease_expires_at > now)
                  => \/ runs'[r].state # "Running"
                     \/ /\ runs'[r].lease_epoch = runs[r].lease_epoch
                        /\ runs'[r].lease_owner = runs[r].lease_owner]_storeVars
    BY EveryRunSteps, LiveLeaseStep DEF RecordsInv
  <1>2. QED
    BY <1>1, RecordsAlways, PTL DEF Spec, LiveLeaseKept

LEMMA PendingWakeStep ==
    ASSUME TypeOK, NEW r \in RunIds, RecordInv(runs[r]), RunStep(r),
           runs[r].wake_pending, runs'[r].state = "Waiting"
    PROVE  runs'[r].not_before # None /\ runs'[r].not_before <= now
  <1> DEFINE rec == runs[r]
  <1>0. rec \in RunRecord
    BY DEF TypeOK
  <1>1. rec.state \in {"Running", "Failed"} /\ rec # AbsentRun
    BY DEF RecordInv, AbsentRun
  <1>2. \A at \in Nat : runs'[r] # Interrupted(rec, at) /\ runs'[r] # ExhaustedRun(rec, at)
    <2>1. \A at \in Nat : ExhaustedRun(rec, at).state = "Failed"
      BY <1>0 DEF ExhaustedRun, Touch, ReleaseLease, RunRecord
    <2>2. \A at \in Nat : Interrupted(rec, at).state \in {"Running", "Cancelled"}
      BY <1>0 DEF Interrupted, Touch, ReleaseLease, RunRecord
    <2>3. QED
      BY <2>1, <2>2
  <1>3. \A w \in Workers, at \in Nat : runs'[r] # ClaimedRun(rec, w, at)
    <2>1. \A w \in Workers, at \in Nat : ClaimedRun(rec, w, at).state = "Running"
      BY <1>0 DEF ClaimedRun, Touch, RunRecord
    <2>2. QED
      BY <2>1
  <1>4. \A at \in Nat, outcome \in Outcomes : runs'[r] # FinishedRun(rec, outcome, at)
    <2> SUFFICES ASSUME NEW at \in Nat, NEW outcome \in Outcomes
                 PROVE  FinishedRun(rec, outcome, at).state # "Waiting"
      OBVIOUS
    <2>1. FinishedRun(rec, outcome, at).state = OutcomeState(rec, outcome)
      BY <1>0 DEF FinishedRun, Touch, ReleaseLease, RunRecord
    <2>2. QED
      BY <2>1 DEF OutcomeState, Outcomes
  <1>5. ASSUME NEW at \in Nat, at <= now, NEW until \in OptTime,
               runs'[r] = WaitingRun(rec, until, at)
        PROVE  runs'[r].not_before # None /\ runs'[r].not_before <= now
    <2>1. runs'[r].not_before = at
      BY <1>0, <1>5 DEF WaitingRun, Touch, ReleaseLease, RunRecord
    <2>2. QED
      BY <1>5, <2>1, RunStoreAssumption
  <1>6. \A at \in Nat :
            /\ runs'[r] # Touch([rec EXCEPT !.lease_expires_at = at + Ttl], at)
            /\ \A c \in Checkpoints : runs'[r] # Touch([rec EXCEPT !.checkpoint = c], at)
            /\ runs'[r] # Touch([rec EXCEPT !.wake_pending = TRUE], at)
            /\ runs'[r] # Touch([rec EXCEPT !.cancel_requested = TRUE], at)
    BY <1>0, <1>1 DEF Touch, RunRecord
  <1>7. runs'[r] # rec /\ runs'[r] # AbsentRun
    BY <1>1 DEF AbsentRun
  <1>8. QED
    BY <1>1, <1>2, <1>3, <1>4, <1>5, <1>6, <1>7 DEF RunStep

(* A wake that arrived early is never lost by the wait it raced with.      *)
THEOREM WakesAreKept == Spec => PendingWakeEndsWait
  <1>1. TypeOK /\ RecordsInv /\ [Next]_storeVars =>
            [\A r \in RunIds :
               runs[r].wake_pending /\ runs'[r].state = "Waiting"
                  => runs'[r].not_before # None /\ runs'[r].not_before <= now]_storeVars
    BY EveryRunSteps, PendingWakeStep DEF RecordsInv
  <1>2. QED
    BY <1>1, RecordsAlways, PTL DEF Spec, PendingWakeEndsWait

-----------------------------------------------------------------------------
(* What never changes in a run that stays in the table. *)

SameIdentity(a, b) ==
    /\ b.queue = a.queue
    /\ b.idempotency_key = a.idempotency_key
    /\ b.concurrency_key = a.concurrency_key
    /\ b.created_at = a.created_at

Kept(a, b) ==
    /\ SameIdentity(a, b)
    /\ (b.state = "Absent") <=> (a.state = "Absent")
    /\ a.state \in Terminal => b.state = a.state

LEMMA IdentityKept ==
    ASSUME TypeOK, NEW r \in RunIds, RunStep(r)
    PROVE  \/ runs'[r] = AbsentRun
           \/ r = next_seq /\ next_seq' = next_seq + 1 /\ runs[r] = AbsentRun
           \/ Kept(runs[r], runs'[r])
  <1> DEFINE rec == runs[r]
  <1>0. rec \in RunRecord
    BY DEF TypeOK
  <1>1. Kept(rec, rec)
    BY DEF Kept, SameIdentity
  <1>2. ASSUME NEW at \in Nat, IsUnfinished(r)
        PROVE  Kept(rec, Interrupted(rec, at))
    BY <1>0, <1>2 DEF Interrupted, Touch, ReleaseLease, RunRecord, Kept, SameIdentity,
                      IsUnfinished, Unfinished, Terminal
  <1>3. ASSUME NEW w \in Workers, NEW at \in Nat, Claimable(r, at)
        PROVE  Kept(rec, ClaimedRun(rec, w, at))
    <2>1. rec.state \in {"Queued", "Waiting", "Running"}
      BY <1>3 DEF Claimable, LeaseExpired
    <2>2. SameIdentity(rec, ClaimedRun(rec, w, at)) /\ ClaimedRun(rec, w, at).state = "Running"
      BY <1>0 DEF ClaimedRun, Touch, RunRecord, SameIdentity
    <2>3. QED
      BY <2>1, <2>2 DEF Kept, Terminal
  <1>4. ASSUME NEW at \in Nat, Exhausted(r, at)
        PROVE  Kept(rec, ExhaustedRun(rec, at))
    BY <1>0, <1>4 DEF ExhaustedRun, Touch, ReleaseLease, RunRecord, Kept, SameIdentity,
                      Exhausted, LeaseExpired, Terminal
  <1>5. ASSUME NEW at \in Nat, NEW until \in OptTime, rec.state = "Running"
        PROVE  Kept(rec, WaitingRun(rec, until, at))
    <2>1. SameIdentity(rec, WaitingRun(rec, until, at)) /\ WaitingRun(rec, until, at).state = "Waiting"
      BY <1>0 DEF WaitingRun, Touch, ReleaseLease, RunRecord, SameIdentity
    <2>2. QED
      BY <1>5, <2>1 DEF Kept, Terminal
  <1>6. ASSUME NEW at \in Nat, NEW outcome \in Outcomes, rec.state = "Running"
        PROVE  Kept(rec, FinishedRun(rec, outcome, at))
    <2>1. /\ SameIdentity(rec, FinishedRun(rec, outcome, at))
          /\ FinishedRun(rec, outcome, at).state = OutcomeState(rec, outcome)
      BY <1>0 DEF FinishedRun, Touch, ReleaseLease, RunRecord, SameIdentity
    <2>2. OutcomeState(rec, outcome) # "Absent"
      BY DEF OutcomeState, Outcomes
    <2>3. QED
      BY <1>6, <2>1, <2>2 DEF Kept, Terminal
  <1>7. ASSUME NEW at \in Nat
        PROVE  /\ Kept(rec, Touch([rec EXCEPT !.lease_expires_at = at + Ttl], at))
               /\ \A c \in Checkpoints : Kept(rec, Touch([rec EXCEPT !.checkpoint = c], at))
               /\ Kept(rec, Touch([rec EXCEPT !.wake_pending = TRUE], at))
               /\ Kept(rec, Touch([rec EXCEPT !.cancel_requested = TRUE], at))
               /\ Kept(rec, Touch([rec EXCEPT !.not_before = at], at))
    BY <1>0 DEF Touch, RunRecord, Kept, SameIdentity
  <1>8. ASSUME NEW at \in Nat, rec.state \in {"Queued", "Waiting"}
        PROVE  Kept(rec, Touch(ReleaseLease([rec EXCEPT !.state = "Cancelled"]), at))
    BY <1>0, <1>8 DEF Touch, ReleaseLease, RunRecord, Kept, SameIdentity, Terminal
  <1>9. QED
    BY <1>1, <1>2, <1>3, <1>4, <1>5, <1>6, <1>7, <1>8 DEF RunStep

-----------------------------------------------------------------------------
(* Idempotency.  A run that is in the table has a queue, so the index has  *)
(* an entry for its key.                                                   *)

IndexInv ==
    /\ IdempotencyIndex
    /\ \A r \in RunIds : runs[r].state # "Absent" => runs[r].queue \in Queues

(* Only enqueue and prune touch the index. *)
LEMMA IndexUntouched ==
    ASSUME TypeOK, Next
    PROVE  \/ \E run \in NewRun, at \in Nat : Enqueue(run, at)
           \/ \E before \in Nat : Prune(before)
           \/ by_idempotency_key' = by_idempotency_key /\ next_seq' = next_seq
  BY NextCases DEF Claim, ClaimNone, Heartbeat, SetCheckpoint, Wait, Finish, Wake,
                   RequestCancel, Update, Tick

LEMMA EnqueueIndex ==
    ASSUME TypeOK, IndexInv, NEW run \in NewRun, NEW at \in Nat, Enqueue(run, at),
           NEW r \in RunIds, Kept(runs[r], runs'[r]) \/ r = next_seq,
           runs'[r].state # "Absent", runs'[r].idempotency_key # None
    PROVE  by_idempotency_key'[<<runs'[r].queue, runs'[r].idempotency_key>>] = r
  <1>1. CASE r = next_seq
    <2>1. runs'[r].queue = run.queue /\ runs'[r].idempotency_key = run.idempotency_key
      BY <1>1 DEF Enqueue, QueuedRun
    <2>2. <<run.queue, run.idempotency_key>> \in Queues \X IdempotencyKeys
      BY <2>1 DEF NewRun
    <2>3. by_idempotency_key' =
              [by_idempotency_key EXCEPT ![<<run.queue, run.idempotency_key>>] = next_seq]
      BY <2>1 DEF Enqueue
    <2>4. QED
      BY <1>1, <2>1, <2>2, <2>3 DEF TypeOK
  <1>2. CASE r # next_seq
    <2>1. /\ runs[r].state # "Absent"
          /\ runs[r].idempotency_key = runs'[r].idempotency_key
          /\ runs[r].queue = runs'[r].queue
      BY <1>2 DEF Kept, SameIdentity
    <2>2. by_idempotency_key[<<runs[r].queue, runs[r].idempotency_key>>] = r
      BY <2>1 DEF IndexInv, IdempotencyIndex
    <2>3. <<runs[r].queue, runs[r].idempotency_key>> \in Queues \X IdempotencyKeys
      BY <2>1 DEF IndexInv, TypeOK, RunRecord
    <2>4. run.idempotency_key = None \/
          <<run.queue, run.idempotency_key>> # <<runs[r].queue, runs[r].idempotency_key>>
      <3> SUFFICES ASSUME run.idempotency_key # None,
                          run.queue = runs[r].queue,
                          run.idempotency_key = runs[r].idempotency_key
                   PROVE  FALSE
        OBVIOUS
      <3>1. r # None
        BY RunStoreAssumption DEF RunIds
      <3>2. Existing(run)
        BY <2>1, <2>2, <3>1 DEF Existing
      <3>3. QED
        BY <3>2 DEF Enqueue
    <2>5. QED
      BY <2>1, <2>2, <2>3, <2>4 DEF Enqueue, TypeOK
  <1>3. QED
    BY <1>1, <1>2

LEMMA PruneIndex ==
    ASSUME TypeOK, IndexInv, NEW before \in Nat, Prune(before), NEW r \in RunIds,
           runs'[r].state # "Absent", runs'[r].idempotency_key # None
    PROVE  by_idempotency_key'[<<runs'[r].queue, runs'[r].idempotency_key>>] = r
  <1>1. runs'[r] = runs[r] /\ ~Prunable(r, before)
    BY DEF Prune, AbsentRun
  <1> DEFINE k == <<runs[r].queue, runs[r].idempotency_key>>
  <1>2. by_idempotency_key[k] = r
    BY <1>1 DEF IndexInv, IdempotencyIndex
  <1>3. k \in Queues \X IdempotencyKeys
    BY <1>1 DEF IndexInv, TypeOK, RunRecord
  <1>4. ASSUME NEW s \in RunIds, Prunable(s, before), runs[s].queue = k[1],
               runs[s].idempotency_key = k[2]
        PROVE  FALSE
    <2>1. runs[s].state # "Absent" /\ runs[s].idempotency_key # None
      BY <1>1, <1>4 DEF Prunable, IsTerminal, Terminal
    <2>2. by_idempotency_key[k] = s
      BY <1>4, <2>1 DEF IndexInv, IdempotencyIndex
    <2>3. QED
      BY <1>1, <1>2, <1>4, <2>2
  <1>5. by_idempotency_key'[k] = by_idempotency_key[k]
    BY <1>3, <1>4 DEF Prune
  <1>6. QED
    BY <1>1, <1>2, <1>5

LEMMA IndexInvariant == TypeOK /\ IndexInv /\ [Next]_storeVars => IndexInv'
  <1> SUFFICES ASSUME TypeOK, IndexInv, [Next]_storeVars PROVE IndexInv'
    OBVIOUS
  <1>1. CASE UNCHANGED storeVars
    BY <1>1 DEF storeVars, IndexInv, IdempotencyIndex
  <1>2. CASE Next
    <2>1. \A r \in RunIds :
              \/ runs'[r] = AbsentRun
              \/ r = next_seq /\ next_seq' = next_seq + 1
              \/ Kept(runs[r], runs'[r])
      BY <1>2, EveryRunSteps, IdentityKept
    <2>2. CASE \E run \in NewRun, at \in Nat : Enqueue(run, at)
      <3>1. PICK run \in NewRun, at \in Nat : Enqueue(run, at)
        BY <2>2
      <3>2. ASSUME NEW r \in RunIds, runs'[r].state # "Absent"
            PROVE  Kept(runs[r], runs'[r]) \/ r = next_seq
        BY <2>1, <3>2 DEF AbsentRun
      <3>3. \A r \in RunIds : runs'[r].state # "Absent" => runs'[r].queue \in Queues
        BY <3>1, <3>2 DEF IndexInv, Kept, SameIdentity, Enqueue, QueuedRun, NewRun
      <3>4. IdempotencyIndex'
        BY <3>1, <3>2, EnqueueIndex DEF IdempotencyIndex
      <3>5. QED
        BY <3>3, <3>4 DEF IndexInv
    <2>3. CASE \E before \in Nat : Prune(before)
      <3>1. \A r \in RunIds : runs'[r] = runs[r] \/ runs'[r] = AbsentRun
        BY <2>3 DEF Prune
      <3>2. \A r \in RunIds : runs'[r].state # "Absent" => runs'[r].queue \in Queues
        BY <3>1 DEF IndexInv, AbsentRun
      <3>3. IdempotencyIndex'
        BY <2>3, PruneIndex DEF IdempotencyIndex
      <3>4. QED
        BY <3>2, <3>3 DEF IndexInv
    <2>4. CASE by_idempotency_key' = by_idempotency_key /\ next_seq' = next_seq
      <3>1. \A r \in RunIds : runs'[r] = AbsentRun \/ Kept(runs[r], runs'[r])
        BY <2>1, <2>4 DEF TypeOK
      <3>2. QED
        BY <2>4, <3>1 DEF IndexInv, IdempotencyIndex, Kept, SameIdentity, AbsentRun
    <2>5. QED
      BY <1>2, <2>2, <2>3, <2>4, IndexUntouched
  <1>3. QED
    BY <1>1, <1>2

(* A queue never holds two runs with the same idempotency key, however     *)
(* enqueues, outcomes and prunes interleave.                               *)
THEOREM IdempotentEnqueue == Spec => []IdempotencyIndex
  <1>1. Init => IndexInv
    BY DEF Init, IndexInv, IdempotencyIndex, AbsentRun
  <1>2. IndexInv => IdempotencyIndex
    BY DEF IndexInv
  <1>3. QED
    BY <1>1, <1>2, TypeCorrect, IndexInvariant, PTL DEF Spec

-----------------------------------------------------------------------------
(* Concurrency keys, in a store whose clock reads do not lag: then a run   *)
(* enqueued later is ordered later, and the first unfinished run of a key  *)
(* stays first until it finishes.                                          *)

OrderInv ==
    /\ StartedRunIsFirst
    /\ \A r \in RunIds : runs[r].created_at <= now

LEMMA BeforeTotal ==
    ASSUME TypeOK, NEW r \in RunIds, NEW s \in RunIds, r # s
    PROVE  (Before(r, s) \/ Before(s, r)) /\ ~(Before(r, s) /\ Before(s, r))
  BY DEF TypeOK, Before, RunIds, RunRecord, Time

LEMMA EnqueueOrder ==
    ASSUME TypeOK, OrderInv, NEW run \in NewRun, NEW at \in Nat, Enqueue(run, at),
           at = now,
           NEW r \in RunIds, Kept(runs[r], runs'[r]), r # next_seq, runs[r].state # "Absent",
           NEW s \in RunIds, s = next_seq
    PROVE  Before(r, s)'
  <1>1. r < next_seq
    BY DEF TypeOK, AbsentRun, RunIds
  <1>2. runs'[s].created_at = now
    BY DEF Enqueue, QueuedRun
  <1>3. runs'[r].created_at <= now /\ runs'[r].created_at \in Nat
    BY DEF OrderInv, Kept, SameIdentity, TypeOK, RunRecord, Time
  <1>4. QED
    BY <1>1, <1>2, <1>3 DEF Before, TypeOK

(* A run that starts in this step was claimed from the queue. *)
LEMMA StartsByClaim ==
    ASSUME TypeOK, NEW r \in RunIds, RecordInv(runs[r]), RunStep(r),
           Kept(runs[r], runs'[r]), runs[r].attempt = 0, runs'[r].attempt > 0
    PROVE  \E w \in Workers, at \in Nat :
               /\ at <= now
               /\ runs'[r] = ClaimedRun(runs[r], w, at)
  <1> DEFINE rec == runs[r]
  <1>0. rec \in RunRecord
    BY DEF TypeOK
  <1>1. \A at \in Nat : /\ Interrupted(rec, at).attempt = rec.attempt
                        /\ ExhaustedRun(rec, at).attempt = rec.attempt
    BY <1>0 DEF Interrupted, ExhaustedRun, Touch, ReleaseLease, RunRecord
  <1>2. \A at \in Nat, until \in OptTime : WaitingRun(rec, until, at).attempt = rec.attempt
    BY <1>0 DEF WaitingRun, Touch, ReleaseLease, RunRecord
  <1>3. \A at \in Nat, outcome \in Outcomes :
            FinishedRun(rec, outcome, at).attempt = rec.attempt
    BY <1>0 DEF FinishedRun, Touch, ReleaseLease, RunRecord
  <1>4. \A at \in Nat :
            /\ Touch([rec EXCEPT !.lease_expires_at = at + Ttl], at).attempt = rec.attempt
            /\ \A c \in Checkpoints :
                   Touch([rec EXCEPT !.checkpoint = c], at).attempt = rec.attempt
            /\ Touch([rec EXCEPT !.wake_pending = TRUE], at).attempt = rec.attempt
            /\ Touch([rec EXCEPT !.cancel_requested = TRUE], at).attempt = rec.attempt
            /\ Touch([rec EXCEPT !.not_before = at], at).attempt = rec.attempt
            /\ Touch(ReleaseLease([rec EXCEPT !.state = "Cancelled"]), at).attempt = rec.attempt
    BY <1>0 DEF Touch, ReleaseLease, RunRecord
  <1>5. \A run \in NewRun, at \in Nat : QueuedRun(run, at).attempt = 0
    BY DEF QueuedRun
  <1>6. AbsentRun.attempt = 0
    BY DEF AbsentRun
  <1>7. runs'[r] # rec /\ runs'[r] # AbsentRun
    BY <1>6
  <1>8. \A at \in Nat : /\ runs'[r] # Interrupted(rec, at)
                        /\ runs'[r] # ExhaustedRun(rec, at)
                        /\ \A until \in OptTime : runs'[r] # WaitingRun(rec, until, at)
                        /\ \A outcome \in Outcomes : runs'[r] # FinishedRun(rec, outcome, at)
                        /\ \A run \in NewRun : runs'[r] # QueuedRun(run, at)
    BY <1>1, <1>2, <1>3, <1>5
  <1>9. \A at \in Nat :
            /\ runs'[r] # Touch([rec EXCEPT !.lease_expires_at = at + Ttl], at)
            /\ \A c \in Checkpoints : runs'[r] # Touch([rec EXCEPT !.checkpoint = c], at)
            /\ runs'[r] # Touch([rec EXCEPT !.wake_pending = TRUE], at)
            /\ runs'[r] # Touch([rec EXCEPT !.cancel_requested = TRUE], at)
            /\ runs'[r] # Touch([rec EXCEPT !.not_before = at], at)
            /\ runs'[r] # Touch(ReleaseLease([rec EXCEPT !.state = "Cancelled"]), at)
    <2>1. runs'[r].attempt # rec.attempt
      OBVIOUS
    <2>2. QED
      BY <1>4, <2>1, Zenon
  <1>10. QED
    BY <1>7, <1>8, <1>9 DEF RunStep

(* A claim starts a run only when the earlier runs of its key are finished *)
(* or fail in the same claim.                                              *)
LEMMA ClaimOrder ==
    ASSUME TypeOK, RecordsInv, OrderInv,
           NEW q \in Queues, NEW w \in Workers, NEW c \in RunIds, NEW at \in Nat,
           Claim(q, w, c, at), runs[c].attempt = 0,
           NEW s \in RunIds, s # c, IsUnfinished(s)', SameKey(c, s),
           IsUnfinished(s)
    PROVE  Before(c, s)
  <1>1. runs[c].state = "Queued" /\ ~Blocked(c, at) /\ runs[c].queue = q
    BY DEF Claim, FirstClaimable, Claimable, LeaseExpired, RecordsInv, RecordInv
  <1>2. s \in Holders(runs[c].queue, runs[c].concurrency_key)
    BY DEF Holders, SameKey
  <1>3. SUFFICES ASSUME Before(s, c) PROVE FALSE
    BY BeforeTotal
  <1>4. Exhausted(s, at)
    BY <1>1, <1>2, <1>3 DEF Blocked, SameKey
  <1>5. runs'[s] = ExhaustedRun(runs[s], at)
    BY <1>1, <1>3, <1>4 DEF Claim, SameKey
  <1>6. runs'[s].state = "Failed"
    BY <1>5 DEF ExhaustedRun, Touch, ReleaseLease, TypeOK, RunRecord
  <1>7. QED
    BY <1>6 DEF IsUnfinished, Unfinished

LEMMA OrderInvariant ==
    ASSUME MaxLag = 0
    PROVE  TypeOK /\ RecordsInv /\ OrderInv /\ [Next]_storeVars => OrderInv'
  <1> SUFFICES ASSUME TypeOK, RecordsInv, OrderInv, [Next]_storeVars PROVE OrderInv'
    OBVIOUS
  <1>1. CASE UNCHANGED storeVars
    BY <1>1 DEF storeVars, OrderInv, StartedRunIsFirst, Started, IsUnfinished, SameKey, Before
  <1>2. CASE Next
    <2>0. TypeOK'
      BY TypeInvariant
    <2>1. now' >= now /\ now \in Nat /\ now' \in Nat
      <3>1. now' = now \/ Tick
        BY <1>2, NextCases
           DEF Enqueue, Claim, ClaimNone, Heartbeat, SetCheckpoint, Wait, Finish, Wake,
               RequestCancel, Update, Prune
      <3>2. QED
        BY <3>1 DEF Tick, TypeOK
    <2>2. \A r \in RunIds :
              /\ RunStep(r)
              /\ \/ runs'[r] = AbsentRun
                 \/ r = next_seq /\ next_seq' = next_seq + 1 /\ runs[r] = AbsentRun
                 \/ Kept(runs[r], runs'[r])
      BY <1>2, EveryRunSteps, IdentityKept
    <2>3. next_seq' = next_seq + 1 =>
              \E run \in NewRun, at \in Nat : Enqueue(run, at) /\ at = now
      <3> SUFFICES ASSUME next_seq' = next_seq + 1
                   PROVE  \E run \in NewRun, at \in Nat : Enqueue(run, at) /\ at = now
        OBVIOUS
      <3>1. next_seq' # next_seq
        BY DEF TypeOK
      <3>2. \E run \in NewRun, at \in Nat :
                Enqueue(run, at) /\ at <= now /\ now <= at + MaxLag
        BY <1>2, <3>1, NextCases
           DEF Claim, ClaimNone, Heartbeat, SetCheckpoint, Wait, Finish, Wake,
               RequestCancel, Update, Prune, Tick
      <3>3. QED
        BY <2>1, <3>2
    <2>4. ASSUME NEW r \in RunIds PROVE runs'[r].created_at <= now'
      <3>1. CASE runs'[r] = AbsentRun
        BY <2>1, <3>1 DEF AbsentRun
      <3>2. CASE r = next_seq /\ next_seq' = next_seq + 1
        <4>1. PICK run \in NewRun, at \in Nat : Enqueue(run, at) /\ at = now
          BY <2>3, <3>2
        <4>2. runs'[r] = QueuedRun(run, at)
          BY <3>2, <4>1 DEF Enqueue
        <4>3. runs'[r].created_at = now
          BY <4>1, <4>2 DEF QueuedRun
        <4>4. QED
          BY <2>1, <4>3
      <3>3. CASE Kept(runs[r], runs'[r])
        BY <2>1, <3>3 DEF Kept, SameIdentity, OrderInv, TypeOK, RunRecord, Time
      <3>4. QED
        BY <2>2, <3>1, <3>2, <3>3
    <2>5. ASSUME NEW r \in RunIds, NEW s \in RunIds, r # s,
                 Started(r)', IsUnfinished(s)', SameKey(r, s)'
          PROVE  Before(r, s)'
      <3>1. runs'[r] # AbsentRun /\ runs'[s] # AbsentRun
        BY <2>5 DEF Started, IsUnfinished, Unfinished, AbsentRun
      <3>2. ~(r = next_seq /\ next_seq' = next_seq + 1)
        <4> SUFFICES ASSUME r = next_seq, next_seq' = next_seq + 1 PROVE FALSE
          OBVIOUS
        <4>1. PICK run \in NewRun, at \in Nat : Enqueue(run, at)
          BY <2>3
        <4>2. runs'[r] = QueuedRun(run, at)
          BY <4>1 DEF Enqueue
        <4>3. runs'[r].attempt = 0
          BY <4>2 DEF QueuedRun
        <4>4. QED
          BY <2>5, <4>3 DEF Started
      <3>3. Kept(runs[r], runs'[r]) /\ IsUnfinished(r)
        BY <2>2, <2>5, <3>1, <3>2
           DEF Kept, Started, IsUnfinished, Unfinished, Terminal, TypeOK, RunRecord
      <3>4. CASE s = next_seq /\ next_seq' = next_seq + 1
        <4>1. PICK run \in NewRun, at \in Nat : Enqueue(run, at) /\ at = now
          BY <2>3, <3>4
        <4>2. runs[r].state # "Absent" /\ r # next_seq
          BY <2>5, <3>3, <3>4 DEF IsUnfinished, Unfinished
        <4>3. QED
          BY <3>3, <3>4, <4>1, <4>2, EnqueueOrder
      <3>5. CASE ~(s = next_seq /\ next_seq' = next_seq + 1)
        <4>1. Kept(runs[s], runs'[s]) /\ IsUnfinished(s)
          BY <2>2, <2>5, <3>1, <3>5
             DEF Kept, IsUnfinished, Unfinished, Terminal, TypeOK, RunRecord
        <4>2. SameKey(r, s) /\ (Before(r, s)' <=> Before(r, s))
          BY <2>5, <3>3, <4>1 DEF SameKey, Before, Kept, SameIdentity
        <4>3. CASE runs[r].attempt > 0
          BY <2>5, <3>3, <4>1, <4>2, <4>3 DEF OrderInv, StartedRunIsFirst, Started
        <4>4. CASE runs[r].attempt = 0
          <5>1. RecordInv(runs[r]) /\ RunStep(r) /\ runs'[r].attempt > 0
            BY <2>2, <2>5 DEF RecordsInv, Started
          <5>2. PICK w \in Workers, at \in Nat : runs'[r] = ClaimedRun(runs[r], w, at)
            BY <3>3, <4>4, <5>1, StartsByClaim
          <5>3. runs[r].state = "Queued"
            BY <3>3, <4>4, <5>1 DEF RecordInv, IsUnfinished, Unfinished
          <5>4. runs'[r].state = "Running"
            BY <5>2 DEF ClaimedRun, Touch, TypeOK, RunRecord
          <5>5. \E q \in Queues, v \in Workers, t \in Nat : Claim(q, v, r, t)
            <6>1. ASSUME NEW run \in NewRun, NEW t \in Nat, Enqueue(run, t)
                  PROVE  FALSE
              <7>1. r # next_seq
                BY <3>2, <6>1 DEF Enqueue
              <7>2. runs'[r] = runs[r] \/ runs'[r] = Interrupted(runs[r], t)
                BY <6>1, <7>1 DEF Enqueue
              <7>3. Interrupted(runs[r], t).state = "Cancelled"
                BY <5>3 DEF Interrupted, Touch, ReleaseLease, TypeOK, RunRecord
              <7>4. QED
                BY <5>3, <5>4, <7>2, <7>3
            <6>2. ASSUME NEW q \in Queues, NEW v \in Workers, NEW c \in RunIds,
                         NEW t \in Nat, Claim(q, v, c, t)
                  PROVE  c = r
              BY <5>3, <5>4, <6>2 DEF Claim, Exhausted, LeaseExpired
            <6>3. ASSUME NEW q \in Queues, NEW t \in Nat, ClaimNone(q, t)
                  PROVE  FALSE
              BY <5>3, <5>4, <6>3 DEF ClaimNone, Exhausted, LeaseExpired
            <6>4. ASSUME NEW c \in RunIds, NEW e, NEW t \in Nat, Fenced(c, e), NEW rec,
                         Update(c, rec)
                  PROVE  FALSE
              BY <5>3, <5>4, <6>4, UpdateStep DEF Fenced
            <6>5. ASSUME NEW c \in RunIds, NEW t \in Nat, Wake(c, t) \/ RequestCancel(c, t)
                  PROVE  FALSE
              <7>1. runs'[r] = runs[r] \/ (c = r /\ runs'[r] = Touch(ReleaseLease([runs[r] EXCEPT !.state = "Cancelled"]), t))
                BY <5>3, <6>5, UpdateStep DEF Wake, RequestCancel
              <7>2. Touch(ReleaseLease([runs[r] EXCEPT !.state = "Cancelled"]), t).state = "Cancelled"
                BY DEF Touch, ReleaseLease, TypeOK, RunRecord
              <7>3. QED
                BY <5>3, <5>4, <7>1, <7>2
            <6>6. ASSUME NEW before \in Nat, Prune(before) PROVE FALSE
              BY <3>1, <5>3, <5>4, <6>6 DEF Prune
            <6>7. ~Tick
              BY <5>3, <5>4 DEF Tick
            <6>8. QED
              BY <1>2, <6>1, <6>2, <6>3, <6>4, <6>5, <6>6, <6>7, NextCases
                 DEF Heartbeat, SetCheckpoint, Wait, Finish
          <5>6. Before(r, s)
            BY <2>5, <4>1, <4>2, <4>4, <5>5, ClaimOrder
          <5>7. QED
            BY <4>2, <5>6
        <4>5. QED
          BY <4>3, <4>4 DEF TypeOK, RunRecord
      <3>6. QED
        BY <3>4, <3>5
    <2>6. QED
      BY <2>4, <2>5 DEF OrderInv, StartedRunIsFirst
  <1>3. QED
    BY <1>1, <1>2

LEMMA FirstMeansExclusive == TypeOK /\ RecordsInv /\ OrderInv => OneAtATime
  <1> SUFFICES ASSUME TypeOK, RecordsInv, OrderInv, NEW r \in RunIds, NEW s \in RunIds,
                      runs[r].state = "Running", runs[s].state = "Running",
                      SameKey(r, s), r # s
               PROVE  FALSE
    BY DEF OneAtATime
  <1>1. Started(r) /\ Started(s) /\ SameKey(s, r)
    BY DEF RecordsInv, RecordInv, Started, IsUnfinished, Unfinished, SameKey
  <1>2. Before(r, s) /\ Before(s, r)
    BY <1>1 DEF OrderInv, StartedRunIsFirst, Started
  <1>3. QED
    BY <1>2, BeforeTotal

(* When clock reads do not lag, two runs of one concurrency key are never  *)
(* Running together, whatever waits, wakes, retries, recoveries and        *)
(* interrupts come between.                                                *)
THEOREM KeysAreExclusive ==
    ASSUME MaxLag = 0
    PROVE  Spec => []OneAtATime
  <1>1. Init => OrderInv
    BY DEF Init, OrderInv, StartedRunIsFirst, Started, IsUnfinished, Unfinished, AbsentRun
  <1>2. TypeOK /\ RecordsInv /\ OrderInv /\ [Next]_storeVars => OrderInv'
    BY OrderInvariant
  <1>3. QED
    BY <1>1, <1>2, RecordsAlways, FirstMeansExclusive, PTL DEF Spec

(* A run of a key that has started comes before every unfinished run of    *)
(* that key, also after it parked or its worker was lost, when calls do    *)
(* not lag (Blocked).                                                      *)
THEOREM StartedRunsComeFirst ==
    ASSUME MaxLag = 0
    PROVE  Spec => []StartedRunIsFirst
  <1>1. Init => OrderInv
    BY DEF Init, OrderInv, StartedRunIsFirst, Started, IsUnfinished, Unfinished, AbsentRun
  <1>2. TypeOK /\ RecordsInv /\ OrderInv /\ [Next]_storeVars => OrderInv'
    BY OrderInvariant
  <1>3. OrderInv => StartedRunIsFirst
    BY DEF OrderInv
  <1>4. QED
    BY <1>1, <1>2, <1>3, RecordsAlways, PTL DEF Spec

-----------------------------------------------------------------------------
(* The store implements the lifecycle table. *)

LifeFn == [r \in RunIds |-> LifeOf(r)]

LEMMA LifeType == TypeOK' => LifeFn' \in [RunIds -> Lifecycle!Life]
  BY DEF TypeOK, LifeFn, LifeOf, RunRecord, Lifecycle!Life, Lifecycle!Finished, Terminal,
         Unfinished

(* The identifier of a run that is not in the table is handed out only by  *)
(* the enqueue that puts a run there.                                      *)
LEMMA SeqStep ==
    ASSUME TypeOK, Next, NEW r \in RunIds
    PROVE  \/ next_seq' = next_seq
           \/ /\ next_seq' = next_seq + 1
              /\ r = next_seq => runs'[r].state = "Queued"
  <1>1. ASSUME NEW run \in NewRun, NEW at \in Nat, Enqueue(run, at)
        PROVE  /\ next_seq' = next_seq + 1
               /\ r = next_seq => runs'[r].state = "Queued"
    BY <1>1 DEF Enqueue, QueuedRun
  <1>2. QED
    BY <1>1, IndexUntouched DEF Prune

LEMMA LifeStep ==
    ASSUME TypeOK, TypeOK', Next, NEW r \in RunIds
    PROVE  LifeOf(r)' = LifeOf(r) \/ Lifecycle!Row(LifeOf(r), LifeOf(r)')
  <1> DEFINE a == LifeOf(r)
             b == LifeOf(r)'
             rec == runs[r]
             Good == b = a \/ Lifecycle!Row(a, b)
  <1> SUFFICES Good
    OBVIOUS
  <1> USE DEF Lifecycle!Row, Lifecycle!Moves, Lifecycle!SameAttempt, Lifecycle!SameEpoch,
              Lifecycle!Finished
  <1>0. /\ rec \in RunRecord
        /\ r \in Nat /\ next_seq \in Nat /\ next_seq' \in Nat
        /\ rec.attempt \in Nat /\ rec.lease_epoch \in Nat
    BY DEF TypeOK, RunIds, RunRecord
  <1>1. RunStep(r)
    BY EveryRunSteps
  <1>3. runs'[r].state = "Absent" => (r < next_seq <=> r < next_seq')
    BY <1>0, SeqStep
  <1>4. CASE runs'[r] = rec
    BY <1>3, <1>4 DEF LifeOf
  <1>5. ASSUME rec = AbsentRun, r = next_seq, NEW run \in NewRun, NEW at \in Nat,
               runs'[r] = QueuedRun(run, at)
        PROVE  Good
    BY <1>0, <1>5 DEF LifeOf, QueuedRun, AbsentRun, Lifecycle!Enqueued
  <1>6. ASSUME NEW at \in Nat, IsUnfinished(r), runs'[r] = Interrupted(rec, at)
        PROVE  Good
    <2>1. /\ runs'[r].state = IF rec.state = "Running" THEN "Running" ELSE "Cancelled"
          /\ runs'[r].attempt = rec.attempt
          /\ runs'[r].lease_epoch = rec.lease_epoch
      BY <1>0, <1>6 DEF Interrupted, Touch, ReleaseLease, RunRecord
    <2>2. QED
      BY <1>6, <2>1 DEF LifeOf, IsUnfinished, Unfinished, Lifecycle!CancelledUnheld
  <1>7. ASSUME NEW w \in Workers, NEW at \in Nat, Claimable(r, at),
               runs'[r] = ClaimedRun(rec, w, at)
        PROVE  Good
    <2>1. /\ runs'[r].state = "Running"
          /\ runs'[r].lease_epoch = rec.lease_epoch + 1
          /\ runs'[r].attempt = IF rec.state = "Waiting" THEN rec.attempt ELSE rec.attempt + 1
      BY <1>0, <1>7 DEF ClaimedRun, Touch, RunRecord
    <2>2. rec.state \in {"Queued", "Waiting", "Running"}
      BY <1>7 DEF Claimable, LeaseExpired
    <2>3. QED
      BY <2>1, <2>2 DEF LifeOf, Lifecycle!AttemptStarts, Lifecycle!Resumes
  <1>8. ASSUME NEW at \in Nat, Exhausted(r, at), runs'[r] = ExhaustedRun(rec, at)
        PROVE  Good
    <2>1. /\ runs'[r].state = "Failed"
          /\ runs'[r].attempt = rec.attempt
          /\ runs'[r].lease_epoch = rec.lease_epoch
      BY <1>0, <1>8 DEF ExhaustedRun, Touch, ReleaseLease, RunRecord
    <2>2. QED
      BY <1>8, <2>1 DEF LifeOf, Exhausted, LeaseExpired, Lifecycle!AttemptEnds
  <1>9. ASSUME NEW at \in Nat, NEW until \in OptTime, rec.state = "Running",
               runs'[r] = WaitingRun(rec, until, at)
        PROVE  Good
    <2>1. /\ runs'[r].state = "Waiting"
          /\ runs'[r].attempt = rec.attempt
          /\ runs'[r].lease_epoch = rec.lease_epoch
      BY <1>0, <1>9 DEF WaitingRun, Touch, ReleaseLease, RunRecord
    <2>2. QED
      BY <1>9, <2>1 DEF LifeOf, Lifecycle!AttemptEnds
  <1>10. ASSUME NEW at \in Nat, NEW outcome \in Outcomes, rec.state = "Running",
                runs'[r] = FinishedRun(rec, outcome, at)
         PROVE  Good
    <2>1. /\ runs'[r].state = OutcomeState(rec, outcome)
          /\ runs'[r].attempt = rec.attempt
          /\ runs'[r].lease_epoch = rec.lease_epoch
      BY <1>0, <1>10 DEF FinishedRun, Touch, ReleaseLease, RunRecord
    <2>2. OutcomeState(rec, outcome) \in {"Completed", "Failed", "Cancelled", "Queued"}
      BY DEF OutcomeState, Outcomes
    <2>3. QED
      BY <1>10, <2>1, <2>2 DEF LifeOf, Lifecycle!AttemptEnds
  <1>11. ASSUME NEW at \in Nat, rec.state \in {"Running", "Waiting"},
                \/ runs'[r] = Touch([rec EXCEPT !.lease_expires_at = at + Ttl], at)
                \/ \E c \in Checkpoints : runs'[r] = Touch([rec EXCEPT !.checkpoint = c], at)
                \/ runs'[r] = Touch([rec EXCEPT !.wake_pending = TRUE], at)
                \/ runs'[r] = Touch([rec EXCEPT !.cancel_requested = TRUE], at)
                \/ runs'[r] = Touch([rec EXCEPT !.not_before = at], at)
         PROVE  Good
    <2>1. /\ runs'[r].state = rec.state
          /\ runs'[r].attempt = rec.attempt
          /\ runs'[r].lease_epoch = rec.lease_epoch
      <3>1. CASE runs'[r] = Touch([rec EXCEPT !.lease_expires_at = at + Ttl], at)
        BY <1>0, <3>1 DEF Touch, RunRecord
      <3>2. CASE \E c \in Checkpoints : runs'[r] = Touch([rec EXCEPT !.checkpoint = c], at)
        BY <1>0, <3>2 DEF Touch, RunRecord
      <3>3. CASE runs'[r] = Touch([rec EXCEPT !.wake_pending = TRUE], at)
        BY <1>0, <3>3 DEF Touch, RunRecord
      <3>4. CASE runs'[r] = Touch([rec EXCEPT !.cancel_requested = TRUE], at)
        BY <1>0, <3>4 DEF Touch, RunRecord
      <3>5. CASE runs'[r] = Touch([rec EXCEPT !.not_before = at], at)
        BY <1>0, <3>5 DEF Touch, RunRecord
      <3>6. QED
        BY <1>11, <3>1, <3>2, <3>3, <3>4, <3>5
    <2>2. QED
      BY <1>11, <2>1 DEF LifeOf
  <1>12. ASSUME NEW at \in Nat, rec.state \in {"Queued", "Waiting"},
                runs'[r] = Touch(ReleaseLease([rec EXCEPT !.state = "Cancelled"]), at)
         PROVE  Good
    <2>1. /\ runs'[r].state = "Cancelled"
          /\ runs'[r].attempt = rec.attempt
          /\ runs'[r].lease_epoch = rec.lease_epoch
      BY <1>0, <1>12 DEF Touch, ReleaseLease, RunRecord
    <2>2. QED
      BY <1>12, <2>1 DEF LifeOf, Lifecycle!CancelledUnheld
  <1>13. ASSUME IsTerminal(r), runs'[r] = AbsentRun
         PROVE  Good
    <2>1. r < next_seq
      BY <1>0, <1>13 DEF TypeOK, IsTerminal, Terminal, AbsentRun
    <2>2. runs'[r].state = "Absent" /\ runs'[r].attempt = 0 /\ runs'[r].lease_epoch = 0
      BY <1>13 DEF AbsentRun
    <2>3. r < next_seq'
      BY <1>3, <2>1, <2>2
    <2>4. QED
      BY <1>13, <2>2, <2>3 DEF LifeOf, IsTerminal, Terminal, Lifecycle!PrunedAway
  <1> HIDE DEF Good
  <1>14. QED
    BY <1>1, <1>4, <1>5, <1>6, <1>7, <1>8, <1>9, <1>10, <1>11, <1>12, <1>13
       DEF RunStep

(* The store implements the lifecycle table of its documentation: every    *)
(* operation, whatever runs it touches at once, moves each of them along   *)
(* one row, and counts attempts and epochs as the row says.                *)
THEOREM StoreImplementsLifecycle == Spec => ImplementsLifecycle
  <1>1. Init => Lifecycle!Init
    BY RunStoreAssumption
       DEF Init, Lifecycle!Init, Lifecycle!NewLife, LifeOf, AbsentRun, RunIds
  <1>2. TypeOK /\ TypeOK' /\ [Next]_storeVars => [Lifecycle!Next]_LifeFn
    <2> SUFFICES ASSUME TypeOK, TypeOK', [Next]_storeVars
                 PROVE  [Lifecycle!Next]_LifeFn
      OBVIOUS
    <2>1. CASE UNCHANGED storeVars
      BY <2>1 DEF storeVars, LifeFn, LifeOf
    <2>2. CASE Next
      <3>1. LifeFn' \in [RunIds -> Lifecycle!Life]
        BY LifeType
      <3>2. \A r \in RunIds : LifeFn'[r] = LifeFn[r] \/ Lifecycle!Row(LifeFn[r], LifeFn'[r])
        BY <2>2, LifeStep DEF LifeFn
      <3>3. QED
        BY <3>1, <3>2 DEF Lifecycle!Next, LifeFn
    <2>3. QED
      BY <2>1, <2>2
  <1>3. QED
    BY <1>1, <1>2, TypeCorrect, PTL DEF Spec, ImplementsLifecycle, Lifecycle!Spec, LifeFn
=============================================================================
