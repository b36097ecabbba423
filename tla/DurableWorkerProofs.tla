------------------------- MODULE DurableWorkerProofs -------------------------
(***************************************************************************)
(* Proofs about DurableWorker.  What the store alone guarantees is proved  *)
(* in RunStoreProofs; here the slots and the sessions are added.           *)
(***************************************************************************)
EXTENDS DurableWorker, RunStoreProofs, FiniteSetTheorems

-----------------------------------------------------------------------------
(* The inductive invariant, in named parts.                                *)

(* The bounds of the clock and of the epochs, and what a run's record says *)
(* of them: nothing was written after now, and a checkpoint names no epoch *)
(* that no claim has returned.                                             *)
BoundsInv ==
    /\ now <= MaxTime
    /\ \A r \in RunIds :
          /\ runs[r].updated_at <= now
          /\ runs[r].lease_epoch <= MaxEpoch
          /\ runs[r].checkpoint # None
                => runs[r].checkpoint.invocation <= runs[r].lease_epoch
          /\ r >= next_seq => session[r] = <<>>

(* An attempt is on a run that was enqueued, under an epoch that a claim   *)
(* of that run returned.                                                   *)
SlotInv(s) ==
    /\ slot[s].until \in Deadlines
    /\ slot[s].claimed_at \in Deadlines
    /\ slot[s].pc # "Idle" =>
          /\ slot[s].run \in RunIds
          /\ slot[s].run < next_seq
          /\ slot[s].epoch \in 1 .. MaxEpoch
          /\ runs[slot[s].run].state # "Absent"
                => slot[s].epoch <= runs[slot[s].run].lease_epoch

SlotsInv == \A s \in Workers : SlotInv(s)

TypesInv == TypeOK /\ RecordsInv /\ WorkerTypeOK /\ BoundsInv /\ SlotsInv

-----------------------------------------------------------------------------
(* The values a slot takes. *)

Pcs == {"Idle", "Claiming"} \cup Working \cup Writing

SameAttempt(s) ==
    /\ slot[s].pc # "Idle" /\ slot'[s].pc # "Idle"
    /\ slot'[s].run = slot[s].run
    /\ slot'[s].epoch = slot[s].epoch
    /\ slot'[s].checkpoint = slot[s].checkpoint
    /\ slot'[s].claimed_at = slot[s].claimed_at

SameLease(s) ==
    /\ slot'[s].valid_until = slot[s].valid_until
    /\ slot'[s].beat = slot[s].beat

LEMMA DeadlinesType == Deadlines \subseteq OptTime
  BY RunStoreAssumption, WorkerAssumption DEF Deadlines, OptTime

LEMMA NowIsDeadline ==
    ASSUME TypeOK, BoundsInv
    PROVE  \A t \in 0 .. now : t \in Deadlines
  <1>1. CASE ApprovalTimeout = None
    BY <1>1, RunStoreAssumption DEF Deadlines, TypeOK, BoundsInv
  <1>2. CASE ApprovalTimeout # None
    BY <1>2, RunStoreAssumption, WorkerAssumption DEF Deadlines, TypeOK, BoundsInv
  <1>3. QED
    BY <1>1, <1>2

LEMMA IdleType == Idle \in Slot
  BY RunStoreAssumption
     DEF Idle, Slot, Epochs, Time, OptTime, UserTurns, Outcomes

(* At keeps every field but the two it sets. *)
LEMMA AtType ==
    ASSUME NEW s \in Workers, slot[s] \in Slot, NEW pc \in Pcs
    PROVE  /\ At(s, pc) \in Slot
           /\ At(s, pc).pc = pc
           /\ At(s, pc).run = slot[s].run
           /\ At(s, pc).epoch = slot[s].epoch
           /\ At(s, pc).checkpoint = slot[s].checkpoint
           /\ At(s, pc).claimed_at = slot[s].claimed_at
           /\ At(s, pc).valid_until = slot[s].valid_until
           /\ At(s, pc).beat = slot[s].beat
           /\ At(s, pc).until = slot[s].until
           /\ At(s, pc).cancel_requested = slot[s].cancel_requested
           /\ At(s, pc).turn = slot[s].turn
           /\ At(s, pc).outcome = slot[s].outcome
  BY DEF At, Slot, Time, Pcs

LEMMA EndWorkType ==
    ASSUME NEW s \in Workers, slot[s] \in Slot, NEW outcome \in Outcomes
    PROVE  /\ EndWork(s, outcome) \in Slot
           /\ EndWork(s, outcome).pc = "Finishing"
           /\ EndWork(s, outcome).run = slot[s].run
           /\ EndWork(s, outcome).epoch = slot[s].epoch
           /\ EndWork(s, outcome).checkpoint = slot[s].checkpoint
           /\ EndWork(s, outcome).claimed_at = slot[s].claimed_at
           /\ EndWork(s, outcome).until = slot[s].until
           /\ EndWork(s, outcome).beat = None
  <1> DEFINE at == At(s, "Finishing")
             o == IF slot[s].cancel_requested THEN "Cancelled" ELSE outcome
  <1>1. /\ at \in Slot
        /\ at.pc = "Finishing"
        /\ at.run = slot[s].run /\ at.epoch = slot[s].epoch
        /\ at.checkpoint = slot[s].checkpoint /\ at.claimed_at = slot[s].claimed_at
        /\ at.until = slot[s].until
    BY AtType DEF Pcs, Writing
  <1>2. o \in Outcomes
    BY DEF Outcomes
  <1>3. EndWork(s, outcome) = [at EXCEPT !.beat = None, !.outcome = o]
    BY DEF EndWork
  <1> HIDE DEF at, o
  <1>4. QED
    BY <1>1, <1>2, <1>3 DEF Slot, OptTime

LEMMA EndWorkWaitingType ==
    ASSUME NEW s \in Workers, slot[s] \in Slot, NEW pc \in Writing,
           NEW until \in OptTime
    PROVE  LET b == EndWorkWaiting(s, pc, until) IN
           /\ b \in Slot
           /\ b.pc \in Writing
           /\ b.run = slot[s].run /\ b.epoch = slot[s].epoch
           /\ b.checkpoint = slot[s].checkpoint
           /\ b.claimed_at = slot[s].claimed_at
           /\ b.until \in {slot[s].until, until}
           /\ b.beat = None
  <1> DEFINE at == At(s, pc)
             e == [at EXCEPT !.beat = None, !.until = until]
  <1>1. /\ at \in Slot
        /\ at.pc = pc
        /\ at.run = slot[s].run /\ at.epoch = slot[s].epoch
        /\ at.checkpoint = slot[s].checkpoint /\ at.claimed_at = slot[s].claimed_at
        /\ at.until = slot[s].until
    BY AtType DEF Pcs, Writing
  <1>2. CASE slot[s].cancel_requested
    BY <1>2, EndWorkType DEF EndWorkWaiting, Writing, Outcomes
  <1>3. CASE ~slot[s].cancel_requested
    <2>1. EndWorkWaiting(s, pc, until) = e
      BY <1>3 DEF EndWorkWaiting
    <2>2. /\ e \in Slot /\ e.pc = pc
          /\ e.run = slot[s].run /\ e.epoch = slot[s].epoch
          /\ e.checkpoint = slot[s].checkpoint /\ e.claimed_at = slot[s].claimed_at
          /\ e.until = until /\ e.beat = None
      <3> HIDE DEF at
      <3> QED BY <1>1 DEF Slot, OptTime
    <2>3. QED
      BY <2>1, <2>2
  <1>4. QED
    BY <1>2, <1>3

-----------------------------------------------------------------------------
(* What a step of slot s does to it, to the store and to the session, in   *)
(* the terms of the invariants: one operator for the steps with the same   *)
(* effect.                                                                 *)

OthersStay(s) == \A t \in Workers : t # s => slot'[t] = slot[t]

ClaimedSlot(r) ==
    [Idle EXCEPT !.pc = "Claiming", !.run = r,
                 !.epoch = runs'[r].lease_epoch, !.sent = now,
                 !.checkpoint = runs'[r].checkpoint,
                 !.claimed_at = runs'[r].updated_at]

Takes(s) ==
    /\ slot[s].pc = "Idle"
    /\ TurnsArePrompt
    /\ \E q \in Queues, r \in RunIds : Claim(q, s, r, now) /\ slot'[s] = ClaimedSlot(r)
    /\ session' = session

TakesNone ==
    /\ TurnsArePrompt
    /\ \E q \in Queues : ClaimNone(q, now)
    /\ slot' = slot /\ session' = session

(* The attempt is over: dropped, or its last write was sent. *)
Leaves(s) ==
    /\ slot[s].pc # "Idle"
    /\ slot'[s] = Idle
    /\ \/ StoreKept
       \/ slot[s].pc \in Working /\ Heartbeat(slot[s].run, slot[s].epoch, now)
       \/ /\ slot[s].pc \in Writing
          /\ \/ \E until \in Deadlines : Wait(slot[s].run, slot[s].epoch, until, now)
             \/ \E outcome \in Outcomes : Finish(slot[s].run, slot[s].epoch, outcome, now)
    /\ session' = session

Returns(s) ==
    /\ SameAttempt(s)
    /\ slot[s].pc = "Claiming" /\ slot'[s].pc \in {"HandingBack", "Preparing"}
    /\ slot'[s].valid_until = now + Ttl /\ slot'[s].beat = slot[s].beat
    /\ StoreKept /\ session' = session

Beats(s) ==
    /\ SameAttempt(s)
    /\ slot[s].pc \in Working /\ slot'[s].pc = slot[s].pc
    /\ slot'[s].valid_until = slot[s].valid_until
    /\ slot'[s].beat \in {now, None}
    /\ StoreKept \/ Heartbeat(slot[s].run, slot[s].epoch, now)
    /\ session' = session

Renews(s) ==
    /\ SameAttempt(s)
    /\ slot[s].pc \in Working /\ slot'[s].pc = slot[s].pc
    /\ slot[s].beat # None
    /\ slot'[s].valid_until = slot[s].beat + Ttl /\ slot'[s].beat = None
    /\ Heartbeat(slot[s].run, slot[s].epoch, now)
    /\ session' = session

Starts(s) ==
    /\ SameAttempt(s)
    /\ slot[s].pc = "Preparing" /\ slot'[s].pc = "Starting"
    /\ Prepared(session[slot[s].run], slot[s].checkpoint) # "Done"
    /\ SameLease(s)
    /\ StoreKept /\ session' = session

Records(s) ==
    /\ SameAttempt(s)
    /\ slot[s].pc = "Starting" /\ slot'[s].pc = "Polling"
    /\ SameLease(s)
    /\ SetCheckpoint(slot[s].run, slot[s].epoch,
                     CheckpointRef("Session", slot[s].epoch, None), now)
    /\ session' = session

(* The work is over: what is left is a write. *)
Stops(s) ==
    /\ SameAttempt(s)
    /\ slot[s].pc \in Working /\ slot'[s].pc \in Writing
    /\ slot'[s].beat = None
    /\ StoreKept /\ session' = session

Holds(s) ==
    /\ SameAttempt(s)
    /\ slot[s].pc = "Ended" /\ slot'[s].pc \in Writing
    /\ slot'[s].beat = None
    /\ HoldsCall(s)
    /\ \E t \in Deadlines :
          SetCheckpoint(slot[s].run, slot[s].epoch,
                        CheckpointRef("AwaitingApproval", slot[s].epoch, t), now)
    /\ session' = session

Says(s, kind) ==
    /\ SameAttempt(s)
    /\ SameLease(s)
    /\ Append1(slot[s].run, slot[s].epoch, kind)
    /\ StoreKept

Persists(s) ==
    /\ slot[s].pc = "Polling" /\ slot'[s].pc = "Running"
    /\ \E kind \in UserTurns : Says(s, kind)

Produces(s) ==
    /\ slot[s].pc = "Running" /\ IsValid(s)
    /\ \E kind \in AgentEvents :
          /\ slot'[s].pc = IF kind = "Call" THEN "Running" ELSE "Ended"
          /\ Says(s, kind)

Moves(s) ==
    \/ Takes(s) \/ Leaves(s) \/ Returns(s) \/ Beats(s) \/ Renews(s)
    \/ Starts(s) \/ Records(s) \/ Stops(s) \/ Holds(s) \/ Persists(s) \/ Produces(s)

(* Between them, the steps of a slot do nothing else. *)
WellPlaced(s) ==
    /\ OthersStay(s)
    /\ slot' \in [Workers -> Slot]
    /\ slot'[s].until \in Deadlines /\ slot'[s].claimed_at \in Deadlines

LEMMA BecomePlaced ==
    ASSUME WorkerTypeOK, NEW s \in Workers, NEW b \in Slot, Become(s, b),
           b.until \in Deadlines, b.claimed_at \in Deadlines
    PROVE  WellPlaced(s) /\ slot'[s] = b
  BY DEF Become, WellPlaced, OthersStay, WorkerTypeOK

LEMMA DropPlaced ==
    ASSUME TypesInv, NEW s \in Workers, Drop(s)
    PROVE  WellPlaced(s) /\ slot'[s] = Idle
  <1>1. Idle.until \in Deadlines /\ Idle.claimed_at \in Deadlines
    <2>1. 0 \in 0 .. now
      BY DEF TypesInv, TypeOK
    <2>2. QED
      BY <2>1, NowIsDeadline DEF TypesInv, Idle, Deadlines
  <1>2. QED
    BY <1>1, IdleType, BecomePlaced DEF TypesInv, Drop, Become

LEMMA SlotHere ==
    ASSUME TypesInv, NEW s \in Workers
    PROVE  /\ slot[s] \in Slot
           /\ slot[s].until \in Deadlines /\ slot[s].claimed_at \in Deadlines
           /\ slot[s].pc # "Idle" =>
                 /\ slot[s].run \in RunIds
                 /\ slot[s].epoch \in 1 .. MaxEpoch
           /\ now \in Nat /\ now <= MaxTime
  BY DEF TypesInv, WorkerTypeOK, SlotsInv, SlotInv, BoundsInv, TypeOK

LEMMA SendClaimMoves ==
    ASSUME TypesInv, NEW s \in Workers, SendClaim(s)
    PROVE  Moves(s) /\ WellPlaced(s)
  <1>1. PICK q \in Queues, r \in RunIds : Claim(q, s, r, now) /\ Become(s, ClaimedSlot(r))
    BY DEF SendClaim, ClaimedSlot
  <1>2. runs'[r] = ClaimedRun(runs[r], s, now)
    BY <1>1 DEF Claim
  <1>3. /\ runs'[r].lease_epoch = runs[r].lease_epoch + 1
        /\ runs'[r].updated_at = now
        /\ runs'[r].checkpoint = runs[r].checkpoint
    <2>1. runs[r] \in RunRecord
      BY DEF TypesInv, TypeOK
    <2>2. QED
      BY <1>2, <2>1 DEF ClaimedRun, Touch, RunRecord
  <1>4. /\ runs'[r].lease_epoch \in Epochs
        /\ runs'[r].checkpoint \in Checkpoints \cup {None}
        /\ now \in Nat /\ now \in Deadlines
    <2>1. runs[r].lease_epoch < MaxEpoch /\ runs[r] \in RunRecord
      BY <1>1 DEF Claim, TypesInv, TypeOK
    <2>2. now \in Nat /\ now \in 0 .. now
      BY DEF TypesInv, TypeOK
    <2>3. now \in Deadlines
      BY <2>2, NowIsDeadline DEF TypesInv
    <2>4. QED
      BY <1>3, <2>1, <2>2, <2>3, RunStoreAssumption DEF RunRecord, Epochs
  <1>5. ClaimedSlot(r) \in Slot /\ ClaimedSlot(r).claimed_at = now
    <2> DEFINE e == runs'[r].lease_epoch
               c == runs'[r].checkpoint
               u == runs'[r].updated_at
    <2>1. e \in Epochs /\ c \in Checkpoints \cup {None} /\ u = now
      BY <1>3, <1>4
    <2>2. ClaimedSlot(r) = [Idle EXCEPT !.pc = "Claiming", !.run = r, !.epoch = e,
                                        !.sent = now, !.checkpoint = c, !.claimed_at = u]
      BY DEF ClaimedSlot
    <2> HIDE DEF e, c, u
    <2>3. "Claiming" \in {"Idle", "Claiming"} \cup Working \cup Writing
            /\ r \in RunIds \cup {None} /\ now \in Time
      BY <1>4 DEF Time
    <2>4. ClaimedSlot(r) \in Slot
      <3> DEFINE claimed ==
                   [pc |-> "Claiming", run |-> r, epoch |-> e, sent |-> now,
                    checkpoint |-> c, claimed_at |-> u, valid_until |-> 0,
                    cancel_requested |-> FALSE, beat |-> None, turn |-> "Input",
                    until |-> None, outcome |-> "Completed"]
      <3>1. ClaimedSlot(r) = claimed
        BY <2>2, ZenonT(60) DEF Idle
      <3>2. claimed \in Slot
        BY <2>1, <2>3 DEF Slot, Time, OptTime, UserTurns, Outcomes
      <3>3. QED
        BY <3>1, <3>2
    <2>5. ClaimedSlot(r).claimed_at = now
      BY <2>1, <2>2 DEF Idle
    <2>6. QED
      BY <2>4, <2>5
  <1>6. ClaimedSlot(r).until = None
    BY DEF ClaimedSlot, Idle
  <1>7. WellPlaced(s) /\ slot'[s] = ClaimedSlot(r)
    BY <1>1, <1>4, <1>5, <1>6, BecomePlaced DEF Deadlines, TypesInv
  <1>8. QED
    BY <1>1, <1>7 DEF SendClaim, Rest, Moves, Takes

LEMMA ClaimReturnsMoves ==
    ASSUME TypesInv, NEW s \in Workers, ClaimReturns(s)
    PROVE  Moves(s) /\ WellPlaced(s)
  <1>1. PICK pc \in {"HandingBack", "Preparing"} :
            Become(s, [At(s, pc) EXCEPT !.valid_until = now + Ttl])
    BY DEF ClaimReturns
  <1> DEFINE at == At(s, pc)
             b == [at EXCEPT !.valid_until = now + Ttl]
  <1>2. /\ at \in Slot /\ at.pc = pc /\ at.run = slot[s].run /\ at.epoch = slot[s].epoch
        /\ at.checkpoint = slot[s].checkpoint /\ at.claimed_at = slot[s].claimed_at
        /\ at.beat = slot[s].beat /\ at.until = slot[s].until
    BY SlotHere, AtType DEF Pcs, Working, Writing
  <1>3. now + Ttl \in Nat
    BY SlotHere, RunStoreAssumption
  <1>4. /\ b \in Slot /\ b.pc = pc /\ b.run = slot[s].run /\ b.epoch = slot[s].epoch
        /\ b.checkpoint = slot[s].checkpoint /\ b.claimed_at = slot[s].claimed_at
        /\ b.beat = slot[s].beat /\ b.until = slot[s].until
        /\ b.valid_until = now + Ttl
    <2> HIDE DEF at
    <2> QED BY <1>2, <1>3 DEF Slot, Time
  <1>5. WellPlaced(s) /\ slot'[s] = b
    <2> HIDE DEF b
    <2> QED BY <1>1, <1>4, SlotHere, BecomePlaced DEF TypesInv, b
  <1> HIDE DEF b
  <1>6. Returns(s)
    BY <1>4, <1>5 DEF ClaimReturns, Returns, SameAttempt, Rest
  <1>7. QED
    BY <1>5, <1>6 DEF Moves

LEMMA SendHeartbeatMoves ==
    ASSUME TypesInv, NEW s \in Workers, SendHeartbeat(s)
    PROVE  Moves(s) /\ WellPlaced(s)
  <1> DEFINE b == [slot[s] EXCEPT !.beat = now]
  <1>1. /\ b \in Slot /\ b.pc = slot[s].pc /\ b.run = slot[s].run
        /\ b.epoch = slot[s].epoch /\ b.checkpoint = slot[s].checkpoint
        /\ b.claimed_at = slot[s].claimed_at /\ b.valid_until = slot[s].valid_until
        /\ b.beat = now /\ b.until = slot[s].until
    BY SlotHere DEF Slot, OptTime
  <1>2. WellPlaced(s) /\ slot'[s] = b
    <2> HIDE DEF b
    <2> QED BY <1>1, SlotHere, BecomePlaced DEF TypesInv, SendHeartbeat, b
  <1> HIDE DEF b
  <1>3. Beats(s)
    BY <1>1, <1>2 DEF SendHeartbeat, Beats, SameAttempt, Rest, Working
  <1>4. QED
    BY <1>2, <1>3 DEF Moves

LEMMA HeartbeatAnsweredMoves ==
    ASSUME TypesInv, NEW s \in Workers, HeartbeatAnswered(s)
    PROVE  Moves(s) /\ WellPlaced(s)
  <1> DEFINE v == slot[s].beat + Ttl
             c == slot[s].cancel_requested \/ runs[slot[s].run].cancel_requested
             b == [slot[s] EXCEPT !.beat = None, !.valid_until = v, !.cancel_requested = c]
  <1>1. v \in Nat
    BY SlotHere, RunStoreAssumption DEF HeartbeatAnswered, Slot, OptTime
  <1>2. c \in BOOLEAN
    OBVIOUS
  <1>3. /\ b \in Slot /\ b.pc = slot[s].pc /\ b.run = slot[s].run
        /\ b.epoch = slot[s].epoch /\ b.checkpoint = slot[s].checkpoint
        /\ b.claimed_at = slot[s].claimed_at /\ b.valid_until = v
        /\ b.beat = None /\ b.until = slot[s].until
    <2> HIDE DEF v, c
    <2> QED BY <1>1, <1>2, SlotHere DEF Slot, OptTime, Time
  <1>4. Become(s, b)
    BY DEF HeartbeatAnswered
  <1> HIDE DEF b
  <1>5. WellPlaced(s) /\ slot'[s] = b
    BY <1>3, <1>4, SlotHere, BecomePlaced DEF TypesInv
  <1>6. Renews(s)
    BY <1>3, <1>5 DEF HeartbeatAnswered, Renews, SameAttempt, Rest, Working
  <1>7. QED
    BY <1>5, <1>6 DEF Moves

LEMMA HeartbeatFailsMoves ==
    ASSUME TypesInv, NEW s \in Workers, HeartbeatFails(s)
    PROVE  Moves(s) /\ WellPlaced(s)
  <1>1. CASE IsValid(s)
    <2> DEFINE b == [slot[s] EXCEPT !.beat = None]
    <2>1. /\ b \in Slot /\ b.pc = slot[s].pc /\ b.run = slot[s].run
          /\ b.epoch = slot[s].epoch /\ b.checkpoint = slot[s].checkpoint
          /\ b.claimed_at = slot[s].claimed_at /\ b.valid_until = slot[s].valid_until
          /\ b.beat = None /\ b.until = slot[s].until
      BY SlotHere DEF Slot, OptTime
    <2>2. Become(s, b)
      BY <1>1 DEF HeartbeatFails
    <2> HIDE DEF b
    <2>3. WellPlaced(s) /\ slot'[s] = b
      BY <2>1, <2>2, SlotHere, BecomePlaced DEF TypesInv
    <2>4. Beats(s)
      BY <2>1, <2>3 DEF HeartbeatFails, Beats, SameAttempt, Rest, Working
    <2>5. QED
      BY <2>3, <2>4 DEF Moves
  <1>2. CASE ~IsValid(s)
    <2>1. WellPlaced(s) /\ slot'[s] = Idle
      BY <1>2, DropPlaced DEF HeartbeatFails
    <2>2. Leaves(s)
      BY <2>1 DEF HeartbeatFails, Leaves, Rest, Working
    <2>3. QED
      BY <2>1, <2>2 DEF Moves
  <1>3. QED
    BY <1>1, <1>2

(* The steps that drop the attempt without a write. *)
LEMMA DropMoves ==
    ASSUME TypesInv, NEW s \in Workers, slot[s].pc # "Idle", Drop(s), StoreKept, Rest
    PROVE  Moves(s) /\ WellPlaced(s)
  BY DropPlaced DEF Moves, Leaves, Rest

(* The steps that end the work, and leave a write to do. *)
LEMMA StopMoves ==
    ASSUME TypesInv, NEW s \in Workers, slot[s].pc \in Working, StoreKept, Rest,
           \/ \E outcome \in Outcomes : Become(s, EndWork(s, outcome))
           \/ \E pc \in Writing, until \in Deadlines :
                  Become(s, EndWorkWaiting(s, pc, until))
    PROVE  Moves(s) /\ WellPlaced(s)
  <1>1. slot[s] \in Slot /\ slot[s].until \in Deadlines /\ slot[s].claimed_at \in Deadlines
    BY SlotHere
  <1>2. PICK b : /\ Become(s, b) /\ b \in Slot /\ b.pc \in Writing
                 /\ b.run = slot[s].run /\ b.epoch = slot[s].epoch
                 /\ b.checkpoint = slot[s].checkpoint
                 /\ b.claimed_at = slot[s].claimed_at
                 /\ b.until \in Deadlines /\ b.beat = None
    <2>1. CASE \E outcome \in Outcomes : Become(s, EndWork(s, outcome))
      BY <1>1, <2>1, EndWorkType DEF Writing
    <2>2. ASSUME NEW pc \in Writing, NEW until \in Deadlines,
                 Become(s, EndWorkWaiting(s, pc, until))
          PROVE  \E b : /\ Become(s, b) /\ b \in Slot /\ b.pc \in Writing
                        /\ b.run = slot[s].run /\ b.epoch = slot[s].epoch
                        /\ b.checkpoint = slot[s].checkpoint
                        /\ b.claimed_at = slot[s].claimed_at
                        /\ b.until \in Deadlines /\ b.beat = None
      <3>1. until \in OptTime
        BY DeadlinesType
      <3>2. QED
        BY <1>1, <2>2, <3>1, EndWorkWaitingType
    <2>3. QED
      BY <2>1, <2>2
  <1>3. WellPlaced(s) /\ slot'[s] = b
    BY <1>1, <1>2, BecomePlaced DEF TypesInv
  <1>4. Stops(s)
    BY <1>2, <1>3 DEF Stops, SameAttempt, Working, Writing, Rest
  <1>5. QED
    BY <1>3, <1>4 DEF Moves

LEMMA PrepareMoves ==
    ASSUME TypesInv, NEW s \in Workers, Prepare(s)
    PROVE  Moves(s) /\ WellPlaced(s)
  <1> DEFINE prepared == Prepared(session[slot[s].run], slot[s].checkpoint)
             turn == IF prepared = "Start" THEN "Input" ELSE "Empty"
             at == At(s, "Starting")
             b == [at EXCEPT !.turn = turn]
  <1>1. CASE prepared = "Done"
    <2>1. Become(s, EndWork(s, "Completed"))
      BY <1>1 DEF Prepare
    <2>2. "Completed" \in Outcomes
      BY DEF Outcomes
    <2>3. slot[s].pc \in Working /\ StoreKept /\ Rest
      BY DEF Prepare, Working
    <2>4. QED
      BY <2>1, <2>2, <2>3, StopMoves
  <1>2. CASE prepared # "Done"
    <2>1. Become(s, b)
      BY <1>2 DEF Prepare
    <2>2. /\ at \in Slot /\ at.pc = "Starting" /\ at.run = slot[s].run
          /\ at.epoch = slot[s].epoch
          /\ at.checkpoint = slot[s].checkpoint /\ at.claimed_at = slot[s].claimed_at
          /\ at.beat = slot[s].beat /\ at.until = slot[s].until
          /\ at.valid_until = slot[s].valid_until
      BY SlotHere, AtType DEF Pcs, Working
    <2>3. turn \in UserTurns
      BY DEF UserTurns
    <2>4. /\ b \in Slot /\ b.pc = "Starting" /\ b.run = slot[s].run
          /\ b.epoch = slot[s].epoch
          /\ b.checkpoint = slot[s].checkpoint /\ b.claimed_at = slot[s].claimed_at
          /\ b.beat = slot[s].beat /\ b.until = slot[s].until
          /\ b.valid_until = slot[s].valid_until
      <3> HIDE DEF at, turn
      <3> QED BY <2>2, <2>3 DEF Slot
    <2> HIDE DEF b
    <2>5. WellPlaced(s) /\ slot'[s] = b
      BY <2>1, <2>4, SlotHere, BecomePlaced DEF TypesInv
    <2>6. Starts(s)
      BY <1>2, <2>4, <2>5 DEF Prepare, Starts, SameAttempt, SameLease, Rest
    <2>7. QED
      BY <2>5, <2>6 DEF Moves
  <1>3. QED
    BY <1>1, <1>2

(* The steps that only set pc. *)
LEMMA AtPlaced ==
    ASSUME TypesInv, NEW s \in Workers, slot[s].pc # "Idle", NEW pc \in Pcs \ {"Idle"},
           \/ Become(s, At(s, pc))
           \/ Become(s, [At(s, pc) EXCEPT !.turn = "Input"])
    PROVE  WellPlaced(s) /\ SameAttempt(s) /\ SameLease(s) /\ slot'[s].pc = pc
  <1> DEFINE at == At(s, pc)
             b == [at EXCEPT !.turn = "Input"]
  <1>1. /\ at \in Slot /\ at.pc = pc /\ at.run = slot[s].run
        /\ at.epoch = slot[s].epoch
        /\ at.checkpoint = slot[s].checkpoint /\ at.claimed_at = slot[s].claimed_at
        /\ at.beat = slot[s].beat /\ at.until = slot[s].until
        /\ at.valid_until = slot[s].valid_until
    BY SlotHere, AtType
  <1> HIDE DEF at
  <1>2. /\ b \in Slot /\ b.pc = pc /\ b.run = slot[s].run
        /\ b.epoch = slot[s].epoch
        /\ b.checkpoint = slot[s].checkpoint /\ b.claimed_at = slot[s].claimed_at
        /\ b.beat = slot[s].beat /\ b.until = slot[s].until
        /\ b.valid_until = slot[s].valid_until
    BY <1>1 DEF Slot, UserTurns
  <1>3. Become(s, at) \/ Become(s, b)
    BY DEF at
  <1> HIDE DEF b
  <1>4. CASE Become(s, at)
    BY <1>1, <1>4, SlotHere, BecomePlaced DEF TypesInv, SameAttempt, SameLease
  <1>5. CASE Become(s, b)
    BY <1>2, <1>5, SlotHere, BecomePlaced DEF TypesInv, SameAttempt, SameLease
  <1>6. QED
    BY <1>3, <1>4, <1>5

LEMMA RecordCheckpointMoves ==
    ASSUME TypesInv, NEW s \in Workers, RecordCheckpoint(s)
    PROVE  Moves(s) /\ WellPlaced(s)
  <1>1. CASE Drop(s) /\ StoreKept
    BY <1>1, DropMoves DEF RecordCheckpoint
  <1>2. CASE /\ SetCheckpoint(slot[s].run, slot[s].epoch,
                              CheckpointRef("Session", slot[s].epoch, None), now)
             /\ Become(s, At(s, "Polling"))
    <2>1. WellPlaced(s) /\ SameAttempt(s) /\ SameLease(s) /\ slot'[s].pc = "Polling"
      BY <1>2, AtPlaced DEF RecordCheckpoint, Pcs, Working
    <2>2. Records(s)
      BY <1>2, <2>1 DEF RecordCheckpoint, Records, Rest
    <2>3. QED
      BY <2>1, <2>2 DEF Moves
  <1>3. QED
    BY <1>1, <1>2 DEF RecordCheckpoint

LEMMA PersistTurnMoves ==
    ASSUME TypesInv, NEW s \in Workers, PersistTurn(s)
    PROVE  Moves(s) /\ WellPlaced(s)
  <1>1. WellPlaced(s) /\ SameAttempt(s) /\ SameLease(s) /\ slot'[s].pc = "Running"
    BY AtPlaced DEF PersistTurn, Pcs, Working
  <1>2. slot[s].turn \in UserTurns
    BY SlotHere DEF Slot
  <1>3. Persists(s)
    BY <1>1, <1>2 DEF PersistTurn, Persists, Says
  <1>4. QED
    BY <1>1, <1>3 DEF Moves

LEMMA AgentStepMoves ==
    ASSUME TypesInv, NEW s \in Workers, NEW kind \in AgentEvents, AgentStep(s, kind)
    PROVE  Moves(s) /\ WellPlaced(s)
  <1> DEFINE pc == IF kind = "Call" THEN "Running" ELSE "Ended"
  <1>1. WellPlaced(s) /\ SameAttempt(s) /\ SameLease(s) /\ slot'[s].pc = pc
    <2>1. pc \in Pcs \ {"Idle"} /\ Become(s, At(s, pc)) /\ slot[s].pc # "Idle"
      BY DEF AgentStep, Pcs, Working
    <2> HIDE DEF pc
    <2>2. QED
      BY <2>1, AtPlaced
  <1>2. Produces(s)
    BY <1>1 DEF AgentStep, Produces, Says
  <1>3. QED
    BY <1>1, <1>2 DEF Moves

LEMMA HoldUntilType ==
    ASSUME TypesInv, NEW s \in Workers
    PROVE  HoldUntil(s) \in Deadlines
  <1>1. CASE HeldBefore(s)
    <2>1. slot[s].checkpoint \in WorkerCheckpoints
      BY <1>1, SlotHere, WorkerCallsAssumption DEF HeldBefore, Slot
    <2>2. slot[s].checkpoint.expires_at \in Deadlines
      BY <2>1 DEF WorkerCheckpoints, CheckpointRef
    <2>3. QED
      BY <1>1, <2>2 DEF HoldUntil
  <1>2. CASE ~HeldBefore(s) /\ ApprovalTimeout = None
    BY <1>2 DEF HoldUntil, Deadlines
  <1>3. CASE ~HeldBefore(s) /\ ApprovalTimeout # None
    <2>1. HoldUntil(s) = now + ApprovalTimeout /\ ApprovalTimeout \in Nat
      BY <1>3, WorkerAssumption DEF HoldUntil
    <2>2. now + ApprovalTimeout \in 0 .. MaxTime + ApprovalTimeout
      BY <2>1, SlotHere, RunStoreAssumption
    <2>3. QED
      BY <1>3, <2>1, <2>2 DEF Deadlines
  <1>4. QED
    BY <1>1, <1>2, <1>3

LEMMA HoldForApprovalMoves ==
    ASSUME TypesInv, NEW s \in Workers, HoldForApproval(s)
    PROVE  Moves(s) /\ WellPlaced(s)
  <1>1. CASE Drop(s) /\ StoreKept
    BY <1>1, DropMoves DEF HoldForApproval
  <1>2. CASE /\ SetCheckpoint(slot[s].run, slot[s].epoch,
                     CheckpointRef("AwaitingApproval", slot[s].epoch, HoldUntil(s)), now)
             /\ Become(s, EndWorkWaiting(s, "Parking", HoldUntil(s)))
    <2> DEFINE b == EndWorkWaiting(s, "Parking", HoldUntil(s))
    <2>1. HoldUntil(s) \in Deadlines /\ HoldUntil(s) \in OptTime
      BY HoldUntilType, DeadlinesType
    <2>2. /\ b \in Slot /\ b.pc \in Writing
          /\ b.run = slot[s].run /\ b.epoch = slot[s].epoch
          /\ b.checkpoint = slot[s].checkpoint /\ b.claimed_at = slot[s].claimed_at
          /\ b.until \in {slot[s].until, HoldUntil(s)} /\ b.beat = None
      BY <2>1, SlotHere, EndWorkWaitingType DEF Writing
    <2> HIDE DEF b
    <2>3. WellPlaced(s) /\ slot'[s] = b
      BY <1>2, <2>1, <2>2, SlotHere, BecomePlaced DEF TypesInv, b
    <2>4. Holds(s)
      <3>1. SameAttempt(s)
        BY <2>2, <2>3 DEF HoldForApproval, SameAttempt, Writing
      <3>2. QED
        BY <1>2, <2>1, <2>2, <2>3, <3>1 DEF HoldForApproval, Holds, Rest
    <2>5. QED
      BY <2>3, <2>4 DEF Moves
  <1>3. QED
    BY <1>1, <1>2 DEF HoldForApproval

(* The writes that end an attempt. *)
LEMMA EndAttemptMoves ==
    ASSUME TypesInv, NEW s \in Workers, HandBack(s) \/ Park(s) \/ WriteOutcome(s)
    PROVE  Moves(s) /\ WellPlaced(s)
  <1>1. /\ slot[s].until \in Deadlines /\ slot[s].claimed_at \in Deadlines
        /\ slot[s].outcome \in Outcomes
    BY SlotHere DEF Slot
  <1>2. WellPlaced(s) /\ slot'[s] = Idle
    BY DropPlaced DEF HandBack, Park, WriteOutcome, EndAttempt
  <1>3. CASE HandBack(s)
    BY <1>1, <1>2, <1>3 DEF HandBack, EndAttempt, Moves, Leaves, Writing, Rest
  <1>4. CASE Park(s)
    BY <1>1, <1>2, <1>4 DEF Park, EndAttempt, Moves, Leaves, Writing, Rest
  <1>5. CASE WriteOutcome(s)
    BY <1>1, <1>2, <1>5 DEF WriteOutcome, EndAttempt, Moves, Leaves, Writing, Rest
  <1>6. QED
    BY <1>3, <1>4, <1>5

(* Every step of a slot is one of the moves. *)
LEMMA SlotMoves ==
    ASSUME TypesInv, NEW s \in Workers, SlotStep(s)
    PROVE  TakesNone \/ (Moves(s) /\ WellPlaced(s))
  <1> DEFINE Good == Moves(s) /\ WellPlaced(s)
  <1>1. ClaimNothing(s) => TakesNone
    BY DEF ClaimNothing, TakesNone, workerVars
  <1>2. HeartbeatRefused(s) \/ FenceDrops(s) \/ Crash(s) => Good
    BY DropMoves DEF HeartbeatRefused, FenceDrops, Crash, Working
  <1>3. Refused(s) => Good
    <2> SUFFICES ASSUME Refused(s) PROVE Good
      OBVIOUS
    <2>1. None \in Deadlines /\ "HandingBack" \in Writing /\ slot[s].pc \in Working
      BY DEF Deadlines, Writing, Working, Refused
    <2>2. QED
      BY <2>1, StopMoves DEF Refused
  <1>4. ASSUME NEW outcome \in {"Failed", "Retryable"}, Fail(s, outcome)
        PROVE  Good
    BY <1>4, StopMoves DEF Fail, Outcomes
  <1>5. Interrupt(s) \/ Answered(s) \/ HoldExpires(s) => Good
    BY StopMoves DEF Interrupt, Answered, HoldExpires, Outcomes, Working
  <1>6. QED
    BY <1>1, <1>2, <1>3, <1>4, <1>5, SendClaimMoves, ClaimReturnsMoves, SendHeartbeatMoves,
       HeartbeatAnsweredMoves, HeartbeatFailsMoves, PrepareMoves, RecordCheckpointMoves,
       PersistTurnMoves, AgentStepMoves, HoldForApprovalMoves, EndAttemptMoves
       DEF SlotStep

-----------------------------------------------------------------------------
(* The workers use the store as its clients and workers may: the actions   *)
(* of the composition are those of the store, at the present time.         *)

(* The steps that leave the slots and the sessions alone. *)
Outside == PruneFinished \/ Submit \/ Cancel \/ WakeDecided \/ Toggle
             \/ (\E r \in RunIds : Decide(r)) \/ WorkerTick

LEMMA OutsideKeepsSlots == Outside => slot' = slot /\ session' = session
  BY DEF Outside, PruneFinished, Submit, Cancel, WakeDecided, Toggle, Decide, WorkerTick,
         workerVars

LEMMA WorkerCases ==
    ASSUME TypesInv, WorkerNext
    PROVE  \/ \E s \in Workers : Moves(s) /\ WellPlaced(s)
           \/ TakesNone
           \/ Outside
  BY SlotMoves DEF WorkerNext, Outside

LEMMA CheckpointRefType ==
    ASSUME NEW kind \in {"Session", "AwaitingApproval"}, NEW e \in 1 .. MaxEpoch,
           NEW t \in Deadlines
    PROVE  CheckpointRef(kind, e, t) \in Checkpoints
  BY WorkerCallsAssumption DEF WorkerCheckpoints

LEMMA NowIsRead == TypesInv => now \in ClockReads
  BY RunStoreAssumption DEF TypesInv, TypeOK, ClockReads

(* A fenced write carries the epoch of the record. *)
LEMMA FencedWrite ==
    ASSUME TypesInv, NEW s \in Workers, slot[s].pc # "Idle",
           \/ Heartbeat(slot[s].run, slot[s].epoch, now)
           \/ \E kind \in {"Session", "AwaitingApproval"}, t \in Deadlines :
                  SetCheckpoint(slot[s].run, slot[s].epoch,
                                CheckpointRef(kind, slot[s].epoch, t), now)
           \/ \E until \in Deadlines : Wait(slot[s].run, slot[s].epoch, until, now)
           \/ \E outcome \in Outcomes : Finish(slot[s].run, slot[s].epoch, outcome, now)
    PROVE  Next /\ Owns(s)
  <1> DEFINE r == slot[s].run
             e == runs[r].lease_epoch
  <1>1. r \in RunIds /\ slot[s].epoch \in 1 .. MaxEpoch /\ now \in ClockReads
    BY SlotHere, NowIsRead
  <1>2. Owns(s) /\ slot[s].epoch = e
    BY DEF Heartbeat, SetCheckpoint, Wait, Finish, Fenced, Owns
  <1>3. WorkerWrite
    <2>1. \A kind \in {"Session", "AwaitingApproval"}, t \in Deadlines :
              CheckpointRef(kind, slot[s].epoch, t) \in Checkpoints
      BY <1>1, CheckpointRefType
    <2>2. ParkTimes = Deadlines
      BY WorkerCallsAssumption
    <2>3. \/ Heartbeat(r, e, now)
          \/ \E c \in Checkpoints : SetCheckpoint(r, e, c, now)
          \/ \E until \in ParkTimes : Wait(r, e, until, now)
          \/ \E outcome \in Outcomes : Finish(r, e, outcome, now)
      BY <1>2, <2>1, <2>2
    <2>4. QED
      BY <1>1, <2>3 DEF WorkerWrite
  <1>4. QED
    BY <1>2, <1>3 DEF Next

LEMMA MoveIsStoreStep ==
    ASSUME TypesInv, NEW s \in Workers, Moves(s)
    PROVE  [Next]_storeVars
  <1>1. StoreKept => UNCHANGED storeVars
    BY DEF StoreKept, storeVars
  <1>2. CASE Takes(s)
    BY <1>2, NowIsRead DEF Takes, Next
  <1>3. CASE Leaves(s)
    BY <1>1, <1>3, FencedWrite DEF Leaves
  <1>4. CASE Beats(s) \/ Renews(s)
    BY <1>1, <1>4, FencedWrite DEF Beats, Renews, SameAttempt
  <1>5. CASE Records(s) \/ Holds(s)
    <2>1. None \in Deadlines
      BY DEF Deadlines
    <2>2. QED
      BY <1>5, <2>1, FencedWrite DEF Records, Holds, SameAttempt
  <1>6. CASE Returns(s) \/ Starts(s) \/ Stops(s) \/ Persists(s) \/ Produces(s)
    BY <1>1, <1>6 DEF Returns, Starts, Stops, Persists, Produces, Says
  <1>7. QED
    BY <1>2, <1>3, <1>4, <1>5, <1>6 DEF Moves

LEMMA OutsideIsStoreStep ==
    ASSUME TypesInv, Outside
    PROVE  [Next]_storeVars
  <1>1. now \in ClockReads
    BY NowIsRead
  <1>2. CASE PruneFinished
    BY <1>2 DEF PruneFinished, Next
  <1>3. CASE Submit
    BY <1>1, <1>3 DEF Submit, Next, ClientRequest
  <1>4. CASE Cancel
    BY <1>1, <1>4 DEF Cancel, Next, ClientRequest
  <1>5. CASE WakeDecided
    BY <1>1, <1>5 DEF WakeDecided, Next, ClientRequest
  <1>6. CASE Toggle \/ \E r \in RunIds : Decide(r)
    BY <1>6 DEF Toggle, Decide, StoreKept, storeVars
  <1>7. CASE WorkerTick
    BY <1>7 DEF WorkerTick, Next
  <1>8. QED
    BY <1>2, <1>3, <1>4, <1>5, <1>6, <1>7 DEF Outside

LEMMA WorkerStoreStep ==
    ASSUME TypesInv, [WorkerNext]_vars
    PROVE  [Next]_storeVars
  <1>1. CASE UNCHANGED vars
    BY <1>1 DEF vars, storeVars
  <1>2. CASE TakesNone
    BY <1>2, NowIsRead DEF TakesNone, Next
  <1>3. QED
    BY <1>1, <1>2, WorkerCases, MoveIsStoreStep, OutsideIsStoreStep

-----------------------------------------------------------------------------
(* What a step of the composition does to run r, and which slot did it.    *)

Held(r) == runs[r].state = "Running"

RunGone(r) == IsTerminal(r) /\ runs'[r] = AbsentRun

RunNew(r) ==
    /\ r = next_seq /\ next_seq' = next_seq + 1
    /\ runs[r] = AbsentRun
    /\ \E run \in NewRun : runs'[r] = QueuedRun(run, now)

(* The run keeps its epoch and its checkpoint.  If it stops running, the   *)
(* lease had expired and the call was a claim, or its owner wrote it.      *)
RunSame(r) ==
    /\ runs[r].state # "Absent" /\ runs'[r].state # "Absent"
    /\ runs'[r].updated_at = now
    /\ runs'[r].lease_epoch = runs[r].lease_epoch
    /\ runs'[r].checkpoint = runs[r].checkpoint
    /\ Held(r)' => Held(r) /\ runs'[r].lease_expires_at \in
                                  {runs[r].lease_expires_at, now + Ttl}
    /\ Held(r) /\ ~Held(r)' =>
          \/ TurnsArePrompt /\ LeaseExpired(r, now)
          \/ \E s \in Workers : /\ slot[s].pc # "Idle" /\ slot[s].run = r
                                /\ Owns(s) /\ slot'[s] = Idle

RunTaken(r) ==
    /\ \E s \in Workers : Takes(s) /\ WellPlaced(s) /\ slot'[s] = ClaimedSlot(r)
    /\ runs[r].state # "Absent"
    /\ Held(r) => LeaseExpired(r, now)
    /\ Held(r)'
    /\ runs'[r].updated_at = now
    /\ runs[r].lease_epoch < MaxEpoch
    /\ runs'[r].lease_epoch = runs[r].lease_epoch + 1
    /\ runs'[r].checkpoint = runs[r].checkpoint
    /\ runs'[r].lease_expires_at = now + Ttl

RunRecorded(r) ==
    /\ \E s \in Workers :
          /\ Records(s) \/ Holds(s)
          /\ slot[s].run = r /\ Owns(s)
          /\ runs'[r].checkpoint # None
          /\ runs'[r].checkpoint.invocation = slot[s].epoch
    /\ Held(r) /\ Held(r)'
    /\ runs'[r].updated_at = now
    /\ runs'[r].lease_epoch = runs[r].lease_epoch
    /\ runs'[r].lease_expires_at = runs[r].lease_expires_at

WorkerRunStep(r) ==
    \/ runs'[r] = runs[r]
    \/ RunGone(r) \/ RunNew(r) \/ RunSame(r) \/ RunTaken(r) \/ RunRecorded(r)

(* The effect of the operators of the store on the fields that matter.     *)
LEMMA ClaimedEffects ==
    ASSUME NEW rec \in RunRecord, NEW w, NEW at
    PROVE  LET b == ClaimedRun(rec, w, at) IN
           /\ b.state = "Running" /\ b.lease_epoch = rec.lease_epoch + 1
           /\ b.lease_expires_at = at + Ttl
           /\ b.checkpoint = rec.checkpoint /\ b.updated_at = at
  BY DEF ClaimedRun, Touch, RunRecord

LEMMA ExhaustedEffects ==
    ASSUME NEW rec \in RunRecord, NEW at
    PROVE  LET b == ExhaustedRun(rec, at) IN
           /\ b.state = "Failed" /\ b.lease_epoch = rec.lease_epoch
           /\ b.checkpoint = rec.checkpoint /\ b.updated_at = at
  BY DEF ExhaustedRun, Touch, ReleaseLease, RunRecord

LEMMA WaitingEffects ==
    ASSUME NEW rec \in RunRecord, NEW until, NEW at
    PROVE  LET b == WaitingRun(rec, until, at) IN
           /\ b.state = "Waiting" /\ b.lease_epoch = rec.lease_epoch
           /\ b.checkpoint = rec.checkpoint /\ b.updated_at = at
  BY DEF WaitingRun, Touch, ReleaseLease, RunRecord

LEMMA InterruptedEffects ==
    ASSUME NEW rec \in RunRecord, NEW at
    PROVE  LET b == Interrupted(rec, at) IN
           /\ b.state = IF rec.state = "Running" THEN "Running" ELSE "Cancelled"
           /\ rec.state = "Running" => b.lease_expires_at = rec.lease_expires_at
           /\ b.lease_epoch = rec.lease_epoch
           /\ b.checkpoint = rec.checkpoint /\ b.updated_at = at
  BY DEF Interrupted, Touch, ReleaseLease, RunRecord

LEMMA RecordedEffects ==
    ASSUME NEW rec \in RunRecord, NEW c, NEW at
    PROVE  LET b == Touch([rec EXCEPT !.checkpoint = c], at) IN
           /\ b.state = rec.state /\ b.lease_epoch = rec.lease_epoch
           /\ b.lease_expires_at = rec.lease_expires_at
           /\ b.checkpoint = c /\ b.updated_at = at
  BY DEF Touch, RunRecord

LEMMA CancelledEffects ==
    ASSUME NEW rec \in RunRecord, NEW at
    PROVE  LET b == Touch(ReleaseLease([rec EXCEPT !.state = "Cancelled"]), at) IN
           /\ b.state = "Cancelled" /\ b.lease_epoch = rec.lease_epoch
           /\ b.checkpoint = rec.checkpoint /\ b.updated_at = at
  BY DEF Touch, ReleaseLease, RunRecord

LEMMA RenewedEffects ==
    ASSUME NEW rec \in RunRecord, NEW at
    PROVE  LET b == Touch([rec EXCEPT !.lease_expires_at = at + Ttl], at) IN
           /\ b.state = rec.state /\ b.lease_epoch = rec.lease_epoch
           /\ b.lease_expires_at = at + Ttl
           /\ b.checkpoint = rec.checkpoint /\ b.updated_at = at
  BY DEF Touch, RunRecord

LEMMA FinishedEffects ==
    ASSUME NEW rec \in RunRecord, NEW at, NEW outcome \in Outcomes
    PROVE  LET b == FinishedRun(rec, outcome, at) IN
           /\ b.state \in {"Completed", "Cancelled", "Failed", "Queued"}
           /\ b.lease_epoch = rec.lease_epoch
           /\ b.checkpoint = rec.checkpoint /\ b.updated_at = at
  <1> DEFINE b == FinishedRun(rec, outcome, at)
  <1>1. /\ b.state = OutcomeState(rec, outcome)
        /\ b.lease_epoch = rec.lease_epoch
        /\ b.checkpoint = rec.checkpoint /\ b.updated_at = at
    BY DEF FinishedRun, Touch, ReleaseLease, RunRecord
  <1>2. OutcomeState(rec, outcome) \in {"Completed", "Cancelled", "Failed", "Queued"}
    BY DEF OutcomeState, Outcomes
  <1>3. QED
    BY <1>1, <1>2

LEMMA RunHere ==
    ASSUME TypesInv, NEW r \in RunIds
    PROVE  /\ runs[r] \in RunRecord /\ RecordInv(runs[r])
           /\ now \in Nat
           /\ \A r2 \in RunIds : \A rec : Update(r2, rec) =>
                  runs'[r] = IF r = r2 THEN rec ELSE runs[r]
  BY UpdateStep DEF TypesInv, TypeOK, RecordsInv

LEMMA ClaimTakes ==
    ASSUME TypesInv, NEW s \in Workers, Takes(s), WellPlaced(s),
           NEW q \in Queues, NEW r \in RunIds, Claim(q, s, r, now),
           slot'[s] = ClaimedSlot(r)
    PROVE  RunTaken(r)
  <1>1. runs'[r] = ClaimedRun(runs[r], s, now) /\ runs[r].lease_epoch < MaxEpoch
    BY DEF Claim
  <1>2. Claimable(r, now)
    BY DEF Claim, FirstClaimable
  <1>3. QED
    BY <1>1, <1>2, RunHere, ClaimedEffects DEF RunTaken, Held, Claimable, LeaseExpired

LEMMA ClaimedSlotFields ==
    ASSUME TypesInv, NEW r \in RunIds, RunTaken(r)
    PROVE  /\ ClaimedSlot(r).pc = "Claiming" /\ ClaimedSlot(r).run = r
           /\ ClaimedSlot(r).epoch = runs[r].lease_epoch + 1
           /\ ClaimedSlot(r).sent = now
           /\ ClaimedSlot(r).checkpoint = runs[r].checkpoint
           /\ ClaimedSlot(r).beat = None
  BY DEF ClaimedSlot, Idle, RunTaken

LEMMA TakesRunStep ==
    ASSUME TypesInv, NEW r \in RunIds, NEW s \in Workers, Takes(s), WellPlaced(s)
    PROVE  WorkerRunStep(r)
  <1>1. PICK q \in Queues, c \in RunIds :
            Claim(q, s, c, now) /\ slot'[s] = ClaimedSlot(c)
    BY DEF Takes
  <1>2. CASE r = c
    BY <1>1, <1>2, ClaimTakes DEF WorkerRunStep
  <1>3. CASE r # c /\ runs[r].queue = q /\ Exhausted(r, now) /\ Before(r, c)
    <2>1. runs'[r] = ExhaustedRun(runs[r], now)
      BY <1>1, <1>3 DEF Claim
    <2>2. TurnsArePrompt /\ LeaseExpired(r, now)
      BY <1>3 DEF Takes, Exhausted
    <2>3. RunSame(r)
      BY <2>1, <2>2, RunHere, ExhaustedEffects DEF RunSame, Held, LeaseExpired
    <2>4. QED
      BY <2>3 DEF WorkerRunStep
  <1>4. CASE r # c /\ ~(runs[r].queue = q /\ Exhausted(r, now) /\ Before(r, c))
    BY <1>1, <1>4 DEF Claim, WorkerRunStep
  <1>5. QED
    BY <1>2, <1>3, <1>4

LEMMA TakesNoneRunStep ==
    ASSUME TypesInv, NEW r \in RunIds, TakesNone
    PROVE  WorkerRunStep(r)
  <1>1. PICK q \in Queues : ClaimNone(q, now)
    BY DEF TakesNone
  <1>2. CASE runs[r].queue = q /\ Exhausted(r, now)
    <2>1. runs'[r] = ExhaustedRun(runs[r], now)
      BY <1>1, <1>2 DEF ClaimNone
    <2>2. TurnsArePrompt /\ LeaseExpired(r, now)
      BY <1>2 DEF TakesNone, Exhausted
    <2>3. RunSame(r)
      BY <2>1, <2>2, RunHere, ExhaustedEffects DEF RunSame, Held, LeaseExpired
    <2>4. QED
      BY <2>3 DEF WorkerRunStep
  <1>3. CASE ~(runs[r].queue = q /\ Exhausted(r, now))
    BY <1>1, <1>3 DEF ClaimNone, WorkerRunStep
  <1>4. QED
    BY <1>2, <1>3

LEMMA HeartbeatRunStep ==
    ASSUME TypesInv, NEW r \in RunIds, NEW c \in RunIds, NEW e, Heartbeat(c, e, now)
    PROVE  WorkerRunStep(r)
  <1>1. CASE r = c
    <2>1. runs'[r] = Touch([runs[r] EXCEPT !.lease_expires_at = now + Ttl], now) /\ Held(r)
      BY <1>1, RunHere DEF Heartbeat, Fenced, Held
    <2>2. RunSame(r)
      BY <2>1, RunHere, RenewedEffects DEF RunSame, Held
    <2>3. QED
      BY <2>2 DEF WorkerRunStep
  <1>2. CASE r # c
    BY <1>2, RunHere DEF Heartbeat, WorkerRunStep
  <1>3. QED
    BY <1>1, <1>2

LEMMA LeavesRunStep ==
    ASSUME TypesInv, NEW r \in RunIds, NEW s \in Workers, Leaves(s)
    PROVE  WorkerRunStep(r)
  <1> DEFINE c == slot[s].run
  <1>0. c \in RunIds
    BY SlotHere DEF Leaves
  <1>1. CASE StoreKept
    BY <1>1 DEF StoreKept, WorkerRunStep
  <1>2. CASE Heartbeat(slot[s].run, slot[s].epoch, now)
    BY <1>0, <1>2, HeartbeatRunStep
  <1>3. ASSUME NEW rec, Update(c, rec), Owns(s), r = c,
               /\ rec.state \in {"Completed", "Cancelled", "Failed", "Queued", "Waiting"}
               /\ rec.lease_epoch = runs[c].lease_epoch
               /\ rec.checkpoint = runs[c].checkpoint /\ rec.updated_at = now
        PROVE  WorkerRunStep(r)
    <2>1. runs'[r] = rec /\ Held(r)
      BY <1>0, <1>3, RunHere DEF Owns, Fenced, Held
    <2>2. RunSame(r)
      BY <1>3, <2>1 DEF RunSame, Held, Leaves
    <2>3. QED
      BY <2>2 DEF WorkerRunStep
  <1>4. ASSUME NEW until \in Deadlines, Wait(slot[s].run, slot[s].epoch, until, now)
        PROVE  WorkerRunStep(r)
    <2>1. Update(c, WaitingRun(runs[c], until, now)) /\ Owns(s)
      BY <1>4 DEF Wait, Owns
    <2>2. CASE r = c
      <3>1. /\ WaitingRun(runs[c], until, now).state = "Waiting"
            /\ WaitingRun(runs[c], until, now).lease_epoch = runs[c].lease_epoch
            /\ WaitingRun(runs[c], until, now).checkpoint = runs[c].checkpoint
            /\ WaitingRun(runs[c], until, now).updated_at = now
        BY <2>2, RunHere, WaitingEffects
      <3>2. QED
        BY <1>3, <2>1, <2>2, <3>1
    <2>3. CASE r # c
      BY <1>0, <2>1, <2>3, RunHere DEF WorkerRunStep
    <2>4. QED
      BY <2>2, <2>3
  <1>5. ASSUME NEW outcome \in Outcomes, Finish(slot[s].run, slot[s].epoch, outcome, now)
        PROVE  WorkerRunStep(r)
    <2>1. Update(c, FinishedRun(runs[c], outcome, now)) /\ Owns(s)
      BY <1>5 DEF Finish, Owns
    <2>2. CASE r = c
      <3>1. /\ FinishedRun(runs[c], outcome, now).state
                  \in {"Completed", "Cancelled", "Failed", "Queued"}
            /\ FinishedRun(runs[c], outcome, now).lease_epoch = runs[c].lease_epoch
            /\ FinishedRun(runs[c], outcome, now).checkpoint = runs[c].checkpoint
            /\ FinishedRun(runs[c], outcome, now).updated_at = now
        BY <2>2, RunHere, FinishedEffects
      <3>2. QED
        BY <1>3, <2>1, <2>2, <3>1
    <2>3. CASE r # c
      BY <1>0, <2>1, <2>3, RunHere DEF WorkerRunStep
    <2>4. QED
      BY <2>2, <2>3
  <1>6. QED
    BY <1>1, <1>2, <1>4, <1>5 DEF Leaves

LEMMA RecordingRunStep ==
    ASSUME TypesInv, NEW r \in RunIds, NEW s \in Workers, Records(s) \/ Holds(s)
    PROVE  WorkerRunStep(r)
  <1> DEFINE c == slot[s].run
  <1>0. c \in RunIds /\ slot[s].epoch \in 1 .. MaxEpoch
    BY SlotHere DEF Records, Holds, SameAttempt
  <1>1. PICK kind \in {"Session", "AwaitingApproval"}, t \in Deadlines :
            SetCheckpoint(c, slot[s].epoch, CheckpointRef(kind, slot[s].epoch, t), now)
    BY DEF Records, Holds, Deadlines
  <1> DEFINE ref == CheckpointRef(kind, slot[s].epoch, t)
  <1>2. ref # None /\ ref.invocation = slot[s].epoch
    BY <1>0, CheckpointRefType, RunStoreAssumption DEF CheckpointRef
  <1>3. /\ Update(c, Touch([runs[c] EXCEPT !.checkpoint = ref], now))
        /\ Owns(s) /\ Held(c)
    BY <1>1 DEF SetCheckpoint, Owns, Fenced, Held
  <1> HIDE DEF ref
  <1>4. CASE r = c
    <2>1. runs'[r] = Touch([runs[r] EXCEPT !.checkpoint = ref], now)
      BY <1>0, <1>3, <1>4, RunHere
    <2>2. RunRecorded(r)
      BY <1>2, <1>3, <1>4, <2>1, RunHere, RecordedEffects DEF RunRecorded, Held
    <2>3. QED
      BY <2>2 DEF WorkerRunStep
  <1>5. CASE r # c
    BY <1>0, <1>3, <1>5, RunHere DEF WorkerRunStep
  <1>6. QED
    BY <1>4, <1>5

LEMMA OutsideRunStep ==
    ASSUME TypesInv, NEW r \in RunIds, Outside
    PROVE  WorkerRunStep(r)
  <1>1. CASE PruneFinished
    BY <1>1 DEF PruneFinished, Prune, Prunable, WorkerRunStep, RunGone
  <1>2. CASE Submit
    <2>1. PICK run \in NewRun : Enqueue(run, now)
      BY <1>2 DEF Submit
    <2>2. CASE r = next_seq
      <3>1. runs[r] = AbsentRun
        BY <2>2 DEF TypesInv, TypeOK, RunIds
      <3>2. QED
        BY <2>1, <2>2, <3>1 DEF Enqueue, WorkerRunStep, RunNew
    <2>3. CASE r # next_seq /\ Interrupts(run, r)
      <3>1. runs'[r] = Interrupted(runs[r], now) /\ runs[r].state # "Absent"
        BY <2>1, <2>3 DEF Enqueue, Interrupts, Holders, IsUnfinished, Unfinished
      <3>2. RunSame(r)
        BY <3>1, RunHere, InterruptedEffects DEF RunSame, Held
      <3>3. QED
        BY <3>2 DEF WorkerRunStep
    <2>4. CASE r # next_seq /\ ~Interrupts(run, r)
      BY <2>1, <2>4 DEF Enqueue, WorkerRunStep
    <2>5. QED
      BY <2>2, <2>3, <2>4
  <1>3. CASE Cancel
    <2>1. PICK c \in RunIds : RequestCancel(c, now)
      BY <1>3 DEF Cancel
    <2>2. CASE r # c
      BY <2>1, <2>2, RunHere DEF RequestCancel, WorkerRunStep
    <2>3. CASE r = c /\ runs[r].state \in {"Queued", "Waiting"}
      <3>1. runs'[r] = Touch(ReleaseLease([runs[r] EXCEPT !.state = "Cancelled"]), now)
        BY <2>1, <2>3, RunHere DEF RequestCancel
      <3>2. RunSame(r)
        BY <2>3, <3>1, RunHere, CancelledEffects DEF RunSame, Held
      <3>3. QED
        BY <3>2 DEF WorkerRunStep
    <2>4. CASE r = c /\ runs[r].state = "Running"
      <3>1. runs'[r] = Touch([runs[r] EXCEPT !.cancel_requested = TRUE], now)
        BY <2>1, <2>4, RunHere DEF RequestCancel
      <3>2. RunSame(r)
        BY <2>4, <3>1, RunHere DEF RunSame, Held, Touch, RunRecord
      <3>3. QED
        BY <3>2 DEF WorkerRunStep
    <2>5. QED
      BY <2>1, <2>2, <2>3, <2>4 DEF RequestCancel
  <1>4. CASE WakeDecided
    <2>1. PICK c \in RunIds : Wake(c, now)
      BY <1>4 DEF WakeDecided
    <2>2. CASE r # c
      BY <2>1, <2>2, RunHere DEF Wake, WorkerRunStep
    <2>3. CASE r = c /\ runs[r].state = "Waiting"
      <3>1. runs'[r] = Touch([runs[r] EXCEPT !.not_before = now], now)
        BY <2>1, <2>3, RunHere DEF Wake
      <3>2. RunSame(r)
        BY <2>3, <3>1, RunHere DEF RunSame, Held, Touch, RunRecord
      <3>3. QED
        BY <3>2 DEF WorkerRunStep
    <2>4. CASE r = c /\ runs[r].state = "Running"
      <3>1. runs'[r] = Touch([runs[r] EXCEPT !.wake_pending = TRUE], now)
        BY <2>1, <2>4, RunHere DEF Wake
      <3>2. RunSame(r)
        BY <2>4, <3>1, RunHere DEF RunSame, Held, Touch, RunRecord
      <3>3. QED
        BY <3>2 DEF WorkerRunStep
    <2>5. QED
      BY <2>1, <2>2, <2>3, <2>4 DEF Wake
  <1>5. CASE Toggle \/ \E c \in RunIds : Decide(c)
    BY <1>5 DEF Toggle, Decide, StoreKept, WorkerRunStep
  <1>6. CASE WorkerTick
    BY <1>6 DEF WorkerTick, Tick, WorkerRunStep
  <1>7. QED
    BY <1>1, <1>2, <1>3, <1>4, <1>5, <1>6 DEF Outside

LEMMA EveryWorkerRunStep ==
    ASSUME TypesInv, WorkerNext, NEW r \in RunIds
    PROVE  WorkerRunStep(r)
  <1>1. ASSUME NEW s \in Workers, Moves(s), WellPlaced(s)
        PROVE  WorkerRunStep(r)
    <2>1. StoreKept => WorkerRunStep(r)
      BY DEF StoreKept, WorkerRunStep
    <2>2. CASE Beats(s) \/ Renews(s)
      <3>1. slot[s].run \in RunIds
        BY <2>2, SlotHere DEF Beats, Renews, SameAttempt
      <3>2. QED
        BY <2>1, <2>2, <3>1, HeartbeatRunStep DEF Beats, Renews
    <2>3. CASE Returns(s) \/ Starts(s) \/ Stops(s) \/ Persists(s) \/ Produces(s)
      BY <2>1, <2>3 DEF Returns, Starts, Stops, Persists, Produces, Says
    <2>4. QED
      BY <1>1, <2>2, <2>3, TakesRunStep, LeavesRunStep, RecordingRunStep DEF Moves
  <1>2. QED
    BY <1>1, WorkerCases, TakesNoneRunStep, OutsideRunStep

(* What a step does to one slot. *)
LEMMA EverySlotStep ==
    ASSUME TypesInv, WorkerNext, NEW s \in Workers
    PROVE  \/ slot'[s] = slot[s]
           \/ Moves(s) /\ WellPlaced(s)
  BY WorkerCases, OutsideKeepsSlots DEF WellPlaced, OthersStay, TakesNone

LEMMA MoveKinds ==
    ASSUME TypesInv, NEW s \in Workers, Moves(s), WellPlaced(s)
    PROVE  \/ SameAttempt(s)
           \/ slot'[s] = Idle
           \/ /\ slot[s].pc = "Idle"
              /\ \E r \in RunIds : RunTaken(r) /\ slot'[s] = ClaimedSlot(r)
  <1>1. CASE Takes(s)
    <2>1. PICK q \in Queues, r \in RunIds : Claim(q, s, r, now) /\ slot'[s] = ClaimedSlot(r)
      BY <1>1 DEF Takes
    <2>2. RunTaken(r)
      BY <1>1, <2>1, ClaimTakes
    <2>3. QED
      BY <1>1, <2>1, <2>2 DEF Takes
  <1>2. CASE ~Takes(s)
    BY <1>2 DEF Moves, Leaves, Returns, Beats, Renews, Starts, Records, Stops, Holds,
                Persists, Produces, Says
  <1>3. QED
    BY <1>1, <1>2

(* A session grows by one event, of a slot that works on its run. *)
LEMMA SessionStep ==
    ASSUME TypesInv, WorkerNext, NEW r \in RunIds
    PROVE  \/ session'[r] = session[r]
           \/ \E s \in Workers, kind \in UserTurns \cup AgentEvents :
                 /\ \/ Persists(s) /\ kind \in UserTurns
                    \/ Produces(s) /\ kind \in AgentEvents
                 /\ WellPlaced(s)
                 /\ slot[s].run = r
                 /\ kind \in AgentEvents =>
                        slot'[s].pc = IF kind = "Call" THEN "Running" ELSE "Ended"
                 /\ session'[r] =
                        Append(session[r], [invocation |-> slot[s].epoch, kind |-> kind])
  <1>0. session \in [RunIds -> Seq(Event)]
    BY DEF TypesInv, WorkerTypeOK
  <1>1. ASSUME NEW s \in Workers, WellPlaced(s), Persists(s) \/ Produces(s),
               slot[s].run = r
        PROVE  \E kind \in UserTurns \cup AgentEvents :
                 /\ \/ Persists(s) /\ kind \in UserTurns
                    \/ Produces(s) /\ kind \in AgentEvents
                 /\ kind \in AgentEvents =>
                        slot'[s].pc = IF kind = "Call" THEN "Running" ELSE "Ended"
                 /\ session'[r] =
                        Append(session[r], [invocation |-> slot[s].epoch, kind |-> kind])
    <2>1. CASE Persists(s)
      <3>1. PICK kind \in UserTurns : Says(s, kind)
        BY <2>1 DEF Persists
      <3>2. session'[r] = Append(session[r], [invocation |-> slot[s].epoch, kind |-> kind])
        BY <1>0, <1>1, <3>1 DEF Says, Append1
      <3>3. kind \notin AgentEvents
        BY DEF UserTurns, AgentEvents
      <3>4. QED
        BY <2>1, <3>2, <3>3
    <2>2. CASE Produces(s)
      <3>1. PICK kind \in AgentEvents :
                /\ Says(s, kind)
                /\ slot'[s].pc = IF kind = "Call" THEN "Running" ELSE "Ended"
        BY <2>2 DEF Produces
      <3>2. session'[r] = Append(session[r], [invocation |-> slot[s].epoch, kind |-> kind])
        BY <1>0, <1>1, <3>1 DEF Says, Append1
      <3>3. QED
        BY <2>2, <3>1, <3>2
    <2>3. QED
      BY <1>1, <2>1, <2>2
  <1>2. ASSUME NEW s \in Workers, WellPlaced(s), Persists(s) \/ Produces(s),
               slot[s].run # r
        PROVE  session'[r] = session[r]
    BY <1>0, <1>2 DEF Persists, Produces, Says, Append1
  <1>3. ASSUME NEW s \in Workers, Moves(s), ~(Persists(s) \/ Produces(s))
        PROVE  session'[r] = session[r]
    BY <1>3 DEF Moves, Takes, Leaves, Returns, Beats, Renews, Starts, Records, Stops, Holds
  <1>4. CASE TakesNone \/ Outside
    BY <1>4, OutsideKeepsSlots DEF TakesNone
  <1>5. QED
    BY <1>1, <1>2, <1>3, <1>4, WorkerCases

-----------------------------------------------------------------------------
(* Type correctness. *)

LEMMA SwitchesType ==
    ASSUME WorkerTypeOK, [WorkerNext]_vars
    PROVE  decided' \in [RunIds -> BOOLEAN] /\ refusing' \in BOOLEAN
  <1> DEFINE Kept2 == decided' = decided /\ refusing' = refusing
  <1>1. ASSUME NEW s \in Workers, SlotStep(s)
        PROVE  Kept2
    <2>1. Rest => Kept2
      BY DEF Rest
    <2>2. \/ Rest
          \/ PersistTurn(s)
          \/ \E kind \in AgentEvents : AgentStep(s, kind)
          \/ ClaimNothing(s)
      BY <1>1 DEF SlotStep, SendClaim, ClaimReturns, SendHeartbeat, HeartbeatAnswered,
                  HeartbeatRefused, HeartbeatFails, Prepare, RecordCheckpoint, Refused,
                  FenceDrops, Fail, Interrupt, Answered, HoldExpires, HoldForApproval,
                  HandBack, Park, WriteOutcome, EndAttempt, Crash
    <2>3. QED
      BY <2>1, <2>2 DEF PersistTurn, AgentStep, ClaimNothing, workerVars
  <1>2. PruneFinished \/ Submit \/ Cancel \/ WakeDecided \/ WorkerTick => Kept2
    BY DEF PruneFinished, Submit, Cancel, WakeDecided, WorkerTick, workerVars
  <1>3. ASSUME NEW r \in RunIds, Decide(r)
        PROVE  decided' \in [RunIds -> BOOLEAN] /\ refusing' \in BOOLEAN
    BY <1>3 DEF Decide, WorkerTypeOK
  <1>4. ASSUME Toggle
        PROVE  decided' \in [RunIds -> BOOLEAN] /\ refusing' \in BOOLEAN
    BY <1>4, Zenon DEF Toggle, WorkerTypeOK
  <1>5. CASE UNCHANGED vars
    BY <1>5 DEF vars, WorkerTypeOK
  <1>6. Kept2 => decided' \in [RunIds -> BOOLEAN] /\ refusing' \in BOOLEAN
    BY DEF WorkerTypeOK
  <1>7. QED
    BY <1>1, <1>2, <1>3, <1>4, <1>5, <1>6 DEF WorkerNext

LEMMA ClockStep ==
    ASSUME TypesInv, WorkerNext
    PROVE  /\ now' = now \/ (now < MaxTime /\ now' = now + 1 /\ WorkerTick)
           /\ next_seq' \in {next_seq, next_seq + 1}
  <1>1. ASSUME NEW s \in Workers, Moves(s)
        PROVE  now' = now /\ next_seq' = next_seq
    BY <1>1 DEF Moves, Takes, Leaves, Returns, Beats, Renews, Starts, Records, Stops, Holds,
                Persists, Produces, Says, StoreKept, Claim, Heartbeat, SetCheckpoint, Wait,
                Finish, Update
  <1>2. CASE TakesNone
    BY <1>2 DEF TakesNone, ClaimNone
  <1>3. CASE Outside
    BY <1>3 DEF Outside, PruneFinished, Prune, Submit, Enqueue, Cancel, RequestCancel,
                WakeDecided, Wake, Update, Toggle, Decide, StoreKept, WorkerTick, Tick
  <1>4. QED
    BY <1>1, <1>2, <1>3, WorkerCases

LEMMA SessionType ==
    ASSUME TypesInv, WorkerNext
    PROVE  session' \in [RunIds -> Seq(Event)]
  <1>0. session \in [RunIds -> Seq(Event)]
    BY DEF TypesInv, WorkerTypeOK
  <1>1. ASSUME NEW s \in Workers, NEW kind \in UserTurns \cup AgentEvents, SameAttempt(s),
               Append1(slot[s].run, slot[s].epoch, kind)
        PROVE  session' \in [RunIds -> Seq(Event)]
    <2>1. slot[s].run \in RunIds /\ slot[s].epoch \in Epochs
      BY <1>1, SlotHere DEF SameAttempt, Epochs
    <2>2. [invocation |-> slot[s].epoch, kind |-> kind] \in Event
      BY <2>1 DEF Event
    <2>3. Append(session[slot[s].run], [invocation |-> slot[s].epoch, kind |-> kind]) \in Seq(Event)
      BY <1>0, <2>1, <2>2
    <2>4. QED
      BY <1>0, <1>1, <2>1, <2>3 DEF Append1
  <1>2. ASSUME NEW s \in Workers, Moves(s)
        PROVE  session' = session \/ \E kind \in UserTurns \cup AgentEvents :
                  SameAttempt(s) /\ Append1(slot[s].run, slot[s].epoch, kind)
    BY <1>2 DEF Moves, Takes, Leaves, Returns, Beats, Renews, Starts, Records, Stops, Holds,
                Persists, Produces, Says
  <1>3. QED
    BY <1>0, <1>1, <1>2, WorkerCases, OutsideKeepsSlots DEF TakesNone

LEMMA SlotType ==
    ASSUME TypesInv, WorkerNext
    PROVE  slot' \in [Workers -> Slot]
  BY WorkerCases, OutsideKeepsSlots DEF WellPlaced, TakesNone, TypesInv, WorkerTypeOK

LEMMA BoundsStep ==
    ASSUME TypesInv, WorkerNext
    PROVE  BoundsInv'
  <1>1. now' <= MaxTime /\ now <= now'
    BY ClockStep, RunStoreAssumption DEF TypesInv, BoundsInv, TypeOK
  <1>2. ASSUME NEW r \in RunIds
        PROVE  /\ runs'[r].updated_at <= now'
               /\ runs'[r].lease_epoch <= MaxEpoch
               /\ runs'[r].checkpoint # None
                     => runs'[r].checkpoint.invocation <= runs'[r].lease_epoch
    <2>1. /\ runs[r] \in RunRecord /\ now \in Nat /\ now' \in Nat
          /\ runs[r].updated_at <= now /\ runs[r].lease_epoch <= MaxEpoch
          /\ runs[r].lease_epoch \in Nat /\ runs[r].updated_at \in Nat
          /\ runs[r].checkpoint # None
                => runs[r].checkpoint.invocation <= runs[r].lease_epoch
      BY RunHere, ClockStep DEF TypesInv, BoundsInv, RunRecord, Time
    <2>2. CASE runs'[r] = runs[r]
      BY <1>1, <2>1, <2>2
    <2>3. CASE RunGone(r)
      BY <2>1, <2>3, RunStoreAssumption DEF RunGone, AbsentRun
    <2>4. CASE RunNew(r)
      BY <1>1, <2>1, <2>4, RunStoreAssumption DEF RunNew, QueuedRun
    <2>5. CASE RunSame(r)
      BY <1>1, <2>1, <2>5 DEF RunSame
    <2>6. CASE RunTaken(r)
      <3>1. runs'[r].checkpoint # None
               => runs'[r].checkpoint.invocation \in 1 .. MaxEpoch
        <4> SUFFICES ASSUME runs'[r].checkpoint # None
                     PROVE  runs'[r].checkpoint.invocation \in 1 .. MaxEpoch
          OBVIOUS
        <4>1. runs[r].checkpoint \in WorkerCheckpoints
          BY <2>1, <2>6, WorkerCallsAssumption DEF RunTaken, RunRecord
        <4>2. QED
          BY <2>6, <4>1 DEF WorkerCheckpoints, CheckpointRef, RunTaken
      <3>2. QED
        BY <1>1, <2>1, <2>6, <3>1, RunStoreAssumption DEF RunTaken
    <2>7. CASE RunRecorded(r)
      BY <1>1, <2>1, <2>7 DEF RunRecorded, Owns, Fenced
    <2>8. QED
      BY <2>2, <2>3, <2>4, <2>5, <2>6, <2>7, EveryWorkerRunStep DEF WorkerRunStep
  <1>3. ASSUME NEW r \in RunIds, r >= next_seq'
        PROVE  session'[r] = <<>>
    <2>1. r >= next_seq /\ r \in Nat
      BY <1>3, ClockStep DEF TypesInv, TypeOK, RunIds
    <2>2. session[r] = <<>>
      BY <2>1 DEF TypesInv, BoundsInv
    <2>3. ASSUME NEW s \in Workers, slot[s].run = r, slot[s].pc # "Idle"
          PROVE  FALSE
      BY <2>1, <2>3 DEF TypesInv, SlotsInv, SlotInv, TypeOK
    <2>4. QED
      BY <2>2, <2>3, SessionStep DEF Persists, Produces
  <1>4. QED
    BY <1>1, <1>2, <1>3 DEF BoundsInv

(* A run that was pruned stays away, and a run's epoch only grows. *)
LEMMA EpochStep ==
    ASSUME TypesInv, WorkerNext, NEW r \in RunIds, r < next_seq,
           runs'[r].state # "Absent"
    PROVE  /\ runs[r].state # "Absent"
           /\ runs[r].lease_epoch <= runs'[r].lease_epoch
           /\ runs[r].lease_epoch \in Nat /\ runs'[r].lease_epoch \in Nat
  <1>1. runs[r].lease_epoch \in Nat /\ r \in Nat /\ next_seq \in Nat
    BY RunHere DEF RunRecord, TypesInv, TypeOK, RunIds
  <1>2. ~RunNew(r)
    BY <1>1 DEF RunNew
  <1>3. ~RunGone(r)
    BY DEF RunGone, AbsentRun
  <1>4. QED
    BY <1>1, <1>2, <1>3, EveryWorkerRunStep
       DEF WorkerRunStep, RunSame, RunTaken, RunRecorded, Held

LEMMA SlotsStep ==
    ASSUME TypesInv, WorkerNext
    PROVE  SlotsInv'
  <1> SUFFICES ASSUME NEW s \in Workers
               PROVE  SlotInv(s)'
    BY DEF SlotsInv
  <1>0. SlotInv(s)
    BY DEF TypesInv, SlotsInv
  <1>1. Deadlines' = Deadlines
    BY DEF Deadlines
  <1>2. slot'[s].until \in Deadlines /\ slot'[s].claimed_at \in Deadlines
    BY <1>0, EverySlotStep DEF SlotInv, WellPlaced
  <1>3. SUFFICES ASSUME slot'[s].pc # "Idle"
                 PROVE  /\ slot'[s].run \in RunIds
                        /\ slot'[s].run < next_seq'
                        /\ slot'[s].epoch \in 1 .. MaxEpoch
                        /\ runs'[slot'[s].run].state # "Absent"
                              => slot'[s].epoch <= runs'[slot'[s].run].lease_epoch
    BY <1>1, <1>2 DEF SlotInv
  <1>4. next_seq \in Nat /\ next_seq' \in {next_seq, next_seq + 1}
    BY ClockStep DEF TypesInv, TypeOK
  <1>5. ASSUME slot[s].pc # "Idle", slot'[s].run = slot[s].run,
               slot'[s].epoch = slot[s].epoch
        PROVE  /\ slot'[s].run \in RunIds
               /\ slot'[s].run < next_seq'
               /\ slot'[s].epoch \in 1 .. MaxEpoch
               /\ runs'[slot'[s].run].state # "Absent"
                     => slot'[s].epoch <= runs'[slot'[s].run].lease_epoch
    <2>1. slot[s].run \in RunIds /\ slot[s].run < next_seq /\ slot[s].epoch \in 1 .. MaxEpoch
      BY <1>0, <1>5 DEF SlotInv
    <2>2. runs'[slot[s].run].state # "Absent"
             => /\ slot[s].epoch <= runs[slot[s].run].lease_epoch
                /\ runs[slot[s].run].lease_epoch <= runs'[slot[s].run].lease_epoch
                /\ runs[slot[s].run].lease_epoch \in Nat
                /\ runs'[slot[s].run].lease_epoch \in Nat
      BY <1>0, <1>5, <2>1, EpochStep DEF SlotInv
    <2>3. QED
      BY <1>4, <1>5, <2>1, <2>2 DEF RunIds
  <1>6. CASE slot'[s] = slot[s]
    BY <1>3, <1>5, <1>6
  <1>7. CASE SameAttempt(s)
    BY <1>5, <1>7 DEF SameAttempt
  <1>8. ASSUME NEW r \in RunIds, RunTaken(r), slot'[s] = ClaimedSlot(r)
        PROVE  /\ slot'[s].run \in RunIds
               /\ slot'[s].run < next_seq'
               /\ slot'[s].epoch \in 1 .. MaxEpoch
               /\ runs'[slot'[s].run].state # "Absent"
                     => slot'[s].epoch <= runs'[slot'[s].run].lease_epoch
    <2>1. slot'[s].run = r /\ slot'[s].epoch = runs[r].lease_epoch + 1
      BY <1>8, ClaimedSlotFields
    <2>2. r < next_seq
      BY <1>4, <1>8 DEF RunTaken, TypesInv, TypeOK, AbsentRun, RunIds
    <2>3. runs[r].lease_epoch \in Nat
      BY RunHere DEF RunRecord
    <2>4. QED
      BY <1>4, <1>8, <2>1, <2>2, <2>3, RunStoreAssumption DEF RunTaken, RunIds
  <1>9. QED
    BY <1>3, <1>6, <1>7, <1>8, EverySlotStep, MoveKinds DEF Idle

LEMMA TypesStep == TypesInv /\ [WorkerNext]_vars => TypesInv'
  <1> SUFFICES ASSUME TypesInv, [WorkerNext]_vars PROVE TypesInv'
    OBVIOUS
  <1>1. TypeOK' /\ RecordsInv'
    BY WorkerStoreStep, TypeInvariant, RecordsInvariant DEF TypesInv
  <1>2. CASE UNCHANGED vars
    <2>1. WorkerTypeOK' /\ SlotsInv'
      BY <1>2 DEF vars, TypesInv, WorkerTypeOK, SlotsInv, SlotInv
    <2>2. BoundsInv'
      BY <1>2 DEF vars, TypesInv, BoundsInv
    <2>3. QED
      BY <1>1, <2>1, <2>2 DEF TypesInv
  <1>3. CASE WorkerNext
    <2>1. WorkerTypeOK'
      BY <1>3, SlotType, SessionType, SwitchesType DEF TypesInv, WorkerTypeOK
    <2>2. QED
      BY <1>1, <1>3, <2>1, BoundsStep, SlotsStep DEF TypesInv
  <1>4. QED
    BY <1>2, <1>3

LEMMA TypesAlways == WorkerSpec => []TypesInv
  <1>1. WorkerInit => TypesInv
    <2> SUFFICES ASSUME WorkerInit PROVE TypesInv
      OBVIOUS
    <2>1. TypeOK /\ RecordsInv
      BY AbsentType, RunStoreAssumption
         DEF WorkerInit, Init, TypeOK, RunIds, RecordsInv, RecordInv, AbsentRun
    <2>2. WorkerTypeOK
      <3>1. slot \in [Workers -> Slot]
        BY IdleType DEF WorkerInit
      <3>2. session \in [RunIds -> Seq(Event)]
        <4>1. <<>> \in Seq(Event)
          OBVIOUS
        <4>2. QED
          BY <4>1 DEF WorkerInit
      <3>3. decided \in [RunIds -> BOOLEAN] /\ refusing \in BOOLEAN
        BY DEF WorkerInit
      <3>4. QED
        BY <3>1, <3>2, <3>3 DEF WorkerTypeOK
    <2>3. BoundsInv
      BY RunStoreAssumption DEF WorkerInit, Init, BoundsInv, AbsentRun
    <2>4. 0 \in Deadlines /\ None \in Deadlines
      BY RunStoreAssumption, WorkerAssumption DEF Deadlines
    <2>5. SlotsInv
      BY <2>4 DEF WorkerInit, SlotsInv, SlotInv, Idle
    <2>6. QED
      BY <2>1, <2>2, <2>3, <2>5 DEF TypesInv
  <1>2. QED
    BY <1>1, TypesStep, PTL DEF WorkerSpec

(* Every state of the composition is well typed: a slot works under an     *)
(* epoch that a claim returned, and a session holds the events of such     *)
(* epochs.                                                                 *)
THEOREM WorkerTypeCorrect == WorkerSpec => []WorkerTypeOK
  BY TypesAlways, PTL DEF TypesInv

(* Workers and clients drive the store by its own operations, at the       *)
(* present time: whatever is proved of the store alone (the attempt        *)
(* budget, the leases, the idempotency index, the lifecycle table) holds   *)
(* under them.                                                             *)
THEOREM WorkersImplementStore == WorkerSpec => Spec
  <1>1. WorkerInit => Init
    BY DEF WorkerInit
  <1>2. TypesInv /\ [WorkerNext]_vars => [Next]_storeVars
    BY WorkerStoreStep
  <1>3. QED
    BY <1>1, <1>2, TypesAlways, PTL DEF WorkerSpec, Spec

-----------------------------------------------------------------------------
(* The fence.                                                              *)

(* No two attempts on a run carry the same epoch. *)
EpochsApart ==
    \A s, t \in Workers :
        /\ slot[s].pc # "Idle" /\ slot[t].pc # "Idle"
        /\ slot[s].run = slot[t].run /\ slot[s].epoch = slot[t].epoch
        => s = t

(* The epoch of a new claim is above those of the attempts on the run. *)
LEMMA NewEpoch ==
    ASSUME TypesInv, WorkerNext, NEW s \in Workers, NEW t \in Workers, s # t,
           NEW r \in RunIds, RunTaken(r), slot'[s] = ClaimedSlot(r), OthersStay(s),
           slot'[t].pc # "Idle", slot'[t].run = r
    PROVE  slot'[t].epoch # slot'[s].epoch
  <1>1. slot'[t] = slot[t]
    BY DEF OthersStay
  <1>2. slot[t].epoch <= runs[r].lease_epoch /\ slot[t].epoch \in Nat
    BY <1>1, RunStoreAssumption DEF TypesInv, SlotsInv, SlotInv, RunTaken
  <1>3. slot'[s].epoch = runs[r].lease_epoch + 1 /\ runs[r].lease_epoch \in Nat
    BY ClaimedSlotFields, RunHere DEF RunRecord
  <1>4. QED
    BY <1>1, <1>2, <1>3

LEMMA EpochsApartStep ==
    ASSUME TypesInv, EpochsApart, WorkerNext
    PROVE  EpochsApart'
  <1> SUFFICES ASSUME NEW s \in Workers, NEW t \in Workers,
                      slot'[s].pc # "Idle", slot'[t].pc # "Idle",
                      slot'[s].run = slot'[t].run, slot'[s].epoch = slot'[t].epoch,
                      s # t
               PROVE  FALSE
    BY DEF EpochsApart
  <1> DEFINE Carried(u) == slot[u].pc # "Idle" /\ slot[u].run = slot'[u].run
                          /\ slot[u].epoch = slot'[u].epoch
             Fresh(u) == /\ OthersStay(u)
                         /\ \E r \in RunIds : RunTaken(r) /\ slot'[u] = ClaimedSlot(r)
  <1>1. ASSUME NEW u \in Workers, slot'[u].pc # "Idle"
        PROVE  Carried(u) \/ Fresh(u)
    <2>1. Idle.pc = "Idle"
      BY DEF Idle
    <2>2. CASE slot'[u] = slot[u]
      BY <1>1, <2>2
    <2>3. CASE Moves(u) /\ WellPlaced(u)
      BY <1>1, <2>1, <2>3, MoveKinds DEF SameAttempt, WellPlaced
    <2>4. QED
      BY <2>2, <2>3, EverySlotStep
  <1>2. ASSUME NEW u \in Workers, NEW v \in Workers, u # v, Fresh(u),
               slot'[v].pc # "Idle", slot'[v].run = slot'[u].run
        PROVE  slot'[v].epoch # slot'[u].epoch
    <2>1. PICK r \in RunIds : RunTaken(r) /\ slot'[u] = ClaimedSlot(r)
      BY <1>2
    <2>2. slot'[u].run = r
      BY <2>1, ClaimedSlotFields
    <2>3. QED
      BY <1>2, <2>1, <2>2, NewEpoch
  <1>3. Carried(s) /\ Carried(t)
    BY <1>1, <1>2
  <1>4. QED
    BY <1>3 DEF EpochsApart

(* The attempt that owns its run goes on owning it, while its lease is     *)
(* live or nobody claims: only its own last write ends the lease.          *)
LEMMA FenceStays ==
    ASSUME TypesInv, EpochsApart, WorkerNext, NEW s \in Workers,
           slot[s].pc # "Idle", Owns(s),
           slot'[s].pc # "Idle",
           slot'[s].run = slot[s].run, slot'[s].epoch = slot[s].epoch,
           \/ runs[slot[s].run].lease_expires_at > now
           \/ ~TurnsArePrompt
    PROVE  /\ Owns(s)'
           /\ runs'[slot[s].run].lease_expires_at \in
                 {runs[slot[s].run].lease_expires_at, now + Ttl}
  <1> DEFINE r == slot[s].run
  <1>1. r \in RunIds /\ r < next_seq
    BY DEF TypesInv, SlotsInv, SlotInv
  <1>2. runs[r].state = "Running" /\ runs[r].lease_epoch = slot[s].epoch
    BY DEF Owns, Fenced
  <1>3. ~(TurnsArePrompt /\ LeaseExpired(r, now))
    <2>1. runs[r].lease_expires_at # None
      BY <1>1, <1>2, RunHere DEF RecordInv
    <2>2. QED
      BY <2>1 DEF LeaseExpired
  <1>4. runs'[r].state = "Running" /\ runs'[r].lease_epoch = runs[r].lease_epoch
          /\ runs'[r].lease_expires_at \in {runs[r].lease_expires_at, now + Ttl}
    <2>1. CASE runs'[r] = runs[r]
      BY <1>2, <2>1
    <2>2. CASE RunGone(r)
      BY <1>2, <2>2 DEF RunGone, IsTerminal, Terminal
    <2>3. CASE RunNew(r)
      BY <1>1, <2>3, RunStoreAssumption DEF RunNew, TypesInv, TypeOK, RunIds
    <2>4. CASE RunSame(r)
      <3>1. ASSUME NEW t \in Workers, slot[t].pc # "Idle", slot[t].run = r, Owns(t),
                   slot'[t] = Idle
            PROVE  FALSE
        <4>1. slot[t].epoch = slot[s].epoch
          BY <1>2, <3>1 DEF Owns, Fenced
        <4>2. t = s
          BY <3>1, <4>1 DEF EpochsApart
        <4>3. QED
          BY <3>1, <4>2 DEF Idle
      <3>2. QED
        BY <1>2, <1>3, <2>4, <3>1 DEF RunSame, Held
    <2>5. CASE RunTaken(r)
      BY <1>2, <1>3, <2>5 DEF RunTaken, Held, Takes
    <2>6. CASE RunRecorded(r)
      BY <2>6 DEF RunRecorded, Held
    <2>7. QED
      BY <1>1, <2>1, <2>2, <2>3, <2>4, <2>5, <2>6, EveryWorkerRunStep DEF WorkerRunStep
  <1>5. QED
    BY <1>2, <1>4 DEF Owns, Fenced

(* An attempt does not come to own its run but by claiming it. *)
LEMMA OwnsBack ==
    ASSUME TypesInv, WorkerNext, NEW s \in Workers,
           slot[s].pc # "Idle",
           slot'[s].run = slot[s].run, slot'[s].epoch = slot[s].epoch,
           Owns(s)'
    PROVE  Owns(s)
  <1> DEFINE r == slot[s].run
  <1>1. r \in RunIds /\ r < next_seq /\ slot[s].epoch \in Nat
    BY RunStoreAssumption DEF TypesInv, SlotsInv, SlotInv
  <1>2. runs'[r].state = "Running" /\ runs'[r].lease_epoch = slot[s].epoch
    BY DEF Owns, Fenced
  <1>3. runs[r].state # "Absent" /\ runs[r].lease_epoch \in Nat
    BY <1>1, <1>2, EpochStep
  <1>4. slot[s].epoch <= runs[r].lease_epoch
    BY <1>3 DEF TypesInv, SlotsInv, SlotInv
  <1>5. runs[r].state = "Running" /\ runs[r].lease_epoch = slot[s].epoch
    <2>1. CASE runs'[r] = runs[r]
      BY <1>2, <2>1
    <2>2. CASE RunGone(r)
      BY <1>2, <2>2 DEF RunGone, AbsentRun
    <2>3. CASE RunNew(r)
      BY <1>1, <2>3, RunStoreAssumption DEF RunNew, TypesInv, TypeOK, RunIds
    <2>4. CASE RunSame(r)
      BY <1>2, <2>4 DEF RunSame, Held
    <2>5. CASE RunTaken(r)
      BY <1>1, <1>2, <1>3, <1>4, <2>5 DEF RunTaken
    <2>6. CASE RunRecorded(r)
      BY <1>2, <2>6 DEF RunRecorded, Held
    <2>7. QED
      BY <1>1, <2>1, <2>2, <2>3, <2>4, <2>5, <2>6, EveryWorkerRunStep DEF WorkerRunStep
  <1>6. QED
    BY <1>5 DEF Owns, Fenced

-----------------------------------------------------------------------------
(* The worker's view of its lease.                                         *)

(* A slot's lease is what the store gave it: a claim that was not answered *)
(* yet is of this instant, and an attempt that believes in its lease owns  *)
(* its run, until no earlier than it believes.                             *)
LeaseOf(s) ==
    /\ slot[s].beat # None => slot[s].beat <= now
    /\ slot[s].pc = "Claiming" =>
          /\ slot[s].sent = now
          /\ Owns(s)
          /\ runs[slot[s].run].lease_expires_at = now + Ttl
    /\ slot[s].pc \in Working => slot[s].valid_until <= now + Ttl
    /\ slot[s].pc \in Working /\ IsValid(s) =>
          /\ Owns(s)
          /\ slot[s].valid_until <= runs[slot[s].run].lease_expires_at

LeaseInv == \A s \in Workers : LeaseOf(s)

LEMMA TimesHere ==
    ASSUME TypesInv, NEW s \in Workers
    PROVE  /\ slot[s].valid_until \in Nat /\ slot[s].beat \in Nat \cup {None}
           /\ slot[s].sent \in Nat /\ now \in Nat /\ Ttl \in Nat /\ Ttl > 0
           /\ None \notin Nat
           /\ Owns(s) /\ slot[s].pc # "Idle" =>
                 runs[slot[s].run].lease_expires_at \in Nat
  <1>1. slot[s] \in Slot /\ now \in Nat
    BY SlotHere
  <1>2. ASSUME Owns(s), slot[s].pc # "Idle"
        PROVE  runs[slot[s].run].lease_expires_at \in Nat
    <2>1. slot[s].run \in RunIds
      BY <1>2, SlotHere
    <2>2. QED
      BY <1>2, <2>1, RunHere DEF RecordInv, Owns, Fenced, RunRecord, OptTime
  <1>3. QED
    BY <1>1, <1>2, RunStoreAssumption DEF Slot, Time, OptTime

(* The clock moves only while no claim waits for its answer. *)
LEMMA TickWaits ==
    ASSUME TypesInv, LeaseInv, MaxClaimLatency = 0, WorkerNext, now' # now
    PROVE  /\ now' = now + 1
           /\ slot' = slot
           /\ \A s \in Workers : slot[s].pc # "Claiming"
  <1>1. WorkerTick /\ now' = now + 1
    BY ClockStep
  <1>2. slot' = slot
    BY <1>1 DEF WorkerTick, workerVars
  <1>3. ASSUME NEW s \in Workers, slot[s].pc = "Claiming"
        PROVE  FALSE
    BY <1>1, <1>3, TimesHere DEF WorkerTick, LeaseInv, LeaseOf
  <1>4. QED
    BY <1>1, <1>2, <1>3

(* An attempt that keeps its view of the lease.                            *)
LEMMA LeaseKeeps ==
    ASSUME TypesInv, EpochsApart, LeaseInv, MaxClaimLatency = 0, WorkerNext,
           NEW s \in Workers, slot[s].pc \in Working, slot'[s].pc \in Working,
           slot'[s].run = slot[s].run, slot'[s].epoch = slot[s].epoch,
           slot'[s].valid_until = slot[s].valid_until,
           slot'[s].beat \in {slot[s].beat, now, None}
    PROVE  LeaseOf(s)'
  <1>1. now' \in Nat /\ now <= now'
    BY TickWaits, TimesHere
  <1>2. slot'[s].pc # "Idle" /\ slot[s].pc # "Idle" /\ slot'[s].pc # "Claiming"
    BY DEF Working
  <1>3. slot'[s].beat # None => slot'[s].beat <= now'
    BY <1>1, TimesHere DEF LeaseInv, LeaseOf
  <1>4. slot'[s].valid_until <= now' + Ttl
    BY <1>1, TimesHere DEF LeaseInv, LeaseOf
  <1>5. ASSUME IsValid(s)'
        PROVE  Owns(s)' /\ slot'[s].valid_until <= runs'[slot'[s].run].lease_expires_at
    <2>1. now < slot[s].valid_until
      BY <1>1, <1>5, TimesHere DEF IsValid
    <2>2. Owns(s) /\ slot[s].valid_until <= runs[slot[s].run].lease_expires_at
      BY <2>1 DEF LeaseInv, LeaseOf, IsValid
    <2>3. runs[slot[s].run].lease_expires_at > now
      BY <1>2, <2>1, <2>2, TimesHere
    <2>4. /\ Owns(s)'
          /\ runs'[slot[s].run].lease_expires_at \in
                {runs[slot[s].run].lease_expires_at, now + Ttl}
      BY <1>2, <2>2, <2>3, FenceStays
    <2>5. slot[s].valid_until <= now + Ttl
      BY DEF LeaseInv, LeaseOf
    <2>6. QED
      BY <2>2, <2>4, <2>5
  <1>6. QED
    BY <1>2, <1>3, <1>4, <1>5 DEF LeaseOf

(* The claim that just took effect, and its answer. *)
LEMMA LeaseTaken ==
    ASSUME TypesInv, WorkerNext, NEW s \in Workers, NEW r \in RunIds,
           RunTaken(r), slot'[s] = ClaimedSlot(r), now' = now
    PROVE  LeaseOf(s)'
  <1>1. /\ slot'[s].pc = "Claiming" /\ slot'[s].run = r
        /\ slot'[s].epoch = runs[r].lease_epoch + 1
        /\ slot'[s].sent = now /\ slot'[s].beat = None
    BY ClaimedSlotFields
  <1>2. /\ runs'[r].state = "Running"
        /\ runs'[r].lease_epoch = runs[r].lease_epoch + 1
        /\ runs'[r].lease_expires_at = now + Ttl
    BY DEF RunTaken, Held
  <1>3. QED
    BY <1>1, <1>2 DEF LeaseOf, Owns, Fenced, Working

LEMMA LeaseReturned ==
    ASSUME TypesInv, EpochsApart, LeaseInv, WorkerNext, NEW s \in Workers,
           Returns(s), now' = now
    PROVE  LeaseOf(s)'
  <1>1. slot[s].pc = "Claiming" /\ slot[s].pc # "Idle" /\ slot'[s].pc # "Idle"
          /\ slot'[s].pc # "Claiming"
          /\ slot'[s].run = slot[s].run /\ slot'[s].epoch = slot[s].epoch
          /\ slot'[s].valid_until = now + Ttl /\ slot'[s].beat = slot[s].beat
    BY DEF Returns, SameAttempt
  <1>2. Owns(s) /\ runs[slot[s].run].lease_expires_at = now + Ttl
    BY <1>1 DEF LeaseInv, LeaseOf
  <1>3. Owns(s)' /\ runs'[slot[s].run].lease_expires_at = now + Ttl
    <2>1. now + Ttl > now
      BY TimesHere
    <2>2. QED
      BY <1>1, <1>2, <2>1, FenceStays
  <1>4. slot'[s].valid_until <= now' + Ttl
    BY <1>1, TimesHere
  <1>5. slot'[s].beat # None => slot'[s].beat <= now'
    BY <1>1 DEF LeaseInv, LeaseOf
  <1>6. slot'[s].valid_until <= runs'[slot'[s].run].lease_expires_at
    BY <1>1, <1>3, TimesHere
  <1>7. QED
    BY <1>1, <1>3, <1>4, <1>5, <1>6 DEF LeaseOf

LEMMA LeaseRenewed ==
    ASSUME TypesInv, LeaseInv, WorkerNext, NEW s \in Workers, Renews(s), now' = now
    PROVE  LeaseOf(s)'
  <1> DEFINE r == slot[s].run
  <1>1. slot[s].pc # "Idle" /\ slot'[s].pc # "Claiming"
          /\ slot'[s].run = r /\ slot'[s].epoch = slot[s].epoch
          /\ slot[s].beat # None
          /\ slot'[s].valid_until = slot[s].beat + Ttl /\ slot'[s].beat = None
    BY DEF Renews, SameAttempt, Working
  <1>2. Heartbeat(r, slot[s].epoch, now) /\ r \in RunIds
    BY <1>1, SlotHere DEF Renews
  <1>3. runs'[r] = Touch([runs[r] EXCEPT !.lease_expires_at = now + Ttl], now)
    BY <1>2, RunHere DEF Heartbeat
  <1>4. runs'[r].state = runs[r].state /\ runs'[r].lease_epoch = runs[r].lease_epoch
          /\ runs'[r].lease_expires_at = now + Ttl
    BY <1>2, <1>3, RunHere, RenewedEffects
  <1>5. Owns(s)'
    BY <1>1, <1>2, <1>4 DEF Heartbeat, Owns, Fenced
  <1>6. slot'[s].valid_until <= now + Ttl
    BY <1>1, TimesHere DEF LeaseInv, LeaseOf
  <1>7. QED
    BY <1>1, <1>4, <1>5, <1>6 DEF LeaseOf

LEMMA LeaseStep ==
    ASSUME TypesInv, EpochsApart, LeaseInv, MaxClaimLatency = 0, WorkerNext
    PROVE  LeaseInv'
  <1> SUFFICES ASSUME NEW s \in Workers
               PROVE  LeaseOf(s)'
    BY DEF LeaseInv
  <1>1. CASE slot'[s] = slot[s]
    <2>1. CASE slot[s].pc \in Working
      BY <1>1, <2>1, LeaseKeeps
    <2>2. CASE slot[s].pc = "Claiming"
      <3>1. now' = now
        BY <2>2, TickWaits
      <3>2. Owns(s) /\ runs[slot[s].run].lease_expires_at = now + Ttl
              /\ slot[s].sent = now
        BY <2>2 DEF LeaseInv, LeaseOf
      <3>3. now + Ttl > now
        BY TimesHere
      <3>4. Owns(s)' /\ runs'[slot[s].run].lease_expires_at = now + Ttl
        BY <1>1, <2>2, <3>2, <3>3, FenceStays
      <3>5. slot[s].beat # None => slot[s].beat <= now
        BY DEF LeaseInv, LeaseOf
      <3>6. QED
        BY <1>1, <2>2, <3>1, <3>2, <3>4, <3>5 DEF LeaseOf, Working
    <2>3. CASE slot[s].pc \notin Working \cup {"Claiming"}
      <3>1. slot[s].beat # None => slot[s].beat <= now'
        <4>1. slot[s].beat # None => slot[s].beat <= now
          BY DEF LeaseInv, LeaseOf
        <4>2. QED
          BY <4>1, TickWaits, TimesHere
      <3>2. QED
        BY <1>1, <2>3, <3>1 DEF LeaseOf
    <2>4. QED
      BY <2>1, <2>2, <2>3
  <1>2. CASE slot'[s] # slot[s]
    <2>1. now' = now
      BY <1>2, TickWaits
    <2>2. Moves(s) /\ WellPlaced(s)
      BY <1>2, EverySlotStep
    <2>3. CASE Takes(s)
      <3>1. slot[s].pc = "Idle" /\ slot'[s].pc # "Idle"
        BY <2>3 DEF Takes, ClaimedSlot, Idle
      <3>2. PICK r \in RunIds : RunTaken(r) /\ slot'[s] = ClaimedSlot(r)
        BY <2>2, <3>1, MoveKinds DEF SameAttempt, Idle
      <3>3. QED
        BY <2>1, <3>2, LeaseTaken
    <2>4. CASE Leaves(s)
      BY <2>1, <2>4 DEF Leaves, Idle, LeaseOf, Working
    <2>5. CASE Returns(s)
      BY <2>1, <2>5, LeaseReturned
    <2>6. CASE Beats(s)
      BY <2>6, LeaseKeeps DEF Beats, SameAttempt
    <2>7. CASE Renews(s)
      BY <2>1, <2>7, LeaseRenewed
    <2>8. CASE Starts(s) \/ Records(s) \/ Persists(s) \/ Produces(s)
      <3>1. SameAttempt(s) /\ SameLease(s)
        BY <2>8 DEF Starts, Records, Persists, Produces, Says
      <3>2. slot[s].pc \in Working /\ slot'[s].pc \in Working
        BY <2>8 DEF Starts, Records, Persists, Produces, Working
      <3>3. QED
        BY <3>1, <3>2, LeaseKeeps DEF SameAttempt, SameLease
    <2>9. CASE Stops(s) \/ Holds(s)
      BY <2>9 DEF Stops, Holds, LeaseOf, Working, Writing
    <2>10. QED
      BY <2>2, <2>3, <2>4, <2>5, <2>6, <2>7, <2>8, <2>9 DEF Moves
  <1>3. QED
    BY <1>1, <1>2

-----------------------------------------------------------------------------
(* Who adds events to a session.                                           *)

(* No attempt stalls before its user turn until its run is recovered. *)
PollingOwns == \A s \in Workers : slot[s].pc = "Polling" => Owns(s)

LEMMA PollingStep ==
    ASSUME TypesInv, EpochsApart, PollingOwns, StallsBeforeTurn = FALSE, WorkerNext
    PROVE  PollingOwns'
  <1> SUFFICES ASSUME NEW s \in Workers, slot'[s].pc = "Polling"
               PROVE  Owns(s)'
    BY DEF PollingOwns
  <1>1. ASSUME slot[s].pc = "Polling", slot'[s].run = slot[s].run,
               slot'[s].epoch = slot[s].epoch
        PROVE  Owns(s)'
    <2>1. ~TurnsArePrompt /\ Owns(s)
      BY <1>1 DEF TurnsArePrompt, PollingOwns
    <2>2. QED
      BY <1>1, <2>1, FenceStays
  <1>2. ASSUME Records(s)
        PROVE  Owns(s)'
    <2> DEFINE r == slot[s].run
               c == CheckpointRef("Session", slot[s].epoch, None)
    <2>1. SetCheckpoint(r, slot[s].epoch, c, now) /\ r \in RunIds
            /\ slot'[s].run = r /\ slot'[s].epoch = slot[s].epoch
      BY <1>2, SlotHere DEF Records, SameAttempt
    <2> HIDE DEF c
    <2>2. runs'[r] = Touch([runs[r] EXCEPT !.checkpoint = c], now)
      BY <2>1, RunHere DEF SetCheckpoint
    <2>3. runs'[r].state = runs[r].state /\ runs'[r].lease_epoch = runs[r].lease_epoch
      BY <2>1, <2>2, RunHere, RecordedEffects
    <2>4. QED
      BY <2>1, <2>3 DEF SetCheckpoint, Owns, Fenced
  <1>3. CASE slot'[s] = slot[s]
    BY <1>1, <1>3
  <1>4. CASE Moves(s) /\ WellPlaced(s)
    <2>1. CASE Beats(s) \/ Renews(s)
      BY <1>1, <2>1 DEF Beats, Renews, SameAttempt
    <2>2. CASE Records(s)
      BY <1>2, <2>2
    <2>3. CASE Takes(s)
      BY <2>3 DEF Takes, ClaimedSlot, Idle
    <2>4. CASE Leaves(s) \/ Returns(s) \/ Starts(s) \/ Stops(s) \/ Holds(s)
                 \/ Persists(s) \/ Produces(s)
      BY <2>4 DEF Leaves, Idle, Returns, Starts, Stops, Holds, Persists, Produces, Writing
    <2>5. QED
      BY <1>4, <2>1, <2>2, <2>3, <2>4 DEF Moves
  <1>5. QED
    BY <1>3, <1>4, EverySlotStep

(* An event is added by the attempt that owns the run. *)
LEMMA WriterOwns ==
    ASSUME LeaseInv, PollingOwns, NEW s \in Workers, Persists(s) \/ Produces(s)
    PROVE  Owns(s)
  <1>1. CASE Persists(s)
    BY <1>1 DEF Persists, PollingOwns
  <1>2. CASE Produces(s)
    BY <1>2 DEF Produces, LeaseInv, LeaseOf, Working
  <1>3. QED
    BY <1>1, <1>2

FenceInv == TypesInv /\ EpochsApart /\ LeaseInv

LEMMA FenceInit == WorkerInit => EpochsApart /\ LeaseInv /\ PollingOwns
  <1> SUFFICES ASSUME WorkerInit
               PROVE  EpochsApart /\ LeaseInv /\ PollingOwns
    OBVIOUS
  <1>1. \A s \in Workers : slot[s].pc = "Idle" /\ slot[s].beat = None
    BY DEF WorkerInit, Idle
  <1>2. QED
    BY <1>1 DEF EpochsApart, LeaseInv, LeaseOf, PollingOwns, Working

LEMMA FenceStep ==
    ASSUME MaxClaimLatency = 0
    PROVE  FenceInv /\ [WorkerNext]_vars => FenceInv'
  <1> SUFFICES ASSUME FenceInv, [WorkerNext]_vars
               PROVE  FenceInv'
    OBVIOUS
  <1>1. TypesInv'
    BY TypesStep DEF FenceInv
  <1>2. CASE WorkerNext
    BY <1>1, <1>2, EpochsApartStep, LeaseStep DEF FenceInv
  <1>3. CASE UNCHANGED vars
    BY <1>1, <1>3
       DEF FenceInv, vars, EpochsApart, LeaseInv, LeaseOf, Owns, Fenced, IsValid
  <1>4. QED
    BY <1>2, <1>3

LEMMA FenceAlways ==
    ASSUME MaxClaimLatency = 0
    PROVE  WorkerSpec => []FenceInv
  <1>1. WorkerInit /\ TypesInv => FenceInv
    BY FenceInit DEF FenceInv
  <1>2. QED
    BY <1>1, FenceStep, TypesAlways, PTL DEF WorkerSpec

LEMMA PollingAlways ==
    ASSUME MaxClaimLatency = 0, StallsBeforeTurn = FALSE
    PROVE  WorkerSpec => []PollingOwns
  <1>1. FenceInv /\ PollingOwns /\ [WorkerNext]_vars => PollingOwns'
    <2> SUFFICES ASSUME FenceInv, PollingOwns, [WorkerNext]_vars
                 PROVE  PollingOwns'
      OBVIOUS
    <2>1. CASE WorkerNext
      BY <2>1, PollingStep DEF FenceInv
    <2>2. CASE UNCHANGED vars
      BY <2>2 DEF vars, PollingOwns, Owns, Fenced
    <2>3. QED
      BY <2>1, <2>2
  <1>2. QED
    BY <1>1, FenceInit, FenceAlways, PTL DEF WorkerSpec

(* "The lease is provably held until this instant" (LeaseState): where the *)
(* answer to a claim takes no time, an attempt that believes in its lease  *)
(* is the one the store accepts writes of.                                 *)
THEOREM LeaseIsProvablyHeld ==
    ASSUME MaxClaimLatency = 0
    PROVE  WorkerSpec => []ProvablyHeld
  <1>1. FenceInv => ProvablyHeld
    BY DEF FenceInv, LeaseInv, LeaseOf, ProvablyHeld
  <1>2. QED
    BY <1>1, FenceAlways, PTL

(* "no further session event, tool call, or store write happens" (Fencing  *)
(* a stalled worker): where, besides, no attempt stalls before its user    *)
(* turn, only the attempt that owns a run adds events to its session.      *)
THEOREM OnlyOwnersAddEvents ==
    ASSUME MaxClaimLatency = 0, StallsBeforeTurn = FALSE
    PROVE  WorkerSpec => NoStaleEvent
  <1>1. FenceInv /\ PollingOwns /\ [WorkerNext]_vars =>
            [\A r \in RunIds :
                session'[r] # session[r]
                    => Fenced(r, session'[r][Len(session'[r])].invocation)]_vars
    <2> SUFFICES ASSUME FenceInv, PollingOwns, WorkerNext,
                        NEW r \in RunIds, session'[r] # session[r]
                 PROVE  Fenced(r, session'[r][Len(session'[r])].invocation)
      OBVIOUS
    <2>1. PICK s \in Workers, kind \in UserTurns \cup AgentEvents :
             /\ Persists(s) \/ Produces(s)
             /\ slot[s].run = r
             /\ session'[r] =
                    Append(session[r], [invocation |-> slot[s].epoch, kind |-> kind])
      BY SessionStep DEF FenceInv
    <2> DEFINE event == [invocation |-> slot[s].epoch, kind |-> kind]
    <2>2. Owns(s)
      BY <2>1, WriterOwns DEF FenceInv
    <2>3. session[r] \in Seq(Event)
      BY DEF FenceInv, TypesInv, WorkerTypeOK
    <2>4. event.invocation = slot[s].epoch
      OBVIOUS
    <2> HIDE DEF event
    <2>5. session'[r] = Append(session[r], event)
      BY <2>1 DEF event
    <2>6. session'[r][Len(session'[r])] = event
      BY <2>3, <2>5
    <2>7. QED
      BY <2>1, <2>2, <2>4, <2>6 DEF Owns
  <1>2. QED
    BY <1>1, FenceAlways, PollingAlways, PTL DEF NoStaleEvent, WorkerSpec

-----------------------------------------------------------------------------
(* Checkpoints name the user turns.                                        *)

(* An attempt that reached its stream has recorded its invocation. *)
NamesItself(s) ==
    slot[s].pc \in {"Polling", "Running", "Ended"}
      /\ runs[slot[s].run].state # "Absent"
        => /\ runs[slot[s].run].checkpoint # None
           /\ runs[slot[s].run].checkpoint.invocation >= slot[s].epoch

NamedInv == TurnIsNamed /\ \A s \in Workers : NamesItself(s)

LEMMA CheckpointHere ==
    ASSUME TypesInv, NEW r \in RunIds, runs[r].checkpoint # None
    PROVE  runs[r].checkpoint.invocation \in Nat
  <1>1. runs[r].checkpoint \in Checkpoints
    BY RunHere DEF RunRecord
  <1>2. QED
    BY <1>1, WorkerCallsAssumption, RunStoreAssumption
       DEF WorkerCheckpoints, CheckpointRef

LEMMA CheckpointNext ==
    ASSUME TypesInv, [WorkerNext]_vars, NEW r \in RunIds, runs'[r].checkpoint # None
    PROVE  runs'[r].checkpoint.invocation \in Nat
  <1>1. runs' \in [RunIds -> RunRecord]
    BY TypesStep DEF TypesInv, TypeOK
  <1>2. runs'[r].checkpoint \in Checkpoints
    BY <1>1 DEF RunRecord
  <1>3. QED
    BY <1>2, WorkerCallsAssumption, RunStoreAssumption
       DEF WorkerCheckpoints, CheckpointRef

(* A run's checkpoint only moves to later invocations. *)
LEMMA CheckpointStep ==
    ASSUME TypesInv, WorkerNext, NEW r \in RunIds, r < next_seq,
           runs'[r].state # "Absent", runs[r].checkpoint # None
    PROVE  /\ runs[r].state # "Absent"
           /\ runs'[r].checkpoint # None
           /\ runs'[r].checkpoint.invocation >= runs[r].checkpoint.invocation
  <1>1. runs[r].checkpoint.invocation \in Nat
          /\ runs[r].checkpoint.invocation <= runs[r].lease_epoch
    BY CheckpointHere DEF TypesInv, BoundsInv
  <1>2. runs[r].state # "Absent"
    BY EpochStep
  <1>3. CASE runs'[r] = runs[r]
    BY <1>1, <1>2, <1>3
  <1>4. CASE RunGone(r)
    BY <1>4 DEF RunGone, AbsentRun
  <1>5. CASE RunNew(r)
    BY <1>5, RunStoreAssumption DEF RunNew, TypesInv, TypeOK, RunIds
  <1>6. CASE RunSame(r)
    BY <1>1, <1>2, <1>6 DEF RunSame
  <1>7. CASE RunTaken(r)
    BY <1>1, <1>2, <1>7 DEF RunTaken
  <1>8. CASE RunRecorded(r)
    BY <1>1, <1>2, <1>8 DEF RunRecorded, Owns, Fenced
  <1>9. QED
    BY <1>3, <1>4, <1>5, <1>6, <1>7, <1>8, EveryWorkerRunStep DEF WorkerRunStep

(* A session that has events is of a run that was enqueued. *)
LEMMA SessionHere ==
    ASSUME TypesInv, NEW r \in RunIds
    PROVE  /\ session[r] \in Seq(Event)
           /\ session[r] # <<>> => r < next_seq
           /\ \A i \in 1 .. Len(session[r]) :
                 /\ r < next_seq
                 /\ session[r][i] \in Event
                 /\ session[r][i].invocation \in Nat
  <1>1. session[r] \in Seq(Event)
    BY DEF TypesInv, WorkerTypeOK
  <1>2. session[r] # <<>> => r < next_seq
    BY RunStoreAssumption DEF TypesInv, TypeOK, BoundsInv, RunIds
  <1>3. ASSUME NEW i \in 1 .. Len(session[r])
        PROVE  r < next_seq /\ session[r][i] \in Event
                 /\ session[r][i].invocation \in Nat
    <2>1. session[r] # <<>>
      BY <1>1, <1>3
    <2>2. session[r][i] \in Event
      BY <1>1, <1>3
    <2>3. session[r][i].invocation \in Nat
      BY <2>2, RunStoreAssumption DEF Event, Epochs
    <2>4. QED
      BY <1>2, <2>1, <2>2, <2>3
  <1>4. QED
    BY <1>1, <1>2, <1>3

(* Slot s adds an event of this kind to the session of its run. *)
Adds(s, kind) ==
    /\ \/ Persists(s) /\ kind \in UserTurns
       \/ Produces(s) /\ kind \in AgentEvents
    /\ WellPlaced(s)
    /\ kind \in AgentEvents =>
           slot'[s].pc = IF kind = "Call" THEN "Running" ELSE "Ended"
    /\ session'[slot[s].run] =
           Append(session[slot[s].run], [invocation |-> slot[s].epoch, kind |-> kind])

LEMMA AddedBy ==
    ASSUME TypesInv, WorkerNext, NEW r \in RunIds, session'[r] # session[r]
    PROVE  \E s \in Workers, kind \in UserTurns \cup AgentEvents :
              /\ Adds(s, kind) /\ slot[s].run = r
              /\ session'[r] =
                     Append(session[r], [invocation |-> slot[s].epoch, kind |-> kind])
  <1>1. PICK s \in Workers, kind \in UserTurns \cup AgentEvents :
           /\ \/ Persists(s) /\ kind \in UserTurns
              \/ Produces(s) /\ kind \in AgentEvents
           /\ WellPlaced(s)
           /\ slot[s].run = r
           /\ kind \in AgentEvents =>
                  slot'[s].pc = IF kind = "Call" THEN "Running" ELSE "Ended"
           /\ session'[r] =
                  Append(session[r], [invocation |-> slot[s].epoch, kind |-> kind])
    BY SessionStep
  <1>2. Adds(s, kind)
    BY <1>1 DEF Adds
  <1>3. QED
    BY <1>1, <1>2

(* The events of a session after a step: those before, and at most one     *)
(* more, of the slot that says it.                                         *)
LEMMA EventsAfter ==
    ASSUME TypesInv, WorkerNext, NEW r \in RunIds, NEW i \in 1 .. Len(session'[r])
    PROVE  \/ /\ i \in 1 .. Len(session[r])
              /\ session'[r][i] = session[r][i]
           \/ /\ i = Len(session'[r]) /\ i = Len(session[r]) + 1
              /\ \E s \in Workers, kind \in UserTurns \cup AgentEvents :
                    /\ Adds(s, kind)
                    /\ slot[s].run = r
                    /\ session'[r][i] = [invocation |-> slot[s].epoch, kind |-> kind]
  <1>1. session[r] \in Seq(Event)
    BY SessionHere
  <1>2. CASE session'[r] = session[r]
    BY <1>2
  <1>3. CASE session'[r] # session[r]
    <2>1. PICK s \in Workers, kind \in UserTurns \cup AgentEvents :
             /\ Adds(s, kind)
             /\ slot[s].run = r
             /\ session'[r] =
                    Append(session[r], [invocation |-> slot[s].epoch, kind |-> kind])
      BY <1>3, AddedBy
    <2> DEFINE event == [invocation |-> slot[s].epoch, kind |-> kind]
    <2>2. session'[r] = Append(session[r], event)
      BY <2>1
    <2> HIDE DEF event
    <2>3. /\ Len(session'[r]) = Len(session[r]) + 1
          /\ session'[r][Len(session[r]) + 1] = event
          /\ \A j \in 1 .. Len(session[r]) : session'[r][j] = session[r][j]
          /\ Len(session[r]) \in Nat
      BY <1>1, <2>2
    <2>4. CASE i \in 1 .. Len(session[r])
      BY <2>3, <2>4
    <2>5. CASE i = Len(session[r]) + 1
      <3>1. session'[r][i] = [invocation |-> slot[s].epoch, kind |-> kind]
        BY <2>3, <2>5 DEF event
      <3>2. QED
        BY <2>1, <2>3, <2>5, <3>1
    <2>6. i \in 1 .. Len(session[r]) \/ i = Len(session[r]) + 1
      BY <2>3
    <2>7. QED
      BY <2>4, <2>5, <2>6
  <1>4. QED
    BY <1>2, <1>3

LEMMA TurnIsNamedStep ==
    ASSUME TypesInv, NamedInv, WorkerNext
    PROVE  TurnIsNamed'
  <1> SUFFICES ASSUME NEW r \in RunIds, NEW i \in 1 .. Len(session'[r]),
                      runs'[r].state # "Absent"
               PROVE  /\ runs'[r].checkpoint # None
                      /\ runs'[r].checkpoint.invocation >= session'[r][i].invocation
    BY DEF TurnIsNamed
  <1>1. ASSUME r < next_seq, NEW e \in Nat,
               runs[r].state # "Absent" =>
                  runs[r].checkpoint # None /\ runs[r].checkpoint.invocation >= e
        PROVE  runs'[r].checkpoint # None /\ runs'[r].checkpoint.invocation >= e
    <2>1. runs[r].state # "Absent"
      BY <1>1, EpochStep
    <2>2. runs[r].checkpoint # None /\ runs[r].checkpoint.invocation >= e
      BY <1>1, <2>1
    <2>3. runs'[r].checkpoint # None
            /\ runs'[r].checkpoint.invocation >= runs[r].checkpoint.invocation
      BY <1>1, <2>2, CheckpointStep
    <2>4. runs[r].checkpoint.invocation \in Nat
      BY <2>2, CheckpointHere
    <2>5. runs'[r].checkpoint.invocation \in Nat
      BY <2>3, CheckpointNext
    <2>6. QED
      BY <2>2, <2>3, <2>4, <2>5
  <1>2. CASE i \in 1 .. Len(session[r]) /\ session'[r][i] = session[r][i]
    <2>1. r < next_seq /\ session[r][i].invocation \in Nat
      BY <1>2, SessionHere
    <2>2. runs[r].state # "Absent" =>
             /\ runs[r].checkpoint # None
             /\ runs[r].checkpoint.invocation >= session[r][i].invocation
      BY <1>2 DEF NamedInv, TurnIsNamed
    <2>3. QED
      BY <1>1, <1>2, <2>1, <2>2
  <1>3. ASSUME NEW s \in Workers, Persists(s) \/ Produces(s), slot[s].run = r,
               session'[r][i].invocation = slot[s].epoch
        PROVE  /\ runs'[r].checkpoint # None
               /\ runs'[r].checkpoint.invocation >= session'[r][i].invocation
    <2>1. slot[s].pc \in {"Polling", "Running"}
      BY <1>3 DEF Persists, Produces
    <2>2. r < next_seq /\ slot[s].epoch \in Nat
      BY <1>3, <2>1, RunStoreAssumption DEF TypesInv, SlotsInv, SlotInv
    <2>3. NamesItself(s)
      BY DEF NamedInv
    <2>4. QED
      BY <1>1, <1>3, <2>1, <2>2, <2>3 DEF NamesItself
  <1>4. CASE ~(i \in 1 .. Len(session[r]) /\ session'[r][i] = session[r][i])
    <2>1. PICK s \in Workers, kind \in UserTurns \cup AgentEvents :
             /\ Adds(s, kind)
             /\ slot[s].run = r
             /\ session'[r][i] = [invocation |-> slot[s].epoch, kind |-> kind]
      BY <1>4, EventsAfter
    <2>2. Persists(s) \/ Produces(s)
      BY <2>1 DEF Adds
    <2>3. session'[r][i].invocation = slot[s].epoch
      BY <2>1
    <2>4. QED
      BY <1>3, <2>1, <2>2, <2>3
  <1>5. QED
    BY <1>2, <1>4

LEMMA NamesItselfStep ==
    ASSUME TypesInv, NamedInv, WorkerNext, NEW s \in Workers
    PROVE  NamesItself(s)'
  <1> SUFFICES ASSUME slot'[s].pc \in {"Polling", "Running", "Ended"},
                      runs'[slot'[s].run].state # "Absent"
               PROVE  /\ runs'[slot'[s].run].checkpoint # None
                      /\ runs'[slot'[s].run].checkpoint.invocation >= slot'[s].epoch
    BY DEF NamesItself
  <1>1. ASSUME slot[s].pc \in {"Polling", "Running", "Ended"},
               slot'[s].run = slot[s].run, slot'[s].epoch = slot[s].epoch
        PROVE  /\ runs'[slot'[s].run].checkpoint # None
               /\ runs'[slot'[s].run].checkpoint.invocation >= slot'[s].epoch
    <2> DEFINE r == slot[s].run
    <2>1. r \in RunIds /\ r < next_seq /\ slot[s].epoch \in Nat
      BY <1>1, RunStoreAssumption DEF TypesInv, SlotsInv, SlotInv
    <2>2. runs[r].state # "Absent"
      BY <1>1, <2>1, EpochStep
    <2>3. runs[r].checkpoint # None /\ runs[r].checkpoint.invocation >= slot[s].epoch
      BY <1>1, <2>2 DEF NamedInv, NamesItself
    <2>4. runs'[r].checkpoint # None
            /\ runs'[r].checkpoint.invocation >= runs[r].checkpoint.invocation
      BY <1>1, <2>1, <2>3, CheckpointStep
    <2>5. runs[r].checkpoint.invocation \in Nat
      BY <2>1, <2>3, CheckpointHere
    <2>6. runs'[r].checkpoint.invocation \in Nat
      BY <2>1, <2>4, CheckpointNext
    <2>7. QED
      BY <1>1, <2>1, <2>3, <2>4, <2>5, <2>6
  <1>2. ASSUME Records(s)
        PROVE  /\ runs'[slot'[s].run].checkpoint # None
               /\ runs'[slot'[s].run].checkpoint.invocation >= slot'[s].epoch
    <2> DEFINE r == slot[s].run
               c == CheckpointRef("Session", slot[s].epoch, None)
    <2>1. SetCheckpoint(r, slot[s].epoch, c, now) /\ r \in RunIds
            /\ slot'[s].run = r /\ slot'[s].epoch = slot[s].epoch
            /\ slot[s].epoch \in 1 .. MaxEpoch
      BY <1>2, SlotHere DEF Records, SameAttempt
    <2>2. c \in Checkpoints /\ c.invocation = slot[s].epoch
      <3>1. None \in Deadlines
        BY DEF Deadlines
      <3>2. QED
        BY <2>1, <3>1, CheckpointRefType DEF CheckpointRef
    <2> HIDE DEF c
    <2>3. runs'[r] = Touch([runs[r] EXCEPT !.checkpoint = c], now)
      BY <2>1, RunHere DEF SetCheckpoint
    <2>4. runs[r] \in RunRecord
      BY <2>1, RunHere
    <2>5. runs'[r].checkpoint = c
      BY <2>3, <2>4 DEF Touch, RunRecord
    <2>6. QED
      BY <2>1, <2>2, <2>5, RunStoreAssumption
  <1>3. CASE slot'[s] = slot[s]
    BY <1>1, <1>3
  <1>4. CASE Moves(s) /\ WellPlaced(s)
    <2>1. CASE Beats(s) \/ Renews(s) \/ Persists(s) \/ Produces(s)
      <3>1. SameAttempt(s) /\ slot[s].pc \in {"Polling", "Running", "Ended"}
        BY <2>1 DEF Beats, Renews, Persists, Produces, Says
      <3>2. QED
        BY <1>1, <3>1 DEF SameAttempt
    <2>2. CASE Records(s)
      BY <1>2, <2>2
    <2>3. CASE Takes(s)
      BY <2>3 DEF Takes, ClaimedSlot, Idle
    <2>4. CASE Leaves(s) \/ Returns(s) \/ Starts(s) \/ Stops(s) \/ Holds(s)
      BY <2>4 DEF Leaves, Idle, Returns, Starts, Stops, Holds, Writing
    <2>5. QED
      BY <1>4, <2>1, <2>2, <2>3, <2>4 DEF Moves
  <1>5. QED
    BY <1>3, <1>4, EverySlotStep

LEMMA NamedStep == TypesInv /\ NamedInv /\ [WorkerNext]_vars => NamedInv'
  <1> SUFFICES ASSUME TypesInv, NamedInv, [WorkerNext]_vars
               PROVE  NamedInv'
    OBVIOUS
  <1>1. CASE WorkerNext
    BY <1>1, TurnIsNamedStep, NamesItselfStep DEF NamedInv
  <1>2. CASE UNCHANGED vars
    BY <1>2 DEF vars, NamedInv, TurnIsNamed, NamesItself
  <1>3. QED
    BY <1>1, <1>2

LEMMA NamedAlways == WorkerSpec => []NamedInv
  <1>1. WorkerInit => NamedInv
    <2> SUFFICES ASSUME WorkerInit PROVE NamedInv
      OBVIOUS
    <2>1. \A s \in Workers : slot[s].pc = "Idle"
      BY DEF WorkerInit, Idle
    <2>2. \A r \in RunIds : Len(session[r]) = 0
      BY DEF WorkerInit
    <2>3. QED
      BY <2>1, <2>2 DEF NamedInv, TurnIsNamed, NamesItself
  <1>2. QED
    BY <1>1, NamedStep, TypesAlways, PTL DEF WorkerSpec

(* "the user turn never reaches the session without a checkpoint naming    *)
(* it" (run_agent), whatever the timing of claims and heartbeats.          *)
THEOREM TurnsAreNamed == WorkerSpec => []TurnIsNamed
  BY NamedAlways, PTL DEF NamedInv

-----------------------------------------------------------------------------
(* An agent answers once.                                                  *)

(* An attempt that has not ended its stream holds no call. *)
NoCallYet(s) ==
    slot[s].pc \in {"Claiming", "Preparing", "Starting", "Polling", "Running"}
        => ~HoldsCall(s)

(* The event that ended the stream of an attempt is still the last one. *)
EndedLast(s) ==
    slot[s].pc = "Ended" /\ Owns(s) =>
        /\ session[slot[s].run] # <<>>
        /\ session[slot[s].run][Len(session[slot[s].run])].invocation = slot[s].epoch

(* What an attempt that owns run r has left to do once invocation e has    *)
(* answered: at most to find the answer.                                   *)
FindsAnswer(s, r, e) ==
    slot[s].pc # "Idle" /\ slot[s].run = r /\ Owns(s) =>
        /\ slot[s].pc \notin {"Starting", "Polling", "Running"}
        /\ slot[s].pc \in {"Claiming", "Preparing"} =>
              slot[s].checkpoint # None /\ slot[s].checkpoint.invocation = e

Settled(r, e) ==
    /\ ~Has(session[r], e, {"Held"})
    /\ runs[r].state # "Absent" =>
          runs[r].checkpoint # None /\ runs[r].checkpoint.invocation = e
    /\ \A s \in Workers : FindsAnswer(s, r, e)

AnswersLast ==
    \A r \in RunIds : \A i \in 1 .. Len(session[r]) :
        session[r][i].kind = "Answer" =>
            i = Len(session[r]) /\ Settled(r, session[r][i].invocation)

AnswerInv ==
    /\ \A s \in Workers : NoCallYet(s) /\ EndedLast(s)
    /\ AnswersLast

(* Two attempts that own a run are one. *)
LEMMA OneOwner ==
    ASSUME EpochsApart, NEW s \in Workers, NEW t \in Workers,
           slot[s].pc # "Idle", slot[t].pc # "Idle", slot[s].run = slot[t].run,
           Owns(s), Owns(t)
    PROVE  s = t
  BY DEF EpochsApart, Owns, Fenced

LEMMA AddsHere ==
    ASSUME NEW s \in Workers, NEW kind \in UserTurns \cup AgentEvents, Adds(s, kind)
    PROVE  /\ Persists(s) \/ Produces(s)
           /\ SameAttempt(s)
           /\ slot[s].pc \in {"Polling", "Running"}
           /\ kind \in AgentEvents =>
                  slot[s].pc = "Running" /\ StoreKept
                    /\ slot'[s].pc = IF kind = "Call" THEN "Running" ELSE "Ended"
           /\ OthersStay(s)
  <1>1. Persists(s) \/ Produces(s)
    BY DEF Adds
  <1>2. kind \in AgentEvents => Produces(s)
    BY DEF Adds, UserTurns, AgentEvents
  <1>3. SameAttempt(s) /\ StoreKept
    BY <1>1 DEF Persists, Produces, Says
  <1>4. QED
    BY <1>1, <1>2, <1>3 DEF Adds, Persists, Produces, WellPlaced

(* The session was left alone, or a slot that works on its run wrote it. *)
LEMMA SessionWriter ==
    ASSUME TypesInv, WorkerNext, NEW r \in RunIds, session'[r] # session[r]
    PROVE  \E s \in Workers, kind \in UserTurns \cup AgentEvents :
              /\ Adds(s, kind) /\ slot[s].run = r
              /\ session'[r] # <<>>
              /\ session'[r][Len(session'[r])].invocation = slot[s].epoch
  <1>1. PICK s \in Workers, kind \in UserTurns \cup AgentEvents :
           /\ Adds(s, kind) /\ slot[s].run = r
           /\ session'[r] =
                  Append(session[r], [invocation |-> slot[s].epoch, kind |-> kind])
    BY AddedBy
  <1> DEFINE event == [invocation |-> slot[s].epoch, kind |-> kind]
  <1>2. event.invocation = slot[s].epoch
    OBVIOUS
  <1>3. session'[r] = Append(session[r], event) /\ session[r] \in Seq(Event)
    BY <1>1, SessionHere
  <1> HIDE DEF event
  <1>4. session'[r] # <<>> /\ session'[r][Len(session'[r])] = event
    BY <1>3
  <1>5. QED
    BY <1>1, <1>2, <1>4

LEMMA HasAfter ==
    ASSUME TypesInv, WorkerNext, NEW r \in RunIds, NEW e, NEW kinds,
           Has(session'[r], e, kinds), ~Has(session[r], e, kinds)
    PROVE  \E s \in Workers, kind \in UserTurns \cup AgentEvents :
              Adds(s, kind) /\ slot[s].run = r /\ slot[s].epoch = e /\ kind \in kinds
  <1>1. PICK i \in 1 .. Len(session'[r]) :
           session'[r][i].invocation = e /\ session'[r][i].kind \in kinds
    BY DEF Has
  <1>2. ~(i \in 1 .. Len(session[r]) /\ session'[r][i] = session[r][i])
    BY <1>1 DEF Has
  <1>3. PICK s \in Workers, kind \in UserTurns \cup AgentEvents :
           /\ Adds(s, kind)
           /\ slot[s].run = r
           /\ session'[r][i] = [invocation |-> slot[s].epoch, kind |-> kind]
    BY <1>2, EventsAfter
  <1>4. session'[r][i].invocation = slot[s].epoch /\ session'[r][i].kind = kind
    BY <1>3
  <1>5. QED
    BY <1>1, <1>3, <1>4

(* No event of a session is of a claim to come. *)
LEMMA EventsOfThePast ==
    ASSUME TypesInv, NamedInv, NEW r \in RunIds, runs[r].state # "Absent", NEW kinds
    PROVE  ~Has(session[r], runs[r].lease_epoch + 1, kinds)
  <1> SUFFICES ASSUME NEW i \in 1 .. Len(session[r]),
                      session[r][i].invocation = runs[r].lease_epoch + 1
               PROVE  FALSE
    BY DEF Has
  <1>1. runs[r].checkpoint # None /\
          runs[r].checkpoint.invocation >= session[r][i].invocation
    BY DEF NamedInv, TurnIsNamed
  <1>2. runs[r].checkpoint.invocation <= runs[r].lease_epoch
    BY <1>1 DEF TypesInv, BoundsInv
  <1>3. runs[r].lease_epoch \in Nat /\ runs[r].checkpoint.invocation \in Nat
    BY <1>1, RunHere, CheckpointHere DEF RunRecord
  <1>4. QED
    BY <1>1, <1>2, <1>3

LEMMA NoCallYetStep ==
    ASSUME TypesInv, EpochsApart, NamedInv, WorkerNext,
           NEW s \in Workers, NoCallYet(s)
    PROVE  NoCallYet(s)'
  <1> DEFINE Open == {"Claiming", "Preparing", "Starting", "Polling", "Running"}
             r == slot'[s].run
             e == slot'[s].epoch
  <1> SUFFICES ASSUME slot'[s].pc \in Open, Has(session'[r], e, {"Held"})
               PROVE  FALSE
    BY DEF NoCallYet, HoldsCall
  <1>1. ASSUME slot[s].pc \in Open, slot[s].run = r, slot[s].epoch = e
        PROVE  FALSE
    <2>1. r \in RunIds
      BY <1>1, SlotHere
    <2>2. ~Has(session[r], e, {"Held"})
      BY <1>1 DEF NoCallYet, HoldsCall
    <2>3. PICK t \in Workers, kind \in UserTurns \cup AgentEvents :
             Adds(t, kind) /\ slot[t].run = r /\ slot[t].epoch = e /\ kind \in {"Held"}
      BY <2>1, <2>2, HasAfter
    <2>4. slot[t].pc # "Idle" /\ slot'[t].pc = "Ended"
      BY <2>3, AddsHere DEF AgentEvents
    <2>5. t = s
      BY <1>1, <2>3, <2>4 DEF EpochsApart
    <2>6. QED
      BY <2>4, <2>5
  <1>2. ASSUME NEW q \in RunIds, RunTaken(q), slot'[s] = ClaimedSlot(q)
        PROVE  FALSE
    <2>1. r = q /\ e = runs[q].lease_epoch + 1
      BY <1>2, ClaimedSlotFields
    <2>2. runs[q].state # "Absent"
      BY <1>2 DEF RunTaken
    <2>3. ~Has(session[q], e, {"Held"})
      BY <2>1, <2>2, EventsOfThePast
    <2>4. PICK t \in Workers, kind \in UserTurns \cup AgentEvents :
             Adds(t, kind) /\ slot[t].run = q /\ slot[t].epoch = e
      BY <2>1, <2>3, HasAfter
    <2>5. slot[t].pc # "Idle"
      BY <2>4, AddsHere
    <2>6. slot[t].epoch <= runs[q].lease_epoch /\ slot[t].epoch \in Nat
      BY <2>2, <2>4, <2>5, RunStoreAssumption DEF TypesInv, SlotsInv, SlotInv
    <2>7. runs[q].lease_epoch \in Nat
      BY RunHere DEF RunRecord
    <2>8. QED
      BY <2>1, <2>4, <2>6, <2>7
  <1>3. CASE slot'[s] = slot[s]
    BY <1>1, <1>3
  <1>4. CASE Moves(s) /\ WellPlaced(s)
    <2>1. CASE Takes(s)
      <3>1. slot[s].pc = "Idle" /\ slot'[s].pc # "Idle"
        BY <2>1 DEF Takes, ClaimedSlot, Idle
      <3>2. PICK q \in RunIds : RunTaken(q) /\ slot'[s] = ClaimedSlot(q)
        BY <1>4, <3>1, MoveKinds DEF SameAttempt, Idle
      <3>3. QED
        BY <1>2, <3>2
    <2>2. CASE Leaves(s) \/ Stops(s) \/ Holds(s)
      BY <2>2 DEF Leaves, Idle, Stops, Holds, Writing
    <2>3. CASE Returns(s) \/ Beats(s) \/ Renews(s) \/ Starts(s) \/ Records(s)
                 \/ Persists(s) \/ Produces(s)
      <3>1. SameAttempt(s) /\ slot[s].pc \in Open
        BY <2>3 DEF Returns, Beats, Renews, Starts, Records, Persists, Produces, Says
      <3>2. QED
        BY <1>1, <3>1 DEF SameAttempt
    <2>4. QED
      BY <1>4, <2>1, <2>2, <2>3 DEF Moves
  <1>5. QED
    BY <1>3, <1>4, EverySlotStep

LEMMA EndedLastStep ==
    ASSUME FenceInv, PollingOwns, WorkerNext, NEW s \in Workers, EndedLast(s)
    PROVE  EndedLast(s)'
  <1> SUFFICES ASSUME slot'[s].pc = "Ended", Owns(s)'
               PROVE  /\ session'[slot'[s].run] # <<>>
                      /\ session'[slot'[s].run][Len(session'[slot'[s].run])].invocation
                            = slot'[s].epoch
    BY DEF EndedLast
  <1>1. /\ slot'[s].run = slot[s].run /\ slot'[s].epoch = slot[s].epoch
        /\ slot[s].pc = "Ended" \/ (slot[s].pc = "Running" /\ Produces(s))
    <2>1. CASE slot'[s] = slot[s]
      BY <2>1
    <2>2. CASE Moves(s) /\ WellPlaced(s)
      <3>1. CASE Beats(s) \/ Renews(s)
        BY <3>1 DEF Beats, Renews, SameAttempt
      <3>2. CASE Produces(s)
        BY <3>2 DEF Produces, Says, SameAttempt
      <3>3. CASE Takes(s)
        BY <3>3 DEF Takes, ClaimedSlot, Idle
      <3>4. CASE Leaves(s) \/ Returns(s) \/ Starts(s) \/ Records(s) \/ Stops(s)
                   \/ Holds(s) \/ Persists(s)
        BY <3>4 DEF Leaves, Idle, Returns, Starts, Records, Stops, Holds, Persists, Writing
      <3>5. QED
        BY <2>2, <3>1, <3>2, <3>3, <3>4 DEF Moves
    <2>3. QED
      BY <2>1, <2>2, EverySlotStep DEF FenceInv
  <1> DEFINE r == slot[s].run
  <1>2. r \in RunIds /\ slot[s].pc # "Idle"
    BY <1>1, SlotHere DEF FenceInv
  <1>3. Owns(s)
    BY <1>1, <1>2, OwnsBack DEF FenceInv
  <1>4. CASE session'[r] = session[r]
    <2>1. ~Produces(s)
      <3> SUFFICES ASSUME Produces(s) PROVE FALSE
        OBVIOUS
      <3>1. PICK kind \in AgentEvents : Says(s, kind)
        BY DEF Produces
      <3> DEFINE event == [invocation |-> slot[s].epoch, kind |-> kind]
      <3>2. session' = [session EXCEPT ![r] = Append(@, event)]
        BY <3>1 DEF Says, Append1
      <3> HIDE DEF event
      <3>3. session[r] \in Seq(Event) /\ session \in [RunIds -> Seq(Event)]
        BY <1>2 DEF FenceInv, TypesInv, WorkerTypeOK
      <3>4. session'[r] = Append(session[r], event)
        BY <1>2, <3>2, <3>3
      <3>5. Len(session'[r]) = Len(session[r]) + 1 /\ Len(session[r]) \in Nat
        BY <3>3, <3>4
      <3>6. QED
        BY <1>4, <3>5
    <2>2. slot[s].pc = "Ended"
      BY <1>1, <2>1
    <2>3. QED
      BY <1>1, <1>3, <1>4, <2>2 DEF EndedLast
  <1>5. CASE session'[r] # session[r]
    <2>1. PICK t \in Workers, kind \in UserTurns \cup AgentEvents :
             /\ Adds(t, kind) /\ slot[t].run = r
             /\ session'[r] # <<>>
             /\ session'[r][Len(session'[r])].invocation = slot[t].epoch
      BY <1>2, <1>5, SessionWriter DEF FenceInv
    <2>2. Owns(t) /\ slot[t].pc # "Idle"
      BY <2>1, AddsHere, WriterOwns DEF FenceInv
    <2>3. t = s
      BY <1>2, <1>3, <2>1, <2>2, OneOwner DEF FenceInv
    <2>4. QED
      BY <1>1, <2>1, <2>3
  <1>6. QED
    BY <1>4, <1>5

(* While an answer is the last word, nobody adds to the session ... *)
LEMMA AnsweredSession ==
    ASSUME FenceInv, PollingOwns, WorkerNext, NEW r \in RunIds, NEW e, Settled(r, e)
    PROVE  session'[r] = session[r]
  <1> SUFFICES ASSUME session'[r] # session[r]
               PROVE  FALSE
    OBVIOUS
  <1>1. PICK t \in Workers, kind \in UserTurns \cup AgentEvents :
           Adds(t, kind) /\ slot[t].run = r
    BY SessionWriter DEF FenceInv
  <1>2. Owns(t) /\ slot[t].pc \in {"Polling", "Running"}
    BY <1>1, AddsHere, WriterOwns DEF FenceInv
  <1>3. FindsAnswer(t, r, e)
    BY DEF Settled
  <1>4. QED
    BY <1>1, <1>2, <1>3 DEF FindsAnswer

(* ... the checkpoint goes on naming its invocation ... *)
LEMMA AnsweredCheckpoint ==
    ASSUME TypesInv, AnswerInv, WorkerNext, NEW r \in RunIds, NEW e, Settled(r, e),
           r < next_seq, session[r][Len(session[r])].invocation = e,
           runs'[r].state # "Absent"
    PROVE  runs'[r].checkpoint # None /\ runs'[r].checkpoint.invocation = e
  <1>1. runs[r].state # "Absent"
    BY EpochStep
  <1>2. runs[r].checkpoint # None /\ runs[r].checkpoint.invocation = e
    BY <1>1 DEF Settled
  <1>3. CASE runs'[r] = runs[r]
    BY <1>2, <1>3
  <1>4. CASE RunGone(r)
    BY <1>4 DEF RunGone, AbsentRun
  <1>5. CASE RunNew(r)
    BY <1>5, RunStoreAssumption DEF RunNew, TypesInv, TypeOK, RunIds
  <1>6. CASE RunSame(r)
    BY <1>2, <1>6 DEF RunSame
  <1>7. CASE RunTaken(r)
    BY <1>2, <1>7 DEF RunTaken
  <1>8. CASE RunRecorded(r)
    <2>1. PICK s \in Workers : (Records(s) \/ Holds(s)) /\ slot[s].run = r /\ Owns(s)
      BY <1>8 DEF RunRecorded
    <2>2. FindsAnswer(s, r, e)
      BY DEF Settled
    <2>3. Holds(s) /\ slot[s].pc = "Ended"
      BY <2>1, <2>2 DEF FindsAnswer, Records, Holds
    <2>4. slot[s].epoch = e
      BY <2>1, <2>3 DEF AnswerInv, EndedLast
    <2>5. Has(session[r], e, {"Held"})
      BY <2>1, <2>3, <2>4 DEF Holds, HoldsCall
    <2>6. QED
      BY <2>5 DEF Settled
  <1>9. QED
    BY <1>3, <1>4, <1>5, <1>6, <1>7, <1>8, EveryWorkerRunStep DEF WorkerRunStep

(* ... and the attempts that own the run find it. *)
LEMMA AnsweredSlot ==
    ASSUME TypesInv, WorkerNext, NEW r \in RunIds, NEW e, Settled(r, e),
           session[r] # <<>>,
           session[r][Len(session[r])] = [invocation |-> e, kind |-> "Answer"],
           NEW s \in Workers
    PROVE  FindsAnswer(s, r, e)'
  <1> SUFFICES ASSUME slot'[s].pc # "Idle", slot'[s].run = r, Owns(s)'
               PROVE  /\ slot'[s].pc \notin {"Starting", "Polling", "Running"}
                      /\ slot'[s].pc \in {"Claiming", "Preparing"} =>
                            /\ slot'[s].checkpoint # None
                            /\ slot'[s].checkpoint.invocation = e
    BY DEF FindsAnswer
  <1>1. ASSUME slot[s].pc # "Idle", slot[s].run = slot'[s].run,
               slot[s].epoch = slot'[s].epoch
        PROVE  /\ slot[s].pc \notin {"Starting", "Polling", "Running"}
               /\ slot[s].pc \in {"Claiming", "Preparing"} =>
                     slot[s].checkpoint # None /\ slot[s].checkpoint.invocation = e
    <2>1. Owns(s)
      BY <1>1, OwnsBack
    <2>2. FindsAnswer(s, r, e)
      BY DEF Settled
    <2>3. QED
      BY <1>1, <2>1, <2>2 DEF FindsAnswer
  <1>2. CASE slot'[s] = slot[s]
    BY <1>1, <1>2
  <1>3. CASE Moves(s) /\ WellPlaced(s)
    <2>1. CASE Takes(s)
      <3>1. slot[s].pc = "Idle"
        BY <2>1 DEF Takes
      <3>2. PICK q \in RunIds : RunTaken(q) /\ slot'[s] = ClaimedSlot(q)
        BY <1>3, <3>1, MoveKinds DEF SameAttempt, Idle
      <3>3. slot'[s].pc = "Claiming" /\ q = r /\ slot'[s].checkpoint = runs[r].checkpoint
        BY <3>2, ClaimedSlotFields
      <3>4. runs[r].state # "Absent"
        BY <3>2, <3>3 DEF RunTaken
      <3>5. QED
        BY <3>3, <3>4 DEF Settled
    <2>2. CASE Leaves(s)
      BY <2>2 DEF Leaves, Idle
    <2>3. CASE Returns(s)
      BY <1>1, <2>3 DEF Returns, SameAttempt
    <2>4. CASE Beats(s) \/ Renews(s)
      BY <1>1, <2>4 DEF Beats, Renews, SameAttempt
    <2>5. CASE Starts(s)
      <3>1. slot[s].pc = "Preparing" /\ slot[s].run = r
              /\ Prepared(session[r], slot[s].checkpoint) # "Done"
        BY <2>5 DEF Starts, SameAttempt
      <3>2. slot[s].checkpoint # None /\ slot[s].checkpoint.invocation = e
        BY <1>1, <2>5, <3>1 DEF Starts, SameAttempt
      <3>3. CompletedAnswer(session[r], e)
        BY DEF CompletedAnswer, Settled
      <3>4. QED
        BY <3>1, <3>2, <3>3 DEF Prepared
    <2>6. CASE Records(s) \/ Persists(s) \/ Produces(s)
      <3>1. SameAttempt(s) /\ slot[s].pc \in {"Starting", "Polling", "Running"}
        BY <2>6 DEF Records, Persists, Produces, Says
      <3>2. QED
        BY <1>1, <3>1 DEF SameAttempt
    <2>7. CASE Stops(s) \/ Holds(s)
      BY <2>7 DEF Stops, Holds, Writing
    <2>8. QED
      BY <1>3, <2>1, <2>2, <2>3, <2>4, <2>5, <2>6, <2>7 DEF Moves
  <1>4. QED
    BY <1>2, <1>3, EverySlotStep

LEMMA SettledStep ==
    ASSUME FenceInv, PollingOwns, AnswerInv, WorkerNext, NEW r \in RunIds,
           NEW i \in 1 .. Len(session[r]), session[r][i].kind = "Answer",
           NEW e, e = session[r][i].invocation
    PROVE  /\ session'[r] = session[r]
           /\ i = Len(session[r])
           /\ Settled(r, e)'
  <1>1. i = Len(session[r]) /\ Settled(r, e)
    BY DEF AnswerInv, AnswersLast
  <1>2. session'[r] = session[r]
    BY <1>1, AnsweredSession
  <1>3. session[r][i] \in Event /\ r < next_seq /\ session[r] # <<>>
    BY SessionHere DEF FenceInv
  <1>4. session[r][i] = [invocation |-> e, kind |-> "Answer"]
    BY <1>3 DEF Event
  <1>5. runs'[r].state # "Absent" =>
           runs'[r].checkpoint # None /\ runs'[r].checkpoint.invocation = e
    BY <1>1, <1>3, AnsweredCheckpoint DEF FenceInv
  <1>6. ASSUME NEW s \in Workers
        PROVE  FindsAnswer(s, r, e)'
    BY <1>1, <1>3, <1>4, AnsweredSlot DEF FenceInv
  <1>7. QED
    BY <1>1, <1>2, <1>5, <1>6 DEF Settled

(* The answer that was just given. *)
LEMMA AnswerGiven ==
    ASSUME FenceInv, PollingOwns, NamedInv, AnswerInv, WorkerNext, NEW t \in Workers,
           Adds(t, "Answer"), NEW r, r = slot[t].run, NEW e, e = slot[t].epoch
    PROVE  Settled(r, e)'
  <1>1. /\ slot[t].pc = "Running" /\ slot'[t].pc = "Ended" /\ StoreKept
        /\ SameAttempt(t) /\ OthersStay(t)
    BY AddsHere DEF AgentEvents
  <1>2. r \in RunIds /\ e \in Nat /\ Owns(t)
    BY <1>1, AddsHere, WriterOwns, SlotHere, RunStoreAssumption
       DEF FenceInv, UserTurns, AgentEvents
  <1>3. ~Has(session'[r], e, {"Held"})
    <2> SUFFICES ASSUME Has(session'[r], e, {"Held"}) PROVE FALSE
      OBVIOUS
    <2>1. ~Has(session[r], e, {"Held"})
      BY <1>1 DEF AnswerInv, NoCallYet, HoldsCall
    <2>2. PICK s \in Workers, kind \in UserTurns \cup AgentEvents :
             Adds(s, kind) /\ slot[s].run = r /\ slot[s].epoch = e /\ kind \in {"Held"}
      BY <1>2, <2>1, HasAfter DEF FenceInv
    <2>3. slot[s].pc # "Idle"
      BY <2>2, AddsHere
    <2>4. s = t
      BY <1>1, <2>2, <2>3 DEF FenceInv, EpochsApart
    <2> DEFINE held == [invocation |-> e, kind |-> "Held"]
               answer == [invocation |-> e, kind |-> "Answer"]
    <2>5. held # answer
      OBVIOUS
    <2>6. session'[r] = Append(session[r], held)
      BY <2>2, <2>4 DEF Adds
    <2>7. session'[r] = Append(session[r], answer)
      BY DEF Adds
    <2>8. session[r] \in Seq(Event)
      BY <1>2, SessionHere DEF FenceInv
    <2> HIDE DEF held, answer
    <2>9. session'[r][Len(session[r]) + 1] = held
      BY <2>6, <2>8
    <2>10. session'[r][Len(session[r]) + 1] = answer
      BY <2>7, <2>8
    <2>11. QED
      BY <2>5, <2>9, <2>10
  <1>4. runs'[r].checkpoint # None /\ runs'[r].checkpoint.invocation = e
    <2>1. runs[r].state = "Running" /\ runs[r].lease_epoch = e
      BY <1>2 DEF Owns, Fenced
    <2>2. runs[r].checkpoint # None /\ runs[r].checkpoint.invocation >= e
      BY <1>1, <2>1 DEF NamedInv, NamesItself
    <2>3. runs[r].checkpoint.invocation <= e
      BY <1>2, <2>1, <2>2 DEF FenceInv, TypesInv, BoundsInv
    <2>4. runs[r].checkpoint.invocation \in Nat
      BY <1>2, <2>2, CheckpointHere DEF FenceInv
    <2>5. QED
      BY <1>1, <1>2, <2>2, <2>3, <2>4 DEF StoreKept
  <1>5. ASSUME NEW s \in Workers, slot'[s].pc # "Idle", slot'[s].run = r, Owns(s)'
        PROVE  slot'[s].pc = "Ended"
    <2>1. CASE s = t
      BY <1>1, <2>1
    <2>2. CASE s # t
      <3>1. slot'[s] = slot[s] /\ runs' = runs
        BY <1>1, <2>2 DEF OthersStay, StoreKept
      <3>2. Owns(s) /\ slot[s].pc # "Idle" /\ slot[s].run = r
        BY <1>5, <3>1 DEF Owns, Fenced
      <3>3. QED
        BY <1>1, <1>2, <2>2, <3>2, OneOwner DEF FenceInv
    <2>3. QED
      BY <2>1, <2>2
  <1>6. slot'[t].run = r /\ slot'[t].epoch = e
    BY <1>1 DEF SameAttempt
  <1>7. QED
    BY <1>3, <1>4, <1>5, <1>6 DEF Settled, FindsAnswer

LEMMA AnswersLastStep ==
    ASSUME FenceInv, PollingOwns, NamedInv, AnswerInv, WorkerNext
    PROVE  AnswersLast'
  <1> SUFFICES ASSUME NEW r \in RunIds, NEW i \in 1 .. Len(session'[r]),
                      session'[r][i].kind = "Answer",
                      NEW e, e = session'[r][i].invocation
               PROVE  i = Len(session'[r]) /\ Settled(r, e)'
    BY DEF AnswersLast
  <1>1. CASE i \in 1 .. Len(session[r]) /\ session'[r][i] = session[r][i]
    BY <1>1, SettledStep
  <1>2. CASE ~(i \in 1 .. Len(session[r]) /\ session'[r][i] = session[r][i])
    <2>1. i = Len(session'[r])
      BY <1>2, EventsAfter DEF FenceInv
    <2>2. PICK t \in Workers, kind \in UserTurns \cup AgentEvents :
             /\ Adds(t, kind)
             /\ slot[t].run = r
             /\ session'[r][i] = [invocation |-> slot[t].epoch, kind |-> kind]
      BY <1>2, EventsAfter DEF FenceInv
    <2>3. kind = "Answer" /\ e = slot[t].epoch
      BY <2>2
    <2>4. QED
      BY <2>1, <2>2, <2>3, AnswerGiven
  <1>3. QED
    BY <1>1, <1>2

LEMMA AnswerStep ==
    FenceInv /\ PollingOwns /\ NamedInv /\ AnswerInv /\ [WorkerNext]_vars => AnswerInv'
  <1> SUFFICES ASSUME FenceInv, PollingOwns, NamedInv, AnswerInv, [WorkerNext]_vars
               PROVE  AnswerInv'
    OBVIOUS
  <1>1. CASE WorkerNext
    <2>1. ASSUME NEW s \in Workers
          PROVE  NoCallYet(s)' /\ EndedLast(s)'
      BY <1>1, NoCallYetStep, EndedLastStep DEF AnswerInv, FenceInv
    <2>2. QED
      BY <1>1, <2>1, AnswersLastStep DEF AnswerInv
  <1>2. CASE UNCHANGED vars
    BY <1>2 DEF vars, AnswerInv, NoCallYet, EndedLast, HoldsCall, AnswersLast, Settled,
                FindsAnswer, Owns, Fenced
  <1>3. QED
    BY <1>1, <1>2

LEMMA AnswersLastMeans ==
    ASSUME TypesInv, AnswersLast
    PROVE  AnsweredOnce
  <1> SUFFICES ASSUME NEW r \in RunIds
               PROVE  Count(session[r], "Answer") <= 1
    BY DEF AnsweredOnce
  <1> DEFINE Answers == {i \in 1 .. Len(session[r]) : session[r][i].kind = "Answer"}
             last == Len(session[r])
  <1>1. Answers \subseteq {last}
    BY DEF AnswersLast
  <1>2. IsFiniteSet({last}) /\ Cardinality({last}) = 1
    BY FS_Singleton
  <1> HIDE DEF last
  <1>3. IsFiniteSet(Answers) /\ Cardinality(Answers) <= Cardinality({last})
    BY <1>1, <1>2, FS_Subset
  <1>4. QED
    BY <1>2, <1>3 DEF Count

(* Crash resume "completes the run from the session when it already holds  *)
(* the final answer": however often a run is recovered, retried or         *)
(* resumed, its agent answers once, where claims are answered at once and  *)
(* no attempt stalls before its user turn.                                 *)
THEOREM AgentAnswersOnce ==
    ASSUME MaxClaimLatency = 0, StallsBeforeTurn = FALSE
    PROVE  WorkerSpec => []AnsweredOnce
  <1>1. WorkerInit => AnswerInv
    <2> SUFFICES ASSUME WorkerInit PROVE AnswerInv
      OBVIOUS
    <2>1. \A s \in Workers : slot[s].pc = "Idle"
      BY DEF WorkerInit, Idle
    <2>2. \A r \in RunIds : Len(session[r]) = 0
      BY DEF WorkerInit
    <2>3. QED
      BY <2>1, <2>2 DEF AnswerInv, NoCallYet, EndedLast, AnswersLast
  <1>2. FenceInv /\ AnswerInv => AnsweredOnce
    BY AnswersLastMeans DEF FenceInv, AnswerInv
  <1>3. QED
    BY <1>1, <1>2, AnswerStep, FenceAlways, PollingAlways, NamedAlways, PTL
       DEF WorkerSpec
=============================================================================
