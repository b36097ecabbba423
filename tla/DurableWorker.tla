--------------------------- MODULE DurableWorker ---------------------------
(***************************************************************************)
(* The durable worker (adk-server/src/background/worker.rs) composed with  *)
(* the run store: workers claim agent runs, heartbeat their leases, record *)
(* checkpoints, drive the agent over the run's session, and write the      *)
(* outcome, every write fenced by the epoch of the claim.                  *)
(*                                                                         *)
(* A member of Workers is one execution slot of some worker process.  A    *)
(* store call takes effect in one step at the store's time `now'           *)
(* (MaxLag = 0); between two steps of a slot anything may happen to the    *)
(* others.  An attempt starts at most one invocation of the runner, so the *)
(* invocation is named by the epoch of the claim.                          *)
(*                                                                         *)
(* A session is the sequence of the events the runner persisted: the user  *)
(* turn ("Input", the run's input, or "Empty", the turn of a resumed run), *)
(* then the agent's events: a "Call" (the model called a tool and went     *)
(* on), "Held" (a tool call waits for approval) or "Answer" (the final     *)
(* response).  An agent holds at most one call, undecided until a client   *)
(* decides it.                                                             *)
(*                                                                         *)
(* Left out: workflow targets, admission of a stored principal (it ends an *)
(* attempt as Fail does), and the answers recover_unanswered_calls adds.   *)
(***************************************************************************)
EXTENDS RunStore, Sequences, FiniteSets

CONSTANTS
    ApprovalTimeout,    \* ticks a held call waits for its decision, or None
    Retain,             \* ticks a finished run is kept before the worker prunes it
    MaxEvents,          \* bound: agent events that do not end an invocation
    MaxClaimLatency,    \* bound: ticks between a claim's effect and its answer
    StallsBeforeTurn    \* whether an attempt may stall between its checkpoint
                        \* and its user turn until its run is recovered

ASSUME WorkerAssumption ==
    /\ ApprovalTimeout \in Nat \cup {None}
    /\ Retain \in Nat
    /\ MaxEvents \in Nat
    /\ MaxClaimLatency \in Nat
    /\ StallsBeforeTurn \in BOOLEAN

VARIABLES
    slot,       \* what each execution slot is doing
    session,    \* the persisted events of each run's session
    decided,    \* whether the call a run holds has been decided
    refusing    \* whether the governance control refuses work

workerVars == <<slot, session, decided, refusing>>
vars == <<runs, by_idempotency_key, next_seq, now, slot, session, decided, refusing>>

-----------------------------------------------------------------------------
Epochs == 0 .. MaxEpoch
UserTurns == {"Input", "Empty"}
AgentEvents == {"Call", "Held", "Answer"}
Event == [invocation : Epochs, kind : UserTurns \cup AgentEvents]

(* RunCheckpointRef, for an agent run.  Its session is the run's. *)
CheckpointRef(kind, invocation, expires_at) ==
    [kind |-> kind, invocation |-> invocation, expires_at |-> expires_at]

(* What workers present to the store: the deadlines they park runs with,   *)
(* and the checkpoints they record.                                        *)
Deadlines ==
    0 .. (IF ApprovalTimeout = None THEN MaxTime ELSE MaxTime + ApprovalTimeout)
        \cup {None}

WorkerCheckpoints ==
    {CheckpointRef(kind, invocation, expires_at) :
        kind \in {"Session", "AwaitingApproval"},
        invocation \in 1 .. MaxEpoch,
        expires_at \in Deadlines}

ASSUME WorkerCallsAssumption ==
    /\ ParkTimes = Deadlines
    /\ Checkpoints = WorkerCheckpoints

(* The states of an attempt in which `work' is polled beside the heartbeat. *)
Working == {"Preparing", "Starting", "Polling", "Running", "Ended"}
Writing == {"HandingBack", "Parking", "Finishing"}

Slot ==
    [pc : {"Idle", "Claiming"} \cup Working \cup Writing,
     run : RunIds \cup {None},
     epoch : Epochs,
     sent : Time,                               \* when the claim took effect
     checkpoint : Checkpoints \cup {None},      \* as the claim returned it
     claimed_at : Time,                         \* as the claim returned it
     valid_until : Time,                        \* LeaseState.valid_until
     cancel_requested : BOOLEAN,                \* LeaseState.cancel_requested
     beat : OptTime,                            \* when the pending heartbeat was sent
     turn : UserTurns,                          \* the content the invocation starts from
     until : OptTime,
     outcome : Outcomes]

Idle ==
    [pc |-> "Idle", run |-> None, epoch |-> 0, sent |-> 0, checkpoint |-> None,
     claimed_at |-> 0, valid_until |-> 0, cancel_requested |-> FALSE,
     beat |-> None, turn |-> "Input", until |-> None,
     outcome |-> "Completed"]

WorkerInit ==
    /\ Init
    /\ slot = [s \in Workers |-> Idle]
    /\ session = [r \in RunIds |-> <<>>]
    /\ decided = [r \in RunIds |-> FALSE]
    /\ refusing = FALSE

(* The fenced write of slot s would be accepted. *)
Owns(s) == Fenced(slot[s].run, slot[s].epoch)

(* Variant: the last instant of the lease is counted as held. *)
IsValidInclusive(s) == now <= slot[s].valid_until

(* LeaseState::is_valid *)
IsValid(s) == now < slot[s].valid_until

(* Slot s goes on to pc; other changes are made with EXCEPT. *)
At(s, pc) == [slot[s] EXCEPT !.pc = pc, !.sent = 0]

Drop(s) == slot' = [slot EXCEPT ![s] = Idle]
Become(s, attempt) == slot' = [slot EXCEPT ![s] = attempt]

StoreKept == UNCHANGED <<runs, by_idempotency_key, next_seq, now>>
Rest == UNCHANGED <<session, decided, refusing>>

-----------------------------------------------------------------------------
(* claim_loop *)

(* An assumption on scheduling, dropped where StallsBeforeTurn. *)
TurnsArePrompt == StallsBeforeTurn \/ \A s \in Workers : slot[s].pc # "Polling"

(* Variant: the attempt runs under the epoch after the one it was given. *)
SendClaimNextEpoch(s) ==
    /\ slot[s].pc = "Idle"
    /\ ~refusing
    /\ \E q \in Queues, r \in RunIds :
           /\ Claim(q, s, r, now)
           /\ Become(s, [Idle EXCEPT !.pc = "Claiming", !.run = r,
                                     !.epoch = runs'[r].lease_epoch + 1, !.sent = now])
    /\ Rest

(* The control allows work, and the claim takes effect in the store. *)
SendClaim(s) ==
    /\ slot[s].pc = "Idle"
    /\ ~refusing
    /\ TurnsArePrompt
    /\ \E q \in Queues, r \in RunIds :
           /\ Claim(q, s, r, now)
           /\ Become(s, [Idle EXCEPT !.pc = "Claiming", !.run = r,
                                     !.epoch = runs'[r].lease_epoch, !.sent = now,
                                     !.checkpoint = runs'[r].checkpoint,
                                     !.claimed_at = runs'[r].updated_at])
    /\ Rest

ClaimNothing(s) ==
    /\ slot[s].pc = "Idle"
    /\ ~refusing
    /\ TurnsArePrompt
    /\ \E q \in Queues : ClaimNone(q, now)
    /\ UNCHANGED workerVars

(* The claim is answered: LeaseState::new, and the control is read again. *)
ClaimReturns(s) ==
    /\ slot[s].pc = "Claiming"
    /\ Become(s, [At(s, IF refusing THEN "HandingBack" ELSE "Preparing")
                    EXCEPT !.valid_until = now + Ttl])
    /\ StoreKept
    /\ Rest

(* The loop prunes what finished more than `retain_finished' ago. *)
PruneFinished ==
    /\ \E before \in 0 .. now : before + Retain <= now /\ Prune(before)
    /\ UNCHANGED workerVars

-----------------------------------------------------------------------------
(* heartbeat, beside the work *)

SendHeartbeat(s) ==
    /\ slot[s].pc \in Working
    /\ slot[s].beat = None
    /\ Become(s, [slot[s] EXCEPT !.beat = now])
    /\ StoreKept
    /\ Rest

(* The store accepts the heartbeat and the answer arrives. *)
HeartbeatAnswered(s) ==
    /\ slot[s].pc \in Working
    /\ slot[s].beat # None
    /\ Heartbeat(slot[s].run, slot[s].epoch, now)
    /\ Become(s, [slot[s] EXCEPT
                    !.beat = None,
                    !.valid_until = slot[s].beat + Ttl,
                    !.cancel_requested = @ \/ runs[slot[s].run].cancel_requested])
    /\ Rest

(* The epoch is stale or the run is gone: the attempt is dropped. *)
HeartbeatRefused(s) ==
    /\ slot[s].pc \in Working
    /\ slot[s].beat # None
    /\ ~Owns(s)
    /\ Drop(s)
    /\ StoreKept
    /\ Rest

(* The call fails, whether or not the store had accepted it. *)
HeartbeatFails(s) ==
    /\ slot[s].pc \in Working
    /\ slot[s].beat # None
    /\ IF IsValid(s) THEN Become(s, [slot[s] EXCEPT !.beat = None]) ELSE Drop(s)
    /\ StoreKept \/ Heartbeat(slot[s].run, slot[s].epoch, now)
    /\ Rest

-----------------------------------------------------------------------------
(* run_agent *)

(* The work of slot s ended with an outcome to write.  A cancellation the  *)
(* heartbeat saw comes first.                                              *)
EndWork(s, outcome) ==
    [At(s, "Finishing") EXCEPT
        !.beat = None,
        !.outcome = IF slot[s].cancel_requested THEN "Cancelled" ELSE outcome]

(* The work ended with a run to hand back or to park. *)
EndWorkWaiting(s, pc, until) ==
    IF slot[s].cancel_requested THEN EndWork(s, "Cancelled")
    ELSE [At(s, pc) EXCEPT !.beat = None, !.until = until]

Has(events, invocation, kinds) ==
    \E i \in 1 .. Len(events) :
        events[i].invocation = invocation /\ events[i].kind \in kinds

(* Variant: a persisted answer is not looked for. *)
CompletedAnswerIgnored(events, invocation) == FALSE

(* completed_answer *)
CompletedAnswer(events, invocation) ==
    /\ ~Has(events, invocation, {"Held"})
    /\ events # <<>>
    /\ events[Len(events)] = [invocation |-> invocation, kind |-> "Answer"]

(* How the attempt begins, from the session and the claimed checkpoint. *)
Prepared(events, checkpoint) ==
    IF checkpoint = None THEN "Start"
    ELSE IF CompletedAnswer(events, checkpoint.invocation) THEN "Done"
    ELSE IF Has(events, checkpoint.invocation, UserTurns) THEN "Continue"
    ELSE "Start"

Prepare(s) ==
    LET prepared == Prepared(session[slot[s].run], slot[s].checkpoint) IN
    /\ slot[s].pc = "Preparing"
    /\ Become(s, IF prepared = "Done" THEN EndWork(s, "Completed")
                 ELSE [At(s, "Starting") EXCEPT
                         !.turn = IF prepared = "Start" THEN "Input" ELSE "Empty"])
    /\ StoreKept
    /\ Rest

(* Variant: the stream is polled before its checkpoint is recorded. *)
RecordCheckpointLater(s) ==
    /\ slot[s].pc = "Starting"
    /\ Become(s, At(s, "Polling"))
    /\ StoreKept
    /\ Rest

(* The checkpoint that names the new invocation, before the stream is      *)
(* polled.  A refused write drops the attempt.                             *)
RecordCheckpoint(s) ==
    /\ slot[s].pc = "Starting"
    /\ \/ /\ SetCheckpoint(slot[s].run, slot[s].epoch,
                           CheckpointRef("Session", slot[s].epoch, None), now)
          /\ Become(s, At(s, "Polling"))
       \/ /\ ~Owns(s)
          /\ Drop(s)
          /\ StoreKept
    /\ Rest

Append1(r, invocation, kind) ==
    session' = [session EXCEPT
                  ![r] = Append(@, [invocation |-> invocation, kind |-> kind])]

(* Runner::run persists the user turn; the fence is not asked. *)
PersistTurn(s) ==
    /\ slot[s].pc = "Polling"
    /\ ~refusing
    /\ Append1(slot[s].run, slot[s].epoch, slot[s].turn)
    /\ Become(s, [At(s, "Running") EXCEPT !.turn = "Input"])
    /\ StoreKept
    /\ UNCHANGED <<decided, refusing>>

Produced(s) == Has(session[slot[s].run], slot[s].epoch, AgentEvents)

(* The control refuses before the agent produced an event: the runner's    *)
(* start check, or the agent's check before its first model call.          *)
Refused(s) ==
    /\ \/ slot[s].pc = "Polling"
       \/ slot[s].pc = "Running" /\ ~Produced(s)
    /\ refusing
    /\ Become(s, EndWorkWaiting(s, "HandingBack", None))
    /\ StoreKept
    /\ Rest

(* Variant: the fence is not asked before an event is produced. *)
AgentStepUnfenced(s, kind) ==
    /\ slot[s].pc = "Running"
    /\ ~refusing
    /\ kind = "Held" => ~decided[slot[s].run]
    /\ kind = "Call" => Len(session[slot[s].run]) < MaxEvents
    /\ Append1(slot[s].run, slot[s].epoch, kind)
    /\ Become(s, At(s, IF kind = "Call" THEN "Running" ELSE "Ended"))
    /\ StoreKept
    /\ UNCHANGED <<decided, refusing>>

(* A model call and what it leads to, between two passes of the fence.     *)
(* An event that is not a tool call ends the stream.                       *)
AgentStep(s, kind) ==
    /\ slot[s].pc = "Running"
    /\ ~refusing
    /\ IsValid(s)
    /\ kind = "Held" => ~decided[slot[s].run]
    /\ kind = "Call" => Len(session[slot[s].run]) < MaxEvents
    /\ Append1(slot[s].run, slot[s].epoch, kind)
    /\ Become(s, At(s, IF kind = "Call" THEN "Running" ELSE "Ended"))
    /\ StoreKept
    /\ UNCHANGED <<decided, refusing>>

(* The lease is not provably held: the fence never returns and the attempt *)
(* is dropped without a write.                                             *)
FenceDrops(s) ==
    /\ slot[s].pc = "Running"
    /\ ~IsValid(s)
    /\ Drop(s)
    /\ StoreKept
    /\ Rest

(* An error, a timeout of the attempt, or a refusal once the agent has     *)
(* produced an event.                                                      *)
Fail(s, outcome) ==
    /\ slot[s].pc \in Working
    /\ Become(s, EndWork(s, outcome))
    /\ StoreKept
    /\ Rest

(* The interrupted stream ends. *)
Interrupt(s) ==
    /\ slot[s].pc \in {"Polling", "Running"}
    /\ slot[s].cancel_requested
    /\ Become(s, EndWork(s, "Completed"))
    /\ StoreKept
    /\ Rest

HoldsCall(s) == Has(session[slot[s].run], slot[s].epoch, {"Held"})

Answered(s) ==
    /\ slot[s].pc = "Ended"
    /\ ~HoldsCall(s)
    /\ Become(s, EndWork(s, "Completed"))
    /\ StoreKept
    /\ Rest

(* The attempt was resumed from a park on the same call. *)
HeldBefore(s) ==
    slot[s].checkpoint # None /\ slot[s].checkpoint.kind = "AwaitingApproval"

ApprovalExpired(s) ==
    /\ HeldBefore(s)
    /\ slot[s].checkpoint.expires_at # None
    /\ slot[s].checkpoint.expires_at <= now

HoldExpires(s) ==
    /\ slot[s].pc = "Ended"
    /\ HoldsCall(s)
    /\ ApprovalExpired(s)
    /\ Become(s, EndWork(s, "Failed"))
    /\ StoreKept
    /\ Rest

HoldUntil(s) ==
    IF HeldBefore(s) THEN slot[s].checkpoint.expires_at
    ELSE IF ApprovalTimeout = None THEN None ELSE now + ApprovalTimeout

(* The checkpoint of a held call, and the end of the work. *)
HoldForApproval(s) ==
    /\ slot[s].pc = "Ended"
    /\ HoldsCall(s)
    /\ ~ApprovalExpired(s)
    /\ \/ /\ SetCheckpoint(slot[s].run, slot[s].epoch,
                           CheckpointRef("AwaitingApproval", slot[s].epoch, HoldUntil(s)),
                           now)
          /\ Become(s, EndWorkWaiting(s, "Parking", HoldUntil(s)))
       \/ /\ ~Owns(s)
          /\ Drop(s)
          /\ StoreKept
    /\ Rest

-----------------------------------------------------------------------------
(* The write that ends the attempt.  Refused, it changes nothing. *)

EndAttempt(s, pc, Write) ==
    /\ slot[s].pc = pc
    /\ Write \/ (~Owns(s) /\ StoreKept)
    /\ Drop(s)
    /\ Rest

HandBack(s) ==
    EndAttempt(s, "HandingBack",
               Wait(slot[s].run, slot[s].epoch, slot[s].claimed_at, now))

Park(s) ==
    EndAttempt(s, "Parking", Wait(slot[s].run, slot[s].epoch, slot[s].until, now))

WriteOutcome(s) ==
    EndAttempt(s, "Finishing", Finish(slot[s].run, slot[s].epoch, slot[s].outcome, now))

(* WorkerHandle::abort, or the process dies. *)
Crash(s) ==
    /\ slot[s].pc # "Idle"
    /\ Drop(s)
    /\ StoreKept
    /\ Rest

-----------------------------------------------------------------------------
(* Clients, the control, and time *)

(* DurableRunStore::enqueue, request_cancel *)
Submit == (\E run \in NewRun : Enqueue(run, now)) /\ UNCHANGED workerVars

Cancel == (\E r \in RunIds : RequestCancel(r, now)) /\ UNCHANGED workerVars

(* A decision is recorded, then the run is woken. *)
Decide(r) ==
    /\ Len(session[r]) > 0
    /\ ~decided[r]
    /\ \E e \in Epochs : Has(session[r], e, {"Held"})
    /\ decided' = [decided EXCEPT ![r] = TRUE]
    /\ StoreKept
    /\ UNCHANGED <<slot, session, refusing>>

WakeDecided == (\E r \in RunIds : decided[r] /\ Wake(r, now)) /\ UNCHANGED workerVars

Toggle ==
    /\ refusing' = ~refusing
    /\ StoreKept
    /\ UNCHANGED <<slot, session, decided>>

WorkerTick ==
    /\ \A s \in Workers :
           slot[s].pc = "Claiming" => now < slot[s].sent + MaxClaimLatency
    /\ Tick
    /\ UNCHANGED workerVars

SlotStep(s) ==
    \/ SendClaim(s) \/ ClaimNothing(s) \/ ClaimReturns(s)
    \/ SendHeartbeat(s) \/ HeartbeatAnswered(s) \/ HeartbeatRefused(s) \/ HeartbeatFails(s)
    \/ Prepare(s) \/ RecordCheckpoint(s) \/ PersistTurn(s) \/ Refused(s)
    \/ \E kind \in AgentEvents : AgentStep(s, kind)
    \/ FenceDrops(s)
    \/ \E outcome \in {"Failed", "Retryable"} : Fail(s, outcome)
    \/ Interrupt(s) \/ Answered(s) \/ HoldExpires(s) \/ HoldForApproval(s)
    \/ HandBack(s) \/ Park(s) \/ WriteOutcome(s)
    \/ Crash(s)

WorkerNext ==
    \/ \E s \in Workers : SlotStep(s)
    \/ PruneFinished
    \/ Submit \/ Cancel \/ WakeDecided \/ Toggle
    \/ \E r \in RunIds : Decide(r)
    \/ WorkerTick

WorkerSpec == WorkerInit /\ [][WorkerNext]_vars

-----------------------------------------------------------------------------
(* Type invariant of the composition: a slot works under an epoch some     *)
(* claim returned, and a session holds the events of such epochs.          *)
WorkerTypeOK ==
    /\ slot \in [Workers -> Slot]
    /\ session \in [RunIds -> Seq(Event)]
    /\ decided \in [RunIds -> BOOLEAN]
    /\ refusing \in BOOLEAN

(* "The lease is provably held until this instant" (LeaseState): while the *)
(* worker's own view of its lease is valid, the store still has the run    *)
(* Running at the worker's epoch, so no other worker is on it.             *)
ProvablyHeld ==
    \A s \in Workers : slot[s].pc \in Working /\ IsValid(s) => Owns(s)

(* "the user turn never reaches the session without a checkpoint naming    *)
(* it" (run_agent): whatever a session holds, a recovering worker finds a  *)
(* checkpoint of that invocation or of a later one.                        *)
TurnIsNamed ==
    \A r \in RunIds : \A i \in 1 .. Len(session[r]) :
        runs[r].state # "Absent"
            => /\ runs[r].checkpoint # None
               /\ runs[r].checkpoint.invocation >= session[r][i].invocation

Count(events, kind) == Cardinality({i \in 1 .. Len(events) : events[i].kind = kind})

(* Crash resume "completes the run from the session when it already holds  *)
(* the final answer": however often a run is recovered, its agent answers  *)
(* once.                                                                   *)
AnsweredOnce == \A r \in RunIds : Count(session[r], "Answer") <= 1

(* "continues the same session with an empty user turn ... and nothing is  *)
(* sent twice" (Crash resume): the input of a run is one user turn.        *)
InputSentOnce == \A r \in RunIds : Count(session[r], "Input") <= 1

(* "no further session event, tool call, or store write happens" (Fencing  *)
(* a stalled worker): an event is added to a session by the attempt that   *)
(* owns the run.                                                           *)
NoStaleEvent ==
    [][\A r \in RunIds :
          session'[r] # session[r]
              => Fenced(r, session'[r][Len(session'[r])].invocation)]_vars
=============================================================================
