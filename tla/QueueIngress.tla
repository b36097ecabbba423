----------------------------- MODULE QueueIngress -----------------------------
(***************************************************************************)
(* Queue wake-ups (adk-core/src/queue_source.rs): pollers, one per         *)
(* replica, pull messages from an at-least-once source, enqueue a durable  *)
(* run for each under an idempotency key made of the message's id, and     *)
(* acknowledge the message only then.                                      *)
(*                                                                         *)
(* The source is InMemoryQueueSource: a table of copies in the order they  *)
(* were published, of which several may have one id.  A pulled copy is     *)
(* hidden until its lease lapses, and a receipt names the delivery that    *)
(* may settle it.  A poller works through one batch at a time, so the      *)
(* poller's name stands for the receipt.                                   *)
(*                                                                         *)
(* Of the run store only the run of each message matters.  Workers finish  *)
(* runs and operators prune them.                                          *)
(***************************************************************************)
EXTENDS Integers, FiniteSets, FiniteSetsExt

CONSTANTS
    Pollers,        \* replicas that poll the source
    Messages,       \* identifiers of messages
    Unmappable,     \* messages the mapper refuses
    Keyed,          \* messages whose runs share a concurrency key
    Rejecting,      \* those of them whose run rejects a conflict
    BatchSize,      \* messages pulled at a time
    MaxPending,     \* unfinished runs of this source above which nothing is pulled
    Lease,          \* the visibility timeout
    RetryAfter,     \* how long a returned message is hidden
    MaxCopies,      \* bound: copies published
    Sent,           \* bound: the sequences published, an id possibly several times
    MaxFreezes,     \* bound: freezes
    MaxPrunes,      \* bound: runs pruned
    MaxFaults,      \* bound: crashes, failed calls and stalls
    None            \* no receipt

ASSUME QueueAssumption ==
    /\ None \notin Pollers /\ IsFiniteSet(Pollers) /\ IsFiniteSet(Messages)
    /\ Unmappable \subseteq Messages /\ Keyed \subseteq Messages /\ Rejecting \subseteq Keyed
    /\ BatchSize \in Nat \ {0} /\ MaxPending \in Nat \ {0}
    /\ Lease \in Nat \ {0} /\ RetryAfter \in Nat \ {0}
    /\ MaxCopies \in Nat /\ Sent \subseteq [1 .. MaxCopies -> Messages]
    /\ MaxFreezes \in Nat /\ MaxPrunes \in Nat /\ MaxFaults \in Nat

VARIABLES
    table,      \* copy -> what the source stores of it
    runs,       \* message -> its run in the store
    poller,     \* poller -> what it is doing
    refusing,   \* the kill switch refuses work
    created,    \* history: message -> runs created for it
    freezes,    \* freezes so far
    prunes,     \* runs pruned so far
    faults      \* faults so far

vars == <<table, runs, poller, refusing, created, freezes, prunes, faults>>

Copies == 1 .. MaxCopies

(* What the source stores of a message: a fresh copy is visible at once. *)
Copy(m) == [state |-> "unpublished", id |-> m, hidden |-> 0, receipt |-> None]

Stored(c) == table[c].state = "stored"

Idle == [pc |-> "idle", limit |-> 0, batch |-> {}]

Init ==
    /\ \E sent \in Sent : table = [c \in Copies |-> Copy(sent[c])]
    /\ runs = [m \in Messages |-> "none"]
    /\ poller = [p \in Pollers |-> Idle]
    /\ refusing = FALSE
    /\ created = [m \in Messages |-> 0]
    /\ freezes = 0 /\ prunes = 0 /\ faults = 0

Fault == faults < MaxFaults /\ faults' = faults + 1

-----------------------------------------------------------------------------
(* The source *)

(* publish *)
Publish(c) ==
    /\ table[c].state = "unpublished"
    /\ \A d \in 1 .. (c - 1) : table[d].state # "unpublished"
    /\ table' = [table EXCEPT ![c].state = "stored"]
    /\ UNCHANGED <<runs, poller, refusing, created, freezes, prunes, faults>>

Visible == {c \in Copies : Stored(c) /\ table[c].hidden = 0}

(* take_visible: the oldest visible copies. *)
Takes(batch, limit) ==
    /\ batch \subseteq Visible
    /\ Cardinality(batch) <= limit
    /\ Cardinality(batch) = limit \/ batch = Visible
    /\ \A c \in batch, d \in Visible \ batch : c < d

(* Variant: whoever was handed the message may settle it. *)
HoldsAny(p, c) == Stored(c) /\ table[c].hidden > 0

(* leased_index: the receipt is the current one and has not lapsed. *)
Holds(p, c) == Stored(c) /\ table[c].receipt = p /\ table[c].hidden > 0

-----------------------------------------------------------------------------
(* The run store, as the ingress sees it *)

Unfinished == {m \in Messages : runs[m] = "unfinished"}

(* Variant: a finished run no longer answers for its key. *)
ExistsUnfinished(m) == runs[m] = "unfinished"

Exists(m) == runs[m] # "none"

(* OnConflict::Reject *)
Rejects(m) == m \in Rejecting /\ Unfinished \cap (Keyed \ {m}) # {}

Finish(m) ==
    /\ runs[m] = "unfinished"
    /\ runs' = [runs EXCEPT ![m] = "finished"]
    /\ UNCHANGED <<table, poller, refusing, created, freezes, prunes, faults>>

Prune(m) ==
    /\ runs[m] = "finished"
    /\ prunes < MaxPrunes
    /\ prunes' = prunes + 1
    /\ runs' = [runs EXCEPT ![m] = "none"]
    /\ UNCHANGED <<table, poller, refusing, created, freezes, faults>>

-----------------------------------------------------------------------------
(* poll_once *)

Become(p, pc) == poller' = [poller EXCEPT ![p].pc = pc]

(* Variant: the subtraction does not stop at zero. *)
RoomBelowZero == MaxPending - Cardinality(Unfinished)

(* The room under max_pending: a saturating subtraction. *)
Room == Max({0, MaxPending - Cardinality(Unfinished)})

(* Variant: the batch is not cut to the room. *)
LimitWhole(room) == BatchSize

Limit(room) == Min({room, BatchSize})

(* Governance and back-pressure let the poll go on. *)
Ask(p) ==
    /\ poller[p].pc = "idle"
    /\ ~refusing
    /\ Room # 0
    /\ poller' = [poller EXCEPT ![p] = [Idle EXCEPT !.pc = "pull", !.limit = Limit(Room)]]
    /\ UNCHANGED <<table, runs, refusing, created, freezes, prunes, faults>>

(* The messages pulled are leased; the rest of the poll works through them. *)
Pull(p) ==
    /\ poller[p].pc = "pull"
    /\ \E batch \in SUBSET Visible :
          /\ Takes(batch, poller[p].limit)
          /\ table' = [c \in Copies |->
                          IF c \in batch
                          THEN [table[c] EXCEPT !.hidden = Lease, !.receipt = p]
                          ELSE table[c]]
          /\ poller' = [poller EXCEPT ![p] = IF batch = {} THEN Idle
                                             ELSE [Idle EXCEPT !.pc = "map", !.batch = batch]]
    /\ UNCHANGED <<runs, refusing, created, freezes, prunes, faults>>

(* The batch is worked through in the order of the queue. *)
Current(p) == Min(poller[p].batch)

Message(p) == table[Current(p)].id

(* The mapper, and the second look at the kill switch. *)
Map(p) ==
    /\ poller[p].pc = "map"
    /\ Become(p, IF Message(p) \in Unmappable \/ refusing THEN "nack" ELSE "enqueue")
    /\ UNCHANGED <<table, runs, refusing, created, freezes, prunes, faults>>

(* Variant: a rejected message is acknowledged. *)
AfterRejection == "ack"

AfterReject == "nack"

(* enqueue: created, existing, or rejected. *)
Enqueue(p) ==
    LET m == Message(p) IN
    /\ poller[p].pc = "enqueue"
    /\ \/ Exists(m) /\ Become(p, "ack") /\ UNCHANGED <<runs, created>>
       \/ ~Exists(m) /\ Rejects(m) /\ Become(p, AfterReject) /\ UNCHANGED <<runs, created>>
       \/ /\ ~Exists(m) /\ ~Rejects(m)
          /\ runs' = [runs EXCEPT ![m] = "unfinished"]
          /\ created' = [created EXCEPT ![m] = @ + 1]
          /\ Become(p, "ack")
    /\ UNCHANGED <<table, refusing, freezes, prunes, faults>>

(* The call fails, before or after it took effect. *)
EnqueueFails(p) ==
    LET m == Message(p) IN
    /\ poller[p].pc = "enqueue"
    /\ Fault
    /\ \/ UNCHANGED <<runs, created>>
       \/ /\ ~Exists(m) /\ ~Rejects(m)
          /\ runs' = [runs EXCEPT ![m] = "unfinished"]
          /\ created' = [created EXCEPT ![m] = @ + 1]
    /\ Become(p, "nack")
    /\ UNCHANGED <<table, refusing, freezes, prunes>>

(* The next message of the batch, or the next poll. *)
MoveOn(p) ==
    LET rest == poller[p].batch \ {Current(p)} IN
    poller' = [poller EXCEPT ![p] = IF rest = {} THEN Idle
                                    ELSE [Idle EXCEPT !.pc = "map", !.batch = rest]]

(* settle_ack; a receipt that lapsed is refused, and the poll goes on. *)
Ack(p) ==
    /\ poller[p].pc = "ack"
    /\ table' = IF Holds(p, Current(p))
                THEN [table EXCEPT ![Current(p)] = [@ EXCEPT !.state = "acked", !.hidden = 0,
                                                             !.receipt = None]]
                ELSE table
    /\ MoveOn(p)
    /\ UNCHANGED <<runs, refusing, created, freezes, prunes, faults>>

(* Variant: a returned message is visible at once. *)
DelayNone == 0

(* retry_after *)
Delay == RetryAfter

(* settle_nack *)
Nack(p) ==
    /\ poller[p].pc = "nack"
    /\ table' = IF Holds(p, Current(p))
                THEN [table EXCEPT ![Current(p)] = [@ EXCEPT !.hidden = Delay,
                                                             !.receipt = None]]
                ELSE table
    /\ MoveOn(p)
    /\ UNCHANGED <<runs, refusing, created, freezes, prunes, faults>>

(* The source cannot be reached: the lease lapses instead. *)
SettleFails(p) ==
    /\ poller[p].pc \in {"ack", "nack"}
    /\ Fault
    /\ MoveOn(p)
    /\ UNCHANGED <<table, runs, refusing, created, freezes, prunes>>

(* The replica stops, or the pull fails; its leases lapse. *)
Crash(p) ==
    /\ poller[p].pc # "idle"
    /\ Fault
    /\ poller' = [poller EXCEPT ![p] = Idle]
    /\ UNCHANGED <<table, runs, refusing, created, freezes, prunes>>

-----------------------------------------------------------------------------
Freeze ==
    /\ ~refusing
    /\ freezes < MaxFreezes
    /\ refusing' = TRUE
    /\ freezes' = freezes + 1
    /\ UNCHANGED <<table, runs, poller, created, prunes, faults>>

Unfreeze ==
    /\ refusing
    /\ refusing' = FALSE
    /\ UNCHANGED <<table, runs, poller, created, freezes, prunes, faults>>

(* No poller has a batch, and none has, or waits to have, one to pull. *)
Quiet ==
    /\ \A p \in Pollers : poller[p].pc \in {"idle", "pull"}
    /\ \/ Visible = {}
       \/ (refusing \/ Room = 0) /\ \A p \in Pollers : poller[p].pc = "idle"

(* Time passes.  A lease and a retry delay are long beside a poll, so it   *)
(* does while there is nothing to poll; otherwise a poller stalls.         *)
Tick ==
    /\ IF Quiet THEN UNCHANGED faults ELSE Fault
    /\ \E c \in Copies : table[c].hidden > 0
    /\ table' = [c \in Copies |->
                    IF table[c].hidden > 0 THEN [table[c] EXCEPT !.hidden = @ - 1] ELSE table[c]]
    /\ UNCHANGED <<runs, poller, refusing, created, freezes, prunes>>

Poll(p) == Ask(p) \/ Pull(p) \/ Map(p) \/ Enqueue(p) \/ Ack(p) \/ Nack(p)

Next ==
    \/ \E c \in Copies : Publish(c)
    \/ \E m \in Messages : Finish(m) \/ Prune(m)
    \/ \E p \in Pollers : Poll(p) \/ EnqueueFails(p) \/ SettleFails(p) \/ Crash(p)
    \/ Freeze \/ Unfreeze \/ Tick

(* QueueIngress::run polls for as long as it is not shut down, workers     *)
(* finish the runs they execute, a freeze is lifted and time passes.       *)
Fairness ==
    /\ \A p \in Pollers : WF_vars(Poll(p))
    /\ \A m \in Messages : WF_vars(Finish(m))
    /\ WF_vars(Unfreeze)
    /\ WF_vars(Tick /\ UNCHANGED faults)

Spec == Init /\ [][Next]_vars /\ Fairness

-----------------------------------------------------------------------------
(* Properties *)

(* The types of the variables. *)
TypeOK ==
    /\ table \in [Copies -> [state : {"unpublished", "stored", "acked"},
                             id : Messages,
                             hidden : Nat, receipt : Pollers \cup {None}]]
    /\ runs \in [Messages -> {"none", "unfinished", "finished"}]
    /\ poller \in [Pollers -> [pc : {"idle", "pull", "map", "enqueue", "ack", "nack"},
                               limit : Nat, batch : SUBSET Copies]]
    /\ refusing \in BOOLEAN
    /\ created \in [Messages -> Nat]
    /\ freezes \in Nat /\ prunes \in Nat /\ faults \in Nat

(* "Only after the enqueue succeeded": a message leaves the source only    *)
(* when a run was created for it, whichever deliveries lapse, repeat,      *)
(* crash or are refused on the way (poll_once).                            *)
AckedHasRun == \A c \in Copies : table[c].state = "acked" => created[table[c].id] > 0

(* "a redelivered or duplicated message returns the existing run": a       *)
(* message wakes one run, through copies, lapsed leases, calls that failed *)
(* after they took effect and two pollers at once, and one more for each   *)
(* time its run was pruned meanwhile (enqueue).                            *)
OneRunEach == \A m \in Messages : created[m] <= 1 + prunes

(* Back-pressure: the pollers together never leave more than max_pending   *)
(* runs each unfinished.  One poller keeps to max_pending; several read    *)
(* the same room (pending_runs).                                           *)
PendingBounded == Cardinality(Unfinished) <= MaxPending * Cardinality(Pollers)

(* "A leased message is not returned again until it is nacked or its lease *)
(* lapses": while a delivery is leased, only the poller it was handed to   *)
(* settles it, also when an earlier delivery of it is settled late         *)
(* (leased_index).                                                         *)
LeaseKept ==
    [][\A c \in Copies :
          (Stored(c) /\ table[c].receipt # None /\ table[c].hidden > 0) =>
              \/ table'[c] = table[c]
              \/ table'[c] = [table[c] EXCEPT !.hidden = @ - 1]
              \/ LET p == table[c].receipt IN
                    poller[p].pc \in {"ack", "nack"} /\ Current(p) = c /\ poller'[p] # poller[p]]_vars

(* Every message that can be mapped wakes its run and leaves the source,   *)
(* behind messages that never can, under back-pressure, rejections,        *)
(* freezes, crashes and lapsed leases (run).                               *)
MessagesWake ==
    \A c \in Copies :
        (Stored(c) /\ table[c].id \notin Unmappable) ~>
            (table[c].state = "acked" /\ created[table[c].id] > 0)
=============================================================================
