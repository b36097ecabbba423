-------------------------- MODULE QueueIngressProofs --------------------------
(***************************************************************************)
(* What queue wake-ups guarantee for any number of pollers, messages,      *)
(* copies, prunes and faults, and for any sequence published.              *)
(***************************************************************************)
EXTENDS QueueIngress, FiniteSetTheorems, WellFoundedInduction, TLAPS

(* A message of which there is a run was woken, and so was the one a       *)
(* poller is about to acknowledge; every run but the present one was       *)
(* pruned.                                                                 *)
Woken ==
    /\ \A m \in Messages : runs[m] # "none" => created[m] > 0
    /\ \A p \in Pollers :
          (poller[p].pc = "ack" /\ Current(p) \in Copies) => created[Message(p)] > 0
    /\ \A m \in Messages : created[m] <= (IF runs[m] = "none" THEN 0 ELSE 1) + prunes

QInv == TypeOK /\ AckedHasRun /\ Woken

CopyType == [state : {"unpublished", "stored", "acked"}, id : Messages,
             hidden : Nat, receipt : Pollers \cup {None}]

PollerType == [pc : {"idle", "pull", "map", "enqueue", "ack", "nack"},
               limit : Nat, batch : SUBSET Copies]

(* The smallest and the greatest of two integers. *)
LEMMA OfTwo ==
    ASSUME NEW a \in Int, NEW b \in Int
    PROVE  Min({a, b}) \in {a, b} /\ Max({a, b}) \in {a, b} /\ Max({a, b}) >= a
  <1>1. \E x \in {a, b} : \A y \in {a, b} : x <= y
    OBVIOUS
  <1>2. \E x \in {a, b} : \A y \in {a, b} : x >= y
    OBVIOUS
  <1>3. Min({a, b}) \in {a, b}
    BY <1>1 DEF Min
  <1>4. Max({a, b}) \in {a, b} /\ \A y \in {a, b} : Max({a, b}) >= y
    BY <1>2 DEF Max
  <1> QED
    BY <1>3, <1>4

(* The subtraction that computes the room stops at zero. *)
LEMMA LimitType == Limit(Room) \in Nat
  <1>1. IsFiniteSet(Unfinished)
    BY QueueAssumption, FS_Subset DEF Unfinished
  <1>2. MaxPending - Cardinality(Unfinished) \in Int
    BY <1>1, QueueAssumption, FS_CardinalityType
  <1>3. Room \in Nat
    BY <1>2, OfTwo DEF Room
  <1>4. Min({Room, BatchSize}) \in {Room, BatchSize}
    <2>1. Room \in Int /\ BatchSize \in Int
      BY <1>3, QueueAssumption
    <2> QED
      BY <2>1, OfTwo
  <1> QED
    BY <1>3, <1>4, QueueAssumption DEF Limit

(* An idle poller is well typed. *)
LEMMA IdleType == Idle \in PollerType
  BY DEF Idle, PollerType

-----------------------------------------------------------------------------
(* The invariant holds at the start. *)
LEMMA InitInv == Init => QInv
  <1> SUFFICES ASSUME Init PROVE QInv
    OBVIOUS
  <1>1. PICK sent \in Sent : table = [c \in Copies |-> Copy(sent[c])]
    BY DEF Init
  <1>2. \A c \in Copies : sent[c] \in Messages
    BY QueueAssumption DEF Copies
  <1>3. table \in [Copies -> CopyType] /\ \A c \in Copies : table[c].state = "unpublished"
    BY <1>1, <1>2 DEF Copy, CopyType
  <1>4. TypeOK
    BY <1>3, IdleType DEF Init, TypeOK, CopyType, PollerType
  <1>5. AckedHasRun
    BY <1>3 DEF AckedHasRun
  <1>6. Woken
    BY DEF Init, Woken, Idle
  <1> QED
    BY <1>4, <1>5, <1>6 DEF QInv

(* A step that creates no run, prunes none, acknowledges nothing new and   *)
(* brings no poller to an acknowledgement keeps the invariant.             *)
LEMMA Harmless ==
    ASSUME QInv, TypeOK', UNCHANGED <<created, prunes>>,
           \A c \in Copies : table'[c].id = table[c].id,
           \A c \in Copies : table'[c].state = "acked" => table[c].state = "acked",
           \A m \in Messages : runs'[m] = "none" <=> runs[m] = "none",
           \A p \in Pollers : poller'[p].pc = "ack" => poller'[p] = poller[p]
    PROVE  QInv'
  <1>1. AckedHasRun'
    BY DEF QInv, AckedHasRun, Copies
  <1>2. Woken'
    BY DEF QInv, Woken, Current, Message, Copies
  <1> QED
    BY <1>1, <1>2 DEF QInv

(* What a poller becomes is well typed. *)
LEMMA PollerSteps ==
    ASSUME TypeOK, NEW p \in Pollers
    PROVE  /\ \A pc \in {"idle", "pull", "map", "enqueue", "ack", "nack"} :
                 Become(p, pc) => /\ poller' \in [Pollers -> PollerType]
                                  /\ \A q \in Pollers \ {p} : poller'[q] = poller[q]
                                  /\ poller'[p].batch = poller[p].batch
                                  /\ poller'[p].pc = pc
           /\ MoveOn(p) => /\ poller' \in [Pollers -> PollerType]
                           /\ \A q \in Pollers \ {p} : poller'[q] = poller[q]
                           /\ poller'[p].pc # "ack"
  <1>1. ASSUME NEW pc \in {"idle", "pull", "map", "enqueue", "ack", "nack"}, Become(p, pc)
        PROVE  /\ poller' \in [Pollers -> PollerType]
               /\ \A q \in Pollers \ {p} : poller'[q] = poller[q]
               /\ poller'[p].batch = poller[p].batch
               /\ poller'[p].pc = pc
    BY <1>1 DEF Become, TypeOK, PollerType
  <1>2. ASSUME MoveOn(p)
        PROVE  /\ poller' \in [Pollers -> PollerType]
               /\ \A q \in Pollers \ {p} : poller'[q] = poller[q]
               /\ poller'[p].pc # "ack"
    <2> DEFINE rest == poller[p].batch \ {Current(p)}
               next == IF rest = {} THEN Idle ELSE [Idle EXCEPT !.pc = "map", !.batch = rest]
    <2>1. rest \in SUBSET Copies
      BY DEF TypeOK
    <2>2. next \in PollerType /\ next.pc # "ack"
      BY <2>1 DEF Idle, PollerType
    <2>3. poller' = [poller EXCEPT ![p] = next]
      BY <1>2 DEF MoveOn
    <2> HIDE DEF rest, next
    <2> QED
      BY <2>2, <2>3 DEF TypeOK, PollerType
  <1> QED
    BY <1>1, <1>2

-----------------------------------------------------------------------------
(* One lemma for each action, or for each few that are alike. *)

(* Publishing, the ticks and the kill switch. *)
LEMMA SourceSteps ==
    ASSUME QInv, (\E c \in Copies : Publish(c)) \/ Tick \/ Freeze \/ Unfreeze
    PROVE  QInv'
  <1> USE DEF QInv
  <1>1. ASSUME NEW c \in Copies, Publish(c) PROVE QInv'
    <2>1. TypeOK'
      BY <1>1 DEF Publish, TypeOK
    <2> QED
      BY <1>1, <2>1, Harmless DEF Publish, TypeOK
  <1>2. CASE Tick
    <2>1. faults' \in Nat
      BY <1>2 DEF Tick, Fault, TypeOK
    <2>2. table' \in [Copies -> CopyType]
      <3>1. \A c \in Copies : table[c].hidden > 0 =>
               [table[c] EXCEPT !.hidden = @ - 1] \in CopyType
        BY DEF TypeOK, CopyType
      <3> QED
        BY <1>2, <3>1 DEF Tick, TypeOK, CopyType
    <2>3. TypeOK'
      BY <1>2, <2>1, <2>2 DEF Tick, TypeOK, CopyType
    <2> QED
      BY <1>2, <2>3, Harmless DEF Tick, TypeOK
  <1>3. CASE Freeze \/ Unfreeze
    <2>1. TypeOK'
      <3>1. refusing' \in BOOLEAN /\ freezes' \in Nat
        <4>1. CASE Freeze
          <5>1. freezes \in Nat /\ freezes' = freezes + 1 /\ refusing' = TRUE
            BY <4>1 DEF Freeze, TypeOK
          <5> QED
            BY <5>1
        <4>2. CASE Unfreeze
          BY <4>2, Zenon DEF Unfreeze, TypeOK
        <4> QED
          BY <1>3, <4>1, <4>2
      <3>2. UNCHANGED <<table, runs, poller, created, prunes, faults>>
        BY <1>3 DEF Freeze, Unfreeze
      <3> QED
        BY <3>1, <3>2 DEF TypeOK
    <2> QED
      BY <1>3, <2>1, Harmless DEF Freeze, Unfreeze
  <1> QED
    BY <1>1, <1>2, <1>3

(* What workers and operators do to the runs. *)
LEMMA RunSteps ==
    ASSUME QInv, NEW m \in Messages, Finish(m) \/ Prune(m)
    PROVE  QInv'
  <1> USE DEF QInv
  <1>1. TypeOK'
    BY DEF Finish, Prune, TypeOK
  <1>2. CASE Finish(m)
    BY <1>1, <1>2, Harmless DEF Finish, TypeOK
  <1>3. CASE Prune(m)
    <2>1. AckedHasRun'
      BY <1>3 DEF Prune, AckedHasRun
    <2>2. Woken'
      BY <1>3 DEF Prune, Woken, Current, Message, TypeOK
    <2> QED
      BY <1>1, <2>1, <2>2
  <1> QED
    BY <1>2, <1>3

(* The steps of a poll before it enqueues. *)
LEMMA PollSteps ==
    ASSUME QInv, NEW p \in Pollers, Ask(p) \/ Pull(p) \/ Map(p)
    PROVE  QInv'
  <1> USE DEF QInv
  <1>1. CASE Ask(p)
    <2>1. [Idle EXCEPT !.pc = "pull", !.limit = Limit(Room)] \in PollerType
      BY LimitType DEF Idle, PollerType
    <2>2. TypeOK'
      BY <1>1, <2>1 DEF Ask, TypeOK, PollerType
    <2> QED
      BY <1>1, <2>2, Harmless DEF Ask, TypeOK, Idle
  <1>2. CASE Pull(p)
    <2>1. PICK batch \in SUBSET Visible :
             /\ table' = [c \in Copies |->
                             IF c \in batch
                             THEN [table[c] EXCEPT !.hidden = Lease, !.receipt = p]
                             ELSE table[c]]
             /\ poller' = [poller EXCEPT ![p] = IF batch = {} THEN Idle
                                                ELSE [Idle EXCEPT !.pc = "map", !.batch = batch]]
      BY <1>2 DEF Pull
    <2>2. table' \in [Copies -> CopyType]
      <3>1. ASSUME NEW c \in Copies
            PROVE  [table[c] EXCEPT !.hidden = Lease, !.receipt = p] \in CopyType
        <4>1. table[c] \in CopyType /\ Lease \in Nat /\ p \in Pollers \cup {None}
          BY QueueAssumption DEF TypeOK, CopyType
        <4> QED
          BY <4>1 DEF CopyType
      <3> QED
        BY <2>1, <3>1 DEF TypeOK, CopyType
    <2>3. poller' \in [Pollers -> PollerType]
      BY <2>1 DEF Visible, TypeOK, PollerType, Idle
    <2>4. TypeOK'
      BY <1>2, <2>2, <2>3 DEF Pull, TypeOK, CopyType, PollerType
    <2>5. \A q \in Pollers : poller'[q].pc = "ack" => poller'[q] = poller[q]
      BY <2>1 DEF TypeOK, Idle
    <2>6. \A c \in Copies : table'[c].id = table[c].id /\ table'[c].state = table[c].state
      BY <2>1 DEF TypeOK
    <2> QED
      BY <1>2, <2>4, <2>5, <2>6, Harmless DEF Pull
  <1>3. CASE Map(p)
    <2>1. PICK pc \in {"nack", "enqueue"} : Become(p, pc)
      BY <1>3 DEF Map
    <2>2. TypeOK'
      BY <1>3, <2>1, PollerSteps DEF Map, TypeOK, PollerType
    <2> QED
      BY <1>3, <2>1, <2>2, PollerSteps, Harmless DEF Map
  <1> QED
    BY <1>1, <1>2, <1>3

(* A call that enqueues: the message it was about has a run when the       *)
(* poller goes on to acknowledge it.                                       *)
LEMMA EnqueueSteps ==
    ASSUME QInv, NEW p \in Pollers, Enqueue(p) \/ EnqueueFails(p)
    PROVE  QInv'
  <1> USE DEF QInv
  <1> DEFINE m == Message(p)
  <1>1. PICK pc \in {"ack", "nack"} : Become(p, pc)
    BY DEF Enqueue, EnqueueFails, AfterReject
  <1>2. /\ poller' \in [Pollers -> PollerType]
        /\ \A q \in Pollers \ {p} : poller'[q] = poller[q]
        /\ poller'[p].batch = poller[p].batch
        /\ poller'[p].pc = pc
    BY <1>1, PollerSteps
  <1>3. UNCHANGED <<table, prunes>>
    BY DEF Enqueue, EnqueueFails
  <1>4. \/ UNCHANGED <<runs, created>>
        \/ /\ runs[m] = "none"
           /\ runs' = [runs EXCEPT ![m] = "unfinished"]
           /\ created' = [created EXCEPT ![m] = @ + 1]
    BY DEF Enqueue, EnqueueFails, Exists
  <1>5. pc = "ack" => runs'[m] # "none" \/ m \notin Messages
    <2>1. CASE Enqueue(p)
      <3>1. CASE Become(p, AfterReject)
        BY <1>2, <3>1, PollerSteps DEF AfterReject
      <3> QED
        BY <2>1, <3>1 DEF Enqueue, Exists, TypeOK
    <2>2. CASE EnqueueFails(p)
      BY <1>2, <2>2, PollerSteps DEF EnqueueFails
    <2> QED
      BY <2>1, <2>2
  <1>6. TypeOK'
    <2>1. faults' \in Nat
      BY DEF Enqueue, EnqueueFails, Fault, TypeOK
    <2>2. runs' \in [Messages -> {"none", "unfinished", "finished"}] /\ created' \in [Messages -> Nat]
      BY <1>4 DEF TypeOK
    <2> QED
      BY <1>2, <1>3, <2>1, <2>2 DEF Enqueue, EnqueueFails, TypeOK, PollerType
  <1> HIDE DEF m
  <1>7. \A n \in Messages : created'[n] >= created[n]
    BY <1>4 DEF TypeOK
  <1>8. \A n \in Messages : runs'[n] # "none" => created'[n] > 0
    BY <1>4 DEF TypeOK, Woken
  <1>9. \A n \in Messages : created'[n] <= (IF runs'[n] = "none" THEN 0 ELSE 1) + prunes'
    BY <1>3, <1>4 DEF TypeOK, Woken
  <1>10. ASSUME NEW q \in Pollers, poller'[q].pc = "ack", Current(q)' \in Copies
         PROVE  created'[Message(q)'] > 0
    <2>1. Current(q)' = Current(q) /\ Message(q)' = Message(q) /\ Message(q) \in Messages
      BY <1>2, <1>3, <1>10 DEF Current, Message, TypeOK
    <2>2. CASE q = p
      BY <1>2, <1>5, <1>8, <1>10, <2>1, <2>2 DEF m
    <2>3. CASE q # p
      BY <1>2, <1>6, <1>7, <1>10, <2>1, <2>3 DEF Woken, TypeOK
    <2> QED
      BY <2>2, <2>3
  <1>11. AckedHasRun'
    BY <1>3, <1>6, <1>7 DEF AckedHasRun, TypeOK
  <1> QED
    BY <1>6, <1>8, <1>9, <1>10, <1>11 DEF Woken, Copies

(* Settling a delivery, and a poller that stops. *)
LEMMA SettleSteps ==
    ASSUME QInv, NEW p \in Pollers, Ack(p) \/ Nack(p) \/ SettleFails(p) \/ Crash(p)
    PROVE  QInv'
  <1> USE DEF QInv
  <1>1. /\ poller' \in [Pollers -> PollerType]
        /\ \A q \in Pollers \ {p} : poller'[q] = poller[q]
        /\ poller'[p].pc # "ack"
    <2>1. CASE MoveOn(p)
      BY <2>1, PollerSteps
    <2>2. CASE poller' = [poller EXCEPT ![p] = Idle]
      BY <2>2, IdleType DEF TypeOK, PollerType, Idle
    <2> QED
      BY <2>1, <2>2 DEF Ack, Nack, SettleFails, Crash
  <1>2. UNCHANGED <<runs, created, prunes>>
    BY DEF Ack, Nack, SettleFails, Crash
  <1>3. /\ table' \in [Copies -> CopyType]
        /\ \A c \in Copies : table'[c].id = table[c].id
        /\ \A c \in Copies : table'[c].state = "acked" =>
              table[c].state = "acked" \/ (poller[p].pc = "ack" /\ c = Current(p))
    <2>1. CASE Ack(p)
      <3> DEFINE c == Current(p)
                 acked == [[[table[c] EXCEPT !.state = "acked"] EXCEPT !.hidden = 0]
                              EXCEPT !.receipt = None]
      <3>1. ASSUME c \in Copies
            PROVE  acked \in CopyType /\ acked.id = table[c].id
        <4>1. table[c] \in CopyType
          BY <3>1 DEF TypeOK, CopyType
        <4> HIDE DEF c
        <4> QED
          BY <4>1 DEF CopyType
      <3>2. table' = table \/ table' = [table EXCEPT ![c] = acked]
        BY <2>1 DEF Ack
      <3>3. poller[p].pc = "ack"
        BY <2>1 DEF Ack
      <3>4. table \in [Copies -> CopyType]
        BY DEF TypeOK, CopyType
      <3> HIDE DEF acked, c
      <3>5. CASE c \in Copies
        <4>1. \A d \in Copies : table'[d] = table[d] \/ (d = c /\ table'[d] = acked)
          BY <3>2, <3>4
        <4>2. table' \in [Copies -> CopyType]
          BY <3>1, <3>2, <3>4, <3>5
        <4> QED
          BY <3>1, <3>3, <3>5, <4>1, <4>2 DEF c
      <3>6. CASE c \notin Copies
        BY <3>2, <3>4, <3>6
      <3> QED
        BY <3>5, <3>6
    <2>2. CASE Nack(p)
      <3> DEFINE c == Current(p)
                 returned == [[table[c] EXCEPT !.hidden = Delay] EXCEPT !.receipt = None]
      <3>1. ASSUME c \in Copies
            PROVE  /\ returned \in CopyType
                   /\ returned.id = table[c].id
                   /\ returned.state = table[c].state
        <4>1. table[c] \in CopyType /\ Delay \in Nat
          BY <3>1, QueueAssumption DEF TypeOK, CopyType, Delay
        <4> HIDE DEF c
        <4> QED
          BY <4>1 DEF CopyType
      <3>2. table' = table \/ table' = [table EXCEPT ![c] = returned]
        BY <2>2 DEF Nack
      <3>4. table \in [Copies -> CopyType]
        BY DEF TypeOK, CopyType
      <3> HIDE DEF returned, c
      <3>5. CASE c \in Copies
        BY <3>1, <3>2, <3>4, <3>5
      <3>6. CASE c \notin Copies
        BY <3>2, <3>4, <3>6
      <3> QED
        BY <3>5, <3>6
    <2>3. CASE SettleFails(p) \/ Crash(p)
      BY <2>3 DEF SettleFails, Crash, TypeOK, CopyType
    <2> QED
      BY <2>1, <2>2, <2>3
  <1>4. TypeOK'
    <2>1. faults' \in Nat
      BY DEF Ack, Nack, SettleFails, Crash, Fault, TypeOK
    <2> QED
      BY <1>1, <1>2, <1>3, <2>1 DEF Ack, Nack, SettleFails, Crash, TypeOK, PollerType, CopyType
  <1>5. AckedHasRun'
    BY <1>2, <1>3 DEF AckedHasRun, Woken, Message
  <1>6. Woken'
    BY <1>1, <1>2, <1>3 DEF Woken, Current, Message
  <1> QED
    BY <1>4, <1>5, <1>6

(* Every step keeps the invariant. *)
LEMMA NextInv == QInv /\ [Next]_vars => QInv'
  <1> SUFFICES ASSUME QInv, [Next]_vars PROVE QInv'
    OBVIOUS
  <1>1. CASE UNCHANGED vars
    BY <1>1 DEF vars, QInv, TypeOK, AckedHasRun, Woken, Current, Message
  <1>2. CASE Next
    BY <1>2, SourceSteps, RunSteps, PollSteps, EnqueueSteps, SettleSteps DEF Next, Poll
  <1> QED
    BY <1>1, <1>2

(* The invariant holds in every state. *)
LEMMA Always == Spec => []QInv
  <1> QED
    BY InitInv, NextInv, PTL DEF Spec

-----------------------------------------------------------------------------
(* The types of the variables; the room never goes below zero, however far *)
(* several pollers overshoot max_pending (poll_once).                      *)
THEOREM QueueTypes == Spec => []TypeOK
  <1>1. QInv => TypeOK
    BY DEF QInv
  <1> QED
    BY <1>1, Always, PTL

(* A message is acknowledged only after a run was created for it, through  *)
(* every lapse, repetition, refusal and crash (poll_once).                 *)
THEOREM AcknowledgedHaveRuns == Spec => []AckedHasRun
  <1>1. QInv => AckedHasRun
    BY DEF QInv
  <1> QED
    BY <1>1, Always, PTL

(* A message wakes one run, and one more each time a run is pruned         *)
(* (enqueue).                                                              *)
THEOREM WakesOnce == Spec => []OneRunEach
  <1>1. QInv => OneRunEach
    BY DEF QInv, TypeOK, Woken, OneRunEach
  <1> QED
    BY <1>1, Always, PTL

-----------------------------------------------------------------------------
(* Back-pressure.  A poller that pulls or works through a batch may still  *)
(* create this many runs.                                                  *)
BudgetOf(r) ==
    CASE r.pc = "pull" -> r.limit
      [] r.pc \in {"map", "enqueue"} -> Cardinality(r.batch)
      [] r.pc \in {"ack", "nack"} -> Cardinality(r.batch) - 1
      [] OTHER -> 0

(* The budgets of all pollers, as one set. *)
Budgets == {b \in Pollers \X (1 .. MaxPending) : b[2] <= BudgetOf(poller[b[1]])}

HasBatch(r) == r.pc \notin {"idle", "pull"} => r.batch # {}

(* A poller reads the room of the runs there are, and no more is created   *)
(* than was read: the runs there are and the budgets together stay within  *)
(* max_pending of each poller.                                             *)
BudgetInv ==
    /\ \A p \in Pollers : BudgetOf(poller[p]) <= MaxPending /\ HasBatch(poller[p])
    /\ Cardinality(Unfinished) + Cardinality(Budgets) <= MaxPending * Cardinality(Pollers)

Below == OpToRel(<, Nat)

(* A set of copies that is not empty has a first one. *)
LEMMA LeastOf ==
    ASSUME NEW S \in SUBSET Nat, S # {}
    PROVE  Min(S) \in S
  <1>1. IsWellFoundedOn(Below, Nat)
    BY NatLessThanWellFounded DEF Below
  <1>2. PICK x \in S : \A y \in S : ~ (<<y, x>> \in Below)
    BY <1>1, WFMin
  <1>3. ASSUME NEW y \in S, ~(x <= y)
        PROVE  FALSE
    <2>1. x \in Nat /\ y \in Nat /\ y < x
      BY <1>3
    <2> QED
      BY <1>2, <2>1 DEF Below, OpToRel
  <1> QED
    BY <1>3 DEF Min

LEMMA BatchFinite ==
    ASSUME NEW r \in PollerType
    PROVE  /\ IsFiniteSet(r.batch) /\ Cardinality(r.batch) \in Nat
           /\ r.batch = {} <=> Cardinality(r.batch) = 0
  <1>1. r.batch \in SUBSET Copies
    BY DEF PollerType
  <1>2. IsFiniteSet(Copies)
    <2>1. 1 \in Int /\ MaxCopies \in Int
      BY QueueAssumption
    <2> QED
      BY <2>1, FS_Interval DEF Copies
  <1>3. IsFiniteSet(r.batch)
    BY <1>1, <1>2, FS_Subset
  <1> QED
    BY <1>3, FS_CardinalityType, FS_EmptySet

LEMMA CurrentIn ==
    ASSUME TypeOK, NEW p \in Pollers, poller[p].batch # {}
    PROVE  Current(p) \in poller[p].batch
  <1>1. poller[p].batch \in SUBSET Nat
    BY QueueAssumption DEF TypeOK, Copies
  <1> QED
    BY <1>1, LeastOf DEF Current

LEMMA BudgetType ==
    ASSUME NEW r \in PollerType, HasBatch(r)
    PROVE  BudgetOf(r) \in Nat
  <1>1. r.limit \in Nat /\ r.pc \in {"idle", "pull", "map", "enqueue", "ack", "nack"}
    BY DEF PollerType
  <1>2. Cardinality(r.batch) \in Nat /\ (r.batch = {} <=> Cardinality(r.batch) = 0)
    BY BatchFinite
  <1> QED
    BY <1>1, <1>2 DEF BudgetOf, HasBatch

LEMMA BudgetsFinite ==
    /\ IsFiniteSet(Pollers \X (1 .. MaxPending))
    /\ Cardinality(Pollers \X (1 .. MaxPending)) = MaxPending * Cardinality(Pollers)
    /\ IsFiniteSet(Budgets) /\ Cardinality(Budgets) \in Nat
    /\ IsFiniteSet(Unfinished) /\ Cardinality(Unfinished) \in Nat
  <1>1. IsFiniteSet(1 .. MaxPending) /\ Cardinality(1 .. MaxPending) = MaxPending
    <2>1. 1 \in Int /\ MaxPending \in Int /\ ~(1 > MaxPending)
      BY QueueAssumption
    <2>2. IsFiniteSet(1 .. MaxPending)
            /\ Cardinality(1 .. MaxPending) = MaxPending - 1 + 1
      BY <2>1, FS_Interval
    <2> QED
      BY <2>1, <2>2
  <1>2. IsFiniteSet(Pollers) /\ Cardinality(Pollers) \in Nat /\ MaxPending \in Nat
    BY QueueAssumption, FS_CardinalityType
  <1>3. /\ IsFiniteSet(Pollers \X (1 .. MaxPending))
        /\ Cardinality(Pollers \X (1 .. MaxPending)) = Cardinality(Pollers) * MaxPending
    BY <1>1, <1>2, FS_Product
  <1>4. Cardinality(Pollers) * MaxPending = MaxPending * Cardinality(Pollers)
    BY <1>2
  <1>5. Budgets \in SUBSET (Pollers \X (1 .. MaxPending))
    BY DEF Budgets
  <1>6. IsFiniteSet(Unfinished)
    BY QueueAssumption, FS_Subset DEF Unfinished
  <1> QED
    BY <1>3, <1>4, <1>5, <1>6, FS_Subset, FS_CardinalityType

(* A step that spends none of a poller's budget and creates no run, or     *)
(* spends one and creates one at most.                                     *)
LEMMA Spends ==
    ASSUME BudgetInv, NEW n \in {0, 1},
           \A q \in Pollers : /\ BudgetOf(poller[q]) \in Nat
                              /\ BudgetOf(poller'[q]) \in Nat
                              /\ HasBatch(poller'[q])
                              /\ BudgetOf(poller'[q]) <= BudgetOf(poller[q]),
           n = 1 => \E p \in Pollers : BudgetOf(poller'[p]) + 1 <= BudgetOf(poller[p]),
           IsFiniteSet(Unfinished'), Cardinality(Unfinished') <= Cardinality(Unfinished) + n
    PROVE  BudgetInv'
  <1>1. /\ Cardinality(Unfinished) + Cardinality(Budgets) <= MaxPending * Cardinality(Pollers)
        /\ \A q \in Pollers : BudgetOf(poller[q]) <= MaxPending
    BY DEF BudgetInv
  <1>2. MaxPending \in Nat /\ MaxPending * Cardinality(Pollers) \in Nat
    <2>1. MaxPending \in Nat /\ Cardinality(Pollers) \in Nat
      BY QueueAssumption, FS_CardinalityType
    <2> QED
      BY <2>1
  <1>3. \A q \in Pollers : BudgetOf(poller'[q]) <= MaxPending /\ HasBatch(poller'[q])
    BY <1>1, <1>2
  <1>4. IsFiniteSet(Budgets) /\ Cardinality(Budgets) \in Nat /\ Cardinality(Unfinished) \in Nat
    BY BudgetsFinite
  <1>5. Cardinality(Unfinished') \in Nat
    BY FS_CardinalityType
  <1>6. Budgets' \subseteq Budgets
    BY DEF Budgets
  <1>7. IsFiniteSet(Budgets') /\ Cardinality(Budgets') \in Nat
          /\ Cardinality(Budgets') + n <= Cardinality(Budgets)
    <2>1. CASE n = 0
      BY <1>4, <1>6, <2>1, FS_Subset, FS_CardinalityType
    <2>2. CASE n = 1
      <3>1. PICK p \in Pollers : BudgetOf(poller'[p]) + 1 <= BudgetOf(poller[p])
        BY <2>2
      <3> DEFINE b == <<p, BudgetOf(poller[p])>>
      <3>2. BudgetOf(poller[p]) \in Nat /\ BudgetOf(poller'[p]) \in Nat
              /\ BudgetOf(poller[p]) <= MaxPending
        BY <1>1
      <3>3. BudgetOf(poller[p]) \in 1 .. MaxPending
        BY <1>2, <3>1, <3>2
      <3>4. b \in Budgets
        BY <3>2, <3>3 DEF Budgets
      <3>5. b \notin Budgets'
        BY <3>1, <3>2 DEF Budgets
      <3> HIDE DEF b
      <3>6. Budgets' \subseteq Budgets \ {b}
        BY <1>6, <3>5
      <3>7. IsFiniteSet(Budgets \ {b}) /\ Cardinality(Budgets \ {b}) = Cardinality(Budgets) - 1
        BY <1>4, <3>4, FS_RemoveElement
      <3>8. IsFiniteSet(Budgets') /\ Cardinality(Budgets') <= Cardinality(Budgets \ {b})
        BY <3>6, <3>7, FS_Subset
      <3>9. Cardinality(Budgets') \in Nat
        BY <3>8, FS_CardinalityType
      <3> QED
        BY <1>4, <2>2, <3>7, <3>8, <3>9
    <2> QED
      BY <2>1, <2>2
  <1>8. Cardinality(Unfinished') + Cardinality(Budgets') <= MaxPending * Cardinality(Pollers)
    BY <1>1, <1>2, <1>4, <1>5, <1>7
  <1> QED
    BY <1>3, <1>8 DEF BudgetInv

(* What a poller's steps do to its budget. *)
LEMMA BudgetSteps ==
    ASSUME TypeOK, BudgetInv, NEW p \in Pollers,
           NEW pc \in {"map", "enqueue", "ack", "nack"}, poller[p].pc = pc
    PROVE  /\ \A next \in {"enqueue", "ack", "nack"} : Become(p, next) =>
                 /\ HasBatch(poller'[p])
                 /\ next = "enqueue" /\ pc = "map" =>
                       BudgetOf(poller'[p]) = BudgetOf(poller[p])
                 /\ next # "enqueue" /\ pc \in {"map", "enqueue"} =>
                       BudgetOf(poller'[p]) + 1 = BudgetOf(poller[p])
           /\ MoveOn(p) /\ pc \in {"ack", "nack"} =>
                 HasBatch(poller'[p]) /\ BudgetOf(poller'[p]) = BudgetOf(poller[p])
  <1> DEFINE r == poller[p]
  <1>1. r \in PollerType /\ HasBatch(r)
    BY DEF TypeOK, PollerType, BudgetInv
  <1>2. /\ IsFiniteSet(r.batch) /\ Cardinality(r.batch) \in Nat
        /\ r.batch # {} /\ Cardinality(r.batch) # 0
    BY <1>1, BatchFinite DEF HasBatch
  <1>3. ASSUME NEW next \in {"enqueue", "ack", "nack"}, Become(p, next)
        PROVE  /\ HasBatch(poller'[p])
               /\ next = "enqueue" /\ pc = "map" =>
                     BudgetOf(poller'[p]) = BudgetOf(poller[p])
               /\ next # "enqueue" /\ pc \in {"map", "enqueue"} =>
                     BudgetOf(poller'[p]) + 1 = BudgetOf(poller[p])
    <2>1. poller'[p].batch = poller[p].batch /\ poller'[p].pc = next
      BY <1>3, PollerSteps
    <2> QED
      BY <1>2, <1>3, <2>1 DEF HasBatch, BudgetOf
  <1>4. ASSUME MoveOn(p), pc \in {"ack", "nack"}
        PROVE  HasBatch(poller'[p]) /\ BudgetOf(poller'[p]) = BudgetOf(poller[p])
    <2> DEFINE rest == poller[p].batch \ {Current(p)}
               moved == [Idle EXCEPT !.pc = "map", !.batch = rest]
    <2>1. Current(p) \in r.batch
      BY <1>2, CurrentIn
    <2>2. IsFiniteSet(rest) /\ Cardinality(rest) = Cardinality(r.batch) - 1
      BY <1>2, <2>1, FS_RemoveElement
    <2>3. rest = {} <=> Cardinality(rest) = 0
      BY <2>2, FS_EmptySet
    <2> HIDE DEF rest
    <2>4. poller'[p] = IF rest = {} THEN Idle ELSE moved
      BY <1>4 DEF MoveOn, TypeOK, rest
    <2>5. moved.pc = "map" /\ moved.batch = rest /\ Idle.pc = "idle"
      BY DEF Idle
    <2> HIDE DEF moved
    <2>6. BudgetOf(poller[p]) = Cardinality(rest)
      BY <1>4, <2>2 DEF BudgetOf
    <2>7. CASE rest = {}
      BY <2>3, <2>4, <2>5, <2>6, <2>7 DEF BudgetOf, HasBatch
    <2>8. CASE rest # {}
      BY <2>4, <2>5, <2>6, <2>8 DEF BudgetOf, HasBatch
    <2> QED
      BY <2>7, <2>8
  <1> QED
    BY <1>3, <1>4

LEMMA UnfinishedGrows ==
    ASSUME TypeOK
    PROVE  /\ \A m : runs' = [runs EXCEPT ![m] = "unfinished"] =>
                 IsFiniteSet(Unfinished') /\ Cardinality(Unfinished') <= Cardinality(Unfinished) + 1
           /\ (\A m \in Messages : runs'[m] = "unfinished" => runs[m] = "unfinished") =>
                 IsFiniteSet(Unfinished') /\ Cardinality(Unfinished') <= Cardinality(Unfinished)
  <1>1. IsFiniteSet(Unfinished) /\ Cardinality(Unfinished) \in Nat
    BY BudgetsFinite
  <1>2. ASSUME NEW m, runs' = [runs EXCEPT ![m] = "unfinished"]
        PROVE  IsFiniteSet(Unfinished') /\ Cardinality(Unfinished') <= Cardinality(Unfinished) + 1
    <2>1. Unfinished' \subseteq Unfinished \cup {m}
      BY <1>2 DEF Unfinished, TypeOK
    <2>2. IsFiniteSet(Unfinished \cup {m})
            /\ Cardinality(Unfinished \cup {m}) <= Cardinality(Unfinished) + 1
      BY <1>1, FS_AddElement
    <2>3. IsFiniteSet(Unfinished') /\ Cardinality(Unfinished') <= Cardinality(Unfinished \cup {m})
      BY <2>1, <2>2, FS_Subset
    <2>4. Cardinality(Unfinished') \in Nat /\ Cardinality(Unfinished \cup {m}) \in Nat
      BY <2>2, <2>3, FS_CardinalityType
    <2> QED
      BY <1>1, <2>2, <2>3, <2>4
  <1>3. ASSUME \A m \in Messages : runs'[m] = "unfinished" => runs[m] = "unfinished"
        PROVE  IsFiniteSet(Unfinished') /\ Cardinality(Unfinished') <= Cardinality(Unfinished)
    <2>1. Unfinished' \subseteq Unfinished
      BY <1>3 DEF Unfinished
    <2> QED
      BY <1>1, <2>1, FS_Subset
  <1> QED
    BY <1>2, <1>3

(* A step of one poller. *)
LEMMA OneSpends ==
    ASSUME TypeOK, TypeOK', BudgetInv, NEW p \in Pollers, NEW n \in {0, 1},
           \A q \in Pollers \ {p} : poller'[q] = poller[q],
           HasBatch(poller'[p]), BudgetOf(poller'[p]) + n <= BudgetOf(poller[p]),
           IsFiniteSet(Unfinished'), Cardinality(Unfinished') <= Cardinality(Unfinished) + n
    PROVE  BudgetInv'
  <1>1. \A q \in Pollers : HasBatch(poller[q]) /\ poller[q] \in PollerType
                           /\ poller'[q] \in PollerType
    BY DEF BudgetInv, TypeOK, PollerType
  <1>2. \A q \in Pollers : HasBatch(poller'[q])
    BY <1>1
  <1>3. \A q \in Pollers : BudgetOf(poller[q]) \in Nat /\ BudgetOf(poller'[q]) \in Nat
    BY <1>1, <1>2, BudgetType
  <1>4. ASSUME NEW q \in Pollers
        PROVE  BudgetOf(poller'[q]) <= BudgetOf(poller[q])
    <2>1. CASE q = p
      BY <1>3, <2>1
    <2>2. CASE q # p
      BY <1>3, <2>2
    <2> QED
      BY <2>1, <2>2
  <1>5. n = 1 => \E q \in Pollers : BudgetOf(poller'[q]) + 1 <= BudgetOf(poller[q])
    OBVIOUS
  <1> QED
    BY <1>2, <1>3, <1>4, <1>5, Spends

LEMMA AskBudget ==
    ASSUME TypeOK, TypeOK', BudgetInv, NEW p \in Pollers, Ask(p)
    PROVE  BudgetInv'
  <1> DEFINE u == Cardinality(Unfinished)
             n == Limit(Room)
             All == Pollers \X (1 .. MaxPending)
             Left == {p} \X ((n + 1) .. MaxPending)
  <1>1. u \in Nat /\ MaxPending \in Nat \ {0} /\ BatchSize \in Nat /\ n \in Nat
    BY QueueAssumption, BudgetsFinite, LimitType
  <1>2. n <= MaxPending - u
    <2>1. MaxPending - u \in Int
      BY <1>1
    <2>2. Room \in {0, MaxPending - u} /\ Room # 0
      <3>1. Room \in {0, MaxPending - u}
        <4>1. 0 \in Int /\ MaxPending - u \in Int
          BY <2>1
        <4>2. Max({0, MaxPending - u}) \in {0, MaxPending - u}
          BY <4>1, OfTwo
        <4> QED
          BY <4>2 DEF Room
      <3>2. Room # 0
        BY DEF Ask
      <3> QED
        BY <3>1, <3>2
    <2>3. Room \in Int /\ BatchSize \in Int
      BY <1>1, <2>1, <2>2
    <2>4. n <= Room
      <3>1. \E x \in {Room, BatchSize} : \A y \in {Room, BatchSize} : x <= y
        BY <2>3
      <3>2. Min({Room, BatchSize}) <= Room
        BY <3>1 DEF Min
      <3> QED
        BY <3>2 DEF Limit
    <2> QED
      BY <2>2, <2>4
  <1>3. /\ poller'[p].pc = "pull" /\ poller'[p].limit = n
        /\ \A q \in Pollers \ {p} : poller'[q] = poller[q]
        /\ Unfinished' = Unfinished
    BY DEF Ask, Idle, TypeOK, Unfinished
  <1> HIDE DEF n
  <1>4. BudgetOf(poller'[p]) = n /\ HasBatch(poller'[p])
    BY <1>3 DEF BudgetOf, HasBatch
  <1>5. \A q \in Pollers : BudgetOf(poller'[q]) <= MaxPending /\ HasBatch(poller'[q])
    <2>1. n <= MaxPending
      BY <1>1, <1>2
    <2> QED
      BY <1>3, <1>4, <2>1 DEF BudgetInv
  <1>6. Budgets' \subseteq All \ Left
    <2> SUFFICES ASSUME NEW b \in Budgets', b \in Left PROVE FALSE
      BY DEF Budgets
    <2>1. b[1] = p /\ b[2] >= n + 1 /\ b[2] \in Int
      BY <1>1
    <2>2. b[2] <= BudgetOf(poller'[b[1]])
      BY DEF Budgets
    <2> QED
      BY <1>1, <1>4, <2>1, <2>2
  <1>7. IsFiniteSet(Left) /\ Cardinality(Left) = MaxPending - n
    <2>1. n + 1 \in Int /\ MaxPending \in Int
      BY <1>1
    <2>2. IsFiniteSet((n + 1) .. MaxPending)
            /\ Cardinality((n + 1) .. MaxPending) =
                  IF n + 1 > MaxPending THEN 0 ELSE MaxPending - (n + 1) + 1
      BY <2>1, FS_Interval
    <2>3. Cardinality((n + 1) .. MaxPending) = MaxPending - n
      BY <1>1, <1>2, <2>2
    <2>4. IsFiniteSet({p}) /\ Cardinality({p}) = 1
      BY FS_Singleton
    <2>5. IsFiniteSet(Left) /\ Cardinality(Left) = 1 * Cardinality((n + 1) .. MaxPending)
      BY <2>2, <2>4, FS_Product
    <2> QED
      BY <1>1, <2>3, <2>5
  <1>8. Left \subseteq All
    BY <1>1
  <1>9. IsFiniteSet(All) /\ Cardinality(All) = MaxPending * Cardinality(Pollers)
    BY BudgetsFinite
  <1> HIDE DEF Left, All
  <1>10. IsFiniteSet(All \ Left)
           /\ Cardinality(All \ Left) = Cardinality(All) - Cardinality(Left)
    <2>1. All \cap Left = Left
      BY <1>8
    <2> QED
      BY <1>9, <2>1, FS_Difference
  <1>11. Cardinality(Budgets') <= Cardinality(All \ Left) /\ IsFiniteSet(Budgets')
    BY <1>6, <1>10, FS_Subset
  <1>12. Cardinality(Budgets') \in Nat /\ Cardinality(All) \in Nat
    BY <1>9, <1>11, FS_CardinalityType
  <1>13. u + Cardinality(Budgets') <= MaxPending * Cardinality(Pollers)
    BY <1>1, <1>2, <1>7, <1>9, <1>10, <1>11, <1>12
  <1> QED
    BY <1>3, <1>5, <1>13 DEF BudgetInv

LEMMA BudgetPoll ==
    ASSUME TypeOK, TypeOK', BudgetInv, NEW p \in Pollers,
           Pull(p) \/ Map(p) \/ Crash(p)
    PROVE  BudgetInv'
  <1>1. IsFiniteSet(Unfinished') /\ Cardinality(Unfinished') <= Cardinality(Unfinished) + 0
    <2>1. Unfinished' = Unfinished
      BY DEF Pull, Map, Crash, Unfinished
    <2> QED
      BY <2>1, BudgetsFinite
  <1>2. poller[p] \in PollerType /\ HasBatch(poller[p]) /\ BudgetOf(poller[p]) \in Nat
    BY BudgetType DEF TypeOK, PollerType, BudgetInv
  <1>3. BudgetOf(Idle) = 0 /\ HasBatch(Idle)
    BY DEF BudgetOf, HasBatch, Idle
  <1>4. CASE Pull(p)
    <2>1. PICK batch \in SUBSET Visible :
             /\ Cardinality(batch) <= poller[p].limit
             /\ poller' = [poller EXCEPT ![p] = IF batch = {} THEN Idle
                                                ELSE [Idle EXCEPT !.pc = "map", !.batch = batch]]
      BY <1>4 DEF Pull, Takes
    <2> DEFINE moved == [Idle EXCEPT !.pc = "map", !.batch = batch]
    <2>2. /\ poller'[p] = (IF batch = {} THEN Idle ELSE moved)
          /\ \A q \in Pollers \ {p} : poller'[q] = poller[q]
      BY <2>1 DEF TypeOK
    <2>3. moved.pc = "map" /\ moved.batch = batch
      BY DEF Idle
    <2>4. poller[p].pc = "pull"
      BY <1>4 DEF Pull
    <2> HIDE DEF moved
    <2>5. BudgetOf(poller[p]) = poller[p].limit
      BY <2>4 DEF BudgetOf
    <2>6. CASE batch = {}
      <3>1. HasBatch(poller'[p]) /\ BudgetOf(poller'[p]) + 0 <= BudgetOf(poller[p])
        BY <1>2, <1>3, <2>2, <2>6
      <3> QED
        BY <1>1, <2>2, <3>1, OneSpends
    <2>7. CASE batch # {}
      <3>1. moved \in PollerType
        BY <2>2, <2>7 DEF TypeOK, PollerType
      <3>2. Cardinality(batch) \in Nat
        BY <2>3, <3>1, BatchFinite
      <3>3. BudgetOf(moved) = Cardinality(batch) /\ HasBatch(moved)
        BY <2>3, <2>7 DEF BudgetOf, HasBatch
      <3>4. BudgetOf(poller'[p]) + 0 <= BudgetOf(poller[p]) /\ HasBatch(poller'[p])
        BY <1>2, <2>1, <2>2, <2>5, <2>7, <3>2, <3>3
      <3> QED
        BY <1>1, <2>2, <3>4, OneSpends
    <2> QED
      BY <2>6, <2>7
  <1>5. CASE Map(p)
    <2>1. PICK next \in {"nack", "enqueue"} : Become(p, next)
      BY <1>5 DEF Map
    <2>2. poller[p].pc = "map"
      BY <1>5 DEF Map
    <2>3. \A q \in Pollers \ {p} : poller'[q] = poller[q]
      BY <2>1, PollerSteps
    <2>4. /\ HasBatch(poller'[p])
          /\ \/ BudgetOf(poller'[p]) = BudgetOf(poller[p])
             \/ BudgetOf(poller'[p]) + 1 = BudgetOf(poller[p])
      BY <2>1, <2>2, BudgetSteps
    <2>5. poller'[p] \in PollerType
      BY DEF TypeOK, PollerType
    <2>6. BudgetOf(poller'[p]) \in Nat
      BY <2>4, <2>5, BudgetType
    <2>7. BudgetOf(poller'[p]) + 0 <= BudgetOf(poller[p])
      BY <1>2, <2>4, <2>6
    <2> QED
      BY <1>1, <2>3, <2>4, <2>7, OneSpends
  <1>6. CASE Crash(p)
    <2>1. poller'[p] = Idle /\ \A q \in Pollers \ {p} : poller'[q] = poller[q]
      BY <1>6 DEF Crash, TypeOK
    <2>2. HasBatch(poller'[p]) /\ BudgetOf(poller'[p]) + 0 <= BudgetOf(poller[p])
      BY <1>2, <1>3, <2>1
    <2> QED
      BY <1>1, <2>1, <2>2, OneSpends
  <1> QED
    BY <1>4, <1>5, <1>6

LEMMA BudgetEnqueue ==
    ASSUME TypeOK, TypeOK', BudgetInv, NEW p \in Pollers, Enqueue(p) \/ EnqueueFails(p)
    PROVE  BudgetInv'
  <1>1. PICK next \in {"ack", "nack"} : Become(p, next)
    BY DEF Enqueue, EnqueueFails, AfterReject
  <1>2. poller[p].pc = "enqueue"
    BY DEF Enqueue, EnqueueFails
  <1>3. \A q \in Pollers \ {p} : poller'[q] = poller[q]
    BY <1>1, PollerSteps
  <1>4. HasBatch(poller'[p]) /\ BudgetOf(poller'[p]) + 1 = BudgetOf(poller[p])
    BY <1>1, <1>2, BudgetSteps
  <1>5. poller'[p] \in PollerType
    BY DEF TypeOK, PollerType
  <1>6. BudgetOf(poller'[p]) \in Nat
    BY <1>4, <1>5, BudgetType
  <1>7. BudgetOf(poller'[p]) + 1 <= BudgetOf(poller[p])
    BY <1>4, <1>6
  <1>8. UNCHANGED runs \/ runs' = [runs EXCEPT ![Message(p)] = "unfinished"]
    BY DEF Enqueue, EnqueueFails
  <1>9. IsFiniteSet(Unfinished') /\ Cardinality(Unfinished') <= Cardinality(Unfinished) + 1
    <2>1. CASE UNCHANGED runs
      <3>1. Unfinished' = Unfinished
        BY <2>1 DEF Unfinished
      <3> QED
        BY <3>1, BudgetsFinite
    <2>2. CASE runs' = [runs EXCEPT ![Message(p)] = "unfinished"]
      BY <2>2, UnfinishedGrows
    <2> QED
      BY <1>8, <2>1, <2>2
  <1> QED
    BY <1>3, <1>4, <1>7, <1>9, OneSpends

LEMMA BudgetSettle ==
    ASSUME TypeOK, TypeOK', BudgetInv, NEW p \in Pollers, Ack(p) \/ Nack(p) \/ SettleFails(p)
    PROVE  BudgetInv'
  <1>1. MoveOn(p) /\ poller[p].pc \in {"ack", "nack"} /\ UNCHANGED runs
    BY DEF Ack, Nack, SettleFails
  <1>2. \A q \in Pollers \ {p} : poller'[q] = poller[q]
    BY <1>1, PollerSteps
  <1>3. HasBatch(poller'[p]) /\ BudgetOf(poller'[p]) = BudgetOf(poller[p])
    BY <1>1, BudgetSteps
  <1>4. BudgetOf(poller[p]) \in Nat
    BY BudgetType DEF TypeOK, PollerType, BudgetInv
  <1>5. BudgetOf(poller'[p]) + 0 <= BudgetOf(poller[p])
    BY <1>3, <1>4
  <1>6. IsFiniteSet(Unfinished') /\ Cardinality(Unfinished') <= Cardinality(Unfinished) + 0
    <2>1. Unfinished' = Unfinished
      BY <1>1 DEF Unfinished
    <2> QED
      BY <2>1, BudgetsFinite
  <1> QED
    BY <1>2, <1>3, <1>5, <1>6, OneSpends

(* Every step that leaves the pollers alone creates no run. *)
LEMMA BudgetRest ==
    ASSUME TypeOK, BudgetInv, UNCHANGED poller,
           \A m \in Messages : runs'[m] = "unfinished" => runs[m] = "unfinished"
    PROVE  BudgetInv'
  <1>1. \A q \in Pollers : BudgetOf(poller[q]) \in Nat
    BY BudgetType DEF TypeOK, PollerType, BudgetInv
  <1>2. \A q \in Pollers : BudgetOf(poller[q]) <= BudgetOf(poller[q]) /\ HasBatch(poller[q])
    BY <1>1 DEF BudgetInv
  <1>3. IsFiniteSet(Unfinished') /\ Cardinality(Unfinished') <= Cardinality(Unfinished) + 0
    <2>1. Cardinality(Unfinished) \in Nat
      BY BudgetsFinite
    <2> QED
      BY <2>1, UnfinishedGrows
  <1> QED
    BY <1>1, <1>2, <1>3, Spends

LEMMA BudgetNext ==
    ASSUME TypeOK, TypeOK', BudgetInv, [Next]_vars
    PROVE  BudgetInv'
  <1>1. ASSUME NEW m \in Messages, Finish(m) \/ Prune(m)
        PROVE  BudgetInv'
    BY <1>1, BudgetRest DEF Finish, Prune, TypeOK
  <1>2. CASE UNCHANGED vars \/ (\E c \in Copies : Publish(c)) \/ Freeze \/ Unfreeze \/ Tick
    <2>1. UNCHANGED <<poller, runs>>
      BY <1>2 DEF vars, Publish, Freeze, Unfreeze, Tick
    <2> QED
      BY <2>1, BudgetRest
  <1> QED
    BY <1>1, <1>2, AskBudget, BudgetPoll, BudgetEnqueue, BudgetSettle DEF Next, Poll

LEMMA BudgetInit == Init => BudgetInv
  <1> SUFFICES ASSUME Init PROVE BudgetInv
    OBVIOUS
  <1>1. \A p \in Pollers : poller[p] = Idle
    BY DEF Init
  <1>2. BudgetOf(Idle) = 0 /\ HasBatch(Idle)
    BY DEF BudgetOf, HasBatch, Idle
  <1>3. Unfinished = {} /\ Budgets = {}
    <2>1. Unfinished = {}
      BY DEF Init, Unfinished
    <2>2. Budgets = {}
      <3> SUFFICES ASSUME NEW b \in Budgets PROVE FALSE
        OBVIOUS
      <3>1. b[1] \in Pollers /\ b[2] \in 1 .. MaxPending /\ b[2] <= BudgetOf(poller[b[1]])
        BY DEF Budgets
      <3> QED
        BY <1>1, <1>2, <3>1, QueueAssumption
    <2> QED
      BY <2>1, <2>2
  <1>4. MaxPending \in Nat /\ Cardinality(Pollers) \in Nat /\ Cardinality({}) = 0
    BY QueueAssumption, FS_CardinalityType, FS_EmptySet
  <1>5. 0 <= MaxPending * Cardinality(Pollers)
    BY <1>4
  <1> QED
    BY <1>1, <1>2, <1>3, <1>4, <1>5 DEF BudgetInv

(* Back-pressure (pending_runs): the pollers together never leave more     *)
(* than max_pending runs each unfinished, whoever else created, finished   *)
(* or pruned one between a look at the room and the enqueues it allowed.   *)
THEOREM PendingStaysBounded == Spec => []PendingBounded
  <1>1. BudgetInv => PendingBounded
    <2>1. Cardinality(Budgets) \in Nat /\ Cardinality(Unfinished) \in Nat
      BY BudgetsFinite
    <2>2. MaxPending * Cardinality(Pollers) \in Nat
      <3>1. MaxPending \in Nat /\ Cardinality(Pollers) \in Nat
        BY QueueAssumption, FS_CardinalityType
      <3> QED
        BY <3>1
    <2> QED
      BY <2>1, <2>2 DEF BudgetInv, PendingBounded
  <1>2. QInv => TypeOK
    BY DEF QInv
  <1> QED
    BY <1>1, <1>2, Always, BudgetInit, BudgetNext, PTL DEF Spec

-----------------------------------------------------------------------------
(* A leased delivery is left alone but for the clock, until the poller it  *)
(* was handed to settles it (leased_index).                                *)
THEOREM LeaseIsKept == Spec => LeaseKept
  <1> DEFINE Kept(c) ==
               (Stored(c) /\ table[c].receipt # None /\ table[c].hidden > 0) =>
                 \/ table'[c] = table[c]
                 \/ table'[c] = [table[c] EXCEPT !.hidden = @ - 1]
                 \/ LET p == table[c].receipt IN
                       poller[p].pc \in {"ack", "nack"} /\ Current(p) = c /\ poller'[p] # poller[p]
  <1>1. ASSUME TypeOK, [Next]_vars, NEW c \in Copies
        PROVE  Kept(c)
    <2> SUFFICES ASSUME Stored(c), table[c].receipt # None, table[c].hidden > 0,
                        table'[c] # table[c],
                        table'[c] # [table[c] EXCEPT !.hidden = @ - 1]
                 PROVE  LET p == table[c].receipt IN
                        poller[p].pc \in {"ack", "nack"} /\ Current(p) = c /\ poller'[p] # poller[p]
      OBVIOUS
    <2>1. table \in [Copies -> CopyType]
      BY <1>1 DEF TypeOK, CopyType
    <2>2. ~UNCHANGED table /\ ~UNCHANGED vars
      BY DEF vars
    <2>3. ASSUME NEW d \in Copies, Publish(d)
          PROVE  FALSE
      BY <2>1, <2>3 DEF Publish, Stored
    <2>4. ASSUME NEW p \in Pollers, Pull(p)
          PROVE  FALSE
      <3>1. PICK batch \in SUBSET Visible :
               table' = [d \in Copies |-> IF d \in batch
                                          THEN [table[d] EXCEPT !.hidden = Lease, !.receipt = p]
                                          ELSE table[d]]
        BY <2>4 DEF Pull
      <3>2. c \notin batch
        BY <2>1 DEF Visible, CopyType
      <3> QED
        BY <3>1, <3>2
    <2>5. ASSUME NEW p \in Pollers, Ack(p) \/ Nack(p)
          PROVE  LET q == table[c].receipt IN
                 poller[q].pc \in {"ack", "nack"} /\ Current(q) = c /\ poller'[q] # poller[q]
      <3>1. Holds(p, Current(p)) /\ Current(p) = c
        BY <2>1, <2>2, <2>5 DEF Ack, Nack
      <3>2. table[c].receipt = p
        BY <3>1 DEF Holds
      <3>3. poller[p].pc \in {"ack", "nack"} /\ MoveOn(p)
        BY <2>5 DEF Ack, Nack
      <3>4. poller'[p].pc \notin {"ack", "nack"}
        BY <1>1, <3>3 DEF MoveOn, Idle, TypeOK
      <3> QED
        BY <3>1, <3>2, <3>3, <3>4
    <2>6. CASE Tick
      BY <2>6 DEF Tick
    <2> QED
      BY <1>1, <2>2, <2>3, <2>4, <2>5, <2>6
      DEF Next, Poll, Finish, Prune, Ask, Map, Enqueue, EnqueueFails, SettleFails, Crash,
          Freeze, Unfreeze
  <1>2. TypeOK /\ [Next]_vars => [\A c \in Copies : Kept(c)]_vars
    BY <1>1
  <1>3. QInv => TypeOK
    BY DEF QInv
  <1> QED
    BY <1>2, <1>3, Always, PTL DEF Spec, LeaseKept
=============================================================================
