----------------------------- MODULE Scheduler -----------------------------
(***************************************************************************)
(* The durable scheduler (adk-server/src/background/scheduler.rs) on any   *)
(* number of replicas, over one schedule store (adk-core/src/schedule.rs), *)
(* with the cron endpoints (adk-server/src/background/cron.rs) that        *)
(* create, pause, resume and delete schedules.                             *)
(*                                                                         *)
(* A replica polls the due schedules, plans the fire times of each from    *)
(* the copy it read, enqueues one run per fire time, and advances the      *)
(* schedule by compare-and-swap on its revision.  Every store call is one  *)
(* step, and the replicas and the endpoints interleave between the steps.  *)
(*                                                                         *)
(* Of the run store only the idempotent enqueue matters: created holds the *)
(* firing keys <<id, fire time>> that have a run.  The time zone           *)
(* arithmetic of cron is left out: a cron spec is the set of instants it   *)
(* names.                                                                  *)
(***************************************************************************)
EXTENDS Naturals, FiniteSets, FiniteSetsExt

CONSTANTS
    Replicas,       \* scheduler replicas
    Endpoints,      \* handlers of create and resume requests
    Ids,            \* schedule identifiers
    Specs,          \* the specs requests ask for
    Policies,       \* the missed-fire policies requests ask for
    Deletes,        \* whether schedules are deleted
    Grace,          \* how late an occurrence may fire under Skip
    MaxTime,        \* bound: the last clock value
    MaxChanges,     \* bound: requests that change a schedule
    MaxFaults,      \* bound: crashes and store failures
    None            \* Option::None

ASSUME SchedulerAssumption ==
    /\ Grace \in Nat /\ MaxTime \in Nat /\ MaxChanges \in Nat /\ MaxFaults \in Nat
    /\ Deletes \in BOOLEAN
    /\ None \notin Nat
    /\ \A spec \in Specs : /\ spec.kind \in {"At", "Every", "Cron", "Unparsable"}
                           /\ spec.step \in Nat
                           /\ spec.kind = "Every" => spec.step > 0
                           /\ spec.times \subseteq 0 .. MaxTime
                           /\ spec.kind = "At" => Cardinality(spec.times) = 1
    /\ \A policy \in Policies : /\ policy.kind \in {"Skip", "FireOnce", "CatchUp"}
                                /\ policy.wanted \in Nat \ {0}

VARIABLES
    schedules,  \* the store: id -> schedule, or None
    created,    \* firing keys that have a run
    answered,   \* history: firing keys whose enqueue was answered
    replica,    \* what each replica is doing
    endpoint,   \* the upsert each request handler is about to send, or None
    refusing,   \* whether the governance control refuses work
    now,        \* the clock the replicas read
    changes,    \* requests so far
    faults      \* crashes and store failures so far

vars == <<schedules, created, answered, replica, endpoint, refusing, now, changes, faults>>

-----------------------------------------------------------------------------
(* Planning *)

(* The latest n members of a set of times: what walking back from now and  *)
(* stopping after n keeps.                                                 *)
LatestOf(times, n) ==
    {t \in times : Cardinality({u \in times : u > t}) < n}

(* Variant: the catch-up window is one occurrence short. *)
EveryPlanShort(step, wanted, due_at, at) ==
    LET latest == (at - due_at) \div step
        first == IF latest + 1 > wanted THEN latest + 2 - wanted ELSE 0
    IN  [fire_times |-> {due_at + k * step : k \in first .. latest},
         next_fire_at |-> due_at + (latest + 1) * step]

(* The Every arm of plan_fires *)
EveryPlan(step, wanted, due_at, at) ==
    LET latest == (at - due_at) \div step
        first == IF latest + 1 > wanted THEN latest + 1 - wanted ELSE 0
    IN  [fire_times |-> {due_at + k * step : k \in first .. latest},
         next_fire_at |-> due_at + (latest + 1) * step]

(* cron::latest_and_next: the occurrences are walked back from `at'; the   *)
(* due time is kept when the walk found fewer than wanted.                 *)
CronPlan(times, wanted, due_at, at) ==
    LET later == {t \in times : t > due_at /\ t <= at}
        next == {t \in times : t > at}
    IN  [fire_times |-> LatestOf(later, wanted)
                          \cup (IF Cardinality(later) < wanted THEN {due_at} ELSE {}),
         next_fire_at |-> IF next = {} THEN None ELSE Min(next)]

SpecPlan(spec, wanted, due_at, at) ==
    CASE spec.kind = "At" -> [fire_times |-> {due_at}, next_fire_at |-> None]
      [] spec.kind = "Every" -> EveryPlan(spec.step, wanted, due_at, at)
      [] spec.kind = "Cron" -> CronPlan(spec.times, wanted, due_at, at)

(* plan_fires, for a spec that can be planned and due_at <= at. *)
PlanFires(spec, missed, due_at, at) ==
    LET plan == SpecPlan(spec, missed.wanted, due_at, at)
        late == /\ missed.kind = "Skip"
                /\ plan.fire_times # {}
                /\ at > Max(plan.fire_times) + Grace
    IN  IF late THEN [plan EXCEPT !.fire_times = {}] ELSE plan

(* ScheduleSpec::next_after; an At names one instant *)
NextAfter(spec, after) ==
    LET next == {t \in spec.times : t > after} IN
    IF spec.kind = "Every" THEN after + spec.step
    ELSE IF next = {} THEN None ELSE Min(next)

-----------------------------------------------------------------------------
(* The schedule store *)

Schedule ==
    [spec : Specs, missed : Policies, paused : BOOLEAN,
     next_fire_at : Nat \cup {None}, revision : Nat]

(* What a request handler is about to send. *)
PendingUpsert == [id : Ids, creates : BOOLEAN, schedule : Schedule]

ASSUME OptionAssumption == None \notin Schedule \cup PendingUpsert

Exists(id) == schedules[id] # None

SameDefinition(s, t) == [s EXCEPT !.revision = 0] = [t EXCEPT !.revision = 0]

Store(id, schedule) == schedules' = [schedules EXCEPT ![id] = schedule]

Upsert(id, schedule) ==
    IF ~Exists(id) THEN Store(id, [schedule EXCEPT !.revision = 1])
    ELSE IF SameDefinition(schedules[id], schedule) THEN UNCHANGED schedules
    ELSE Store(id, [schedule EXCEPT !.revision = schedules[id].revision + 1])

SetPaused(id, paused) ==
    IF ~Exists(id) \/ schedules[id].paused = paused THEN UNCHANGED schedules
    ELSE Store(id, [schedules[id] EXCEPT !.paused = paused, !.revision = @ + 1])

IsDue(id, at) ==
    /\ Exists(id)
    /\ ~schedules[id].paused
    /\ schedules[id].next_fire_at # None
    /\ schedules[id].next_fire_at <= at

(* Variant: the revision is not compared. *)
AdvanceAlways(id, expected_revision, next_fire_at) ==
    IF ~Exists(id) THEN UNCHANGED schedules
    ELSE Store(id, [schedules[id] EXCEPT !.next_fire_at = next_fire_at,
                                         !.revision = @ + 1])

(* Variant: an advance keeps the revision. *)
AdvanceSameRevision(id, expected_revision, next_fire_at) ==
    IF ~Exists(id) \/ schedules[id].revision # expected_revision
    THEN UNCHANGED schedules
    ELSE Store(id, [schedules[id] EXCEPT !.next_fire_at = next_fire_at])

(* advance, whatever it returns *)
Advance(id, expected_revision, next_fire_at) ==
    IF ~Exists(id) \/ schedules[id].revision # expected_revision
    THEN UNCHANGED schedules
    ELSE Store(id, [schedules[id] EXCEPT !.next_fire_at = next_fire_at,
                                         !.revision = @ + 1])

-----------------------------------------------------------------------------
(* A replica.  batch holds the copies `due' returned that are still to be  *)
(* fired; planned is what is left to enqueue of the one being fired.       *)

Due == [id : Ids, schedule : Schedule]

Replica ==
    [pc : {"Idle", "Firing", "Enqueueing"},
     at : Nat,
     batch : SUBSET Due,
     planned : SUBSET Nat,
     next_fire_at : Nat \cup {None}]

Resting ==
    [pc |-> "Idle", at |-> 0, batch |-> {}, planned |-> {}, next_fire_at |-> None]

Init ==
    /\ schedules = [id \in Ids |-> None]
    /\ created = {}
    /\ answered = {}
    /\ replica = [p \in Replicas |-> Resting]
    /\ endpoint = [e \in Endpoints |-> None]
    /\ refusing = FALSE
    /\ now = 0
    /\ changes = 0
    /\ faults = 0

(* The copy a replica fires: earliest first. *)
Earliest(batch) ==
    CHOOSE d \in batch : \A e \in batch : d.schedule.next_fire_at <= e.schedule.next_fire_at

Current(p) == Earliest(replica[p].batch)

(* Variant: the tick ends with copies left to fire. *)
NextInBatchKeeps(p) == replica' = [replica EXCEPT ![p].pc = "Idle"]

(* The replica goes on to its next due schedule, or rests. *)
NextInBatch(p) ==
    LET batch == replica[p].batch \ {Current(p)} IN
    replica' = [replica EXCEPT ![p] =
                  IF batch = {} THEN Resting
                  ELSE [Resting EXCEPT !.pc = "Firing", !.at = replica[p].at,
                                       !.batch = batch]]

(* tick: the control is read, then the clock, then the due schedules. *)
Poll(p) ==
    /\ replica[p].pc = "Idle"
    /\ ~refusing
    /\ \E id \in Ids : IsDue(id, now)
    /\ replica' = [replica EXCEPT ![p] =
                     [Resting EXCEPT
                        !.pc = "Firing", !.at = now,
                        !.batch = {[id |-> id, schedule |-> schedules[id]] :
                                      id \in {i \in Ids : IsDue(i, now)}}]]
    /\ UNCHANGED <<schedules, created, answered, endpoint, refusing, now, changes, faults>>

(* fire, up to its first enqueue: a schedule that cannot be planned is     *)
(* paused, and one the control now refuses is left due.                    *)
Plan(p) ==
    /\ replica[p].pc = "Firing"
    /\ LET d == Current(p)
           s == d.schedule
       IN  IF s.spec.kind = "Unparsable"
           THEN SetPaused(d.id, TRUE) /\ NextInBatch(p)
           ELSE IF refusing
           THEN NextInBatch(p) /\ UNCHANGED schedules
           ELSE LET plan == PlanFires(s.spec, s.missed, s.next_fire_at, replica[p].at) IN
                /\ replica' = [replica EXCEPT
                                 ![p].pc = "Enqueueing",
                                 ![p].planned = plan.fire_times,
                                 ![p].next_fire_at = plan.next_fire_at]
                /\ UNCHANGED schedules
    /\ UNCHANGED <<created, answered, endpoint, refusing, now, changes, faults>>

(* Variant: a firing whose run exists is not answered. *)
EnqueueFiringNew(p) ==
    /\ replica[p].pc = "Enqueueing"
    /\ replica[p].planned # {}
    /\ LET fire_time == Min(replica[p].planned)
           key == <<Current(p).id, fire_time>>
       IN  /\ key \notin created
           /\ created' = created \cup {key}
           /\ answered' = answered \cup {key}
           /\ replica' = [replica EXCEPT ![p].planned = @ \ {fire_time}]
    /\ UNCHANGED <<schedules, endpoint, refusing, now, changes, faults>>

(* DurableRunStore::enqueue of Schedule::run_for: the run is created, or   *)
(* the one of the same firing key is returned.                             *)
EnqueueFiring(p) ==
    /\ replica[p].pc = "Enqueueing"
    /\ replica[p].planned # {}
    /\ LET fire_time == Min(replica[p].planned)
           key == <<Current(p).id, fire_time>>
       IN  /\ created' = created \cup {key}
           /\ answered' = answered \cup {key}
           /\ replica' = [replica EXCEPT ![p].planned = @ \ {fire_time}]
    /\ UNCHANGED <<schedules, endpoint, refusing, now, changes, faults>>

(* The schedule's concurrency key refuses the run: the occurrence is       *)
(* skipped.                                                                *)
RejectFiring(p) ==
    /\ replica[p].pc = "Enqueueing"
    /\ replica[p].planned # {}
    /\ LET fire_time == Min(replica[p].planned)
           key == <<Current(p).id, fire_time>>
       IN  /\ key \notin created
           /\ answered' = answered \cup {key}
           /\ replica' = [replica EXCEPT ![p].planned = @ \ {fire_time}]
    /\ UNCHANGED <<schedules, created, endpoint, refusing, now, changes, faults>>

(* Variant: the schedule moves on before its fire times are enqueued. *)
MoveOnEarly(p) ==
    /\ replica[p].pc = "Enqueueing"
    /\ Advance(Current(p).id, Current(p).schedule.revision, replica[p].next_fire_at)
    /\ NextInBatch(p)
    /\ UNCHANGED <<created, answered, endpoint, refusing, now, changes, faults>>

(* The end of fire: the schedule moves on, or the race is lost. *)
MoveOn(p) ==
    /\ replica[p].pc = "Enqueueing"
    /\ replica[p].planned = {}
    /\ Advance(Current(p).id, Current(p).schedule.revision, replica[p].next_fire_at)
    /\ NextInBatch(p)
    /\ UNCHANGED <<created, answered, endpoint, refusing, now, changes, faults>>

(* A store call fails: the schedule is left due for a later tick. *)
FireFails(p) ==
    /\ replica[p].pc # "Idle"
    /\ faults < MaxFaults
    /\ faults' = faults + 1
    /\ NextInBatch(p)
    /\ UNCHANGED <<schedules, created, answered, endpoint, refusing, now, changes>>

Crash(p) ==
    /\ replica[p].pc # "Idle"
    /\ faults < MaxFaults
    /\ faults' = faults + 1
    /\ replica' = [replica EXCEPT ![p] = Resting]
    /\ UNCHANGED <<schedules, created, answered, endpoint, refusing, now, changes>>

-----------------------------------------------------------------------------
(* The endpoints.  create and resume read the store, compute the next fire *)
(* time, and upsert: two store calls.                                      *)

Change ==
    /\ changes < MaxChanges
    /\ changes' = changes + 1

Request(e, id, creates, schedule) ==
    /\ endpoint[e] = None
    /\ endpoint' = [endpoint EXCEPT
                      ![e] = [id |-> id, creates |-> creates, schedule |-> schedule]]

(* An assumption on clients: a name is not registered while another        *)
(* request for it is pending.  The code does not enforce it.               *)
NoRivalCreate(id) ==
    \A e \in Endpoints : endpoint[e] # None => endpoint[e].id # id

(* Schedule::new *)
NewSchedule(spec, missed, next_fire_at) ==
    [spec |-> spec, missed |-> missed, paused |-> FALSE,
     next_fire_at |-> next_fire_at, revision |-> 0]

(* create_cron_job, up to its read: the expression parses, the name is free. *)
CreateJob(e, id, spec, missed) ==
    /\ Change
    /\ spec.kind = "Cron"
    /\ ~Exists(id)
    /\ NoRivalCreate(id)
    /\ Request(e, id, TRUE, NewSchedule(spec, missed, NextAfter(spec, now)))
    /\ UNCHANGED <<schedules, created, answered, replica, refusing, now, faults>>

(* patch_cron_job to Active, up to its read. *)
ResumeJob(e, id) ==
    /\ Change
    /\ Exists(id)
    /\ schedules[id].paused
    /\ schedules[id].spec.kind # "Unparsable"
    /\ Request(e, id, FALSE,
               [schedules[id] EXCEPT
                         !.paused = FALSE,
                         !.next_fire_at = NextAfter(schedules[id].spec, now)])
    /\ UNCHANGED <<schedules, created, answered, replica, refusing, now, faults>>

UpsertJob(e) ==
    /\ endpoint[e] # None
    /\ Upsert(endpoint[e].id, endpoint[e].schedule)
    /\ endpoint' = [endpoint EXCEPT ![e] = None]
    /\ UNCHANGED <<created, answered, replica, refusing, now, changes, faults>>

(* An application upserts a schedule of its own: an At at its instant, a   *)
(* cron expression nobody has parsed, an Every.                            *)
Register(id, spec, missed) ==
    /\ Change
    /\ spec.kind # "Cron"
    /\ ~Exists(id)
    /\ NoRivalCreate(id)
    /\ Upsert(id, NewSchedule(spec, missed,
                              CASE spec.kind = "At" -> Min(spec.times)
                                [] spec.kind = "Every" -> NextAfter(spec, now)
                                [] OTHER -> now))
    /\ UNCHANGED <<created, answered, replica, endpoint, refusing, now, faults>>

PauseJob(id) ==
    /\ Change
    /\ Exists(id)
    /\ SetPaused(id, TRUE)
    /\ UNCHANGED <<created, answered, replica, endpoint, refusing, now, faults>>

DeleteJob(id) ==
    /\ Deletes
    /\ Change
    /\ Exists(id)
    /\ Store(id, None)
    /\ UNCHANGED <<created, answered, replica, endpoint, refusing, now, faults>>

Toggle ==
    /\ Change
    /\ refusing' = ~refusing
    /\ UNCHANGED <<schedules, created, answered, replica, endpoint, now, faults>>

Tick ==
    /\ now < MaxTime
    /\ now' = now + 1
    /\ UNCHANGED <<schedules, created, answered, replica, endpoint, refusing, changes, faults>>

Fire(p) == Poll(p) \/ Plan(p) \/ EnqueueFiring(p) \/ RejectFiring(p) \/ MoveOn(p)

Next ==
    \/ \E p \in Replicas : Fire(p) \/ FireFails(p) \/ Crash(p)
    \/ \E e \in Endpoints, id \in Ids :
           \/ \E spec \in Specs, missed \in Policies : CreateJob(e, id, spec, missed)
           \/ ResumeJob(e, id)
    \/ \E e \in Endpoints : UpsertJob(e)
    \/ \E id \in Ids, spec \in Specs, missed \in Policies : Register(id, spec, missed)
    \/ \E id \in Ids : PauseJob(id) \/ DeleteJob(id)
    \/ Toggle
    \/ Tick

(* The tick loop of every replica runs forever, and what it awaits returns *)
(* (spawn, start_cron_scheduler).  Nothing makes a client send a request   *)
(* or an operator lift a freeze.                                           *)
Fairness == \A p \in Replicas : WF_vars(Fire(p))

Spec == Init /\ [][Next]_vars /\ Fairness

-----------------------------------------------------------------------------
(* Type invariant. *)
TypeOK ==
    /\ schedules \in [Ids -> Schedule \cup {None}]
    /\ created \subseteq Ids \X Nat
    /\ answered \subseteq Ids \X Nat
    /\ \A p \in Replicas :
           /\ replica[p].pc \in {"Idle", "Firing", "Enqueueing"}
           /\ replica[p].planned \subseteq Nat
           /\ (replica[p].pc = "Idle") <=> (replica[p].batch = {})
           /\ \A d \in replica[p].batch : d \in Due
    /\ refusing \in BOOLEAN

(* The occurrences of a schedule that is due at due_at. *)
Occurrences(spec, due_at, at) ==
    CASE spec.kind = "At" -> {due_at}
      [] spec.kind = "Every" -> {t \in due_at .. at : (t - due_at) % spec.step = 0}
      [] spec.kind = "Cron" -> {due_at} \cup {t \in spec.times : t > due_at /\ t <= at}

(* Reference for plan_fires: it keeps the latest due occurrences the       *)
(* policy allows, drops none of them, and moves the schedule to the first  *)
(* occurrence after now.                                                   *)
PlanKeepsLatest ==
    \A id \in Ids :
        IsDue(id, now) /\ schedules[id].spec.kind # "Unparsable" =>
            LET s == schedules[id]
                due == Occurrences(s.spec, s.next_fire_at, now)
                plan == PlanFires(s.spec, s.missed, s.next_fire_at, now)
            IN  /\ plan.fire_times =
                       IF s.missed.kind = "Skip" /\ now > Max(due) + Grace THEN {}
                       ELSE LatestOf(due, s.missed.wanted)
                /\ plan.next_fire_at # None => plan.next_fire_at > now

(* advance "returns false when another replica advanced or changed the     *)
(* schedule first": a replica whose revision still matches holds a copy of *)
(* what is stored, so the plan it advances by is a plan of this schedule.  *)
RevisionNamesSchedule ==
    \A p \in Replicas : \A d \in replica[p].batch :
        Exists(d.id) /\ schedules[d.id].revision = d.schedule.revision
            => schedules[d.id] = d.schedule

(* An advance passes over no occurrence the policy keeps: when the next    *)
(* fire time moves on, every such occurrence before it has been enqueued   *)
(* (or refused by the schedule's concurrency key), whichever replica did   *)
(* it, however many replicas crashed on the way.                           *)
Advances(id) ==
    /\ Exists(id) /\ schedules'[id] # None
    /\ ~schedules[id].paused
    /\ schedules[id].next_fire_at # None
    /\ schedules'[id].next_fire_at # schedules[id].next_fire_at

FiredBeforeAdvance ==
    [][\A id \in Ids :
          Advances(id) /\ schedules[id].missed.kind # "Skip" =>
              LET s == schedules[id]
                  end == schedules'[id].next_fire_at
                  passed == {t \in Occurrences(s.spec, s.next_fire_at, now) :
                                end = None \/ t < end}
              IN  \A t \in LatestOf(passed, s.missed.wanted) : <<id, t>> \in answered]_vars

(* The next fire time never moves back: a replica that planned with an     *)
(* older clock does not undo a newer advance.                              *)
NeverMovesBack ==
    [][\A id \in Ids :
          Advances(id) => \/ schedules'[id].next_fire_at = None
                          \/ schedules'[id].next_fire_at > schedules[id].next_fire_at]_vars

(* Whatever is due is fired, unless the control refuses work: no crash     *)
(* between enqueue and advance, lost race or failed call strands it.       *)
DueIsFired == \A id \in Ids : IsDue(id, now) ~> (~IsDue(id, now) \/ refusing)
=============================================================================
