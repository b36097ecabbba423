---------------------------- MODULE SchedulerProofs ----------------------------
(***************************************************************************)
(* What the planner and the scheduler guarantee for any number of          *)
(* replicas, endpoints and schedules, any specs and policies, any clock,   *)
(* and any number of crashes.                                              *)
(*                                                                         *)
(* The planner comes first (PlanIs): whatever the kind of schedule, its    *)
(* plan is the latest due occurrences and the first one after now.  The    *)
(* inductive invariants follow: TypesInv, the copies the replicas hold     *)
(* (CopiesInv), the plans they carry out (PlansInv) and the pending        *)
(* upserts (RivalsInv, RequestsInv).                                       *)
(***************************************************************************)
EXTENDS Scheduler, FiniteSetTheorems, WellFoundedInduction, TLAPS

-----------------------------------------------------------------------------
(* The least and the greatest of a set of natural numbers.                 *)

Below == OpToRel(<, Nat)

LEMMA BelowMeans ==
    ASSUME NEW a \in Nat, NEW b \in Nat, a < b
    PROVE  <<a, b>> \in Below
  BY DEF Below, OpToRel

(* The induction over the naturals that the proofs need is here: every set *)
(* of them that is not empty has a least member.                           *)
LEMMA LeastOf ==
    ASSUME NEW S \in SUBSET Nat, S # {}
    PROVE  Min(S) \in S /\ \A t \in S : Min(S) <= t
  <1>1. IsWellFoundedOn(Below, Nat)
    BY NatLessThanWellFounded DEF Below
  <1>2. \E x \in S : \A y \in S : ~ (<<y, x>> \in Below)
    BY <1>1, WFMin
  <1>3. PICK x \in S : \A y \in S : ~ (<<y, x>> \in Below)
    BY <1>2
  <1>4. ASSUME NEW y \in S, ~(x <= y)
        PROVE  FALSE
    <2>1. x \in Nat /\ y \in Nat /\ y < x
      BY <1>4
    <2> QED
      BY <1>3, <2>1, BelowMeans
  <1> QED
    BY <1>4 DEF Min

LEMMA GreatestOf ==
    ASSUME NEW S \in SUBSET Nat, S # {}, NEW n \in Nat, \A s \in S : s <= n
    PROVE  Max(S) \in S /\ \A t \in S : t <= Max(S)
  <1> DEFINE Bounds == {b \in Nat : \A s \in S : s <= b}
             u == Min(Bounds)
  <1>1. Bounds \in SUBSET Nat /\ n \in Bounds
    OBVIOUS
  <1>2. u \in Bounds /\ \A b \in Bounds : u <= b
    BY <1>1, LeastOf
  <1>3. u \in Nat /\ \A s \in S : s <= u
    BY <1>2
  <1> HIDE DEF u
  <1>4. u \in S
    <2> SUFFICES ASSUME u \notin S PROVE FALSE
      OBVIOUS
    <2>1. \A s \in S : s \in Nat /\ s < u
      BY <1>3
    <2>2. u > 0
      <3>1. PICK t \in S : TRUE
        OBVIOUS
      <3>2. t \in Nat /\ t < u
        BY <2>1, <3>1
      <3> QED
        BY <1>3, <3>2
    <2>3. u - 1 \in Nat /\ \A s \in S : s <= u - 1
      BY <1>3, <2>1, <2>2
    <2>4. u - 1 \in Bounds
      BY <2>3
    <2>5. QED
      BY <1>2, <1>3, <2>4
  <1>5. \E x \in S : \A y \in S : x >= y
    BY <1>3, <1>4
  <1>6. Max(S) \in S /\ \A y \in S : Max(S) >= y
    BY <1>5 DEF Max
  <1> QED
    BY <1>6

(* A greatest member is unique. *)
LEMMA GreatestIs ==
    ASSUME NEW S \in SUBSET Nat, NEW x \in S, \A t \in S : t <= x
    PROVE  Max(S) = x
  <1>1. x \in Nat /\ S # {}
    OBVIOUS
  <1>2. Max(S) \in S /\ \A t \in S : t <= Max(S)
    BY <1>1, GreatestOf
  <1>3. Max(S) \in Nat /\ Max(S) <= x /\ x <= Max(S)
    BY <1>2
  <1> QED
    BY <1>1, <1>3

-----------------------------------------------------------------------------
(* Multiples of the step of an Every.                                      *)

LEMMA Division ==
    ASSUME NEW a \in Nat, NEW s \in Nat \ {0}
    PROVE  /\ a \div s \in Nat
           /\ a % s \in Nat /\ a % s < s
           /\ a = s * (a \div s) + (a % s)
  OBVIOUS

LEMMA MultiplesGrow ==
    ASSUME NEW s \in Nat \ {0}, NEW j \in Nat, NEW k \in Nat
    PROVE  /\ j * s \in Nat
           /\ j <= k => j * s <= k * s
           /\ j < k => j * s + s <= k * s
  <1>1. j * s \in Nat /\ k * s \in Nat
    OBVIOUS
  <1>2. ASSUME j <= k
        PROVE  j * s <= k * s
    <2>1. k * s = j * s + (k - j) * s
      BY <1>2
    <2>2. (k - j) * s >= 0
      BY <1>2
    <2> QED
      BY <1>1, <2>1, <2>2
  <1>3. ASSUME j < k
        PROVE  j * s + s <= k * s
    <2>1. k * s = j * s + s + (k - j - 1) * s
      BY <1>3
    <2>2. (k - j - 1) * s >= 0
      BY <1>3
    <2> QED
      BY <1>1, <2>1, <2>2
  <1> QED
    BY <1>1, <1>2, <1>3

LEMMA MultipleIs ==
    ASSUME NEW s \in Nat \ {0}, NEW k \in Nat
    PROVE  (k * s) % s = 0 /\ (k * s) \div s = k
  <1> DEFINE q == (k * s) \div s
             r == (k * s) % s
  <1>1. q \in Nat /\ r \in Nat /\ r < s /\ k * s = (s * q) + r /\ k * s \in Nat
    BY Division
  <1> HIDE DEF q, r
  <1>2. s * q = q * s
    BY <1>1
  <1>3. ~(q < k)
    BY <1>1, <1>2, MultiplesGrow
  <1>4. ~(k < q)
    BY <1>1, <1>2, MultiplesGrow
  <1>5. q = k /\ r = 0
    BY <1>1, <1>2, <1>3, <1>4
  <1> QED
    BY <1>5 DEF q, r

-----------------------------------------------------------------------------
(* The planner (plan_fires): the plan of every kind of schedule is its     *)
(* latest due occurrences.                                                 *)

(* LatestOf keeps the greatest member, and everything else it keeps is of  *)
(* the set.                                                                *)
LEMMA LatestOfKeepsGreatest ==
    ASSUME NEW S \in SUBSET Nat, NEW x \in S, \A t \in S : t <= x,
           NEW n \in Nat \ {0}
    PROVE  x \in LatestOf(S, n) /\ LatestOf(S, n) \subseteq S
  <1>1. {u \in S : u > x} = {}
    <2> SUFFICES ASSUME NEW u \in S, u > x PROVE FALSE
      OBVIOUS
    <2>1. u \in Nat /\ x \in Nat /\ u <= x
      OBVIOUS
    <2> QED
      BY <2>1
  <1>2. Cardinality({u \in S : u > x}) < n
    BY <1>1, FS_EmptySet
  <1> QED
    BY <1>2 DEF LatestOf

(* The occurrences of an Every are the multiples of its step. *)
EveryTimes(step, due_at, at) == {t \in due_at .. at : (t - due_at) % step = 0}

LEMMA LatestMultiple ==
    ASSUME NEW step \in Nat \ {0}, NEW due_at \in Nat, NEW at \in Nat, due_at <= at
    PROVE  LET latest == (at - due_at) \div step IN
           /\ latest \in Nat
           /\ due_at + latest * step <= at
           /\ due_at + (latest + 1) * step > at
  <1> DEFINE a == at - due_at
             q == a \div step
             r == a % step
  <1>1. a \in Nat
    OBVIOUS
  <1>2. q \in Nat /\ r \in Nat /\ r < step /\ a = (step * q) + r
    BY <1>1, Division
  <1>3. at = due_at + a
    OBVIOUS
  <1> HIDE DEF a, q, r
  <1>4. step * q = q * step /\ (q + 1) * step = q * step + step /\ q * step \in Nat
    BY <1>2
  <1>5. q \in Nat /\ due_at + q * step <= at /\ due_at + (q + 1) * step > at
    BY <1>1, <1>2, <1>3, <1>4
  <1> QED
    BY <1>5 DEF q, a

LEMMA EveryTimesAre ==
    ASSUME NEW step \in Nat \ {0}, NEW due_at \in Nat, NEW at \in Nat, due_at <= at
    PROVE  LET latest == (at - due_at) \div step IN
           EveryTimes(step, due_at, at) = {due_at + k * step : k \in 0 .. latest}
  <1> DEFINE latest == (at - due_at) \div step
  <1>1. /\ latest \in Nat /\ due_at + latest * step <= at
        /\ due_at + (latest + 1) * step > at
    BY LatestMultiple
  <1> HIDE DEF latest
  <1>2. ASSUME NEW k \in 0 .. latest
        PROVE  due_at + k * step \in EveryTimes(step, due_at, at)
    <2>1. k \in Nat /\ k * step \in Nat /\ k * step <= latest * step
      BY <1>1, MultiplesGrow
    <2>2. (k * step) % step = 0
      BY <2>1, MultipleIs
    <2> DEFINE m == k * step
    <2>3. m \in Nat /\ m % step = 0 /\ due_at + m <= at
      <3>1. latest * step \in Nat
        BY <1>1, MultiplesGrow
      <3> QED
        BY <1>1, <2>1, <2>2, <3>1
    <2> HIDE DEF m
    <2>4. due_at + m \in due_at .. at /\ (due_at + m) - due_at = m
      BY <2>3
    <2>5. due_at + m \in EveryTimes(step, due_at, at)
      BY <2>3, <2>4 DEF EveryTimes
    <2> QED
      BY <2>5 DEF m
  <1>3. ASSUME NEW t \in EveryTimes(step, due_at, at)
        PROVE  \E k \in 0 .. latest : t = due_at + k * step
    <2> DEFINE a == t - due_at
               k == a \div step
    <2>1. t \in due_at .. at /\ a \in Nat /\ t = due_at + a /\ a % step = 0
      BY DEF EveryTimes
    <2>2. k \in Nat /\ a = (step * k) + (a % step)
      BY <2>1, Division
    <2>3. a = k * step
      BY <2>1, <2>2
    <2> HIDE DEF a, k
    <2>4. ~(latest + 1 <= k)
      <3> SUFFICES ASSUME latest + 1 <= k PROVE FALSE
        OBVIOUS
      <3>1. (latest + 1) * step <= k * step
        BY <1>1, <2>2, MultiplesGrow
      <3>2. (latest + 1) * step \in Nat
        BY <1>1, MultiplesGrow
      <3>3. t <= at
        BY <2>1
      <3> QED
        BY <1>1, <2>1, <2>3, <3>1, <3>2, <3>3
    <2>5. k \in 0 .. latest
      BY <1>1, <2>2, <2>4
    <2> QED
      BY <2>1, <2>3, <2>5
  <1>4. EveryTimes(step, due_at, at) = {due_at + k * step : k \in 0 .. latest}
    BY <1>2, <1>3
  <1> QED
    BY <1>4 DEF latest

(* How many occurrences of an Every come after the k-th. *)
LEMMA LaterMultiples ==
    ASSUME NEW step \in Nat \ {0}, NEW due_at \in Nat, NEW latest \in Nat,
           NEW k \in 0 .. latest
    PROVE  LET times == {due_at + j * step : j \in 0 .. latest} IN
           Cardinality({u \in times : u > due_at + k * step}) = latest - k
  <1> DEFINE times == {due_at + j * step : j \in 0 .. latest}
             later == {u \in times : u > due_at + k * step}
             f == [j \in (k + 1) .. latest |-> due_at + j * step]
  <1>1. k \in Nat /\ k * step \in Nat
    BY MultiplesGrow
  <1>2. ASSUME NEW j \in (k + 1) .. latest
        PROVE  due_at + j * step \in later
    <2>1. j \in Nat /\ j \in 0 .. latest /\ k < j
      BY <1>1
    <2>2. j * step \in Nat /\ k * step + step <= j * step
      BY <1>1, <2>1, MultiplesGrow
    <2>3. due_at + j * step > due_at + k * step
      BY <1>1, <2>2
    <2> QED
      BY <2>1, <2>3
  <1>3. f \in [(k + 1) .. latest -> later]
    BY <1>2
  <1>4. ASSUME NEW i \in (k + 1) .. latest, NEW j \in (k + 1) .. latest, f[i] = f[j]
        PROVE  i = j
    <2>1. i \in Nat /\ j \in Nat /\ due_at + i * step = due_at + j * step
      BY <1>1, <1>4
    <2>2. i * step \in Nat /\ j * step \in Nat
      BY <2>1, MultiplesGrow
    <2>3. ~(i < j) /\ ~(j < i)
      <3>1. i * step = j * step
        BY <2>1, <2>2
      <3> QED
        BY <2>1, <2>2, <3>1, MultiplesGrow
    <2> QED
      BY <2>1, <2>3
  <1>5. ASSUME NEW u \in later
        PROVE  \E j \in (k + 1) .. latest : f[j] = u
    <2>1. PICK j \in 0 .. latest : u = due_at + j * step
      OBVIOUS
    <2>2. j \in Nat /\ j * step \in Nat /\ due_at + j * step > due_at + k * step
      BY <2>1, MultiplesGrow
    <2>3. ~(j <= k)
      BY <1>1, <2>2, MultiplesGrow
    <2>4. j \in (k + 1) .. latest
      BY <1>1, <2>1, <2>2, <2>3
    <2> QED
      BY <2>1, <2>4
  <1>6. f \in Bijection((k + 1) .. latest, later)
    BY <1>3, <1>4, <1>5 DEF Bijection, Injection, Surjection, IsInjective
  <1>7. IsFiniteSet((k + 1) .. latest) /\ Cardinality((k + 1) .. latest) = latest - k
    <2>1. k + 1 \in Int /\ latest \in Int
      BY <1>1
    <2>2. IsFiniteSet((k + 1) .. latest)
            /\ Cardinality((k + 1) .. latest) =
                  IF k + 1 > latest THEN 0 ELSE latest - (k + 1) + 1
      BY <2>1, FS_Interval
    <2> QED
      BY <1>1, <2>2
  <1>8. ExistsBijection((k + 1) .. latest, later)
    BY <1>6 DEF ExistsBijection
  <1> HIDE DEF later, f
  <1>9. Cardinality(later) = latest - k
    BY <1>7, <1>8, FS_Bijection
  <1> QED
    BY <1>9 DEF later

LEMMA EveryKeepsLatest ==
    ASSUME NEW step \in Nat \ {0}, NEW wanted \in Nat \ {0},
           NEW due_at \in Nat, NEW at \in Nat, due_at <= at
    PROVE  LET plan == EveryPlan(step, wanted, due_at, at) IN
           /\ plan.fire_times = LatestOf(EveryTimes(step, due_at, at), wanted)
           /\ plan.next_fire_at \in Nat /\ plan.next_fire_at > at
  <1> DEFINE latest == (at - due_at) \div step
             first == IF latest + 1 > wanted THEN latest + 1 - wanted ELSE 0
             times == {due_at + j * step : j \in 0 .. latest}
             fires == {due_at + k * step : k \in first .. latest}
             next == due_at + (latest + 1) * step
  <1>1. latest \in Nat /\ next > at
    BY LatestMultiple
  <1>2. next \in Nat
    <2>1. (latest + 1) * step \in Nat
      BY <1>1, MultiplesGrow
    <2> QED
      BY <2>1
  <1>3. EveryTimes(step, due_at, at) = times
    BY EveryTimesAre
  <1>4. EveryPlan(step, wanted, due_at, at) =
           [fire_times |-> fires, next_fire_at |-> next]
    BY DEF EveryPlan
  <1> HIDE DEF latest
  <1>5. first \in Nat /\ \A k \in 0 .. latest : k >= first <=> latest - k < wanted
    BY <1>1
  <1> HIDE DEF first
  <1>6. ASSUME NEW k \in 0 .. latest
        PROVE  due_at + k * step \in LatestOf(times, wanted) <=> k >= first
    <2>1. Cardinality({u \in times : u > due_at + k * step}) = latest - k
      BY <1>1, LaterMultiples, ZenonT(30)
    <2>2. due_at + k * step \in times
      OBVIOUS
    <2> HIDE DEF times
    <2>3. due_at + k * step \in LatestOf(times, wanted) <=> latest - k < wanted
      BY <2>1, <2>2 DEF LatestOf
    <2> QED
      BY <1>5, <2>3
  <1>7. LatestOf(times, wanted) \subseteq times
    BY DEF LatestOf
  <1>8. fires = LatestOf(times, wanted)
    <2>1. ASSUME NEW t \in fires
          PROVE  t \in LatestOf(times, wanted)
      <3>1. PICK k \in first .. latest : t = due_at + k * step
        OBVIOUS
      <3>2. k \in 0 .. latest /\ k >= first
        BY <1>5
      <3> QED
        BY <1>6, <3>1, <3>2
    <2>2. ASSUME NEW t \in LatestOf(times, wanted)
          PROVE  t \in fires
      <3>1. PICK k \in 0 .. latest : t = due_at + k * step
        BY <1>7
      <3>2. k >= first
        BY <1>6, <3>1
      <3>3. k \in first .. latest
        BY <1>1, <1>5, <3>2
      <3> QED
        BY <3>1, <3>3
    <2> QED
      BY <2>1, <2>2
  <1> HIDE DEF fires, times, next
  <1> QED
    BY <1>1, <1>2, <1>3, <1>4, <1>8

(* The occurrences of a Cron. *)
CronTimes(times, due_at, at) == {due_at} \cup {t \in times : t > due_at /\ t <= at}

(* An instant of a Cron after `at' that none comes before, or none. *)
FirstAfter(times, at, instant) ==
    IF instant = None THEN \A t \in times : t <= at
    ELSE /\ instant \in times /\ instant > at
         /\ \A t \in times : t > at => instant <= t

LEMMA CronKeepsLatest ==
    ASSUME NEW times \in SUBSET Nat, NEW wanted \in Nat \ {0},
           NEW due_at \in Nat, NEW at \in Nat, due_at <= at
    PROVE  LET plan == CronPlan(times, wanted, due_at, at) IN
           /\ plan.fire_times = LatestOf(CronTimes(times, due_at, at), wanted)
           /\ plan.next_fire_at \in Nat \cup {None}
           /\ FirstAfter(times, at, plan.next_fire_at)
  <1> DEFINE later == {t \in times : t > due_at /\ t <= at}
             all == CronTimes(times, due_at, at)
             next == {t \in times : t > at}
             fires == LatestOf(later, wanted)
                        \cup (IF Cardinality(later) < wanted THEN {due_at} ELSE {})
             after == IF next = {} THEN None ELSE Min(next)
  <1>1. CronPlan(times, wanted, due_at, at) =
           [fire_times |-> fires, next_fire_at |-> after]
    BY DEF CronPlan
  <1>2. all = {due_at} \cup later /\ due_at \notin later
    BY DEF CronTimes
  <1>3. ASSUME NEW t \in later
        PROVE  {u \in all : u > t} = {u \in later : u > t}
    <2>1. t \in Nat /\ t > due_at
      OBVIOUS
    <2>2. ~(due_at > t)
      BY <2>1
    <2> QED
      BY <1>2, <2>2
  <1>4. {u \in all : u > due_at} = later
    <2>1. ~(due_at > due_at)
      OBVIOUS
    <2> QED
      BY <1>2, <2>1
  <1>5. fires = LatestOf(all, wanted)
    <2>1. ASSUME NEW t \in later
          PROVE  t \in fires <=> t \in LatestOf(all, wanted)
      <3>1. t \in all /\ t # due_at
        BY <1>2
      <3>2. t \in fires <=> t \in LatestOf(later, wanted)
        BY <3>1
      <3> HIDE DEF all, later
      <3> QED
        BY <1>3, <2>1, <3>1, <3>2 DEF LatestOf
    <2>2. due_at \in fires <=> due_at \in LatestOf(all, wanted)
      <3>1. due_at \in all /\ due_at \notin LatestOf(later, wanted)
        BY <1>2 DEF LatestOf
      <3>2. due_at \in fires <=> Cardinality(later) < wanted
        BY <3>1
      <3> HIDE DEF all, later
      <3> QED
        BY <1>4, <3>1, <3>2 DEF LatestOf
    <2>3. fires \subseteq {due_at} \cup later
      BY DEF LatestOf
    <2>4. LatestOf(all, wanted) \subseteq {due_at} \cup later
      BY <1>2 DEF LatestOf
    <2> HIDE DEF all, later, fires
    <2>5. ASSUME NEW t \in {due_at} \cup later
          PROVE  t \in fires <=> t \in LatestOf(all, wanted)
      BY <2>1, <2>2
    <2>6. fires \subseteq LatestOf(all, wanted)
      BY <2>3, <2>5
    <2>7. LatestOf(all, wanted) \subseteq fires
      BY <2>4, <2>5
    <2> QED
      BY <2>6, <2>7
  <1>6. after \in Nat \cup {None} /\ FirstAfter(times, at, after)
    <2>1. CASE next = {}
      <3>1. after = None
        BY <2>1
      <3>2. ASSUME NEW t \in times
            PROVE  t <= at
        <4>1. t \in Nat /\ ~(t > at)
          BY <2>1
        <4> QED
          BY <4>1
      <3> HIDE DEF after
      <3> QED
        BY <3>1, <3>2 DEF FirstAfter
    <2>2. CASE next # {}
      <3>1. next \in SUBSET Nat
        OBVIOUS
      <3>2. Min(next) \in next /\ \A t \in next : Min(next) <= t
        BY <2>2, <3>1, LeastOf
      <3>3. /\ after \in times /\ after > at /\ after \in Nat
            /\ \A t \in times : t > at => after <= t
        BY <2>2, <3>2
      <3>4. after # None
        BY <3>3, SchedulerAssumption
      <3> HIDE DEF after
      <3> QED
        BY <3>3, <3>4 DEF FirstAfter
    <2> QED
      BY <2>1, <2>2
  <1> HIDE DEF all, fires, after
  <1> QED
    BY <1>1, <1>5, <1>6 DEF all

-----------------------------------------------------------------------------
(* plan_fires, for any specification and policy.                           *)

SpecKinds == {"At", "Every", "Cron"}

LEMMA SpecHere ==
    ASSUME NEW spec \in Specs
    PROVE  /\ spec.kind \in SpecKinds \cup {"Unparsable"}
           /\ spec.step \in Nat
           /\ spec.kind = "Every" => spec.step \in Nat \ {0}
           /\ spec.times \in SUBSET Nat
           /\ spec.kind = "At" => spec.times # {}
  <1>1. MaxTime \in Nat /\ spec.times \subseteq 0 .. MaxTime
    BY SchedulerAssumption
  <1>2. spec.times \in SUBSET Nat
    BY <1>1
  <1>3. ASSUME spec.kind = "At"
        PROVE  spec.times # {}
    <2>1. Cardinality(spec.times) = 1
      BY <1>3, SchedulerAssumption
    <2> QED
      BY <2>1, FS_EmptySet
  <1>4. /\ spec.kind \in {"At", "Every", "Cron", "Unparsable"}
        /\ spec.step \in Nat
        /\ spec.kind = "Every" => spec.step > 0
    BY SchedulerAssumption
  <1> QED
    BY <1>2, <1>3, <1>4 DEF SpecKinds

LEMMA OccurrencesBounded ==
    ASSUME NEW spec \in Specs, spec.kind \in SpecKinds,
           NEW due_at \in Nat, NEW at \in Nat, due_at <= at
    PROVE  LET due == Occurrences(spec, due_at, at) IN
           /\ due \in SUBSET Nat
           /\ due_at \in due
           /\ \A t \in due : due_at <= t /\ t <= at
  <1>1. CASE spec.kind = "At"
    BY <1>1 DEF Occurrences
  <1>2. CASE spec.kind = "Every"
    <2>1. Occurrences(spec, due_at, at) = EveryTimes(spec.step, due_at, at)
      BY <1>2 DEF Occurrences, EveryTimes
    <2>2. spec.step \in Nat \ {0}
      BY <1>2, SpecHere
    <2>3. due_at \in EveryTimes(spec.step, due_at, at)
      <3>1. (0 * spec.step) % spec.step = 0
        BY <2>2, MultipleIs
      <3>2. 0 * spec.step = 0 /\ due_at - due_at = 0
        BY <2>2
      <3> QED
        BY <3>1, <3>2 DEF EveryTimes
    <2>4. \A t \in EveryTimes(spec.step, due_at, at) :
             t \in Nat /\ due_at <= t /\ t <= at
      BY DEF EveryTimes
    <2> QED
      BY <2>1, <2>3, <2>4
  <1>3. CASE spec.kind = "Cron"
    <2>1. Occurrences(spec, due_at, at) = CronTimes(spec.times, due_at, at)
      BY <1>3 DEF Occurrences, CronTimes
    <2>2. spec.times \in SUBSET Nat
      BY SpecHere
    <2> QED
      BY <2>1, <2>2 DEF CronTimes
  <1> QED
    BY <1>1, <1>2, <1>3 DEF SpecKinds

(* What the plan of a specification is, before the Skip policy is looked   *)
(* at: the latest due occurrences, and an instant after now.               *)
LEMMA SpecPlanKeepsLatest ==
    ASSUME NEW spec \in Specs, spec.kind \in SpecKinds, NEW wanted \in Nat \ {0},
           NEW due_at \in Nat, NEW at \in Nat, due_at <= at
    PROVE  LET plan == SpecPlan(spec, wanted, due_at, at) IN
           /\ plan = [fire_times |-> plan.fire_times, next_fire_at |-> plan.next_fire_at]
           /\ plan.fire_times = LatestOf(Occurrences(spec, due_at, at), wanted)
           /\ plan.next_fire_at \in Nat \cup {None}
           /\ plan.next_fire_at # None => plan.next_fire_at > at
  <1>1. CASE spec.kind = "At"
    <2>1. SpecPlan(spec, wanted, due_at, at) =
             [fire_times |-> {due_at}, next_fire_at |-> None]
      BY <1>1 DEF SpecPlan
    <2>2. Occurrences(spec, due_at, at) = {due_at}
      BY <1>1 DEF Occurrences
    <2>3. due_at \in LatestOf({due_at}, wanted)
            /\ LatestOf({due_at}, wanted) \subseteq {due_at}
      <3>1. {due_at} \in SUBSET Nat /\ \A t \in {due_at} : t <= due_at
        OBVIOUS
      <3> QED
        BY <3>1, LatestOfKeepsGreatest
    <2> QED
      BY <2>1, <2>2, <2>3
  <1>2. CASE spec.kind = "Every"
    <2>1. SpecPlan(spec, wanted, due_at, at) = EveryPlan(spec.step, wanted, due_at, at)
      BY <1>2 DEF SpecPlan
    <2>2. Occurrences(spec, due_at, at) = EveryTimes(spec.step, due_at, at)
      BY <1>2 DEF Occurrences, EveryTimes
    <2>3. spec.step \in Nat \ {0}
      BY <1>2, SpecHere
    <2>4. LET plan == EveryPlan(spec.step, wanted, due_at, at) IN
             plan = [fire_times |-> plan.fire_times, next_fire_at |-> plan.next_fire_at]
      BY DEF EveryPlan
    <2> QED
      BY <2>1, <2>2, <2>3, <2>4, EveryKeepsLatest
  <1>3. CASE spec.kind = "Cron"
    <2>1. SpecPlan(spec, wanted, due_at, at) = CronPlan(spec.times, wanted, due_at, at)
      BY <1>3 DEF SpecPlan
    <2>2. Occurrences(spec, due_at, at) = CronTimes(spec.times, due_at, at)
      BY <1>3 DEF Occurrences, CronTimes
    <2>3. spec.times \in SUBSET Nat
      BY SpecHere
    <2>4. LET plan == CronPlan(spec.times, wanted, due_at, at) IN
             plan = [fire_times |-> plan.fire_times, next_fire_at |-> plan.next_fire_at]
      BY DEF CronPlan
    <2> DEFINE plan == CronPlan(spec.times, wanted, due_at, at)
    <2>5. PICK times \in SUBSET Nat : times = spec.times
      BY <2>3
    <2>6. /\ plan.fire_times = LatestOf(CronTimes(times, due_at, at), wanted)
          /\ plan.next_fire_at \in Nat \cup {None}
          /\ FirstAfter(times, at, plan.next_fire_at)
      BY <2>5, CronKeepsLatest
    <2>7. plan.next_fire_at # None => plan.next_fire_at > at
      BY <2>6 DEF FirstAfter
    <2> HIDE DEF plan
    <2> QED
      BY <2>1, <2>2, <2>4, <2>5, <2>6, <2>7 DEF plan
  <1> QED
    BY <1>1, <1>2, <1>3 DEF SpecKinds

(* An occurrence is late under Skip when the latest one is. *)
PlannedFires(spec, missed, due_at, at) ==
    LET due == Occurrences(spec, due_at, at) IN
    IF missed.kind = "Skip" /\ at > Max(due) + Grace THEN {}
    ELSE LatestOf(due, missed.wanted)

LEMMA PlanIs ==
    ASSUME NEW spec \in Specs, spec.kind \in SpecKinds, NEW missed \in Policies,
           NEW due_at \in Nat, NEW at \in Nat, due_at <= at
    PROVE  LET plan == PlanFires(spec, missed, due_at, at) IN
           /\ plan.fire_times = PlannedFires(spec, missed, due_at, at)
           /\ plan.fire_times \in SUBSET Nat
           /\ plan.next_fire_at = SpecPlan(spec, missed.wanted, due_at, at).next_fire_at
           /\ plan.next_fire_at \in Nat \cup {None}
           /\ plan.next_fire_at # None => plan.next_fire_at > at
  <1> DEFINE plan == SpecPlan(spec, missed.wanted, due_at, at)
             due == Occurrences(spec, due_at, at)
             kept == LatestOf(due, missed.wanted)
             late == missed.kind = "Skip" /\ at > Max(due) + Grace
  <1>1. missed.wanted \in Nat \ {0}
    BY SchedulerAssumption
  <1>2. /\ plan = [fire_times |-> plan.fire_times, next_fire_at |-> plan.next_fire_at]
        /\ plan.fire_times = kept
        /\ plan.next_fire_at \in Nat \cup {None}
        /\ plan.next_fire_at # None => plan.next_fire_at > at
    BY <1>1, SpecPlanKeepsLatest
  <1>3. due \in SUBSET Nat /\ due # {} /\ \A t \in due : t <= at
    BY OccurrencesBounded
  <1>4. Max(due) \in due /\ \A t \in due : t <= Max(due)
    BY <1>3, GreatestOf
  <1> HIDE DEF due
  <1>5. Max(due) \in kept /\ kept \subseteq due
    BY <1>1, <1>3, <1>4, LatestOfKeepsGreatest
  <1>6. kept \in SUBSET Nat /\ kept # {}
    BY <1>3, <1>5
  <1>7. Max(kept) = Max(due)
    <2>1. Max(due) \in kept /\ \A t \in kept : t <= Max(due)
      BY <1>4, <1>5
    <2> HIDE DEF kept
    <2> QED
      BY <1>6, <2>1, GreatestIs
  <1>8. PlanFires(spec, missed, due_at, at) =
           IF late THEN [plan EXCEPT !.fire_times = {}] ELSE plan
    <2> HIDE DEF kept, plan
    <2>1. PlanFires(spec, missed, due_at, at) =
             IF /\ missed.kind = "Skip" /\ plan.fire_times # {}
                /\ at > Max(plan.fire_times) + Grace
             THEN [plan EXCEPT !.fire_times = {}] ELSE plan
      BY DEF PlanFires, plan
    <2> QED
      BY <1>2, <1>6, <1>7, <2>1
  <1>9. PlannedFires(spec, missed, due_at, at) = IF late THEN {} ELSE kept
    BY DEF PlannedFires, due
  <1> HIDE DEF kept, plan, late
  <1>10. CASE late
    <2>1. PlanFires(spec, missed, due_at, at) =
             [fire_times |-> {}, next_fire_at |-> plan.next_fire_at]
      BY <1>2, <1>8, <1>10
    <2> QED
      BY <1>2, <1>9, <1>10, <2>1 DEF plan
  <1>11. CASE ~late
    BY <1>2, <1>6, <1>8, <1>9, <1>11 DEF plan
  <1> QED
    BY <1>10, <1>11

-----------------------------------------------------------------------------
(* What every reachable state has.                                         *)

(* A replica at work has copies to fire, each of them due at the clock it  *)
(* read.                                                                   *)
AtWork(r, clock) ==
    /\ r \in Replica
    /\ (r.pc = "Idle") <=> (r.batch = {})
    /\ r.at <= clock
    /\ \A d \in r.batch :
           d.schedule.next_fire_at \in Nat /\ d.schedule.next_fire_at <= r.at

ReplicaInv(p) == AtWork(replica[p], now)

TypesInv ==
    /\ schedules \in [Ids -> Schedule \cup {None}]
    /\ created \in SUBSET (Ids \X Nat)
    /\ answered \in SUBSET (Ids \X Nat)
    /\ replica \in [Replicas -> Replica]
    /\ \A p \in Replicas : ReplicaInv(p)
    /\ endpoint \in [Endpoints -> PendingUpsert \cup {None}]
    /\ refusing \in BOOLEAN
    /\ now \in Nat

(* A copy that a replica holds was read from the store: the stored         *)
(* schedule is as new, and the same one when the revision is.              *)
CopyInv(d) ==
    /\ Exists(d.id)
    /\ d.schedule.revision <= schedules[d.id].revision
    /\ schedules[d.id].revision = d.schedule.revision => schedules[d.id] = d.schedule

CopiesInv == \A p \in Replicas : \A d \in replica[p].batch : CopyInv(d)

(* A replica that enqueues has planned the copy it fires: it will move on  *)
(* to the plan's next fire time, and what it has no longer to enqueue was  *)
(* answered.                                                               *)
PlanOf(d, at) ==
    PlanFires(d.schedule.spec, d.schedule.missed, d.schedule.next_fire_at, at)

PlanInv(p) ==
    replica[p].pc = "Enqueueing" =>
        LET d == Current(p)
            plan == PlanOf(d, replica[p].at)
        IN  /\ d.schedule.spec.kind # "Unparsable"
            /\ replica[p].next_fire_at = plan.next_fire_at
            /\ \A t \in plan.fire_times \ replica[p].planned : <<d.id, t>> \in answered

PlansInv == \A p \in Replicas : PlanInv(p)

(* A pending create found the name free, a pending resume the schedule     *)
(* paused, and neither changes before the upsert.                          *)
RequestInv(e) ==
    endpoint[e] # None /\ Exists(endpoint[e].id) => schedules[endpoint[e].id].paused

(* No two requests for one schedule are pending at a time. *)
RivalsInv ==
    \A e, f \in Endpoints :
        endpoint[e] # None /\ endpoint[f] # None /\ endpoint[e].id = endpoint[f].id => e = f

RequestsInv == \A e \in Endpoints : RequestInv(e)

-----------------------------------------------------------------------------
(* Types.                                                                  *)

LEMMA NoneApart ==
    ASSUME NEW x \in Schedule \cup PendingUpsert
    PROVE  x # None
  BY OptionAssumption

LEMMA NextAfterType ==
    ASSUME NEW spec \in Specs, NEW after \in Nat
    PROVE  NextAfter(spec, after) \in Nat \cup {None}
  <1> DEFINE next == {t \in spec.times : t > after}
  <1>1. CASE spec.kind = "Every"
    <2>1. NextAfter(spec, after) = after + spec.step /\ spec.step \in Nat
      BY <1>1, SpecHere DEF NextAfter
    <2> QED
      BY <2>1
  <1>2. CASE spec.kind # "Every" /\ next = {}
    BY <1>2 DEF NextAfter
  <1>3. CASE spec.kind # "Every" /\ next # {}
    <2>1. spec.times \in SUBSET Nat
      BY SpecHere
    <2>2. next \in SUBSET Nat
      BY <2>1
    <2>3. Min(next) \in next
      BY <1>3, <2>2, LeastOf
    <2>4. NextAfter(spec, after) = Min(next)
      BY <1>3 DEF NextAfter
    <2> QED
      BY <2>2, <2>3, <2>4
  <1> QED
    BY <1>1, <1>2, <1>3

(* The copy a replica fires is one of its batch. *)
LEMMA EarliestIn ==
    ASSUME NEW batch \in SUBSET Due, batch # {},
           \A d \in batch : d.schedule.next_fire_at \in Nat
    PROVE  Earliest(batch) \in batch
  <1> DEFINE times == {d.schedule.next_fire_at : d \in batch}
  <1>1. times \in SUBSET Nat /\ times # {}
    OBVIOUS
  <1>2. Min(times) \in times /\ \A t \in times : Min(times) <= t
    BY <1>1, LeastOf
  <1>3. PICK d \in batch : d.schedule.next_fire_at = Min(times)
    BY <1>2
  <1>4. \A e \in batch : d.schedule.next_fire_at <= e.schedule.next_fire_at
    BY <1>2, <1>3
  <1> QED
    BY <1>4 DEF Earliest

LEMMA CurrentIn ==
    ASSUME NEW p \in Replicas, ReplicaInv(p), replica[p].pc # "Idle"
    PROVE  /\ Current(p) \in replica[p].batch
           /\ Current(p) \in Due
           /\ Current(p).id \in Ids /\ Current(p).schedule \in Schedule
           /\ Current(p).schedule.next_fire_at \in Nat
           /\ Current(p).schedule.next_fire_at <= replica[p].at
  <1>1. /\ replica[p].batch \in SUBSET Due /\ replica[p].batch # {}
        /\ \A d \in replica[p].batch : d.schedule.next_fire_at \in Nat
                  /\ d.schedule.next_fire_at <= replica[p].at
    BY DEF ReplicaInv, AtWork, Replica
  <1>2. Current(p) \in replica[p].batch
    BY <1>1, EarliestIn DEF Current
  <1>3. Current(p) \in Due
    BY <1>1, <1>2
  <1> QED
    BY <1>1, <1>2, <1>3 DEF Due

(* What a step does to the store: a schedule is left alone, created,       *)
(* deleted, or changed with the next revision.                             *)
StoreStep ==
    /\ schedules' \in [Ids -> Schedule \cup {None}]
    /\ \A id \in Ids :
           \/ schedules'[id] = schedules[id]
           \/ ~Exists(id)
           \/ Deletes /\ schedules'[id] = None
           \/ /\ schedules'[id] \in Schedule
              /\ schedules'[id].revision = schedules[id].revision + 1

LEMMA StoreUnchanged ==
    ASSUME TypesInv, UNCHANGED schedules
    PROVE  StoreStep
  BY DEF StoreStep, TypesInv

LEMMA StoreWrites ==
    ASSUME TypesInv, NEW id \in Ids, NEW s \in Schedule, Store(id, s),
           Exists(id) => s.revision = schedules[id].revision + 1
    PROVE  StoreStep
  <1>1. schedules \in [Ids -> Schedule \cup {None}]
    BY DEF TypesInv
  <1>2. schedules' = [schedules EXCEPT ![id] = s]
    BY DEF Store
  <1>3. schedules' \in [Ids -> Schedule \cup {None}]
    BY <1>1, <1>2
  <1>4. schedules'[id] = s /\ \A i \in Ids \ {id} : schedules'[i] = schedules[i]
    BY <1>1, <1>2
  <1> QED
    BY <1>3, <1>4 DEF StoreStep

LEMMA ScheduleHere ==
    ASSUME TypesInv, NEW id \in Ids, Exists(id)
    PROVE  /\ schedules[id] \in Schedule
           /\ schedules[id].revision \in Nat /\ schedules[id].spec \in Specs
           /\ schedules[id].missed \in Policies
           /\ schedules[id].next_fire_at \in Nat \cup {None}
           /\ schedules[id].paused \in BOOLEAN
  <1>1. schedules[id] \in Schedule
    BY DEF TypesInv, Exists
  <1> QED
    BY <1>1 DEF Schedule

LEMMA UpsertStep ==
    ASSUME TypesInv, NEW id \in Ids, NEW s \in Schedule, Upsert(id, s)
    PROVE  StoreStep
  <1>1. CASE ~Exists(id)
    <2>1. Store(id, [s EXCEPT !.revision = 1])
      BY <1>1 DEF Upsert
    <2>2. [s EXCEPT !.revision = 1] \in Schedule
      BY DEF Schedule
    <2> HIDE DEF Schedule
    <2> QED
      BY <1>1, <2>1, <2>2, StoreWrites
  <1>2. CASE Exists(id) /\ SameDefinition(schedules[id], s)
    BY <1>2, StoreUnchanged DEF Upsert
  <1>3. CASE Exists(id) /\ ~SameDefinition(schedules[id], s)
    <2> DEFINE r == schedules[id].revision + 1
               n == [s EXCEPT !.revision = r]
    <2>1. Store(id, n)
      BY <1>3 DEF Upsert
    <2>2. r \in Nat
      BY <1>3, ScheduleHere
    <2> HIDE DEF r
    <2>3. n \in Schedule /\ n.revision = r
      BY <2>2 DEF Schedule
    <2> HIDE DEF n
    <2> QED
      BY <2>1, <2>3, StoreWrites DEF r
  <1> QED
    BY <1>1, <1>2, <1>3

LEMMA SetPausedStep ==
    ASSUME TypesInv, NEW id \in Ids, NEW paused \in BOOLEAN, SetPaused(id, paused)
    PROVE  /\ StoreStep
           /\ \A i \in Ids : /\ Exists(i) <=> schedules'[i] # None
                             /\ Exists(i) => schedules'[i].next_fire_at = schedules[i].next_fire_at
           /\ paused => \A i \in Ids : Exists(i) /\ schedules[i].paused => schedules'[i].paused
  <1>1. CASE ~Exists(id) \/ schedules[id].paused = paused
    <2>1. UNCHANGED schedules
      BY <1>1 DEF SetPaused
    <2> QED
      BY <2>1, StoreUnchanged DEF Exists
  <1>2. CASE Exists(id) /\ schedules[id].paused # paused
    <2> DEFINE s == schedules[id]
               r == schedules[id].revision + 1
               n == [s EXCEPT !.paused = paused, !.revision = r]
    <2>1. Store(id, n)
      BY <1>2 DEF SetPaused
    <2>2. s \in Schedule /\ r \in Nat
      BY <1>2, ScheduleHere
    <2> HIDE DEF r, s
    <2>3. /\ n \in Schedule /\ n.revision = r
          /\ n.next_fire_at = s.next_fire_at /\ n.paused = paused
      BY <2>2 DEF Schedule
    <2> HIDE DEF n
    <2>4. StoreStep
      BY <2>1, <2>3, StoreWrites DEF r
    <2>5. n # None
      BY <2>3, NoneApart
    <2>6. schedules'[id] = n /\ \A i \in Ids \ {id} : schedules'[i] = schedules[i]
      BY <2>1 DEF Store, TypesInv
    <2> QED
      BY <1>2, <2>3, <2>4, <2>5, <2>6 DEF Exists, s
  <1> QED
    BY <1>1, <1>2

LEMMA AdvanceStep ==
    ASSUME TypesInv, NEW id \in Ids, NEW revision \in Nat, NEW next \in Nat \cup {None},
           Advance(id, revision, next)
    PROVE  /\ StoreStep
           /\ \A i \in Ids : Exists(i) <=> schedules'[i] # None
           /\ \A i \in Ids : Exists(i) => schedules'[i].paused = schedules[i].paused
           /\ \A i \in Ids :
                 \/ schedules'[i] = schedules[i]
                 \/ /\ i = id /\ Exists(id) /\ schedules[id].revision = revision
                    /\ schedules'[id].next_fire_at = next
  <1>1. CASE ~Exists(id) \/ schedules[id].revision # revision
    <2>1. UNCHANGED schedules
      BY <1>1 DEF Advance
    <2> QED
      BY <2>1, StoreUnchanged DEF Exists
  <1>2. CASE Exists(id) /\ schedules[id].revision = revision
    <2> DEFINE s == schedules[id]
               r == schedules[id].revision + 1
               n == [s EXCEPT !.next_fire_at = next, !.revision = r]
    <2>1. Store(id, n)
      BY <1>2 DEF Advance
    <2>2. s \in Schedule /\ r \in Nat
      BY <1>2, ScheduleHere
    <2> HIDE DEF r, s
    <2>3. /\ n \in Schedule /\ n.revision = r
          /\ n.next_fire_at = next /\ n.paused = s.paused
      BY <2>2 DEF Schedule
    <2> HIDE DEF n
    <2>4. StoreStep
      BY <2>1, <2>3, StoreWrites DEF r
    <2>5. n # None
      BY <2>3, NoneApart
    <2>6. schedules'[id] = n /\ \A i \in Ids \ {id} : schedules'[i] = schedules[i]
      BY <2>1 DEF Store, TypesInv
    <2> QED
      BY <1>2, <2>3, <2>4, <2>5, <2>6 DEF Exists, s
  <1> QED
    BY <1>1, <1>2

(* What a step does to a replica. *)
LEMMA RestingAtWork ==
    ASSUME NEW clock \in Nat
    PROVE  AtWork(Resting, clock)
  BY DEF AtWork, Resting, Replica

LEMMA NextInBatchStep ==
    ASSUME TypesInv, NEW p \in Replicas, replica[p].pc # "Idle", NextInBatch(p)
    PROVE  /\ replica' \in [Replicas -> Replica]
           /\ AtWork(replica'[p], now)
           /\ replica'[p].batch \subseteq replica[p].batch
           /\ replica'[p].pc # "Enqueueing"
           /\ \A q \in Replicas \ {p} : replica'[q] = replica[q]
  <1> DEFINE rest == replica[p].batch \ {Current(p)}
             moved == [Resting EXCEPT !.pc = "Firing", !.at = replica[p].at, !.batch = rest]
             r == IF rest = {} THEN Resting ELSE moved
  <1>1. replica \in [Replicas -> Replica] /\ AtWork(replica[p], now) /\ now \in Nat
    BY DEF TypesInv, ReplicaInv
  <1>2. replica' = [replica EXCEPT ![p] = r]
    BY DEF NextInBatch
  <1>3. replica[p] \in Replica /\ replica[p].at \in Nat /\ replica[p].at <= now
          /\ replica[p].batch \in SUBSET Due
          /\ \A d \in replica[p].batch :
                d.schedule.next_fire_at \in Nat /\ d.schedule.next_fire_at <= replica[p].at
    BY <1>1 DEF AtWork, Replica
  <1>4. rest \subseteq replica[p].batch
    OBVIOUS
  <1> HIDE DEF rest
  <1>5. /\ moved \in Replica
        /\ moved.pc = "Firing" /\ moved.at = replica[p].at /\ moved.batch = rest
    <2>1. Resting \in Replica
      BY DEF Resting, Replica
    <2>2. rest \in SUBSET Due
      BY <1>3, <1>4
    <2> QED
      BY <1>3, <2>1, <2>2 DEF Replica
  <1> HIDE DEF moved
  <1>6. ASSUME rest # {}
        PROVE  /\ AtWork(moved, now) /\ moved.batch = rest /\ moved.pc = "Firing"
    BY <1>3, <1>4, <1>5, <1>6 DEF AtWork
  <1>7. AtWork(Resting, now) /\ Resting.batch = {} /\ Resting.pc = "Idle"
    BY <1>1, RestingAtWork DEF Resting
  <1>8. AtWork(r, now) /\ r.batch \subseteq replica[p].batch /\ r.pc # "Enqueueing"
    BY <1>4, <1>6, <1>7
  <1>9. r \in Replica
    BY <1>8 DEF AtWork
  <1> HIDE DEF r
  <1>10. replica'[p] = r /\ \A q \in Replicas \ {p} : replica'[q] = replica[q]
    BY <1>1, <1>2
  <1>11. replica' \in [Replicas -> Replica]
    BY <1>1, <1>2, <1>9
  <1> QED
    BY <1>8, <1>10, <1>11

LEMMA PollStep ==
    ASSUME TypesInv, NEW p \in Replicas, Poll(p)
    PROVE  /\ replica' \in [Replicas -> Replica]
           /\ AtWork(replica'[p], now)
           /\ replica'[p].pc = "Firing"
           /\ \A d \in replica'[p].batch :
                 d.id \in Ids /\ Exists(d.id) /\ d.schedule = schedules[d.id]
           /\ \A q \in Replicas \ {p} : replica'[q] = replica[q]
  <1> DEFINE due == {i \in Ids : IsDue(i, now)}
             batch == {[id |-> id, schedule |-> schedules[id]] : id \in due}
             r == [Resting EXCEPT !.pc = "Firing", !.at = now, !.batch = batch]
  <1>1. replica \in [Replicas -> Replica] /\ now \in Nat
    BY DEF TypesInv
  <1>2. replica' = [replica EXCEPT ![p] = r]
    BY DEF Poll
  <1>3. due # {}
    BY DEF Poll
  <1>4. ASSUME NEW id \in due
        PROVE  /\ id \in Ids /\ Exists(id) /\ schedules[id] \in Schedule
               /\ schedules[id].next_fire_at \in Nat /\ schedules[id].next_fire_at <= now
    <2>1. id \in Ids /\ Exists(id) /\ schedules[id].next_fire_at # None
            /\ schedules[id].next_fire_at <= now
      BY DEF IsDue
    <2> QED
      BY <2>1, ScheduleHere
  <1> HIDE DEF due
  <1>5. ASSUME NEW d \in batch
        PROVE  /\ d \in Due /\ d.id \in Ids /\ Exists(d.id) /\ d.schedule = schedules[d.id]
               /\ d.schedule.next_fire_at \in Nat /\ d.schedule.next_fire_at <= now
    <2>1. PICK id \in due : d = [id |-> id, schedule |-> schedules[id]]
      OBVIOUS
    <2> QED
      BY <1>4, <2>1 DEF Due
  <1>6. batch # {}
    BY <1>3
  <1> HIDE DEF batch
  <1>7. r \in Replica /\ r.pc = "Firing" /\ r.at = now /\ r.batch = batch
    <2>1. Resting \in Replica
      BY DEF Resting, Replica
    <2>2. batch \in SUBSET Due
      BY <1>5
    <2> QED
      BY <1>1, <2>1, <2>2 DEF Replica
  <1> HIDE DEF r
  <1>9. AtWork(r, now) /\ r.batch = batch /\ r.pc = "Firing"
    BY <1>1, <1>5, <1>6, <1>7 DEF AtWork
  <1>10. replica'[p] = r /\ \A q \in Replicas \ {p} : replica'[q] = replica[q]
    BY <1>1, <1>2 DEF r
  <1>11. replica' \in [Replicas -> Replica]
    BY <1>1, <1>2, <1>7 DEF r
  <1> QED
    BY <1>5, <1>9, <1>10, <1>11

(* The plan of a copy a replica holds. *)
LEMMA PlanOfIs ==
    ASSUME NEW p \in Replicas, ReplicaInv(p), replica[p].pc # "Idle",
           Current(p).schedule.spec.kind # "Unparsable"
    PROVE  LET d == Current(p)
               s == d.schedule
               plan == PlanOf(d, replica[p].at)
           IN  /\ plan.fire_times = PlannedFires(s.spec, s.missed, s.next_fire_at, replica[p].at)
               /\ plan.fire_times \in SUBSET Nat
               /\ plan.next_fire_at =
                     SpecPlan(s.spec, s.missed.wanted, s.next_fire_at, replica[p].at).next_fire_at
               /\ plan.next_fire_at \in Nat \cup {None}
               /\ plan.next_fire_at # None => plan.next_fire_at > replica[p].at
  <1> DEFINE s == Current(p).schedule
  <1>1. /\ s \in Schedule /\ s.next_fire_at \in Nat /\ s.next_fire_at <= replica[p].at
    BY CurrentIn
  <1>2. s.spec \in Specs /\ s.missed \in Policies
    BY <1>1 DEF Schedule
  <1>3. s.spec.kind \in SpecKinds
    BY <1>2, SpecHere
  <1>4. replica[p].at \in Nat
    BY DEF ReplicaInv, AtWork, Replica
  <1> HIDE DEF s
  <1>5. PICK spec \in Specs, missed \in Policies, due_at \in Nat, at \in Nat :
           /\ spec = s.spec /\ missed = s.missed
           /\ due_at = s.next_fire_at /\ at = replica[p].at
    BY <1>1, <1>2, <1>4
  <1>6. due_at <= at /\ spec.kind \in SpecKinds
    BY <1>1, <1>3, <1>5
  <1>7. PlanOf(Current(p), replica[p].at) = PlanFires(spec, missed, due_at, at)
    BY <1>5 DEF PlanOf, s
  <1>8. LET plan == PlanFires(spec, missed, due_at, at) IN
           /\ plan.fire_times = PlannedFires(spec, missed, due_at, at)
           /\ plan.fire_times \in SUBSET Nat
           /\ plan.next_fire_at = SpecPlan(spec, missed.wanted, due_at, at).next_fire_at
           /\ plan.next_fire_at \in Nat \cup {None}
           /\ plan.next_fire_at # None => plan.next_fire_at > at
    BY <1>6, PlanIs
  <1> QED
    BY <1>5, <1>7, <1>8 DEF s

(* A replica keeps its batch and sets out to enqueue the plan of a copy.   *)
SetsOut(p, plan) ==
    /\ plan = PlanOf(Current(p), replica[p].at)
    /\ Current(p).schedule.spec.kind # "Unparsable"
    /\ replica' = [replica EXCEPT ![p].pc = "Enqueueing",
                                  ![p].planned = plan.fire_times,
                                  ![p].next_fire_at = plan.next_fire_at]

LEMMA PlanStep ==
    ASSUME TypesInv, NEW p \in Replicas, replica[p].pc # "Idle",
           NEW plan, SetsOut(p, plan)
    PROVE  /\ replica' \in [Replicas -> Replica]
           /\ AtWork(replica'[p], now)
           /\ replica'[p].batch = replica[p].batch
           /\ replica'[p].at = replica[p].at
           /\ replica'[p].pc = "Enqueueing"
           /\ replica'[p].planned = plan.fire_times
           /\ replica'[p].next_fire_at = plan.next_fire_at
           /\ \A q \in Replicas \ {p} : replica'[q] = replica[q]
  <1> DEFINE s == replica[p]
             planned == plan.fire_times
             next == plan.next_fire_at
             r == [s EXCEPT !.pc = "Enqueueing", !.planned = planned, !.next_fire_at = next]
  <1>1. replica \in [Replicas -> Replica] /\ ReplicaInv(p)
    BY DEF TypesInv
  <1>2. planned \in SUBSET Nat /\ next \in Nat \cup {None}
    BY <1>1, PlanOfIs DEF SetsOut
  <1>3. replica' = [replica EXCEPT ![p] = r]
    BY <1>1 DEF SetsOut
  <1>4. s \in Replica /\ AtWork(s, now) /\ s.pc # "Idle"
    BY <1>1 DEF ReplicaInv
  <1> HIDE DEF s, planned, next
  <1>5. r \in Replica /\ r.batch = s.batch /\ r.at = s.at /\ r.pc = "Enqueueing"
          /\ r.planned = planned /\ r.next_fire_at = next
    BY <1>2, <1>4 DEF Replica
  <1> HIDE DEF r
  <1>6. AtWork(r, now)
    BY <1>4, <1>5 DEF AtWork
  <1>7. replica'[p] = r /\ \A q \in Replicas \ {p} : replica'[q] = replica[q]
    BY <1>1, <1>3
  <1>8. replica' \in [Replicas -> Replica]
    BY <1>1, <1>3, <1>5
  <1> QED
    BY <1>5, <1>6, <1>7, <1>8 DEF s, planned, next

LEMMA AnswerStep ==
    ASSUME TypesInv, NEW p \in Replicas, replica[p].pc = "Enqueueing",
           NEW fire_time,
           replica' = [replica EXCEPT ![p].planned = @ \ {fire_time}]
    PROVE  /\ replica' \in [Replicas -> Replica]
           /\ AtWork(replica'[p], now)
           /\ replica'[p].batch = replica[p].batch
           /\ replica'[p].at = replica[p].at
           /\ replica'[p].pc = "Enqueueing"
           /\ replica'[p].planned = replica[p].planned \ {fire_time}
           /\ replica'[p].next_fire_at = replica[p].next_fire_at
           /\ \A q \in Replicas \ {p} : replica'[q] = replica[q]
  <1> DEFINE s == replica[p]
             r == [s EXCEPT !.planned = @ \ {fire_time}]
  <1>1. replica \in [Replicas -> Replica] /\ ReplicaInv(p)
    BY DEF TypesInv
  <1>3. replica' = [replica EXCEPT ![p] = r]
    BY <1>1
  <1>4. s \in Replica /\ AtWork(s, now) /\ s.pc = "Enqueueing"
    BY <1>1 DEF ReplicaInv
  <1> HIDE DEF s
  <1>5. r \in Replica /\ r.batch = s.batch /\ r.at = s.at /\ r.pc = s.pc
          /\ r.planned = s.planned \ {fire_time} /\ r.next_fire_at = s.next_fire_at
    BY <1>4 DEF Replica
  <1> HIDE DEF r
  <1>6. AtWork(r, now)
    BY <1>4, <1>5 DEF AtWork
  <1>7. replica'[p] = r /\ \A q \in Replicas \ {p} : replica'[q] = replica[q]
    BY <1>1, <1>3
  <1>8. replica' \in [Replicas -> Replica]
    BY <1>1, <1>3, <1>5
  <1> QED
    BY <1>4, <1>5, <1>6, <1>7, <1>8 DEF s

(* What a step does to one replica: it works on copies it had, or on       *)
(* copies of what is stored; it plans the one it fires, or an occurrence   *)
(* of the plan is answered.                                                *)
JustPlanned(p) ==
    LET plan == PlanOf(Current(p), replica[p].at) IN
    /\ replica[p].pc # "Idle"
    /\ replica'[p].batch = replica[p].batch /\ replica'[p].at = replica[p].at
    /\ Current(p).schedule.spec.kind # "Unparsable"
    /\ replica'[p].planned = plan.fire_times
    /\ replica'[p].next_fire_at = plan.next_fire_at

JustAnswered(p) ==
    /\ replica[p].pc = "Enqueueing"
    /\ replica'[p].batch = replica[p].batch /\ replica'[p].at = replica[p].at
    /\ replica'[p].next_fire_at = replica[p].next_fire_at
    /\ \E t \in Nat : /\ replica'[p].planned = replica[p].planned \ {t}
                      /\ <<Current(p).id, t>> \in answered'

CopyStep(p) ==
    \/ replica'[p].batch \subseteq replica[p].batch
    \/ /\ UNCHANGED schedules
       /\ \A d \in replica'[p].batch :
             d.id \in Ids /\ Exists(d.id) /\ d.schedule = schedules[d.id]

WorkStep(p) ==
    \/ replica'[p] = replica[p]
    \/ replica'[p].pc # "Enqueueing"
    \/ JustPlanned(p)
    \/ JustAnswered(p)

ReplicaStep(p) == AtWork(replica'[p], now') /\ CopyStep(p) /\ WorkStep(p)

ReplicasStep ==
    /\ replica' \in [Replicas -> Replica]
    /\ \A p \in Replicas : ReplicaStep(p)

AnsweredStep == answered' \in SUBSET (Ids \X Nat) /\ answered \subseteq answered'

LEMMA AtWorkLater ==
    ASSUME NEW clock \in Nat, NEW later \in Nat, clock <= later, NEW r, AtWork(r, clock)
    PROVE  AtWork(r, later)
  <1>1. r.at \in Nat
    BY DEF AtWork, Replica
  <1> QED
    BY <1>1 DEF AtWork

LEMMA ReplicaRests ==
    ASSUME TypesInv, NEW p \in Replicas, replica'[p] = replica[p],
           now' \in Nat, now <= now'
    PROVE  ReplicaStep(p)
  <1>1. AtWork(replica[p], now) /\ now \in Nat
    BY DEF TypesInv, ReplicaInv
  <1>2. AtWork(replica[p], now')
    BY <1>1, AtWorkLater
  <1> QED
    BY <1>2 DEF ReplicaStep, CopyStep, WorkStep

LEMMA ReplicasRest ==
    ASSUME TypesInv, UNCHANGED replica, now' \in Nat, now <= now'
    PROVE  ReplicasStep
  <1>1. replica \in [Replicas -> Replica]
    BY DEF TypesInv
  <1> QED
    BY <1>1, ReplicaRests DEF ReplicasStep

LEMMA OneReplicaSteps ==
    ASSUME TypesInv, NEW p \in Replicas, replica' \in [Replicas -> Replica],
           \A q \in Replicas \ {p} : replica'[q] = replica[q],
           UNCHANGED now, AtWork(replica'[p], now), CopyStep(p), WorkStep(p)
    PROVE  ReplicasStep
  <1>1. now \in Nat /\ now <= now' /\ now' \in Nat
    BY DEF TypesInv
  <1>2. ReplicaStep(p)
    BY DEF ReplicaStep
  <1>3. ASSUME NEW q \in Replicas \ {p}
        PROVE  ReplicaStep(q)
    BY <1>1, ReplicaRests
  <1> QED
    BY <1>2, <1>3 DEF ReplicasStep

LEMMA NextInBatchReplicas ==
    ASSUME TypesInv, NEW p \in Replicas, replica[p].pc # "Idle", NextInBatch(p), UNCHANGED now
    PROVE  ReplicasStep
  <1>1. /\ replica' \in [Replicas -> Replica]
        /\ AtWork(replica'[p], now)
        /\ replica'[p].batch \subseteq replica[p].batch
        /\ replica'[p].pc # "Enqueueing"
        /\ \A q \in Replicas \ {p} : replica'[q] = replica[q]
    BY NextInBatchStep
  <1>2. CopyStep(p) /\ WorkStep(p)
    BY <1>1 DEF CopyStep, WorkStep
  <1> QED
    BY <1>1, <1>2, OneReplicaSteps

LEMMA PollReplicas ==
    ASSUME TypesInv, NEW p \in Replicas, Poll(p)
    PROVE  ReplicasStep
  <1>1. /\ replica' \in [Replicas -> Replica]
        /\ AtWork(replica'[p], now)
        /\ replica'[p].pc = "Firing"
        /\ \A d \in replica'[p].batch :
              d.id \in Ids /\ Exists(d.id) /\ d.schedule = schedules[d.id]
        /\ \A q \in Replicas \ {p} : replica'[q] = replica[q]
    BY PollStep
  <1>2. UNCHANGED schedules /\ UNCHANGED now
    BY DEF Poll
  <1>3. CopyStep(p) /\ WorkStep(p)
    BY <1>1, <1>2 DEF CopyStep, WorkStep
  <1> QED
    BY <1>1, <1>2, <1>3, OneReplicaSteps

LEMMA PlanSteps ==
    ASSUME TypesInv, NEW p \in Replicas, Plan(p)
    PROVE  StoreStep /\ ReplicasStep
  <1> DEFINE d == Current(p)
             plan == PlanFires(d.schedule.spec, d.schedule.missed,
                               d.schedule.next_fire_at, replica[p].at)
  <1>1. replica[p].pc # "Idle" /\ UNCHANGED now
    BY DEF Plan
  <1>2. d.id \in Ids
    BY <1>1, CurrentIn DEF TypesInv
  <1>3. CASE SetPaused(d.id, TRUE) /\ NextInBatch(p)
    BY <1>1, <1>2, <1>3, SetPausedStep, NextInBatchReplicas
  <1>4. CASE NextInBatch(p) /\ UNCHANGED schedules
    BY <1>1, <1>4, StoreUnchanged, NextInBatchReplicas
  <1>5. CASE /\ d.schedule.spec.kind # "Unparsable"
             /\ replica' = [replica EXCEPT ![p].pc = "Enqueueing",
                                           ![p].planned = plan.fire_times,
                                           ![p].next_fire_at = plan.next_fire_at]
             /\ UNCHANGED schedules
    <2>1. SetsOut(p, plan)
      BY <1>5 DEF SetsOut, PlanOf
    <2>2. plan = PlanOf(Current(p), replica[p].at)
      BY DEF PlanOf
    <2> HIDE DEF d, plan
    <2>4. /\ replica' \in [Replicas -> Replica]
          /\ AtWork(replica'[p], now)
          /\ replica'[p].batch = replica[p].batch
          /\ replica'[p].at = replica[p].at
          /\ replica'[p].planned = plan.fire_times
          /\ replica'[p].next_fire_at = plan.next_fire_at
          /\ \A q \in Replicas \ {p} : replica'[q] = replica[q]
      BY <1>1, <2>1, PlanStep
    <2>5. CopyStep(p)
      BY <2>4 DEF CopyStep
    <2>6. JustPlanned(p)
      BY <1>1, <1>5, <2>2, <2>4 DEF JustPlanned, d
    <2>7. WorkStep(p)
      BY <2>6 DEF WorkStep
    <2> QED
      BY <1>1, <1>5, <2>4, <2>5, <2>7, StoreUnchanged, OneReplicaSteps
  <1> QED
    BY <1>3, <1>4, <1>5 DEF Plan

(* An enqueue that is answered, whether it made a run or was refused. *)
Answers(p, t) ==
    /\ replica[p].pc = "Enqueueing"
    /\ t \in replica[p].planned
    /\ answered' = answered \cup {<<Current(p).id, t>>}
    /\ replica' = [replica EXCEPT ![p].planned = @ \ {t}]

LEMMA AnswerSteps ==
    ASSUME TypesInv, NEW p \in Replicas, NEW t, Answers(p, t), UNCHANGED now
    PROVE  AnsweredStep /\ ReplicasStep
  <1>1. replica[p].pc = "Enqueueing" /\ replica[p].pc # "Idle" /\ ReplicaInv(p)
    BY DEF Answers, TypesInv
  <1>2. t \in Nat /\ Current(p).id \in Ids
    <2>1. replica[p].planned \in SUBSET Nat
      BY <1>1 DEF ReplicaInv, AtWork, Replica
    <2> QED
      BY <1>1, <2>1, CurrentIn DEF Answers
  <1>3. <<Current(p).id, t>> \in Ids \X Nat
    BY <1>2
  <1>4. AnsweredStep /\ <<Current(p).id, t>> \in answered'
    BY <1>3 DEF AnsweredStep, Answers, TypesInv
  <1>5. replica' = [replica EXCEPT ![p].planned = @ \ {t}]
    BY DEF Answers
  <1>6. /\ replica' \in [Replicas -> Replica]
        /\ AtWork(replica'[p], now)
        /\ replica'[p].batch = replica[p].batch
        /\ replica'[p].at = replica[p].at
        /\ replica'[p].planned = replica[p].planned \ {t}
        /\ replica'[p].next_fire_at = replica[p].next_fire_at
        /\ \A q \in Replicas \ {p} : replica'[q] = replica[q]
    BY <1>1, <1>5, AnswerStep
  <1>7. JustAnswered(p)
    BY <1>1, <1>2, <1>4, <1>6 DEF JustAnswered
  <1>8. CopyStep(p) /\ WorkStep(p)
    BY <1>6, <1>7 DEF CopyStep, WorkStep
  <1> QED
    BY <1>4, <1>6, <1>8, OneReplicaSteps

LEMMA EnqueueAnswers ==
    ASSUME TypesInv, NEW p \in Replicas, EnqueueFiring(p) \/ RejectFiring(p)
    PROVE  /\ Answers(p, Min(replica[p].planned))
           /\ created' \in SUBSET (Ids \X Nat)
           /\ UNCHANGED <<schedules, endpoint, refusing, now>>
  <1> DEFINE t == Min(replica[p].planned)
  <1>1. replica[p].pc = "Enqueueing" /\ replica[p].planned # {} /\ ReplicaInv(p)
    BY DEF EnqueueFiring, RejectFiring, TypesInv
  <1>2. replica[p].planned \in SUBSET Nat
    BY <1>1 DEF ReplicaInv, AtWork, Replica
  <1>3. t \in replica[p].planned
    BY <1>1, <1>2, LeastOf
  <1>4. Current(p).id \in Ids
    BY <1>1, CurrentIn
  <1>5. <<Current(p).id, t>> \in Ids \X Nat
    BY <1>2, <1>3, <1>4
  <1>6. /\ answered' = answered \cup {<<Current(p).id, t>>}
        /\ replica' = [replica EXCEPT ![p].planned = @ \ {t}]
        /\ created' = created \/ created' = created \cup {<<Current(p).id, t>>}
        /\ UNCHANGED <<schedules, endpoint, refusing, now>>
    BY DEF EnqueueFiring, RejectFiring
  <1> HIDE DEF t
  <1>7. created' \in SUBSET (Ids \X Nat)
    BY <1>5, <1>6 DEF TypesInv
  <1>8. Answers(p, t)
    BY <1>1, <1>3, <1>6 DEF Answers
  <1> QED
    BY <1>6, <1>7, <1>8 DEF t

(* What any step does. *)
EndpointType == endpoint \in [Endpoints -> PendingUpsert \cup {None}]

StepFacts ==
    /\ StoreStep
    /\ AnsweredStep
    /\ ReplicasStep
    /\ created' \in SUBSET (Ids \X Nat)
    /\ EndpointType'
    /\ refusing' \in BOOLEAN
    /\ now' \in Nat /\ now <= now'

LEMMA RestOfStep ==
    ASSUME TypesInv, StoreStep, AnsweredStep, ReplicasStep,
           created' \in SUBSET (Ids \X Nat), UNCHANGED <<endpoint, refusing, now>>
    PROVE  StepFacts
  BY DEF StepFacts, EndpointType, TypesInv

LEMMA FireFacts ==
    ASSUME TypesInv, NEW p \in Replicas, Fire(p) \/ FireFails(p) \/ Crash(p)
    PROVE  StepFacts
  <1>1. created \in SUBSET (Ids \X Nat) /\ (UNCHANGED answered => AnsweredStep)
    BY DEF TypesInv, AnsweredStep
  <1>2. CASE Poll(p)
    <2>1. ReplicasStep
      BY <1>2, PollReplicas
    <2>2. UNCHANGED <<schedules, created, answered, endpoint, refusing, now>>
      BY <1>2 DEF Poll
    <2> QED
      BY <1>1, <2>1, <2>2, StoreUnchanged, RestOfStep
  <1>3. CASE Plan(p)
    <2>1. StoreStep /\ ReplicasStep
      BY <1>3, PlanSteps
    <2>2. UNCHANGED <<created, answered, endpoint, refusing, now>>
      BY <1>3 DEF Plan
    <2> QED
      BY <1>1, <2>1, <2>2, RestOfStep
  <1>4. CASE EnqueueFiring(p) \/ RejectFiring(p)
    <2> DEFINE t == Min(replica[p].planned)
    <2>1. /\ Answers(p, t)
          /\ created' \in SUBSET (Ids \X Nat)
          /\ UNCHANGED <<schedules, endpoint, refusing, now>>
      BY <1>4, EnqueueAnswers
    <2> HIDE DEF t
    <2>2. AnsweredStep /\ ReplicasStep
      BY <2>1, AnswerSteps
    <2> QED
      BY <2>1, <2>2, StoreUnchanged, RestOfStep
  <1>5. CASE MoveOn(p)
    <2>1. /\ replica[p].pc = "Enqueueing" /\ NextInBatch(p)
          /\ Advance(Current(p).id, Current(p).schedule.revision, replica[p].next_fire_at)
          /\ UNCHANGED <<created, answered, endpoint, refusing, now>>
      BY <1>5 DEF MoveOn
    <2>2. ReplicaInv(p) /\ replica[p].pc # "Idle"
      BY <2>1 DEF TypesInv
    <2>3. replica[p].next_fire_at \in Nat \cup {None}
      BY <2>2 DEF ReplicaInv, AtWork, Replica
    <2>4. Current(p).id \in Ids /\ Current(p).schedule.revision \in Nat
      BY <2>2, CurrentIn DEF Schedule
    <2>5. StoreStep
      BY <2>1, <2>3, <2>4, AdvanceStep
    <2>6. ReplicasStep
      BY <2>1, <2>2, NextInBatchReplicas
    <2> QED
      BY <1>1, <2>1, <2>5, <2>6, RestOfStep
  <1>6. CASE FireFails(p)
    <2>1. /\ replica[p].pc # "Idle" /\ NextInBatch(p)
          /\ UNCHANGED <<schedules, created, answered, endpoint, refusing, now>>
      BY <1>6 DEF FireFails
    <2> QED
      BY <1>1, <2>1, NextInBatchReplicas, StoreUnchanged, RestOfStep
  <1>7. CASE Crash(p)
    <2>1. /\ replica' = [replica EXCEPT ![p] = Resting]
          /\ UNCHANGED <<schedules, created, answered, endpoint, refusing, now>>
      BY <1>7 DEF Crash
    <2>2. AtWork(Resting, now) /\ Resting.batch = {} /\ Resting.pc # "Enqueueing"
      BY RestingAtWork DEF TypesInv, Resting
    <2>3. Resting \in Replica
      BY <2>2 DEF AtWork
    <2>4. /\ replica' \in [Replicas -> Replica]
          /\ replica'[p] = Resting
          /\ \A q \in Replicas \ {p} : replica'[q] = replica[q]
      BY <2>1, <2>3 DEF TypesInv
    <2>5. CopyStep(p) /\ WorkStep(p)
      BY <2>2, <2>4 DEF CopyStep, WorkStep
    <2>6. ReplicasStep
      BY <2>1, <2>2, <2>4, <2>5, OneReplicaSteps
    <2> QED
      BY <1>1, <2>1, <2>6, StoreUnchanged, RestOfStep
  <1> QED
    BY <1>2, <1>3, <1>4, <1>5, <1>6, <1>7 DEF Fire

LEMMA NewScheduleType ==
    ASSUME NEW spec \in Specs, NEW missed \in Policies, NEW next \in Nat \cup {None}
    PROVE  NewSchedule(spec, missed, next) \in Schedule
  BY DEF NewSchedule, Schedule

LEMMA RequestTypes ==
    ASSUME TypesInv, NEW e \in Endpoints, NEW id \in Ids, NEW creates \in BOOLEAN,
           NEW s \in Schedule, Request(e, id, creates, s)
    PROVE  EndpointType'
  <1> DEFINE r == [id |-> id, creates |-> creates, schedule |-> s]
  <1>1. r \in PendingUpsert
    BY DEF PendingUpsert
  <1>2. endpoint' = [endpoint EXCEPT ![e] = r]
    BY DEF Request
  <1>3. endpoint \in [Endpoints -> PendingUpsert \cup {None}]
    BY DEF TypesInv
  <1> HIDE DEF r
  <1> QED
    BY <1>1, <1>2, <1>3 DEF EndpointType

(* A step of a handler, an application, an operator or the clock leaves    *)
(* every replica where it is.                                              *)
LEMMA OthersFacts ==
    ASSUME TypesInv, UNCHANGED <<created, answered, replica>>,
           StoreStep, EndpointType', refusing' \in BOOLEAN, now' \in Nat, now <= now'
    PROVE  StepFacts
  <1>1. AnsweredStep /\ created' \in SUBSET (Ids \X Nat)
    BY DEF TypesInv, AnsweredStep
  <1>2. ReplicasStep
    BY ReplicasRest
  <1> QED
    BY <1>1, <1>2 DEF StepFacts

LEMMA CreateJobFacts ==
    ASSUME TypesInv, NEW e \in Endpoints, NEW id \in Ids, NEW spec \in Specs,
           NEW missed \in Policies, CreateJob(e, id, spec, missed)
    PROVE  StepFacts
  <1> DEFINE s == NewSchedule(spec, missed, NextAfter(spec, now))
  <1>1. now \in Nat /\ refusing \in BOOLEAN /\ now <= now
    BY DEF TypesInv
  <1>2. s \in Schedule
    BY <1>1, NextAfterType, NewScheduleType
  <1>3. Request(e, id, TRUE, s)
          /\ UNCHANGED <<schedules, created, answered, replica, refusing, now>>
    BY DEF CreateJob
  <1> HIDE DEF s
  <1>4. EndpointType'
    BY <1>2, <1>3, RequestTypes
  <1>5. StoreStep
    BY <1>3, StoreUnchanged
  <1> QED
    BY <1>1, <1>3, <1>4, <1>5, OthersFacts

LEMMA ResumeJobFacts ==
    ASSUME TypesInv, NEW e \in Endpoints, NEW id \in Ids, ResumeJob(e, id)
    PROVE  StepFacts
  <1> DEFINE n == NextAfter(schedules[id].spec, now)
             s == [schedules[id] EXCEPT !.paused = FALSE, !.next_fire_at = n]
  <1>1. now \in Nat /\ refusing \in BOOLEAN /\ now <= now
    BY DEF TypesInv
  <1>2. Request(e, id, FALSE, s)
          /\ UNCHANGED <<schedules, created, answered, replica, refusing, now>> /\ Exists(id)
    BY DEF ResumeJob
  <1>3. schedules[id] \in Schedule /\ schedules[id].spec \in Specs
    BY <1>2, ScheduleHere
  <1>4. n \in Nat \cup {None}
    BY <1>1, <1>3, NextAfterType
  <1> HIDE DEF n
  <1>5. s \in Schedule
    BY <1>3, <1>4 DEF Schedule
  <1> HIDE DEF s
  <1>6. EndpointType'
    BY <1>2, <1>5, RequestTypes
  <1>7. StoreStep
    BY <1>2, StoreUnchanged
  <1> QED
    BY <1>1, <1>2, <1>6, <1>7, OthersFacts

LEMMA PendingHere ==
    ASSUME TypesInv, NEW e \in Endpoints, endpoint[e] # None
    PROVE  /\ endpoint[e] \in PendingUpsert
           /\ endpoint[e].id \in Ids /\ endpoint[e].schedule \in Schedule
  <1>1. endpoint[e] \in PendingUpsert
    BY DEF TypesInv
  <1> QED
    BY <1>1 DEF PendingUpsert

LEMMA UpsertJobFacts ==
    ASSUME TypesInv, NEW e \in Endpoints, UpsertJob(e)
    PROVE  StepFacts
  <1>1. now \in Nat /\ refusing \in BOOLEAN /\ now <= now
    BY DEF TypesInv
  <1>2. /\ endpoint[e] # None /\ Upsert(endpoint[e].id, endpoint[e].schedule)
        /\ endpoint' = [endpoint EXCEPT ![e] = None]
        /\ UNCHANGED <<created, answered, replica, refusing, now>>
    BY DEF UpsertJob
  <1>3. StoreStep
    BY <1>2, PendingHere, UpsertStep
  <1>4. EndpointType'
    BY <1>2 DEF EndpointType, TypesInv
  <1> QED
    BY <1>1, <1>2, <1>3, <1>4, OthersFacts

LEMMA RegisterFacts ==
    ASSUME TypesInv, NEW id \in Ids, NEW spec \in Specs, NEW missed \in Policies,
           Register(id, spec, missed)
    PROVE  StepFacts
  <1> DEFINE n == CASE spec.kind = "At" -> Min(spec.times)
                    [] spec.kind = "Every" -> NextAfter(spec, now)
                    [] OTHER -> now
             s == NewSchedule(spec, missed, n)
  <1>1. now \in Nat /\ refusing \in BOOLEAN /\ now <= now
    BY DEF TypesInv
  <1>2. Upsert(id, s) /\ UNCHANGED <<created, answered, replica, endpoint, refusing, now>>
    BY DEF Register
  <1>3. n \in Nat \cup {None}
    <2>1. CASE spec.kind = "At"
      <3>1. spec.times \in SUBSET Nat /\ spec.times # {}
        BY <2>1, SpecHere
      <3>2. Min(spec.times) \in Nat
        BY <3>1, LeastOf
      <3> QED
        BY <2>1, <3>2
    <2>2. CASE spec.kind = "Every"
      <3>1. NextAfter(spec, now) \in Nat \cup {None}
        BY <1>1, NextAfterType
      <3> QED
        BY <2>2, <3>1
    <2>3. CASE spec.kind # "At" /\ spec.kind # "Every"
      BY <1>1, <2>3
    <2> QED
      BY <2>1, <2>2, <2>3
  <1> HIDE DEF n
  <1>4. s \in Schedule
    BY <1>3, NewScheduleType
  <1> HIDE DEF s
  <1>5. StoreStep
    BY <1>2, <1>4, UpsertStep
  <1>6. EndpointType'
    BY <1>2 DEF EndpointType, TypesInv
  <1> QED
    BY <1>1, <1>2, <1>5, <1>6, OthersFacts

LEMMA OtherFacts ==
    ASSUME TypesInv,
           \/ \E id \in Ids : PauseJob(id) \/ DeleteJob(id)
           \/ Toggle \/ Tick
    PROVE  StepFacts
  <1>1. /\ now \in Nat /\ refusing \in BOOLEAN /\ now <= now
        /\ schedules \in [Ids -> Schedule \cup {None}]
        /\ UNCHANGED endpoint => EndpointType'
    BY DEF TypesInv, EndpointType
  <1>2. ASSUME NEW id \in Ids, PauseJob(id)
        PROVE  StepFacts
    <2>1. SetPaused(id, TRUE) /\ UNCHANGED <<created, answered, replica, endpoint, refusing, now>>
      BY <1>2 DEF PauseJob
    <2> QED
      BY <1>1, <2>1, SetPausedStep, OthersFacts
  <1>3. ASSUME NEW id \in Ids, DeleteJob(id)
        PROVE  StepFacts
    <2>1. /\ Deletes /\ schedules' = [schedules EXCEPT ![id] = None]
          /\ UNCHANGED <<created, answered, replica, endpoint, refusing, now>>
      BY <1>3 DEF DeleteJob, Store
    <2>2. StoreStep
      BY <1>1, <2>1 DEF StoreStep
    <2> QED
      BY <1>1, <2>1, <2>2, OthersFacts
  <1>4. CASE Toggle
    <2>1. /\ refusing' = ~refusing
          /\ UNCHANGED <<schedules, created, answered, replica, endpoint, now>>
      BY <1>4 DEF Toggle
    <2>2. refusing' \in BOOLEAN
      BY <1>1, <2>1
    <2> QED
      BY <1>1, <2>1, <2>2, StoreUnchanged, OthersFacts
  <1>5. CASE Tick
    <2>1. /\ now' = now + 1
          /\ UNCHANGED <<schedules, created, answered, replica, endpoint, refusing>>
      BY <1>5 DEF Tick
    <2>2. now' \in Nat /\ now <= now'
      BY <1>1, <2>1
    <2> QED
      BY <1>1, <2>1, <2>2, StoreUnchanged, OthersFacts
  <1> QED
    BY <1>2, <1>3, <1>4, <1>5

LEMMA NextFacts ==
    ASSUME TypesInv, [Next]_vars
    PROVE  StepFacts
  <1>1. CASE UNCHANGED vars
    <2>1. UNCHANGED <<schedules, created, answered, replica, endpoint, refusing, now>>
      BY <1>1 DEF vars
    <2>2. EndpointType' /\ refusing' \in BOOLEAN /\ now' \in Nat /\ now <= now'
      BY <2>1 DEF TypesInv, EndpointType
    <2> QED
      BY <2>1, <2>2, StoreUnchanged, OthersFacts
  <1>2. CASE Next
    BY <1>2, FireFacts, CreateJobFacts, ResumeJobFacts, UpsertJobFacts, RegisterFacts,
       OtherFacts DEF Next
  <1> QED
    BY <1>1, <1>2

LEMMA TypesInit ==
    ASSUME Init
    PROVE  TypesInv
  <1>1. AtWork(Resting, 0)
    BY RestingAtWork
  <1>2. Resting \in Replica
    BY <1>1 DEF AtWork
  <1> HIDE DEF Resting
  <1> QED
    BY <1>1, <1>2 DEF Init, TypesInv, ReplicaInv

LEMMA TypesNext ==
    ASSUME TypesInv, [Next]_vars
    PROVE  TypesInv'
  <1>1. StepFacts
    BY NextFacts
  <1>2. \A p \in Replicas : ReplicaInv(p)'
    BY <1>1 DEF StepFacts, ReplicasStep, ReplicaStep, ReplicaInv
  <1> QED
    BY <1>1, <1>2 DEF TypesInv, StepFacts, StoreStep, AnsweredStep, ReplicasStep, EndpointType

LEMMA TypesAlways == Spec => []TypesInv
  BY TypesInit, TypesNext, PTL DEF Spec

(* Every value of the store, of the replicas and of the control has its    *)
(* type, and a replica is at work exactly while it has copies to fire      *)
(* (tick).                                                                 *)
THEOREM SchedulerTypes == Spec => []TypeOK
  <1>1. TypesInv => TypeOK
    BY DEF TypesInv, TypeOK, ReplicaInv, AtWork, Replica
  <1> QED
    BY <1>1, TypesAlways, PTL

(* plan_fires, whatever the specification and the policy: it fires the     *)
(* latest due occurrences the policy allows, drops none of them, and moves *)
(* the schedule past now.                                                  *)
THEOREM PlannerKeepsLatest == Spec => []PlanKeepsLatest
  <1>1. ASSUME TypesInv
        PROVE  PlanKeepsLatest
    <2> SUFFICES ASSUME NEW id \in Ids, IsDue(id, now), schedules[id].spec.kind # "Unparsable"
                 PROVE  LET s == schedules[id]
                            due == Occurrences(s.spec, s.next_fire_at, now)
                            plan == PlanFires(s.spec, s.missed, s.next_fire_at, now)
                        IN  /\ plan.fire_times =
                                  IF s.missed.kind = "Skip" /\ now > Max(due) + Grace THEN {}
                                  ELSE LatestOf(due, s.missed.wanted)
                            /\ plan.next_fire_at # None => plan.next_fire_at > now
      BY DEF PlanKeepsLatest
    <2> DEFINE s == schedules[id]
    <2>1. s.spec \in Specs /\ s.missed \in Policies /\ s.next_fire_at \in Nat \cup {None}
      BY <1>1, ScheduleHere DEF IsDue
    <2>2. s.next_fire_at \in Nat /\ s.next_fire_at <= now /\ now \in Nat
      BY <1>1, <2>1 DEF IsDue, TypesInv
    <2>3. s.spec.kind \in SpecKinds
      BY <2>1, SpecHere
    <2> HIDE DEF s
    <2>4. PICK spec \in Specs, missed \in Policies, due_at \in Nat, at \in Nat :
             spec = s.spec /\ missed = s.missed /\ due_at = s.next_fire_at /\ at = now
      BY <2>1, <2>2
    <2>5. LET plan == PlanFires(spec, missed, due_at, at) IN
             /\ plan.fire_times = PlannedFires(spec, missed, due_at, at)
             /\ plan.next_fire_at # None => plan.next_fire_at > at
      BY <2>2, <2>3, <2>4, PlanIs
    <2>6. PlannedFires(spec, missed, due_at, at) =
             IF missed.kind = "Skip" /\ at > Max(Occurrences(spec, due_at, at)) + Grace THEN {}
             ELSE LatestOf(Occurrences(spec, due_at, at), missed.wanted)
      BY DEF PlannedFires
    <2> QED
      BY <2>4, <2>5, <2>6 DEF s
  <1> QED
    BY <1>1, TypesAlways, PTL

-----------------------------------------------------------------------------
(* The copies replicas hold.                                               *)

LEMMA CopiesNext ==
    ASSUME TypesInv, CopiesInv, [Next]_vars, Deletes = FALSE
    PROVE  CopiesInv'
  <1>1. StoreStep /\ \A p \in Replicas : CopyStep(p)
    BY NextFacts DEF StepFacts, ReplicasStep, ReplicaStep
  <1> SUFFICES ASSUME NEW p \in Replicas, NEW d \in replica'[p].batch
               PROVE  CopyInv(d)'
    BY DEF CopiesInv
  <1>2. CASE d \in replica[p].batch
    <2>1. Exists(d.id) /\ d.schedule.revision <= schedules[d.id].revision
            /\ (schedules[d.id].revision = d.schedule.revision => schedules[d.id] = d.schedule)
      BY <1>2 DEF CopiesInv, CopyInv
    <2>2. d \in Due
      BY <1>2 DEF TypesInv, Replica
    <2>3. d.id \in Ids /\ d.schedule \in Schedule /\ d.schedule.revision \in Nat
      BY <2>2 DEF Due, Schedule
    <2>4. schedules[d.id].revision \in Nat /\ schedules[d.id] # None
      BY <2>1, <2>3, ScheduleHere DEF Exists
    <2>5. \/ schedules'[d.id] = schedules[d.id]
          \/ /\ schedules'[d.id] \in Schedule
             /\ schedules'[d.id].revision = schedules[d.id].revision + 1
      BY <1>1, <2>1, <2>3 DEF StoreStep
    <2>6. CASE schedules'[d.id] = schedules[d.id]
      BY <2>1, <2>4, <2>6 DEF CopyInv, Exists
    <2>7. CASE /\ schedules'[d.id] \in Schedule
               /\ schedules'[d.id].revision = schedules[d.id].revision + 1
      <3>1. schedules'[d.id] # None
        BY <2>7, NoneApart
      <3> QED
        BY <2>1, <2>3, <2>4, <2>7, <3>1 DEF CopyInv, Exists
    <2> QED
      BY <2>5, <2>6, <2>7
  <1>3. CASE ~(replica'[p].batch \subseteq replica[p].batch)
    <2>1. UNCHANGED schedules /\ d.id \in Ids /\ Exists(d.id) /\ d.schedule = schedules[d.id]
      BY <1>1, <1>3 DEF CopyStep
    <2>2. schedules[d.id].revision \in Nat
      BY <2>1, ScheduleHere
    <2> QED
      BY <2>1, <2>2 DEF CopyInv, Exists
  <1> QED
    BY <1>2, <1>3

LEMMA CopiesAlways ==
    ASSUME Deletes = FALSE
    PROVE  Spec => []CopiesInv
  <1>1. Init => CopiesInv
    <2>1. Resting.batch = {}
      BY DEF Resting
    <2> HIDE DEF Resting
    <2> QED
      BY <2>1 DEF Init, CopiesInv
  <1>2. TypesInv /\ CopiesInv /\ [Next]_vars => CopiesInv'
    BY CopiesNext
  <1> QED
    BY <1>1, <1>2, TypesAlways, PTL DEF Spec

(* advance compares revisions: a replica whose revision still matches      *)
(* holds a copy of what is stored.  A name that is deleted and registered  *)
(* again starts at revision 1, so this is said of stores without deletes.  *)
THEOREM RevisionNamesTheSchedule ==
    ASSUME Deletes = FALSE
    PROVE  Spec => []RevisionNamesSchedule
  <1>1. CopiesInv => RevisionNamesSchedule
    BY DEF CopiesInv, CopyInv, RevisionNamesSchedule
  <1> QED
    BY <1>1, CopiesAlways, PTL

-----------------------------------------------------------------------------
(* The plans replicas carry out.                                           *)

LEMMA PlansNext ==
    ASSUME TypesInv, PlansInv, [Next]_vars
    PROVE  PlansInv'
  <1>1. AnsweredStep /\ \A p \in Replicas : WorkStep(p)
    BY NextFacts DEF StepFacts, ReplicasStep, ReplicaStep
  <1>2. answered \subseteq answered'
    BY <1>1 DEF AnsweredStep
  <1> SUFFICES ASSUME NEW p \in Replicas PROVE PlanInv(p)'
    BY DEF PlansInv
  <1>3. PlanInv(p)
    BY DEF PlansInv
  <1>4. CASE replica'[p] = replica[p]
    BY <1>2, <1>3, <1>4 DEF PlanInv, Current
  <1>5. CASE replica'[p].pc # "Enqueueing"
    BY <1>5 DEF PlanInv
  <1>6. CASE JustPlanned(p)
    <2>1. Current(p)' = Current(p)
      BY <1>6 DEF JustPlanned, Current
    <2>2. PlanOf(Current(p), replica[p].at)' = PlanOf(Current(p), replica[p].at)
      BY <1>6, <2>1 DEF JustPlanned, PlanOf
    <2> QED
      BY <1>6, <2>1, <2>2 DEF JustPlanned, PlanInv
  <1>7. CASE JustAnswered(p)
    <2>1. Current(p)' = Current(p)
      BY <1>7 DEF JustAnswered, Current
    <2>2. PlanOf(Current(p), replica[p].at)' = PlanOf(Current(p), replica[p].at)
      BY <1>7, <2>1 DEF JustAnswered, PlanOf
    <2> QED
      BY <1>2, <1>3, <1>7, <2>1, <2>2 DEF JustAnswered, PlanInv
  <1> QED
    BY <1>1, <1>4, <1>5, <1>6, <1>7 DEF WorkStep

LEMMA PlansAlways == Spec => []PlansInv
  <1>1. Init => PlansInv
    <2>1. Resting.pc = "Idle"
      BY DEF Resting
    <2> HIDE DEF Resting
    <2> QED
      BY <2>1 DEF Init, PlansInv, PlanInv
  <1>2. TypesInv /\ PlansInv /\ [Next]_vars => PlansInv'
    BY PlansNext
  <1> QED
    BY <1>1, <1>2, TypesAlways, PTL DEF Spec

-----------------------------------------------------------------------------
(* The pending upserts.  The endpoints do not keep two resumes of one      *)
(* schedule apart: both may read it paused, and the later upsert then      *)
(* overwrites what was advanced in between.  What follows is of clients    *)
(* that resume a schedule one at a time.                                   *)

NoRivalResume ==
    \A e \in Endpoints, id \in Ids : ResumeJob(e, id) => NoRivalCreate(id)

(* Nothing but an upsert makes a paused schedule active. *)
StaysPaused ==
    \A i \in Ids : Exists(i)' => /\ Exists(i)
                                 /\ schedules[i].paused => schedules'[i].paused

LEMMA UpsertElsewhere ==
    ASSUME TypesInv, NEW id \in Ids, NEW s, Upsert(id, s)
    PROVE  \A i \in Ids \ {id} : schedules'[i] = schedules[i]
  BY DEF TypesInv, Upsert, Store

LEMMA PausedStays ==
    ASSUME TypesInv, [Next]_vars
    PROVE  \/ StaysPaused
           \/ \E e \in Endpoints : UpsertJob(e)
           \/ \E id \in Ids, spec \in Specs, missed \in Policies : Register(id, spec, missed)
  <1>1. UNCHANGED schedules => StaysPaused
    BY DEF StaysPaused, Exists
  <1>2. UNCHANGED vars => UNCHANGED schedules
    BY DEF vars
  <1>3. ASSUME NEW p \in Replicas, Fire(p) \/ FireFails(p) \/ Crash(p)
        PROVE  StaysPaused
    <2>1. CASE Poll(p) \/ EnqueueFiring(p) \/ RejectFiring(p) \/ FireFails(p) \/ Crash(p)
      BY <1>1, <2>1 DEF Poll, EnqueueFiring, RejectFiring, FireFails, Crash
    <2>2. CASE Plan(p)
      <3>1. Current(p).id \in Ids
        BY <2>2, CurrentIn DEF TypesInv, Plan
      <3>2. UNCHANGED schedules \/ SetPaused(Current(p).id, TRUE)
        BY <2>2 DEF Plan
      <3> QED
        BY <1>1, <3>1, <3>2, SetPausedStep DEF StaysPaused, Exists
    <2>3. CASE MoveOn(p)
      <3>1. /\ replica[p].pc = "Enqueueing" /\ ReplicaInv(p)
            /\ Advance(Current(p).id, Current(p).schedule.revision, replica[p].next_fire_at)
        BY <2>3 DEF MoveOn, TypesInv
      <3>2. replica[p].next_fire_at \in Nat \cup {None}
        BY <3>1 DEF ReplicaInv, AtWork, Replica
      <3>3. Current(p).id \in Ids /\ Current(p).schedule.revision \in Nat
        BY <3>1, CurrentIn DEF Schedule
      <3>4. \A i \in Ids : Exists(i) <=> schedules'[i] # None
        BY <3>1, <3>2, <3>3, AdvanceStep
      <3>5. \A i \in Ids : Exists(i) => schedules'[i].paused = schedules[i].paused
        BY <3>1, <3>2, <3>3, AdvanceStep
      <3> QED
        BY <3>4, <3>5 DEF StaysPaused, Exists
    <2> QED
      BY <1>3, <2>1, <2>2, <2>3 DEF Fire
  <1>4. ASSUME NEW id \in Ids, PauseJob(id)
        PROVE  StaysPaused
    BY <1>4, SetPausedStep DEF PauseJob, StaysPaused, Exists
  <1>5. ASSUME NEW id \in Ids, DeleteJob(id)
        PROVE  StaysPaused
    <2>1. schedules' = [schedules EXCEPT ![id] = None] /\ schedules \in [Ids -> Schedule \cup {None}]
      BY <1>5 DEF DeleteJob, Store, TypesInv
    <2>2. schedules'[id] = None /\ \A i \in Ids \ {id} : schedules'[i] = schedules[i]
      BY <2>1
    <2> QED
      BY <2>2 DEF StaysPaused, Exists
  <1>6. ASSUME NEW e \in Endpoints, NEW id \in Ids,
               \/ \E spec \in Specs, missed \in Policies : CreateJob(e, id, spec, missed)
               \/ ResumeJob(e, id)
        PROVE  StaysPaused
    BY <1>1, <1>6 DEF CreateJob, ResumeJob
  <1>7. ASSUME Toggle \/ Tick
        PROVE  StaysPaused
    BY <1>1, <1>7 DEF Toggle, Tick
  <1> QED
    BY <1>1, <1>2, <1>3, <1>4, <1>5, <1>6, <1>7 DEF Next

(* Which request is pending after a step. *)
RequestsKept == \A e \in Endpoints : endpoint'[e] # None => endpoint'[e] = endpoint[e]

RequestMade(e, id) ==
    /\ NoRivalCreate(id)
    /\ endpoint'[e].id = id
    /\ Exists(id) => schedules[id].paused
    /\ UNCHANGED schedules
    /\ \A f \in Endpoints \ {e} : endpoint'[f] = endpoint[f]

LEMMA RequestStep ==
    ASSUME TypesInv, [Next]_vars, [NoRivalResume]_vars
    PROVE  \/ RequestsKept
           \/ \E e \in Endpoints, id \in Ids : RequestMade(e, id)
  <1>1. UNCHANGED endpoint => RequestsKept
    BY DEF RequestsKept
  <1>2. UNCHANGED vars => UNCHANGED endpoint
    BY DEF vars
  <1>3. ASSUME NEW p \in Replicas, Fire(p) \/ FireFails(p) \/ Crash(p)
        PROVE  UNCHANGED endpoint
    BY <1>3 DEF Fire, Poll, Plan, EnqueueFiring, RejectFiring, MoveOn, FireFails, Crash
  <1>4. ASSUME NEW e \in Endpoints, NEW id \in Ids, NEW creates, NEW s,
               Request(e, id, creates, s)
        PROVE  endpoint'[e].id = id /\ \A f \in Endpoints \ {e} : endpoint'[f] = endpoint[f]
    BY <1>4 DEF Request, TypesInv
  <1>5. ASSUME NEW e \in Endpoints, NEW id \in Ids, NEW spec \in Specs, NEW missed \in Policies,
               CreateJob(e, id, spec, missed)
        PROVE  RequestMade(e, id)
    BY <1>4, <1>5 DEF CreateJob, RequestMade
  <1>6. ASSUME NEW e \in Endpoints, NEW id \in Ids, ResumeJob(e, id)
        PROVE  RequestMade(e, id)
    <2>1. endpoint[e] = None /\ endpoint'[e] # None
      <3>1. endpoint[e] = None /\ Exists(id) /\ now \in Nat
        BY <1>6 DEF ResumeJob, Request, TypesInv
      <3> DEFINE n == NextAfter(schedules[id].spec, now)
                 s == [schedules[id] EXCEPT !.paused = FALSE, !.next_fire_at = n]
                 r == [id |-> id, creates |-> FALSE, schedule |-> s]
      <3>2. schedules[id] \in Schedule /\ schedules[id].spec \in Specs
        BY <3>1, ScheduleHere
      <3>3. n \in Nat \cup {None}
        BY <3>1, <3>2, NextAfterType
      <3>4. endpoint' = [endpoint EXCEPT ![e] = r]
        BY <1>6 DEF ResumeJob, Request
      <3> HIDE DEF n
      <3>5. s \in Schedule
        BY <3>2, <3>3 DEF Schedule
      <3> HIDE DEF s
      <3>6. r \in PendingUpsert
        BY <3>5 DEF PendingUpsert
      <3>7. r # None
        BY <3>6, NoneApart
      <3> HIDE DEF r
      <3> QED
        BY <3>1, <3>4, <3>7 DEF TypesInv
    <2>2. NoRivalResume
      BY <2>1 DEF vars
    <2> QED
      BY <1>4, <1>6, <2>2 DEF ResumeJob, RequestMade, NoRivalResume
  <1>7. ASSUME NEW e \in Endpoints, UpsertJob(e)
        PROVE  RequestsKept
    <2>1. endpoint' = [endpoint EXCEPT ![e] = None]
      BY <1>7 DEF UpsertJob
    <2> QED
      BY <2>1 DEF RequestsKept, TypesInv
  <1>8. ASSUME \/ \E id \in Ids, spec \in Specs, missed \in Policies : Register(id, spec, missed)
               \/ \E id \in Ids : PauseJob(id) \/ DeleteJob(id)
               \/ Toggle \/ Tick
        PROVE  UNCHANGED endpoint
    BY <1>8 DEF Register, PauseJob, DeleteJob, Toggle, Tick
  <1> QED
    BY <1>1, <1>2, <1>3, <1>5, <1>6, <1>7, <1>8 DEF Next

LEMMA RivalsNext ==
    ASSUME TypesInv, RivalsInv, [Next]_vars, [NoRivalResume]_vars
    PROVE  RivalsInv'
  <1>1. CASE RequestsKept
    BY <1>1 DEF RivalsInv, RequestsKept
  <1>2. CASE \E e \in Endpoints, id \in Ids : RequestMade(e, id)
    BY <1>2 DEF RivalsInv, RequestMade, NoRivalCreate
  <1> QED
    BY <1>1, <1>2, RequestStep

LEMMA RequestsNext ==
    ASSUME TypesInv, RivalsInv, RequestsInv, [Next]_vars, [NoRivalResume]_vars
    PROVE  RequestsInv'
  <1> SUFFICES ASSUME NEW e \in Endpoints PROVE RequestInv(e)'
    BY DEF RequestsInv
  <1>1. RequestInv(e)
    BY DEF RequestsInv
  <1>2. CASE \E f \in Endpoints, id \in Ids : RequestMade(f, id)
    <2>1. PICK f \in Endpoints, id \in Ids : RequestMade(f, id)
      BY <1>2
    <2> QED
      BY <1>1, <2>1 DEF RequestMade, RequestInv, Exists
  <1>3. CASE RequestsKept /\ endpoint'[e] # None
    <2> DEFINE id == endpoint[e].id
    <2>1. endpoint'[e] = endpoint[e] /\ endpoint[e] # None
      BY <1>3 DEF RequestsKept
    <2>2. id \in Ids
      BY <2>1, PendingHere
    <2>3. CASE StaysPaused
      BY <1>1, <2>1, <2>2, <2>3 DEF StaysPaused, RequestInv, Exists
    <2>4. CASE \E f \in Endpoints : UpsertJob(f)
      <3>1. PICK f \in Endpoints : UpsertJob(f)
        BY <2>4
      <3>2. /\ endpoint[f] # None /\ Upsert(endpoint[f].id, endpoint[f].schedule)
            /\ endpoint' = [endpoint EXCEPT ![f] = None]
        BY <3>1 DEF UpsertJob
      <3>3. e # f
        BY <1>3, <3>2 DEF TypesInv
      <3>4. endpoint[f].id # id
        BY <2>1, <3>2, <3>3 DEF RivalsInv
      <3>5. schedules'[id] = schedules[id]
        BY <2>2, <3>2, <3>4, PendingHere, UpsertElsewhere
      <3> QED
        BY <1>1, <2>1, <3>5 DEF RequestInv, Exists
    <2>5. CASE \E i \in Ids, spec \in Specs, missed \in Policies : Register(i, spec, missed)
      <3>1. PICK i \in Ids, spec \in Specs, missed \in Policies : Register(i, spec, missed)
        BY <2>5
      <3>2. NoRivalCreate(i) /\ \E s : Upsert(i, s)
        BY <3>1 DEF Register
      <3>3. i # id
        BY <2>1, <3>2 DEF NoRivalCreate
      <3>4. schedules'[id] = schedules[id]
        BY <2>2, <3>2, <3>3, UpsertElsewhere
      <3> QED
        BY <1>1, <2>1, <3>4 DEF RequestInv, Exists
    <2> QED
      BY <2>3, <2>4, <2>5, PausedStays
  <1>4. CASE endpoint'[e] = None
    BY <1>4 DEF RequestInv
  <1> QED
    BY <1>2, <1>3, <1>4, RequestStep

LEMMA RequestsAlways == Spec /\ [][NoRivalResume]_vars => [](RivalsInv /\ RequestsInv)
  <1>1. Init => RivalsInv /\ RequestsInv
    BY DEF Init, RivalsInv, RequestsInv, RequestInv
  <1>2. TypesInv /\ RivalsInv /\ RequestsInv /\ [Next]_vars /\ [NoRivalResume]_vars
           => RivalsInv' /\ RequestsInv'
    BY RivalsNext, RequestsNext
  <1> QED
    BY <1>1, <1>2, TypesAlways, PTL DEF Spec

-----------------------------------------------------------------------------
(* The steps that move an active schedule on.                              *)

MovesOn(p, id) ==
    /\ MoveOn(p)
    /\ Current(p).id = id
    /\ schedules[id].revision = Current(p).schedule.revision
    /\ schedules'[id].next_fire_at = replica[p].next_fire_at

LEMMA AdvancesMeans ==
    ASSUME TypesInv, RequestsInv, [Next]_vars, NEW id \in Ids, Advances(id)
    PROVE  \E p \in Replicas : MovesOn(p, id)
  <1>1. /\ Exists(id) /\ schedules'[id] # None /\ ~schedules[id].paused
        /\ schedules'[id].next_fire_at # schedules[id].next_fire_at
    BY DEF Advances
  <1>2. schedules'[id] # schedules[id]
    BY <1>1
  <1>3. ~UNCHANGED schedules /\ ~UNCHANGED vars
    BY <1>2 DEF vars
  <1>4. ASSUME NEW p \in Replicas, Fire(p) \/ FireFails(p) \/ Crash(p)
        PROVE  MovesOn(p, id)
    <2>1. CASE Plan(p)
      <3>1. SetPaused(Current(p).id, TRUE)
        BY <1>3, <2>1 DEF Plan
      <3>2. Current(p).id \in Ids
        BY <2>1, CurrentIn DEF TypesInv, Plan
      <3> QED
        BY <1>1, <3>1, <3>2, SetPausedStep
    <2>2. CASE MoveOn(p)
      <3>1. /\ replica[p].pc = "Enqueueing" /\ ReplicaInv(p)
            /\ Advance(Current(p).id, Current(p).schedule.revision, replica[p].next_fire_at)
        BY <2>2 DEF MoveOn, TypesInv
      <3>2. replica[p].next_fire_at \in Nat \cup {None}
        BY <3>1 DEF ReplicaInv, AtWork, Replica
      <3>3. Current(p).id \in Ids /\ Current(p).schedule.revision \in Nat
        BY <3>1, CurrentIn DEF Schedule
      <3>4. PICK j \in Ids, revision \in Nat, next \in Nat \cup {None} :
               /\ j = Current(p).id /\ revision = Current(p).schedule.revision
               /\ next = replica[p].next_fire_at
        BY <3>2, <3>3
      <3>5. Advance(j, revision, next)
        BY <3>1, <3>4
      <3>6. \A i \in Ids :
               \/ schedules'[i] = schedules[i]
               \/ /\ i = j /\ Exists(j) /\ schedules[j].revision = revision
                  /\ schedules'[j].next_fire_at = next
        BY <3>5, AdvanceStep, ZenonT(30)
      <3> QED
        BY <1>2, <2>2, <3>4, <3>6 DEF MovesOn
    <2> QED
      BY <1>3, <1>4, <2>1, <2>2
      DEF Fire, Poll, EnqueueFiring, RejectFiring, FireFails, Crash
  <1>5. ASSUME NEW e \in Endpoints, UpsertJob(e)
        PROVE  FALSE
    <2>1. endpoint[e] # None /\ Upsert(endpoint[e].id, endpoint[e].schedule)
      BY <1>5 DEF UpsertJob
    <2>2. endpoint[e].id = id
      BY <1>2, <2>1, PendingHere, UpsertElsewhere
    <2> QED
      BY <1>1, <2>1, <2>2 DEF RequestsInv, RequestInv
  <1>6. ASSUME NEW i \in Ids, NEW spec \in Specs, NEW missed \in Policies,
               Register(i, spec, missed)
        PROVE  FALSE
    <2>1. ~Exists(i) /\ \E s : Upsert(i, s)
      BY <1>6 DEF Register
    <2> QED
      BY <1>1, <1>2, <2>1, UpsertElsewhere
  <1>7. ASSUME NEW i \in Ids, PauseJob(i)
        PROVE  FALSE
    BY <1>1, <1>7, SetPausedStep DEF PauseJob
  <1>8. ASSUME NEW i \in Ids, DeleteJob(i)
        PROVE  FALSE
    BY <1>1, <1>2, <1>8 DEF DeleteJob, Store, TypesInv
  <1> QED
    BY <1>3, <1>4, <1>5, <1>6, <1>7, <1>8 DEF Next, CreateJob, ResumeJob, Toggle, Tick

(* A step that moves a schedule on does it by the plan of what is stored.  *)
LEMMA MovesByPlan ==
    ASSUME TypesInv, CopiesInv, PlansInv, NEW p \in Replicas, NEW id \in Ids, MovesOn(p, id)
    PROVE  LET s == schedules[id]
               at == replica[p].at
               plan == PlanFires(s.spec, s.missed, s.next_fire_at, at)
           IN  /\ s.spec \in Specs /\ s.missed \in Policies
               /\ s.spec.kind # "Unparsable"
               /\ s.next_fire_at \in Nat /\ at \in Nat
               /\ s.next_fire_at <= at /\ at <= now
               /\ schedules'[id].next_fire_at = plan.next_fire_at
               /\ \A t \in plan.fire_times : <<id, t>> \in answered
  <1> DEFINE d == Current(p)
             at == replica[p].at
             plan == PlanOf(d, at)
  <1>1. replica[p].pc = "Enqueueing" /\ replica[p].planned = {} /\ d.id = id
          /\ schedules[id].revision = d.schedule.revision
          /\ schedules'[id].next_fire_at = replica[p].next_fire_at
    BY DEF MovesOn, MoveOn
  <1>2. ReplicaInv(p) /\ replica[p].pc # "Idle"
    BY <1>1 DEF TypesInv
  <1>3. /\ d \in replica[p].batch /\ d.schedule \in Schedule
        /\ d.schedule.next_fire_at \in Nat /\ d.schedule.next_fire_at <= at
    BY <1>2, CurrentIn
  <1>4. schedules[id] = d.schedule
    BY <1>1, <1>3 DEF CopiesInv, CopyInv
  <1>5. at \in Nat /\ at <= now
    BY <1>2 DEF ReplicaInv, AtWork, Replica
  <1>6. /\ d.schedule.spec.kind # "Unparsable"
        /\ replica[p].next_fire_at = plan.next_fire_at
        /\ \A t \in plan.fire_times \ replica[p].planned : <<d.id, t>> \in answered
    BY <1>1 DEF PlansInv, PlanInv
  <1>7. d.schedule.spec \in Specs /\ d.schedule.missed \in Policies
    BY <1>3 DEF Schedule
  <1>8. plan = PlanFires(schedules[id].spec, schedules[id].missed,
                         schedules[id].next_fire_at, at)
    BY <1>4 DEF PlanOf
  <1> HIDE DEF d, plan
  <1> QED
    BY <1>1, <1>3, <1>4, <1>5, <1>6, <1>7, <1>8

(* A plan's next fire time is the first occurrence it leaves: what is due  *)
(* later and before it was due when the plan was made.                     *)
LEMMA PassedWasDue ==
    ASSUME NEW spec \in Specs, spec.kind \in SpecKinds, NEW wanted \in Nat \ {0},
           NEW due_at \in Nat, NEW at \in Nat, NEW clock \in Nat,
           due_at <= at, at <= clock
    PROVE  LET end == SpecPlan(spec, wanted, due_at, at).next_fire_at IN
           {t \in Occurrences(spec, due_at, clock) : end = None \/ t < end}
             = Occurrences(spec, due_at, at)
  <1> DEFINE end == SpecPlan(spec, wanted, due_at, at).next_fire_at
             passed == {t \in Occurrences(spec, due_at, clock) : end = None \/ t < end}
  <1>1. end \in Nat \cup {None} /\ (end # None => end > at)
    BY SpecPlanKeepsLatest
  <1>2. CASE spec.kind = "At"
    <2>1. end = None
      BY <1>2 DEF SpecPlan
    <2> QED
      BY <1>2, <2>1 DEF Occurrences
  <1>3. CASE spec.kind = "Every"
    <2> DEFINE step == spec.step
               latest == (at - due_at) \div step
    <2>1. step \in Nat \ {0}
      BY <1>3, SpecHere
    <2>2. end = due_at + (latest + 1) * step
      BY <1>3 DEF SpecPlan, EveryPlan
    <2>3. /\ latest \in Nat /\ due_at + latest * step <= at
      BY <2>1, LatestMultiple
    <2> HIDE DEF latest, end
    <2>4. /\ Occurrences(spec, due_at, clock) = EveryTimes(step, due_at, clock)
          /\ Occurrences(spec, due_at, at) = EveryTimes(step, due_at, at)
      BY <1>3 DEF Occurrences, EveryTimes
    <2> HIDE DEF step
    <2>5. end \in Nat /\ end # None
      <3>1. (latest + 1) * step \in Nat
        BY <2>1, <2>3, MultiplesGrow
      <3>2. end \in Nat
        BY <2>2, <3>1
      <3> QED
        BY <3>2, SchedulerAssumption
    <2>6. ASSUME NEW t \in EveryTimes(step, due_at, at)
          PROVE  t \in EveryTimes(step, due_at, clock) /\ t < end
      BY <1>1, <2>5 DEF EveryTimes
    <2>7. ASSUME NEW t \in EveryTimes(step, due_at, clock), t < end
          PROVE  t \in EveryTimes(step, due_at, at)
      <3>1. due_at <= clock
        OBVIOUS
      <3>2. PICK k \in 0 .. ((clock - due_at) \div step) : t = due_at + k * step
        <4>1. EveryTimes(step, due_at, clock) =
                 {due_at + k * step : k \in 0 .. ((clock - due_at) \div step)}
          BY <2>1, <3>1, EveryTimesAre
        <4> QED
          BY <2>7, <4>1
      <3>3. k \in Nat
        OBVIOUS
      <3>4. k * step \in Nat /\ ~(latest + 1 <= k)
        <4>1. k * step \in Nat /\ (latest + 1 <= k => (latest + 1) * step <= k * step)
          BY <2>1, <2>3, <3>3, MultiplesGrow
        <4>2. (latest + 1) * step \in Nat
          BY <2>1, <2>3, MultiplesGrow
        <4> QED
          BY <2>2, <2>7, <3>2, <4>1, <4>2
      <3>5. k * step <= latest * step /\ latest * step \in Nat
        BY <2>1, <2>3, <3>3, <3>4, MultiplesGrow
      <3>6. t <= at
        BY <2>3, <3>2, <3>4, <3>5
      <3> QED
        BY <2>7, <3>6 DEF EveryTimes
    <2>8. passed \subseteq EveryTimes(step, due_at, at)
      BY <2>4, <2>5, <2>7
    <2>9. EveryTimes(step, due_at, at) \subseteq passed
      BY <2>4, <2>6
    <2> HIDE DEF passed
    <2>10. passed = Occurrences(spec, due_at, at)
      BY <2>4, <2>8, <2>9
    <2> QED
      BY <2>10 DEF passed, end
  <1>4. CASE spec.kind = "Cron"
    <2>1. PICK times \in SUBSET Nat : times = spec.times
      BY SpecHere
    <2>2. end = CronPlan(times, wanted, due_at, at).next_fire_at
      BY <1>4, <2>1 DEF SpecPlan
    <2> HIDE DEF end
    <2>3. FirstAfter(times, at, end)
      BY <2>2, CronKeepsLatest
    <2>4. /\ Occurrences(spec, due_at, clock) = CronTimes(times, due_at, clock)
          /\ Occurrences(spec, due_at, at) = CronTimes(times, due_at, at)
      BY <1>4, <2>1 DEF Occurrences, CronTimes
    <2>5. ASSUME NEW t \in CronTimes(times, due_at, at)
          PROVE  t \in CronTimes(times, due_at, clock) /\ (end = None \/ t < end)
      BY <1>1 DEF CronTimes
    <2>6. ASSUME NEW t \in CronTimes(times, due_at, clock), end = None \/ t < end
          PROVE  t \in CronTimes(times, due_at, at)
      <3>1. CASE t = due_at
        BY <3>1 DEF CronTimes
      <3>2. CASE t # due_at
        <4>1. t \in times /\ t \in Nat /\ t > due_at
          BY <2>6, <3>2 DEF CronTimes
        <4>2. ~(t > at)
          BY <1>1, <2>3, <2>6, <4>1 DEF FirstAfter
        <4> QED
          BY <4>1, <4>2 DEF CronTimes
      <3> QED
        BY <3>1, <3>2
    <2>7. passed \subseteq CronTimes(times, due_at, at)
      BY <2>4, <2>6
    <2>8. CronTimes(times, due_at, at) \subseteq passed
      BY <2>4, <2>5
    <2> HIDE DEF passed
    <2>9. passed = Occurrences(spec, due_at, at)
      BY <2>4, <2>7, <2>8
    <2> QED
      BY <2>9 DEF passed, end
  <1> QED
    BY <1>2, <1>3, <1>4 DEF SpecKinds

(* An advance (advance, at the end of fire) passes over no occurrence the  *)
(* policy keeps: when the next fire time of an active schedule moves on,   *)
(* every such occurrence before it was enqueued, or refused by the         *)
(* schedule's concurrency key, whichever replica did it and however many   *)
(* crashed on the way.                                                     *)
THEOREM NothingPassedOver ==
    ASSUME Deletes = FALSE
    PROVE  Spec /\ [][NoRivalResume]_vars => FiredBeforeAdvance
  <1> DEFINE Fired(id) ==
               Advances(id) /\ schedules[id].missed.kind # "Skip" =>
                 LET s == schedules[id]
                     end == schedules'[id].next_fire_at
                     passed == {t \in Occurrences(s.spec, s.next_fire_at, now) :
                                   end = None \/ t < end}
                 IN  \A t \in LatestOf(passed, s.missed.wanted) : <<id, t>> \in answered
  <1>1. ASSUME TypesInv, CopiesInv, PlansInv, RequestsInv, [Next]_vars, NEW id \in Ids
        PROVE  Fired(id)
    <2> SUFFICES ASSUME Advances(id), schedules[id].missed.kind # "Skip"
                 PROVE  LET s == schedules[id]
                            end == schedules'[id].next_fire_at
                            passed == {t \in Occurrences(s.spec, s.next_fire_at, now) :
                                          end = None \/ t < end}
                        IN  \A t \in LatestOf(passed, s.missed.wanted) : <<id, t>> \in answered
      OBVIOUS
    <2>1. PICK p \in Replicas : MovesOn(p, id)
      BY <1>1, AdvancesMeans
    <2> DEFINE s == schedules[id]
    <2>2. /\ s.spec \in Specs /\ s.missed \in Policies
          /\ s.spec.kind # "Unparsable"
          /\ s.next_fire_at \in Nat /\ replica[p].at \in Nat
          /\ s.next_fire_at <= replica[p].at /\ replica[p].at <= now
          /\ schedules'[id].next_fire_at =
                PlanFires(s.spec, s.missed, s.next_fire_at, replica[p].at).next_fire_at
          /\ \A t \in PlanFires(s.spec, s.missed, s.next_fire_at, replica[p].at).fire_times :
                <<id, t>> \in answered
      BY <1>1, <2>1, MovesByPlan
    <2>3. now \in Nat
      BY <1>1 DEF TypesInv
    <2>4. PICK spec \in Specs, missed \in Policies, due_at \in Nat, at \in Nat, clock \in Nat :
             /\ spec = s.spec /\ missed = s.missed /\ due_at = s.next_fire_at
             /\ at = replica[p].at /\ clock = now
      BY <2>2, <2>3
    <2> DEFINE end == schedules'[id].next_fire_at
    <2> HIDE DEF s
    <2>5. /\ due_at <= at /\ at <= clock /\ spec.kind \in SpecKinds
          /\ missed.wanted \in Nat \ {0} /\ missed.kind # "Skip"
      BY <2>2, <2>4, SpecHere, SchedulerAssumption DEF s
    <2> DEFINE plan == PlanFires(spec, missed, due_at, at)
    <2>6. /\ plan.fire_times = PlannedFires(spec, missed, due_at, at)
          /\ plan.next_fire_at = SpecPlan(spec, missed.wanted, due_at, at).next_fire_at
      BY <2>5, PlanIs
    <2>7. plan.fire_times = LatestOf(Occurrences(spec, due_at, at), missed.wanted)
      BY <2>5, <2>6 DEF PlannedFires
    <2>8. end = plan.next_fire_at /\ \A t \in plan.fire_times : <<id, t>> \in answered
      BY <2>2, <2>4
    <2> HIDE DEF plan, end
    <2>9. end = SpecPlan(spec, missed.wanted, due_at, at).next_fire_at
      BY <2>6, <2>8
    <2>10. {t \in Occurrences(spec, due_at, clock) : end = None \/ t < end}
              = Occurrences(spec, due_at, at)
      BY <2>5, <2>9, PassedWasDue
    <2>11. \A t \in LatestOf({u \in Occurrences(spec, due_at, clock) : end = None \/ u < end},
                             missed.wanted) : <<id, t>> \in answered
      BY <2>7, <2>8, <2>10
    <2> QED
      BY <2>4, <2>11 DEF s, end
  <1>2. TypesInv /\ CopiesInv /\ PlansInv /\ RequestsInv /\ [Next]_vars
           => [\A id \in Ids : Fired(id)]_vars
    BY <1>1
  <1> QED
    BY <1>2, TypesAlways, CopiesAlways, PlansAlways, RequestsAlways, PTL
    DEF Spec, FiredBeforeAdvance

(* The next fire time of an active schedule never moves back: a replica    *)
(* that planned with an older clock does not undo a newer advance.         *)
THEOREM NeverBack ==
    ASSUME Deletes = FALSE
    PROVE  Spec /\ [][NoRivalResume]_vars => NeverMovesBack
  <1> DEFINE Onward(id) ==
               Advances(id) => \/ schedules'[id].next_fire_at = None
                               \/ schedules'[id].next_fire_at > schedules[id].next_fire_at
  <1>1. ASSUME TypesInv, CopiesInv, PlansInv, RequestsInv, [Next]_vars, NEW id \in Ids
        PROVE  Onward(id)
    <2> SUFFICES ASSUME Advances(id)
                 PROVE  \/ schedules'[id].next_fire_at = None
                        \/ schedules'[id].next_fire_at > schedules[id].next_fire_at
      OBVIOUS
    <2>1. PICK p \in Replicas : MovesOn(p, id)
      BY <1>1, AdvancesMeans
    <2> DEFINE s == schedules[id]
    <2>2. /\ s.spec \in Specs /\ s.missed \in Policies
          /\ s.spec.kind # "Unparsable"
          /\ s.next_fire_at \in Nat /\ replica[p].at \in Nat
          /\ s.next_fire_at <= replica[p].at
          /\ schedules'[id].next_fire_at =
                PlanFires(s.spec, s.missed, s.next_fire_at, replica[p].at).next_fire_at
      BY <1>1, <2>1, MovesByPlan
    <2>3. PICK spec \in Specs, missed \in Policies, due_at \in Nat, at \in Nat :
             /\ spec = s.spec /\ missed = s.missed /\ due_at = s.next_fire_at
             /\ at = replica[p].at
      BY <2>2
    <2> HIDE DEF s
    <2>4. due_at <= at /\ spec.kind \in SpecKinds
      BY <2>2, <2>3, SpecHere
    <2> DEFINE next == PlanFires(spec, missed, due_at, at).next_fire_at
    <2>5. next \in Nat \cup {None} /\ (next # None => next > at)
      BY <2>4, PlanIs
    <2>6. schedules'[id].next_fire_at = next
      BY <2>2, <2>3
    <2> HIDE DEF next
    <2>7. next = None \/ next > due_at
      BY <2>4, <2>5
    <2> QED
      BY <2>3, <2>6, <2>7 DEF s
  <1>2. TypesInv /\ CopiesInv /\ PlansInv /\ RequestsInv /\ [Next]_vars
           => [\A id \in Ids : Onward(id)]_vars
    BY <1>1
  <1> QED
    BY <1>2, TypesAlways, CopiesAlways, PlansAlways, RequestsAlways, PTL
    DEF Spec, NeverMovesBack
=============================================================================
