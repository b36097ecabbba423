------------------------------ MODULE Approvals ------------------------------
(***************************************************************************)
(* The approval service (StoreApprovalService, adk-core/src/approval.rs)   *)
(* over an approval store (InMemoryApprovalStore, governance.rs), for one  *)
(* durable run that calls one tool with the same arguments again and       *)
(* again, each time held for approval.                                     *)
(*                                                                         *)
(* A hold is the time since which a call waits; it names the request.      *)
(* Approvers decide and tickers expire, escalate and recover on any number *)
(* of replicas: every change of a request is a compare-and-swap on its     *)
(* version, and the outcome of a resolved one is applied in three further  *)
(* store calls (the decision is written, the run is woken, the request is  *)
(* marked), between which a replica may stop.                              *)
(*                                                                         *)
(* Time is kept as ages.  An edit is an approval of other arguments, a     *)
(* response is a rejection.  Left out: delegations and self-approval,      *)
(* which decide who counts as an authority, and notifications other than   *)
(* of escalations.                                                         *)
(***************************************************************************)
EXTENDS Naturals, FiniteSets

CONSTANTS
    Approvers,      \* authorities that may decide from the start
    Backups,        \* authorities that may decide once the request escalated
    Quorum,         \* approvals needed
    Original,       \* the arguments of the call
    Edits,          \* arguments an approver may put in their place
    Deciders,       \* handlers of approvers' requests
    Tickers,        \* replicas that tick
    EscalateAfter,  \* age at which a request escalates
    Ttl,            \* age at which it expires
    Grace,          \* APPROVAL_REAPPLY_GRACE
    PromptApply,    \* assumption: an outcome is applied within the grace, or never
    MaxHolds,       \* bound: holds of the call
    MaxVersion,     \* bound: versions of a request that approvers still decide
    MaxCrashes      \* bound: replicas that stop

Args == Edits \cup {Original}

Verdicts == Args \cup {"none", "deny"}

ASSUME ApprovalsAssumption ==
    /\ Deciders \cap Tickers = {}
    /\ Args \cap {"none", "deny"} = {}
    /\ PromptApply \in BOOLEAN
    /\ Quorum \in Nat \ {0} /\ MaxHolds \in Nat /\ MaxVersion \in Nat /\ MaxCrashes \in Nat
    /\ EscalateAfter \in Nat /\ Ttl \in Nat /\ Grace \in Nat \ {0}

VARIABLES
    request,    \* hold -> its request
    age,        \* hold -> time since its request was created or resolved, capped
    pending,    \* approval store: the hold that waits for a decision, or 0
    decision,   \* approval store: the decision, an approval being its arguments
    holds,      \* holds so far
    run,        \* what the run is doing
    held,       \* the hold its call was submitted under
    wake,       \* wake_pending of the run
    proc,       \* replica -> what it is doing
    executed,   \* history: arguments the call executed with
    executions, \* history: executions
    notices,    \* history: hold -> notifications that it escalated
    crashes     \* replicas that stopped so far

store == <<request, age, pending, decision, holds>>
runner == <<run, held, wake, executed, executions>>
vars == <<store, runner, proc, notices, crashes>>

Holds == 1 .. MaxHolds

Procs == Deciders \cup Tickers

(* The ages that make a difference to a request. *)
Oldest(h) ==
    CASE request[h].state = "Absent" -> 0
      [] request[h].state = "Pending" -> IF Ttl < EscalateAfter THEN EscalateAfter ELSE Ttl
      [] OTHER -> Grace

(* A request: votes are the approvals that count, with the arguments each  *)
(* approver was shown.                                                     *)
Absent == [state |-> "Absent", version |-> 0, votes |-> {}, args |-> Original,
           fired |-> FALSE, applied |-> FALSE]

Idle == [pc |-> "idle", id |-> 0, at |-> 0, kind |-> "none", who |-> "none", args |-> Original]

Init ==
    /\ request = [h \in Holds |-> Absent]
    /\ age = [h \in Holds |-> 0]
    /\ pending = 0 /\ decision = "none" /\ holds = 0
    /\ run = "free" /\ held = 0 /\ wake = FALSE
    /\ proc = [p \in Procs |-> Idle]
    /\ executed = {} /\ executions = 0
    /\ notices = [h \in Holds |-> 0]
    /\ crashes = 0

-----------------------------------------------------------------------------
(* The run *)

(* The governed path takes a decision that is there, and executes the call *)
(* or refuses it.                                                          *)
Take ==
    /\ run = "free" /\ decision # "none"
    /\ decision' = "none"
    /\ IF decision \in Args
       THEN executed' = executed \cup {decision} /\ executions' = executions + 1
       ELSE UNCHANGED <<executed, executions>>
    /\ UNCHANGED <<request, age, pending, holds, run, held, wake, proc, notices, crashes>>

(* record_pending: a call that already waits keeps its hold. *)
RecordPending ==
    \/ pending # 0 /\ UNCHANGED <<pending, holds>>
    \/ /\ pending = 0 /\ holds < MaxHolds
       /\ holds' = holds + 1
       /\ pending' = holds + 1

(* Without a decision the call is held, ... *)
Hold ==
    /\ run = "free" /\ decision = "none"
    /\ RecordPending
    /\ run' = "submit"
    /\ UNCHANGED <<request, age, decision, held, wake, executed, executions, proc,
                   notices, crashes>>

(* ... and submitted: submit_call records it again and asks under which    *)
(* hold; a decision may have ended the hold meanwhile.                     *)
Submit ==
    /\ run = "submit"
    /\ \/ RecordPending /\ held' = pending' /\ run' = "create"
       \/ pending = 0 /\ run' = "ends" /\ UNCHANGED <<pending, holds, held>>
    /\ UNCHANGED <<request, age, decision, wake, executed, executions, proc, notices,
                   crashes>>

(* create_request: a request that exists is kept. *)
Create ==
    /\ run = "create"
    /\ request' = [request EXCEPT ![held] =
                     IF @.state = "Absent" THEN [Absent EXCEPT !.state = "Pending", !.version = 1]
                     ELSE @]
    /\ run' = "ends"
    /\ UNCHANGED <<age, pending, decision, holds, held, wake, executed, executions, proc,
                   notices, crashes>>

(* The worker parks the run; a wake that came meanwhile lets it go on. *)
Park ==
    /\ run = "ends"
    /\ run' = IF wake THEN "free" ELSE "waits"
    /\ wake' = FALSE
    /\ UNCHANGED <<store, held, executed, executions, proc, notices, crashes>>

-----------------------------------------------------------------------------
(* What a replica changes by compare-and-swap *)

Resolved(h) == request[h].state \notin {"Absent", "Pending"}

Become(p, pc) == proc' = [proc EXCEPT ![p].pc = pc]

(* replace_request succeeds. *)
Swaps(p) == request[proc[p].id].version = proc[p].at

Voters(votes) == {v[1] : v \in votes}

(* Variant: an edit keeps the approvals before it. *)
CountedAll(r, kind, vote) == r.votes \cup {vote}

(* quorum_progress: an edit restarts the count. *)
Counted(r, kind, vote) == IF kind = "edit" THEN {vote} ELSE r.votes \cup {vote}

(* The request with the decision of p. *)
Decided(r, p) ==
    LET votes == Counted(r, proc[p].kind, <<proc[p].who, proc[p].args>>) IN
    CASE proc[p].kind = "reject" -> [r EXCEPT !.state = "Rejected"]
      [] proc[p].kind = "cancel" -> [r EXCEPT !.state = "Cancelled"]
      [] OTHER ->
           [r EXCEPT !.votes = votes,
                     !.args = IF proc[p].kind = "edit" THEN proc[p].args ELSE @,
                     !.state = IF Cardinality(Voters(votes)) >= Quorum
                               THEN "Approved" ELSE "Pending"]

Eligible(r) == IF r.fired THEN Approvers \cup Backups ELSE Approvers

(* decide or cancel reads the request, at the version its caller has seen, *)
(* and finds that the decision is allowed.                                 *)
Look(p, h) ==
    LET r == request[h] IN
    /\ proc[p].pc = "idle"
    /\ r.state = "Pending" /\ r.version < MaxVersion
    /\ \/ \E who \in Eligible(r) :
             /\ age[h] < Ttl
             /\ \E kind \in {"approve", "edit", "reject"}, args \in Args :
                   /\ kind = "approve" => who \notin Voters(r.votes)
                   /\ IF kind = "edit" THEN args \in Edits ELSE args = r.args
                   /\ proc' = [proc EXCEPT ![p] = [pc |-> "decide", id |-> h, at |-> r.version,
                                                   kind |-> kind, who |-> who, args |-> args]]
       \/ proc' = [proc EXCEPT ![p] = [Idle EXCEPT !.pc = "decide", !.id = h, !.at = r.version,
                                                   !.kind = "cancel"]]
    /\ UNCHANGED <<store, runner, notices, crashes>>

(* The decision is recorded; one that resolves the request is applied. *)
Decide(p) ==
    LET h == proc[p].id
        next == [Decided(request[h], p) EXCEPT !.version = proc[p].at + 1] IN
    /\ proc[p].pc = "decide"
    /\ Swaps(p)
    /\ request' = [request EXCEPT ![h] = next]
    /\ age' = [age EXCEPT ![h] = IF next.state = "Pending" THEN @ ELSE 0]
    /\ proc' = [proc EXCEPT ![p] = IF next.state = "Pending" THEN Idle
                                   ELSE [Idle EXCEPT !.pc = "write", !.id = h, !.at = next.version]]
    /\ UNCHANGED <<pending, decision, holds, runner, notices, crashes>>

(* Variant: the grace is not waited for. *)
SettledAtOnce(h) == TRUE

Settled(h) == age[h] >= Grace

(* tick lists a request that is open, and finds what is to be done. *)
List(p, h) ==
    LET r == request[h]
        todo(pc) == proc' = [proc EXCEPT ![p] = [Idle EXCEPT !.pc = pc, !.id = h,
                                                             !.at = r.version]] IN
    /\ proc[p].pc = "idle"
    /\ \/ Resolved(h) /\ ~r.applied /\ Settled(h) /\ todo("check")
       \/ r.state = "Pending" /\ age[h] >= Ttl /\ todo("expire")
       \/ /\ r.state = "Pending" /\ age[h] < Ttl
          /\ age[h] >= EscalateAfter /\ ~r.fired
          /\ todo("escalate")
    /\ UNCHANGED <<store, runner, notices, crashes>>

(* Variant: whatever happened to the request since it was listed. *)
ExpireBlind(p) ==
    LET h == proc[p].id IN
    /\ proc[p].pc = "expire"
    /\ request' = [request EXCEPT ![h].state = "Expired", ![h].version = @ + 1]
    /\ age' = [age EXCEPT ![h] = 0]
    /\ proc' = [proc EXCEPT ![p] = [Idle EXCEPT !.pc = "write", !.id = h,
                                                !.at = request[h].version + 1]]
    /\ UNCHANGED <<pending, decision, holds, runner, notices, crashes>>

Expire(p) ==
    LET h == proc[p].id IN
    /\ proc[p].pc = "expire"
    /\ Swaps(p)
    /\ request' = [request EXCEPT ![h].state = "Expired", ![h].version = @ + 1]
    /\ age' = [age EXCEPT ![h] = 0]
    /\ proc' = [proc EXCEPT ![p] = [Idle EXCEPT !.pc = "write", !.id = h,
                                                !.at = proc[p].at + 1]]
    /\ UNCHANGED <<pending, decision, holds, runner, notices, crashes>>

(* Variant: whoever listed the request notifies. *)
EscalateBlind(p) ==
    LET h == proc[p].id IN
    /\ proc[p].pc = "escalate"
    /\ request' = [request EXCEPT ![h].fired = TRUE, ![h].version = @ + 1]
    /\ Become(p, "notify")
    /\ UNCHANGED <<age, pending, decision, holds, runner, notices, crashes>>

Escalate(p) ==
    LET h == proc[p].id IN
    /\ proc[p].pc = "escalate"
    /\ Swaps(p)
    /\ request' = [request EXCEPT ![h].fired = TRUE, ![h].version = @ + 1]
    /\ Become(p, "notify")
    /\ UNCHANGED <<age, pending, decision, holds, runner, notices, crashes>>

Notify(p) ==
    /\ proc[p].pc = "notify"
    /\ notices' = [notices EXCEPT ![proc[p].id] = @ + 1]
    /\ proc' = [proc EXCEPT ![p] = Idle]
    /\ UNCHANGED <<store, runner, crashes>>

(* Another change came first: a version conflict, or another replica's. *)
Lose(p) ==
    /\ proc[p].pc \in {"decide", "expire", "escalate"}
    /\ ~Swaps(p)
    /\ proc' = [proc EXCEPT ![p] = Idle]
    /\ UNCHANGED <<store, runner, notices, crashes>>

-----------------------------------------------------------------------------
(* apply *)

(* Variant: an outcome that was written needs nothing more. *)
CheckWritten(p) ==
    /\ proc[p].pc = "check"
    /\ Become(p, IF pending # 0 THEN "write" ELSE "mark")
    /\ UNCHANGED <<store, runner, notices, crashes>>

(* A recovering apply writes only while the call is pending in the store. *)
Check(p) ==
    /\ proc[p].pc = "check"
    /\ Become(p, IF pending # 0 THEN "write" ELSE "wake")
    /\ UNCHANGED <<store, runner, notices, crashes>>

Outcome(r) == IF r.state = "Approved" THEN r.args ELSE "deny"

(* ApprovalStore::decide *)
Write(p) ==
    /\ proc[p].pc = "write"
    /\ decision' = Outcome(request[proc[p].id])
    /\ pending' = 0
    /\ Become(p, "wake")
    /\ UNCHANGED <<request, age, holds, runner, notices, crashes>>

(* DurableRunStore::wake *)
Wake(p) ==
    /\ proc[p].pc = "wake"
    /\ run' = IF run = "waits" THEN "free" ELSE run
    /\ wake' = (wake \/ run # "waits")
    /\ Become(p, "mark")
    /\ UNCHANGED <<store, held, executed, executions, notices, crashes>>

(* outcome_applied, unless another replica changed the request. *)
Mark(p) ==
    LET h == proc[p].id IN
    /\ proc[p].pc = "mark"
    /\ request' = IF Swaps(p)
                  THEN [request EXCEPT ![h].applied = TRUE, ![h].version = @ + 1]
                  ELSE request
    /\ proc' = [proc EXCEPT ![p] = Idle]
    /\ UNCHANGED <<age, pending, decision, holds, runner, notices, crashes>>

Crash(p) ==
    /\ proc[p].pc # "idle"
    /\ crashes < MaxCrashes
    /\ crashes' = crashes + 1
    /\ proc' = [proc EXCEPT ![p] = Idle]
    /\ UNCHANGED <<store, runner, notices>>

-----------------------------------------------------------------------------
Applying(p) == proc[p].pc \in {"write", "wake", "mark"}

(* Time passes; promptly applied outcomes are applied before the grace is  *)
(* over.                                                                   *)
Pass ==
    /\ PromptApply => \A p \in Procs :
          Applying(p) => age[proc[p].id] >= Grace \/ age[proc[p].id] + 1 < Grace
    /\ age' = [h \in Holds |-> IF age[h] < Oldest(h) THEN age[h] + 1 ELSE age[h]]
    /\ UNCHANGED <<request, pending, decision, holds, runner, proc, notices, crashes>>

Step(p) ==
    \/ Decide(p) \/ Expire(p) \/ Escalate(p) \/ Notify(p) \/ Lose(p)
    \/ Check(p) \/ Write(p) \/ Wake(p) \/ Mark(p)

Next ==
    \/ Take \/ Hold \/ Submit \/ Create \/ Park
    \/ \E p \in Deciders, h \in Holds : Look(p, h)
    \/ \E p \in Tickers, h \in Holds : List(p, h)
    \/ \E p \in Procs : Step(p) \/ Crash(p)
    \/ Pass

(* Time passes, tickers keep ticking, and a call of the service that is    *)
(* not stopped ends.  Nothing is asked of approvers.                       *)
Fairness ==
    /\ WF_vars(Pass)
    /\ \A p \in Procs : WF_vars(Step(p))
    /\ \A p \in Tickers : WF_vars(\E h \in Holds : List(p, h))
    /\ WF_vars(Submit \/ Create \/ Park)

Spec == Init /\ [][Next]_vars /\ Fairness

-----------------------------------------------------------------------------
(* Properties *)

RequestType ==
    [state : {"Absent", "Pending", "Approved", "Rejected", "Cancelled", "Expired"},
     version : Nat, votes : SUBSET ((Approvers \cup Backups) \X Args), args : Args,
     fired : BOOLEAN, applied : BOOLEAN]

ProcType ==
    [pc : {"idle", "decide", "expire", "escalate", "notify", "check", "write", "wake", "mark"},
     id : 0 .. MaxHolds, at : Nat, kind : {"none", "approve", "edit", "reject", "cancel"},
     who : Approvers \cup Backups \cup {"none"}, args : Args]

(* The types of the variables. *)
TypeOK ==
    /\ request \in [Holds -> RequestType]
    /\ age \in [Holds -> Nat]
    /\ pending \in 0 .. MaxHolds
    /\ decision \in Verdicts
    /\ holds \in 0 .. MaxHolds
    /\ run \in {"free", "submit", "create", "ends", "waits"}
    /\ held \in 0 .. MaxHolds
    /\ wake \in BOOLEAN
    /\ proc \in [Procs -> ProcType]
    /\ executed \subseteq Args
    /\ executions \in Nat
    /\ notices \in [Holds -> Nat]
    /\ crashes \in Nat

(* Arguments that a quorum of distinct authorities approved, each of them  *)
(* having been shown these arguments.                                      *)
Approved(h, args) ==
    /\ request[h].state = "Approved"
    /\ Cardinality(Voters(request[h].votes)) >= Quorum
    /\ \A v \in request[h].votes : v[2] = args

(* A call executes only with arguments a quorum approved, over edits       *)
(* that race approvals, expiries that race both, crashes and recoveries    *)
(* (quorum_progress, decide).                                              *)
ExecutedAsApproved == \A args \in executed : \E h \in Holds : Approved(h, args)

(* "Taking it consumes it, so one approval authorizes one execution"       *)
(* (tool-authorization.md), also of a call that is held again and again,   *)
(* while tickers recover: the call executes no more often than it was      *)
(* approved, as long as no replica stops.  After a crash it may: the       *)
(* recovering apply looks for any hold of the call, and a later hold takes *)
(* the old decision.                                                       *)
ApprovedOnce ==
    crashes = 0 => executions <= Cardinality({h \in Holds : request[h].state = "Approved"})

(* "each expiry and each escalation step is a compare-and-swap, so it      *)
(* happens once", on any number of replicas (tick).                        *)
EscalatedOnce == \A h \in Holds : notices[h] <= 1

(* A resolved request stays as it was resolved: of a decision, a           *)
(* cancellation and an expiry that race, one wins (decide, cancel, tick).  *)
ResolvedStays ==
    [][\A h \in Holds : Resolved(h) =>
          /\ request'[h].state = request[h].state
          /\ request'[h].votes = request[h].votes
          /\ request'[h].args = request[h].args]_vars

(* A run that waits for an approval goes on: the decision, or the expiry   *)
(* if nobody decides, reaches it although any replica may stop between     *)
(* resolving the request and waking the run (apply, tick).                 *)
HeldRunGoesOn == run = "waits" ~> run = "free"
=============================================================================
