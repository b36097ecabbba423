---------------------------- MODULE GovernedCall ----------------------------
(***************************************************************************)
(* The tool calls of one durable agent run: the governed path of the agent *)
(* (authorize_tool_call in adk-core/src/governance.rs), the action ledger  *)
(* (adk-agent/src/tool_ledger.rs over adk-core/src/action_ledger.rs), the  *)
(* holds and their resumption (adk-agent/src/llm_agent.rs), the recovery   *)
(* of calls a stopped process left (Runner::recover_unanswered_calls), and *)
(* the attempts of the worker that run all of it.                          *)
(*                                                                         *)
(* An attempt is a claim of the run.  Its process may stop at any point    *)
(* (Crash), or stall until its lease expires and go on beside the next     *)
(* attempt (Takeover): it then stops at the next fence it passes, or when  *)
(* its heartbeat is refused (Drop).  Every call is one the ledger is for,  *)
(* a call of a non-idempotent tool.  The approver decides by fingerprint,  *)
(* over what waits in the approval store or is held in the session.        *)
(*                                                                         *)
(* A batch of calls is run one by one, in any order.  Left out: calls of   *)
(* sub-agents, rewritten and edited arguments, and the sources of          *)
(* decisions that are not the approval store.                              *)
(***************************************************************************)
EXTENDS Naturals, FiniteSets

CONSTANTS
    None,           \* no call
    Calls,          \* the calls the model may make, each with its own id
    Prints,         \* fingerprints: the tool and the arguments of a call
    Fp,             \* the fingerprint of each call
    Guarded,        \* fingerprints whose calls need a confirmation
    MaxAttempts,    \* bound: claims of the run
    MaxFaults,      \* bound: crashes, stalls, errors of stores, freezes
    MaxDecisions    \* bound: decisions of the approver

ASSUME GovernedCallAssumption ==
    /\ None \notin Calls
    /\ Fp \in [Calls -> Prints]
    /\ Guarded \subseteq Prints
    /\ MaxAttempts \in Nat /\ MaxFaults \in Nat /\ MaxDecisions \in Nat

ASSUME FiniteCalls == IsFiniteSet(Calls)

VARIABLES
    run,        \* state of the run
    epoch,      \* its last claim: the attempt that owns it while it runs
    wake,       \* wake_pending
    checkpoint, \* the invocation its checkpoint names, 0 at first
    att,        \* attempt -> what it is doing
    issuer,     \* call -> the invocation whose model turn made it, or 0
    said,       \* call -> the kinds of its responses in the session
    holds,      \* held calls: what scan_held_calls finds in the session
    surfaced,   \* call -> invocations that surfaced it for confirmation
    final,      \* the invocation whose final answer is the last event, or 0
    ledger,     \* call -> key -> its record
    pending,    \* approval store: fingerprints waiting for a decision
    decision,   \* approval store: fingerprint -> its decision
    ran,        \* history: call -> executions
    outcome,    \* history: call -> what its last execution did
    replies,    \* history: call -> responses saved, pending ones apart
    grants,     \* history: fingerprint -> approvals given
    decisions,  \* decisions made so far
    faults,     \* faults so far
    stalls      \* those that left an attempt running beside the next

session == <<issuer, said, holds, surfaced, final, replies>>
approvals == <<pending, decision, grants, decisions>>
execution == <<ledger, ran, outcome>>
claims == <<run, epoch, wake, checkpoint>>
vars == <<claims, att, session, approvals, execution, faults, stalls>>

Attempts == 1 .. MaxAttempts

Held == 0       \* the ledger key of a resumed call; others have the attempt's

(* An attempt: the calls of its batch to come, the current one, whether    *)
(* the batch resumes held calls, the kind of answer or end it has found,   *)
(* the answers not saved yet, and the calls it holds.                      *)
Off == [pc |-> "off", todo |-> {}, call |-> None, resuming |-> FALSE, kind |-> "none",
        out |-> {}, held |-> {}]

Init ==
    /\ run = "Queued" /\ epoch = 0 /\ wake = FALSE /\ checkpoint = 0
    /\ att = [a \in Attempts |-> Off]
    /\ issuer = [c \in Calls |-> 0]
    /\ said = [c \in Calls |-> {}]
    /\ holds = {}
    /\ surfaced = [c \in Calls |-> {}]
    /\ final = 0
    /\ ledger = [c \in Calls |-> [k \in 0 .. MaxAttempts |-> "none"]]
    /\ pending = {}
    /\ decision = [p \in Prints |-> "none"]
    /\ ran = [c \in Calls |-> 0]
    /\ outcome = [c \in Calls |-> "none"]
    /\ replies = [c \in Calls |-> 0]
    /\ grants = [p \in Prints |-> 0]
    /\ decisions = 0 /\ faults = 0 /\ stalls = 0

-----------------------------------------------------------------------------
(* The attempts of the run *)

Owns(a) == run = "Running" /\ epoch = a

At(a, pc) == att[a].pc = pc

Go(a, pc) == att' = [att EXCEPT ![a].pc = pc]

Faulty == faults < MaxFaults /\ faults' = faults + 1

Quiet == UNCHANGED <<faults, stalls>>

(* The worker claims a run that is due, or whose owner stopped. *)
Claim ==
    /\ epoch < MaxAttempts
    /\ run = "Queued" \/ (run = "Running" /\ At(epoch, "off"))
    /\ run' = "Running"
    /\ epoch' = epoch + 1
    /\ att' = [att EXCEPT ![epoch + 1] = [Off EXCEPT !.pc = "prepare"]]
    /\ UNCHANGED <<wake, checkpoint, session, approvals, execution>>
    /\ Quiet

(* The lease of an owner that stalls expires; it goes on beside the next. *)
Takeover ==
    /\ epoch < MaxAttempts
    /\ run = "Running" /\ ~At(epoch, "off")
    /\ Faulty
    /\ stalls' = stalls + 1
    /\ epoch' = epoch + 1
    /\ att' = [att EXCEPT ![epoch + 1] = [Off EXCEPT !.pc = "prepare"]]
    /\ UNCHANGED <<run, wake, checkpoint, session, approvals, execution>>

Crash(a) ==
    /\ ~At(a, "off")
    /\ Faulty
    /\ att' = [att EXCEPT ![a] = Off]
    /\ UNCHANGED <<claims, session, approvals, execution, stalls>>

(* The fence never returns, or the heartbeat is refused: the work of an    *)
(* attempt that lost the run is dropped.                                   *)
Drop(a) ==
    /\ ~At(a, "off") /\ ~Owns(a)
    /\ att' = [att EXCEPT ![a] = Off]
    /\ UNCHANGED <<claims, session, approvals, execution>>
    /\ Quiet

(* Variant: only calls the ledger knows. *)
InFlightBegun ==
    {c \in Calls : issuer[c] # 0 /\ said[c] = {} /\ ledger[c][issuer[c]] # "none"}

(* InFlightCalls: calls in the session that no response answers, not even  *)
(* a pending one.                                                          *)
InFlight == {c \in Calls : issuer[c] # 0 /\ said[c] = {}}

(* recovered_call_response *)
Recovered(c) ==
    LET record == ledger[c][issuer[c]] IN
    IF record \in {"done", "error"} THEN record ELSE "unknown"

(* run_agent: the run is completed from its answer; or its unanswered      *)
(* calls are looked up; or it starts.                                      *)
Prepare(a) ==
    /\ At(a, "prepare")
    /\ \/ /\ checkpoint # 0 /\ final = checkpoint
          /\ Go(a, "done")
       \/ /\ checkpoint # 0 /\ final # checkpoint /\ InFlight # {}
          /\ att' = [att EXCEPT ![a].pc = "recover",
                                ![a].out = {<<c, Recovered(c)>> : c \in InFlight}]
       \/ /\ checkpoint = 0 \/ (final # checkpoint /\ InFlight = {})
          /\ Go(a, "start")
    /\ UNCHANGED <<claims, session, approvals, execution>>
    /\ Quiet

SameCall(c) == {d \in Calls : Fp[d] = Fp[c]}

(* recover_unanswered_calls appends its answers. *)
Recover(a) ==
    /\ At(a, "recover")
    /\ LET answered == {m[1] : m \in att[a].out} IN
       /\ said' = [c \in Calls |-> said[c] \cup {m[2] : m \in {n \in att[a].out : n[1] = c}}]
       /\ replies' = [c \in Calls |-> IF c \in answered THEN replies[c] + 1 ELSE replies[c]]
       /\ holds' = holds \ UNION {SameCall(c) : c \in answered}
    /\ final' = 0
    /\ att' = [att EXCEPT ![a].pc = "start", ![a].out = {}]
    /\ UNCHANGED <<claims, issuer, surfaced, approvals, execution>>
    /\ Quiet

(* The checkpoint of the new invocation, and its user turn. *)
Start(a) ==
    /\ At(a, "start") /\ Owns(a)
    /\ checkpoint' = a
    /\ final' = 0
    /\ Go(a, "resume")
    /\ UNCHANGED <<run, epoch, wake, issuer, said, holds, surfaced, replies,
                   approvals, execution>>
    /\ Quiet

-----------------------------------------------------------------------------
(* The agent: resumed calls, then model turns and their calls *)

(* The held calls that have a decision make the first batch. *)
Resume(a) ==
    LET decided == {c \in holds : decision[Fp[c]] # "none"} IN
    /\ At(a, "resume")
    /\ att' = [att EXCEPT ![a].pc = IF decided = {} THEN "model" ELSE "next",
                          ![a].todo = decided,
                          ![a].resuming = TRUE]
    /\ UNCHANGED <<claims, session, approvals, execution>>
    /\ Quiet

(* A model turn: calls, or the final answer. *)
Model(a) ==
    /\ At(a, "model") /\ Owns(a)
    /\ \/ /\ \E S \in SUBSET {c \in Calls : issuer[c] = 0} :
                /\ S # {}
                /\ issuer' = [c \in Calls |-> IF c \in S THEN a ELSE issuer[c]]
                /\ att' = [att EXCEPT ![a].pc = "next", ![a].todo = S,
                                      ![a].resuming = FALSE]
          /\ final' = 0
       \/ /\ final' = a
          /\ Go(a, "ended")
          /\ UNCHANGED issuer
    /\ UNCHANGED <<claims, said, holds, surfaced, replies, approvals, execution>>
    /\ Quiet

(* before_tool passes the fence. *)
NextCall(a) ==
    /\ At(a, "next") /\ Owns(a)
    /\ \E c \in att[a].todo :
          att' = [att EXCEPT ![a].pc = IF Fp[c] \in Guarded THEN "authorize" ELSE "look",
                             ![a].call = c,
                             ![a].todo = @ \ {c}]
    /\ UNCHANGED <<claims, session, approvals, execution>>
    /\ Quiet

(* The current call has its answer, which is sent to be saved. *)
Answer(a, kind) ==
    att' = [att EXCEPT ![a].pc = "next", ![a].call = None,
                       ![a].out = @ \cup {<<att[a].call, kind>>}]

(* Variant: the decision stays in the store. *)
TakeKept(a) ==
    /\ At(a, "authorize")
    /\ \/ decision[Fp[att[a].call]] = "approve" /\ Go(a, "look")
       \/ decision[Fp[att[a].call]] = "deny" /\ Answer(a, "denied")
       \/ decision[Fp[att[a].call]] = "none" /\ Go(a, "hold")
    /\ UNCHANGED <<claims, session, approvals, execution>>
    /\ Quiet

(* resolve_confirmation: take_approval consumes the decision. *)
Take(a) ==
    LET p == Fp[att[a].call] IN
    /\ At(a, "authorize")
    /\ \/ decision[p] = "approve" /\ Go(a, "look")
       \/ decision[p] = "deny" /\ Answer(a, "denied")
       \/ decision[p] = "none" /\ Go(a, "hold")
    /\ decision' = [decision EXCEPT ![p] = "none"]
    /\ UNCHANGED <<claims, session, pending, grants, decisions, execution>>
    /\ Quiet

(* record_held_call *)
Hold(a) ==
    /\ At(a, "hold")
    /\ pending' = pending \cup {Fp[att[a].call]}
    /\ att' = [att EXCEPT ![a].pc = "next", ![a].call = None,
                          ![a].out = @ \cup {<<att[a].call, "pending">>},
                          ![a].held = @ \cup {att[a].call}]
    /\ UNCHANGED <<claims, session, decision, grants, decisions, execution>>
    /\ Quiet

-----------------------------------------------------------------------------
(* The ledgered execution *)

(* Variant: a resumed call is ledgered under the attempt that resumes it. *)
KeyOfAttempt(a) == a

(* A resumed call keeps the key of its hold over every attempt. *)
Key(a) == IF att[a].resuming THEN Held ELSE a

Record(a) == ledger[att[a].call][Key(a)]

SetRecord(a, r) == ledger' = [ledger EXCEPT ![att[a].call][Key(a)] = r]

(* begin_ledgered_call reads the record, which answers the call if there   *)
(* is one.                                                                 *)
Look(a) ==
    /\ At(a, "look")
    /\ \/ Record(a) = "none" /\ Go(a, "begin")
       \/ Record(a) = "begun" /\ Answer(a, "unknown")
       \/ Record(a) \in {"done", "error"} /\ Answer(a, Record(a))
    /\ UNCHANGED <<claims, session, approvals, execution>>
    /\ Quiet

LookFails(a) ==
    /\ At(a, "look")
    /\ Faulty
    /\ Answer(a, "notrun")
    /\ UNCHANGED <<claims, session, approvals, execution, stalls>>

(* ActionLedger::begin, refused when another attempt has begun the call. *)
Begin(a) ==
    /\ At(a, "begin")
    /\ \/ Record(a) = "none" /\ SetRecord(a, "begun") /\ Go(a, "run")
       \/ Record(a) # "none" /\ Answer(a, "notrun") /\ UNCHANGED ledger
    /\ UNCHANGED <<claims, session, approvals, ran, outcome>>
    /\ Quiet

(* begin fails, and may have written the record. *)
BeginFails(a) ==
    /\ At(a, "begin")
    /\ Faulty
    /\ Answer(a, "notrun")
    /\ UNCHANGED ledger \/ (Record(a) = "none" /\ SetRecord(a, "begun"))
    /\ UNCHANGED <<claims, session, approvals, ran, outcome, stalls>>

(* The tool runs to its end, and says what it did. *)
Execute(a) ==
    /\ At(a, "run")
    /\ ran' = [ran EXCEPT ![att[a].call] = @ + 1]
    /\ \E o \in {"done", "error"} :
          /\ outcome' = [outcome EXCEPT ![att[a].call] = o]
          /\ att' = [att EXCEPT ![a].pc = "complete", ![a].kind = o]
    /\ UNCHANGED <<claims, session, approvals, ledger>>
    /\ Quiet

(* Variant: a timeout is a failure. *)
InterruptedFails(a) ==
    /\ At(a, "run")
    /\ ran' = [ran EXCEPT ![att[a].call] = @ + 1]
    /\ \E o \in {"none", "done"} : outcome' = [outcome EXCEPT ![att[a].call] = o]
    /\ att' = [att EXCEPT ![a].pc = "complete", ![a].kind = "error"]
    /\ UNCHANGED <<claims, session, approvals, ledger>>
    /\ Quiet

(* It times out or panics: the effect may have happened, and the record    *)
(* stays begun.                                                            *)
Interrupted(a) ==
    /\ At(a, "run")
    /\ ran' = [ran EXCEPT ![att[a].call] = @ + 1]
    /\ \E o \in {"none", "done"} : outcome' = [outcome EXCEPT ![att[a].call] = o]
    /\ att' = [att EXCEPT ![a].pc = "after", ![a].kind = "unknown"]
    /\ UNCHANGED <<claims, session, approvals, ledger>>
    /\ Quiet

Complete(a) ==
    /\ At(a, "complete")
    /\ SetRecord(a, IF Record(a) = "begun" THEN att[a].kind ELSE Record(a))
    /\ Go(a, "after")
    /\ UNCHANGED <<claims, session, approvals, ran, outcome>>
    /\ Quiet

(* complete fails before it writes; the error is logged. *)
CompleteFails(a) ==
    /\ At(a, "complete")
    /\ Faulty
    /\ Go(a, "after")
    /\ UNCHANGED <<claims, session, approvals, execution, stalls>>

(* after_tool passes the fence with the result. *)
AfterTool(a) ==
    /\ At(a, "after") /\ Owns(a)
    /\ Answer(a, att[a].kind)
    /\ UNCHANGED <<claims, session, approvals, execution>>
    /\ Quiet

-----------------------------------------------------------------------------
(* Saving answers and holds, and the end of the attempt *)

(* Variant: a response ends no hold. *)
AnsweredCallsNone(c) == {}

(* The holds that a response to c ends: the same call id, and the same     *)
(* tool and arguments.                                                     *)
AnsweredCalls(c) == SameCall(c)

(* The runner saves a result, also while the next call runs. *)
Save(a) ==
    /\ att[a].pc \notin {"off", "recover"}
    /\ \E m \in att[a].out :
          /\ said' = [said EXCEPT ![m[1]] = @ \cup {m[2]}]
          /\ IF m[2] = "pending"
             THEN UNCHANGED <<holds, replies>>
             ELSE /\ holds' = holds \ AnsweredCalls(m[1])
                  /\ replies' = [replies EXCEPT ![m[1]] = @ + 1]
          /\ att' = [att EXCEPT ![a].out = @ \ {m}]
    /\ final' = 0
    /\ UNCHANGED <<claims, issuer, surfaced, approvals, execution>>
    /\ Quiet

(* The batch is over: its held calls are surfaced, or the model goes on. *)
EndBatch(a) ==
    /\ At(a, "next")
    /\ att[a].todo = {} /\ att[a].out = {}
    /\ Go(a, IF att[a].held = {} THEN "model" ELSE "surface")
    /\ UNCHANGED <<claims, session, approvals, execution>>
    /\ Quiet

(* The confirmation event of a held call replaces an earlier hold of the   *)
(* same call; after the last one the stream ends.                          *)
Surface(a) ==
    /\ At(a, "surface")
    /\ \E c \in att[a].held :
          /\ holds' = (holds \ SameCall(c)) \cup {c}
          /\ surfaced' = [surfaced EXCEPT ![c] = @ \cup {a}]
          /\ att' = [att EXCEPT ![a].held = @ \ {c},
                                ![a].pc = IF att[a].held = {c} THEN "ended" ELSE @]
    /\ final' = 0
    /\ UNCHANGED <<claims, issuer, said, replies, approvals, execution>>
    /\ Quiet

(* held_by_invocation *)
HeldBy(a) == {c \in holds : a \in surfaced[c]}

(* The attempt ends: the run completes, or parks on the calls it holds; a  *)
(* decision made meanwhile makes it due at once.                           *)
Settle(a) ==
    /\ At(a, "ended") /\ Owns(a)
    /\ run' = IF HeldBy(a) = {} THEN "Completed" ELSE IF wake THEN "Queued" ELSE "Waiting"
    /\ wake' = FALSE
    /\ att' = [att EXCEPT ![a] = Off]
    /\ UNCHANGED <<epoch, checkpoint, session, approvals, execution>>
    /\ Quiet

(* The answer found in the session completes the run. *)
Done(a) ==
    /\ At(a, "done") /\ Owns(a)
    /\ run' = "Completed"
    /\ wake' = FALSE
    /\ att' = [att EXCEPT ![a] = Off]
    /\ UNCHANGED <<epoch, checkpoint, session, approvals, execution>>
    /\ Quiet

(* A freeze, or an error of the session or the approval store, ends the    *)
(* stream; a failed take may have consumed the decision.  A refused run    *)
(* that did nothing is handed back, and a failed one may be retried.       *)
Breaks(a) ==
    /\ att[a].pc \in {"prepare", "start", "authorize", "hold", "look", "model"}
    /\ Faulty
    /\ decision' \in
          {decision} \cup (IF At(a, "authorize")
                          THEN {[decision EXCEPT ![Fp[att[a].call]] = "none"]} ELSE {})
    /\ \E kind \in {"Queued", "Failed"} :
          att' = [att EXCEPT ![a].pc = "failing", ![a].kind = kind]
    /\ UNCHANGED <<claims, session, pending, grants, decisions, execution, stalls>>

Failing(a) ==
    /\ At(a, "failing") /\ Owns(a)
    /\ att[a].out = {}
    /\ run' = att[a].kind
    /\ wake' = FALSE
    /\ att' = [att EXCEPT ![a] = Off]
    /\ UNCHANGED <<epoch, checkpoint, session, approvals, execution>>
    /\ Quiet

-----------------------------------------------------------------------------
(* The approver *)

(* A decision clears the pending entry, and wakes the run. *)
Decide(p, d) ==
    /\ decisions < MaxDecisions
    /\ decisions' = decisions + 1
    /\ p \in pending \/ \E c \in holds : Fp[c] = p
    /\ decision' = [decision EXCEPT ![p] = d]
    /\ pending' = pending \ {p}
    /\ grants' = [grants EXCEPT ![p] = IF d = "approve" THEN @ + 1 ELSE @]
    /\ run' = IF run = "Waiting" THEN "Queued" ELSE run
    /\ wake' = (wake \/ run = "Running")
    /\ UNCHANGED <<epoch, checkpoint, att, session, execution>>
    /\ Quiet

(* A decision that is no longer live is as good as none. *)
Expire(p) ==
    /\ decision[p] # "none"
    /\ decision' = [decision EXCEPT ![p] = "none"]
    /\ UNCHANGED <<claims, att, session, pending, grants, decisions, execution>>
    /\ Quiet

-----------------------------------------------------------------------------
Work(a) ==
    \/ Prepare(a) \/ Recover(a) \/ Start(a) \/ Resume(a) \/ Model(a)
    \/ NextCall(a) \/ Take(a) \/ Hold(a)
    \/ Look(a) \/ Begin(a) \/ Execute(a) \/ Interrupted(a) \/ Complete(a) \/ AfterTool(a)
    \/ Save(a) \/ EndBatch(a) \/ Surface(a) \/ Settle(a) \/ Done(a) \/ Failing(a)

Next ==
    \/ Claim \/ Takeover
    \/ \E a \in Attempts :
          \/ Work(a)
          \/ Crash(a) \/ Drop(a)
          \/ LookFails(a) \/ BeginFails(a) \/ CompleteFails(a) \/ Breaks(a)
    \/ \E p \in Prints : Expire(p) \/ \E d \in {"approve", "deny"} : Decide(p, d)

(* Workers keep claiming, and the owner of the run goes on unless it stops *)
(* or stalls; nothing is asked of an attempt that lost the run.            *)
Fairness == WF_vars(Claim) /\ WF_vars(\E a \in Attempts : a = epoch /\ Work(a))

Spec == Init /\ [][Next]_vars /\ Fairness

-----------------------------------------------------------------------------
(* Properties *)

Kinds == {"pending", "denied", "notrun", "unknown", "done", "error"}

Pcs == {"off", "prepare", "recover", "start", "done", "resume", "model", "next",
        "authorize", "hold", "look", "begin", "run", "complete", "after", "surface",
        "ended", "failing"}

AttemptType ==
    [pc : Pcs, todo : SUBSET Calls, call : Calls \cup {None}, resuming : BOOLEAN,
     kind : {"none", "done", "error", "unknown", "Queued", "Failed"},
     out : SUBSET (Calls \X Kinds), held : SUBSET Calls]

(* The types of the variables. *)
TypeOK ==
    /\ run \in {"Queued", "Running", "Waiting", "Completed", "Failed"}
    /\ epoch \in 0 .. MaxAttempts
    /\ wake \in BOOLEAN
    /\ checkpoint \in 0 .. MaxAttempts
    /\ att \in [Attempts -> AttemptType]
    /\ issuer \in [Calls -> 0 .. MaxAttempts]
    /\ said \in [Calls -> SUBSET Kinds]
    /\ holds \in SUBSET Calls
    /\ surfaced \in [Calls -> SUBSET Attempts]
    /\ final \in 0 .. MaxAttempts
    /\ ledger \in [Calls -> [0 .. MaxAttempts -> {"none", "begun", "done", "error"}]]
    /\ pending \in SUBSET Prints
    /\ decision \in [Prints -> {"none", "approve", "deny"}]
    /\ ran \in [Calls -> Nat]
    /\ outcome \in [Calls -> {"none", "done", "error"}]
    /\ replies \in [Calls -> Nat]
    /\ grants \in [Prints -> Nat]
    /\ decisions \in Nat /\ faults \in Nat /\ stalls \in Nat

(* A call of a non-idempotent tool executes at most once, over crashes and *)
(* recoveries, holds resumed by several attempts, decisions made twice,    *)
(* and attempts that go on after they lost the run (begin_ledgered_call,   *)
(* held_call_ledger_key).                                                  *)
AtMostOnce == \A c \in Calls : ran[c] <= 1

(* One approval authorizes one execution: the calls of a fingerprint that  *)
(* needs confirmation execute no more often than it was approved           *)
(* (take_approval).                                                        *)
ApprovalSpentOnce ==
    \A p \in Guarded : Cardinality({c \in Calls : Fp[c] = p /\ ran[c] > 0}) <= grants[p]

(* What the session says of a call's outcome is what happened: a success   *)
(* that was found, replayed or recovered from the ledger did take effect,  *)
(* and a failure is one the tool reported, never a timeout.                *)
AnswersAreTrue ==
    \A c \in Calls :
        /\ "done" \in said[c] => outcome[c] = "done"
        /\ "error" \in said[c] => outcome[c] = "error"

(* A call is answered once: over crashes, recoveries and resumed holds it  *)
(* has one response that is not a pending one.  Attempts that stall are    *)
(* left out: they can save a refusal after the call was recovered.         *)
OneAnswer == stalls = 0 => \A c \in Calls : replies[c] <= 1

(* A call in the session gets a response, whatever stops the attempt that  *)
(* was to run it, unless the run fails (recover_unanswered_calls).         *)
EveryCallIsAnswered ==
    \A c \in Calls : issuer[c] # 0 ~> (said[c] # {} \/ run = "Failed")

(* durable-runtime.md: "An agent run that ends holding a tool call for     *)
(* approval (no decision available) parks instead of finishing".  It does  *)
(* not hold: the worker asks only for the calls the last invocation        *)
(* surfaced, so a run resumed by the decision for one of its held calls    *)
(* completes while another is still held.                                  *)
HeldRunParks == run = "Completed" => holds = {}
=============================================================================
