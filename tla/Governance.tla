----------------------------- MODULE Governance -----------------------------
(***************************************************************************)
(* The replicated kill switch (adk-core/src/governance.rs over             *)
(* adk-core/src/governance_state.rs): controls of several processes mirror *)
(* the scopes of one store.                                                *)
(*                                                                         *)
(* A control keeps a local flag, what its last refresh found, and the age  *)
(* of that refresh.  Two tasks of a process refresh it: the mirror task,   *)
(* and the request that freezes or unfreezes the primary scope by          *)
(* compare-and-swap.  A refresh reads the scopes one by one, and other     *)
(* tasks run between any two of its store calls; it then stores its        *)
(* instant and its result under two locks, one after the other.            *)
(*                                                                         *)
(* Time is kept as ages, so that the system runs forever in finitely many  *)
(* states.  Reasons, issuers and audit records are left out.               *)
(***************************************************************************)
EXTENDS Naturals, Sequences

CONSTANTS
    Controls,       \* mirrored controls, one per process
    Scopes,         \* the scopes the store knows
    ScopesOf,       \* the scopes each control mirrors, its primary scope first
    Pollers,        \* controls whose process spawned the mirror task
    FailOpen,       \* controls that keep running on a stale view
    MaxStaleness,   \* how long a refresh is trusted
    MaxRead,        \* bound: the time one refresh takes, its store's timeout
    WriteAttempts,  \* REPLICATED_WRITE_ATTEMPTS
    MaxChanges,     \* bound: freezes and unfreezes asked for
    MaxFaults       \* bound: failed store calls and restarts

ASSUME GovernanceAssumption ==
    /\ Pollers \subseteq Controls
    /\ ScopesOf \in [Controls -> Seq(Scopes)]
    /\ \A c \in Controls : Len(ScopesOf[c]) > 0
    /\ MaxStaleness \in Nat /\ MaxRead \in Nat /\ WriteAttempts \in Nat \ {0}
    /\ MaxChanges \in Nat /\ MaxFaults \in Nat

VARIABLES
    store,      \* scope -> its freeze state and epoch
    frozenFor,  \* history: how long each scope has been frozen without a break
    local,      \* control -> frozen in this process only
    replicated, \* control -> what its last applied refresh found
    age,        \* control -> time since its last refresh, capped once stale
    task,       \* control -> what its mirror task and its writer are doing
    changes,    \* freezes and unfreezes asked for so far
    faults      \* failed store calls and restarts so far

vars == <<store, frozenFor, local, replicated, age, task, changes, faults>>

Never == MaxStaleness + 1                \* before the first refresh, and once stale
Longest == MaxStaleness + MaxRead + 1    \* where frozenFor stops counting

Tasks == {"mirror", "writer"}

IdleTask == [pc |-> "idle", want |-> FALSE, epoch |-> 0, tries |-> 0,
             at |-> 1, found |-> FALSE, since |-> 0]

(* The processes start over a store in which scopes may have been frozen   *)
(* long ago.                                                               *)
Init ==
    /\ store \in [Scopes -> {[frozen |-> FALSE, epoch |-> 0], [frozen |-> TRUE, epoch |-> 1]}]
    /\ frozenFor = [s \in Scopes |-> IF store[s].frozen THEN Longest ELSE 0]
    /\ local = [c \in Controls |-> FALSE]
    /\ replicated = [c \in Controls |-> FALSE]
    /\ age = [c \in Controls |-> Never]
    /\ task = [c \in Controls |-> [w \in Tasks |-> IdleTask]]
    /\ changes = 0
    /\ faults = 0

-----------------------------------------------------------------------------
(* What a check answers *)

Primary(c) == ScopesOf[c][1]

IsStale(c) == age[c] > MaxStaleness

IsFrozen(c) == local[c] \/ replicated[c]

(* GovernanceControl::check answers Ok *)
Passes(c) ==
    /\ ~IsFrozen(c)
    /\ c \in FailOpen \/ ~IsStale(c)

-----------------------------------------------------------------------------
(* refresh *)

(* A refresh starts with no scope read. *)
Refreshing(t) == [IdleTask EXCEPT !.pc = "read", !.want = t.want]

(* spawn_mirror: the poll timer, the wake or the watch starts a refresh. *)
Poll(c) ==
    /\ c \in Pollers
    /\ task[c]["mirror"].pc = "idle"
    /\ task' = [task EXCEPT ![c]["mirror"] = Refreshing(@)]
    /\ UNCHANGED <<store, frozenFor, local, replicated, age, changes, faults>>

(* Variant: only the scope read last counts. *)
ReadScopeLast(c, w) ==
    LET t == task[c][w] IN
    /\ t.pc = "read"
    /\ t.at <= Len(ScopesOf[c])
    /\ task' = [task EXCEPT ![c][w] =
                  [t EXCEPT !.at = t.at + 1, !.found = store[ScopesOf[c][t.at]].frozen]]
    /\ UNCHANGED <<store, frozenFor, local, replicated, age, changes, faults>>

(* The refresh reads its next scope. *)
ReadScope(c, w) ==
    LET t == task[c][w] IN
    /\ t.pc = "read"
    /\ t.at <= Len(ScopesOf[c])
    /\ task' = [task EXCEPT ![c][w] =
                  [t EXCEPT !.at = t.at + 1,
                            !.found = t.found \/ store[ScopesOf[c][t.at]].frozen]]
    /\ UNCHANGED <<store, frozenFor, local, replicated, age, changes, faults>>

(* Every scope is read: last_refresh is set first, ... *)
Touch(c, w) ==
    LET t == task[c][w] IN
    /\ t.pc = "read"
    /\ t.at > Len(ScopesOf[c])
    /\ age' = [age EXCEPT ![c] = 0]
    /\ task' = [task EXCEPT ![c][w] = [t EXCEPT !.pc = "replace", !.at = 1]]
    /\ UNCHANGED <<store, frozenFor, local, replicated, changes, faults>>

(* Variant: a refresh can only add a freeze. *)
ReplaceSticky(c, w) ==
    LET t == task[c][w] IN
    /\ t.pc = "replace"
    /\ replicated' = [replicated EXCEPT ![c] = @ \/ t.found]
    /\ local' = [local EXCEPT ![c] = @ /\ (w = "mirror" \/ t.want)]
    /\ task' = [task EXCEPT ![c][w] = IdleTask]
    /\ UNCHANGED <<store, frozenFor, age, changes, faults>>

(* ... then the result replaces the previous one, whatever was applied in  *)
(* between.  The writer of an unfreeze then clears the local flag.         *)
Replace(c, w) ==
    LET t == task[c][w] IN
    /\ t.pc = "replace"
    /\ replicated' = [replicated EXCEPT ![c] = t.found]
    /\ local' = [local EXCEPT ![c] = @ /\ (w = "mirror" \/ t.want)]
    /\ task' = [task EXCEPT ![c][w] = IdleTask]
    /\ UNCHANGED <<store, frozenFor, age, changes, faults>>

(* An operator is told that the request failed: a freeze that could not be *)
(* replicated stops this process, and an unfreeze changes nothing here.    *)
Failed(c, w) ==
    /\ local' = [local EXCEPT ![c] = @ \/ (w = "writer" /\ task[c][w].want)]
    /\ task' = [task EXCEPT ![c][w] = IdleTask]

(* A read fails: what the control knew and its age stay. *)
ReadFails(c, w) ==
    /\ task[c][w].pc = "read"
    /\ task[c][w].at <= Len(ScopesOf[c])
    /\ faults < MaxFaults
    /\ faults' = faults + 1
    /\ Failed(c, w)
    /\ UNCHANGED <<store, frozenFor, replicated, age, changes>>

-----------------------------------------------------------------------------
(* Freezing and unfreezing *)

(* freeze_replicated and unfreeze_replicated begin. *)
Ask(c, want) ==
    /\ task[c]["writer"].pc = "idle"
    /\ changes < MaxChanges
    /\ changes' = changes + 1
    /\ task' = [task EXCEPT ![c]["writer"] = [@ EXCEPT !.pc = "get", !.want = want]]
    /\ UNCHANGED <<store, frozenFor, local, replicated, age, faults>>

(* write_replicated reads the primary scope.  Unfreezing a scope that is   *)
(* not frozen only refreshes.                                              *)
Get(c) ==
    LET t == task[c]["writer"]
        state == store[Primary(c)] IN
    /\ t.pc = "get"
    /\ task' = [task EXCEPT ![c]["writer"] =
                  IF ~t.want /\ ~state.frozen
                  THEN Refreshing(t)
                  ELSE [t EXCEPT !.pc = "set", !.epoch = state.epoch]]
    /\ UNCHANGED <<store, frozenFor, local, replicated, age, changes, faults>>

(* Variant: the store does not compare the epoch. *)
SetBlind(c) ==
    LET t == task[c]["writer"]
        s == Primary(c) IN
    /\ t.pc = "set"
    /\ store' = [store EXCEPT ![s] = [frozen |-> t.want, epoch |-> @.epoch + 1]]
    /\ frozenFor' = [frozenFor EXCEPT ![s] = IF t.want THEN @ ELSE 0]
    /\ task' = [task EXCEPT ![c]["writer"] = Refreshing(t)]
    /\ UNCHANGED <<local, replicated, age, changes, faults>>

(* The compare-and-swap finds the epoch that was read. *)
Set(c) ==
    LET t == task[c]["writer"]
        s == Primary(c) IN
    /\ t.pc = "set"
    /\ t.epoch = store[s].epoch
    /\ store' = [store EXCEPT ![s] = [frozen |-> t.want, epoch |-> @.epoch + 1]]
    /\ frozenFor' = [frozenFor EXCEPT ![s] = IF t.want THEN @ ELSE 0]
    /\ task' = [task EXCEPT ![c]["writer"] = Refreshing(t)]
    /\ UNCHANGED <<local, replicated, age, changes, faults>>

(* Another change landed first: governance.conflict, and another attempt   *)
(* while there is one.                                                     *)
Conflict(c) ==
    LET t == task[c]["writer"] IN
    /\ t.pc = "set"
    /\ t.epoch # store[Primary(c)].epoch
    /\ \/ /\ t.tries + 1 < WriteAttempts
          /\ task' = [task EXCEPT ![c]["writer"] =
                        [t EXCEPT !.pc = "get", !.tries = t.tries + 1]]
          /\ UNCHANGED local
       \/ /\ t.tries + 1 >= WriteAttempts
          /\ Failed(c, "writer")
    /\ UNCHANGED <<store, frozenFor, replicated, age, changes, faults>>

(* A store call of the writer fails. *)
WriteFails(c) ==
    /\ task[c]["writer"].pc \in {"get", "set"}
    /\ faults < MaxFaults
    /\ faults' = faults + 1
    /\ Failed(c, "writer")
    /\ UNCHANGED <<store, frozenFor, replicated, age, changes>>

(* A process outside Controls changes a scope with a compare-and-swap of   *)
(* its own; it too never unfreezes a scope it read unfrozen.               *)
Elsewhere(s, want) ==
    /\ changes < MaxChanges
    /\ changes' = changes + 1
    /\ want \/ store[s].frozen
    /\ store' = [store EXCEPT ![s] = [frozen |-> want, epoch |-> @.epoch + 1]]
    /\ frozenFor' = [frozenFor EXCEPT ![s] = IF want THEN @ ELSE 0]
    /\ UNCHANGED <<local, replicated, age, task, faults>>

(* freeze and unfreeze: this process only. *)
SetLocal(c, frozen) ==
    /\ local[c] # frozen
    /\ changes < MaxChanges
    /\ changes' = changes + 1
    /\ local' = [local EXCEPT ![c] = frozen]
    /\ UNCHANGED <<store, frozenFor, replicated, age, task, faults>>

(* Variant: a new process trusts the unfrozen state it starts with. *)
RestartTrusting(c) ==
    /\ faults < MaxFaults
    /\ faults' = faults + 1
    /\ local' = [local EXCEPT ![c] = FALSE]
    /\ replicated' = [replicated EXCEPT ![c] = FALSE]
    /\ age' = [age EXCEPT ![c] = 0]
    /\ task' = [task EXCEPT ![c] = [w \in Tasks |-> IdleTask]]
    /\ UNCHANGED <<store, frozenFor, changes>>

(* The process restarts: GovernanceControl::mirrored, never refreshed. *)
Restart(c) ==
    /\ faults < MaxFaults
    /\ faults' = faults + 1
    /\ local' = [local EXCEPT ![c] = FALSE]
    /\ replicated' = [replicated EXCEPT ![c] = FALSE]
    /\ age' = [age EXCEPT ![c] = Never]
    /\ task' = [task EXCEPT ![c] = [w \in Tasks |-> IdleTask]]
    /\ UNCHANGED <<store, frozenFor, changes>>

(* One unit of time, while no refresh has taken its longest. *)
Tick ==
    /\ \A c \in Controls, w \in Tasks :
          task[c][w].pc \in {"read", "replace"} => task[c][w].since < MaxRead
    /\ age' = [c \in Controls |-> IF age[c] < Never THEN age[c] + 1 ELSE Never]
    /\ frozenFor' = [s \in Scopes |->
                       IF store[s].frozen /\ frozenFor[s] < Longest
                       THEN frozenFor[s] + 1 ELSE frozenFor[s]]
    /\ task' = [c \in Controls |-> [w \in Tasks |->
                  IF task[c][w].pc \in {"read", "replace"}
                  THEN [task[c][w] EXCEPT !.since = @ + 1] ELSE task[c][w]]]
    /\ UNCHANGED <<store, local, replicated, changes, faults>>

RefreshStep(c, w) == ReadScope(c, w) \/ Touch(c, w) \/ Replace(c, w)

Next ==
    \/ Tick
    \/ \E s \in Scopes, want \in BOOLEAN : Elsewhere(s, want)
    \/ \E c \in Controls :
          \/ Poll(c)
          \/ \E w \in Tasks : RefreshStep(c, w) \/ ReadFails(c, w)
          \/ \E want \in BOOLEAN : Ask(c, want) \/ SetLocal(c, want)
          \/ Get(c) \/ Set(c) \/ Conflict(c) \/ WriteFails(c)
          \/ Restart(c)

(* The mirror task keeps polling; nothing else is promised. *)
Fairness == \A c \in Pollers : WF_vars(Poll(c) \/ RefreshStep(c, "mirror"))

Spec == Init /\ [][Next]_vars /\ Fairness

-----------------------------------------------------------------------------
(* Properties *)

(* The types of the variables. *)
TaskType ==
    [pc : {"idle", "get", "set", "read", "replace"}, want : BOOLEAN, epoch : Nat,
     tries : Nat, at : Nat \ {0}, found : BOOLEAN, since : 0 .. MaxRead]

TypeOK ==
    /\ store \in [Scopes -> [frozen : BOOLEAN, epoch : Nat]]
    /\ frozenFor \in [Scopes -> 0 .. Longest]
    /\ local \in [Controls -> BOOLEAN]
    /\ replicated \in [Controls -> BOOLEAN]
    /\ age \in [Controls -> 0 .. Never]
    /\ task \in [Controls -> [Tasks -> TaskType]]
    /\ changes \in 0 .. MaxChanges
    /\ faults \in 0 .. MaxFaults

Mirrored(c) == {ScopesOf[c][i] : i \in 1 .. Len(ScopesOf[c])}

Applying(c) == \E w \in Tasks : task[c][w].pc = "replace"

(* A fail-closed control never passes a check while a scope it mirrors has *)
(* been frozen for longer than the staleness limit and one refresh,        *)
(* whatever its store calls and the other process do: neither a slow       *)
(* refresh that puts an older state back (refresh, 572), nor failing       *)
(* reads, nor a restart lets it.  The instant between the two writes of a  *)
(* refresh is left out: refresh marks the view fresh before it stores what *)
(* it read, so a control that was stale passes a check in between.         *)
FreezeBounded ==
    \A c \in Controls \ FailOpen : \A s \in Mirrored(c) :
        (Passes(c) /\ ~Applying(c)) => frozenFor[s] <= MaxStaleness + MaxRead

(* Every change of a scope has the next epoch, and an unfreeze changes     *)
(* only a scope that is frozen: two operators who act at once do not both  *)
(* change the state one of them read (write_replicated, set).              *)
ChangesWhatWasRead ==
    [][\A s \in Scopes : store'[s] # store[s] =>
          /\ store'[s].epoch = store[s].epoch + 1
          /\ store'[s].frozen \/ store[s].frozen]_vars

(* A freeze that stays stops every control that mirrors it for good, the   *)
(* fail-open ones too once the store can be read, and whatever refresh was *)
(* in flight when it landed.                                               *)
FrozenStops ==
    \A c \in Pollers :
        <>[](\E s \in Mirrored(c) : store[s].frozen) => <>[](~Passes(c))

(* A control whose scopes stay unfrozen, and which nobody froze locally,   *)
(* works again: no stale view, old freeze or failed read stops it forever. *)
UnfrozenResumes ==
    \A c \in Pollers :
        <>[](~local[c] /\ \A s \in Mirrored(c) : ~store[s].frozen) => []<>Passes(c)
=============================================================================
