-------------------------- MODULE GovernanceProofs --------------------------
(***************************************************************************)
(* What the replicated kill switch promises for any number of controls,    *)
(* scopes and writes, any staleness limit and any bound on the time of a   *)
(* refresh: a freeze that has stood for longer than both together stops    *)
(* every fail-closed control that mirrors its scope.                       *)
(***************************************************************************)
EXTENDS Governance, TLAPS

(* A scope that is not frozen has no frozen time. *)
FrozenTime == \A s \in Scopes : ~store[s].frozen => frozenFor[s] = 0

(* The task has read scope i in the refresh it is in. *)
HasRead(t, i) == t.pc = "replace" \/ (t.pc = "read" /\ i < t.at)

(* What a refresh found unfrozen was unfrozen at some instant of it. *)
SeenUnfrozen ==
    \A c \in Controls, w \in Tasks : \A i \in 1 .. Len(ScopesOf[c]) :
        (HasRead(task[c][w], i) /\ ~task[c][w].found)
            => frozenFor[ScopesOf[c][i]] <= task[c][w].since

(* What was applied last was unfrozen at most MaxRead before. *)
AppliedUnfrozen ==
    \A c \in Controls : \A i \in 1 .. Len(ScopesOf[c]) :
        (~Applying(c) /\ ~replicated[c] /\ age[c] <= MaxStaleness)
            => frozenFor[ScopesOf[c][i]] <= age[c] + MaxRead

GInv == TypeOK /\ FrozenTime /\ SeenUnfrozen /\ AppliedUnfrozen

-----------------------------------------------------------------------------
(* Types *)

(* A control's scopes are scopes. *)
LEMMA ScopeOfControl ==
    ASSUME NEW c \in Controls, NEW i \in 1 .. Len(ScopesOf[c])
    PROVE  ScopesOf[c][i] \in Scopes
<1>1. ScopesOf[c] \in Seq(Scopes)
  BY GovernanceAssumption DEF GovernanceAssumption
<1> QED
  BY <1>1

(* So is its primary scope. *)
LEMMA PrimaryIsScope ==
    ASSUME NEW c \in Controls
    PROVE  Primary(c) \in Scopes
<1>1. ScopesOf[c] \in Seq(Scopes) /\ Len(ScopesOf[c]) > 0
  BY GovernanceAssumption DEF GovernanceAssumption
<1>2. 1 \in 1 .. Len(ScopesOf[c])
  BY <1>1
<1> QED
  BY <1>2, ScopeOfControl DEF Primary

(* Replacing one task of one control keeps the type of all of them. *)
LEMMA TaskUpdate ==
    ASSUME TypeOK, NEW c \in Controls, NEW w \in Tasks, NEW t \in TaskType,
           task' = [task EXCEPT ![c][w] = t]
    PROVE  /\ task' \in [Controls -> [Tasks -> TaskType]]
           /\ task'[c][w] = t
           /\ \A d \in Controls, v \in Tasks :
                 (d # c \/ v # w) => task'[d][v] = task[d][v]
BY DEF TypeOK

(* The fields of a task. *)
LEMMA TaskFields ==
    ASSUME NEW t \in TaskType
    PROVE  /\ t.want \in BOOLEAN /\ t.found \in BOOLEAN
           /\ t.epoch \in Nat /\ t.at \in Nat \ {0} /\ t.since \in 0 .. MaxRead
BY DEF TaskType

(* The task records that the actions build are of the type. *)
LEMMA TaskRecords ==
    ASSUME NEW t \in TaskType
    PROVE  /\ IdleTask \in TaskType
           /\ Refreshing(t) \in TaskType
           /\ \A b \in BOOLEAN : [t EXCEPT !.at = t.at + 1, !.found = b] \in TaskType
           /\ \A b \in BOOLEAN : [t EXCEPT !.pc = "get", !.want = b] \in TaskType
           /\ \A e \in Nat : [t EXCEPT !.pc = "set", !.epoch = e] \in TaskType
           /\ [t EXCEPT !.pc = "replace", !.at = 1] \in TaskType
           /\ [t EXCEPT !.pc = "get", !.tries = t.tries + 1] \in TaskType
<1> USE DEF TaskType
<1>0. 0 \in 0 .. MaxRead
  BY GovernanceAssumption DEF GovernanceAssumption
<1>f. /\ t = [pc |-> t.pc, want |-> t.want, epoch |-> t.epoch, tries |-> t.tries,
              at |-> t.at, found |-> t.found, since |-> t.since]
      /\ t.pc \in {"idle", "get", "set", "read", "replace"} /\ t.want \in BOOLEAN
      /\ t.epoch \in Nat /\ t.tries \in Nat /\ t.at \in Nat \ {0}
      /\ t.found \in BOOLEAN /\ t.since \in 0 .. MaxRead
  OBVIOUS
<1>1. IdleTask \in TaskType
  BY <1>0 DEF IdleTask
<1>2. Refreshing(t) \in TaskType
  BY <1>1, <1>f DEF Refreshing
<1>3. ASSUME NEW b \in BOOLEAN PROVE [t EXCEPT !.at = t.at + 1, !.found = b] \in TaskType
  <2>1. t.at + 1 \in Nat \ {0}
    BY <1>f
  <2> QED
    BY <1>f, <2>1
<1>4. ASSUME NEW b \in BOOLEAN PROVE [t EXCEPT !.pc = "get", !.want = b] \in TaskType
  BY <1>f
<1>5. ASSUME NEW e \in Nat PROVE [t EXCEPT !.pc = "set", !.epoch = e] \in TaskType
  BY <1>f
<1>6. [t EXCEPT !.pc = "replace", !.at = 1] \in TaskType
  <2>1. 1 \in Nat \ {0} /\ "replace" \in {"idle", "get", "set", "read", "replace"}
    OBVIOUS
  <2> QED
    BY <1>f, <2>1
<1>7. [t EXCEPT !.pc = "get", !.tries = t.tries + 1] \in TaskType
  <2>1. t.tries + 1 \in Nat
    BY <1>f
  <2> QED
    BY <1>f, <2>1
<1> HIDE DEF TaskType
<1> QED
  BY <1>1, <1>2, <1>3, <1>4, <1>5, <1>6, <1>7

(* Every step leaves the variables in their types. *)
LEMMA TypeStep == TypeOK /\ [Next]_vars => TypeOK'
<1> SUFFICES ASSUME TypeOK, [Next]_vars PROVE TypeOK'
  OBVIOUS
<1> USE GovernanceAssumption DEF GovernanceAssumption
<1>t. \A c \in Controls, w \in Tasks : task[c][w] \in TaskType
  BY DEF TypeOK
<1>w. "writer" \in Tasks /\ "mirror" \in Tasks
  BY DEF Tasks
<1>1. ASSUME NEW c \in Controls, Poll(c) PROVE TypeOK'
  <2>1. Refreshing(task[c]["mirror"]) \in TaskType
    BY <1>t, <1>w, TaskRecords
  <2> QED
    BY <1>1, <2>1, <1>w, TaskUpdate DEF Poll, TypeOK
<1>2. ASSUME NEW c \in Controls, NEW w \in Tasks, ReadScope(c, w) PROVE TypeOK'
  <2> DEFINE t == task[c][w]
             b == t.found \/ store[ScopesOf[c][t.at]].frozen
             u == [t EXCEPT !.at = t.at + 1, !.found = b]
  <2>1. t.found \in BOOLEAN /\ t.at \in Nat \ {0} /\ ScopesOf[c] \in Seq(Scopes)
    BY <1>t DEF TaskType
  <2>2. t.at \in 1 .. Len(ScopesOf[c])
    BY <1>2, <2>1 DEF ReadScope
  <2>3. store[ScopesOf[c][t.at]].frozen \in BOOLEAN
    BY <2>2, ScopeOfControl DEF TypeOK
  <2>4. u \in TaskType
    BY <2>1, <2>3, <1>t, TaskRecords
  <2>5. task' = [task EXCEPT ![c][w] = u]
    BY <1>2 DEF ReadScope
  <2> HIDE DEF u
  <2>6. task' \in [Controls -> [Tasks -> TaskType]]
    BY <2>4, <2>5, TaskUpdate
  <2> QED
    BY <1>2, <2>6 DEF ReadScope, TypeOK
<1>3. ASSUME NEW c \in Controls, NEW w \in Tasks, Touch(c, w) PROVE TypeOK'
  <2>1. [task[c][w] EXCEPT !.pc = "replace", !.at = 1] \in TaskType
    BY <1>t, TaskRecords
  <2>2. task' \in [Controls -> [Tasks -> TaskType]]
    BY <1>3, <2>1, TaskUpdate DEF Touch
  <2> QED
    BY <1>3, <2>2 DEF Touch, TypeOK, Never
<1>4. ASSUME NEW c \in Controls, NEW w \in Tasks, Replace(c, w) PROVE TypeOK'
  <2>0. task[c][w] \in TaskType
    BY <1>t
  <2>1. IdleTask \in TaskType /\ task[c][w].found \in BOOLEAN /\ task[c][w].want \in BOOLEAN
    BY <2>0, TaskRecords, TaskFields
  <2>2. task' \in [Controls -> [Tasks -> TaskType]]
    BY <1>4, <2>1, TaskUpdate DEF Replace
  <2>3. replicated' \in [Controls -> BOOLEAN]
    BY <1>4, <2>1 DEF Replace, TypeOK
  <2>4. local' \in [Controls -> BOOLEAN]
    BY <1>4, <2>1 DEF Replace, TypeOK
  <2> QED
    BY <1>4, <2>2, <2>3, <2>4 DEF Replace, TypeOK
<1>f. ASSUME NEW c \in Controls, NEW w \in Tasks, Failed(c, w)
      PROVE  /\ task' \in [Controls -> [Tasks -> TaskType]]
             /\ local' \in [Controls -> BOOLEAN]
  <2>0. task[c][w] \in TaskType
    BY <1>t
  <2>1. IdleTask \in TaskType /\ task[c][w].want \in BOOLEAN
    BY <2>0, TaskRecords, TaskFields
  <2>2. task' \in [Controls -> [Tasks -> TaskType]]
    BY <1>f, <2>1, TaskUpdate DEF Failed
  <2>3. local' \in [Controls -> BOOLEAN]
    BY <1>f, <2>1 DEF Failed, TypeOK
  <2> QED
    BY <2>2, <2>3
<1>5. ASSUME NEW c \in Controls, NEW w \in Tasks, ReadFails(c, w) PROVE TypeOK'
  <2>1. Failed(c, w)
    BY <1>5 DEF ReadFails
  <2>2. faults' \in 0 .. MaxFaults
    BY <1>5 DEF ReadFails, TypeOK
  <2>3. task' \in [Controls -> [Tasks -> TaskType]] /\ local' \in [Controls -> BOOLEAN]
    BY <2>1, <1>f
  <2> QED
    BY <1>5, <2>2, <2>3 DEF ReadFails, TypeOK
<1>6. ASSUME NEW c \in Controls, NEW want \in BOOLEAN, Ask(c, want) PROVE TypeOK'
  <2>1. [task[c]["writer"] EXCEPT !.pc = "get", !.want = want] \in TaskType
    BY <1>t, <1>w, TaskRecords
  <2>2. task' \in [Controls -> [Tasks -> TaskType]]
    BY <1>6, <2>1, <1>w, TaskUpdate DEF Ask
  <2>3. changes' \in 0 .. MaxChanges
    BY <1>6 DEF Ask, TypeOK
  <2> QED
    BY <1>6, <2>2, <2>3 DEF Ask, TypeOK
<1>7. ASSUME NEW c \in Controls, NEW want \in BOOLEAN, SetLocal(c, want) PROVE TypeOK'
  BY <1>7 DEF SetLocal, TypeOK
<1>8. ASSUME NEW c \in Controls, Get(c) PROVE TypeOK'
  <2> DEFINE t == task[c]["writer"]
             e == store[Primary(c)].epoch
             u == IF ~t.want /\ ~store[Primary(c)].frozen
                  THEN Refreshing(t) ELSE [t EXCEPT !.pc = "set", !.epoch = e]
  <2>1. e \in Nat
    BY PrimaryIsScope DEF TypeOK
  <2>2. u \in TaskType
    BY <2>1, <1>t, <1>w, TaskRecords
  <2>3. task' = [task EXCEPT ![c]["writer"] = u]
    BY <1>8 DEF Get
  <2> QED
    BY <1>8, <2>2, <2>3, <1>w, TaskUpdate DEF Get, TypeOK
<1>9. ASSUME NEW c \in Controls, Set(c) PROVE TypeOK'
  <2>0. task[c]["writer"] \in TaskType
    BY <1>t, <1>w
  <2>1. Refreshing(task[c]["writer"]) \in TaskType /\ task[c]["writer"].want \in BOOLEAN
    BY <2>0, TaskRecords, TaskFields
  <2>2. task' \in [Controls -> [Tasks -> TaskType]]
    BY <1>9, <2>1, <1>w, TaskUpdate DEF Set
  <2>3. store' \in [Scopes -> [frozen : BOOLEAN, epoch : Nat]]
    BY <1>9, <2>1, PrimaryIsScope DEF Set, TypeOK
  <2>4. frozenFor' \in [Scopes -> 0 .. Longest]
    BY <1>9, PrimaryIsScope DEF Set, TypeOK, Longest
  <2> QED
    BY <1>9, <2>2, <2>3, <2>4 DEF Set, TypeOK
<1>10. ASSUME NEW c \in Controls, Conflict(c) PROVE TypeOK'
  <2> DEFINE t == task[c]["writer"]
  <2>1. CASE Failed(c, "writer")
    BY <1>10, <2>1, <1>f, <1>w DEF Conflict, TypeOK
  <2>2. CASE /\ task' = [task EXCEPT ![c]["writer"] = [t EXCEPT !.pc = "get", !.tries = t.tries + 1]]
             /\ UNCHANGED local
    <3>1. [t EXCEPT !.pc = "get", !.tries = t.tries + 1] \in TaskType
      BY <1>t, <1>w, TaskRecords
    <3>2. task' \in [Controls -> [Tasks -> TaskType]]
      BY <2>2, <3>1, <1>w, TaskUpdate
    <3> QED
      BY <1>10, <2>2, <3>2 DEF Conflict, TypeOK
  <2> QED
    BY <1>10, <2>1, <2>2 DEF Conflict
<1>11. ASSUME NEW c \in Controls, WriteFails(c) PROVE TypeOK'
  <2>1. Failed(c, "writer")
    BY <1>11 DEF WriteFails
  <2> QED
    BY <1>11, <2>1, <1>f, <1>w DEF WriteFails, TypeOK
<1>12. ASSUME NEW c \in Controls, Restart(c) PROVE TypeOK'
  <2>0. IdleTask \in TaskType
    BY <1>t, <1>w, TaskRecords
  <2>1. [w \in Tasks |-> IdleTask] \in [Tasks -> TaskType]
    BY <2>0
  <2>2. task' \in [Controls -> [Tasks -> TaskType]]
    BY <1>12, <2>1 DEF Restart, TypeOK
  <2> QED
    BY <1>12, <2>2 DEF Restart, TypeOK, Never
<1>13. ASSUME NEW s \in Scopes, NEW want \in BOOLEAN, Elsewhere(s, want) PROVE TypeOK'
  BY <1>13 DEF Elsewhere, TypeOK, Longest
<1>14. ASSUME Tick PROVE TypeOK'
  <2>1. ASSUME NEW c \in Controls, NEW w \in Tasks
        PROVE  (IF task[c][w].pc \in {"read", "replace"}
                THEN [task[c][w] EXCEPT !.since = @ + 1] ELSE task[c][w]) \in TaskType
    <3>1. CASE task[c][w].pc \in {"read", "replace"}
      <4>1. task[c][w] \in TaskType /\ task[c][w].since < MaxRead
        BY <1>14, <1>t, <3>1 DEF Tick
      <4>2. task[c][w].since + 1 \in 0 .. MaxRead
        BY <4>1 DEF TaskType
      <4> QED
        BY <3>1, <4>1, <4>2 DEF TaskType
    <3> QED
      BY <1>t, <3>1
  <2>2. task' \in [Controls -> [Tasks -> TaskType]]
    BY <1>14, <2>1 DEF Tick
  <2>3. age' \in [Controls -> 0 .. Never]
    <3>1. age' = [c \in Controls |-> IF age[c] < Never THEN age[c] + 1 ELSE Never]
      BY <1>14 DEF Tick
    <3>2. \A c \in Controls : age[c] \in 0 .. Never
      BY DEF TypeOK
    <3>3. Never \in Nat
      BY DEF Never
    <3> QED
      BY <3>1, <3>2, <3>3
  <2>4. frozenFor' \in [Scopes -> 0 .. Longest]
    <3>1. frozenFor' = [s \in Scopes |-> IF store[s].frozen /\ frozenFor[s] < Longest
                                        THEN frozenFor[s] + 1 ELSE frozenFor[s]]
      BY <1>14 DEF Tick
    <3>2. \A s \in Scopes : frozenFor[s] \in 0 .. Longest
      BY DEF TypeOK
    <3>3. Longest \in Nat
      BY DEF Longest
    <3> QED
      BY <3>1, <3>2, <3>3
  <2> QED
    BY <1>14, <2>2, <2>3, <2>4 DEF Tick, TypeOK
<1>15. CASE UNCHANGED vars
  BY <1>15 DEF vars, TypeOK
<1> QED
  BY <1>1, <1>2, <1>3, <1>4, <1>5, <1>6, <1>7, <1>8, <1>9, <1>10, <1>11, <1>12, <1>13,
     <1>14, <1>15 DEF Next, RefreshStep

(* The initial states are of the types. *)
LEMMA TypeInit == Init => TypeOK
<1> SUFFICES ASSUME Init PROVE TypeOK
  OBVIOUS
<1> USE GovernanceAssumption DEF GovernanceAssumption
<1>1. task \in [Controls -> [Tasks -> TaskType]]
  BY DEF Init, TaskType, IdleTask
<1>2. store \in [Scopes -> [frozen : BOOLEAN, epoch : Nat]]
  <2>0. {[frozen |-> FALSE, epoch |-> 0], [frozen |-> TRUE, epoch |-> 1]}
          \subseteq [frozen : BOOLEAN, epoch : Nat]
    OBVIOUS
  <2>1. \A s \in Scopes : store[s] \in [frozen : BOOLEAN, epoch : Nat]
    BY <2>0 DEF Init
  <2>2. store = [s \in Scopes |-> store[s]]
    BY DEF Init
  <2> QED
    BY <2>1, <2>2
<1> QED
  BY <1>1, <1>2 DEF Init, TypeOK, Never, Longest

(* The kill switch keeps its variables in their types, whatever the        *)
(* controls, the scopes and the limits are.                                *)
THEOREM GovernanceTypes == Spec => []TypeOK
<1> QED
  BY TypeInit, TypeStep, PTL DEF Spec
-----------------------------------------------------------------------------
(* The inductive invariant *)

(* Who changes the store and its history. *)
LEMMA StoreStep ==
    ASSUME [Next]_vars
    PROVE  \/ Tick \/ UNCHANGED <<store, frozenFor>> \/ (\E c \in Controls : Set(c))
           \/ (\E s \in Scopes, want \in BOOLEAN : Elsewhere(s, want))
<1>1. ASSUME NEW c \in Controls,
             Poll(c) \/ Get(c) \/ Conflict(c) \/ WriteFails(c) \/ Restart(c)
      PROVE  UNCHANGED <<store, frozenFor>>
  BY <1>1 DEF Poll, Get, Conflict, WriteFails, Restart
<1>2. ASSUME NEW c \in Controls, NEW w \in Tasks, RefreshStep(c, w) \/ ReadFails(c, w)
      PROVE  UNCHANGED <<store, frozenFor>>
  BY <1>2 DEF RefreshStep, ReadScope, Touch, Replace, ReadFails
<1>3. ASSUME NEW c \in Controls, NEW want \in BOOLEAN, Ask(c, want) \/ SetLocal(c, want)
      PROVE  UNCHANGED <<store, frozenFor>>
  BY <1>3 DEF Ask, SetLocal
<1>4. CASE UNCHANGED vars
  BY <1>4 DEF vars
<1> QED
  BY <1>1, <1>2, <1>3, <1>4 DEF Next

(* Only Tick lets a frozen time grow, only by one, and only while frozen.  *)
LEMMA FrozenTimeStep ==
    TypeOK /\ FrozenTime /\ [Next]_vars
        => /\ FrozenTime'
           /\ \A s \in Scopes :
                 \/ frozenFor'[s] <= frozenFor[s]
                 \/ Tick /\ frozenFor'[s] <= frozenFor[s] + 1
<1> SUFFICES ASSUME TypeOK, FrozenTime, [Next]_vars
             PROVE  /\ FrozenTime'
                    /\ \A s \in Scopes :
                          \/ frozenFor'[s] <= frozenFor[s]
                          \/ Tick /\ frozenFor'[s] <= frozenFor[s] + 1
  OBVIOUS
<1> DEFINE Goal == /\ FrozenTime'
                   /\ \A s \in Scopes :
                         \/ frozenFor'[s] <= frozenFor[s]
                         \/ Tick /\ frozenFor'[s] <= frozenFor[s] + 1
<1>0. \A s \in Scopes : frozenFor[s] \in Nat
  BY GovernanceAssumption DEF GovernanceAssumption, TypeOK, Longest
<1>1. CASE UNCHANGED <<store, frozenFor>>
  BY <1>0, <1>1 DEF FrozenTime
<1>2. ASSUME NEW s \in Scopes, NEW want \in BOOLEAN,
             store' = [store EXCEPT ![s] = [frozen |-> want, epoch |-> @.epoch + 1]],
             frozenFor' = [frozenFor EXCEPT ![s] = IF want THEN @ ELSE 0]
      PROVE  Goal
  <2>1. ASSUME NEW r \in Scopes
        PROVE  /\ frozenFor'[r] <= frozenFor[r]
               /\ ~store'[r].frozen => frozenFor'[r] = 0
    <3>1. CASE r = s
      BY <1>0, <1>2, <3>1 DEF TypeOK
    <3>2. CASE r # s
      BY <1>0, <1>2, <3>2 DEF TypeOK, FrozenTime
    <3> QED
      BY <3>1, <3>2
  <2> QED
    BY <2>1 DEF FrozenTime
<1>3. CASE Tick
  BY <1>0, <1>3 DEF Tick, FrozenTime, TypeOK
<1>4. ASSUME NEW c \in Controls, Set(c) PROVE Goal
  <2>1. task[c]["writer"].want \in BOOLEAN
    BY DEF TypeOK, Tasks, TaskType
  <2> QED
    BY <1>2, <1>4, <2>1, PrimaryIsScope DEF Set
<1>5. ASSUME NEW s \in Scopes, NEW want \in BOOLEAN, Elsewhere(s, want) PROVE Goal
  BY <1>2, <1>5 DEF Elsewhere
<1> QED
  BY <1>1, <1>3, <1>4, <1>5, StoreStep

(* What a step other than Tick may do to a task: unless it starts again or *)
(* ends its refresh, it goes on with what it has read.                     *)
TaskMoves(c, w) ==
    LET t == task[c][w]
        u == task'[c][w] IN
    \/ u = t
    \/ u.pc \in {"idle", "get", "set"}
    \/ u.pc = "read" /\ u.at = 1
    \/ /\ t.pc = "read" /\ t.at <= Len(ScopesOf[c])
       /\ u.pc = "read" /\ u.at = t.at + 1 /\ u.since = t.since
       /\ u.found = (t.found \/ store[ScopesOf[c][t.at]].frozen)
    \/ /\ t.pc = "read" /\ t.at > Len(ScopesOf[c])
       /\ u.pc = "replace" /\ u.found = t.found /\ u.since = t.since

(* Every step moves every task as TaskMoves says.                          *)
LEMMA TaskStep ==
    ASSUME TypeOK, [Next]_vars, ~Tick, NEW c \in Controls, NEW w \in Tasks
    PROVE  TaskMoves(c, w)
<1> DEFINE t == task[c][w]
           u == task'[c][w]
<1>t. \A d \in Controls, v \in Tasks : task[d][v] \in TaskType
  BY DEF TypeOK
<1>w. "writer" \in Tasks /\ "mirror" \in Tasks
  BY DEF Tasks
<1>o. ASSUME NEW d \in Controls, NEW v \in Tasks, NEW r \in TaskType,
             task' = [task EXCEPT ![d][v] = r]
      PROVE  (d = c /\ v = w /\ u = r) \/ u = t
  BY <1>o, TaskUpdate
<1>i. IdleTask \in TaskType /\ IdleTask.pc = "idle"
  BY <1>t, TaskRecords DEF IdleTask
<1>r. ASSUME NEW r \in TaskType
      PROVE  Refreshing(r) \in TaskType /\ Refreshing(r).pc = "read" /\ Refreshing(r).at = 1
  BY <1>r, TaskRecords DEF Refreshing, IdleTask
<1>1. ASSUME NEW d \in Controls, Poll(d) PROVE TaskMoves(c, w)
  <2>1. Refreshing(task[d]["mirror"]) \in TaskType
    BY <1>t, <1>w, <1>r
  <2> QED
    BY <1>1, <2>1, <1>t, <1>w, <1>o, <1>r DEF Poll, TaskMoves
<1>2. ASSUME NEW d \in Controls, NEW v \in Tasks, ReadScope(d, v) PROVE TaskMoves(c, w)
  <2> DEFINE old == task[d][v]
             b == old.found \/ store[ScopesOf[d][old.at]].frozen
             new == [old EXCEPT !.at = old.at + 1, !.found = b]
  <2>1. old \in TaskType
    BY <1>t
  <2>2. old.found \in BOOLEAN /\ old.at \in Nat \ {0} /\ old.at <= Len(ScopesOf[d])
    BY <1>2, <2>1 DEF ReadScope, TaskType
  <2>3. ScopesOf[d] \in Seq(Scopes)
    BY GovernanceAssumption DEF GovernanceAssumption
  <2>4. store[ScopesOf[d][old.at]].frozen \in BOOLEAN
    BY <2>2, <2>3, ScopeOfControl DEF TypeOK
  <2>5. b \in BOOLEAN
    BY <2>2, <2>4
  <2>6. new \in TaskType /\ new.pc = old.pc /\ new.at = old.at + 1 /\ new.found = b
        /\ new.since = old.since
    <3> HIDE DEF b
    <3>1. new \in TaskType
      BY <2>1, <2>5, TaskRecords
    <3> QED
      BY <2>1, <3>1 DEF TaskType
  <2>7. task' = [task EXCEPT ![d][v] = new] /\ old.pc = "read"
    BY <1>2 DEF ReadScope
  <2>8. (d = c /\ v = w /\ u = new) \/ u = t
    <3> HIDE DEF new
    <3> QED
      BY <2>6, <2>7, <1>o
  <2> HIDE DEF new
  <2> QED
    BY <2>2, <2>6, <2>7, <2>8 DEF TaskMoves
<1>3. ASSUME NEW d \in Controls, NEW v \in Tasks, Touch(d, v) PROVE TaskMoves(c, w)
  <2> DEFINE old == task[d][v]
             new == [old EXCEPT !.pc = "replace", !.at = 1]
  <2>1. old \in TaskType /\ new \in TaskType
    BY <1>t, TaskRecords
  <2>2. new.pc = "replace" /\ new.found = old.found /\ new.since = old.since
    BY <2>1 DEF TaskType
  <2>3. task' = [task EXCEPT ![d][v] = new] /\ old.pc = "read" /\ old.at > Len(ScopesOf[d])
    BY <1>3 DEF Touch
  <2>4. (d = c /\ v = w /\ u = new) \/ u = t
    <3> HIDE DEF new
    <3> QED
      BY <2>1, <2>3, <1>o
  <2> HIDE DEF new
  <2> QED
    BY <2>2, <2>3, <2>4 DEF TaskMoves
<1>4. ASSUME NEW d \in Controls, NEW v \in Tasks, task' = [task EXCEPT ![d][v] = IdleTask]
      PROVE TaskMoves(c, w)
  BY <1>4, <1>i, <1>o DEF TaskMoves
<1>5. ASSUME NEW d \in Controls, NEW v \in Tasks, Replace(d, v) \/ Failed(d, v)
      PROVE TaskMoves(c, w)
  BY <1>4, <1>5 DEF Replace, Failed
<1>6. ASSUME NEW d \in Controls, NEW want \in BOOLEAN, Ask(d, want) PROVE TaskMoves(c, w)
  <2> DEFINE old == task[d]["writer"]
             new == [old EXCEPT !.pc = "get", !.want = want]
  <2>1. old \in TaskType /\ new \in TaskType
    BY <1>t, <1>w, TaskRecords
  <2>2. new.pc = "get"
    BY <2>1 DEF TaskType
  <2>3. task' = [task EXCEPT ![d]["writer"] = new]
    BY <1>6 DEF Ask
  <2> HIDE DEF new
  <2> QED
    BY <2>1, <2>2, <2>3, <1>w, <1>o DEF TaskMoves
<1>7. ASSUME NEW d \in Controls, Get(d) PROVE TaskMoves(c, w)
  <2> DEFINE old == task[d]["writer"]
             e == store[Primary(d)].epoch
             held == [old EXCEPT !.pc = "set", !.epoch = e]
             new == IF ~old.want /\ ~store[Primary(d)].frozen THEN Refreshing(old) ELSE held
  <2>1. old \in TaskType
    BY <1>t, <1>w
  <2>2. e \in Nat
    BY PrimaryIsScope DEF TypeOK
  <2>3. held \in TaskType /\ held.pc = "set"
    <3> HIDE DEF e
    <3>1. held \in TaskType
      BY <2>1, <2>2, TaskRecords
    <3> QED
      BY <2>1, <3>1 DEF TaskType
  <2>4. task' = [task EXCEPT ![d]["writer"] = new]
    BY <1>7 DEF Get
  <2> HIDE DEF held
  <2>5. new \in TaskType /\ (new.pc = "set" \/ (new.pc = "read" /\ new.at = 1))
    BY <2>1, <2>3, <1>r
  <2> HIDE DEF new
  <2> QED
    BY <2>4, <2>5, <1>w, <1>o DEF TaskMoves
<1>8. ASSUME NEW d \in Controls, Set(d) PROVE TaskMoves(c, w)
  <2>1. task[d]["writer"] \in TaskType
    BY <1>t, <1>w
  <2> QED
    BY <1>8, <2>1, <1>w, <1>o, <1>r DEF Set, TaskMoves
<1>9. ASSUME NEW d \in Controls, Conflict(d) PROVE TaskMoves(c, w)
  <2> DEFINE old == task[d]["writer"]
             new == [old EXCEPT !.pc = "get", !.tries = old.tries + 1]
  <2>1. CASE Failed(d, "writer")
    BY <2>1, <1>5, <1>w
  <2>2. CASE task' = [task EXCEPT ![d]["writer"] = new]
    <3>1. old \in TaskType /\ new \in TaskType
      BY <1>t, <1>w, TaskRecords
    <3>2. new.pc = "get"
      BY <3>1 DEF TaskType
    <3> HIDE DEF new
    <3> QED
      BY <2>2, <3>1, <3>2, <1>w, <1>o DEF TaskMoves
  <2> QED
    BY <1>9, <2>1, <2>2 DEF Conflict
<1>10. ASSUME NEW d \in Controls, Restart(d) PROVE TaskMoves(c, w)
  <2>1. u = IF d = c THEN IdleTask ELSE t
    BY <1>10 DEF Restart, TypeOK
  <2> QED
    BY <2>1, <1>i DEF TaskMoves
<1>11. CASE UNCHANGED task
  BY <1>11 DEF TaskMoves
<1>12. ASSUME NEW d \in Controls, ReadFails(d, "mirror") \/ ReadFails(d, "writer") \/ WriteFails(d)
       PROVE  TaskMoves(c, w)
  BY <1>5, <1>12, <1>w DEF ReadFails, WriteFails
<1> QED
  BY <1>1, <1>2, <1>3, <1>5, <1>6, <1>7, <1>8, <1>9, <1>10, <1>11, <1>12
     DEF Next, RefreshStep, SetLocal, Elsewhere, vars, Tasks
(* The same of Tick: a refresh in progress ages, and never beyond MaxRead. *)
LEMMA TaskTick ==
    ASSUME TypeOK, Tick, NEW c \in Controls, NEW w \in Tasks
    PROVE  LET t == task[c][w]
               u == task'[c][w]
           IN  /\ u.pc = t.pc /\ u.at = t.at /\ u.found = t.found
               /\ t.pc \in {"read", "replace"} => u.since = t.since + 1
<1>1. task[c][w] \in TaskType
  BY DEF TypeOK
<1>2. task'[c][w] = IF task[c][w].pc \in {"read", "replace"}
                    THEN [task[c][w] EXCEPT !.since = @ + 1] ELSE task[c][w]
  BY DEF Tick
<1> QED
  BY <1>1, <1>2 DEF TaskType

(* What a refresh read unfrozen stays dated by the refresh. *)
LEMMA SeenStep ==
    TypeOK /\ FrozenTime /\ SeenUnfrozen /\ [Next]_vars => SeenUnfrozen'
<1> SUFFICES ASSUME TypeOK, FrozenTime, SeenUnfrozen, [Next]_vars,
                    NEW c \in Controls, NEW w \in Tasks, NEW i \in 1 .. Len(ScopesOf[c]),
                    HasRead(task[c][w], i)', ~task'[c][w].found
             PROVE  frozenFor'[ScopesOf[c][i]] <= task'[c][w].since
  BY DEF SeenUnfrozen
<1> DEFINE t == task[c][w]
           u == task'[c][w]
           s == ScopesOf[c][i]
<1>1. s \in Scopes /\ ScopesOf[c] \in Seq(Scopes)
  BY ScopeOfControl, GovernanceAssumption DEF GovernanceAssumption
<1>2. t \in TaskType
  BY DEF TypeOK
<1>3. t.since \in Nat /\ t.at \in Nat \ {0} /\ t.found \in BOOLEAN
  BY <1>2, GovernanceAssumption DEF TaskType, GovernanceAssumption
<1>4. frozenFor[s] \in Nat /\ store[s].frozen \in BOOLEAN
  BY <1>1, GovernanceAssumption DEF GovernanceAssumption, TypeOK, Longest
<1>5. TypeOK'
  BY TypeStep
<1>6. frozenFor'[s] \in Nat
  BY <1>1, <1>5, GovernanceAssumption DEF GovernanceAssumption, TypeOK, Longest
<1>7. \/ frozenFor'[s] <= frozenFor[s]
      \/ Tick /\ frozenFor'[s] <= frozenFor[s] + 1
  BY <1>1, FrozenTimeStep
<1>8. ASSUME HasRead(t, i), ~t.found PROVE frozenFor[s] <= t.since
  BY <1>8 DEF SeenUnfrozen
<1>u. u.pc = "replace" \/ (u.pc = "read" /\ i < u.at)
  BY DEF HasRead
<1>9. CASE Tick
  <2>1. /\ u.pc = t.pc /\ u.at = t.at /\ u.found = t.found
        /\ t.pc \in {"read", "replace"} => u.since = t.since + 1
    BY <1>9, TaskTick
  <2>2. HasRead(t, i) /\ ~t.found /\ u.since = t.since + 1
    BY <1>u, <2>1 DEF HasRead
  <2> QED
    BY <1>3, <1>4, <1>6, <1>7, <1>8, <2>2
<1>10. CASE ~Tick
  <2>1. frozenFor'[s] <= frozenFor[s]
    BY <1>7, <1>10
  <2>2. TaskMoves(c, w)
    BY <1>10, TaskStep
  <2>3. CASE u = t
    BY <1>3, <1>4, <1>6, <1>8, <1>u, <2>1, <2>3 DEF HasRead
  <2>4. CASE /\ t.pc = "read" /\ t.at <= Len(ScopesOf[c])
             /\ u.pc = "read" /\ u.at = t.at + 1 /\ u.since = t.since
             /\ u.found = (t.found \/ store[ScopesOf[c][t.at]].frozen)
    <3>1. ~t.found /\ ~store[ScopesOf[c][t.at]].frozen
      BY <2>4
    <3>2. CASE i = t.at
      <4>1. frozenFor[s] = 0
        BY <1>1, <3>1, <3>2 DEF FrozenTime
      <4> QED
        BY <1>3, <1>6, <2>1, <2>4, <4>1
    <3>3. CASE i < t.at
      BY <1>3, <1>4, <1>6, <1>8, <2>1, <2>4, <3>1, <3>3 DEF HasRead
    <3> QED
      BY <1>3, <1>u, <2>4, <3>2, <3>3
  <2>5. CASE /\ t.pc = "read" /\ t.at > Len(ScopesOf[c])
             /\ u.pc = "replace" /\ u.found = t.found /\ u.since = t.since
    <3>1. i < t.at
      BY <1>1, <1>3, <2>5
    <3> QED
      BY <1>3, <1>4, <1>6, <1>8, <2>1, <2>5, <3>1 DEF HasRead
  <2> QED
    BY <1>u, <2>2, <2>3, <2>4, <2>5 DEF TaskMoves
<1> QED
  BY <1>9, <1>10

(* A task that is about to replace the result does so, unless the process  *)
(* restarts.                                                               *)
LEMMA ReplaceNext ==
    ASSUME TypeOK, [Next]_vars, ~Tick, NEW c \in Controls, NEW w \in Tasks,
           task[c][w].pc = "replace"
    PROVE  task'[c][w].pc = "replace" \/ Replace(c, w) \/ Restart(c)
<1> DEFINE Goal == task'[c][w].pc = "replace" \/ Replace(c, w) \/ Restart(c)
<1>w. "writer" \in Tasks /\ "mirror" \in Tasks
  BY DEF Tasks
<1>o. ASSUME NEW d \in Controls, NEW v \in Tasks, NEW r,
             task[d][v].pc # "replace" \/ d # c \/ v # w,
             task' = [task EXCEPT ![d][v] = r]
      PROVE  Goal
  BY <1>o DEF TypeOK
<1>1. ASSUME NEW d \in Controls, Poll(d) PROVE Goal
  BY <1>1, <1>w, <1>o DEF Poll
<1>2. ASSUME NEW d \in Controls, NEW v \in Tasks, ReadScope(d, v) PROVE Goal
  BY <1>2, <1>o DEF ReadScope
<1>3. ASSUME NEW d \in Controls, NEW v \in Tasks, Touch(d, v) PROVE Goal
  BY <1>3, <1>o DEF Touch
<1>4. ASSUME NEW d \in Controls, NEW v \in Tasks, Replace(d, v) PROVE Goal
  <2>1. CASE d = c /\ v = w
    BY <1>4, <2>1
  <2>2. CASE d # c \/ v # w
    BY <1>4, <1>o, <2>2 DEF Replace
  <2> QED
    BY <2>1, <2>2
<1>5. ASSUME NEW d \in Controls, NEW v \in Tasks, Failed(d, v), task[d][v].pc # "replace"
      PROVE  Goal
  BY <1>5, <1>o DEF Failed
<1>6. ASSUME NEW d \in Controls, NEW want \in BOOLEAN, Ask(d, want) PROVE Goal
  BY <1>6, <1>w, <1>o DEF Ask
<1>7. ASSUME NEW d \in Controls, Get(d) PROVE Goal
  BY <1>7, <1>w, <1>o DEF Get
<1>8. ASSUME NEW d \in Controls, Set(d) PROVE Goal
  BY <1>8, <1>w, <1>o DEF Set
<1>9. ASSUME NEW d \in Controls, Conflict(d) PROVE Goal
  <2>1. task[d]["writer"].pc # "replace"
    BY <1>9 DEF Conflict
  <2>2. CASE Failed(d, "writer")
    BY <2>1, <2>2, <1>5, <1>w
  <2>3. CASE ~Failed(d, "writer")
    BY <1>9, <2>1, <2>3, <1>w, <1>o DEF Conflict
  <2> QED
    BY <2>2, <2>3
<1>10. ASSUME NEW d \in Controls, Restart(d) PROVE Goal
  <2>1. CASE d = c
    BY <1>10, <2>1
  <2>2. CASE d # c
    BY <1>10, <2>2 DEF Restart, TypeOK
  <2> QED
    BY <2>1, <2>2
<1>11. CASE UNCHANGED task
  BY <1>11
<1>12. ASSUME NEW d \in Controls, NEW v \in Tasks, ReadFails(d, v) PROVE Goal
  BY <1>5, <1>12 DEF ReadFails
<1>13. ASSUME NEW d \in Controls, WriteFails(d) PROVE Goal
  BY <1>5, <1>13, <1>w DEF WriteFails
<1> QED
  BY <1>1, <1>2, <1>3, <1>4, <1>6, <1>7, <1>8, <1>9, <1>10, <1>11, <1>12, <1>13
     DEF Next, RefreshStep, SetLocal, Elsewhere, vars

(* A control's view changes only in a refresh or a restart; a refresh that *)
(* has just made it fresh has its result still to apply.                   *)
LEMMA ViewStep ==
    ASSUME TypeOK, [Next]_vars, ~Tick, NEW c \in Controls
    PROVE  \/ age'[c] = age[c] /\ replicated'[c] = replicated[c]
           \/ age'[c] = Never
           \/ \E w \in Tasks : Touch(c, w) /\ task'[c][w].pc = "replace"
           \/ \E w \in Tasks : Replace(c, w)
<1> DEFINE Goal == \/ age'[c] = age[c] /\ replicated'[c] = replicated[c]
                   \/ age'[c] = Never
                   \/ \E w \in Tasks : Touch(c, w) /\ task'[c][w].pc = "replace"
                   \/ \E w \in Tasks : Replace(c, w)
<1>1. CASE UNCHANGED <<age, replicated>>
  BY <1>1
<1>2. ASSUME NEW d \in Controls, NEW w \in Tasks, Touch(d, w) PROVE Goal
  <2>1. CASE d = c
    <3>1. task[c][w] \in TaskType
      BY DEF TypeOK
    <3>2. task'[c][w].pc = "replace"
      BY <1>2, <2>1, <3>1 DEF Touch, TypeOK, TaskType
    <3> QED
      BY <1>2, <2>1, <3>2
  <2>2. CASE d # c
    BY <1>2, <2>2 DEF Touch, TypeOK
  <2> QED
    BY <2>1, <2>2
<1>3. ASSUME NEW d \in Controls, NEW w \in Tasks, Replace(d, w) PROVE Goal
  <2>1. CASE d = c
    BY <1>3, <2>1
  <2>2. CASE d # c
    BY <1>3, <2>2 DEF Replace, TypeOK
  <2> QED
    BY <2>1, <2>2
<1>4. ASSUME NEW d \in Controls, Restart(d) PROVE Goal
  <2>1. CASE d = c
    BY <1>4, <2>1 DEF Restart, TypeOK
  <2>2. CASE d # c
    BY <1>4, <2>2 DEF Restart, TypeOK
  <2> QED
    BY <2>1, <2>2
<1> QED
  BY <1>1, <1>2, <1>3, <1>4
     DEF Next, RefreshStep, Poll, ReadScope, ReadFails, Ask, SetLocal, Get, Set, Conflict,
         WriteFails, Elsewhere, vars

(* What was applied stays dated by its age. *)
LEMMA AppliedStep ==
    TypeOK /\ FrozenTime /\ SeenUnfrozen /\ AppliedUnfrozen /\ [Next]_vars
        => AppliedUnfrozen'
<1> SUFFICES ASSUME TypeOK, FrozenTime, SeenUnfrozen, AppliedUnfrozen, [Next]_vars,
                    NEW c \in Controls, NEW i \in 1 .. Len(ScopesOf[c]),
                    ~Applying(c)', ~replicated'[c], age'[c] <= MaxStaleness
             PROVE  frozenFor'[ScopesOf[c][i]] <= age'[c] + MaxRead
  BY DEF AppliedUnfrozen
<1> DEFINE s == ScopesOf[c][i]
<1>c. MaxStaleness \in Nat /\ MaxRead \in Nat
  BY GovernanceAssumption DEF GovernanceAssumption
<1>1. s \in Scopes
  BY ScopeOfControl
<1>2. frozenFor[s] \in Nat /\ age[c] \in Nat /\ age[c] <= Never
  BY <1>1, <1>c DEF TypeOK, Longest, Never
<1>3. TypeOK'
  BY TypeStep
<1>4. frozenFor'[s] \in Nat /\ age'[c] \in Nat
  BY <1>1, <1>3, <1>c DEF TypeOK, Longest, Never
<1>5. \/ frozenFor'[s] <= frozenFor[s]
      \/ Tick /\ frozenFor'[s] <= frozenFor[s] + 1
  BY <1>1, FrozenTimeStep
<1>6. ASSUME ~Applying(c), ~replicated[c], age[c] <= MaxStaleness
      PROVE  frozenFor[s] <= age[c] + MaxRead
  BY <1>6 DEF AppliedUnfrozen
<1>7. CASE Tick
  <2>1. ~Applying(c)
    <3>1. \A w \in Tasks : task'[c][w].pc = task[c][w].pc
      BY <1>7, TaskTick
    <3> QED
      BY <3>1 DEF Applying
  <2>2. ~replicated[c]
    BY <1>7 DEF Tick
  <2>3. age'[c] = IF age[c] < Never THEN age[c] + 1 ELSE Never
    BY <1>7 DEF Tick
  <2>4. age[c] <= MaxStaleness /\ age'[c] = age[c] + 1
    BY <1>2, <1>c, <2>3 DEF Never
  <2>5. frozenFor[s] <= age[c] + MaxRead
    BY <1>6, <2>1, <2>2, <2>4
  <2>6. frozenFor'[s] <= frozenFor[s] + 1
    BY <1>2, <1>4, <1>5
  <2>7. frozenFor'[s] <= (age[c] + 1) + MaxRead
    <3> HIDE DEF s
    <3> QED
      BY <1>2, <1>4, <1>c, <2>5, <2>6
  <2> QED
    BY <2>4, <2>7
<1>8. ASSUME NEW w \in Tasks, Replace(c, w), ~Tick
      PROVE  frozenFor'[s] <= age'[c] + MaxRead
  <2>1. task[c][w].pc = "replace" /\ replicated'[c] = task[c][w].found
    BY <1>8 DEF Replace, TypeOK
  <2>2. frozenFor[s] <= task[c][w].since
    BY <2>1 DEF SeenUnfrozen, HasRead
  <2>3. task[c][w] \in TaskType
    BY DEF TypeOK
  <2>4. task[c][w].since \in 0 .. MaxRead
    BY <2>3 DEF TaskType
  <2>5. frozenFor'[s] <= frozenFor[s]
    BY <1>5, <1>8
  <2>6. frozenFor'[s] <= MaxRead
    <3> HIDE DEF s
    <3> QED
      BY <1>2, <1>4, <1>c, <2>2, <2>4, <2>5
  <2> QED
    BY <1>4, <1>c, <2>6
<1>9. CASE ~Tick /\ ~(\E w \in Tasks : Replace(c, w))
  <2>0. age'[c] # Never
    BY <1>c DEF Never
  <2>1. ~Applying(c)
    <3>1. SUFFICES ASSUME NEW w \in Tasks, task[c][w].pc = "replace" PROVE FALSE
      BY DEF Applying
    <3>2. task'[c][w].pc # "replace"
      BY DEF Applying
    <3>3. ~Restart(c)
      BY <2>0 DEF Restart, TypeOK
    <3> QED
      BY <1>9, <3>1, <3>2, <3>3, ReplaceNext
  <2>2. \A w \in Tasks : task'[c][w].pc # "replace"
    BY DEF Applying
  <2>3. age'[c] = age[c] /\ replicated'[c] = replicated[c]
    BY <1>9, <2>0, <2>2, ViewStep
  <2>4. frozenFor'[s] <= frozenFor[s]
    BY <1>5, <1>9
  <2>5. frozenFor[s] <= age[c] + MaxRead
    BY <1>6, <2>1, <2>3
  <2> QED
    BY <1>2, <1>4, <1>c, <2>3, <2>4, <2>5
<1> QED
  BY <1>7, <1>8, <1>9

(* The initial states satisfy the invariant: nobody has read anything.     *)
LEMMA GInvInit == Init => GInv
<1> SUFFICES ASSUME Init PROVE GInv
  OBVIOUS
<1>1. FrozenTime
  BY DEF Init, FrozenTime
<1>2. SeenUnfrozen
  BY DEF Init, SeenUnfrozen, HasRead, IdleTask
<1>3. AppliedUnfrozen
  BY GovernanceAssumption DEF GovernanceAssumption, Init, AppliedUnfrozen, Never
<1> QED
  BY <1>1, <1>2, <1>3, TypeInit DEF GInv

(* A fail-closed control never passes a check while a scope it mirrors has *)
(* been frozen for longer than the staleness limit and one refresh, for    *)
(* any number of processes, writers, failures and restarts.                *)
THEOREM FreezeIsBounded == Spec => []FreezeBounded
<1>1. GInv /\ [Next]_vars => GInv'
  BY TypeStep, FrozenTimeStep, SeenStep, AppliedStep DEF GInv
<1>2. GInv => FreezeBounded
  <2> SUFFICES ASSUME GInv, NEW c \in Controls \ FailOpen, NEW i \in 1 .. Len(ScopesOf[c]),
                      Passes(c), ~Applying(c)
               PROVE  frozenFor[ScopesOf[c][i]] <= MaxStaleness + MaxRead
    BY DEF FreezeBounded, Mirrored
  <2>1. MaxStaleness \in Nat /\ MaxRead \in Nat
    BY GovernanceAssumption DEF GovernanceAssumption
  <2>2. age[c] \in Nat /\ ScopesOf[c][i] \in Scopes
    BY <2>1, ScopeOfControl DEF GInv, TypeOK, Never
  <2>3. frozenFor[ScopesOf[c][i]] \in Nat
    BY <2>1, <2>2 DEF GInv, TypeOK, Longest
  <2>4. ~replicated[c] /\ ~(age[c] > MaxStaleness)
    BY DEF Passes, IsFrozen, IsStale
  <2>5. age[c] <= MaxStaleness
    BY <2>1, <2>2, <2>4
  <2>6. frozenFor[ScopesOf[c][i]] <= age[c] + MaxRead
    BY <2>4, <2>5 DEF GInv, AppliedUnfrozen
  <2> QED
    BY <2>1, <2>2, <2>3, <2>5, <2>6
<1> QED
  BY <1>1, <1>2, GInvInit, PTL DEF Spec

(* A writer about to set has read no later epoch than the store's, and, if *)
(* it is still the store's and the request lifts a freeze, read it frozen. *)
HoldsWhatItRead ==
    \A c \in Controls :
        LET t == task[c]["writer"]
            state == store[Primary(c)]
        IN  t.pc = "set" => /\ t.epoch <= state.epoch
                            /\ (t.epoch = state.epoch /\ ~t.want) => state.frozen

(* Only Get makes a writer ready to set. *)
LEMMA ReadyToSet ==
    ASSUME TypeOK, [Next]_vars, NEW c \in Controls, task'[c]["writer"].pc = "set"
    PROVE  \/ task'[c]["writer"] = task[c]["writer"]
           \/ (Get(c) /\ UNCHANGED store
                   /\ task'[c]["writer"] = [task[c]["writer"] EXCEPT
                                               !.pc = "set", !.epoch = store[Primary(c)].epoch]
                   /\ (task[c]["writer"].want \/ store[Primary(c)].frozen))
<1> DEFINE t == task[c]["writer"]
           u == task'[c]["writer"]
           Goal == \/ u = t
                   \/ /\ Get(c) /\ UNCHANGED store
                      /\ u = [t EXCEPT !.pc = "set", !.epoch = store[Primary(c)].epoch]
                      /\ t.want \/ store[Primary(c)].frozen
<1>w. "writer" \in Tasks
  BY DEF Tasks
<1>1. ASSUME NEW d \in Controls, Get(d) PROVE Goal
  <2>1. CASE d = c
    <3>1. u = IF ~t.want /\ ~store[Primary(c)].frozen THEN Refreshing(t)
              ELSE [t EXCEPT !.pc = "set", !.epoch = store[Primary(c)].epoch]
      BY <1>1, <1>w, <2>1 DEF Get, TypeOK
    <3>2. Refreshing(t).pc # "set"
      BY DEF Refreshing, IdleTask
    <3>3. t.want \/ store[Primary(c)].frozen
      BY <3>1, <3>2
    <3>4. u = [t EXCEPT !.pc = "set", !.epoch = store[Primary(c)].epoch]
      BY <3>1, <3>3
    <3> QED
      BY <1>1, <2>1, <3>3, <3>4 DEF Get
  <2>2. CASE d # c
    BY <1>1, <2>2 DEF Get, TypeOK
  <2> QED
    BY <2>1, <2>2
<1>2. CASE Tick
  <2>1. u.pc = t.pc
    BY <1>2, <1>w, TaskTick
  <2>2. u = IF t.pc \in {"read", "replace"} THEN [t EXCEPT !.since = @ + 1] ELSE t
    BY <1>2, <1>w DEF Tick
  <2> QED
    BY <2>1, <2>2
<1>3. ASSUME ~Tick, ~(\E d \in Controls : Get(d)) PROVE u = t
  <2>t. \A d \in Controls, v \in Tasks : task[d][v] \in TaskType
    BY DEF TypeOK
  <2>m. "mirror" \in Tasks
    BY DEF Tasks
  <2>i. IdleTask.pc = "idle"
    BY DEF IdleTask
  <2>r. ASSUME NEW r PROVE Refreshing(r).pc = "read"
    BY DEF Refreshing, IdleTask
  <2>o. ASSUME NEW d \in Controls, NEW v \in Tasks, NEW r, r.pc # "set",
               task' = [task EXCEPT ![d][v] = r]
        PROVE  u = t
    BY <1>w, <2>o DEF TypeOK
  <2>1. ASSUME NEW d \in Controls, Poll(d) PROVE u = t
    BY <2>1, <2>m, <2>o, <2>r DEF Poll
  <2>2. ASSUME NEW d \in Controls, NEW v \in Tasks, ReadScope(d, v) PROVE u = t
    <3> DEFINE old == task[d][v]
               b == old.found \/ store[ScopesOf[d][old.at]].frozen
               new == [old EXCEPT !.at = old.at + 1, !.found = b]
    <3>1. old \in TaskType /\ old.pc = "read"
      BY <2>2, <2>t DEF ReadScope
    <3>2. new.pc = "read"
      <4> HIDE DEF b
      <4> QED
        BY <3>1 DEF TaskType
    <3>3. task' = [task EXCEPT ![d][v] = new]
      BY <2>2 DEF ReadScope
    <3> HIDE DEF new
    <3> QED
      BY <3>2, <3>3, <2>o
  <2>3. ASSUME NEW d \in Controls, NEW v \in Tasks, Touch(d, v) PROVE u = t
    <3> DEFINE new == [task[d][v] EXCEPT !.pc = "replace", !.at = 1]
    <3>1. task[d][v] \in TaskType
      BY <2>t
    <3>2. new.pc = "replace"
      BY <3>1 DEF TaskType
    <3>3. task' = [task EXCEPT ![d][v] = new]
      BY <2>3 DEF Touch
    <3> HIDE DEF new
    <3> QED
      BY <3>2, <3>3, <2>o
  <2>4. ASSUME NEW d \in Controls, NEW v \in Tasks, Replace(d, v) \/ Failed(d, v) PROVE u = t
    BY <2>4, <2>i, <2>o DEF Replace, Failed
  <2>5. ASSUME NEW d \in Controls, NEW want \in BOOLEAN, Ask(d, want) PROVE u = t
    <3> DEFINE new == [task[d]["writer"] EXCEPT !.pc = "get", !.want = want]
    <3>1. task[d]["writer"] \in TaskType
      BY <1>w, <2>t
    <3>2. new.pc = "get"
      BY <3>1 DEF TaskType
    <3>3. task' = [task EXCEPT ![d]["writer"] = new]
      BY <2>5 DEF Ask
    <3> HIDE DEF new
    <3> QED
      BY <1>w, <3>2, <3>3, <2>o
  <2>6. ASSUME NEW d \in Controls, Set(d) PROVE u = t
    BY <1>w, <2>6, <2>o, <2>r DEF Set
  <2>7. ASSUME NEW d \in Controls, Conflict(d) PROVE u = t
    <3> DEFINE old == task[d]["writer"]
               new == [old EXCEPT !.pc = "get", !.tries = old.tries + 1]
    <3>1. CASE Failed(d, "writer")
      BY <1>w, <2>4, <3>1
    <3>2. CASE task' = [task EXCEPT ![d]["writer"] = new]
      <4>1. old \in TaskType
        BY <1>w, <2>t
      <4>2. new.pc = "get"
        BY <4>1 DEF TaskType
      <4> HIDE DEF new
      <4> QED
        BY <1>w, <3>2, <4>2, <2>o
    <3> QED
      BY <2>7, <3>1, <3>2 DEF Conflict
  <2>8. ASSUME NEW d \in Controls, Restart(d) PROVE u = t
    BY <1>w, <2>8, <2>i DEF Restart, TypeOK
  <2>9. ASSUME NEW d \in Controls, NEW v \in Tasks, ReadFails(d, v) PROVE u = t
    BY <2>4, <2>9 DEF ReadFails
  <2>10. ASSUME NEW d \in Controls, WriteFails(d) PROVE u = t
    BY <1>w, <2>4, <2>10 DEF WriteFails
  <2>11. CASE UNCHANGED task
    BY <2>11
  <2> QED
    BY <1>3, <2>1, <2>2, <2>3, <2>4, <2>5, <2>6, <2>7, <2>8, <2>9, <2>10, <2>11
       DEF Next, RefreshStep, SetLocal, Elsewhere, vars
<1> QED
  BY <1>1, <1>2, <1>3

(* A scope's state only changes to the next epoch. *)
LEMMA EpochStep ==
    ASSUME TypeOK, [Next]_vars, NEW s \in Scopes
    PROVE  store'[s] = store[s] \/ store'[s].epoch = store[s].epoch + 1
<1> DEFINE Goal == store'[s] = store[s] \/ store'[s].epoch = store[s].epoch + 1
<1>1. ASSUME NEW d \in Controls, Set(d) PROVE Goal
  BY <1>1, PrimaryIsScope DEF Set, TypeOK
<1>2. ASSUME NEW r \in Scopes, NEW want \in BOOLEAN, Elsewhere(r, want) PROVE Goal
  BY <1>2 DEF Elsewhere, TypeOK
<1>3. CASE UNCHANGED store
  BY <1>3
<1>4. CASE Tick
  BY <1>4 DEF Tick
<1> QED
  BY <1>1, <1>2, <1>3, <1>4, StoreStep

(* What a writer holds stays as it read it, or is out of date. *)
LEMMA HoldsStep == TypeOK /\ HoldsWhatItRead /\ [Next]_vars => HoldsWhatItRead'
<1> SUFFICES ASSUME TypeOK, HoldsWhatItRead, [Next]_vars,
                    NEW c \in Controls, task'[c]["writer"].pc = "set"
             PROVE  LET u == task'[c]["writer"]
                        state == store'[Primary(c)]
                    IN  /\ u.epoch <= state.epoch
                        /\ (u.epoch = state.epoch /\ ~u.want) => state.frozen
  BY DEF HoldsWhatItRead, Primary
<1> DEFINE t == task[c]["writer"]
           u == task'[c]["writer"]
           s == Primary(c)
<1>1. s \in Scopes
  BY PrimaryIsScope
<1>2. t \in TaskType /\ store[s].epoch \in Nat
  BY <1>1 DEF TypeOK, Tasks
<1>3. t.epoch \in Nat
  BY <1>2 DEF TaskType
<1>4. CASE u = t
  <2>1. /\ t.epoch <= store[s].epoch
        /\ (t.epoch = store[s].epoch /\ ~t.want) => store[s].frozen
    BY <1>4 DEF HoldsWhatItRead
  <2>2. store'[s] = store[s] \/ store'[s].epoch = store[s].epoch + 1
    BY <1>1, EpochStep
  <2> QED
    BY <1>2, <1>3, <1>4, <2>1, <2>2
<1>5. CASE /\ UNCHANGED store
           /\ u = [t EXCEPT !.pc = "set", !.epoch = store[s].epoch]
           /\ t.want \/ store[s].frozen
  <2>1. u.epoch = store[s].epoch /\ u.want = t.want
    BY <1>2, <1>5 DEF TaskType
  <2> QED
    BY <1>2, <1>5, <2>1
<1> QED
  BY <1>4, <1>5, ReadyToSet

(* Every change has the next epoch, and no unfreeze changes a scope that   *)
(* is not frozen: the compare-and-swap holds a writer to what it read.     *)
THEOREM ChangesAreOfWhatWasRead == Spec => ChangesWhatWasRead
<1>1. Init => HoldsWhatItRead
  BY DEF Init, HoldsWhatItRead, IdleTask, Tasks
<1>2. TypeOK /\ HoldsWhatItRead /\ [Next]_vars
        => [\A s \in Scopes : store'[s] # store[s] =>
               /\ store'[s].epoch = store[s].epoch + 1
               /\ store'[s].frozen \/ store[s].frozen]_vars
  <2> SUFFICES ASSUME TypeOK, HoldsWhatItRead, [Next]_vars,
                      NEW s \in Scopes, store'[s] # store[s]
               PROVE  store'[s].epoch = store[s].epoch + 1 /\ (store'[s].frozen \/ store[s].frozen)
    OBVIOUS
  <2>1. store'[s].epoch = store[s].epoch + 1
    BY EpochStep
  <2>2. ASSUME NEW c \in Controls, Set(c) PROVE store'[s].frozen \/ store[s].frozen
    <3>1. s = Primary(c) /\ store'[s].frozen = task[c]["writer"].want
      BY <2>2, PrimaryIsScope DEF Set, TypeOK
    <3>2. task[c]["writer"].want \in BOOLEAN
      BY DEF TypeOK, Tasks, TaskType
    <3> QED
      BY <2>2, <3>1, <3>2 DEF Set, HoldsWhatItRead
  <2>3. ASSUME NEW r \in Scopes, NEW want \in BOOLEAN, Elsewhere(r, want)
        PROVE  store'[s].frozen \/ store[s].frozen
    BY <2>3 DEF Elsewhere, TypeOK
  <2>4. ~Tick
    BY DEF Tick
  <2> QED
    BY <2>1, <2>2, <2>3, <2>4, StoreStep
<1> QED
  BY <1>1, <1>2, HoldsStep, TypeInit, TypeStep, PTL DEF Spec, ChangesWhatWasRead

=============================================================================
