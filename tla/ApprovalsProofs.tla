--------------------------- MODULE ApprovalsProofs ---------------------------
(***************************************************************************)
(* What the approval service guarantees for any number of approvers,       *)
(* handlers, tickers, holds and crashes, and with or without the           *)
(* assumption that outcomes are applied promptly.                          *)
(***************************************************************************)
EXTENDS Approvals, FiniteSetTheorems, TLAPS

(* What a replica that is doing something has read, as far as it still     *)
(* holds: nothing it read is true of a version that is no longer there.    *)
Reader(p) ==
    /\ proc[p].pc # "idle" => /\ proc[p].id \in Holds
                              /\ request[proc[p].id].state # "Absent"
                              /\ proc[p].at <= request[proc[p].id].version
    /\ proc[p].pc = "decide" => /\ proc[p].kind # "none"
                                /\ proc[p].kind \in {"approve", "edit"}
                                      => proc[p].who \in Approvers \cup Backups
    /\ (proc[p].pc \in {"decide", "expire", "escalate"} /\ Swaps(p))
          => request[proc[p].id].state = "Pending"
    /\ (proc[p].pc = "decide" /\ proc[p].kind = "approve" /\ Swaps(p))
          => proc[p].args = request[proc[p].id].args
    /\ (proc[p].pc = "escalate" /\ Swaps(p)) => ~request[proc[p].id].fired
    /\ proc[p].pc \in {"check", "write", "wake", "mark"} => Resolved(proc[p].id)

(* The approvals that count are of the arguments that would execute.       *)
Counts(r) ==
    /\ \A v \in r.votes : v[2] = r.args
    /\ r.state = "Approved" => Cardinality(Voters(r.votes)) >= Quorum

(* A change of a request is a new version of it, and leaves a resolved one *)
(* resolved as it was.                                                     *)
Moves(h) ==
    /\ request'[h].state # "Absent"
    /\ request'[h].version > request[h].version
    /\ Resolved(h) => /\ request'[h].state = request[h].state
                      /\ request'[h].votes = request[h].votes
                      /\ request'[h].args = request[h].args
    /\ request[h].fired => request'[h].fired
    /\ Counts(request'[h])

(* What a step of p alone does. *)
StepOf(p) ==
    /\ TypeOK'
    /\ Reader(p)'
    /\ \A q \in Procs \ {p} : proc'[q] = proc[q]
    /\ \A h \in Holds : request'[h] = request[h] \/ Moves(h)

AInv ==
    /\ TypeOK
    /\ \A p \in Procs : Reader(p)
    /\ \A h \in Holds : Counts(request[h])
    /\ \A h \in Holds : request[h].state = "Absent"
                          => request[h].version = 0 /\ ~request[h].fired

-----------------------------------------------------------------------------
(* The initial values are well typed. *)
LEMMA Types == Absent \in RequestType /\ Idle \in ProcType
  <1>1. 0 \in 0 .. MaxHolds /\ Original \in Args
    BY ApprovalsAssumption DEF Args
  <1>2. Absent \in RequestType
    BY <1>1 DEF Absent, RequestType
  <1>3. Idle \in ProcType
    BY <1>1 DEF Idle, ProcType
  <1> QED
    BY <1>2, <1>3

(* The invariant holds at the start. *)
LEMMA InitInv == Init => AInv
  <1> SUFFICES ASSUME Init PROVE AInv
    OBVIOUS
  <1> USE Types
  <1>1. TypeOK
    <2>1. request \in [Holds -> RequestType] /\ proc \in [Procs -> ProcType]
      BY DEF Init
    <2>2. age \in [Holds -> Nat] /\ notices \in [Holds -> Nat]
      BY DEF Init
    <2>3. 0 \in 0 .. MaxHolds /\ "none" \in Verdicts
      BY ApprovalsAssumption DEF Verdicts
    <2> QED
      BY <2>1, <2>2, <2>3 DEF Init, TypeOK
  <1>2. \A p \in Procs : Reader(p)
    BY DEF Init, Reader, Idle
  <1>3. \A h \in Holds : Counts(request[h]) /\ request[h].version = 0 /\ ~request[h].fired
    BY DEF Init, Counts, Absent
  <1> QED
    BY <1>1, <1>2, <1>3 DEF AInv

(* The types after a step of the run. *)
LEMMA RunTypes ==
    ASSUME AInv, Take \/ Hold \/ Submit \/ Create \/ Park
    PROVE  TypeOK'
  <1> USE ApprovalsAssumption DEF AInv, TypeOK
  <1>1. CASE Take
    BY <1>1 DEF Take, Verdicts, Args
  <1>0. RecordPending => pending' \in 0 .. MaxHolds /\ holds' \in 0 .. MaxHolds
    BY DEF RecordPending
  <1>2. CASE Hold
    BY <1>0, <1>2 DEF Hold
  <1>3. CASE Submit
    BY <1>0, <1>3 DEF Submit
  <1>4. CASE Create
    BY <1>4 DEF Create, RequestType, Absent, Args, Holds
  <1>5. CASE Park
    BY <1>5 DEF Park, store
  <1> QED
    BY <1>1, <1>2, <1>3, <1>4, <1>5

(* An approver's decision has been read and allowed. *)
LEMMA LookSteps ==
    ASSUME AInv, NEW p \in Deciders, NEW h \in Holds, Look(p, h)
    PROVE  StepOf(p)
  <1> DEFINE r == request[h]
  <1> USE ApprovalsAssumption DEF AInv
  <1>1. p \in Procs /\ r \in RequestType /\ proc \in [Procs -> ProcType]
    BY DEF Procs, TypeOK
  <1>2. request' = request /\ r.state = "Pending"
    BY DEF Look, store
  <1>3. CASE proc' = [proc EXCEPT ![p] = [Idle EXCEPT !.pc = "decide", !.id = h, !.at = r.version,
                                                      !.kind = "cancel"]]
    <2>1. proc'[p] = [pc |-> "decide", id |-> h, at |-> r.version, kind |-> "cancel",
                      who |-> "none", args |-> Original]
      BY <1>1, <1>3 DEF Idle
    <2>2. proc'[p] \in ProcType
      BY <1>1, <2>1 DEF ProcType, RequestType, Args, Holds
    <2>3. TypeOK'
      BY <1>1, <1>3, <2>1, <2>2 DEF TypeOK, Look, store, runner
    <2>4. Reader(p)'
      BY <1>1, <1>2, <2>1 DEF Reader, Swaps, RequestType
    <2> QED
      BY <1>1, <1>2, <1>3, <2>3, <2>4 DEF StepOf
  <1>4. ASSUME NEW who \in Eligible(r), NEW kind \in {"approve", "edit", "reject"},
               NEW args \in Args, kind # "edit" => args = r.args,
               proc' = [proc EXCEPT ![p] = [pc |-> "decide", id |-> h, at |-> r.version,
                                            kind |-> kind, who |-> who, args |-> args]]
        PROVE  StepOf(p)
    <2>1. proc'[p] = [pc |-> "decide", id |-> h, at |-> r.version,
                      kind |-> kind, who |-> who, args |-> args]
      BY <1>1, <1>4
    <2>2. who \in Approvers \cup Backups
      BY DEF Eligible
    <2>3. proc'[p] \in ProcType
      BY <1>1, <2>1, <2>2 DEF ProcType, RequestType, Holds
    <2>4. TypeOK'
      BY <1>1, <1>4, <2>1, <2>3 DEF TypeOK, Look, store, runner
    <2>5. Reader(p)'
      BY <1>1, <1>2, <1>4, <2>1, <2>2 DEF Reader, Swaps, RequestType
    <2> QED
      BY <1>1, <1>2, <1>4, <2>4, <2>5 DEF StepOf
  <1> QED
    BY <1>3, <1>4 DEF Look

(* tick has read a request. *)
LEMMA ListSteps ==
    ASSUME AInv, NEW p \in Tickers, NEW h \in Holds, List(p, h)
    PROVE  StepOf(p)
  <1> DEFINE r == request[h]
             todo(pc) == [Idle EXCEPT !.pc = pc, !.id = h, !.at = r.version]
  <1> USE ApprovalsAssumption DEF AInv
  <1>1. p \in Procs /\ r \in RequestType /\ proc \in [Procs -> ProcType]
    BY DEF Procs, TypeOK
  <1>2. request' = request
    BY DEF List, store
  <1>3. PICK pc \in {"check", "expire", "escalate"} :
           /\ proc' = [proc EXCEPT ![p] = todo(pc)]
           /\ pc = "check" => Resolved(h)
           /\ pc \in {"expire", "escalate"} => r.state = "Pending"
           /\ pc = "escalate" => ~r.fired
    BY DEF List
  <1>4. proc'[p] = [pc |-> pc, id |-> h, at |-> r.version, kind |-> "none",
                    who |-> "none", args |-> Original]
    BY <1>1, <1>3 DEF Idle
  <1>5. proc'[p] \in ProcType
    BY <1>1, <1>4 DEF ProcType, RequestType, Args, Holds
  <1>6. TypeOK'
    BY <1>1, <1>3, <1>4, <1>5 DEF TypeOK, List, store, runner
  <1>7. Reader(p)'
    BY <1>1, <1>2, <1>3, <1>4 DEF Reader, Swaps, RequestType, Resolved
  <1> QED
    BY <1>1, <1>2, <1>3, <1>6, <1>7 DEF StepOf

(* Steps that change the run, the decision or nothing. *)
LEMMA QuietSteps ==
    ASSUME AInv, NEW p \in Procs,
           Notify(p) \/ Lose(p) \/ Check(p) \/ Write(p) \/ Wake(p) \/ Crash(p)
    PROVE  StepOf(p)
  <1>0. TypeOK /\ Reader(p)
    BY DEF AInv
  <1>1. proc \in [Procs -> ProcType] /\ proc[p] \in ProcType
    BY <1>0 DEF TypeOK
  <1>2. request' = request
    BY DEF Notify, Lose, Check, Write, Wake, Crash, store
  <1>3. CASE proc' = [proc EXCEPT ![p] = Idle]
    <2>1. proc' \in [Procs -> ProcType]
      BY <1>1, <1>3, Types
    <2>2. ASSUME Notify(p) PROVE TypeOK'
      <3>1. proc[p].id \in Holds
        BY <1>0, <2>2 DEF Notify, Reader
      <3> QED
        BY <1>0, <2>1, <2>2, <3>1 DEF TypeOK, Notify, store, runner
    <2>3. ASSUME Lose(p) \/ Crash(p) PROVE TypeOK'
      BY <1>0, <2>1, <2>3 DEF TypeOK, Lose, Crash, store, runner
    <2>4. proc'[p].pc = "idle" /\ Reader(p)'
      BY <1>1, <1>3 DEF Reader, Idle
    <2>5. CASE Check(p) \/ Write(p) \/ Wake(p)
      BY <1>1, <1>3, <2>4, <2>5 DEF Check, Write, Wake, Become, ProcType
    <2> QED
      BY <1>1, <1>2, <1>3, <2>2, <2>3, <2>4, <2>5 DEF StepOf, Notify, Lose, Crash
  <1>4. CASE Check(p) \/ Write(p) \/ Wake(p)
    <2>1. PICK pc \in {"write", "wake", "mark"} : Become(p, pc)
      BY <1>4 DEF Check, Write, Wake
    <2>2. proc'[p] = [proc[p] EXCEPT !.pc = pc] /\ proc' \in [Procs -> ProcType]
      BY <1>1, <2>1 DEF Become, ProcType
    <2>3. proc[p].pc \in {"check", "write", "wake"}
      BY <1>4 DEF Check, Write, Wake
    <2>4. Reader(p)'
      BY <1>0, <1>1, <1>2, <2>2, <2>3 DEF Reader, Swaps, Resolved, ProcType
    <2>5. ASSUME Check(p) PROVE TypeOK'
      BY <1>0, <2>2, <2>5 DEF TypeOK, Check, store, runner
    <2>6. ASSUME Write(p) PROVE TypeOK'
      <3>1. request[proc[p].id] \in RequestType
        BY <1>0, <2>3 DEF Reader, TypeOK
      <3>2. decision' \in Verdicts
        BY <2>6, <3>1 DEF Write, Outcome, Verdicts, RequestType
      <3> QED
        BY <1>0, <2>2, <2>6, <3>2, ApprovalsAssumption DEF TypeOK, Write, runner
    <2>7. ASSUME Wake(p) PROVE TypeOK'
      BY <1>0, <2>2, <2>7 DEF TypeOK, Wake, store
    <2> QED
      BY <1>1, <1>2, <1>4, <2>1, <2>4, <2>5, <2>6, <2>7 DEF StepOf, Become
  <1> QED
    BY <1>3, <1>4 DEF Notify, Lose, Crash

(* The request with a decision counts the approvals of its own arguments. *)
LEMMA DecidedRequest ==
    ASSUME AInv, NEW p \in Procs, proc[p].pc = "decide", Swaps(p)
    PROVE  LET d == Decided(request[proc[p].id], p) IN
           /\ d \in RequestType
           /\ Counts(d)
           /\ d.state # "Absent"
           /\ d.fired = request[proc[p].id].fired
  <1> DEFINE r == request[proc[p].id]
             vote == <<proc[p].who, proc[p].args>>
             votes == Counted(r, proc[p].kind, vote)
             d == Decided(r, p)
  <1>0. SUFFICES d \in RequestType /\ Counts(d) /\ d.state # "Absent" /\ d.fired = r.fired
    OBVIOUS
  <1>1. Reader(p) /\ TypeOK /\ proc[p].id \in Holds
    BY DEF AInv, Reader
  <1>2. proc[p] \in ProcType /\ r \in RequestType /\ Counts(r) /\ r.state = "Pending"
    BY <1>1 DEF AInv, TypeOK, Reader
  <1>3. CASE proc[p].kind = "reject"
    <2>1. d = [r EXCEPT !.state = "Rejected"]
      BY <1>3 DEF Decided
    <2>2. d \in RequestType /\ d.votes = r.votes /\ d.args = r.args /\ d.state = "Rejected"
          /\ d.fired = r.fired
      BY <1>2, <2>1 DEF RequestType
    <2> QED
      BY <1>2, <2>2 DEF Counts
  <1>4. CASE proc[p].kind = "cancel"
    <2>1. d = [r EXCEPT !.state = "Cancelled"]
      BY <1>4 DEF Decided
    <2>2. d \in RequestType /\ d.votes = r.votes /\ d.args = r.args /\ d.state = "Cancelled"
          /\ d.fired = r.fired
      BY <1>2, <2>1 DEF RequestType
    <2> QED
      BY <1>2, <2>2 DEF Counts
  <1>5. CASE proc[p].kind \in {"approve", "edit"}
    <2>1. proc[p].who \in Approvers \cup Backups /\ proc[p].args \in Args
      BY <1>1, <1>2, <1>5 DEF Reader, ProcType
    <2>2. vote \in (Approvers \cup Backups) \X Args /\ vote[2] = proc[p].args
      BY <2>1
    <2>3. votes \in SUBSET ((Approvers \cup Backups) \X Args)
      BY <1>2, <2>2 DEF Counted, RequestType
    <2> DEFINE args == IF proc[p].kind = "edit" THEN proc[p].args ELSE r.args
               state == IF Cardinality(Voters(votes)) >= Quorum THEN "Approved" ELSE "Pending"
    <2>4. d = [r EXCEPT !.votes = votes, !.args = args, !.state = state]
      BY <1>5 DEF Decided
    <2>5. args \in Args /\ state \in {"Approved", "Pending"}
      BY <1>2, <2>1 DEF RequestType
    <2>6. d \in RequestType /\ d.votes = votes /\ d.args = args /\ d.state = state
          /\ d.fired = r.fired
      <3> HIDE DEF votes, args, state, d
      <3> QED
        BY <1>2, <2>3, <2>4, <2>5 DEF RequestType
    <2>7. \A v \in votes : v[2] = args
      BY <1>1, <1>2, <1>5, <2>2 DEF Counted, Counts, Reader
    <2>8. state = "Approved" => Cardinality(Voters(votes)) >= Quorum
      OBVIOUS
    <2> HIDE DEF votes, args, state, d
    <2> QED
      BY <2>5, <2>6, <2>7, <2>8 DEF Counts
  <1> QED
    BY <1>1, <1>2, <1>3, <1>4, <1>5 DEF Reader, ProcType

(* A decision is recorded. *)
LEMMA DecideSteps ==
    ASSUME AInv, NEW p \in Procs, Decide(p)
    PROVE  StepOf(p)
  <1> DEFINE h == proc[p].id
             d == Decided(request[h], p)
             next == [d EXCEPT !.version = proc[p].at + 1]
  <1>1. TypeOK /\ Reader(p) /\ proc[p].pc = "decide" /\ Swaps(p)
    BY DEF AInv, Decide
  <1>2. h \in Holds /\ proc[p].at \in Nat /\ proc \in [Procs -> ProcType]
    BY <1>1 DEF Reader, TypeOK, ProcType
  <1>3. d \in RequestType /\ Counts(d) /\ d.state # "Absent" /\ d.fired = request[h].fired
    BY <1>1, DecidedRequest
  <1>4. /\ request' = [request EXCEPT ![h] = next]
        /\ age' = [age EXCEPT ![h] = IF next.state = "Pending" THEN @ ELSE 0]
        /\ proc' = [proc EXCEPT ![p] =
              IF next.state = "Pending" THEN Idle
              ELSE [Idle EXCEPT !.pc = "write", !.id = h, !.at = next.version]]
        /\ UNCHANGED <<pending, decision, holds, runner, notices, crashes>>
    BY DEF Decide
  <1>5. request[h].version = proc[p].at /\ request[h].state = "Pending"
    BY <1>1 DEF Reader, Swaps
  <1> HIDE DEF h, d
  <1>6. /\ next \in RequestType /\ Counts(next) /\ next.state = d.state
        /\ next.version = proc[p].at + 1 /\ next.fired = request[h].fired
    BY <1>2, <1>3 DEF RequestType, Counts
  <1> HIDE DEF next
  <1>7. request' \in [Holds -> RequestType] /\ request'[h] = next
        /\ \A g \in Holds \ {h} : request'[g] = request[g]
    BY <1>1, <1>2, <1>4, <1>6 DEF TypeOK
  <1>8. \A g \in Holds : request'[g] = request[g] \/ Moves(g)
    BY <1>2, <1>3, <1>5, <1>6, <1>7 DEF Moves, Resolved
  <1>9. proc'[p] = Idle \/ (/\ proc'[p] = [pc |-> "write", id |-> h, at |-> next.version,
                                         kind |-> "none", who |-> "none", args |-> Original]
                           /\ next.state # "Pending")
    BY <1>2, <1>4 DEF Idle
  <1>10. proc'[p] \in ProcType
    <2>1. h \in 0 .. MaxHolds /\ next.version \in Nat /\ Original \in Args
      BY <1>2, <1>6, ApprovalsAssumption DEF Holds, RequestType, Args
    <2> QED
      BY <2>1, <1>9, Types DEF ProcType
  <1>11. proc' \in [Procs -> ProcType]
    BY <1>2, <1>4, <1>10
  <1>12. age' \in [Holds -> Nat]
    BY <1>1, <1>2, <1>4 DEF TypeOK
  <1>13. TypeOK'
    BY <1>1, <1>4, <1>7, <1>11, <1>12 DEF TypeOK, runner
  <1>14. Reader(p)'
    <2>1. CASE proc'[p] = Idle
      BY <2>1 DEF Reader, Idle
    <2>2. CASE proc'[p].pc = "write" /\ proc'[p].id = h /\ proc'[p].at = next.version
               /\ next.state # "Pending"
      <3>1. next.version \in Nat /\ next.state # "Absent"
        BY <1>3, <1>6 DEF RequestType
      <3> QED
        BY <1>2, <1>7, <2>2, <3>1 DEF Reader, Resolved
    <2> QED
      BY <1>9, <2>1, <2>2
  <1> QED
    BY <1>4, <1>8, <1>13, <1>14 DEF StepOf

(* What tick and apply make of a request is one. *)
LEMMA ChangedRequest ==
    ASSUME NEW r \in RequestType
    PROVE  /\ [r EXCEPT !.state = "Expired", !.version = r.version + 1] \in RequestType
           /\ [r EXCEPT !.fired = TRUE, !.version = r.version + 1] \in RequestType
           /\ [r EXCEPT !.applied = TRUE, !.version = r.version + 1] \in RequestType
  <1>1. PICK v \in Nat : r.version + 1 = v
    BY DEF RequestType
  <1>2. [r EXCEPT !.state = "Expired", !.version = v] \in RequestType
    BY DEF RequestType
  <1>3. [r EXCEPT !.fired = TRUE, !.version = v] \in RequestType
    BY DEF RequestType
  <1>4. [r EXCEPT !.applied = TRUE, !.version = v] \in RequestType
    BY DEF RequestType
  <1> QED
    BY <1>1, <1>2, <1>3, <1>4

(* A request expires. *)
LEMMA ExpireSteps ==
    ASSUME AInv, NEW p \in Procs, Expire(p)
    PROVE  StepOf(p)
  <1> DEFINE h == proc[p].id
             r == request[h]
             next == [r EXCEPT !.state = "Expired", !.version = r.version + 1]
  <1>1. TypeOK /\ Reader(p) /\ proc[p].pc = "expire" /\ Swaps(p)
    BY DEF AInv, Expire
  <1>2. h \in Holds /\ proc[p] \in ProcType /\ r \in RequestType /\ Counts(r)
    BY <1>1 DEF Reader, TypeOK, AInv
  <1>3. r.version = proc[p].at /\ r.state = "Pending"
    BY <1>1 DEF Reader, Swaps
  <1>4. request' = [request EXCEPT ![h] = next]
    BY <1>1, <1>2 DEF Expire, TypeOK
  <1>5. /\ age' = [age EXCEPT ![h] = 0]
        /\ proc' = [proc EXCEPT ![p] = [Idle EXCEPT !.pc = "write", !.id = h,
                                                    !.at = proc[p].at + 1]]
        /\ UNCHANGED <<pending, decision, holds, runner, notices, crashes>>
    BY DEF Expire
  <1>6. next \in RequestType
    BY <1>2, ChangedRequest
  <1>7. /\ next.votes = r.votes /\ next.args = r.args /\ next.fired = r.fired
        /\ next.state = "Expired" /\ next.version = r.version + 1
    BY <1>2 DEF RequestType
  <1>8. Counts(next)
    BY <1>2, <1>7 DEF Counts
  <1>9. r.version \in Nat /\ proc[p].at \in Nat
    BY <1>2 DEF RequestType, ProcType
  <1> HIDE DEF next
  <1>10. /\ request' \in [Holds -> RequestType] /\ request'[h] = next
         /\ \A g \in Holds \ {h} : request'[g] = request[g]
    BY <1>1, <1>2, <1>4, <1>6 DEF TypeOK
  <1>11. \A g \in Holds : request'[g] = request[g] \/ Moves(g)
    BY <1>3, <1>7, <1>8, <1>9, <1>10 DEF Moves, Resolved
  <1>12. proc'[p] = [pc |-> "write", id |-> h, at |-> proc[p].at + 1,
                     kind |-> "none", who |-> "none", args |-> Original]
    BY <1>1, <1>5 DEF TypeOK, Idle
  <1>13. proc'[p] \in ProcType
    <2>1. h \in 0 .. MaxHolds /\ proc[p].at + 1 \in Nat /\ Original \in Args
      BY <1>2, <1>9, ApprovalsAssumption DEF Holds, Args
    <2> QED
      BY <2>1, <1>12 DEF ProcType
  <1>14. proc' \in [Procs -> ProcType] /\ age' \in [Holds -> Nat]
    BY <1>1, <1>2, <1>5, <1>13 DEF TypeOK
  <1>15. TypeOK'
    BY <1>1, <1>5, <1>10, <1>14 DEF TypeOK, runner
  <1>16. Reader(p)'
    BY <1>2, <1>3, <1>7, <1>9, <1>10, <1>12 DEF Reader, Resolved
  <1> QED
    BY <1>5, <1>11, <1>15, <1>16 DEF StepOf

(* A request escalates. *)
LEMMA EscalateSteps ==
    ASSUME AInv, NEW p \in Procs, Escalate(p)
    PROVE  StepOf(p)
  <1> DEFINE h == proc[p].id
             r == request[h]
             next == [r EXCEPT !.fired = TRUE, !.version = r.version + 1]
  <1>1. TypeOK /\ Reader(p) /\ proc[p].pc = "escalate" /\ Swaps(p)
    BY DEF AInv, Escalate
  <1>2. h \in Holds /\ proc[p] \in ProcType /\ r \in RequestType /\ Counts(r)
    BY <1>1 DEF Reader, TypeOK, AInv
  <1>3. r.version = proc[p].at /\ r.state = "Pending"
    BY <1>1 DEF Reader, Swaps
  <1>4. request' = [request EXCEPT ![h] = next]
    BY <1>1, <1>2 DEF Escalate, TypeOK
  <1>5. /\ proc' = [proc EXCEPT ![p].pc = "notify"]
        /\ UNCHANGED <<age, pending, decision, holds, runner, notices, crashes>>
    BY DEF Escalate, Become
  <1>6. next \in RequestType
    BY <1>2, ChangedRequest
  <1>7. /\ next.votes = r.votes /\ next.args = r.args /\ next.state = r.state
        /\ next.fired /\ next.version = r.version + 1
    BY <1>2 DEF RequestType
  <1>8. Counts(next)
    BY <1>2, <1>7 DEF Counts
  <1>9. r.version \in Nat /\ proc[p].at \in Nat
    BY <1>2 DEF RequestType, ProcType
  <1> HIDE DEF next
  <1>10. /\ request' \in [Holds -> RequestType] /\ request'[h] = next
         /\ \A g \in Holds \ {h} : request'[g] = request[g]
    BY <1>1, <1>2, <1>4, <1>6 DEF TypeOK
  <1>11. \A g \in Holds : request'[g] = request[g] \/ Moves(g)
    BY <1>3, <1>7, <1>8, <1>9, <1>10 DEF Moves, Resolved
  <1>12. /\ proc' \in [Procs -> ProcType] /\ proc'[p].pc = "notify"
         /\ proc'[p].id = h /\ proc'[p].at = proc[p].at
    BY <1>1, <1>2, <1>5 DEF TypeOK, ProcType
  <1>13. TypeOK'
    BY <1>1, <1>5, <1>10, <1>12 DEF TypeOK, runner
  <1>14. Reader(p)'
    BY <1>2, <1>3, <1>7, <1>9, <1>10, <1>12 DEF Reader
  <1> QED
    BY <1>5, <1>11, <1>13, <1>14 DEF StepOf

(* An outcome is marked as applied. *)
LEMMA MarkSteps ==
    ASSUME AInv, NEW p \in Procs, Mark(p)
    PROVE  StepOf(p)
  <1> DEFINE h == proc[p].id
             r == request[h]
             next == [r EXCEPT !.applied = TRUE, !.version = r.version + 1]
  <1>1. TypeOK /\ Reader(p) /\ proc[p].pc = "mark"
    BY DEF AInv, Mark
  <1>2. h \in Holds /\ Resolved(h) /\ r \in RequestType /\ Counts(r)
    BY <1>1 DEF Reader, TypeOK, AInv
  <1>3. /\ proc' = [proc EXCEPT ![p] = Idle]
        /\ UNCHANGED <<age, pending, decision, holds, runner, notices, crashes>>
    BY DEF Mark
  <1>4. request' = request \/ request' = [request EXCEPT ![h] = next]
    BY <1>1, <1>2 DEF Mark, TypeOK
  <1>5. /\ next.votes = r.votes /\ next.args = r.args /\ next.state = r.state
        /\ next.fired = r.fired /\ next.version = r.version + 1 /\ r.version \in Nat
    BY <1>2 DEF RequestType
  <1>6. next \in RequestType
    BY <1>2, ChangedRequest
  <1>7. Counts(next)
    BY <1>2, <1>5 DEF Counts
  <1> HIDE DEF next
  <1>8. /\ request' \in [Holds -> RequestType] /\ request'[h] \in {r, next}
        /\ \A g \in Holds \ {h} : request'[g] = request[g]
    BY <1>1, <1>2, <1>4, <1>6 DEF TypeOK
  <1>9. \A g \in Holds : request'[g] = request[g] \/ Moves(g)
    BY <1>2, <1>5, <1>7, <1>8 DEF Moves, Resolved
  <1>10. proc' \in [Procs -> ProcType] /\ proc'[p] = Idle
    BY <1>1, <1>3, Types DEF TypeOK
  <1>11. TypeOK'
    BY <1>1, <1>3, <1>8, <1>10 DEF TypeOK, runner
  <1>12. Reader(p)'
    BY <1>10 DEF Reader, Idle
  <1> QED
    BY <1>3, <1>9, <1>11, <1>12 DEF StepOf

-----------------------------------------------------------------------------
(* Every step, as seen by a request and by a replica. *)
LEMMA RunSteps ==
    ASSUME AInv, Take \/ Hold \/ Submit \/ Create \/ Park \/ Pass
    PROVE  /\ TypeOK'
           /\ proc' = proc
           /\ \A h \in Holds : request'[h] = request[h] \/ Moves(h)
  <1>1. CASE Pass
    <2>1. TypeOK /\ age' \in [Holds -> Nat]
      BY <1>1 DEF AInv, TypeOK, Pass
    <2> QED
      BY <1>1, <2>1 DEF Pass, TypeOK, runner
  <1>2. CASE Create
    <2>1. TypeOK'
      BY <1>2, RunTypes
    <2>2. ASSUME NEW h \in Holds, request'[h] # request[h]
          PROVE  Moves(h)
      <3>1. request \in [Holds -> RequestType]
        BY DEF AInv, TypeOK
      <3>2. /\ request[h].state = "Absent" /\ h = held
            /\ request'[h] = [Absent EXCEPT !.state = "Pending", !.version = 1]
        BY <1>2, <2>2, <3>1 DEF Create
      <3>3. request[h].version = 0
        BY <3>2 DEF AInv
      <3>4. request'[h] = [state |-> "Pending", version |-> 1, votes |-> {}, args |-> Original,
                           fired |-> FALSE, applied |-> FALSE]
        BY <3>2 DEF Absent
      <3>5. Counts(request'[h])
        BY <3>4 DEF Counts
      <3>6. ~Resolved(h) /\ ~request[h].fired
        <4>1. ~Resolved(h)
          BY <3>2 DEF Resolved
        <4>2. request[h].fired => FALSE
          BY <3>1, <3>2 DEF AInv
        <4> QED
          BY <4>1, <4>2
      <3> QED
        BY <3>3, <3>4, <3>5, <3>6 DEF Moves
    <2> QED
      BY <1>2, <2>1, <2>2 DEF Create
  <1>3. CASE Take \/ Hold \/ Submit \/ Park
    BY <1>3, RunTypes DEF Take, Hold, Submit, Park, store
  <1> QED
    BY <1>1, <1>2, <1>3

LEMMA EveryStep ==
    ASSUME AInv, [Next]_vars
    PROVE  /\ TypeOK'
           /\ \A h \in Holds : request'[h] = request[h] \/ Moves(h)
           /\ \A p \in Procs : proc'[p] = proc[p] \/ Reader(p)'
  <1>1. CASE UNCHANGED vars
    BY <1>1 DEF vars, store, runner, AInv, TypeOK
  <1>2. CASE Take \/ Hold \/ Submit \/ Create \/ Park \/ Pass
    BY <1>2, RunSteps
  <1>3. ASSUME NEW p \in Procs, StepOf(p)
        PROVE  /\ TypeOK'
               /\ \A h \in Holds : request'[h] = request[h] \/ Moves(h)
               /\ \A q \in Procs : proc'[q] = proc[q] \/ Reader(q)'
    BY <1>3 DEF StepOf
  <1>4. CASE \E p \in Procs : StepOf(p)
    BY <1>3, <1>4
  <1>5. ASSUME NEW p \in Procs, Step(p) \/ Crash(p)
        PROVE  StepOf(p)
    BY <1>5, DecideSteps, ExpireSteps, EscalateSteps, QuietSteps, MarkSteps DEF Step
  <1>6. ASSUME NEW p \in Deciders, NEW h \in Holds, Look(p, h)
        PROVE  StepOf(p) /\ p \in Procs
    BY <1>6, LookSteps DEF Procs
  <1>7. ASSUME NEW p \in Tickers, NEW h \in Holds, List(p, h)
        PROVE  StepOf(p) /\ p \in Procs
    BY <1>7, ListSteps DEF Procs
  <1> QED
    BY <1>1, <1>2, <1>4, <1>5, <1>6, <1>7 DEF Next

(* What a replica read of a request that has changed is of an old version. *)
LEMMA ReaderKept ==
    ASSUME AInv, TypeOK', \A h \in Holds : request'[h] = request[h] \/ Moves(h),
           NEW p \in Procs, proc'[p] = proc[p]
    PROVE  Reader(p)'
  <1> DEFINE h == proc[p].id
  <1>1. Reader(p)
    BY DEF AInv
  <1>2. CASE proc[p].pc = "idle"
    BY <1>2 DEF Reader
  <1>3. CASE proc[p].pc # "idle" /\ request'[h] = request[h]
    BY <1>1, <1>3 DEF Reader, Swaps, Resolved
  <1>4. CASE proc[p].pc # "idle" /\ Moves(h)
    <2>1. h \in Holds /\ proc[p].at <= request[h].version
      BY <1>1, <1>4 DEF Reader
    <2>2. proc[p].at \in Nat /\ request[h].version \in Nat /\ request'[h].version \in Nat
      BY <2>1 DEF AInv, TypeOK, RequestType, ProcType
    <2>3. proc[p].at < request'[h].version
      BY <1>4, <2>1, <2>2 DEF Moves
    <2>4. ~Swaps(p)'
      BY <2>2, <2>3 DEF Swaps
    <2>5. Resolved(h) => Resolved(h)'
      BY <1>4 DEF Moves, Resolved
    <2> QED
      BY <1>1, <1>4, <2>1, <2>2, <2>3, <2>4, <2>5 DEF Reader, Moves
  <1>5. proc[p].pc # "idle" => h \in Holds
    BY <1>1 DEF Reader
  <1> QED
    BY <1>2, <1>3, <1>4, <1>5

(* The invariant is inductive. *)
LEMMA InvStep == AInv /\ [Next]_vars => AInv'
  <1> SUFFICES ASSUME AInv, [Next]_vars PROVE AInv'
    OBVIOUS
  <1>1. /\ TypeOK'
        /\ \A h \in Holds : request'[h] = request[h] \/ Moves(h)
        /\ \A p \in Procs : proc'[p] = proc[p] \/ Reader(p)'
    BY EveryStep
  <1>2. \A p \in Procs : Reader(p)'
    BY <1>1, ReaderKept
  <1>3. \A h \in Holds : Counts(request'[h])
    BY <1>1 DEF Moves, AInv
  <1>4. \A h \in Holds : request'[h].state = "Absent"
                          => request'[h].version = 0 /\ ~request'[h].fired
    BY <1>1 DEF Moves, AInv
  <1> QED
    BY <1>1, <1>2, <1>3, <1>4 DEF AInv

(* The types of the variables, for every value of the constants. *)
THEOREM ApprovalTypes == Spec => []TypeOK
  <1>1. AInv => TypeOK
    BY DEF AInv
  <1> QED
    BY <1>1, InitInv, InvStep, PTL DEF Spec

(* The invariant holds in every reachable state. *)
LEMMA AInvAlways == Spec => []AInv
  BY InitInv, InvStep, PTL DEF Spec

(* Of a decision, a cancellation and an expiry that race on any number of  *)
(* replicas one resolves the request, and nothing that comes later changes *)
(* how, or what was approved (decide, cancel, tick).                       *)
THEOREM ResolutionsStay == Spec => ResolvedStays
  <1>1. AInv /\ [Next]_vars =>
          [\A h \in Holds : Resolved(h) =>
             /\ request'[h].state = request[h].state
             /\ request'[h].votes = request[h].votes
             /\ request'[h].args = request[h].args]_vars
    <2> SUFFICES ASSUME AInv, [Next]_vars, NEW h \in Holds, Resolved(h)
                 PROVE  /\ request'[h].state = request[h].state
                        /\ request'[h].votes = request[h].votes
                        /\ request'[h].args = request[h].args
      OBVIOUS
    <2> QED
      BY EveryStep DEF Moves
  <1> QED
    BY <1>1, AInvAlways, PTL DEF Spec, ResolvedStays

-----------------------------------------------------------------------------
(* A decision to execute is of arguments that were approved. *)
DecidedAsApproved ==
    decision \in Args => \E h \in Holds : Approved(h, decision)

(* What was approved stays approved. *)
LEMMA ApprovedKept ==
    ASSUME AInv, [Next]_vars, NEW h \in Holds, NEW args, Approved(h, args)
    PROVE  Approved(h, args)'
  <1>1. request'[h] = request[h] \/ Moves(h)
    BY EveryStep
  <1> QED
    BY <1>1 DEF Moves, Approved, Resolved

(* The steps that change the decision or execute the call. *)
LEMMA DecisionSteps ==
    ASSUME [Next]_vars
    PROVE  \/ Take
           \/ \E p \in Procs : Write(p)
           \/ UNCHANGED <<decision, executed, executions>>
  <1>1. CASE UNCHANGED vars
    BY <1>1 DEF vars, store, runner
  <1>2. CASE Hold \/ Submit \/ Create \/ Park \/ Pass
    BY <1>2 DEF Hold, Submit, Create, Park, Pass, store, runner
  <1>3. ASSUME NEW p \in Procs, NEW h \in Holds, Look(p, h) \/ List(p, h)
        PROVE  UNCHANGED <<decision, executed, executions>>
    BY <1>3 DEF Look, List, store, runner
  <1>4. ASSUME NEW p \in Procs,
               Decide(p) \/ Expire(p) \/ Escalate(p) \/ Notify(p) \/ Lose(p)
                 \/ Check(p) \/ Wake(p) \/ Mark(p) \/ Crash(p)
        PROVE  UNCHANGED <<decision, executed, executions>>
    BY <1>4 DEF Decide, Expire, Escalate, Notify, Lose, Check, Wake, Mark, Crash, store, runner
  <1> QED
    BY <1>1, <1>2, <1>3, <1>4 DEF Next, Step, Procs

(* Decisions and executions stay within what was approved. *)
LEMMA ExecutedStep ==
    AInv /\ DecidedAsApproved /\ ExecutedAsApproved /\ [Next]_vars
      => DecidedAsApproved' /\ ExecutedAsApproved'
  <1> SUFFICES ASSUME AInv, DecidedAsApproved, ExecutedAsApproved, [Next]_vars
               PROVE  DecidedAsApproved' /\ ExecutedAsApproved'
    OBVIOUS
  <1>1. ASSUME NEW args, \E h \in Holds : Approved(h, args)
        PROVE  \E h \in Holds : Approved(h, args)'
    BY <1>1, ApprovedKept
  <1>2. CASE UNCHANGED <<decision, executed>>
    BY <1>1, <1>2 DEF DecidedAsApproved, ExecutedAsApproved
  <1>3. CASE Take
    <2>1. decision' = "none" /\ "none" \notin Args
      BY <1>3, ApprovalsAssumption DEF Take
    <2>2. \A args \in executed' : args \in executed \/ (args = decision /\ decision \in Args)
      BY <1>3 DEF Take
    <2>3. ASSUME NEW args \in executed'
          PROVE  \E h \in Holds : Approved(h, args)
      BY <2>2 DEF DecidedAsApproved, ExecutedAsApproved
    <2>4. ExecutedAsApproved'
      BY <1>1, <2>3 DEF ExecutedAsApproved
    <2> QED
      BY <2>1, <2>4 DEF DecidedAsApproved
  <1>4. ASSUME NEW p \in Procs, Write(p)
        PROVE  DecidedAsApproved' /\ ExecutedAsApproved'
    <2> DEFINE h == proc[p].id
    <2>1. Reader(p) /\ proc[p].pc = "write" /\ executed' = executed
          /\ decision' = Outcome(request[h])
      BY <1>4 DEF AInv, Write, runner
    <2>2. h \in Holds /\ Counts(request[h])
      BY <2>1 DEF AInv, Reader
    <2>3. ASSUME decision' \in Args
          PROVE  Approved(h, decision')
      <3>1. "deny" \notin Args
        BY ApprovalsAssumption
      <3>2. request[h].state = "Approved" /\ decision' = request[h].args
        BY <2>1, <2>3, <3>1 DEF Outcome
      <3> QED
        BY <2>2, <3>2 DEF Approved, Counts
    <2>4. DecidedAsApproved'
      BY <1>1, <2>2, <2>3 DEF DecidedAsApproved
    <2>5. ExecutedAsApproved'
      BY <1>1, <2>1 DEF ExecutedAsApproved
    <2> QED
      BY <2>4, <2>5
  <1> QED
    BY <1>2, <1>3, <1>4, DecisionSteps

(* Whatever approvals, edits, expiries, cancellations, crashes and         *)
(* recoveries come together, on any number of replicas and however late,   *)
(* the call executes only with arguments that a quorum of authorities      *)
(* approved, each of them having been shown these arguments                *)
(* (quorum_progress, decide, apply).                                       *)
THEOREM ExecutesWhatWasApproved == Spec => []ExecutedAsApproved
  <1>1. Init => DecidedAsApproved /\ ExecutedAsApproved
    BY ApprovalsAssumption DEF Init, DecidedAsApproved, ExecutedAsApproved
  <1> QED
    BY <1>1, ExecutedStep, AInvAlways, PTL DEF Spec

-----------------------------------------------------------------------------
(* A request whose escalation is not recorded was not notified of, and the *)
(* replica that recorded it is the only one that will.                     *)
Notifies ==
    /\ \A h \in Holds : ~request[h].fired => notices[h] = 0
    /\ \A p \in Procs : proc[p].pc = "notify" =>
          request[proc[p].id].fired /\ notices[proc[p].id] = 0
    /\ \A p, q \in Procs :
          (proc[p].pc = "notify" /\ proc[q].pc = "notify" /\ proc[p].id = proc[q].id) => p = q
    /\ EscalatedOnce

(* The steps that notify, or that give a replica something to notify. *)
LEMMA NoticeSteps ==
    ASSUME AInv, [Next]_vars
    PROVE  \/ \E p \in Procs : Escalate(p) \/ Notify(p)
           \/ /\ notices' = notices
              /\ \A q \in Procs : proc'[q] = proc[q] \/ proc'[q].pc # "notify"
  <1>0. proc \in [Procs -> ProcType]
    BY DEF AInv, TypeOK
  <1>1. CASE UNCHANGED vars
    BY <1>1 DEF vars
  <1>2. CASE Take \/ Hold \/ Submit \/ Create \/ Park \/ Pass
    BY <1>2 DEF Take, Hold, Submit, Create, Park, Pass
  <1>3. ASSUME NEW p \in Procs, NEW h \in Holds, Look(p, h)
        PROVE  /\ notices' = notices
               /\ \A q \in Procs : proc'[q] = proc[q] \/ proc'[q].pc # "notify"
    <2>1. ASSUME NEW next, next.pc = "decide", proc' = [proc EXCEPT ![p] = next]
          PROVE  \A q \in Procs : proc'[q] = proc[q] \/ proc'[q].pc # "notify"
      BY <1>0, <2>1
    <2>2. CASE \E who, kind, args :
                 proc' = [proc EXCEPT ![p] = [pc |-> "decide", id |-> h, at |-> request[h].version,
                                              kind |-> kind, who |-> who, args |-> args]]
      BY <1>3, <2>1, <2>2 DEF Look
    <2>3. CASE proc' = [proc EXCEPT ![p] = [Idle EXCEPT !.pc = "decide", !.id = h,
                                                        !.at = request[h].version,
                                                        !.kind = "cancel"]]
      BY <1>0, <1>3, <2>3 DEF Look, Idle
    <2> QED
      BY <1>3, <2>2, <2>3 DEF Look
  <1>4. ASSUME NEW p \in Procs, NEW h \in Holds, List(p, h)
        PROVE  /\ notices' = notices
               /\ \A q \in Procs : proc'[q] = proc[q] \/ proc'[q].pc # "notify"
    BY <1>0, <1>4 DEF List, Idle
  <1>5. ASSUME NEW p \in Procs, Decide(p)
        PROVE  /\ notices' = notices
               /\ \A q \in Procs : proc'[q] = proc[q] \/ proc'[q].pc # "notify"
    BY <1>0, <1>5 DEF Decide, Idle
  <1>6. ASSUME NEW p \in Procs, Expire(p)
        PROVE  /\ notices' = notices
               /\ \A q \in Procs : proc'[q] = proc[q] \/ proc'[q].pc # "notify"
    BY <1>0, <1>6 DEF Expire, Idle
  <1>7. ASSUME NEW p \in Procs, Lose(p) \/ Mark(p) \/ Crash(p)
        PROVE  /\ notices' = notices
               /\ \A q \in Procs : proc'[q] = proc[q] \/ proc'[q].pc # "notify"
    BY <1>0, <1>7 DEF Lose, Mark, Crash, Idle
  <1>8. ASSUME NEW p \in Procs, Check(p) \/ Write(p) \/ Wake(p)
        PROVE  /\ notices' = notices
               /\ \A q \in Procs : proc'[q] = proc[q] \/ proc'[q].pc # "notify"
    <2>1. PICK pc \in {"write", "wake", "mark"} : proc' = [proc EXCEPT ![p].pc = pc]
      BY <1>8 DEF Check, Write, Wake, Become
    <2>2. \A q \in Procs : proc'[q] = proc[q] \/ proc'[q].pc = pc
      BY <1>0, <2>1 DEF ProcType
    <2> QED
      BY <1>8, <2>2 DEF Check, Write, Wake
  <1> QED
    BY <1>1, <1>2, <1>3, <1>4, <1>5, <1>6, <1>7, <1>8 DEF Next, Step, Procs

(* No step makes a second notification possible. *)
LEMMA NotifiesStep == AInv /\ Notifies /\ [Next]_vars => Notifies'
  <1> SUFFICES ASSUME AInv, Notifies, [Next]_vars PROVE Notifies'
    OBVIOUS
  <1>1. \A h \in Holds : request[h].fired => request'[h].fired
    BY EveryStep DEF Moves
  <1>2. /\ proc \in [Procs -> ProcType] /\ notices \in [Holds -> Nat]
        /\ \A p \in Procs : proc[p].pc # "idle" => proc[p].id \in Holds
    BY DEF AInv, TypeOK, Reader
  <1>3. CASE /\ notices' = notices
             /\ \A q \in Procs : proc'[q] = proc[q] \/ proc'[q].pc # "notify"
    BY <1>1, <1>2, <1>3 DEF Notifies, EscalatedOnce
  <1>4. ASSUME NEW p \in Procs, Escalate(p)
        PROVE  Notifies'
    <2> DEFINE h == proc[p].id
    <2>1. /\ h \in Holds /\ ~request[h].fired /\ notices[h] = 0 /\ proc[p].pc = "escalate"
      BY <1>2, <1>4 DEF AInv, Reader, Escalate, Notifies
    <2>2. /\ notices' = notices /\ proc'[p].id = h
          /\ \A q \in Procs \ {p} : proc'[q] = proc[q]
      BY <1>2, <1>4 DEF Escalate, Become, ProcType
    <2>3. request'[h].fired
      BY <1>4, <2>1 DEF Escalate, AInv, TypeOK, RequestType
    <2>4. \A q \in Procs \ {p} : proc'[q].pc = "notify" => proc'[q].id # h
      BY <2>1, <2>2 DEF Notifies
    <2> QED
      BY <1>1, <1>2, <2>1, <2>2, <2>3, <2>4 DEF Notifies, EscalatedOnce
  <1>5. ASSUME NEW p \in Procs, Notify(p)
        PROVE  Notifies'
    <2> DEFINE h == proc[p].id
    <2>1. h \in Holds /\ request[h].fired /\ notices[h] = 0 /\ proc[p].pc = "notify"
      BY <1>2, <1>5 DEF Notify, Notifies
    <2>2. /\ notices' = [notices EXCEPT ![h] = 1]
          /\ proc'[p].pc = "idle" /\ \A q \in Procs \ {p} : proc'[q] = proc[q]
      BY <1>2, <1>5, <2>1 DEF Notify, Idle
    <2>3. \A q \in Procs \ {p} : proc[q].pc = "notify" => proc[q].id # h
      BY <2>1 DEF Notifies
    <2> QED
      BY <1>1, <1>2, <2>1, <2>2, <2>3 DEF Notifies, EscalatedOnce
  <1> QED
    BY <1>3, <1>4, <1>5, NoticeSteps

(* An escalation of a request notifies at most once, however many replicas *)
(* tick and whichever of them stop (tick).                                 *)
THEOREM EscalatesOnce == Spec => []EscalatedOnce
  <1>1. Init => Notifies
    BY DEF Init, Notifies, EscalatedOnce, Idle
  <1>2. Notifies => EscalatedOnce
    BY DEF Notifies
  <1> QED
    BY <1>1, <1>2, NotifiesStep, AInvAlways, PTL DEF Spec

-----------------------------------------------------------------------------
(* Outcomes that are applied promptly, as long as no replica stops.  Each  *)
(* resolved request that is not marked is being applied, by one replica    *)
(* that will mark it, within the grace: no recovery starts.                *)
ApplyInv ==
    /\ \A p \in Procs : proc[p].pc # "check"
    /\ \A p \in Procs : Applying(p) => Swaps(p) /\ age[proc[p].id] < Grace
    /\ \A p, q \in Procs :
          Applying(p) /\ Applying(q) /\ proc[p].id = proc[q].id => p = q
    /\ \A h \in Holds : Resolved(h) /\ ~request[h].applied =>
          \E p \in Procs : Applying(p) /\ proc[p].id = h

(* The approved requests whose outcome was written. *)
Written ==
    {h \in Holds : /\ request[h].state = "Approved"
                   /\ \A p \in Procs : ~(proc[p].pc = "write" /\ proc[p].id = h)}

(* Each execution, and a decision that waits to be taken, is of a written  *)
(* approval of its own.                                                    *)
AuthorizedInv ==
    executions + (IF decision \in Args THEN 1 ELSE 0) <= Cardinality(Written)

PromptInv == crashes = 0 => ApplyInv /\ AuthorizedInv

(* A replica that applies nothing changes no resolved request. *)
Quiet(p) ==
    /\ ~Applying(p) /\ ~Applying(p)'
    /\ \A h \in Holds : Resolved(h) \/ Resolved(h)' =>
          request'[h] = request[h] /\ age'[h] = age[h]

(* A replica resolves a request, and starts to apply it. *)
Resolves(p, h) ==
    /\ ~Applying(p) /\ ~Resolved(h)
    /\ proc'[p].pc = "write" /\ proc'[p].id = h
    /\ proc'[p].at = request'[h].version /\ age'[h] = 0
    /\ \A g \in Holds \ {h} : request'[g] = request[g] /\ age'[g] = age[g]

(* A replica goes on with an outcome. *)
GoesOn(p) ==
    /\ Applying(p) /\ proc'[p].pc \in {"wake", "mark"}
    /\ proc'[p].id = proc[p].id /\ proc'[p].at = proc[p].at
    /\ UNCHANGED <<request, age>>

(* A replica marks an outcome it has applied. *)
Marks(p) ==
    /\ Applying(p) /\ ~Applying(p)'
    /\ request'[proc[p].id].applied
    /\ age' = age
    /\ \A g \in Holds \ {proc[p].id} : request'[g] = request[g]

(* What a step of a replica is to the outcomes. *)
Applies(p) ==
    /\ proc'[p].pc # "check"
    /\ \/ Quiet(p)
       \/ \E h \in Holds : Resolves(p, h)
       \/ GoesOn(p)
       \/ Marks(p)

(* A decision that is read changes no request. *)
LEMMA LookApplies ==
    ASSUME AInv, NEW p \in Deciders, NEW h \in Holds, Look(p, h)
    PROVE  p \in Procs /\ Applies(p)
  <1>1. p \in Procs /\ proc \in [Procs -> ProcType]
    BY DEF AInv, TypeOK, Procs
  <1>2. request' = request /\ age' = age /\ proc[p].pc = "idle"
    BY DEF Look, store
  <1>3. ASSUME NEW next, next.pc = "decide", proc' = [proc EXCEPT ![p] = next]
        PROVE  Applies(p)
    <2>1. proc'[p].pc = "decide"
      BY <1>1, <1>3
    <2> QED
      BY <1>2, <2>1 DEF Applies, Quiet, Applying
  <1>4. [Idle EXCEPT !.pc = "decide", !.id = h, !.at = request[h].version,
                     !.kind = "cancel"].pc = "decide"
    BY DEF Idle
  <1>5. ASSUME NEW who, NEW kind, NEW args
        PROVE  [pc |-> "decide", id |-> h, at |-> request[h].version,
                kind |-> kind, who |-> who, args |-> args].pc = "decide"
    OBVIOUS
  <1>6. \E next : next.pc = "decide" /\ proc' = [proc EXCEPT ![p] = next]
    BY <1>4, <1>5 DEF Look
  <1> QED
    BY <1>1, <1>3, <1>6

(* As long as outcomes are applied promptly, no tick finds one to recover. *)
LEMMA ListApplies ==
    ASSUME AInv, ApplyInv, NEW p \in Tickers, NEW h \in Holds, List(p, h)
    PROVE  p \in Procs /\ Applies(p)
  <1>1. p \in Procs /\ proc \in [Procs -> ProcType] /\ age \in [Holds -> Nat]
    BY DEF AInv, TypeOK, Procs
  <1>2. request' = request /\ age' = age /\ proc[p].pc = "idle"
    BY DEF List, store
  <1>3. ~(Resolved(h) /\ ~request[h].applied /\ Settled(h))
    <2> SUFFICES ASSUME Resolved(h), ~request[h].applied, Settled(h) PROVE FALSE
      OBVIOUS
    <2>1. PICK q \in Procs : Applying(q) /\ proc[q].id = h
      BY DEF ApplyInv
    <2>2. age[h] < Grace
      BY <2>1 DEF ApplyInv
    <2> QED
      BY <1>1, <2>2, ApprovalsAssumption DEF Settled
  <1>4. PICK pc \in {"expire", "escalate"} :
           proc' = [proc EXCEPT ![p] = [Idle EXCEPT !.pc = pc, !.id = h, !.at = request[h].version]]
    BY <1>3 DEF List
  <1>5. proc'[p].pc \in {"expire", "escalate"}
    BY <1>1, <1>4 DEF Idle
  <1> QED
    BY <1>1, <1>2, <1>5 DEF Applies, Quiet, Applying

(* A decision, or an expiry, that resolves a request is applied next. *)
LEMMA DecideApplies ==
    ASSUME AInv, NEW p \in Procs, Decide(p)
    PROVE  Applies(p)
  <1>1. TypeOK /\ Reader(p) /\ proc[p].pc = "decide" /\ Swaps(p)
    BY DEF AInv, Decide
  <1>0. PICK h \in Holds : h = proc[p].id
    BY <1>1 DEF Reader
  <1> DEFINE d == Decided(request[h], p)
             next == [d EXCEPT !.version = proc[p].at + 1]
  <1>2. h \in Holds /\ request[h].state = "Pending"
    BY <1>0, <1>1 DEF Reader
  <1>4. /\ request' = [request EXCEPT ![h] = next]
        /\ age' = [age EXCEPT ![h] = IF next.state = "Pending" THEN @ ELSE 0]
        /\ proc' = [proc EXCEPT ![p] =
              IF next.state = "Pending" THEN Idle
              ELSE [Idle EXCEPT !.pc = "write", !.id = h, !.at = next.version]]
    BY <1>0 DEF Decide
  <1> HIDE DEF next
  <1>5. /\ request'[h] = next
        /\ \A g \in Holds \ {h} : request'[g] = request[g] /\ age'[g] = age[g]
        /\ age'[h] = IF next.state = "Pending" THEN age[h] ELSE 0
    BY <1>1, <1>2, <1>4 DEF TypeOK
  <1>6. ~Resolved(h) /\ ~Applying(p)
    BY <1>1, <1>2 DEF Resolved, Applying
  <1>7. CASE next.state = "Pending"
    <2>1. proc'[p].pc = "idle"
      BY <1>1, <1>4, <1>7 DEF TypeOK, Idle
    <2>2. ~Resolved(h)'
      BY <1>5, <1>7 DEF Resolved
    <2> QED
      BY <1>2, <1>5, <1>6, <2>1, <2>2 DEF Applies, Quiet, Applying
  <1>8. CASE next.state # "Pending"
    <2>1. proc'[p] = [pc |-> "write", id |-> h, at |-> next.version,
                      kind |-> "none", who |-> "none", args |-> Original]
      BY <1>1, <1>4, <1>8 DEF TypeOK, Idle
    <2>2. Resolves(p, h)
      BY <1>2, <1>5, <1>6, <1>8, <2>1 DEF Resolves
    <2> QED
      BY <1>2, <2>1, <2>2 DEF Applies
  <1> QED
    BY <1>7, <1>8

LEMMA ExpireApplies ==
    ASSUME AInv, NEW p \in Procs, Expire(p)
    PROVE  Applies(p)
  <1> DEFINE h == proc[p].id
  <1>1. TypeOK /\ Reader(p) /\ proc[p].pc = "expire" /\ Swaps(p)
    BY DEF AInv, Expire
  <1>2. h \in Holds /\ request[h].state = "Pending" /\ request[h].version = proc[p].at
        /\ request[h] \in RequestType
    BY <1>1 DEF Reader, Swaps, TypeOK
  <1>3. /\ request' = [request EXCEPT ![h].state = "Expired", ![h].version = @ + 1]
        /\ age' = [age EXCEPT ![h] = 0]
        /\ proc' = [proc EXCEPT ![p] = [Idle EXCEPT !.pc = "write", !.id = h,
                                                    !.at = proc[p].at + 1]]
    BY DEF Expire
  <1> HIDE DEF h
  <1>4. proc'[p].pc = "write" /\ proc'[p].id = h /\ proc'[p].at = proc[p].at + 1
    BY <1>1, <1>3 DEF TypeOK, Idle
  <1>5. request'[h].version = request[h].version + 1
    BY <1>1, <1>2, <1>3 DEF TypeOK, RequestType
  <1>6. age'[h] = 0 /\ \A g \in Holds \ {h} : request'[g] = request[g] /\ age'[g] = age[g]
    BY <1>1, <1>2, <1>3 DEF TypeOK
  <1>7. Resolves(p, h)
    BY <1>1, <1>2, <1>4, <1>5, <1>6 DEF Resolves, Resolved, Applying
  <1> QED
    BY <1>2, <1>4, <1>7 DEF Applies

(* An escalation changes a request that is open. *)
LEMMA EscalateApplies ==
    ASSUME AInv, NEW p \in Procs, Escalate(p)
    PROVE  Applies(p)
  <1> DEFINE h == proc[p].id
  <1>1. TypeOK /\ Reader(p) /\ proc[p].pc = "escalate" /\ Swaps(p)
    BY DEF AInv, Escalate
  <1>2. h \in Holds /\ request[h].state = "Pending" /\ request[h] \in RequestType
    BY <1>1 DEF Reader, TypeOK
  <1>3. /\ request' = [request EXCEPT ![h].fired = TRUE, ![h].version = @ + 1]
        /\ age' = age /\ proc' = [proc EXCEPT ![p].pc = "notify"]
    BY DEF Escalate, Become
  <1> HIDE DEF h
  <1>4. request'[h].state = "Pending"
    BY <1>1, <1>2, <1>3 DEF TypeOK, RequestType
  <1>5. \A g \in Holds \ {h} : request'[g] = request[g]
    BY <1>1, <1>3 DEF TypeOK
  <1>6. proc'[p].pc = "notify"
    BY <1>1, <1>3 DEF TypeOK, ProcType
  <1> QED
    BY <1>1, <1>2, <1>3, <1>4, <1>5, <1>6 DEF Applies, Quiet, Resolved, Applying

(* The rest of a replica's steps. *)
LEMMA OtherApplies ==
    ASSUME AInv, ApplyInv, NEW p \in Procs,
           Notify(p) \/ Lose(p) \/ Check(p) \/ Write(p) \/ Wake(p) \/ Mark(p)
    PROVE  Applies(p)
  <1>1. TypeOK /\ Reader(p) /\ proc[p].pc # "check"
    BY DEF AInv, ApplyInv
  <1>2. proc \in [Procs -> ProcType] /\ proc[p] \in ProcType
    BY <1>1 DEF TypeOK
  <1>3. CASE Notify(p) \/ Lose(p)
    <2>1. proc'[p].pc = "idle"
      BY <1>2, <1>3 DEF Notify, Lose, Idle
    <2>2. request' = request /\ age' = age
      BY <1>3 DEF Notify, Lose, store
    <2>3. ~Applying(p)
      BY <1>3 DEF Notify, Lose, Applying
    <2> QED
      BY <2>1, <2>2, <2>3 DEF Applies, Quiet, Applying
  <1>4. CASE Write(p) \/ Wake(p)
    <2>1. PICK pc \in {"wake", "mark"} : proc' = [proc EXCEPT ![p].pc = pc]
      BY <1>4 DEF Write, Wake, Become
    <2>2. proc'[p].pc = pc /\ proc'[p].id = proc[p].id /\ proc'[p].at = proc[p].at
      BY <1>2, <2>1 DEF ProcType
    <2>3. request' = request /\ age' = age
      BY <1>4 DEF Write, Wake, store
    <2>4. Applying(p) /\ Applying(p)'
      BY <1>4, <2>2 DEF Write, Wake, Applying
    <2> QED
      BY <2>2, <2>3, <2>4 DEF Applies, GoesOn
  <1>5. CASE Mark(p)
    <2> DEFINE h == proc[p].id
    <2>1. Applying(p) /\ Swaps(p) /\ age' = age /\ proc'[p].pc = "idle" /\ h \in Holds
      BY <1>1, <1>2, <1>5 DEF Mark, Applying, ApplyInv, Idle, Reader
    <2>2. request[h] \in RequestType /\ request \in [Holds -> RequestType]
      BY <1>1, <2>1 DEF TypeOK
    <2>3. request' = [request EXCEPT ![h].applied = TRUE, ![h].version = @ + 1]
      BY <1>5, <2>1 DEF Mark
    <2> HIDE DEF h
    <2>4. request'[h].applied
      BY <2>1, <2>2, <2>3 DEF RequestType
    <2>5. \A g \in Holds \ {h} : request'[g] = request[g]
      BY <2>2, <2>3
    <2> QED
      BY <2>1, <2>4, <2>5 DEF Applies, Marks, Applying, h
  <1> QED
    BY <1>1, <1>3, <1>4, <1>5 DEF Check

(* Each outcome that is applied promptly stays so after a replica's step. *)
LEMMA AppliesKept ==
    ASSUME AInv, ApplyInv, NEW p \in Procs, Applies(p),
           \A q \in Procs \ {p} : proc'[q] = proc[q]
    PROVE  ApplyInv'
  <1>0. \A q \in Procs : proc'[q].pc # "check"
    BY DEF ApplyInv, Applies
  <1>1. \A q \in Procs : Applying(q) => proc[q].id \in Holds /\ Resolved(proc[q].id)
    BY DEF AInv, Reader, Applying
  <1>2. CASE Quiet(p)
    <2>1. \A q \in Procs : Applying(q)' => q # p /\ Applying(q) /\ proc'[q] = proc[q]
      BY <1>2 DEF Quiet, Applying
    <2>2. \A q \in Procs : Applying(q)' => Swaps(q)' /\ age'[proc'[q].id] < Grace
      BY <1>1, <1>2, <2>1 DEF Quiet, ApplyInv, Swaps
    <2>3. ASSUME NEW h \in Holds, Resolved(h)', ~request'[h].applied
          PROVE  \E q \in Procs : Applying(q)' /\ proc'[q].id = h
      <3>1. Resolved(h) /\ ~request[h].applied
        BY <1>2, <2>3 DEF Quiet, Resolved
      <3>2. PICK q \in Procs : Applying(q) /\ proc[q].id = h
        BY <3>1 DEF ApplyInv
      <3>3. q # p
        BY <1>2, <3>2 DEF Quiet
      <3> QED
        BY <3>2, <3>3 DEF Applying
    <2> QED
      BY <1>0, <2>1, <2>2, <2>3 DEF ApplyInv
  <1>3. ASSUME NEW h \in Holds, Resolves(p, h) PROVE ApplyInv'
    <2>1. \A q \in Procs \ {p} : Applying(q)' => Applying(q) /\ proc'[q] = proc[q]
                                                   /\ proc'[q].id \in Holds \ {h}
      BY <1>1, <1>3 DEF Resolves, Applying
    <2>2. \A q \in Procs \ {p} : Applying(q)' => Swaps(q)' /\ age'[proc'[q].id] < Grace
      BY <1>3, <2>1 DEF Resolves, ApplyInv, Swaps
    <2>3. Swaps(p)' /\ age'[proc'[p].id] < Grace /\ Applying(p)'
      BY <1>3, ApprovalsAssumption DEF Resolves, Swaps, Applying
    <2>4. ASSUME NEW g \in Holds, Resolved(g)', ~request'[g].applied
          PROVE  \E q \in Procs : Applying(q)' /\ proc'[q].id = g
      <3>1. CASE g = h
        BY <1>3, <2>3, <3>1 DEF Resolves
      <3>2. CASE g # h
        <4>1. Resolved(g) /\ ~request[g].applied
          BY <1>3, <2>4, <3>2 DEF Resolves, Resolved
        <4>2. PICK q \in Procs : Applying(q) /\ proc[q].id = g
          BY <4>1 DEF ApplyInv
        <4>3. q # p
          BY <1>3, <4>2 DEF Resolves
        <4> QED
          BY <4>2, <4>3 DEF Applying
      <3> QED
        BY <3>1, <3>2
    <2>5. \A q, r \in Procs :
            Applying(q)' /\ Applying(r)' /\ proc'[q].id = proc'[r].id => q = r
      BY <1>3, <2>1 DEF Resolves, ApplyInv
    <2> QED
      BY <1>0, <2>2, <2>3, <2>4, <2>5 DEF ApplyInv
  <1>4. CASE GoesOn(p)
    <2>1. \A q \in Procs : /\ Applying(q)' <=> Applying(q)
                           /\ proc'[q].id = proc[q].id /\ proc'[q].at = proc[q].at
      BY <1>4 DEF GoesOn, Applying
    <2>2. request' = request /\ age' = age
      BY <1>4 DEF GoesOn
    <2>3. \A q \in Procs : Applying(q)' => Swaps(q)' /\ age'[proc'[q].id] < Grace
      BY <2>1, <2>2 DEF ApplyInv, Swaps
    <2>4. \A h \in Holds : Resolved(h)' /\ ~request'[h].applied =>
            \E q \in Procs : Applying(q)' /\ proc'[q].id = h
      BY <2>1, <2>2 DEF ApplyInv, Resolved
    <2> QED
      BY <1>0, <2>1, <2>3, <2>4 DEF ApplyInv
  <1>5. CASE Marks(p)
    <2>0. PICK h \in Holds : h = proc[p].id
      BY <1>1, <1>5 DEF Marks
    <2>1. \A q \in Procs : Applying(q)' => /\ q # p /\ Applying(q) /\ proc'[q] = proc[q]
                                           /\ proc[q].id \in Holds \ {h}
      BY <1>1, <1>5, <2>0 DEF Marks, Applying, ApplyInv
    <2>2. \A q \in Procs : Applying(q)' => Swaps(q)' /\ age'[proc'[q].id] < Grace
      BY <1>5, <2>0, <2>1 DEF Marks, ApplyInv, Swaps
    <2>3. ASSUME NEW g \in Holds, Resolved(g)', ~request'[g].applied
          PROVE  \E q \in Procs : Applying(q)' /\ proc'[q].id = g
      <3>1. g # h /\ Resolved(g) /\ ~request[g].applied
        BY <1>5, <2>0, <2>3 DEF Marks, Resolved
      <3>2. PICK q \in Procs : Applying(q) /\ proc[q].id = g
        BY <3>1 DEF ApplyInv
      <3> QED
        BY <2>0, <3>1, <3>2 DEF Applying
    <2> QED
      BY <1>0, <2>1, <2>2, <2>3 DEF ApplyInv
  <1> QED
    BY <1>2, <1>3, <1>4, <1>5 DEF Applies

(* Neither the run nor the passing of time disturbs an outcome that is     *)
(* applied promptly.                                                       *)
LEMMA RunApplies ==
    ASSUME PromptApply, AInv, ApplyInv, Take \/ Hold \/ Submit \/ Create \/ Park \/ Pass
    PROVE  ApplyInv'
  <1>0. proc' = proc
    BY RunSteps
  <1>1. \A q \in Procs : Applying(q) => proc[q].id \in Holds /\ Resolved(proc[q].id)
    BY DEF AInv, Reader, Applying
  <1>2. request \in [Holds -> RequestType] /\ age \in [Holds -> Nat]
    BY DEF AInv, TypeOK
  <1>3. \A h \in Holds : Resolved(h) \/ Resolved(h)' => request'[h] = request[h]
    <2>1. CASE Create
      <3>1. \A h \in Holds : \/ request'[h] = request[h]
                             \/ /\ request[h].state = "Absent"
                                /\ request'[h] = [Absent EXCEPT !.state = "Pending", !.version = 1]
        BY <1>2, <2>1 DEF Create
      <3> QED
        BY <3>1 DEF Absent, Resolved
    <2>2. CASE Take \/ Hold \/ Submit \/ Park \/ Pass
      BY <2>2 DEF Take, Hold, Submit, Park, Pass, store
    <2> QED
      BY <2>1, <2>2
  <1>4. \A q \in Procs : Applying(q) => age'[proc[q].id] < Grace
    <2>1. CASE Pass
      <3>1. ASSUME NEW q \in Procs, Applying(q) PROVE age'[proc[q].id] < Grace
        <4>0. PICK h \in Holds : h = proc[q].id
          BY <1>1, <3>1
        <4>1. age[h] < Grace /\ age[h] \in Nat /\ Grace \in Nat
          BY <1>2, <3>1, <4>0, ApprovalsAssumption DEF ApplyInv
        <4>2. age[h] >= Grace \/ age[h] + 1 < Grace
          BY <2>1, <3>1, <4>0 DEF Pass
        <4>3. age'[h] \in {age[h], age[h] + 1}
          BY <2>1 DEF Pass
        <4> QED
          BY <4>0, <4>1, <4>2, <4>3
      <3> QED
        BY <3>1
    <2>2. CASE Take \/ Hold \/ Submit \/ Create \/ Park
      BY <2>2 DEF Take, Hold, Submit, Create, Park, store, ApplyInv
    <2> QED
      BY <2>1, <2>2
  <1>5. \A q \in Procs : Applying(q)' <=> Applying(q)
    BY <1>0 DEF Applying
  <1>6. \A q \in Procs : Applying(q) => Swaps(q)'
    BY <1>0, <1>1, <1>3 DEF ApplyInv, Swaps
  <1>7. ASSUME NEW h \in Holds, Resolved(h)', ~request'[h].applied
        PROVE  \E q \in Procs : Applying(q)' /\ proc'[q].id = h
    <2>1. Resolved(h) /\ ~request[h].applied
      BY <1>3, <1>7 DEF Resolved
    <2> QED
      BY <1>0, <1>5, <2>1 DEF ApplyInv
  <1> QED
    BY <1>0, <1>4, <1>5, <1>6, <1>7 DEF ApplyInv

(* Unless a replica stops, a step is the run's, the clock's or one that    *)
(* applies outcomes promptly.                                              *)
LEMMA PromptSteps ==
    ASSUME AInv, ApplyInv, Next, crashes' = crashes
    PROVE  \/ Take \/ Hold \/ Submit \/ Create \/ Park \/ Pass
           \/ \E p \in Procs : Applies(p) /\ \A q \in Procs \ {p} : proc'[q] = proc[q]
  <1>1. ASSUME NEW p \in Procs, Applies(p), StepOf(p)
        PROVE  \E r \in Procs : Applies(r) /\ \A q \in Procs \ {r} : proc'[q] = proc[q]
    BY <1>1 DEF StepOf
  <1>2. ASSUME NEW p \in Deciders, NEW h \in Holds, Look(p, h)
        PROVE  \E r \in Procs : Applies(r) /\ \A q \in Procs \ {r} : proc'[q] = proc[q]
    BY <1>1, <1>2, LookApplies, LookSteps
  <1>3. ASSUME NEW p \in Tickers, NEW h \in Holds, List(p, h)
        PROVE  \E r \in Procs : Applies(r) /\ \A q \in Procs \ {r} : proc'[q] = proc[q]
    BY <1>1, <1>3, ListApplies, ListSteps
  <1>4. ASSUME NEW p \in Procs, Step(p)
        PROVE  \E r \in Procs : Applies(r) /\ \A q \in Procs \ {r} : proc'[q] = proc[q]
    <2>1. StepOf(p)
      BY <1>4, DecideSteps, ExpireSteps, EscalateSteps, QuietSteps, MarkSteps DEF Step
    <2>2. Applies(p)
      BY <1>4, DecideApplies, ExpireApplies, EscalateApplies, OtherApplies DEF Step
    <2> QED
      BY <1>1, <2>1, <2>2
  <1>5. ASSUME NEW p \in Procs, Crash(p) PROVE FALSE
    <2>1. crashes \in Nat /\ crashes' = crashes + 1
      BY <1>5 DEF AInv, TypeOK, Crash
    <2> QED
      BY <2>1
  <1> QED
    BY <1>2, <1>3, <1>4, <1>5 DEF Next

(* An approval that was written stays written. *)
LEMMA WrittenStays ==
    ASSUME AInv, ApplyInv, Next, crashes' = crashes, NEW h \in Written
    PROVE  h \in Written'
  <1>1. h \in Holds /\ request[h].state = "Approved" /\ Resolved(h)
    BY DEF Written, Resolved
  <1>2. request'[h].state = "Approved"
    BY <1>1, EveryStep DEF Moves
  <1>3. CASE Take \/ Hold \/ Submit \/ Create \/ Park \/ Pass
    BY <1>1, <1>2, <1>3, RunSteps DEF Written
  <1>4. ASSUME NEW p \in Procs, Applies(p), \A q \in Procs \ {p} : proc'[q] = proc[q]
        PROVE  h \in Written'
    <2>1. ~(proc'[p].pc = "write" /\ proc'[p].id = h)
      BY <1>1, <1>4 DEF Applies, Quiet, Resolves, GoesOn, Marks, Applying
    <2> QED
      BY <1>1, <1>2, <1>4, <2>1 DEF Written
  <1> QED
    BY <1>3, <1>4, PromptSteps

(* The written approvals can be counted. *)
LEMMA WrittenFinite ==
    /\ IsFiniteSet({h \in Holds : request[h].state = "Approved"})
    /\ IsFiniteSet(Written)
    /\ Cardinality(Written) \in Nat
    /\ Cardinality(Written) <= Cardinality({h \in Holds : request[h].state = "Approved"})
  <1>1. IsFiniteSet(Holds)
    BY FS_Interval, ApprovalsAssumption DEF Holds
  <1>2. IsFiniteSet({h \in Holds : request[h].state = "Approved"})
    <2>1. {h \in Holds : request[h].state = "Approved"} \subseteq Holds
      OBVIOUS
    <2> QED
      BY <1>1, <2>1, FS_Subset
  <1>3. Written \subseteq {h \in Holds : request[h].state = "Approved"}
    BY DEF Written
  <1> QED
    BY <1>2, <1>3, FS_Subset, FS_CardinalityType

(* Executions and the decision that waits are of written approvals. *)
LEMMA AuthorizedStep ==
    ASSUME AInv, AInv', ApplyInv, AuthorizedInv, Next, crashes' = crashes
    PROVE  AuthorizedInv'
  <1>1. executions \in Nat /\ executions' \in Nat
    BY DEF AInv, TypeOK
  <1>2. IsFiniteSet(Written) /\ IsFiniteSet(Written') /\ Written \subseteq Written'
    <2>1. IsFiniteSet(Written)'
      BY WrittenFinite, PTL
    <2> QED
      BY <2>1, WrittenFinite, WrittenStays
  <1>3. /\ Cardinality(Written) \in Nat /\ Cardinality(Written') \in Nat
        /\ Cardinality(Written) <= Cardinality(Written')
    BY <1>2, FS_CardinalityType, FS_Subset
  <1>4. CASE UNCHANGED <<decision, executed, executions>>
    BY <1>1, <1>3, <1>4 DEF AuthorizedInv
  <1>5. CASE Take
    <2>1. decision' \notin Args
      BY <1>5, ApprovalsAssumption DEF Take
    <2>2. executions' = executions + (IF decision \in Args THEN 1 ELSE 0)
      BY <1>1, <1>5 DEF Take
    <2> QED
      BY <1>1, <1>3, <2>1, <2>2 DEF AuthorizedInv
  <1>6. ASSUME NEW p \in Procs, Write(p) PROVE AuthorizedInv'
    <2>0. Reader(p) /\ Applying(p) /\ proc[p].pc = "write"
      BY <1>6 DEF AInv, Write, Applying
    <2>1. PICK h \in Holds : h = proc[p].id
      BY <2>0 DEF Reader
    <2>2. /\ decision' = Outcome(request[h]) /\ executions' = executions /\ request' = request
          /\ proc' = [proc EXCEPT ![p].pc = "wake"]
      BY <1>6, <2>1 DEF Write, Become, runner
    <2>3. CASE decision' \notin Args
      BY <1>1, <1>3, <2>2, <2>3 DEF AuthorizedInv
    <2>4. CASE decision' \in Args
      <3>1. request[h].state = "Approved"
        BY <2>2, <2>4, ApprovalsAssumption DEF Outcome
      <3>2. h \notin Written
        BY <2>0, <2>1 DEF Written
      <3>3. proc'[p].pc = "wake" /\ \A q \in Procs \ {p} : proc'[q] = proc[q]
        BY <2>0, <2>2 DEF AInv, TypeOK, ProcType
      <3>4. \A q \in Procs \ {p} : ~(proc[q].pc = "write" /\ proc[q].id = h)
        BY <2>0, <2>1 DEF ApplyInv, Applying
      <3>5. h \in Written'
        BY <2>2, <3>1, <3>3, <3>4 DEF Written
      <3>6. /\ IsFiniteSet(Written \cup {h})
            /\ Cardinality(Written \cup {h}) = Cardinality(Written) + 1
        BY <1>2, <3>2, FS_AddElement
      <3>7. Cardinality(Written \cup {h}) <= Cardinality(Written')
        BY <1>2, <3>5, <3>6, FS_Subset
      <3> QED
        BY <1>1, <1>3, <2>2, <2>4, <3>6, <3>7 DEF AuthorizedInv
    <2> QED
      BY <2>3, <2>4
  <1> QED
    BY <1>4, <1>5, <1>6, DecisionSteps

(* Outcomes stay promptly applied, and executions authorized, until a      *)
(* replica stops.                                                          *)
LEMMA PromptStep ==
    ASSUME PromptApply, AInv, AInv', PromptInv, [Next]_vars
    PROVE  PromptInv'
  <1> SUFFICES ASSUME crashes' = 0 PROVE ApplyInv' /\ AuthorizedInv'
    BY DEF PromptInv
  <1>1. CASE UNCHANGED vars
    <2>1. ApplyInv /\ AuthorizedInv
      BY <1>1 DEF PromptInv, vars
    <2>2. request' = request /\ age' = age /\ proc' = proc /\ executions' = executions
          /\ decision' = decision
      BY <1>1 DEF vars, store, runner
    <2>3. ApplyInv'
      BY <2>1, <2>2 DEF ApplyInv, Applying, Swaps, Resolved
    <2>4. AuthorizedInv'
      BY <2>1, <2>2 DEF AuthorizedInv, Written
    <2> QED
      BY <2>3, <2>4
  <1>2. CASE Next
    <2>1. crashes = 0
      <3>1. crashes' = crashes \/ crashes' = crashes + 1
        BY <1>2 DEF Next, Step, Take, Hold, Submit, Create, Park, Look, List, Decide, Expire,
                    Escalate, Notify, Lose, Check, Write, Wake, Mark, Crash, Pass
      <3> QED
        BY <3>1 DEF AInv, TypeOK
    <2>2. ApplyInv /\ AuthorizedInv /\ crashes' = crashes
      BY <2>1 DEF PromptInv
    <2>3. ApplyInv'
      BY <1>2, <2>2, PromptSteps, RunApplies, AppliesKept
    <2> QED
      BY <1>2, <2>2, <2>3, AuthorizedStep
  <1> QED
    BY <1>1, <1>2

(* However often a call is held again, and whoever approves, edits, lets   *)
(* expire or recovers on any number of replicas, the call executes no more *)
(* often than it was approved, if outcomes are applied within the grace    *)
(* and no replica stops while it applies one (apply, tick).                *)
THEOREM ApprovalsAreUsedOnce ==
    ASSUME PromptApply
    PROVE  Spec => []ApprovedOnce
  <1>1. Init => PromptInv
    <2> SUFFICES ASSUME Init PROVE ApplyInv /\ AuthorizedInv
      BY DEF PromptInv
    <2>1. ApplyInv
      BY DEF Init, ApplyInv, Idle, Absent, Applying, Resolved
    <2>2. executions = 0 /\ decision \notin Args
      BY ApprovalsAssumption DEF Init
    <2> QED
      BY <2>1, <2>2, WrittenFinite DEF AuthorizedInv
  <1>2. AInv /\ AInv' /\ PromptInv /\ [Next]_vars => PromptInv'
    BY PromptStep
  <1>3. AInv /\ PromptInv => ApprovedOnce
    <2> SUFFICES ASSUME AInv, AuthorizedInv
                 PROVE  executions <= Cardinality({h \in Holds : request[h].state = "Approved"})
      BY DEF PromptInv, ApprovedOnce
    <2>1. executions \in Nat /\ executions <= Cardinality(Written)
      BY WrittenFinite DEF AInv, TypeOK, AuthorizedInv
    <2>2. Cardinality({h \in Holds : request[h].state = "Approved"}) \in Nat
      BY WrittenFinite, FS_CardinalityType
    <2> QED
      BY <2>1, <2>2, WrittenFinite
  <1> QED
    BY <1>1, <1>2, <1>3, AInvAlways, PTL DEF Spec
=============================================================================
