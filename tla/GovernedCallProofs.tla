------------------------- MODULE GovernedCallProofs -------------------------
(***************************************************************************)
(* Proofs about GovernedCall: its types, that a call executes at most      *)
(* once and an approval is spent once, that what is said of an outcome is  *)
(* what happened, and that a call is answered once.                        *)
(*                                                                         *)
(* At most once is not inductive.  It rests on where the record of a call  *)
(* can be: under the key of the attempt that issued it until the call is   *)
(* held, under the key of its hold from then on, and never under both,     *)
(* because a call is held before it is ever begun (KeyInv).  That in turn  *)
(* rests on which calls an attempt may have in hand (HoldInv).             *)
(***************************************************************************)
EXTENDS GovernedCall, FiniteSetTheorems, TLAPS

(* A step of an attempt. *)
Step(a) ==
    \/ Work(a) \/ Crash(a) \/ Drop(a)
    \/ LookFails(a) \/ BeginFails(a) \/ CompleteFails(a) \/ Breaks(a)

(* The steps that take no new call, execute nothing and record nothing. *)
Frame(a) ==
    \/ Prepare(a) \/ Recover(a) \/ Start(a) \/ NextCall(a) \/ Take(a) \/ Look(a)
    \/ AfterTool(a) \/ Save(a) \/ EndBatch(a) \/ Settle(a) \/ Done(a) \/ Failing(a)
    \/ Crash(a) \/ Drop(a) \/ LookFails(a) \/ CompleteFails(a) \/ Breaks(a)

-----------------------------------------------------------------------------
(* The inductive invariant *)

Busy == {"authorize", "hold", "look", "begin", "run", "complete", "after"}

Unbegun == {"authorize", "hold", "look", "begin"}

Known == {"done", "error"}

(* What an attempt has in hand, by where it is. *)
Shape(r) ==
    /\ (r.pc \in Busy => r.call \in Calls)
    /\ (r.pc \notin Busy \cup {"failing"} => r.call = None)
    /\ (r.pc \in {"off", "prepare", "recover", "start", "done", "resume", "model"}
            => r.todo = {})
    /\ r.call \notin r.todo
    /\ (r.pc = "complete" => r.kind \in Known)
    /\ (r.pc = "after" => r.kind \in Known \cup {"unknown"})
    /\ (r.pc = "failing" => r.kind \in {"Queued", "Failed"})

TypeInv == TypeOK /\ \A a \in Attempts : Shape(att[a])

(* The calls an attempt has still to answer, and those it has not begun. *)
Open(a, c) == c \in att[a].todo \/ att[a].call = c

Early(r) == r.todo \cup (IF r.pc \in Unbegun THEN {r.call} ELSE {})

(* A call that was surfaced, or is about to be. *)
Parted(c) == surfaced[c] # {} \/ \E a \in Attempts : c \in att[a].held

(* A batch is of calls its attempt issued, or of calls that were surfaced. *)
OpenInv == \A a \in Attempts, c \in Calls :
    Open(a, c) => IF att[a].resuming THEN surfaced[c] # {} ELSE issuer[c] = a

HeldInv == \A a \in Attempts : \A c \in att[a].held : issuer[c] = a \/ surfaced[c] # {}

SurfacedInv ==
    /\ \A c \in holds : surfaced[c] # {}
    /\ \A c \in Calls : (surfaced[c] # {} => issuer[c] # 0)

PartedInv == \A a \in Attempts, c \in Calls : Parted(c) /\ Open(a, c) => att[a].resuming

HoldInv == OpenInv /\ HeldInv /\ SurfacedInv /\ PartedInv

(* A record is under the key of the hold or of the issuer, never both. *)
HeldKeyInv == \A c \in Calls : ledger[c][Held] # "none" => surfaced[c] # {}

OwnKeyInv == \A c \in Calls : \A k \in Attempts :
    ledger[c][k] # "none" => issuer[c] = k /\ ~Parted(c)

EarlyInv == \A a \in Attempts :
    ~att[a].resuming => \A c \in Early(att[a]) : ledger[c][a] = "none"

KeyInv == HeldKeyInv /\ OwnKeyInv /\ EarlyInv

(* An execution has a record, and is the only one of its call. *)
RunningInv == \A a \in Attempts : At(a, "run") => Record(a) = "begun" /\ ran[att[a].call] = 0

AloneInv == \A a, b \in Attempts :
    At(a, "run") /\ At(b, "run") /\ att[a].call = att[b].call => a = b

RanInv ==
    /\ \A c \in Calls : ran[c] # 0 => \E k \in 0 .. MaxAttempts : ledger[c][k] # "none"
    /\ \A a \in Attempts : att[a].pc \in {"complete", "after"} => ran[att[a].call] # 0

RunInv == RunningInv /\ AloneInv /\ RanInv /\ AtMostOnce

OnceInv == HoldInv /\ KeyInv /\ RunInv

(* What ledger, attempts and session know of an outcome is what happened. *)
OutcomeInv == \A c \in Calls : outcome[c] # "none" => ran[c] # 0

RecordInv == \A c \in Calls : \A k \in 0 .. MaxAttempts :
    ledger[c][k] \in Known => outcome[c] = ledger[c][k]

KindInv == \A a \in Attempts :
    att[a].pc \in {"complete", "after"} /\ att[a].kind \in Known => outcome[att[a].call] = att[a].kind

OutInv == \A a \in Attempts : \A m \in att[a].out : m[2] \in Known => outcome[m[1]] = m[2]

SaidInv == \A c \in Calls : \A o \in Known : o \in said[c] => outcome[c] = o

TruthInv == OutcomeInv /\ RecordInv /\ KindInv /\ OutInv /\ SaidInv

(* How the record of an attempt moves: its work only shrinks, or it passes *)
(* on only what is known.                                                  *)
Narrows(r, s) ==
    /\ s.todo \subseteq r.todo
    /\ (s.call = None \/ s.call = r.call \/ s.call \in r.todo)
    /\ Early(s) \subseteq Early(r)
    /\ s.held \subseteq r.held
    /\ (s.todo # {} \/ s.call # None => s.resuming = r.resuming)
    /\ (s.pc = "run" => r.pc = "run" /\ s.call = r.call)
    /\ (s.pc \in {"complete", "after"} => r.pc \in {"complete", "after"} /\ s.call = r.call)

Honest(r, s) ==
    /\ (s.pc \in {"complete", "after"} =>
            r.pc \in {"complete", "after"} /\ s.call = r.call /\ s.kind = r.kind)
    /\ \A m \in s.out : m \in r.out \/ m[2] \notin Known \/ outcome[m[1]] = m[2]

(* The types of the attempts, of the ledger, and of everything but the     *)
(* attempts.                                                               *)
Attended == att \in [Attempts -> AttemptType]

Records == ledger \in [Calls -> [0 .. MaxAttempts -> {"none", "begun", "done", "error"}]]

RestTyped ==
    /\ run \in {"Queued", "Running", "Waiting", "Completed", "Failed"}
    /\ epoch \in 0 .. MaxAttempts
    /\ wake \in BOOLEAN
    /\ checkpoint \in 0 .. MaxAttempts
    /\ issuer \in [Calls -> 0 .. MaxAttempts]
    /\ said \in [Calls -> SUBSET Kinds]
    /\ holds \in SUBSET Calls
    /\ surfaced \in [Calls -> SUBSET Attempts]
    /\ final \in 0 .. MaxAttempts
    /\ ledger \in [Calls -> [0 .. MaxAttempts -> {"none", "begun", "done", "error"}]]
    /\ pending \in SUBSET Prints
    /\ decision \in [Prints -> {"none", "approve", "deny"}]
    /\ ran \in [Calls -> Nat]
    /\ outcome \in [Calls -> {"none", "done", "error"}]
    /\ replies \in [Calls -> Nat]
    /\ grants \in [Prints -> Nat]
    /\ decisions \in Nat /\ faults \in Nat /\ stalls \in Nat

-----------------------------------------------------------------------------
(* Types: every step leaves every attempt a record of its type             *)

(* The places of an attempt, one by one.                                   *)
LEMMA PcIn == \A p \in {"off", "prepare", "recover", "start", "done", "resume", "model", "next",
        "authorize", "hold", "look", "begin", "run", "complete", "after", "surface",
        "ended", "failing"} : p \in Pcs
 BY DEF Pcs

(* An attempt that is off, or has just claimed the run, is a record of its *)
(* type.                                                                   *)
LEMMA OffIn == Off \in AttemptType /\ [Off EXCEPT !.pc = "prepare"] \in AttemptType
  BY DEF Off, AttemptType, Pcs

(* Replacing the record of one attempt keeps the type (att).               *)
LEMMA RecordTyped ==
  ASSUME Attended, NEW a \in Attempts, NEW r \in AttemptType, att' = [att EXCEPT ![a] = r]
  PROVE Attended'
  BY DEF Attended

(* So does moving an attempt on (Go).                                      *)
LEMMA GoTyped == ASSUME Attended, NEW a \in Attempts, NEW pc \in Pcs, Go(a, pc)
  PROVE Attended'
<1>1. att' = [att EXCEPT ![a] = [att[a] EXCEPT !.pc = pc]]
  BY DEF Attended, Go, AttemptType
<1>2. [att[a] EXCEPT !.pc = pc] \in AttemptType
  BY DEF Attended, AttemptType
<1>. QED
  BY <1>1, <1>2, RecordTyped

(* And so does answering its current call (Answer).                        *)
LEMMA AnswerTyped ==
  ASSUME Attended, NEW a \in Attempts, att[a].call \in Calls, NEW kind \in Kinds, Answer(a, kind)
  PROVE Attended'
<1>. DEFINE o == att[a].out \cup {<<att[a].call, kind>>}
<1>1. att' = [att EXCEPT ![a] = [att[a] EXCEPT !.pc = "next", !.call = None, !.out = o]]
  BY DEF Attended, Answer, AttemptType
<1>2. o \in SUBSET (Calls \X Kinds)
  BY DEF Attended, AttemptType
<1>. HIDE DEF o
<1>3. [att[a] EXCEPT !.pc = "next", !.call = None, !.out = o] \in AttemptType
  BY <1>2, PcIn DEF Attended, AttemptType
<1>. QED
  BY <1>1, <1>3, RecordTyped

(* Types without the attempts.                                             *)
LEMMA RestIn == ASSUME TypeOK PROVE RestTyped
  BY DEF TypeOK, RestTyped

(* Types from the attempts and the rest.                                   *)
LEMMA BothTyped == ASSUME Attended, RestTyped PROVE TypeOK
  BY DEF TypeOK, RestTyped, Attended

(* The key of a record is that of a hold or of an attempt (Key).           *)
LEMMA KeyIn == \A a \in Attempts : Key(a) \in 0 .. MaxAttempts
  BY GovernedCallAssumption DEF Key, Held, Attempts

(* Setting a record keeps the type of the ledger (SetRecord).              *)
LEMMA RecordSet ==
  ASSUME Records, NEW a \in Attempts, NEW r \in {"none", "begun", "done", "error"}, SetRecord(a, r)
  PROVE  Records'
  BY KeyIn DEF Records, SetRecord

(* An attempt that stops has nothing in hand (Crash, Drop, Settle).        *)
LEMMA OffMoved == Shape(Off) /\ \A r \in AttemptType : Narrows(r, Off)
  BY GovernedCallAssumption DEF Off, Shape, Busy, Narrows, Early, Unbegun, AttemptType

(* A step of an attempt leaves every attempt a record of its type.         *)
LEMMA AttemptsTyped ==
  ASSUME TypeInv, NEW a \in Attempts, Step(a)
  PROVE  Attended'
<1>1. Attended
  BY DEF TypeInv, TypeOK, Attended
<1>2. CASE Prepare(a)
  <2>. USE <1>2
  <2>3. CASE Go(a, "done") \/ Go(a, "start")
    BY <1>1, <2>3, GoTyped, PcIn
  <2>4. CASE att' = [att EXCEPT ![a].pc = "recover", ![a].out = {<<c, Recovered(c)>> : c \in InFlight}]
    <3>. DEFINE o == {<<c, Recovered(c)>> : c \in InFlight}
    <3>1. o \in SUBSET (Calls \X Kinds)
      BY DEF InFlight, Recovered, Kinds
    <3>. HIDE DEF o
    <3>2. att' = [att EXCEPT ![a] = [att[a] EXCEPT !.pc = "recover", !.out = o]]
      BY <1>1, <2>4 DEF Attended, AttemptType, o
    <3>3. [att[a] EXCEPT !.pc = "recover", !.out = o] \in AttemptType
      BY <1>1, <3>1, PcIn DEF Attended, AttemptType
    <3>. QED
      BY <1>1, <3>2, <3>3, RecordTyped
  <2>. QED
    BY <2>3, <2>4 DEF Prepare
<1>3. CASE Recover(a)
  <2>. USE <1>3
  <2>3. att' = [att EXCEPT ![a] = [att[a] EXCEPT !.pc = "start", !.out = {}]]
    BY <1>1 DEF Recover, Attended, AttemptType
  <2>4. [att[a] EXCEPT !.pc = "start", !.out = {}] \in AttemptType
    BY <1>1, <2>3, PcIn DEF Attended, AttemptType
  <2>. QED
    BY <1>1, <2>3, <2>4, RecordTyped
<1>4. CASE Start(a)
  BY <1>4, <1>1, GoTyped, PcIn DEF Start
<1>5. CASE Resume(a)
  <2>. USE <1>5
  <2>. DEFINE t == {c \in holds : decision[Fp[c]] # "none"}
  <2>2. t \in SUBSET Calls
    BY DEF TypeInv, TypeOK
  <2>. HIDE DEF t
  <2>3. PICK p \in {"model", "next"} : att' = [att EXCEPT ![a] = [att[a] EXCEPT !.pc = p, !.todo = t, !.resuming = TRUE]]
    BY <1>1 DEF Resume, t, Attended, AttemptType
  <2>4. [att[a] EXCEPT !.pc = p, !.todo = t, !.resuming = TRUE] \in AttemptType
    BY <1>1, <2>3, <2>2, PcIn DEF Attended, AttemptType
  <2>. QED
    BY <1>1, <2>3, <2>4, RecordTyped
<1>6. CASE Model(a)
  <2>. USE <1>6
  <2>2. CASE Go(a, "ended")
    BY <1>1, <2>2, GoTyped, PcIn
  <2>3. ASSUME NEW t \in SUBSET Calls,
               att' = [att EXCEPT ![a].pc = "next", ![a].todo = t, ![a].resuming = FALSE]
        PROVE  Attended'
    <3>1. att' = [att EXCEPT ![a] = [att[a] EXCEPT !.pc = "next", !.todo = t, !.resuming = FALSE]]
      BY <1>1, <2>3 DEF Attended, AttemptType
    <3>2. [att[a] EXCEPT !.pc = "next", !.todo = t, !.resuming = FALSE] \in AttemptType
      BY <1>1, PcIn DEF Attended, AttemptType
    <3>. QED
      BY <1>1, <3>1, <3>2, RecordTyped
  <2>. QED
    BY <2>2, <2>3 DEF Model
<1>7. CASE NextCall(a)
  <2>. USE <1>7
  <2>2. PICK c \in att[a].todo, p \in {"authorize", "look"} :
           att' = [att EXCEPT ![a].pc = p, ![a].call = c, ![a].todo = @ \ {c}]
    BY DEF NextCall
  <2>3. att' = [att EXCEPT ![a] = [att[a] EXCEPT !.pc = p, !.call = c, !.todo = att[a].todo \ {c}]]
    BY <1>1, <2>2 DEF Attended, AttemptType
  <2>4. [att[a] EXCEPT !.pc = p, !.call = c, !.todo = att[a].todo \ {c}] \in AttemptType
    BY <1>1, <2>3, PcIn DEF Attended, AttemptType
  <2>. QED
    BY <1>1, <2>3, <2>4, RecordTyped
<1>8. CASE Take(a)
  <2>. USE <1>8
  <2>0. att[a].call \in Calls
    BY DEF Take, TypeInv, Shape, Busy, At
  <2>. QED
    BY <2>0, <1>1, GoTyped, AnswerTyped, PcIn DEF Take, Kinds
<1>9. CASE Hold(a)
  <2>. USE <1>9
  <2>0. att[a].call \in Calls
    BY DEF Hold, TypeInv, Shape, Busy, At
  <2>. DEFINE o == att[a].out \cup {<<att[a].call, "pending">>}
              h == att[a].held \cup {att[a].call}
  <2>2. o \in SUBSET (Calls \X Kinds) /\ h \in SUBSET Calls
    BY <2>0, <1>1 DEF Attended, AttemptType, Kinds
  <2>. HIDE DEF o, h
  <2>3. att' = [att EXCEPT ![a] = [att[a] EXCEPT !.pc = "next", !.call = None, !.out = o, !.held = h]]
    BY <1>1 DEF Hold, o, h, Attended, AttemptType
  <2>4. [att[a] EXCEPT !.pc = "next", !.call = None, !.out = o, !.held = h] \in AttemptType
    BY <1>1, <2>3, <2>2, PcIn DEF Attended, AttemptType
  <2>. QED
    BY <1>1, <2>3, <2>4, RecordTyped
<1>10. CASE Look(a)
  <2>. USE <1>10
  <2>0. att[a].call \in Calls
    BY DEF Look, TypeInv, Shape, Busy, At
  <2>. QED
    BY <2>0, <1>1, GoTyped, AnswerTyped, PcIn DEF Look, Kinds
<1>11. CASE Begin(a)
  <2>. USE <1>11
  <2>0. att[a].call \in Calls
    BY DEF Begin, TypeInv, Shape, Busy, At
  <2>. QED
    BY <2>0, <1>1, GoTyped, AnswerTyped, PcIn DEF Begin, Kinds
<1>12. CASE Execute(a)
  <2>. USE <1>12
  <2>3. PICK o \in Known : att' = [att EXCEPT ![a] = [att[a] EXCEPT !.pc = "complete", !.kind = o]]
    BY <1>1 DEF Execute, Known, Attended, AttemptType
  <2>4. [att[a] EXCEPT !.pc = "complete", !.kind = o] \in AttemptType
    BY <1>1, <2>3, PcIn DEF Known, Attended, AttemptType
  <2>. QED
    BY <1>1, <2>3, <2>4, RecordTyped
<1>13. CASE Interrupted(a)
  <2>. USE <1>13
  <2>3. att' = [att EXCEPT ![a] = [att[a] EXCEPT !.pc = "after", !.kind = "unknown"]]
    BY <1>1 DEF Interrupted, Attended, AttemptType
  <2>4. [att[a] EXCEPT !.pc = "after", !.kind = "unknown"] \in AttemptType
    BY <1>1, <2>3, PcIn DEF Attended, AttemptType
  <2>. QED
    BY <1>1, <2>3, <2>4, RecordTyped
<1>14. CASE Complete(a)
  BY <1>14, <1>1, GoTyped, PcIn DEF Complete
<1>15. CASE AfterTool(a)
  <2>. USE <1>15
  <2>0. att[a].call \in Calls
    BY DEF AfterTool, TypeInv, Shape, Busy, At
  <2>2. att[a].kind \in Kinds
    BY DEF AfterTool, TypeInv, Shape, Known, Kinds, At
  <2>. QED
    BY <2>0, <1>1, <2>2, AnswerTyped DEF AfterTool
<1>16. CASE Save(a)
  <2>. USE <1>16
  <2>3. PICK m : att' = [att EXCEPT ![a] = [att[a] EXCEPT !.out = att[a].out \ {m}]]
    BY <1>1 DEF Save, Attended, AttemptType
  <2>4. [att[a] EXCEPT !.out = att[a].out \ {m}] \in AttemptType
    BY <1>1, <2>3, PcIn DEF Attended, AttemptType
  <2>. QED
    BY <1>1, <2>3, <2>4, RecordTyped
<1>17. CASE EndBatch(a)
  BY <1>17, <1>1, GoTyped, PcIn DEF EndBatch
<1>18. CASE Surface(a)
  <2>. USE <1>18
  <2>2. PICK c \in att[a].held, p \in {"surface", "ended"} :
           att' = [att EXCEPT ![a].held = att[a].held \ {c}, ![a].pc = p]
    BY <1>1 DEF Surface, At, Attended, AttemptType
  <2>3. att' = [att EXCEPT ![a] = [att[a] EXCEPT !.held = att[a].held \ {c}, !.pc = p]]
    BY <1>1, <2>2 DEF Attended, AttemptType
  <2>4. [att[a] EXCEPT !.held = att[a].held \ {c}, !.pc = p] \in AttemptType
    BY <1>1, <2>3, PcIn DEF Attended, AttemptType
  <2>. QED
    BY <1>1, <2>3, <2>4, RecordTyped
<1>19. CASE Settle(a)
  BY <1>19, <1>1, OffIn, RecordTyped DEF Settle
<1>20. CASE Done(a)
  BY <1>20, <1>1, OffIn, RecordTyped DEF Done
<1>21. CASE Failing(a)
  BY <1>21, <1>1, OffIn, RecordTyped DEF Failing
<1>22. CASE Crash(a)
  BY <1>22, <1>1, OffIn, RecordTyped DEF Crash
<1>23. CASE Drop(a)
  BY <1>23, <1>1, OffIn, RecordTyped DEF Drop
<1>24. CASE LookFails(a)
  <2>. USE <1>24
  <2>0. att[a].call \in Calls
    BY DEF LookFails, TypeInv, Shape, Busy, At
  <2>. QED
    BY <2>0, <1>1, AnswerTyped DEF LookFails, Kinds
<1>25. CASE BeginFails(a)
  <2>. USE <1>25
  <2>0. att[a].call \in Calls
    BY DEF BeginFails, TypeInv, Shape, Busy, At
  <2>. QED
    BY <2>0, <1>1, AnswerTyped DEF BeginFails, Kinds
<1>26. CASE CompleteFails(a)
  BY <1>26, <1>1, GoTyped, PcIn DEF CompleteFails
<1>27. CASE Breaks(a)
  <2>. USE <1>27
  <2>3. PICK k \in {"Queued", "Failed"} : att' = [att EXCEPT ![a] = [att[a] EXCEPT !.pc = "failing", !.kind = k]]
    BY <1>1 DEF Breaks, Attended, AttemptType
  <2>4. [att[a] EXCEPT !.pc = "failing", !.kind = k] \in AttemptType
    BY <1>1, <2>3, PcIn DEF Attended, AttemptType
  <2>. QED
    BY <1>1, <2>3, <2>4, RecordTyped
<1>. QED
  BY <1>2, <1>3, <1>4, <1>5, <1>6, <1>7, <1>8, <1>9, <1>10, <1>11, <1>12, <1>13, <1>14,
     <1>15, <1>16, <1>17, <1>18, <1>19, <1>20, <1>21, <1>22, <1>23, <1>24, <1>25, <1>26, <1>27 DEF Step, Work

(* A step of an attempt keeps the types of everything else.                *)
LEMMA RestKeepsType ==
  ASSUME TypeInv, NEW a \in Attempts, Step(a)
  PROVE  RestTyped'
<1>1. RestTyped
  BY RestIn DEF TypeInv
<1>2. CASE Prepare(a)
  BY <1>2, <1>1, GovernedCallAssumption DEF RestTyped, Prepare, claims, session, approvals, execution, Quiet
<1>3. CASE Recover(a)
  <2>. USE <1>3
  <2>2. \A m \in att[a].out : m[1] \in Calls /\ m[2] \in Kinds
    BY DEF TypeInv, TypeOK, AttemptType
  <2>3. said' \in [Calls -> SUBSET Kinds]
    BY <1>1, <2>2 DEF RestTyped, Recover
  <2>4. holds' \in SUBSET Calls /\ final' \in 0 .. MaxAttempts
    BY <1>1, GovernedCallAssumption DEF RestTyped, Recover
  <2>5. replies \in [Calls -> Nat]
    BY <1>1 DEF RestTyped
  <2>6. replies' \in [Calls -> Nat]
    BY <2>5 DEF Recover
  <2>. QED
    BY <1>1, <2>2, <2>3, <2>4, <2>5, <2>6, GovernedCallAssumption DEF RestTyped, Recover, claims, approvals, execution, Quiet
<1>4. CASE Start(a)
  <2>. USE <1>4
  <2>2. checkpoint' \in 0 .. MaxAttempts /\ final' \in 0 .. MaxAttempts
    BY GovernedCallAssumption DEF Attempts, Start
  <2>. QED
    BY <1>1, <2>2, GovernedCallAssumption DEF RestTyped, Start, Attempts, approvals, execution, Quiet
<1>5. CASE Resume(a)
  BY <1>5, <1>1, GovernedCallAssumption DEF RestTyped, Resume, claims, session, approvals, execution, Quiet
<1>6. CASE Model(a)
  <2>. USE <1>6
  <2>2. a \in 0 .. MaxAttempts /\ a \in Nat
    BY GovernedCallAssumption DEF Attempts
  <2>3. issuer \in [Calls -> 0 .. MaxAttempts]
    BY <1>1 DEF RestTyped
  <2>4. issuer' \in [Calls -> 0 .. MaxAttempts]
    BY <2>2, <2>3 DEF Model
  <2>5. final' = 0 \/ final' = a
    BY DEF Model
  <2>6. final' \in 0 .. MaxAttempts
    BY <2>2, <2>5, GovernedCallAssumption
  <2>. QED
    BY <1>1, <2>2, <2>3, <2>4, <2>5, <2>6, GovernedCallAssumption DEF RestTyped, Model, Attempts, claims, approvals, execution, Quiet
<1>7. CASE NextCall(a)
  BY <1>7, <1>1, GovernedCallAssumption DEF RestTyped, NextCall, claims, session, approvals, execution, Quiet
<1>8. CASE Take(a)
  BY <1>8, <1>1, GovernedCallAssumption DEF RestTyped, Take, claims, session, execution, Quiet
<1>9. CASE Hold(a)
  <2>. USE <1>9
  <2>2. att[a].call \in Calls
    BY DEF Hold, TypeInv, Shape, Busy, At
  <2>3. pending' \in SUBSET Prints
    BY <1>1, <2>2, GovernedCallAssumption DEF RestTyped, Hold
  <2>. QED
    BY <1>1, <2>2, <2>3, GovernedCallAssumption DEF RestTyped, Hold, claims, session, execution, Quiet
<1>10. CASE Look(a)
  BY <1>10, <1>1, GovernedCallAssumption DEF RestTyped, Look, claims, session, approvals, execution, Quiet
<1>11. CASE Begin(a)
  <2>. USE <1>11
  <2>2. Records'
    BY <1>1, RecordSet DEF RestTyped, Records, Begin
  <2>3. ledger' \in [Calls -> [0 .. MaxAttempts -> {"none", "begun", "done", "error"}]]
    BY <2>2 DEF Records
  <2>. QED
    BY <1>1, <2>2, <2>3, GovernedCallAssumption DEF RestTyped, Begin, claims, session, approvals, Quiet
<1>12. CASE Execute(a)
  <2>. USE <1>12
  <2>2. ran \in [Calls -> Nat] /\ outcome \in [Calls -> {"none", "done", "error"}]
    BY <1>1 DEF RestTyped
  <2>5. att[a].call \in Calls
    BY DEF Execute, TypeInv, Shape, Busy, At
  <2>6. ran' = [ran EXCEPT ![att[a].call] = ran[att[a].call] + 1] /\ ran[att[a].call] + 1 \in Nat
    BY <2>2, <2>5 DEF Execute
  <2>3. ran' \in [Calls -> Nat]
    BY <2>2, <2>6
  <2>4. outcome' \in [Calls -> {"none", "done", "error"}]
    BY <2>2 DEF Execute
  <2>. QED
    BY <1>1, <2>2, <2>5, <2>6, <2>3, <2>4, GovernedCallAssumption DEF RestTyped, Execute, claims, session, approvals, Quiet
<1>13. CASE Interrupted(a)
  <2>. USE <1>13
  <2>2. ran \in [Calls -> Nat] /\ outcome \in [Calls -> {"none", "done", "error"}]
    BY <1>1 DEF RestTyped
  <2>5. att[a].call \in Calls
    BY DEF Interrupted, TypeInv, Shape, Busy, At
  <2>6. ran' = [ran EXCEPT ![att[a].call] = ran[att[a].call] + 1] /\ ran[att[a].call] + 1 \in Nat
    BY <2>2, <2>5 DEF Interrupted
  <2>3. ran' \in [Calls -> Nat]
    BY <2>2, <2>6
  <2>4. outcome' \in [Calls -> {"none", "done", "error"}]
    BY <2>2 DEF Interrupted
  <2>. QED
    BY <1>1, <2>2, <2>5, <2>6, <2>3, <2>4, GovernedCallAssumption DEF RestTyped, Interrupted, claims, session, approvals, Quiet
<1>14. CASE Complete(a)
  <2>. USE <1>14
  <2>2. att[a].kind \in Known
    BY DEF TypeInv, Shape, Complete, At
  <2>3. ledger' \in [Calls -> [0 .. MaxAttempts -> {"none", "begun", "done", "error"}]]
    <3>1. PICK r \in {"none", "begun", "done", "error"} : SetRecord(a, r)
      <4>1. CASE Record(a) = "begun"
        BY <2>2, <4>1 DEF Complete, Known
      <4>2. CASE Record(a) # "begun"
        <5>1. att[a].call \in Calls /\ Key(a) \in 0 .. MaxAttempts
          BY KeyIn DEF Complete, TypeInv, Shape, Busy, At
        <5>2. Record(a) \in {"none", "begun", "done", "error"}
          BY <1>1, <5>1 DEF RestTyped, Record
        <5>. QED
          BY <4>2, <5>2 DEF Complete
      <4>. QED
        BY <4>1, <4>2
    <3>. QED
      BY <1>1, <3>1, RecordSet DEF RestTyped, Records
  <2>. QED
    BY <1>1, <2>2, <2>3, GovernedCallAssumption DEF RestTyped, Complete, claims, session, approvals, Quiet
<1>15. CASE AfterTool(a)
  BY <1>15, <1>1, GovernedCallAssumption DEF RestTyped, AfterTool, claims, session, approvals, execution, Quiet
<1>16. CASE Save(a)
  <2>. USE <1>16
  <2>2. \A m \in att[a].out : m[1] \in Calls /\ m[2] \in Kinds
    BY DEF TypeInv, TypeOK, AttemptType
  <2>3. said' \in [Calls -> SUBSET Kinds]
    BY <1>1, <2>2 DEF RestTyped, Save
  <2>4. holds' \in SUBSET Calls /\ final' \in 0 .. MaxAttempts
    BY <1>1, GovernedCallAssumption DEF RestTyped, Save
  <2>5. replies \in [Calls -> Nat]
    BY <1>1 DEF RestTyped
  <2>6. replies' \in [Calls -> Nat]
    BY <2>5 DEF Save
  <2>. QED
    BY <1>1, <2>2, <2>3, <2>4, <2>5, <2>6, GovernedCallAssumption DEF RestTyped, Save, claims, approvals, execution, Quiet
<1>17. CASE EndBatch(a)
  BY <1>17, <1>1, GovernedCallAssumption DEF RestTyped, EndBatch, claims, session, approvals, execution, Quiet
<1>18. CASE Surface(a)
  <2>. USE <1>18
  <2>2. att[a].held \in SUBSET Calls
    BY DEF TypeInv, TypeOK, AttemptType
  <2>3. holds' \in SUBSET Calls /\ final' \in 0 .. MaxAttempts
    BY <1>1, <2>2, GovernedCallAssumption DEF RestTyped, Surface
  <2>4. surfaced \in [Calls -> SUBSET Attempts]
    BY <1>1 DEF RestTyped
  <2>5. surfaced' \in [Calls -> SUBSET Attempts]
    BY <2>2, <2>4 DEF Surface
  <2>. QED
    BY <1>1, <2>2, <2>3, <2>4, <2>5, GovernedCallAssumption DEF RestTyped, Surface, claims, approvals, execution, Quiet
<1>19. CASE Settle(a)
  BY <1>19, <1>1, GovernedCallAssumption DEF RestTyped, Settle, session, approvals, execution, Quiet
<1>20. CASE Done(a)
  BY <1>20, <1>1, GovernedCallAssumption DEF RestTyped, Done, session, approvals, execution, Quiet
<1>21. CASE Failing(a)
  <2>. USE <1>21
  <2>2. att[a].kind \in {"Queued", "Failed"}
    BY DEF Failing, TypeInv, Shape, At
  <2>. QED
    BY <1>1, <2>2, GovernedCallAssumption DEF RestTyped, Failing, session, approvals, execution, Quiet
<1>22. CASE Crash(a)
  BY <1>22, <1>1, GovernedCallAssumption DEF RestTyped, Crash, claims, session, approvals, execution, Faulty
<1>23. CASE Drop(a)
  BY <1>23, <1>1, GovernedCallAssumption DEF RestTyped, Drop, claims, session, approvals, execution, Quiet
<1>24. CASE LookFails(a)
  BY <1>24, <1>1, GovernedCallAssumption DEF RestTyped, LookFails, claims, session, approvals, execution, Faulty
<1>25. CASE BeginFails(a)
  <2>. USE <1>25
  <2>2. Records'
    BY <1>1, RecordSet DEF RestTyped, Records, BeginFails
  <2>3. ledger' \in [Calls -> [0 .. MaxAttempts -> {"none", "begun", "done", "error"}]]
    BY <2>2 DEF Records
  <2>. QED
    BY <1>1, <2>2, <2>3, GovernedCallAssumption DEF RestTyped, BeginFails, claims, session, approvals, Faulty
<1>26. CASE CompleteFails(a)
  BY <1>26, <1>1, GovernedCallAssumption DEF RestTyped, CompleteFails, claims, session, approvals, execution, Faulty
<1>27. CASE Breaks(a)
  <2>. USE <1>27
  <2>2. decision' \in [Prints -> {"none", "approve", "deny"}]
    BY <1>1 DEF RestTyped, Breaks
  <2>3. UNCHANGED <<claims, session, pending, grants, decisions, execution, stalls>> /\ faults' = faults + 1
    BY DEF Breaks, Faulty
  <2>. QED
    BY <1>1, <2>2, <2>3, GovernedCallAssumption DEF RestTyped, claims, session, execution
<1>. QED
  BY <1>2, <1>3, <1>4, <1>5, <1>6, <1>7, <1>8, <1>9, <1>10, <1>11, <1>12, <1>13, <1>14,
     <1>15, <1>16, <1>17, <1>18, <1>19, <1>20, <1>21, <1>22, <1>23, <1>24, <1>25, <1>26, <1>27 DEF Step, Work

(* A step of an attempt leaves the others alone, and its own record        *)
(* coherent.                                                               *)
LEMMA StepMoves ==
  ASSUME TypeInv, NEW a \in Attempts, Step(a)
  PROVE  (\A b \in Attempts \ {a} : att'[b] = att[b]) /\ Shape(att'[a])
<1>. USE GovernedCallAssumption
<1>1. Attended /\ att \in [Attempts -> AttemptType] /\ Shape(att[a])
  BY DEF TypeInv, TypeOK, Attended
<1>2. CASE Prepare(a)
  <2>. USE <1>2
  <2>2. \A b \in Attempts \ {a} : att'[b] = att[b]
    BY <1>1 DEF Prepare, Go
  <2>3. Shape(att'[a])
    BY <1>1, OffMoved DEF Prepare, Go, At, AttemptType, Shape, Busy, Known
  <2>. QED
    BY <2>2, <2>3
<1>3. CASE Recover(a)
  <2>. USE <1>3
  <2>2. \A b \in Attempts \ {a} : att'[b] = att[b]
    BY <1>1 DEF Recover
  <2>3. Shape(att'[a])
    BY <1>1, OffMoved DEF Recover, At, AttemptType, Shape, Busy, Known
  <2>. QED
    BY <2>2, <2>3
<1>4. CASE Start(a)
  <2>. USE <1>4
  <2>2. \A b \in Attempts \ {a} : att'[b] = att[b]
    BY <1>1 DEF Start, Go
  <2>3. Shape(att'[a])
    BY <1>1, OffMoved DEF Start, Go, At, AttemptType, Shape, Busy, Known
  <2>. QED
    BY <2>2, <2>3
<1>5. CASE Resume(a)
  <2>. USE <1>5
  <2>2. PICK t \in SUBSET Calls, p \in {"model", "next"} :
            /\ att' = [att EXCEPT ![a].pc = p, ![a].todo = t, ![a].resuming = TRUE]
            /\ (p = "model" => t = {})
    BY DEF Resume, TypeInv, TypeOK
  <2>3. att[a].pc = "resume"
    BY DEF Resume, At
  <2>4. Shape(att'[a])
    BY <1>1, <2>2, <2>3 DEF AttemptType, Shape, Busy
  <2>5. \A b \in Attempts \ {a} : att'[b] = att[b]
    BY <1>1, <2>2
  <2>. QED
    BY <2>4, <2>5
<1>6. CASE Model(a)
  <2>. USE <1>6
  <2>2. att[a].pc = "model"
    BY DEF Model, At
  <2>3. CASE Go(a, "ended")
    BY <1>1, <2>2, <2>3 DEF Go, AttemptType, Shape, Busy
  <2>4. ASSUME NEW t \in SUBSET Calls,
               att' = [att EXCEPT ![a].pc = "next", ![a].todo = t, ![a].resuming = FALSE]
        PROVE  (\A b \in Attempts \ {a} : att'[b] = att[b]) /\ Shape(att'[a])
    BY <1>1, <2>2, <2>4 DEF AttemptType, Shape, Busy
  <2>. QED
    BY <2>3, <2>4 DEF Model
<1>7. CASE NextCall(a)
  <2>. USE <1>7
  <2>2. \A b \in Attempts \ {a} : att'[b] = att[b]
    BY <1>1 DEF NextCall
  <2>3. Shape(att'[a])
    BY <1>1, OffMoved DEF NextCall, At, AttemptType, Shape, Busy, Known
  <2>. QED
    BY <2>2, <2>3
<1>8. CASE Take(a)
  <2>. USE <1>8
  <2>2. \A b \in Attempts \ {a} : att'[b] = att[b]
    BY <1>1 DEF Take, Answer, Go
  <2>3. Shape(att'[a])
    BY <1>1, OffMoved DEF Take, Answer, Go, At, AttemptType, Shape, Busy, Known
  <2>. QED
    BY <2>2, <2>3
<1>9. CASE Hold(a)
  <2>. USE <1>9
  <2>2. \A b \in Attempts \ {a} : att'[b] = att[b]
    BY <1>1 DEF Hold
  <2>3. Shape(att'[a])
    BY <1>1, OffMoved DEF Hold, At, AttemptType, Shape, Busy, Known
  <2>. QED
    BY <2>2, <2>3
<1>10. CASE Look(a)
  <2>. USE <1>10
  <2>2. PICK k \in Kinds : Go(a, "begin") \/ Answer(a, k)
    BY DEF Look, Kinds
  <2>3. Shape(att'[a])
    BY <1>1, <2>2 DEF Look, At, Go, Answer, AttemptType, Shape, Busy
  <2>4. \A b \in Attempts \ {a} : att'[b] = att[b]
    BY <1>1, <2>2 DEF Go, Answer
  <2>. QED
    BY <2>3, <2>4
<1>11. CASE Begin(a)
  <2>. USE <1>11
  <2>2. \A b \in Attempts \ {a} : att'[b] = att[b]
    BY <1>1 DEF Begin, Answer, Go
  <2>3. Shape(att'[a])
    BY <1>1, OffMoved DEF Begin, Answer, Go, At, AttemptType, Shape, Busy, Known
  <2>. QED
    BY <2>2, <2>3
<1>12. CASE Execute(a)
  <2>. USE <1>12
  <2>2. \A b \in Attempts \ {a} : att'[b] = att[b]
    BY <1>1 DEF Execute
  <2>3. Shape(att'[a])
    BY <1>1, OffMoved DEF Execute, At, AttemptType, Shape, Busy, Known
  <2>. QED
    BY <2>2, <2>3
<1>13. CASE Interrupted(a)
  <2>. USE <1>13
  <2>2. \A b \in Attempts \ {a} : att'[b] = att[b]
    BY <1>1 DEF Interrupted
  <2>3. Shape(att'[a])
    BY <1>1, OffMoved DEF Interrupted, At, AttemptType, Shape, Busy, Known
  <2>. QED
    BY <2>2, <2>3
<1>14. CASE Complete(a)
  <2>. USE <1>14
  <2>2. \A b \in Attempts \ {a} : att'[b] = att[b]
    BY <1>1 DEF Complete, Go
  <2>3. Shape(att'[a])
    BY <1>1, OffMoved DEF Complete, Go, At, AttemptType, Shape, Busy, Known
  <2>. QED
    BY <2>2, <2>3
<1>15. CASE AfterTool(a)
  <2>. USE <1>15
  <2>2. \A b \in Attempts \ {a} : att'[b] = att[b]
    BY <1>1 DEF AfterTool, Answer
  <2>3. Shape(att'[a])
    BY <1>1, OffMoved DEF AfterTool, Answer, At, AttemptType, Shape, Busy, Known
  <2>. QED
    BY <2>2, <2>3
<1>16. CASE Save(a)
  <2>. USE <1>16
  <2>2. \A b \in Attempts \ {a} : att'[b] = att[b]
    BY <1>1 DEF Save
  <2>3. Shape(att'[a])
    BY <1>1, OffMoved DEF Save, At, AttemptType, Shape, Busy, Known
  <2>. QED
    BY <2>2, <2>3
<1>17. CASE EndBatch(a)
  <2>. USE <1>17
  <2>2. \A b \in Attempts \ {a} : att'[b] = att[b]
    BY <1>1 DEF EndBatch, Go
  <2>3. Shape(att'[a])
    BY <1>1, OffMoved DEF EndBatch, Go, At, AttemptType, Shape, Busy, Known
  <2>. QED
    BY <2>2, <2>3
<1>18. CASE Surface(a)
  <2>. USE <1>18
  <2>2. \A b \in Attempts \ {a} : att'[b] = att[b]
    BY <1>1 DEF Surface
  <2>3. Shape(att'[a])
    BY <1>1, OffMoved DEF Surface, At, AttemptType, Shape, Busy, Known
  <2>. QED
    BY <2>2, <2>3
<1>19. CASE Settle(a)
  <2>. USE <1>19
  <2>2. \A b \in Attempts \ {a} : att'[b] = att[b]
    BY <1>1 DEF Settle
  <2>3. Shape(att'[a])
    BY <1>1, OffMoved DEF Settle, At, AttemptType, Shape, Busy, Known
  <2>. QED
    BY <2>2, <2>3
<1>20. CASE Done(a)
  <2>. USE <1>20
  <2>2. \A b \in Attempts \ {a} : att'[b] = att[b]
    BY <1>1 DEF Done
  <2>3. Shape(att'[a])
    BY <1>1, OffMoved DEF Done, At, AttemptType, Shape, Busy, Known
  <2>. QED
    BY <2>2, <2>3
<1>21. CASE Failing(a)
  <2>. USE <1>21
  <2>2. \A b \in Attempts \ {a} : att'[b] = att[b]
    BY <1>1 DEF Failing
  <2>3. Shape(att'[a])
    BY <1>1, OffMoved DEF Failing, At, AttemptType, Shape, Busy, Known
  <2>. QED
    BY <2>2, <2>3
<1>22. CASE Crash(a)
  <2>. USE <1>22
  <2>2. \A b \in Attempts \ {a} : att'[b] = att[b]
    BY <1>1 DEF Crash
  <2>3. Shape(att'[a])
    BY <1>1, OffMoved DEF Crash, At, AttemptType, Shape, Busy, Known
  <2>. QED
    BY <2>2, <2>3
<1>23. CASE Drop(a)
  <2>. USE <1>23
  <2>2. \A b \in Attempts \ {a} : att'[b] = att[b]
    BY <1>1 DEF Drop
  <2>3. Shape(att'[a])
    BY <1>1, OffMoved DEF Drop, At, AttemptType, Shape, Busy, Known
  <2>. QED
    BY <2>2, <2>3
<1>24. CASE LookFails(a)
  <2>. USE <1>24
  <2>2. \A b \in Attempts \ {a} : att'[b] = att[b]
    BY <1>1 DEF LookFails, Answer
  <2>3. Shape(att'[a])
    BY <1>1, OffMoved DEF LookFails, Answer, At, AttemptType, Shape, Busy, Known
  <2>. QED
    BY <2>2, <2>3
<1>25. CASE BeginFails(a)
  <2>. USE <1>25
  <2>2. \A b \in Attempts \ {a} : att'[b] = att[b]
    BY <1>1 DEF BeginFails, Answer
  <2>3. Shape(att'[a])
    BY <1>1, OffMoved DEF BeginFails, Answer, At, AttemptType, Shape, Busy, Known
  <2>. QED
    BY <2>2, <2>3
<1>26. CASE CompleteFails(a)
  <2>. USE <1>26
  <2>2. \A b \in Attempts \ {a} : att'[b] = att[b]
    BY <1>1 DEF CompleteFails, Go
  <2>3. Shape(att'[a])
    BY <1>1, OffMoved DEF CompleteFails, Go, At, AttemptType, Shape, Busy, Known
  <2>. QED
    BY <2>2, <2>3
<1>27. CASE Breaks(a)
  <2>. USE <1>27
  <2>2. \A b \in Attempts \ {a} : att'[b] = att[b]
    BY <1>1 DEF Breaks
  <2>3. Shape(att'[a])
    BY <1>1, OffMoved DEF Breaks, At, AttemptType, Shape, Busy, Known
  <2>. QED
    BY <2>2, <2>3
<1>. QED
  BY <1>2, <1>3, <1>4, <1>5, <1>6, <1>7, <1>8, <1>9, <1>10, <1>11, <1>12, <1>13, <1>14,
     <1>15, <1>16, <1>17, <1>18, <1>19, <1>20, <1>21, <1>22, <1>23, <1>24, <1>25, <1>26, <1>27 DEF Step, Work

(* The steps that neither make nor run nor hold calls only narrow what     *)
(* their attempt has to do.                                                *)
LEMMA FrameNarrows ==
  ASSUME TypeInv, NEW a \in Attempts, Frame(a)
  PROVE  Narrows(att[a], att'[a])
<1>. USE GovernedCallAssumption
<1>1. Attended /\ att \in [Attempts -> AttemptType] /\ Shape(att[a])
  BY DEF TypeInv, TypeOK, Attended
<1>2. CASE Prepare(a)
  BY <1>2, <1>1, OffMoved DEF Prepare, Go, At, AttemptType, Shape, Narrows, Early, Busy, Unbegun
<1>3. CASE Recover(a)
  BY <1>3, <1>1, OffMoved DEF Recover, At, AttemptType, Shape, Narrows, Early, Busy, Unbegun
<1>4. CASE Start(a)
  BY <1>4, <1>1, OffMoved DEF Start, Go, At, AttemptType, Shape, Narrows, Early, Busy, Unbegun
<1>5. CASE NextCall(a)
  BY <1>5, <1>1, OffMoved DEF NextCall, At, AttemptType, Shape, Narrows, Early, Busy, Unbegun
<1>6. CASE Take(a)
  BY <1>6, <1>1, OffMoved DEF Take, Answer, Go, At, AttemptType, Shape, Narrows, Early, Busy, Unbegun
<1>7. CASE Look(a)
  <2>. USE <1>7
  <2>2. PICK k \in Kinds : Go(a, "begin") \/ Answer(a, k)
    BY DEF Look, Kinds
  <2>3. att[a].pc = "look"
    BY DEF Look, At
  <2>. QED
    BY <1>1, <2>2, <2>3 DEF Go, Answer, AttemptType, Shape, Narrows, Early, Busy, Unbegun
<1>8. CASE AfterTool(a)
  BY <1>8, <1>1, OffMoved DEF AfterTool, Answer, At, AttemptType, Shape, Narrows, Early, Busy, Unbegun
<1>9. CASE Save(a)
  BY <1>9, <1>1, OffMoved DEF Save, At, AttemptType, Shape, Narrows, Early, Busy, Unbegun
<1>10. CASE EndBatch(a)
  BY <1>10, <1>1, OffMoved DEF EndBatch, Go, At, AttemptType, Shape, Narrows, Early, Busy, Unbegun
<1>11. CASE Settle(a)
  BY <1>11, <1>1, OffMoved DEF Settle, At, AttemptType, Shape, Narrows, Early, Busy, Unbegun
<1>12. CASE Done(a)
  BY <1>12, <1>1, OffMoved DEF Done, At, AttemptType, Shape, Narrows, Early, Busy, Unbegun
<1>13. CASE Failing(a)
  BY <1>13, <1>1, OffMoved DEF Failing, At, AttemptType, Shape, Narrows, Early, Busy, Unbegun
<1>14. CASE Crash(a)
  BY <1>14, <1>1, OffMoved DEF Crash, At, AttemptType, Shape, Narrows, Early, Busy, Unbegun
<1>15. CASE Drop(a)
  BY <1>15, <1>1, OffMoved DEF Drop, At, AttemptType, Shape, Narrows, Early, Busy, Unbegun
<1>16. CASE LookFails(a)
  BY <1>16, <1>1, OffMoved DEF LookFails, Answer, At, AttemptType, Shape, Narrows, Early, Busy, Unbegun
<1>17. CASE CompleteFails(a)
  BY <1>17, <1>1, OffMoved DEF CompleteFails, Go, At, AttemptType, Shape, Narrows, Early, Busy, Unbegun
<1>18. CASE Breaks(a)
  BY <1>18, <1>1, OffMoved DEF Breaks, At, AttemptType, Shape, Narrows, Early, Busy, Unbegun
<1>. QED
  BY <1>2, <1>3, <1>4, <1>5, <1>6, <1>7, <1>8, <1>9, <1>10, <1>11, <1>12, <1>13, <1>14,
     <1>15, <1>16, <1>17, <1>18 DEF Frame

(* Steps that are not of an attempt (Claim, Takeover, Decide, Expire).     *)
Outer ==
    \/ Claim \/ Takeover
    \/ \E p \in Prints : Expire(p) \/ \E d \in {"approve", "deny"} : Decide(p, d)
    \/ UNCHANGED vars

(* They give a new attempt nothing in hand, and leave the others alone.    *)
LEMMA OuterMoves ==
  ASSUME TypeInv, Outer
  PROVE  /\ Attended'
         /\ \A b \in Attempts : /\ Shape(att'[b])
                                /\ Narrows(att[b], att'[b])
                                /\ Honest(att[b], att'[b])
<1>1. Attended /\ att \in [Attempts -> AttemptType] /\ \A b \in Attempts : Shape(att[b])
  BY DEF TypeInv, TypeOK, Attended
<1>2. CASE UNCHANGED att
  BY <1>1, <1>2 DEF Attended, Narrows, Honest
<1>3. CASE att' = [att EXCEPT ![epoch + 1] = [Off EXCEPT !.pc = "prepare"]]
  <2>. DEFINE new == [Off EXCEPT !.pc = "prepare"]
  <2>1. new \in AttemptType
    BY OffIn
  <2>2. Shape(new) /\ \A r \in AttemptType : Narrows(r, new) /\ Honest(r, new)
    BY GovernedCallAssumption DEF Off, Shape, Busy, Narrows, Early, Unbegun, Honest, AttemptType
  <2>. HIDE DEF new
  <2>3. \A b \in Attempts : att'[b] = att[b] \/ att'[b] = new
    BY <1>1, <1>3 DEF new
  <2>4. Attended'
    BY <1>1, <1>3, <2>1 DEF Attended, new
  <2>5. \A r \in AttemptType : Narrows(r, r) /\ Honest(r, r)
    BY DEF Narrows, Honest
  <2>. QED
    BY <1>1, <2>2, <2>3, <2>4, <2>5
<1>. QED
  BY <1>2, <1>3 DEF Outer, Claim, Takeover, Expire, Decide, vars

(* They keep the types of everything else. *)
LEMMA OuterKeepsType ==
  ASSUME TypeInv, Outer
  PROVE  RestTyped'
<1>. USE GovernedCallAssumption
<1>1. RestTyped
  BY RestIn DEF TypeInv
<1>7. epoch < MaxAttempts /\ epoch' = epoch + 1 => epoch' \in 0 .. MaxAttempts
  BY <1>1 DEF RestTyped
<1>2. CASE Claim
  <2>1. /\ UNCHANGED <<wake, checkpoint, session, approvals, execution, faults, stalls>>
        /\ run' = "Running" /\ epoch < MaxAttempts /\ epoch' = epoch + 1
    BY <1>2 DEF Claim, Quiet
  <2>. QED
    BY <1>1, <1>7, <2>1 DEF RestTyped, session, approvals, execution
<1>3. CASE Takeover
  <2>1. /\ UNCHANGED <<run, wake, checkpoint, session, approvals, execution>>
        /\ epoch < MaxAttempts /\ epoch' = epoch + 1
        /\ faults' = faults + 1 /\ stalls' = stalls + 1
    BY <1>3 DEF Takeover, Faulty
  <2>. QED
    BY <1>1, <1>7, <2>1 DEF RestTyped, session, approvals, execution
<1>4. ASSUME NEW p \in Prints, Expire(p)
      PROVE  RestTyped'
  BY <1>1, <1>4 DEF RestTyped, Expire, claims, session, execution, Quiet
<1>5. ASSUME NEW p \in Prints, NEW d \in {"approve", "deny"}, Decide(p, d)
      PROVE  RestTyped'
  <2>1. grants \in [Prints -> Nat] /\ decision \in [Prints -> {"none", "approve", "deny"}]
    BY <1>1 DEF RestTyped
  <2>2. grants' \in [Prints -> Nat]
    BY <1>5, <2>1 DEF Decide
  <2>3. decision' \in [Prints -> {"none", "approve", "deny"}]
    BY <1>5, <2>1 DEF Decide
  <2>. QED
    BY <1>1, <1>5, <2>2, <2>3 DEF RestTyped, Decide, session, execution, Quiet
<1>6. CASE UNCHANGED vars
  BY <1>1, <1>6 DEF RestTyped, vars, claims, session, approvals, execution
<1>. QED
  BY <1>2, <1>3, <1>4, <1>5, <1>6 DEF Outer

(* A step is one of an attempt, or not (Next). *)
LEMMA NextSplits ==
  ASSUME [Next]_vars
  PROVE  Outer \/ \E a \in Attempts : Step(a)
  BY DEF Next, Outer, Step

(* The types of the variables and the shape of every attempt are kept by   *)
(* every step (Next).                                                      *)
LEMMA TypesKept ==
  ASSUME TypeInv, [Next]_vars
  PROVE  TypeInv'
<1>1. CASE Outer
  BY <1>1, OuterMoves, OuterKeepsType, BothTyped DEF TypeInv, TypeOK, RestTyped, Attended
<1>2. ASSUME NEW a \in Attempts, Step(a)
      PROVE  TypeInv'
  <2>1. Attended' /\ RestTyped'
    BY <1>2, AttemptsTyped, RestKeepsType
  <2>2. \A b \in Attempts : Shape(att'[b])
    BY <1>2, StepMoves DEF TypeInv
  <2>3. TypeOK'
    BY <2>1 DEF TypeOK, RestTyped, Attended
  <2>. QED
    BY <2>2, <2>3 DEF TypeInv
<1>. QED
  BY <1>1, <1>2, NextSplits

(* At first every attempt is off (Init). *)
LEMMA TypesFirst == Init => TypeInv
<1>. USE GovernedCallAssumption
<1>. SUFFICES ASSUME Init PROVE TypeInv
  OBVIOUS
<1>1. Attended
  BY OffIn DEF Init, Attended
<1>2. RestTyped
  <2>1. ledger \in [Calls -> [0 .. MaxAttempts -> {"none", "begun", "done", "error"}]]
    BY DEF Init
  <2>2. /\ issuer \in [Calls -> 0 .. MaxAttempts] /\ said \in [Calls -> SUBSET Kinds]
        /\ surfaced \in [Calls -> SUBSET Attempts] /\ ran \in [Calls -> Nat]
        /\ replies \in [Calls -> Nat] /\ grants \in [Prints -> Nat]
    BY DEF Init
  <2>3. /\ outcome \in [Calls -> {"none", "done", "error"}]
        /\ decision \in [Prints -> {"none", "approve", "deny"}]
    BY DEF Init
  <2>4. /\ run = "Queued" /\ epoch = 0 /\ wake = FALSE /\ checkpoint = 0 /\ final = 0
        /\ holds = {} /\ pending = {} /\ decisions = 0 /\ faults = 0 /\ stalls = 0
    BY DEF Init
  <2>5. 0 \in 0 .. MaxAttempts /\ 0 \in Nat /\ {} \in SUBSET Calls /\ {} \in SUBSET Prints
    OBVIOUS
  <2>6. run \in {"Queued", "Running", "Waiting", "Completed", "Failed"} /\ wake \in BOOLEAN
    BY <2>4
  <2>. QED
    BY <2>1, <2>2, <2>3, <2>4, <2>5, <2>6 DEF RestTyped
<1>3. \A b \in Attempts : Shape(att[b])
  BY OffMoved DEF Init
<1>. QED
  BY <1>1, <1>2, <1>3, BothTyped DEF TypeInv

(* The types of the variables are right after every step of every attempt, *)
(* and of the approver: in particular the records of the ledger are begun  *)
(* and completed only (ActionLedger::begin, complete).                     *)
THEOREM CallTypes == Spec => []TypeOK
<1>1. TypeInv => TypeOK
  BY DEF TypeInv
<1>. QED
  BY <1>1, TypesFirst, TypesKept, PTL DEF Spec

-----------------------------------------------------------------------------
(* A call executes at most once                                            *)

(* Steps that only narrow attempts keep the invariant of executions.       *)
LEMMA FrameOnce ==
  ASSUME TypeInv, OnceInv, Attended', UNCHANGED <<issuer, surfaced, ledger, ran>>,
         holds' \subseteq holds,
         \A b \in Attempts : Narrows(att[b], att'[b]) /\ Shape(att'[b])
  PROVE  OnceInv'
<1>. USE GovernedCallAssumption
<1>1. att \in [Attempts -> AttemptType] /\ att' \in [Attempts -> AttemptType] /\ \A b \in Attempts : Shape(att[b])
  BY DEF TypeInv, TypeOK, Attended
<1>2. \A b \in Attempts : /\ \A c \in Calls : (Open(b, c)' => Open(b, c) /\ att'[b].resuming = att[b].resuming)
                          /\ att'[b].held \subseteq att[b].held
  BY <1>1 DEF Narrows, Open, AttemptType
<1>3. HoldInv'
  <2>1. \A c \in Calls : Parted(c)' => Parted(c)
    BY <1>2 DEF Parted
  <2>2. OpenInv'
    BY <1>2 DEF OnceInv, HoldInv, OpenInv
  <2>3. HeldInv'
    BY <1>2 DEF OnceInv, HoldInv, HeldInv
  <2>4. SurfacedInv'
    BY DEF OnceInv, HoldInv, SurfacedInv
  <2>5. PartedInv'
    BY <1>2, <2>1 DEF OnceInv, HoldInv, PartedInv
  <2>. QED
    BY <2>2, <2>3, <2>4, <2>5 DEF HoldInv
<1>4. KeyInv'
  <2>1. HeldKeyInv'
    BY DEF OnceInv, KeyInv, HeldKeyInv
  <2>2. OwnKeyInv'
    BY <1>2 DEF OnceInv, KeyInv, OwnKeyInv, Parted
  <2>3. EarlyInv'
    <3>. SUFFICES ASSUME NEW b \in Attempts, ~att'[b].resuming, NEW c \in Early(att'[b])
                  PROVE  ledger[c][b] = "none"
      BY DEF EarlyInv
    <3>1. c \in Early(att[b])
      BY DEF Narrows
    <3>2. att'[b].todo # {} \/ att'[b].call # None
      BY DEF Early, Shape, Unbegun, Busy
    <3>3. ~att[b].resuming
      BY <3>2 DEF Narrows
    <3>. QED
      BY <3>1, <3>3 DEF OnceInv, KeyInv, EarlyInv
  <2>. QED
    BY <2>1, <2>2, <2>3 DEF KeyInv
<1>5. RunInv'
  <2>1. \A b \in Attempts : /\ (att'[b].pc = "run" => att[b].pc = "run" /\ att'[b].call = att[b].call /\ att'[b].resuming = att[b].resuming)
                            /\ (att'[b].pc \in {"complete", "after"} => att[b].pc \in {"complete", "after"} /\ att'[b].call = att[b].call)
    BY DEF Narrows, Shape, Busy
  <2>2. RunningInv'
    BY <2>1 DEF OnceInv, RunInv, RunningInv, Record, Key, At
  <2>3. AloneInv'
    BY <2>1 DEF OnceInv, RunInv, AloneInv, At
  <2>4. RanInv'
    BY <2>1 DEF OnceInv, RunInv, RanInv
  <2>5. AtMostOnce'
    BY DEF OnceInv, RunInv, AtMostOnce
  <2>. QED
    BY <2>2, <2>3, <2>4, <2>5 DEF RunInv
<1>. QED
  BY <1>3, <1>4, <1>5 DEF OnceInv

(* The batch of resumed calls is of calls that were surfaced (Resume).     *)
LEMMA OnceResume ==
  ASSUME TypeInv, OnceInv, NEW a \in Attempts, Resume(a), Attended',
         \A b \in Attempts \ {a} : att'[b] = att[b], \A b \in Attempts : Shape(att'[b])
  PROVE  OnceInv'
<1>. USE GovernedCallAssumption
<1>1. /\ att \in [Attempts -> AttemptType] /\ att' \in [Attempts -> AttemptType]
      /\ \A b \in Attempts : Shape(att[b])
  BY DEF TypeInv, TypeOK, Attended
<1>2. /\ att'[a].todo \subseteq holds /\ att'[a].call = None /\ att'[a].resuming
      /\ att'[a].held = att[a].held /\ att'[a].pc \in {"model", "next"}
  <2>1. PICK t \in SUBSET holds, p \in {"model", "next"} :
           att' = [att EXCEPT ![a].pc = p, ![a].todo = t, ![a].resuming = TRUE]
    BY DEF Resume
  <2>2. att[a].call = None
    BY <1>1 DEF Resume, At, Shape, Busy
  <2>. QED
    BY <1>1, <2>1, <2>2 DEF AttemptType
<1>3. UNCHANGED <<issuer, surfaced, holds, ledger, ran>>
  BY DEF Resume, session, execution
<1>4. HoldInv'
  BY <1>1, <1>2, <1>3 DEF OnceInv, HoldInv, OpenInv, HeldInv, SurfacedInv, PartedInv, Parted, Open
<1>5. KeyInv'
  BY <1>1, <1>2, <1>3 DEF OnceInv, KeyInv, HeldKeyInv, OwnKeyInv, EarlyInv, Parted
<1>6. RunInv'
  BY <1>1, <1>2, <1>3 DEF OnceInv, RunInv, RunningInv, AloneInv, RanInv, AtMostOnce, Record, Key, At
<1>. QED
  BY <1>4, <1>5, <1>6 DEF OnceInv

(* The calls of a model turn are new ones (Model).                         *)
LEMMA OnceModel ==
  ASSUME TypeInv, OnceInv, NEW a \in Attempts, Model(a), Attended',
         \A b \in Attempts \ {a} : att'[b] = att[b], \A b \in Attempts : Shape(att'[b])
  PROVE  OnceInv'
<1>. USE GovernedCallAssumption
<1>1. /\ att \in [Attempts -> AttemptType] /\ att' \in [Attempts -> AttemptType]
      /\ \A b \in Attempts : Shape(att[b])
  BY DEF TypeInv, TypeOK, Attended
<1>2. UNCHANGED <<surfaced, holds, ledger, ran>>
  BY DEF Model, execution
<1>3. 0 \notin Attempts /\ Held \notin Attempts
  BY DEF Attempts, Held
<1>4. PICK t \in SUBSET Calls :
         /\ \A c \in t : issuer[c] = 0 /\ issuer'[c] = a
         /\ \A c \in Calls \ t : issuer'[c] = issuer[c]
         /\ att'[a].todo = t /\ (t # {} => ~att'[a].resuming)
         /\ att'[a].call = None /\ att'[a].pc \in {"next", "ended"}
         /\ att'[a].held = att[a].held
  <2>1. CASE Go(a, "ended") /\ UNCHANGED issuer
    <3>1. att[a].todo = {} /\ att[a].call = None
      BY <1>1 DEF Model, At, Shape, Busy
    <3>2. /\ att'[a].todo = {} /\ att'[a].call = None /\ att'[a].pc = "ended"
          /\ att'[a].held = att[a].held
      BY <1>1, <2>1, <3>1 DEF Go, AttemptType
    <3>3. {} \in SUBSET Calls
      OBVIOUS
    <3>. QED
      BY <2>1, <3>2, <3>3
  <2>2. ASSUME NEW t \in SUBSET {c \in Calls : issuer[c] = 0},
               issuer' = [c \in Calls |-> IF c \in t THEN a ELSE issuer[c]],
               att' = [att EXCEPT ![a].pc = "next", ![a].todo = t, ![a].resuming = FALSE]
        PROVE  /\ \A c \in t : issuer[c] = 0 /\ issuer'[c] = a
               /\ \A c \in Calls \ t : issuer'[c] = issuer[c]
               /\ att'[a].todo = t /\ ~att'[a].resuming
               /\ att'[a].call = None /\ att'[a].pc \in {"next", "ended"}
               /\ att'[a].held = att[a].held
    BY <1>1, <2>2 DEF Model, At, Shape, Busy, AttemptType
  <2>. QED
    BY <2>1, <2>2 DEF Model
<1>5. HoldInv'
  <2>1. OpenInv'
    BY <1>1, <1>2, <1>3, <1>4 DEF OnceInv, HoldInv, OpenInv, SurfacedInv, Open
  <2>2. HeldInv'
    BY <1>1, <1>2, <1>3, <1>4 DEF OnceInv, HoldInv, HeldInv, AttemptType
  <2>3. SurfacedInv'
    BY <1>1, <1>2, <1>3, <1>4 DEF OnceInv, HoldInv, SurfacedInv
  <2>4. \A c \in Calls : (Parted(c)' => Parted(c)) /\ (Parted(c) => issuer[c] # 0)
    BY <1>1, <1>2, <1>3, <1>4 DEF OnceInv, HoldInv, HeldInv, SurfacedInv, Parted
  <2>5. PartedInv'
    BY <1>1, <1>2, <1>3, <1>4, <2>4 DEF OnceInv, HoldInv, PartedInv, Open
  <2>. QED
    BY <2>1, <2>2, <2>3, <2>5 DEF HoldInv
<1>6. KeyInv'
  <2>1. HeldKeyInv'
    BY <1>2 DEF OnceInv, KeyInv, HeldKeyInv
  <2>2. OwnKeyInv'
    BY <1>1, <1>2, <1>3, <1>4 DEF OnceInv, KeyInv, OwnKeyInv, Parted
  <2>3. EarlyInv'
    BY <1>1, <1>2, <1>3, <1>4 DEF OnceInv, KeyInv, OwnKeyInv, EarlyInv, Early, Unbegun
  <2>. QED
    BY <2>1, <2>2, <2>3 DEF KeyInv
<1>7. RunInv'
  BY <1>1, <1>2, <1>4 DEF OnceInv, RunInv, RunningInv, AloneInv, RanInv, AtMostOnce, Record, Key, At
<1>. QED
  BY <1>5, <1>6, <1>7 DEF OnceInv

(* A call to be held has no record yet, or was held before (Hold).         *)
LEMMA OnceHold ==
  ASSUME TypeInv, OnceInv, NEW a \in Attempts, Hold(a), Attended',
         \A b \in Attempts \ {a} : att'[b] = att[b], \A b \in Attempts : Shape(att'[b])
  PROVE  OnceInv'
<1>. USE GovernedCallAssumption
<1>1. /\ att \in [Attempts -> AttemptType] /\ att' \in [Attempts -> AttemptType]
      /\ \A b \in Attempts : Shape(att[b])
  BY DEF TypeInv, TypeOK, Attended
<1>2. UNCHANGED <<issuer, surfaced, holds, ledger, ran>>
  BY DEF Hold, session, execution
<1>. DEFINE h == att[a].call
<1>10. att[a].pc = "hold" /\ h \in Calls
  BY <1>1 DEF Hold, At, Shape, Busy
<1>3. /\ att[a].pc = "hold" /\ h \in Calls
      /\ att'[a].pc = "next" /\ att'[a].call = None /\ att'[a].todo = att[a].todo
      /\ att'[a].resuming = att[a].resuming /\ att'[a].held = att[a].held \cup {h}
  BY <1>1, <1>10 DEF Hold, AttemptType
<1>4. h \notin att[a].todo
  BY <1>1 DEF Shape
<1>. HIDE DEF h
<1>5. issuer[h] = a \/ surfaced[h] # {}
  BY <1>3 DEF OnceInv, HoldInv, OpenInv, Open, h
<1>6. \A c \in Calls : Parted(c)' => Parted(c) \/ (c = h /\ surfaced[h] = {} /\ ~att[a].resuming)
  <2>1. att[a].resuming => Parted(h)
    BY <1>3 DEF OnceInv, HoldInv, OpenInv, Open, Parted, h
  <2>. QED
    BY <1>1, <1>2, <1>3, <2>1 DEF Parted
<1>7. HoldInv'
  <2>1. OpenInv'
    BY <1>1, <1>2, <1>3 DEF OnceInv, HoldInv, OpenInv, Open
  <2>2. HeldInv'
    BY <1>1, <1>2, <1>3, <1>5 DEF OnceInv, HoldInv, HeldInv
  <2>3. SurfacedInv'
    BY <1>2 DEF OnceInv, HoldInv, SurfacedInv
  <2>4. PartedInv'
    <3>. SUFFICES ASSUME NEW b \in Attempts, NEW c \in Calls, Parted(c)', Open(b, c)'
                  PROVE  att'[b].resuming
      BY DEF PartedInv
    <3>1. Open(b, c) /\ att'[b].resuming = att[b].resuming
      BY <1>1, <1>3 DEF Open
    <3>2. CASE Parted(c)
      BY <3>1, <3>2 DEF OnceInv, HoldInv, PartedInv
    <3>3. CASE c = h /\ surfaced[h] = {}
      <4>1. b # a
        BY <1>3, <1>4, <3>3 DEF Open
      <4>. QED
        BY <1>5, <3>1, <3>3, <4>1 DEF OnceInv, HoldInv, OpenInv
    <3>. QED
      BY <1>6, <3>2, <3>3
  <2>. QED
    BY <2>1, <2>2, <2>3, <2>4 DEF HoldInv
<1>8. KeyInv'
  <2>1. HeldKeyInv'
    BY <1>2 DEF OnceInv, KeyInv, HeldKeyInv
  <2>2. ~att[a].resuming => ledger[h][a] = "none"
    BY <1>3 DEF OnceInv, KeyInv, EarlyInv, Early, Unbegun, h
  <2>3. OwnKeyInv'
    BY <1>2, <1>5, <1>6, <2>2 DEF OnceInv, KeyInv, OwnKeyInv
  <2>4. EarlyInv'
    BY <1>1, <1>2, <1>3 DEF OnceInv, KeyInv, EarlyInv, Early, Unbegun
  <2>. QED
    BY <2>1, <2>3, <2>4 DEF KeyInv
<1>9. RunInv'
  BY <1>1, <1>2, <1>3 DEF OnceInv, RunInv, RunningInv, AloneInv, RanInv, AtMostOnce, Record, Key, At
<1>. QED
  BY <1>7, <1>8, <1>9 DEF OnceInv

(* A call that is surfaced was about to be held (Surface).                 *)
LEMMA OnceSurface ==
  ASSUME TypeInv, OnceInv, NEW a \in Attempts, Surface(a), Attended',
         \A b \in Attempts \ {a} : att'[b] = att[b], \A b \in Attempts : Shape(att'[b])
  PROVE  OnceInv'
<1>. USE GovernedCallAssumption
<1>1. /\ att \in [Attempts -> AttemptType] /\ att' \in [Attempts -> AttemptType]
      /\ \A b \in Attempts : Shape(att[b])
      /\ surfaced \in [Calls -> SUBSET Attempts]
  BY DEF TypeInv, TypeOK, Attended
<1>2. UNCHANGED <<issuer, ledger, ran>>
  BY DEF Surface, execution
<1>3. PICK c \in att[a].held :
         /\ holds' = (holds \ SameCall(c)) \cup {c}
         /\ surfaced' = [surfaced EXCEPT ![c] = surfaced[c] \cup {a}]
         /\ att'[a].held = att[a].held \ {c}
         /\ att'[a].todo = att[a].todo /\ att'[a].call = att[a].call
         /\ att'[a].resuming = att[a].resuming
         /\ att'[a].pc \in {"surface", "ended"} /\ att[a].pc = "surface"
  <2>1. att[a].pc = "surface"
    BY DEF Surface, At
  <2>2. PICK c \in att[a].held, p \in {"surface", "ended"} :
           /\ holds' = (holds \ SameCall(c)) \cup {c}
           /\ surfaced' = [surfaced EXCEPT ![c] = surfaced[c] \cup {a}]
           /\ att' = [att EXCEPT ![a].held = att[a].held \ {c}, ![a].pc = p]
    BY <1>1, <2>1 DEF Surface, AttemptType
  <2>3. /\ att'[a].held = att[a].held \ {c}
        /\ att'[a].todo = att[a].todo /\ att'[a].call = att[a].call
        /\ att'[a].resuming = att[a].resuming /\ att'[a].pc = p
    BY <1>1, <2>2 DEF AttemptType
  <2>. QED
    BY <2>1, <2>2, <2>3
<1>4. c \in Calls /\ surfaced'[c] # {} /\ \A d \in Calls \ {c} : surfaced'[d] = surfaced[d]
  BY <1>1, <1>3 DEF AttemptType
<1>5. att[a].call = None
  BY <1>1, <1>3 DEF Shape, Busy
<1>6. \A d \in Calls : Parted(d)' => Parted(d)
  BY <1>1, <1>3, <1>4 DEF Parted
<1>7. HoldInv'
  <2>1. OpenInv'
    BY <1>1, <1>2, <1>3, <1>4 DEF OnceInv, HoldInv, OpenInv, Open
  <2>2. HeldInv'
    BY <1>1, <1>2, <1>3, <1>4 DEF OnceInv, HoldInv, HeldInv, AttemptType
  <2>3. issuer[c] # 0
    BY <1>3, <1>4 DEF OnceInv, HoldInv, HeldInv, SurfacedInv, Attempts
  <2>4. holds \subseteq Calls
    BY DEF TypeInv, TypeOK
  <2>5. SurfacedInv'
    BY <1>2, <1>3, <1>4, <2>3, <2>4 DEF OnceInv, HoldInv, SurfacedInv
  <2>6. \A b \in Attempts, d \in Calls : Open(b, d)' => Open(b, d) /\ att'[b].resuming = att[b].resuming
    BY <1>1, <1>3 DEF Open
  <2>7. PartedInv'
    BY <1>6, <2>6 DEF OnceInv, HoldInv, PartedInv
  <2>. QED
    BY <2>1, <2>2, <2>5, <2>7 DEF HoldInv
<1>8. KeyInv'
  <2>1. HeldKeyInv'
    BY <1>2, <1>4 DEF OnceInv, KeyInv, HeldKeyInv
  <2>2. OwnKeyInv'
    BY <1>2, <1>6 DEF OnceInv, KeyInv, OwnKeyInv
  <2>3. EarlyInv'
    BY <1>1, <1>2, <1>3 DEF OnceInv, KeyInv, EarlyInv, Early, Unbegun
  <2>. QED
    BY <2>1, <2>2, <2>3 DEF KeyInv
<1>9. RunInv'
  BY <1>1, <1>2, <1>3 DEF OnceInv, RunInv, RunningInv, AloneInv, RanInv, AtMostOnce, Record, Key, At
<1>. QED
  BY <1>7, <1>8, <1>9 DEF OnceInv

(* Setting a record changes that record only (SetRecord).                  *)
LEMMA RecordFacts ==
  ASSUME Records, NEW a \in Attempts, att[a].call \in Calls, NEW r, SetRecord(a, r)
  PROVE  /\ ledger'[att[a].call][Key(a)] = r
         /\ \A d \in Calls : \A k \in 0 .. MaxAttempts :
               d # att[a].call \/ k # Key(a) => ledger'[d][k] = ledger[d][k]
  BY KeyIn DEF Records, SetRecord

(* A call that may begin has no record under any key, and has not run      *)
(* (begin_ledgered_call, held_call_ledger_key).                            *)
LEMMA NoRecord ==
  ASSUME TypeInv, OnceInv, NEW a \in Attempts, At(a, "begin"), Record(a) = "none"
  PROVE  /\ att[a].call \in Calls
         /\ \A k \in 0 .. MaxAttempts : ledger[att[a].call][k] = "none"
         /\ ran[att[a].call] = 0
<1>. DEFINE c == att[a].call
<1>1. c \in Calls
  BY DEF At, TypeInv, Shape, Busy
<1>2. Open(a, c)
  BY DEF Open
<1>. HIDE DEF c
<1>3. \A k \in 0 .. MaxAttempts : k = Held \/ k \in Attempts
  BY GovernedCallAssumption DEF Held, Attempts
<1>4. CASE att[a].resuming
  <2>1. surfaced[c] # {}
    BY <1>1, <1>2, <1>4 DEF OnceInv, HoldInv, OpenInv
  <2>2. \A k \in Attempts : ledger[c][k] = "none"
    BY <1>1, <2>1 DEF OnceInv, KeyInv, OwnKeyInv, Parted
  <2>3. ledger[c][Held] = "none"
    BY <1>4 DEF Record, Key, c
  <2>. QED
    BY <1>1, <1>3, <2>2, <2>3 DEF OnceInv, RunInv, RanInv, c
<1>5. CASE ~att[a].resuming
  <2>1. issuer[c] = a /\ ~Parted(c)
    BY <1>1, <1>2, <1>5 DEF OnceInv, HoldInv, OpenInv, PartedInv
  <2>2. ledger[c][Held] = "none"
    BY <1>1, <2>1 DEF OnceInv, KeyInv, HeldKeyInv, Parted
  <2>3. ledger[c][a] = "none"
    BY <1>5 DEF Record, Key, c
  <2>4. \A k \in Attempts : ledger[c][k] = "none"
    BY <1>1, <2>1, <2>3 DEF OnceInv, KeyInv, OwnKeyInv
  <2>. QED
    BY <1>1, <1>3, <2>2, <2>4 DEF OnceInv, RunInv, RanInv, c
<1>. QED
  BY <1>4, <1>5

(* Beginning a call keeps the invariant of executions (Begin, BeginFails). *)
LEMMA OnceBegun ==
  ASSUME TypeInv, OnceInv, NEW a \in Attempts, At(a, "begin"), Record(a) = "none",
         SetRecord(a, "begun"), Attended',
         \A b \in Attempts \ {a} : att'[b] = att[b],
         \/ att'[a].pc = "run" /\ att'[a].call = att[a].call
         \/ att'[a].pc = "next" /\ att'[a].call = None,
         att'[a].todo = att[a].todo, att'[a].held = att[a].held,
         att'[a].resuming = att[a].resuming,
         UNCHANGED <<issuer, surfaced, holds, ran>>
  PROVE  OnceInv'
<1>. USE GovernedCallAssumption
<1>1. /\ att \in [Attempts -> AttemptType] /\ att' \in [Attempts -> AttemptType]
      /\ Records
      /\ \A b \in Attempts : Shape(att[b])
  BY DEF TypeInv, TypeOK, Attended, Records
<1>. DEFINE c == att[a].call
            k == Key(a)
<1>2. /\ c \in Calls /\ ran[c] = 0 /\ k \in 0 .. MaxAttempts
      /\ \A j \in 0 .. MaxAttempts : ledger[c][j] = "none"
  BY NoRecord, KeyIn
<1>3. /\ ledger'[c][k] = "begun"
      /\ \A d \in Calls : \A j \in 0 .. MaxAttempts :
            d # c \/ j # k => ledger'[d][j] = ledger[d][j]
  BY <1>1, <1>2, RecordFacts
<1>4. c \notin att[a].todo /\ c # None /\ Open(a, c)
  BY <1>1, <1>2 DEF Shape, Open
<1>5. IF att[a].resuming THEN k = Held ELSE k = a
  BY DEF Key
<1>6. 0 .. MaxAttempts = Attempts \cup {Held} /\ Held \notin Attempts
  BY DEF Attempts, Held
<1>7. att[a].pc = "begin"
  BY DEF At
<1>. HIDE DEF c, k
<1>8. c = att[a].call
  BY DEF c
<1>9. \A d \in Calls : Parted(d)' <=> Parted(d)
  BY <1>1 DEF Parted
<1>10. HoldInv'
  <2>1. \A b \in Attempts : \A d \in Calls : Open(b, d)' => Open(b, d) /\ att'[b].resuming = att[b].resuming
    BY <1>1 DEF Open
  <2>2. OpenInv'
    BY <2>1 DEF OnceInv, HoldInv, OpenInv
  <2>3. HeldInv' /\ SurfacedInv'
    BY DEF OnceInv, HoldInv, HeldInv, SurfacedInv
  <2>4. PartedInv'
    BY <1>9, <2>1 DEF OnceInv, HoldInv, PartedInv
  <2>. QED
    BY <2>2, <2>3, <2>4 DEF HoldInv
<1>11. KeyInv'
  <2>1. HeldKeyInv'
    <3>1. k = Held => surfaced[c] # {}
      BY <1>2, <1>4, <1>5, <1>6 DEF OnceInv, HoldInv, OpenInv
    <3>. QED
      BY <1>2, <1>3, <1>6, <3>1 DEF OnceInv, KeyInv, HeldKeyInv
  <2>2. OwnKeyInv'
    <3>1. k \in Attempts => issuer[c] = k /\ ~Parted(c)
      BY <1>2, <1>4, <1>5, <1>6 DEF OnceInv, HoldInv, OpenInv, PartedInv
    <3>. QED
      BY <1>2, <1>3, <1>6, <1>9, <3>1 DEF OnceInv, KeyInv, OwnKeyInv
  <2>3. EarlyInv'
    <3>. SUFFICES ASSUME NEW b \in Attempts, ~att'[b].resuming, NEW d \in Early(att'[b])
                  PROVE  ledger'[d][b] = "none"
      BY DEF EarlyInv
    <3>1. d \in Early(att[b]) /\ ~att[b].resuming /\ d \in Calls
      BY <1>1 DEF Early, Unbegun, Shape, Busy, AttemptType
    <3>2. ledger[d][b] = "none"
      BY <3>1 DEF OnceInv, KeyInv, EarlyInv
    <3>3. CASE d # c \/ b # k
      BY <1>3, <1>6, <3>1, <3>2, <3>3
    <3>4. CASE d = c /\ b = k
      <4>1. b = a
        BY <1>5, <1>6, <3>4
      <4>. QED
        BY <1>2, <1>4, <3>4, <4>1 DEF Early, Unbegun
    <3>. QED
      BY <3>3, <3>4
  <2>. QED
    BY <2>1, <2>2, <2>3 DEF KeyInv
<1>12. RunInv'
  <2>1. \A b \in Attempts \ {a} : At(b, "run") => att[b].call \in Calls /\ att[b].call # c
    <3>. SUFFICES ASSUME NEW b \in Attempts \ {a}, At(b, "run")
                  PROVE  att[b].call \in Calls /\ att[b].call # c
      OBVIOUS
    <3>1. att[b].call \in Calls
      BY <1>1 DEF At, Shape, Busy
    <3>2. Record(b) = "begun" /\ Key(b) \in 0 .. MaxAttempts
      BY KeyIn DEF OnceInv, RunInv, RunningInv
    <3>. QED
      BY <1>2, <3>1, <3>2 DEF Record
  <2>2. RunningInv'
    <3>. SUFFICES ASSUME NEW b \in Attempts, At(b, "run")'
                  PROVE  (Record(b) = "begun" /\ ran[att[b].call] = 0)'
      BY DEF RunningInv
    <3>1. CASE b = a
      BY <1>2, <1>3, <1>4, <1>8, <3>1 DEF Record, Key, At, k
    <3>2. CASE b # a
      <4>1. Key(b)' = Key(b) /\ Key(b) \in 0 .. MaxAttempts /\ att'[b] = att[b] /\ At(b, "run")
        BY <3>2, KeyIn DEF Key, At
      <4>2. Record(b)' = Record(b)
        BY <1>3, <2>1, <3>2, <4>1 DEF Record
      <4>. QED
        BY <4>1, <4>2 DEF OnceInv, RunInv, RunningInv
    <3>. QED
      BY <3>1, <3>2
  <2>3. AloneInv'
    BY <1>4, <1>8, <2>1 DEF OnceInv, RunInv, AloneInv, At
  <2>4. RanInv'
    <3>1. \A d \in Calls : ran[d] # 0 => \E j \in 0 .. MaxAttempts : ledger'[d][j] # "none"
      BY <1>2, <1>3 DEF OnceInv, RunInv, RanInv
    <3>. QED
      BY <3>1 DEF OnceInv, RunInv, RanInv
  <2>5. AtMostOnce'
    BY DEF OnceInv, RunInv, AtMostOnce
  <2>. QED
    BY <2>2, <2>3, <2>4, <2>5 DEF RunInv
<1>. QED
  BY <1>10, <1>11, <1>12 DEF OnceInv

(* So does executing it (Execute, Interrupted).                            *)
LEMMA OnceRan ==
  ASSUME TypeInv, OnceInv, NEW a \in Attempts, At(a, "run"), Attended',
         ran' = [ran EXCEPT ![att[a].call] = @ + 1],
         \A b \in Attempts \ {a} : att'[b] = att[b],
         att'[a].pc \in {"complete", "after"}, att'[a].call = att[a].call,
         att'[a].todo = att[a].todo, att'[a].held = att[a].held,
         att'[a].resuming = att[a].resuming,
         UNCHANGED <<issuer, surfaced, holds, ledger>>
  PROVE  OnceInv'
<1>. USE GovernedCallAssumption
<1>1. /\ att \in [Attempts -> AttemptType] /\ att' \in [Attempts -> AttemptType]
      /\ ran \in [Calls -> Nat]
      /\ \A b \in Attempts : Shape(att[b])
  BY DEF TypeInv, TypeOK, Attended
<1>. DEFINE c == att[a].call
<1>2. c \in Calls /\ ran[c] = 0 /\ Record(a) = "begun"
  BY <1>1 DEF At, Shape, Busy, OnceInv, RunInv, RunningInv
<1>3. ran'[c] = 1 /\ \A d \in Calls \ {c} : ran'[d] = ran[d]
  BY <1>1, <1>2
<1>. HIDE DEF c
<1>4. c = att[a].call
  BY DEF c
<1>5. HoldInv'
  <2>1. \A b \in Attempts : \A d \in Calls : Open(b, d)' => Open(b, d) /\ att'[b].resuming = att[b].resuming
    BY <1>1 DEF Open
  <2>2. OpenInv' /\ HeldInv' /\ SurfacedInv'
    BY <2>1 DEF OnceInv, HoldInv, OpenInv, HeldInv, SurfacedInv
  <2>3. PartedInv'
    BY <2>1 DEF OnceInv, HoldInv, PartedInv, Parted
  <2>. QED
    BY <2>2, <2>3 DEF HoldInv
<1>6. KeyInv'
  <2>1. HeldKeyInv' /\ OwnKeyInv'
    BY DEF OnceInv, KeyInv, HeldKeyInv, OwnKeyInv, Parted
  <2>2. EarlyInv'
    BY <1>1 DEF OnceInv, KeyInv, EarlyInv, Early, Unbegun
  <2>. QED
    BY <2>1, <2>2 DEF KeyInv
<1>7. RunInv'
  <2>1. \A b \in Attempts : At(b, "run")' => b # a /\ att'[b] = att[b] /\ At(b, "run") /\ att[b].call \in Calls /\ att[b].call # c
    BY <1>1, <1>4 DEF At, OnceInv, RunInv, AloneInv, Shape, Busy
  <2>2. RunningInv'
    BY <1>3, <2>1 DEF OnceInv, RunInv, RunningInv, Record, Key
  <2>3. AloneInv'
    BY <2>1 DEF OnceInv, RunInv, AloneInv
  <2>4. RanInv'
    <3>1. \A d \in Calls : ran'[d] # 0 => \E j \in 0 .. MaxAttempts : ledger[d][j] # "none"
      <4>1. ledger[c][Key(a)] # "none" /\ Key(a) \in 0 .. MaxAttempts
        BY <1>2, <1>4, KeyIn DEF Record
      <4>. QED
        BY <1>3, <4>1 DEF OnceInv, RunInv, RanInv
    <3>2. \A b \in Attempts : att'[b].pc \in {"complete", "after"} => ran'[att'[b].call] # 0
      BY <1>1, <1>2, <1>3, <1>4 DEF OnceInv, RunInv, RanInv, Shape, Busy
    <3>. QED
      BY <3>1, <3>2 DEF RanInv
  <2>5. AtMostOnce'
    BY <1>1, <1>3 DEF OnceInv, RunInv, AtMostOnce
  <2>. QED
    BY <2>2, <2>3, <2>4, <2>5 DEF RunInv
<1>. QED
  BY <1>5, <1>6, <1>7 DEF OnceInv

(* And so does completing its record (Complete).                           *)
LEMMA OnceCompleted ==
  ASSUME TypeInv, OnceInv, NEW a \in Attempts, Complete(a), Attended',
         \A b \in Attempts \ {a} : att'[b] = att[b]
  PROVE  OnceInv'
<1>. USE GovernedCallAssumption
<1>1. /\ att \in [Attempts -> AttemptType] /\ att' \in [Attempts -> AttemptType]
      /\ Records
      /\ \A b \in Attempts : Shape(att[b])
  BY DEF TypeInv, TypeOK, Attended, Records
<1>2. UNCHANGED <<issuer, surfaced, holds, ran>>
  BY DEF Complete, session
<1>. DEFINE c == att[a].call
            k == Key(a)
<1>3. att[a].pc = "complete" /\ c \in Calls /\ att[a].kind \in Known /\ k \in 0 .. MaxAttempts
  BY <1>1, KeyIn DEF Complete, At, Shape, Busy
<1>4. PICK r : SetRecord(a, r) /\ (r = "none" <=> ledger[c][k] = "none")
  BY <1>3 DEF Complete, Record, Known
<1>5. \A d \in Calls : \A j \in 0 .. MaxAttempts :
         /\ (ledger'[d][j] = "none" <=> ledger[d][j] = "none")
         /\ (d # c => ledger'[d][j] = ledger[d][j])
  BY <1>1, <1>3, <1>4, RecordFacts
<1>6. att'[a].pc = "after" /\ att'[a].call = c /\ att'[a].todo = att[a].todo
      /\ att'[a].held = att[a].held /\ att'[a].resuming = att[a].resuming
  BY <1>1 DEF Complete, Go, AttemptType
<1>. HIDE DEF c, k
<1>7. c = att[a].call
  BY DEF c
<1>8. \A d \in Calls : Parted(d)' <=> Parted(d)
  BY <1>1, <1>2, <1>6 DEF Parted
<1>9. HoldInv'
  <2>1. \A b \in Attempts : \A d \in Calls : Open(b, d)' => Open(b, d) /\ att'[b].resuming = att[b].resuming
    BY <1>1, <1>6, <1>7 DEF Open
  <2>2. OpenInv' /\ HeldInv' /\ SurfacedInv'
    BY <1>2, <1>6, <2>1 DEF OnceInv, HoldInv, OpenInv, HeldInv, SurfacedInv
  <2>3. PartedInv'
    BY <1>8, <2>1 DEF OnceInv, HoldInv, PartedInv
  <2>. QED
    BY <2>2, <2>3 DEF HoldInv
<1>10. 0 .. MaxAttempts = Attempts \cup {Held}
  BY DEF Attempts, Held
<1>11. KeyInv'
  <2>1. HeldKeyInv'
    BY <1>2, <1>5, <1>10 DEF OnceInv, KeyInv, HeldKeyInv
  <2>2. OwnKeyInv'
    BY <1>2, <1>5, <1>8, <1>10 DEF OnceInv, KeyInv, OwnKeyInv
  <2>3. EarlyInv'
    <3>. SUFFICES ASSUME NEW b \in Attempts, ~att'[b].resuming, NEW d \in Early(att'[b])
                  PROVE  ledger'[d][b] = "none"
      BY DEF EarlyInv
    <3>1. d \in Early(att[b]) /\ ~att[b].resuming /\ d \in Calls
      BY <1>1, <1>6 DEF Early, Unbegun, Shape, Busy, AttemptType
    <3>. QED
      BY <1>5, <1>10, <3>1 DEF OnceInv, KeyInv, EarlyInv
  <2>. QED
    BY <2>1, <2>2, <2>3 DEF KeyInv
<1>12. RunInv'
  <2>1. \A b \in Attempts : At(b, "run")' =>
           /\ b # a /\ att'[b] = att[b] /\ At(b, "run") /\ att[b].call \in Calls
           /\ att[b].call # c
    <3>1. ran[c] # 0
      BY <1>3, <1>7 DEF OnceInv, RunInv, RanInv
    <3>. QED
      BY <1>1, <1>6, <3>1 DEF At, OnceInv, RunInv, RunningInv, Shape, Busy
  <2>2. RunningInv'
    <3>. SUFFICES ASSUME NEW b \in Attempts, At(b, "run")'
                  PROVE  (Record(b) = "begun" /\ ran[att[b].call] = 0)'
      BY DEF RunningInv
    <3>1. Key(b)' = Key(b) /\ Key(b) \in 0 .. MaxAttempts
      BY <2>1, KeyIn DEF Key
    <3>2. Record(b)' = Record(b)
      BY <1>5, <2>1, <3>1 DEF Record
    <3>. QED
      BY <1>2, <2>1, <3>2 DEF OnceInv, RunInv, RunningInv
  <2>3. AloneInv'
    BY <2>1 DEF OnceInv, RunInv, AloneInv
  <2>4. RanInv'
    <3>1. \A d \in Calls : ran'[d] # 0 => \E j \in 0 .. MaxAttempts : ledger'[d][j] # "none"
      BY <1>2, <1>5 DEF OnceInv, RunInv, RanInv
    <3>2. \A b \in Attempts : att'[b].pc \in {"complete", "after"} => ran'[att'[b].call] # 0
      BY <1>2, <1>3, <1>6, <1>7 DEF OnceInv, RunInv, RanInv
    <3>. QED
      BY <3>1, <3>2 DEF RanInv
  <2>5. AtMostOnce'
    BY <1>2 DEF OnceInv, RunInv, AtMostOnce
  <2>. QED
    BY <2>2, <2>3, <2>4, <2>5 DEF RunInv
<1>. QED
  BY <1>9, <1>11, <1>12 DEF OnceInv

(* A call executes at most once after every step of an attempt.            *)
LEMMA OnceStep ==
  ASSUME TypeInv, OnceInv, NEW a \in Attempts, Step(a)
  PROVE  OnceInv'
<1>1. /\ att \in [Attempts -> AttemptType] /\ att' \in [Attempts -> AttemptType]
      /\ Attended' /\ \A b \in Attempts : Shape(att[b])
  BY AttemptsTyped DEF TypeInv, TypeOK, Attended
<1>2. /\ \A b \in Attempts \ {a} : att'[b] = att[b]
      /\ \A b \in Attempts : Shape(att'[b])
  BY <1>1, StepMoves
<1>3. ASSUME Narrows(att[a], att'[a]), UNCHANGED <<issuer, surfaced, ledger, ran>>,
             holds' \subseteq holds
      PROVE  OnceInv'
  <2>1. \A b \in Attempts : Narrows(att[b], att'[b])
    BY <1>2, <1>3 DEF Narrows
  <2>. QED
    BY <1>1, <1>2, <1>3, <2>1, FrameOnce
<1>4. CASE Frame(a)
  <2>1. Narrows(att[a], att'[a])
    BY <1>4, FrameNarrows
  <2>2. UNCHANGED <<issuer, surfaced, ledger, ran>> /\ holds' \subseteq holds
    BY <1>4 DEF Frame, Prepare, Recover, Start, NextCall, Take, Look, AfterTool, Save,
       EndBatch, Settle, Done, Failing, Crash, Drop, LookFails, CompleteFails, Breaks,
       session, execution
  <2>. QED
    BY <1>3, <2>1, <2>2
<1>5. CASE Resume(a) \/ Model(a) \/ Hold(a) \/ Surface(a) \/ Complete(a)
  BY <1>1, <1>2, <1>5, OnceResume, OnceModel, OnceHold, OnceSurface, OnceCompleted
<1>6. CASE Begin(a) \/ BeginFails(a)
  <2>1. att[a].pc = "begin" /\ UNCHANGED <<issuer, surfaced, holds, ran>>
    BY <1>6 DEF Begin, BeginFails, At, session
  <2>2. CASE Answer(a, "notrun") /\ UNCHANGED ledger
    <3>1. Narrows(att[a], att'[a])
      BY <1>1, <2>1, <2>2, GovernedCallAssumption
         DEF Answer, AttemptType, Shape, Narrows, Early, Busy, Unbegun
    <3>. QED
      BY <1>3, <2>1, <2>2, <3>1
  <2>3. CASE Record(a) = "none" /\ SetRecord(a, "begun") /\ (Go(a, "run") \/ Answer(a, "notrun"))
    <3>1. /\ \/ att'[a].pc = "run" /\ att'[a].call = att[a].call
             \/ att'[a].pc = "next" /\ att'[a].call = None
          /\ att'[a].todo = att[a].todo /\ att'[a].held = att[a].held
          /\ att'[a].resuming = att[a].resuming
      BY <1>1, <2>3 DEF Go, Answer, AttemptType
    <3>. QED
      BY <1>1, <1>2, <2>1, <2>3, <3>1, OnceBegun DEF At
  <2>. QED
    BY <1>6, <2>2, <2>3 DEF Begin, BeginFails
<1>7. CASE Execute(a) \/ Interrupted(a)
  <2>1. /\ At(a, "run") /\ ran' = [ran EXCEPT ![att[a].call] = @ + 1]
        /\ UNCHANGED <<issuer, surfaced, holds, ledger>>
    BY <1>7 DEF Execute, Interrupted, session
  <2>2. PICK k : \/ att' = [att EXCEPT ![a].pc = "complete", ![a].kind = k]
                 \/ att' = [att EXCEPT ![a].pc = "after", ![a].kind = k]
    BY <1>7 DEF Execute, Interrupted
  <2>3. /\ att'[a].pc \in {"complete", "after"} /\ att'[a].call = att[a].call
        /\ att'[a].todo = att[a].todo /\ att'[a].held = att[a].held
        /\ att'[a].resuming = att[a].resuming
    BY <1>1, <2>2 DEF AttemptType
  <2>. QED
    BY <1>1, <1>2, <2>1, <2>3, OnceRan
<1>. QED
  BY <1>4, <1>5, <1>6, <1>7 DEF Step, Work, Frame

(* And after every other step. *)
LEMMA OnceKept ==
  ASSUME TypeInv, OnceInv, [Next]_vars
  PROVE  OnceInv'
<1>1. CASE Outer
  <2>1. UNCHANGED <<issuer, surfaced, ledger, ran, holds>>
    BY <1>1 DEF Outer, Claim, Takeover, Expire, Decide, vars, session, execution
  <2>. QED
    BY <1>1, <2>1, OuterMoves, FrameOnce
<1>. QED
  BY <1>1, OnceStep, NextSplits

(* At first nothing is issued, held, ledgered or run (Init). *)
LEMMA OnceFirst == Init => OnceInv
<1>. USE GovernedCallAssumption
<1>. SUFFICES ASSUME Init PROVE OnceInv
  OBVIOUS
<1>1. \A a \in Attempts : /\ att[a].pc = "off" /\ att[a].todo = {} /\ att[a].call = None
                          /\ att[a].held = {} /\ ~att[a].resuming
  BY DEF Init, Off
<1>2. HoldInv
  BY <1>1 DEF Init, HoldInv, OpenInv, HeldInv, SurfacedInv, PartedInv, Open
<1>3. KeyInv
  <2>1. \A c \in Calls : \A k \in 0 .. MaxAttempts : ledger[c][k] = "none"
    BY DEF Init
  <2>2. Held \in 0 .. MaxAttempts /\ \A a \in Attempts : a \in 0 .. MaxAttempts
    BY DEF Held, Attempts
  <2>3. \A a \in Attempts : Early(att[a]) = {}
    BY <1>1 DEF Early, Unbegun
  <2>. QED
    BY <2>1, <2>2, <2>3 DEF KeyInv, HeldKeyInv, OwnKeyInv, EarlyInv
<1>4. RunInv
  BY <1>1 DEF Init, RunInv, RunningInv, AloneInv, RanInv, AtMostOnce, At
<1>. QED
  BY <1>2, <1>3, <1>4 DEF OnceInv

(* A call of a non-idempotent tool executes at most once, for any number   *)
(* of attempts, stalls, crashes and decisions: whatever the ledger's begin *)
(* lets through has no record under any other key (begin_ledgered_call).   *)
THEOREM CallsRunAtMostOnce == Spec => []AtMostOnce
<1>1. TypeInv /\ OnceInv /\ [Next]_vars => (TypeInv /\ OnceInv)'
  BY TypesKept, OnceKept
<1>2. Init => TypeInv /\ OnceInv
  BY TypesFirst, OnceFirst
<1>3. OnceInv => AtMostOnce
  BY DEF OnceInv, RunInv
<1>. QED
  BY <1>1, <1>2, <1>3, PTL DEF Spec

-----------------------------------------------------------------------------
(* What is said of an outcome is what happened                             *)

(* Steps that pass on only what is known keep the invariant of outcomes.   *)
LEMMA FrameTruth ==
  ASSUME TypeInv, TruthInv, UNCHANGED <<ran, outcome>>,
         \A b \in Attempts : Honest(att[b], att'[b]),
         \A c \in Calls : \A k \in 0 .. MaxAttempts :
            ledger'[c][k] \in Known => ledger'[c][k] = ledger[c][k] \/ outcome[c] = ledger'[c][k],
         \A c \in Calls : \A o \in Known : o \in said'[c] => o \in said[c] \/ outcome[c] = o
  PROVE  TruthInv'
<1>1. OutcomeInv'
  BY DEF TruthInv, OutcomeInv
<1>2. RecordInv'
  BY DEF TruthInv, RecordInv
<1>3. KindInv'
  BY DEF TruthInv, KindInv, Honest
<1>4. OutInv'
  BY DEF TruthInv, OutInv, Honest
<1>5. SaidInv'
  BY DEF TruthInv, SaidInv
<1>. QED
  BY <1>1, <1>2, <1>3, <1>4, <1>5 DEF TruthInv

(* A call that executes had no known outcome (Execute, Interrupted).       *)
LEMMA TruthRan ==
  ASSUME TypeInv, OnceInv, TruthInv, NEW a \in Attempts, Execute(a) \/ Interrupted(a), Attended',
         \A b \in Attempts \ {a} : att'[b] = att[b]
  PROVE  TruthInv'
<1>1. /\ att \in [Attempts -> AttemptType] /\ att' \in [Attempts -> AttemptType]
      /\ ran \in [Calls -> Nat] /\ outcome \in [Calls -> {"none", "done", "error"}]
      /\ \A b \in Attempts : Shape(att[b])
  BY DEF TypeInv, TypeOK, Attended
<1>. DEFINE c == att[a].call
<1>2. att[a].pc = "run" /\ c \in Calls
  BY <1>1 DEF Execute, Interrupted, At, Shape, Busy
<1>3. ran[c] = 0
  BY <1>2 DEF OnceInv, RunInv, RunningInv, At
<1>4. outcome[c] = "none"
  BY <1>1, <1>2, <1>3 DEF TruthInv, OutcomeInv
<1>5. UNCHANGED <<ledger, said>>
  BY DEF Execute, Interrupted, session
<1>6. ran' = [ran EXCEPT ![c] = @ + 1]
  BY DEF Execute, Interrupted
<1>7. ran'[c] # 0 /\ \A d \in Calls \ {c} : ran'[d] = ran[d]
  BY <1>1, <1>2, <1>3, <1>6
<1>8. PICK o : outcome' = [outcome EXCEPT ![c] = o]
  BY DEF Execute, Interrupted
<1>9. outcome'[c] = o /\ \A d \in Calls \ {c} : outcome'[d] = outcome[d]
  BY <1>1, <1>2, <1>8
<1>10. att'[a].call = c /\ att'[a].out = att[a].out
       /\ (att'[a].kind \in Known => outcome'[c] = att'[a].kind)
  <2>1. CASE Execute(a)
    <3>1. PICK w \in {"done", "error"} :
             /\ outcome' = [outcome EXCEPT ![c] = w]
             /\ att' = [att EXCEPT ![a].pc = "complete", ![a].kind = w]
      BY <2>1 DEF Execute
    <3>. QED
      BY <1>1, <1>2, <3>1 DEF AttemptType
  <2>2. CASE Interrupted(a)
    <3>1. att' = [att EXCEPT ![a].pc = "after", ![a].kind = "unknown"]
      BY <2>2 DEF Interrupted
    <3>2. att'[a].call = c /\ att'[a].out = att[a].out /\ att'[a].kind = "unknown"
      BY <1>1, <3>1 DEF AttemptType
    <3>. QED
      BY <3>2 DEF Known
  <2>. QED
    BY <2>1, <2>2
<1>. HIDE DEF c
<1>11. OutcomeInv'
  BY <1>7, <1>9 DEF TruthInv, OutcomeInv
<1>12. RecordInv'
  BY <1>4, <1>5, <1>9 DEF TruthInv, RecordInv, Known
<1>13. KindInv'
  <2>. SUFFICES ASSUME NEW b \in Attempts, att'[b].pc \in {"complete", "after"}, att'[b].kind \in Known
                PROVE  outcome'[att'[b].call] = att'[b].kind
    BY DEF KindInv
  <2>1. CASE b = a
    BY <1>10, <2>1
  <2>2. CASE b # a
    <3>1. att[b].call \in Calls /\ outcome[att[b].call] = att[b].kind
      BY <1>1, <2>2 DEF TruthInv, KindInv, Shape, Busy
    <3>. QED
      BY <1>4, <1>9, <2>2, <3>1 DEF Known
  <2>. QED
    BY <2>1, <2>2
<1>14. OutInv'
  <2>. SUFFICES ASSUME NEW b \in Attempts, NEW m \in att'[b].out, m[2] \in Known
                PROVE  outcome'[m[1]] = m[2]
    BY DEF OutInv
  <2>1. m \in att[b].out /\ m[1] \in Calls
    BY <1>1, <1>10 DEF AttemptType
  <2>2. outcome[m[1]] = m[2]
    BY <2>1 DEF TruthInv, OutInv
  <2>. QED
    BY <1>4, <1>9, <2>1, <2>2 DEF Known
<1>15. SaidInv'
  BY <1>4, <1>5, <1>9 DEF TruthInv, SaidInv, Known
<1>. QED
  BY <1>11, <1>12, <1>13, <1>14, <1>15 DEF TruthInv

(* Every other step passes on only answers that are known, or that claim   *)
(* nothing of an outcome.                                                  *)
LEMMA StepIsHonest ==
  ASSUME TypeInv, TruthInv, NEW a \in Attempts, Step(a), ~Execute(a), ~Interrupted(a)
  PROVE  Honest(att[a], att'[a])
<1>. USE DEF At
<1>1. /\ att \in [Attempts -> AttemptType] /\ Shape(att[a])
      /\ issuer \in [Calls -> 0 .. MaxAttempts]
  BY DEF TypeInv, TypeOK
<1>2. CASE Prepare(a)
  <2>. USE <1>2
  <2>2. \A c \in InFlight : Recovered(c) \in Known => outcome[c] = Recovered(c)
    <3>1. \A c \in InFlight : c \in Calls /\ issuer[c] \in 0 .. MaxAttempts
      BY <1>1 DEF InFlight
    <3>. QED
      BY <3>1 DEF Recovered, TruthInv, RecordInv, Known
  <2>3. CASE Go(a, "done") \/ Go(a, "start")
    BY <1>1, <2>3 DEF Go, Honest, AttemptType
  <2>4. CASE att' = [att EXCEPT ![a].pc = "recover", ![a].out = {<<c, Recovered(c)>> : c \in InFlight}]
    <3>1. att'[a].pc = "recover" /\ att'[a].out = {<<c, Recovered(c)>> : c \in InFlight}
      BY <1>1, <2>4 DEF AttemptType
    <3>. QED
      BY <2>2, <3>1 DEF Honest
  <2>. QED
    BY <2>3, <2>4 DEF Prepare
<1>3. CASE Recover(a)
  BY <1>3, <1>1 DEF Recover, Honest, AttemptType, Known
<1>4. CASE Start(a)
  BY <1>4, <1>1 DEF Start, Go, Honest, AttemptType, Known
<1>5. CASE Resume(a)
  <2>. USE <1>5
  <2>2. PICK t \in SUBSET holds, p \in {"model", "next"} :
           att' = [att EXCEPT ![a].pc = p, ![a].todo = t, ![a].resuming = TRUE]
    BY DEF Resume
  <2>3. att'[a].pc = p /\ att'[a].out = att[a].out
    BY <1>1, <2>2 DEF AttemptType
  <2>. QED
    BY <2>3 DEF Honest
<1>6. CASE Model(a)
  <2>. USE <1>6
  <2>2. CASE Go(a, "ended")
    BY <1>1, <2>2 DEF Go, Honest, AttemptType
  <2>3. ASSUME NEW t, att' = [att EXCEPT ![a].pc = "next", ![a].todo = t, ![a].resuming = FALSE]
        PROVE  Honest(att[a], att'[a])
    <3>1. att'[a].pc = "next" /\ att'[a].out = att[a].out
      BY <1>1, <2>3 DEF AttemptType
    <3>. QED
      BY <3>1 DEF Honest
  <2>. QED
    BY <2>2, <2>3 DEF Model
<1>7. CASE NextCall(a)
  BY <1>7, <1>1 DEF NextCall, Honest, AttemptType, Known
<1>8. CASE Take(a)
  BY <1>8, <1>1 DEF Take, Answer, Go, Honest, AttemptType, Known
<1>9. CASE Hold(a)
  BY <1>9, <1>1 DEF Hold, Honest, AttemptType, Known
<1>10. CASE Look(a)
  <2>. USE <1>10
  <2>2. att[a].call \in Calls /\ Key(a) \in 0 .. MaxAttempts /\ att[a].pc = "look"
    BY <1>1, KeyIn DEF Look, At, Shape, Busy
  <2>3. Record(a) \in Known => outcome[att[a].call] = Record(a)
    BY <2>2 DEF TruthInv, RecordInv, Record
  <2>4. PICK kind : (Go(a, "begin") \/ Answer(a, kind)) /\ (kind \in Known => kind = Record(a))
    BY DEF Look, Known
  <2>5. att'[a].pc \in {"begin", "next"} /\ \A m \in att'[a].out : m \in att[a].out \/ m = <<att[a].call, kind>>
    BY <1>1, <2>4 DEF Go, Answer, AttemptType
  <2>. QED
    BY <2>3, <2>4, <2>5 DEF Honest
<1>11. CASE Begin(a)
  <2>. USE <1>11
  <2>2. Go(a, "run") \/ Answer(a, "notrun")
    BY DEF Begin
  <2>. QED
    BY <1>1, <2>2 DEF Go, Answer, AttemptType, Honest, Known
<1>12. CASE Complete(a)
  BY <1>12, <1>1 DEF Complete, Go, Honest, AttemptType, Known
<1>13. CASE AfterTool(a)
  <2>. USE <1>13
  <2>2. att[a].kind \in Known => outcome[att[a].call] = att[a].kind
    BY DEF AfterTool, At, TruthInv, KindInv
  <2>3. att'[a].pc = "next" /\ \A m \in att'[a].out : m \in att[a].out \/ m = <<att[a].call, att[a].kind>>
    BY <1>1 DEF AfterTool, Answer, AttemptType
  <2>. QED
    BY <2>2, <2>3 DEF Honest
<1>14. CASE Save(a)
  BY <1>14, <1>1 DEF Save, Honest, AttemptType, Known
<1>15. CASE EndBatch(a)
  BY <1>15, <1>1 DEF EndBatch, Go, Honest, AttemptType, Known
<1>16. CASE Surface(a)
  BY <1>16, <1>1 DEF Surface, Honest, AttemptType, Known
<1>17. CASE Settle(a)
  BY <1>17, <1>1 DEF Settle, Off, Honest, AttemptType, Known
<1>18. CASE Done(a)
  BY <1>18, <1>1 DEF Done, Off, Honest, AttemptType, Known
<1>19. CASE Failing(a)
  BY <1>19, <1>1 DEF Failing, Off, Honest, AttemptType, Known
<1>20. CASE Crash(a)
  BY <1>20, <1>1 DEF Crash, Off, Honest, AttemptType, Known
<1>21. CASE Drop(a)
  BY <1>21, <1>1 DEF Drop, Off, Honest, AttemptType, Known
<1>22. CASE LookFails(a)
  BY <1>22, <1>1 DEF LookFails, Answer, Honest, AttemptType, Known
<1>23. CASE BeginFails(a)
  BY <1>23, <1>1 DEF BeginFails, Answer, Honest, AttemptType, Known
<1>24. CASE CompleteFails(a)
  BY <1>24, <1>1 DEF CompleteFails, Go, Honest, AttemptType, Known
<1>25. CASE Breaks(a)
  BY <1>25, <1>1 DEF Breaks, Honest, AttemptType, Known
<1>. QED
  BY <1>2, <1>3, <1>4, <1>5, <1>6, <1>7, <1>8, <1>9, <1>10, <1>11, <1>12, <1>13, <1>14,
     <1>15, <1>16, <1>17, <1>18, <1>19, <1>20, <1>21, <1>22, <1>23, <1>24, <1>25 DEF Step, Work

(* What is said of an outcome is what happened, after every step.          *)
LEMMA TruthKept ==
  ASSUME TypeInv, OnceInv, TruthInv, [Next]_vars
  PROVE  TruthInv'
<1>. USE GovernedCallAssumption
<1>1. CASE Outer
  <2>1. UNCHANGED <<ran, outcome, ledger, said>>
    BY <1>1 DEF Outer, Claim, Takeover, Expire, Decide, vars, session, execution
  <2>. QED
    BY <1>1, <2>1, OuterMoves, FrameTruth
<1>2. ASSUME NEW a \in Attempts, Step(a)
      PROVE  TruthInv'
  <2>1. \A b \in Attempts \ {a} : att'[b] = att[b]
    BY <1>2, StepMoves
  <2>2. Attended'
    BY <1>2, AttemptsTyped
  <2>3. CASE Execute(a) \/ Interrupted(a)
    BY <2>1, <2>2, <2>3, TruthRan
  <2>4. CASE ~Execute(a) /\ ~Interrupted(a)
    <3>1. \A b \in Attempts : Honest(att[b], att'[b])
      BY <1>2, <2>1, <2>4, StepIsHonest DEF Honest
    <3>2. UNCHANGED <<ran, outcome>>
      BY <1>2, <2>4 DEF Step, Work, Prepare, Recover, Start, Resume, Model, NextCall, Take, Hold,
         Look, Begin, Complete, AfterTool, Save, EndBatch, Surface, Settle, Done, Failing,
         Crash, Drop, LookFails, BeginFails, CompleteFails, Breaks, execution
    <3>3. \A c \in Calls : \A k \in 0 .. MaxAttempts :
             ledger'[c][k] \in Known =>
                ledger'[c][k] = ledger[c][k] \/ outcome[c] = ledger'[c][k]
      <4>1. CASE UNCHANGED ledger
        BY <4>1
      <4>2. CASE Begin(a) \/ BeginFails(a) \/ Complete(a)
        <5>1. Records /\ att[a].call \in Calls
          BY <4>2 DEF TypeInv, TypeOK, Records, Begin, BeginFails, Complete, At, Shape, Busy
        <5>2. CASE SetRecord(a, "begun")
          BY <5>1, <5>2, RecordFacts, KeyIn DEF Known
        <5>3. CASE Complete(a)
          <6>1. att[a].kind \in Known => outcome[att[a].call] = att[a].kind
            BY <5>3 DEF TruthInv, KindInv, Complete, At
          <6>2. PICK r : SetRecord(a, r) /\ (r = att[a].kind \/ r = Record(a))
            BY <5>3 DEF Complete
          <6>3. /\ ledger'[att[a].call][Key(a)] = r
                /\ \A d \in Calls : \A k \in 0 .. MaxAttempts :
                      d # att[a].call \/ k # Key(a) => ledger'[d][k] = ledger[d][k]
            BY <5>1, <6>2, RecordFacts
          <6>. QED
            BY <6>1, <6>2, <6>3 DEF Record
        <5>. QED
          BY <4>1, <4>2, <5>2, <5>3 DEF Begin, BeginFails
      <4>. QED
        BY <1>2, <2>4, <4>1, <4>2 DEF Step, Work, Prepare, Recover, Start, Resume, Model,
           NextCall, Take, Hold, Look, AfterTool, Save, EndBatch, Surface, Settle, Done,
           Failing, Crash, Drop, LookFails, CompleteFails, Breaks, execution
    <3>4. \A c \in Calls : \A o \in Known : o \in said'[c] => o \in said[c] \/ outcome[c] = o
      <4>0. att \in [Attempts -> AttemptType] /\ said \in [Calls -> SUBSET Kinds]
        BY DEF TypeInv, TypeOK
      <4>1. \A m \in att[a].out : m[1] \in Calls /\ (m[2] \in Known => outcome[m[1]] = m[2])
        BY <4>0 DEF TruthInv, OutInv, AttemptType
      <4>2. CASE UNCHANGED said
        BY <4>2
      <4>3. CASE Save(a)
        BY <4>0, <4>1, <4>3 DEF Save
      <4>4. CASE Recover(a)
        BY <4>0, <4>1, <4>4 DEF Recover
      <4>. QED
        BY <1>2, <2>4, <4>2, <4>3, <4>4 DEF Step, Work, Prepare, Start, Resume, Model,
           NextCall, Take, Hold, Look, Begin, Complete, AfterTool, EndBatch, Surface, Settle,
           Done, Failing, Crash, Drop, LookFails, BeginFails, CompleteFails, Breaks, session
    <3>. QED
      BY <3>1, <3>2, <3>3, <3>4, FrameTruth
  <2>. QED
    BY <2>3, <2>4
<1>. QED
  BY <1>1, <1>2, NextSplits

(* At first nothing has happened, and nothing is said (Init). *)
LEMMA TruthFirst == Init => TruthInv
  BY GovernedCallAssumption DEF Init, Off, TruthInv, OutcomeInv, RecordInv, KindInv, OutInv, SaidInv, Known

(* The session never claims a success that did not happen or a failure     *)
(* that was a success: over crashes, timeouts and recoveries, what is said *)
(* of a call's outcome is what its execution did (complete, Runner::       *)
(* recover_unanswered_calls).                                              *)
THEOREM AnswersTellTheTruth == Spec => []AnswersAreTrue
<1>1. TypeInv /\ OnceInv /\ TruthInv /\ [Next]_vars => (TypeInv /\ OnceInv /\ TruthInv)'
  BY TypesKept, OnceKept, TruthKept
<1>2. Init => TypeInv /\ OnceInv /\ TruthInv
  BY TypesFirst, OnceFirst, TruthFirst
<1>3. TruthInv => AnswersAreTrue
  BY DEF TruthInv, SaidInv, AnswersAreTrue, Known
<1>. QED
  BY <1>1, <1>2, <1>3, PTL DEF Spec

-----------------------------------------------------------------------------
(* One execution for one approval                                          *)

(* The approvals of a fingerprint are those spent by an execution, those   *)
(* taken by an attempt that is to execute a call, and the one that waits   *)
(* in the approval store.                                                  *)
Cleared == {"look", "begin", "run"}

Spent(p) == {c \in Calls : Fp[c] = p /\ ran[c] > 0}

Taken(p) == {a \in Attempts : att[a].pc \in Cleared /\ Fp[att[a].call] = p}

Live(p) == IF decision[p] = "approve" THEN 1 ELSE 0

GrantInv == \A p \in Guarded : Cardinality(Spent(p)) + Cardinality(Taken(p)) + Live(p) <= grants[p]

(* An attempt gets no call cleared that needs an approval.                 *)
Clears(r, s) ==
    s.pc \in Cleared => (r.pc \in Cleared /\ s.call = r.call) \/ Fp[s.call] \notin Guarded

(* Only a decision that is taken clears a call that needs one.             *)
LEMMA StepClears ==
  ASSUME TypeInv, NEW a \in Attempts, Step(a), ~Take(a), ~Execute(a), ~Interrupted(a)
  PROVE  Clears(att[a], att'[a])
<1>1. att \in [Attempts -> AttemptType] /\ Shape(att[a])
  BY DEF TypeInv, TypeOK
<1>2. CASE Prepare(a)
  <2>. USE <1>2
  <2>2. PICK o, p \in {"done", "start", "recover"} : att' = [att EXCEPT ![a].pc = p] \/ att' = [att EXCEPT ![a].pc = p, ![a].out = o]
    BY DEF Prepare, Go
  <2>. QED
    BY <1>1, <2>2 DEF AttemptType, Cleared, Clears
<1>3. CASE Recover(a)
  BY <1>3, <1>1 DEF Recover, At, Off, AttemptType, Cleared, Clears, Shape, Busy
<1>4. CASE Start(a)
  BY <1>4, <1>1 DEF Start, Go, At, Off, AttemptType, Cleared, Clears, Shape, Busy
<1>5. CASE Resume(a)
  <2>. USE <1>5
  <2>2. PICK t \in SUBSET holds, p \in {"model", "next"} :
           att' = [att EXCEPT ![a].pc = p, ![a].todo = t, ![a].resuming = TRUE]
    BY DEF Resume
  <2>3. att'[a].pc = p
    BY <1>1, <2>2 DEF AttemptType
  <2>. QED
    BY <2>3 DEF Clears, Cleared
<1>6. CASE Model(a)
  <2>. USE <1>6
  <2>2. CASE Go(a, "ended")
    BY <1>1, <2>2 DEF Go, AttemptType, Clears, Cleared
  <2>3. ASSUME NEW t, att' = [att EXCEPT ![a].pc = "next", ![a].todo = t, ![a].resuming = FALSE]
        PROVE  Clears(att[a], att'[a])
    <3>1. att'[a].pc = "next"
      BY <1>1, <2>3 DEF AttemptType
    <3>. QED
      BY <3>1 DEF Clears, Cleared
  <2>. QED
    BY <2>2, <2>3 DEF Model
<1>7. CASE NextCall(a)
  <2>. USE <1>7
  <2>2. PICK c \in att[a].todo :
          att' = [att EXCEPT ![a].pc = IF Fp[c] \in Guarded THEN "authorize" ELSE "look",
                             ![a].call = c, ![a].todo = @ \ {c}]
    BY DEF NextCall
  <2>3. att'[a].call = c
    BY <1>1, <2>2 DEF AttemptType
  <2>4. att'[a].pc = IF Fp[c] \in Guarded THEN "authorize" ELSE "look"
    BY <1>1, <2>2 DEF AttemptType
  <2>. QED
    BY <2>3, <2>4 DEF Clears, Cleared
<1>8. CASE Hold(a)
  BY <1>8, <1>1 DEF Hold, At, Off, AttemptType, Cleared, Clears, Shape, Busy
<1>9. CASE Look(a)
  <2>. USE <1>9
  <2>2. PICK k : Go(a, "begin") \/ Answer(a, k)
    BY DEF Look
  <2>. QED
    BY <1>1, <2>2 DEF Look, At, Go, Answer, AttemptType, Cleared, Clears
<1>10. CASE Begin(a)
  BY <1>10, <1>1 DEF Begin, Answer, Go, At, Off, AttemptType, Cleared, Clears, Shape, Busy
<1>11. CASE Complete(a)
  BY <1>11, <1>1 DEF Complete, Go, At, Off, AttemptType, Cleared, Clears, Shape, Busy
<1>12. CASE AfterTool(a)
  BY <1>12, <1>1 DEF AfterTool, Answer, At, Off, AttemptType, Cleared, Clears, Shape, Busy
<1>13. CASE Save(a)
  BY <1>13, <1>1 DEF Save, At, Off, AttemptType, Cleared, Clears, Shape, Busy
<1>14. CASE EndBatch(a)
  BY <1>14, <1>1 DEF EndBatch, Go, At, Off, AttemptType, Cleared, Clears, Shape, Busy
<1>15. CASE Surface(a)
  BY <1>15, <1>1 DEF Surface, At, Off, AttemptType, Cleared, Clears, Shape, Busy
<1>16. CASE Settle(a)
  BY <1>16, <1>1 DEF Settle, At, Off, AttemptType, Cleared, Clears, Shape, Busy
<1>17. CASE Done(a)
  BY <1>17, <1>1 DEF Done, At, Off, AttemptType, Cleared, Clears, Shape, Busy
<1>18. CASE Failing(a)
  BY <1>18, <1>1 DEF Failing, At, Off, AttemptType, Cleared, Clears, Shape, Busy
<1>19. CASE Crash(a)
  BY <1>19, <1>1 DEF Crash, At, Off, AttemptType, Cleared, Clears, Shape, Busy
<1>20. CASE Drop(a)
  BY <1>20, <1>1 DEF Drop, At, Off, AttemptType, Cleared, Clears, Shape, Busy
<1>21. CASE LookFails(a)
  BY <1>21, <1>1 DEF LookFails, Answer, At, Off, AttemptType, Cleared, Clears, Shape, Busy
<1>22. CASE BeginFails(a)
  BY <1>22, <1>1 DEF BeginFails, Answer, At, Off, AttemptType, Cleared, Clears, Shape, Busy
<1>23. CASE CompleteFails(a)
  BY <1>23, <1>1 DEF CompleteFails, Go, At, Off, AttemptType, Cleared, Clears, Shape, Busy
<1>24. CASE Breaks(a)
  BY <1>24, <1>1 DEF Breaks, At, Off, AttemptType, Cleared, Clears, Shape, Busy
<1>. QED
  BY <1>2, <1>3, <1>4, <1>5, <1>6, <1>7, <1>8, <1>9, <1>10, <1>11, <1>12, <1>13, <1>14,
     <1>15, <1>16, <1>17, <1>18, <1>19, <1>20, <1>21, <1>22, <1>23, <1>24 DEF Step, Work

(* Calls and attempts can be counted (Calls, Attempts). *)
LEMMA Countable ==
  ASSUME TypeInv, NEW p \in Prints
  PROVE  /\ IsFiniteSet(Spent(p)) /\ Cardinality(Spent(p)) \in Nat
         /\ IsFiniteSet(Taken(p)) /\ Cardinality(Taken(p)) \in Nat
         /\ Live(p) \in {0, 1} /\ grants[p] \in Nat
<1>1. Spent(p) \subseteq Calls /\ Taken(p) \subseteq Attempts
  BY DEF Spent, Taken
<1>2. IsFiniteSet(Attempts)
  BY FS_Interval, GovernedCallAssumption DEF Attempts
<1>3. IsFiniteSet(Spent(p)) /\ IsFiniteSet(Taken(p))
  BY <1>1, <1>2, FS_Subset, FiniteCalls
<1>4. Cardinality(Spent(p)) \in Nat /\ Cardinality(Taken(p)) \in Nat
  BY <1>3, FS_CardinalityType
<1>. QED
  BY <1>3, <1>4 DEF Live, TypeInv, TypeOK

(* Steps that clear no call and execute none take no approval.             *)
LEMMA FrameGrants ==
  ASSUME TypeInv, TypeInv', GrantInv, NEW p \in Guarded, ran' = ran,
         \A b \in Attempts : Clears(att[b], att'[b]),
         \/ decision'[p] \in {decision[p], "deny", "none"} /\ grants'[p] = grants[p]
         \/ decision'[p] = "approve" /\ grants'[p] = grants[p] + 1
  PROVE  Cardinality(Spent(p)') + Cardinality(Taken(p)') + Live(p)' <= grants'[p]
<1>0. p \in Prints
  BY GovernedCallAssumption
<1>1. Spent(p)' = Spent(p)
  BY DEF Spent
<1>2. Taken(p)' \subseteq Taken(p)
  BY DEF Taken, Clears
<1>3. Cardinality(Taken(p)') <= Cardinality(Taken(p)) /\ Cardinality(Taken(p)') \in Nat
  BY <1>0, <1>2, Countable, FS_Subset, FS_CardinalityType
<1>4. Live(p)' <= Live(p) + (grants'[p] - grants[p]) /\ Live(p)' \in {0, 1}
  BY <1>0, Countable DEF Live
<1>5. Cardinality(Spent(p)) + Cardinality(Taken(p)) + Live(p) <= grants[p]
  BY DEF GrantInv
<1>6. /\ Cardinality(Spent(p)) \in Nat /\ Cardinality(Taken(p)) \in Nat
      /\ Live(p) \in {0, 1} /\ grants[p] \in Nat
  BY <1>0, Countable
<1>7. grants'[p] \in Nat
  BY <1>0 DEF TypeInv, TypeOK
<1>. HIDE DEF Live
<1>. QED
  BY <1>1, <1>3, <1>4, <1>5, <1>6, <1>7

(* Taking a decision moves an approval from the store to the attempt       *)
(* (take_approval).                                                        *)
LEMMA GrantTaken ==
  ASSUME TypeInv, TypeInv', GrantInv, NEW a \in Attempts, Take(a),
         \A b \in Attempts \ {a} : att'[b] = att[b]
  PROVE  GrantInv'
<1>1. att \in [Attempts -> AttemptType] /\ \A b \in Attempts : Shape(att[b])
  BY DEF TypeInv, TypeOK
<1>. DEFINE c == att[a].call
<1>2. att[a].pc = "authorize" /\ c \in Calls /\ Fp[c] \in Prints
  BY <1>1, GovernedCallAssumption DEF Take, At, Shape, Busy
<1>3. ran' = ran /\ grants' = grants /\ decision' = [decision EXCEPT ![Fp[c]] = "none"]
  BY DEF Take, execution
<1>4. decision \in [Prints -> {"none", "approve", "deny"}]
  BY DEF TypeInv, TypeOK
<1>5. \/ decision[Fp[c]] = "approve" /\ att'[a].pc = "look" /\ att'[a].call = c
      \/ decision[Fp[c]] # "approve" /\ att'[a].pc \in {"next", "hold"}
  BY <1>1 DEF Take, Go, Answer, AttemptType
<1>. SUFFICES ASSUME NEW p \in Guarded
              PROVE  Cardinality(Spent(p)') + Cardinality(Taken(p)') + Live(p)' <= grants'[p]
  BY DEF GrantInv
<1>6. p \in Prints
  BY GovernedCallAssumption
<1>7. CASE p = Fp[c] /\ decision[p] = "approve"
  <2>1. Taken(p)' = Taken(p) \cup {a} /\ a \notin Taken(p)
    BY <1>2, <1>5, <1>7 DEF Taken, Cleared
  <2>2. Cardinality(Taken(p)') = Cardinality(Taken(p)) + 1
    BY <1>6, <2>1, Countable, FS_AddElement
  <2>3. Spent(p)' = Spent(p) /\ Live(p) = 1 /\ Live(p)' = 0
    BY <1>2, <1>3, <1>4, <1>7 DEF Spent, Live
  <2>4. Cardinality(Spent(p)) + Cardinality(Taken(p)) + Live(p) <= grants[p]
    BY DEF GrantInv
  <2>5. /\ Cardinality(Spent(p)) \in Nat /\ Cardinality(Taken(p)) \in Nat
        /\ grants[p] \in Nat
    BY <1>6, Countable
  <2>. HIDE DEF Live
  <2>. QED
    BY <1>3, <2>2, <2>3, <2>4, <2>5
<1>8. CASE p # Fp[c] \/ decision[p] # "approve"
  <2>1. \A b \in Attempts : att'[b].pc \in Cleared /\ Fp[att'[b].call] = p => att[b].pc \in Cleared /\ Fp[att[b].call] = p
    BY <1>5, <1>8 DEF Cleared
  <2>2. Taken(p)' \subseteq Taken(p) /\ Spent(p)' = Spent(p)
    BY <1>3, <2>1 DEF Taken, Spent
  <2>3. Live(p)' \in {0, 1} /\ Live(p)' <= Live(p)
    BY <1>3, <1>4, <1>6 DEF Live
  <2>4. Cardinality(Taken(p)') <= Cardinality(Taken(p)) /\ Cardinality(Taken(p)') \in Nat
    BY <1>6, <2>2, Countable, FS_Subset, FS_CardinalityType
  <2>5. Cardinality(Spent(p)) + Cardinality(Taken(p)) + Live(p) <= grants[p]
    BY DEF GrantInv
  <2>6. /\ Cardinality(Spent(p)) \in Nat /\ Cardinality(Taken(p)) \in Nat
        /\ Live(p) \in {0, 1} /\ grants[p] \in Nat
    BY <1>6, Countable
  <2>. HIDE DEF Live
  <2>. QED
    BY <1>3, <2>2, <2>3, <2>4, <2>5, <2>6
<1>. QED
  BY <1>7, <1>8

(* Executing a call spends the approval its attempt took (Execute,         *)
(* Interrupted).                                                           *)
LEMMA GrantSpent ==
  ASSUME TypeInv, TypeInv', GrantInv, NEW a \in Attempts, Execute(a) \/ Interrupted(a),
         \A b \in Attempts \ {a} : att'[b] = att[b]
  PROVE  GrantInv'
<1>1. /\ att \in [Attempts -> AttemptType] /\ \A b \in Attempts : Shape(att[b])
      /\ ran \in [Calls -> Nat]
  BY DEF TypeInv, TypeOK
<1>. DEFINE c == att[a].call
<1>2. att[a].pc = "run" /\ c \in Calls
  BY <1>1 DEF Execute, Interrupted, At, Shape, Busy
<1>3. grants' = grants /\ decision' = decision /\ ran' = [ran EXCEPT ![c] = @ + 1]
  BY DEF Execute, Interrupted, approvals
<1>4. \A d \in Calls : ran'[d] > 0 <=> ran[d] > 0 \/ d = c
  BY <1>1, <1>2, <1>3
<1>5. PICK k : \/ att' = [att EXCEPT ![a].pc = "complete", ![a].kind = k]
               \/ att' = [att EXCEPT ![a].pc = "after", ![a].kind = k]
  BY DEF Execute, Interrupted
<1>6. att'[a].pc \notin Cleared
  BY <1>1, <1>5 DEF AttemptType, Cleared
<1>. SUFFICES ASSUME NEW p \in Guarded
              PROVE  Cardinality(Spent(p)') + Cardinality(Taken(p)') + Live(p)' <= grants'[p]
  BY DEF GrantInv
<1>7. p \in Prints
  BY GovernedCallAssumption
<1>8. Live(p)' = Live(p)
  BY <1>3 DEF Live
<1>9. Cardinality(Spent(p)) + Cardinality(Taken(p)) + Live(p) <= grants[p]
  BY DEF GrantInv
<1>10. /\ Cardinality(Spent(p)) \in Nat /\ Cardinality(Taken(p)) \in Nat
       /\ Live(p) \in {0, 1} /\ grants[p] \in Nat
  BY <1>7, Countable
<1>11. CASE Fp[c] = p
  <2>1. Taken(p)' = Taken(p) \ {a} /\ a \in Taken(p)
    BY <1>2, <1>6, <1>11 DEF Taken, Cleared
  <2>2. Cardinality(Taken(p)') = Cardinality(Taken(p)) - 1
    BY <1>7, <2>1, Countable, FS_RemoveElement
  <2>3. Spent(p)' = Spent(p) \cup {c}
    BY <1>2, <1>4, <1>11 DEF Spent
  <2>4. Cardinality(Spent(p)') = Cardinality(Spent(p)) \/ Cardinality(Spent(p)') = Cardinality(Spent(p)) + 1
    BY <1>7, <2>3, Countable, FS_AddElement
  <2>. HIDE DEF Live
  <2>. QED
    BY <1>3, <1>8, <1>9, <1>10, <2>2, <2>4
<1>12. CASE Fp[c] # p
  <2>1. Taken(p)' = Taken(p)
    BY <1>2, <1>6, <1>12 DEF Taken, Cleared
  <2>2. Spent(p)' = Spent(p)
    BY <1>4, <1>12 DEF Spent
  <2>. QED
    BY <1>3, <1>8, <1>9, <2>1, <2>2
<1>. QED
  BY <1>11, <1>12

(* Approvals stay counted after every step. *)
LEMMA GrantsKept ==
  ASSUME TypeInv, GrantInv, [Next]_vars
  PROVE  GrantInv'
<1>0. TypeInv'
  BY TypesKept
<1>1. grants \in [Prints -> Nat] /\ decision \in [Prints -> {"none", "approve", "deny"}]
      /\ Guarded \subseteq Prints
  BY GovernedCallAssumption DEF TypeInv, TypeOK
<1>2. CASE Outer
  <2>1. \A b \in Attempts : Clears(att[b], att'[b])
    <3>1. att \in [Attempts -> AttemptType]
      BY DEF TypeInv, TypeOK
    <3>2. CASE UNCHANGED att
      BY <3>2 DEF Clears
    <3>3. CASE att' = [att EXCEPT ![epoch + 1] = [Off EXCEPT !.pc = "prepare"]]
      <4>1. [Off EXCEPT !.pc = "prepare"].pc = "prepare"
        BY DEF Off
      <4>2. \A b \in Attempts : att'[b] = att[b] \/ att'[b].pc = "prepare"
        BY <3>1, <3>3, <4>1
      <4>. QED
        BY <4>2 DEF Clears, Cleared
    <3>. QED
      BY <1>2, <3>2, <3>3 DEF Outer, Claim, Takeover, Expire, Decide, vars
  <2>2. ran' = ran
    BY <1>2 DEF Outer, Claim, Takeover, Expire, Decide, vars, execution
  <2>3. ASSUME NEW p \in Guarded
        PROVE  \/ decision'[p] \in {decision[p], "deny", "none"} /\ grants'[p] = grants[p]
               \/ decision'[p] = "approve" /\ grants'[p] = grants[p] + 1
    <3>1. ASSUME NEW q \in Prints, NEW d \in {"approve", "deny"}, Decide(q, d)
          PROVE  \/ decision'[p] \in {decision[p], "deny", "none"} /\ grants'[p] = grants[p]
                 \/ decision'[p] = "approve" /\ grants'[p] = grants[p] + 1
      <4>1. p = q \/ (decision'[p] = decision[p] /\ grants'[p] = grants[p])
        BY <1>1, <3>1 DEF Decide
      <4>2. CASE p = q
        BY <1>1, <3>1, <4>2 DEF Decide
      <4>. QED
        BY <4>1, <4>2
    <3>2. ASSUME NEW q \in Prints, Expire(q)
          PROVE  decision'[p] \in {decision[p], "none"} /\ grants'[p] = grants[p]
      BY <1>1, <3>2 DEF Expire
    <3>3. CASE Claim \/ Takeover \/ UNCHANGED vars
      BY <3>3 DEF Claim, Takeover, vars, approvals
    <3>. QED
      BY <1>2, <3>1, <3>2, <3>3 DEF Outer
  <2>. QED
    BY <1>0, <2>1, <2>2, <2>3, FrameGrants DEF GrantInv
<1>3. ASSUME NEW a \in Attempts, Step(a)
      PROVE  GrantInv'
  <2>1. \A b \in Attempts \ {a} : att'[b] = att[b]
    BY <1>3, StepMoves
  <2>2. CASE Take(a)
    BY <1>0, <2>1, <2>2, GrantTaken
  <2>3. CASE Execute(a) \/ Interrupted(a)
    BY <1>0, <2>1, <2>3, GrantSpent
  <2>4. CASE ~Take(a) /\ ~Execute(a) /\ ~Interrupted(a)
    <3>1. \A b \in Attempts : Clears(att[b], att'[b])
      BY <1>3, <2>1, <2>4, StepClears DEF Clears
    <3>2. ran' = ran /\ grants' = grants
      BY <1>3, <2>4 DEF Step, Work, Prepare, Recover, Start, Resume, Model, NextCall, Hold,
         Look, Begin, Complete, AfterTool, Save, EndBatch, Surface, Settle, Done, Failing,
         Crash, Drop, LookFails, BeginFails, CompleteFails, Breaks, execution, approvals
    <3>3. CASE Breaks(a)
      BY <1>0, <1>1, <3>1, <3>2, <3>3, FrameGrants DEF Breaks, GrantInv
    <3>4. CASE ~Breaks(a)
      <4>1. decision' = decision
        BY <1>3, <2>4, <3>4 DEF Step, Work, Prepare, Recover, Start, Resume, Model, NextCall,
           Hold, Look, Begin, Complete, AfterTool, Save, EndBatch, Surface, Settle, Done,
           Failing, Crash, Drop, LookFails, BeginFails, CompleteFails, approvals
      <4>. QED
        BY <1>0, <3>1, <3>2, <4>1, FrameGrants DEF GrantInv
    <3>. QED
      BY <3>3, <3>4
  <2>. QED
    BY <2>2, <2>3, <2>4
<1>. QED
  BY <1>2, <1>3, NextSplits

(* At first nothing was approved, and nothing executed (Init). *)
LEMMA GrantsFirst == Init => GrantInv
<1>. SUFFICES ASSUME Init, NEW p \in Guarded
              PROVE  Cardinality(Spent(p)) + Cardinality(Taken(p)) + Live(p) <= grants[p]
  BY DEF GrantInv
<1>1. p \in Prints
  BY GovernedCallAssumption
<1>2. Spent(p) = {} /\ Taken(p) = {} /\ Live(p) = 0 /\ grants[p] = 0
  BY <1>1 DEF Init, Off, Spent, Taken, Live, Cleared
<1>. QED
  BY <1>2, FS_EmptySet

(* One approval authorizes one execution: however many attempts, stalls    *)
(* and retries there are, the calls of a fingerprint that needs            *)
(* confirmation execute no more often than it was approved, because the    *)
(* decision is taken out of the store before the call (take_approval).     *)
THEOREM ApprovalsAreSpentOnce == Spec => []ApprovalSpentOnce
<1>1. TypeInv /\ GrantInv /\ [Next]_vars => (TypeInv /\ GrantInv)'
  BY TypesKept, GrantsKept
<1>2. Init => TypeInv /\ GrantInv
  BY TypesFirst, GrantsFirst
<1>3. TypeInv /\ GrantInv => ApprovalSpentOnce
  <2>. SUFFICES ASSUME TypeInv, GrantInv, NEW p \in Guarded
                PROVE  Cardinality(Spent(p)) <= grants[p]
    BY DEF ApprovalSpentOnce, Spent
  <2>1. p \in Prints
    BY GovernedCallAssumption
  <2>2. Cardinality(Spent(p)) + Cardinality(Taken(p)) + Live(p) <= grants[p]
    BY DEF GrantInv
  <2>. QED
    BY <2>1, <2>2, Countable
<1>. QED
  BY <1>1, <1>2, <1>3, PTL DEF Spec

-----------------------------------------------------------------------------
(* One answer for one call                                                 *)

(* The calls an attempt may still answer: those it has to run, the one it  *)
(* runs, those it holds and those whose answer is not saved yet.           *)
Due(r) ==
    r.todo \cup {r.call} \cup r.held \cup {m[1] : m \in {n \in r.out : n[2] # "pending"}}

(* What has nothing to save yet, or nothing to do any more. *)
Spotless == {"off", "prepare", "start", "resume", "model"}

(* The work of an attempt is of different calls, but for the calls it      *)
(* holds, whose pending answer may wait to be saved.                       *)
Apart(r) ==
    /\ \A m, n \in r.out : m[1] = n[1] => m = n
    /\ \A m \in r.out : m[1] \notin r.todo /\ m[1] # r.call
    /\ \A m \in r.out : m[1] \in r.held => m[2] = "pending"
    /\ r.call \notin r.held /\ r.held \cap r.todo = {}
    /\ r.pc \in Spotless => r.out = {} /\ r.held = {}
    /\ r.pc = "recover" => r.held = {} /\ \A m \in r.out : m[2] # "pending"
    /\ r.pc = "surface" => r.todo = {} /\ r.out = {}

(* As long as none stalls, only the owner of the run is at work. *)
SoloInv == \A a \in Attempts : ~At(a, "off") => Owns(a)

ApartInv == \A a \in Attempts : Apart(att[a]) /\ \A m \in att[a].out : issuer[m[1]] # 0

(* A call that is answered is in the session, is no longer held, and no    *)
(* attempt has it in hand.                                                 *)
ReplyInv ==
    \A c \in Calls :
        /\ replies[c] <= 1
        /\ replies[c] # 0 =>
              /\ issuer[c] # 0 /\ said[c] # {} /\ c \notin holds
              /\ \A a \in Attempts : c \notin Due(att[a])

AnswerInv == stalls = 0 => SoloInv /\ ApartInv /\ ReplyInv

(* What a step of an attempt that saves no answer does to its work. *)
Works(a) ==
    /\ Apart(att'[a])
    /\ \A c \in Calls : c \in Due(att'[a]) => c \in Due(att[a]) \/ replies[c] = 0
    /\ \A m \in att'[a].out : issuer'[m[1]] # 0

(* An attempt that moves on with the same work. *)
SameWork(r, s) == s.todo = r.todo /\ s.call = r.call /\ s.out = r.out /\ s.held = r.held

LEMMA SameWorkApart ==
  ASSUME NEW r, NEW s, Apart(r), SameWork(r, s),
         s.pc \in Spotless => r.out = {} /\ r.held = {},
         s.pc # "recover",
         s.pc = "surface" => r.todo = {} /\ r.out = {}
  PROVE  Apart(s) /\ Due(s) = Due(r)
BY DEF Apart, Due, SameWork

(* Moving on keeps the work (Go). *)
LEMMA GoKeeps ==
  ASSUME Attended, NEW a \in Attempts, NEW pc, Go(a, pc)
  PROVE  SameWork(att[a], att'[a]) /\ att'[a].pc = pc
BY DEF Attended, Go, AttemptType, SameWork

(* An answer takes the place of its call (Answer). *)
LEMMA AnswerApart ==
  ASSUME NEW r, NEW s, NEW kind, NEW more, Apart(r), r.call \in Calls, r.call \notin r.todo,
         s.todo = r.todo, s.call = None, s.pc = "next",
         s.out = r.out \cup {<<r.call, kind>>},
         s.held = r.held \cup more, more \subseteq {r.call}, more # {} => kind = "pending",
         \A m \in r.out : m[1] \in Calls, r.held \subseteq Calls
  PROVE  Apart(s) /\ (\A c \in Calls : c \in Due(s) => c \in Due(r))
<1>1. None \notin Calls
  BY GovernedCallAssumption
<1>2. \A m \in s.out : m \in r.out \/ m = <<r.call, kind>>
  OBVIOUS
<1>3. \A m, n \in s.out : m[1] = n[1] => m = n
  BY <1>2 DEF Apart
<1>4. \A m \in s.out : m[1] \notin s.todo /\ m[1] # s.call
  BY <1>1, <1>2 DEF Apart
<1>5. \A m \in s.out : m[1] \in s.held => m[2] = "pending"
  BY <1>2 DEF Apart
<1>6. s.call \notin s.held /\ s.held \cap s.todo = {}
  BY <1>1 DEF Apart
<1>7. Apart(s)
  BY <1>3, <1>4, <1>5, <1>6 DEF Apart, Spotless
<1>8. \A c \in Calls : c \in Due(s) => c \in Due(r)
  BY <1>1, <1>2 DEF Due
<1>. QED
  BY <1>7, <1>8

(* What a step of an attempt that answers its current call does. *)
LEMMA AnswerWorks ==
  ASSUME TypeInv, ApartInv, NEW a \in Attempts, att[a].call \in Calls,
         issuer[att[a].call] # 0, NEW kind, Answer(a, kind), issuer' = issuer
  PROVE  Works(a)
<1>1. att \in [Attempts -> AttemptType] /\ Shape(att[a])
  BY DEF TypeInv, TypeOK
<1>2. /\ att'[a].pc = "next" /\ att'[a].call = None /\ att'[a].todo = att[a].todo
      /\ att'[a].out = att[a].out \cup {<<att[a].call, kind>>} /\ att'[a].held = att[a].held
  BY <1>1 DEF Answer, AttemptType
<1>3. /\ att[a].call \notin att[a].todo /\ att[a].held \subseteq Calls
      /\ \A m \in att[a].out : m[1] \in Calls
  BY <1>1 DEF AttemptType, Shape
<1>4. Apart(att'[a]) /\ \A c \in Calls : c \in Due(att'[a]) => c \in Due(att[a])
  <2>. DEFINE r == att[a]
              s == att'[a]
  <2>1. Apart(r) /\ s.held = r.held \cup {}
    BY <1>2 DEF ApartInv
  <2>. HIDE DEF r, s
  <2>2. Apart(s) /\ \A c \in Calls : c \in Due(s) => c \in Due(r)
    BY <1>2, <1>3, <2>1, AnswerApart DEF r, s
  <2>. QED
    BY <2>2 DEF r, s
<1>5. \A m \in att'[a].out : issuer'[m[1]] # 0
  BY <1>2 DEF ApartInv
<1>. QED
  BY <1>4, <1>5 DEF Works

(* The calls an attempt has in hand are in the session. *)
LEMMA OpenIssued ==
  ASSUME TypeInv, HoldInv, NEW a \in Attempts, NEW c \in Calls, Open(a, c)
  PROVE  issuer[c] # 0
BY DEF HoldInv, OpenInv, SurfacedInv, Attempts

(* A step that moves on with the same work. *)
LEMMA SameWorks ==
  ASSUME ApartInv, NEW a \in Attempts, SameWork(att[a], att'[a]),
         \A c \in Calls : issuer[c] # 0 => issuer'[c] # 0,
         \A m \in att[a].out : m[1] \in Calls,
         att'[a].pc \in Spotless => att[a].out = {} /\ att[a].held = {},
         att'[a].pc # "recover",
         att'[a].pc = "surface" => att[a].todo = {} /\ att[a].out = {}
  PROVE  Works(a)
<1>1. Apart(att'[a]) /\ Due(att'[a]) = Due(att[a])
  BY SameWorkApart DEF ApartInv
<1>2. \A m \in att'[a].out : issuer'[m[1]] # 0
  BY DEF ApartInv, SameWork
<1>. QED
  BY <1>1, <1>2 DEF Works

(* An attempt that is off has no work. *)
LEMMA OffWorks ==
  ASSUME NEW a \in Attempts, att'[a] = Off
  PROVE  Works(a)
<1>1. Apart(Off) /\ Off.out = {}
  BY DEF Off, Apart
<1>2. \A c \in Calls : c \notin Due(Off)
  BY GovernedCallAssumption DEF Off, Due
<1>. QED
  BY <1>1, <1>2 DEF Works

(* Steps that end an attempt's part, move it on or answer its call. *)
LEMMA PlainWorks ==
  ASSUME TypeInv, HoldInv, ApartInv, NEW a \in Attempts,
         \/ Start(a) \/ Take(a) \/ Look(a) \/ Begin(a) \/ Execute(a) \/ Interrupted(a)
         \/ Complete(a) \/ AfterTool(a) \/ EndBatch(a) \/ Settle(a) \/ Done(a) \/ Failing(a)
         \/ Crash(a) \/ Drop(a) \/ LookFails(a) \/ BeginFails(a) \/ CompleteFails(a) \/ Breaks(a)
  PROVE  Works(a)
<1>1. /\ att \in [Attempts -> AttemptType] /\ att[a] \in AttemptType
      /\ Attended /\ Shape(att[a]) /\ Apart(att[a])
      /\ \A m \in att[a].out : m[1] \in Calls
  BY DEF TypeInv, TypeOK, Attended, ApartInv, AttemptType
<1>2. issuer' = issuer
  BY DEF Start, Take, Look, Begin, Execute, Interrupted, Complete, AfterTool, EndBatch, Settle,
         Done, Failing, Crash, Drop, LookFails, BeginFails, CompleteFails, Breaks, session
<1>3. ASSUME SameWork(att[a], att'[a]), att'[a].pc \notin Spotless \cup {"recover", "surface"}
      PROVE  Works(a)
  BY <1>1, <1>2, <1>3, SameWorks
<1>4. ASSUME NEW pc, Go(a, pc), pc \notin Spotless \cup {"recover", "surface"}
      PROVE  Works(a)
  BY <1>1, <1>3, <1>4, GoKeeps
<1>5. ASSUME NEW kind, Answer(a, kind), att[a].pc \in Busy
      PROVE  Works(a)
  <2>1. att[a].call \in Calls
    BY <1>1, <1>5 DEF Shape
  <2>. QED
    BY <1>2, <1>5, <2>1, OpenIssued, AnswerWorks DEF Open
<1>6. CASE Settle(a) \/ Done(a) \/ Failing(a) \/ Crash(a) \/ Drop(a)
  <2>1. att'[a] = Off
    BY <1>1, <1>6 DEF Settle, Done, Failing, Crash, Drop
  <2>. QED
    BY <2>1, OffWorks
<1>7. CASE Start(a)
  <2>1. att[a].pc = "start" /\ Go(a, "resume")
    BY <1>7 DEF Start, At
  <2>2. att[a].out = {} /\ att[a].held = {}
    BY <1>1, <2>1 DEF Apart, Spotless
  <2>3. SameWork(att[a], att'[a]) /\ att'[a].pc = "resume"
    BY <1>1, <2>1, GoKeeps
  <2>. QED
    BY <1>1, <1>2, <2>2, <2>3, SameWorks
<1>8. CASE Take(a)
  <2>1. att[a].pc \in Busy /\ (Go(a, "look") \/ Answer(a, "denied") \/ Go(a, "hold"))
    BY <1>8 DEF Take, At, Busy
  <2>. QED
    BY <1>4, <1>5, <2>1 DEF Spotless
<1>9. CASE Look(a) \/ LookFails(a)
  <2>1. att[a].pc \in Busy /\ (Go(a, "begin") \/ \E kind : Answer(a, kind))
    BY <1>9 DEF Look, LookFails, At, Busy
  <2>. QED
    BY <1>4, <1>5, <2>1 DEF Spotless
<1>10. CASE Begin(a) \/ BeginFails(a)
  <2>1. att[a].pc \in Busy /\ (Go(a, "run") \/ Answer(a, "notrun"))
    BY <1>10 DEF Begin, BeginFails, At, Busy
  <2>. QED
    BY <1>4, <1>5, <2>1 DEF Spotless
<1>11. CASE AfterTool(a)
  <2>1. att[a].pc \in Busy /\ Answer(a, att[a].kind)
    BY <1>11 DEF AfterTool, At, Busy
  <2>. QED
    BY <1>5, <2>1
<1>12. CASE Complete(a) \/ CompleteFails(a)
  <2>1. Go(a, "after")
    BY <1>12 DEF Complete, CompleteFails
  <2>. QED
    BY <1>4, <2>1 DEF Spotless
<1>13. CASE Execute(a) \/ Interrupted(a) \/ Breaks(a)
  <2>1. PICK pc, kind : /\ pc \in {"complete", "after", "failing"}
                        /\ att' = [att EXCEPT ![a].pc = pc, ![a].kind = kind]
    BY <1>13 DEF Execute, Interrupted, Breaks
  <2>2. SameWork(att[a], att'[a]) /\ att'[a].pc = pc
    BY <1>1, <2>1 DEF SameWork, AttemptType
  <2>. QED
    BY <1>3, <2>1, <2>2 DEF Spotless
<1>14. CASE EndBatch(a)
  <2>1. PICK pc : /\ att[a].out = {} /\ att[a].todo = {} /\ Go(a, pc)
                  /\ pc = "surface" \/ (pc = "model" /\ att[a].held = {})
    BY <1>14 DEF EndBatch
  <2>2. /\ SameWork(att[a], att'[a])
        /\ att'[a].pc = "surface" \/ (att'[a].pc = "model" /\ att[a].held = {})
    BY <1>1, <2>1, GoKeeps
  <2>. QED
    BY <1>1, <1>2, <2>1, <2>2, SameWorks DEF Spotless
<1>. QED
  BY <1>6, <1>7, <1>8, <1>9, <1>10, <1>11, <1>12, <1>13, <1>14

(* Steps that change what an attempt has in hand. *)
LEMMA BatchWorks ==
  ASSUME TypeInv, HoldInv, ApartInv, ReplyInv, NEW a \in Attempts,
         Prepare(a) \/ Resume(a) \/ Model(a) \/ NextCall(a) \/ Hold(a) \/ Surface(a)
  PROVE  Works(a)
<1>1. /\ att \in [Attempts -> AttemptType] /\ att[a] \in AttemptType
      /\ Attended /\ Shape(att[a]) /\ Apart(att[a])
      /\ \A m \in att[a].out : m[1] \in Calls
  BY DEF TypeInv, TypeOK, Attended, ApartInv, AttemptType
<1>2. ASSUME NEW c \in Calls, issuer[c] = 0 \/ said[c] = {} \/ c \in holds
      PROVE  replies[c] = 0
  BY <1>2 DEF ReplyInv
<1>3. ASSUME att[a].pc \in {"prepare", "resume", "model"}
      PROVE  att[a].todo = {} /\ att[a].out = {} /\ att[a].held = {} /\ att[a].call = None
  BY <1>1, <1>3 DEF Shape, Busy, Apart, Spotless
<1>4. CASE Prepare(a)
  <2>1. att[a].pc = "prepare" /\ issuer' = issuer
    BY <1>4 DEF Prepare, At, session
  <2>2. ASSUME NEW pc \in {"done", "start"}, Go(a, pc) PROVE Works(a)
    <3>1. SameWork(att[a], att'[a]) /\ att'[a].pc = pc
      BY <1>1, <2>2, GoKeeps
    <3>. QED
      BY <1>1, <1>3, <2>1, <2>2, <3>1, SameWorks
  <2>3. CASE att' = [att EXCEPT ![a].pc = "recover", ![a].out = {<<c, Recovered(c)>> : c \in InFlight}]
    <3>1. /\ att'[a].pc = "recover" /\ att'[a].out = {<<c, Recovered(c)>> : c \in InFlight}
          /\ att'[a].todo = {} /\ att'[a].held = {} /\ att'[a].call = None
      BY <1>1, <1>3, <2>1, <2>3 DEF AttemptType
    <3>2. \A m \in att'[a].out : m[1] \in InFlight /\ m = <<m[1], Recovered(m[1])>>
      BY <3>1
    <3>3. Apart(att'[a])
      <4>1. \A m \in att'[a].out : m[1] # None /\ m[2] # "pending"
        BY <3>2, GovernedCallAssumption DEF InFlight, Recovered
      <4>. QED
        BY <3>1, <3>2, <4>1 DEF Apart, Spotless
    <3>4. \A c \in Calls : c \in Due(att'[a]) => replies[c] = 0
      BY <1>2, <3>1, <3>2, GovernedCallAssumption DEF Due, InFlight
    <3>5. \A m \in att'[a].out : issuer'[m[1]] # 0
      BY <2>1, <3>2 DEF InFlight
    <3>. QED
      BY <3>3, <3>4, <3>5 DEF Works
  <2>. QED
    BY <1>4, <2>2, <2>3 DEF Prepare
<1>5. ASSUME NEW t \in SUBSET Calls, \A c \in t : replies[c] = 0,
             att[a].pc \in {"resume", "model"}, att'[a].pc \in {"next", "model"},
             att'[a].todo = t, att'[a].call = att[a].call,
             att'[a].out = att[a].out, att'[a].held = att[a].held
      PROVE  Works(a)
  <2>1. att'[a].out = {} /\ att'[a].held = {} /\ att'[a].call = None
    BY <1>3, <1>5
  <2>2. Apart(att'[a])
    BY <1>5, <2>1 DEF Apart
  <2>3. \A c \in Calls : c \in Due(att'[a]) => replies[c] = 0
    BY <1>5, <2>1, GovernedCallAssumption DEF Due
  <2>. QED
    BY <2>1, <2>2, <2>3 DEF Works
<1>6. CASE Resume(a)
  <2>1. PICK t \in SUBSET holds, pc \in {"model", "next"} :
           att' = [att EXCEPT ![a].pc = pc, ![a].todo = t, ![a].resuming = TRUE]
    BY <1>6 DEF Resume
  <2>2. /\ att'[a].pc = pc /\ att'[a].todo = t /\ att'[a].call = att[a].call
        /\ att'[a].out = att[a].out /\ att'[a].held = att[a].held
    BY <1>1, <2>1 DEF AttemptType
  <2>3. t \in SUBSET Calls /\ \A c \in t : replies[c] = 0
    BY <1>2, <2>1 DEF TypeInv, TypeOK
  <2>4. att[a].pc = "resume"
    BY <1>6 DEF Resume, At
  <2>. QED
    BY <1>5, <2>2, <2>3, <2>4
<1>7. CASE Model(a)
  <2>0. att[a].pc = "model"
    BY <1>7 DEF Model, At
  <2>1. ASSUME Go(a, "ended") PROVE Works(a)
    <3>1. SameWork(att[a], att'[a])
      BY <1>1, <2>1, GoKeeps
    <3>2. att'[a].out = {} /\ att'[a].held = {} /\ att'[a].todo = {} /\ att'[a].call = None
      BY <1>3, <2>0, <3>1 DEF SameWork
    <3>3. Apart(att'[a]) /\ \A c \in Calls : c \notin Due(att'[a])
      BY <3>2, GovernedCallAssumption DEF Apart, Due
    <3>. QED
      BY <3>2, <3>3 DEF Works
  <2>2. ASSUME NEW S \in SUBSET {c \in Calls : issuer[c] = 0},
               att' = [att EXCEPT ![a].pc = "next", ![a].todo = S, ![a].resuming = FALSE]
        PROVE  Works(a)
    <3>1. /\ att'[a].pc = "next" /\ att'[a].todo = S /\ att'[a].call = att[a].call
          /\ att'[a].out = att[a].out /\ att'[a].held = att[a].held
      BY <1>1, <2>2 DEF AttemptType
    <3>2. S \in SUBSET Calls /\ \A c \in S : replies[c] = 0
      BY <1>2
    <3>. QED
      BY <1>5, <2>0, <3>1, <3>2
  <2>. QED
    BY <1>7, <2>1, <2>2 DEF Model
<1>8. CASE NextCall(a)
  <2>1. PICK c \in att[a].todo :
           att' = [att EXCEPT ![a].pc = IF Fp[c] \in Guarded THEN "authorize" ELSE "look",
                              ![a].call = c, ![a].todo = @ \ {c}]
    BY <1>8 DEF NextCall
  <2>2. /\ att'[a].pc \in {"authorize", "look"} /\ att'[a].todo = att[a].todo \ {c}
        /\ att'[a].call = c /\ att'[a].out = att[a].out /\ att'[a].held = att[a].held
    BY <1>1, <2>1 DEF AttemptType
  <2>3. Apart(att'[a])
    BY <1>1, <2>1, <2>2 DEF Apart, Spotless
  <2>4. \A d \in Calls : d \in Due(att'[a]) => d \in Due(att[a])
    BY <2>1, <2>2 DEF Due
  <2>5. \A m \in att'[a].out : issuer'[m[1]] # 0
    BY <1>8, <2>2 DEF NextCall, session, ApartInv
  <2>. QED
    BY <2>3, <2>4, <2>5 DEF Works
<1>9. CASE Hold(a)
  <2>1. /\ att'[a].pc = "next" /\ att'[a].call = None /\ att'[a].todo = att[a].todo
        /\ att'[a].out = att[a].out \cup {<<att[a].call, "pending">>}
        /\ att'[a].held = att[a].held \cup {att[a].call}
    BY <1>1, <1>9 DEF Hold, AttemptType
  <2>2. /\ att[a].call \in Calls /\ att[a].call \notin att[a].todo /\ att[a].held \subseteq Calls
    BY <1>1, <1>9 DEF Hold, At, Shape, Busy, AttemptType
  <2>3. Apart(att'[a]) /\ \A c \in Calls : c \in Due(att'[a]) => c \in Due(att[a])
    <3>. DEFINE r == att[a]
                s == att'[a]
    <3>1. Apart(r) /\ {r.call} \subseteq {r.call} /\ \A m \in r.out : m[1] \in Calls
      BY <1>1
    <3>. HIDE DEF r, s
    <3>2. Apart(s) /\ \A c \in Calls : c \in Due(s) => c \in Due(r)
      BY <2>1, <2>2, <3>1, AnswerApart DEF r, s
    <3>. QED
      BY <3>2 DEF r, s
  <2>4. \A m \in att'[a].out : issuer'[m[1]] # 0
    <3>1. issuer' = issuer /\ issuer[att[a].call] # 0
      BY <1>9, <2>2, OpenIssued DEF Hold, session, Open
    <3>2. \A m \in att[a].out : issuer[m[1]] # 0
      BY DEF ApartInv
    <3>. QED
      BY <2>1, <3>1, <3>2
  <2>. QED
    BY <2>3, <2>4 DEF Works
<1>10. CASE Surface(a)
  <2>0. att[a].pc = "surface" /\ issuer' = issuer
    BY <1>10 DEF Surface, At
  <2>1. PICK c \in att[a].held, pc \in {"surface", "ended"} :
           att' = [att EXCEPT ![a].held = @ \ {c}, ![a].pc = pc]
    <3>1. PICK c \in att[a].held :
             att' = [att EXCEPT ![a].held = @ \ {c},
                                ![a].pc = IF att[a].held = {c} THEN "ended" ELSE @]
      BY <1>10 DEF Surface
    <3>2. att' = [att EXCEPT ![a].held = @ \ {c},
                             ![a].pc = IF att[a].held = {c} THEN "ended" ELSE "surface"]
      BY <1>1, <2>0, <3>1 DEF AttemptType
    <3>. QED
      BY <3>2
  <2>2. /\ att'[a].pc = pc /\ att'[a].todo = att[a].todo
        /\ att'[a].call = att[a].call /\ att'[a].out = att[a].out
        /\ att'[a].held = att[a].held \ {c}
    BY <1>1, <2>1 DEF AttemptType
  <2>3. att[a].todo = {} /\ att[a].out = {}
    BY <1>1, <2>0 DEF Apart
  <2>4. Apart(att'[a])
    BY <1>1, <2>1, <2>2, <2>3 DEF Apart, Spotless
  <2>5. \A d \in Calls : d \in Due(att'[a]) => d \in Due(att[a])
    BY <2>2, <2>3 DEF Due
  <2>. QED
    BY <2>2, <2>3, <2>4, <2>5 DEF Works
<1>. QED
  BY <1>4, <1>6, <1>7, <1>8, <1>9, <1>10

(* Saving an answer takes it from the work of its attempt (Save). *)
LEMMA SaveWorks ==
  ASSUME TypeInv, ApartInv, NEW a \in Attempts, NEW m \in att[a].out,
         att' = [att EXCEPT ![a].out = @ \ {m}], issuer' = issuer
  PROVE  /\ Apart(att'[a])
         /\ \A c \in Calls : c \in Due(att'[a]) => c \in Due(att[a])
         /\ \A n \in att'[a].out : issuer'[n[1]] # 0
         /\ m[2] # "pending" => m[1] \in Due(att[a]) /\ m[1] \notin Due(att'[a])
         /\ m[1] \in Calls /\ m[2] \in Kinds
<1>1. att \in [Attempts -> AttemptType] /\ att[a] \in AttemptType /\ Apart(att[a])
  BY DEF TypeInv, TypeOK, ApartInv
<1>2. /\ att'[a].pc = att[a].pc /\ att'[a].todo = att[a].todo /\ att'[a].call = att[a].call
      /\ att'[a].out = att[a].out \ {m} /\ att'[a].held = att[a].held
  BY <1>1 DEF AttemptType
<1>3. Apart(att'[a])
  <2>1. \A n, o \in att'[a].out : n[1] = o[1] => n = o
    BY <1>1, <1>2 DEF Apart
  <2>. QED
    BY <1>1, <1>2, <2>1 DEF Apart
<1>4. \A c \in Calls : c \in Due(att'[a]) => c \in Due(att[a])
  BY <1>2 DEF Due
<1>5. \A n \in att'[a].out : issuer'[n[1]] # 0
  BY <1>2 DEF ApartInv
<1>6. ASSUME m[2] # "pending"
      PROVE  m[1] \in Due(att[a]) /\ m[1] \notin Due(att'[a])
  <2>1. m[1] \in Due(att[a])
    BY <1>6 DEF Due
  <2>2. m[1] \notin att[a].todo /\ m[1] # att[a].call /\ m[1] \notin att[a].held
    BY <1>1, <1>6 DEF Apart
  <2>3. \A n \in att'[a].out : n[1] # m[1]
    BY <1>1, <1>2 DEF Apart
  <2>. QED
    BY <1>2, <2>1, <2>2, <2>3 DEF Due
<1>7. m[1] \in Calls /\ m[2] \in Kinds
  BY <1>1 DEF AttemptType
<1>. QED
  BY <1>3, <1>4, <1>5, <1>6, <1>7

(* Steps that answer no call keep the answers apart. *)
LEMMA ReplyFrame ==
  ASSUME ReplyInv, replies' = replies,
         \A c \in Calls : issuer[c] # 0 => issuer'[c] # 0,
         \A c \in Calls : said[c] # {} => said'[c] # {},
         \A c \in holds' : c \in holds \/ replies[c] = 0,
         \A b \in Attempts, c \in Calls :
            c \in Due(att'[b]) => c \in Due(att[b]) \/ replies[c] = 0
  PROVE  ReplyInv'
BY DEF ReplyInv

(* What the steps but Save and Recover change of the session. *)
LEMMA SessionFrame ==
  ASSUME TypeInv, NEW a \in Attempts, Step(a), ~Save(a), ~Recover(a)
  PROVE  /\ replies' = replies /\ said' = said
         /\ \A c \in Calls : issuer[c] # 0 => issuer'[c] # 0
         /\ holds' \subseteq holds \cup att[a].held
<1>1. CASE UNCHANGED session
  BY <1>1 DEF session
<1>2. CASE Start(a)
  BY <1>2 DEF Start
<1>3. CASE Model(a)
  <2>1. a # 0
    BY DEF Attempts
  <2>. QED
    BY <1>3, <2>1 DEF Model
<1>4. CASE Surface(a)
  BY <1>4 DEF Surface
<1>. QED
  BY <1>1, <1>2, <1>3, <1>4 DEF Step, Work, Prepare, Resume, NextCall, Take, Hold, Look, Begin,
     Execute, Interrupted, Complete, AfterTool, EndBatch, Settle, Done, Failing, Crash, Drop,
     LookFails, BeginFails, CompleteFails, Breaks

(* The recovery answers calls that nothing has answered (Prepare, Recover). *)
LEMMA RecoverAnswers ==
  ASSUME TypeInv, ApartInv, ReplyInv, NEW a \in Attempts, Recover(a),
         \A b \in Attempts \ {a} : att[b].pc = "off" /\ att'[b] = att[b]
  PROVE  ApartInv' /\ ReplyInv'
<1>1. /\ att \in [Attempts -> AttemptType] /\ att[a] \in AttemptType /\ Apart(att[a])
      /\ Shape(att[a]) /\ att[a].pc = "recover" /\ replies \in [Calls -> Nat]
      /\ said \in [Calls -> SUBSET Kinds]
  BY DEF TypeInv, TypeOK, ApartInv, Recover, At
<1>2. att[a].todo = {} /\ att[a].held = {} /\ att[a].call = None
  BY <1>1 DEF Shape, Busy, Apart
<1>3. /\ att'[a].pc = "start" /\ att'[a].out = {} /\ att'[a].todo = {} /\ att'[a].held = {}
      /\ att'[a].call = None
  BY <1>1, <1>2 DEF Recover, AttemptType
<1>4. Apart(att'[a]) /\ \A c \in Calls : c \notin Due(att'[a])
  BY <1>3, GovernedCallAssumption DEF Apart, Due
<1>5. \A b \in Attempts \ {a} : \A c \in Calls : c \notin Due(att[b])
  <2>. SUFFICES ASSUME NEW b \in Attempts \ {a} PROVE \A c \in Calls : c \notin Due(att[b])
    OBVIOUS
  <2>1. att[b].todo = {} /\ att[b].call = None /\ att[b].out = {} /\ att[b].held = {}
    BY DEF TypeInv, Shape, Busy, ApartInv, Apart, Spotless
  <2>. QED
    BY <2>1, GovernedCallAssumption DEF Due
<1>6. \A b \in Attempts : \A c \in Calls : c \notin Due(att'[b])
  BY <1>4, <1>5
<1>7. issuer' = issuer
  BY DEF Recover
<1>8. ApartInv'
  BY <1>3, <1>4, <1>7 DEF ApartInv
<1>. DEFINE answered == {m[1] : m \in att[a].out}
<1>9. ASSUME NEW c \in Calls
      PROVE  /\ said[c] \subseteq said'[c]
             /\ c \notin answered => replies'[c] = replies[c]
             /\ c \in answered => /\ replies'[c] = replies[c] + 1 /\ said'[c] # {}
                                  /\ c \notin holds'
             /\ c \in holds' => c \in holds
  <2>1. /\ said'[c] = said[c] \cup {m[2] : m \in {n \in att[a].out : n[1] = c}}
        /\ replies'[c] = IF c \in answered THEN replies[c] + 1 ELSE replies[c]
        /\ holds' = holds \ UNION {SameCall(d) : d \in answered}
    BY DEF Recover
  <2>2. c \in SameCall(c)
    BY DEF SameCall
  <2>. QED
    BY <2>1, <2>2
<1>10. \A c \in answered : issuer[c] # 0
  BY DEF ApartInv
<1>11. \A c \in Calls : c \in answered => replies[c] = 0
  <2>. SUFFICES ASSUME NEW m \in att[a].out, m[1] \in Calls PROVE replies[m[1]] = 0
    OBVIOUS
  <2>1. m[2] # "pending" => m[1] \in Due(att[a])
    BY DEF Due
  <2>. QED
    BY <1>1, <2>1 DEF ReplyInv, Apart
<1>. HIDE DEF answered
<1>12. ReplyInv'
  <2>. SUFFICES ASSUME NEW c \in Calls
                PROVE  /\ replies'[c] <= 1
                       /\ replies'[c] # 0 => issuer'[c] # 0 /\ said'[c] # {} /\ c \notin holds'
    BY <1>6 DEF ReplyInv
  <2>1. CASE c \in answered
    BY <1>7, <1>9, <1>10, <1>11, <2>1
  <2>2. CASE c \notin answered
    BY <1>7, <1>9, <2>2 DEF ReplyInv
  <2>. QED
    BY <2>1, <2>2
<1>. QED
  BY <1>8, <1>12

(* A step of the only attempt at work keeps answers apart. *)
LEMMA AnswerStep ==
  ASSUME TypeInv, HoldInv, ApartInv, ReplyInv, NEW a \in Attempts, Step(a),
         \A b \in Attempts \ {a} : att[b].pc = "off" /\ att'[b] = att[b]
  PROVE  ApartInv' /\ ReplyInv'
<1>1. att \in [Attempts -> AttemptType] /\ \A b \in Attempts : Shape(att[b])
  BY DEF TypeInv, TypeOK
<1>2. \A b \in Attempts \ {a} : att'[b].out = {} /\ \A c \in Calls : c \notin Due(att[b])
  <2>. SUFFICES ASSUME NEW b \in Attempts \ {a}
                PROVE  att'[b].out = {} /\ \A c \in Calls : c \notin Due(att[b])
    OBVIOUS
  <2>1. att[b].todo = {} /\ att[b].call = None /\ att[b].out = {} /\ att[b].held = {}
    BY <1>1 DEF Shape, Busy, ApartInv, Apart, Spotless
  <2>. QED
    BY <2>1, GovernedCallAssumption DEF Due
<1>3. ASSUME Apart(att'[a]), \A n \in att'[a].out : issuer'[n[1]] # 0
      PROVE  ApartInv'
  BY <1>2, <1>3 DEF ApartInv
<1>4. CASE Recover(a)
  BY <1>4, RecoverAnswers
<1>5. CASE Save(a)
  <2>1. PICK m \in att[a].out :
           /\ said' = [said EXCEPT ![m[1]] = @ \cup {m[2]}]
           /\ IF m[2] = "pending"
              THEN UNCHANGED <<holds, replies>>
              ELSE /\ holds' = holds \ AnsweredCalls(m[1])
                   /\ replies' = [replies EXCEPT ![m[1]] = @ + 1]
           /\ att' = [att EXCEPT ![a].out = @ \ {m}]
    BY <1>5 DEF Save
  <2>2. issuer' = issuer
    BY <1>5 DEF Save
  <2>3. /\ Apart(att'[a])
        /\ \A c \in Calls : c \in Due(att'[a]) => c \in Due(att[a])
        /\ \A n \in att'[a].out : issuer'[n[1]] # 0
        /\ m[2] # "pending" => m[1] \in Due(att[a]) /\ m[1] \notin Due(att'[a])
        /\ m[1] \in Calls
    BY <2>1, <2>2, SaveWorks
  <2>4. PICK d \in Calls : d = m[1]
    BY <2>3
  <2>5. \A c \in Calls : /\ said[c] # {} => said'[c] # {}
                         /\ said'[d] # {}
    BY <2>1, <2>4 DEF TypeInv, TypeOK
  <2>6. CASE m[2] = "pending"
    <3>1. replies' = replies /\ holds' = holds
      BY <2>1, <2>6
    <3>2. ReplyInv'
      BY <1>2, <2>2, <2>3, <2>5, <3>1, ReplyFrame
    <3>. QED
      BY <1>3, <2>3, <3>2
  <2>7. CASE m[2] # "pending"
    <3>1. /\ holds' = holds \ AnsweredCalls(d)
          /\ replies' = [replies EXCEPT ![d] = @ + 1]
      BY <2>1, <2>4, <2>7
    <3>2. replies[d] = 0 /\ d \notin holds' /\ d \notin Due(att'[a]) /\ issuer'[d] # 0
      BY <2>2, <2>3, <2>4, <2>7, <3>1 DEF ReplyInv, ApartInv, AnsweredCalls, SameCall
    <3>3. replies'[d] = 1 /\ \A c \in Calls \ {d} : replies'[c] = replies[c]
      BY <3>1, <3>2 DEF TypeInv, TypeOK
    <3>4. \A b \in Attempts : d \notin Due(att'[b])
      BY <1>2, <3>2
    <3>5. \A b \in Attempts, c \in Calls : c \in Due(att'[b]) => c \in Due(att[b])
      BY <2>3
    <3>6. ReplyInv'
      <4>. SUFFICES ASSUME NEW c \in Calls
                    PROVE  /\ replies'[c] <= 1
                           /\ replies'[c] # 0 =>
                                 /\ issuer'[c] # 0 /\ said'[c] # {} /\ c \notin holds'
                                 /\ \A b \in Attempts : c \notin Due(att'[b])
        BY DEF ReplyInv
      <4>1. CASE c = d
        BY <2>5, <3>2, <3>3, <3>4, <4>1
      <4>2. CASE c # d
        BY <2>2, <2>5, <3>1, <3>3, <3>5, <4>2 DEF ReplyInv
      <4>. QED
        BY <4>1, <4>2
    <3>. QED
      BY <1>3, <2>3, <3>6
  <2>. QED
    BY <2>6, <2>7
<1>6. CASE ~Save(a) /\ ~Recover(a)
  <2>1. Works(a)
    BY <1>6, PlainWorks, BatchWorks DEF Step, Work
  <2>2. /\ replies' = replies /\ said' = said
        /\ \A c \in Calls : issuer[c] # 0 => issuer'[c] # 0
        /\ holds' \subseteq holds \cup att[a].held
    BY <1>6, SessionFrame
  <2>3. \A c \in att[a].held : c \in Calls /\ replies[c] = 0
    BY <1>1 DEF ReplyInv, Due, AttemptType
  <2>4. ReplyInv'
    <3>1. \A c \in holds' : c \in holds \/ replies[c] = 0
      BY <2>2, <2>3
    <3>2. \A b \in Attempts, c \in Calls :
            c \in Due(att'[b]) => c \in Due(att[b]) \/ replies[c] = 0
      BY <2>1 DEF Works
    <3>. QED
      BY <2>2, <3>1, <3>2, ReplyFrame
  <2>. QED
    BY <1>3, <2>1, <2>4 DEF Works
<1>. QED
  BY <1>4, <1>5, <1>6

(* What a step of an attempt does to the claim of the run. *)
LEMMA ClaimFrame ==
  ASSUME TypeInv, NEW a \in Attempts, Step(a)
  PROVE  /\ ~At(a, "off") /\ epoch' = epoch /\ stalls' = stalls
         /\ run' = run \/ att'[a] = Off
<1>1. att \in [Attempts -> AttemptType]
  BY DEF TypeInv, TypeOK
<1>2. ~At(a, "off")
  BY DEF Step, Work, Prepare, Recover, Start, Resume, Model, NextCall, Take, Hold, Look, Begin,
     Execute, Interrupted, Complete, AfterTool, Save, EndBatch, Surface, Settle, Done, Failing,
     Crash, Drop, LookFails, BeginFails, CompleteFails, Breaks, At
<1>3. epoch' = epoch /\ stalls' = stalls
  BY DEF Step, Work, Prepare, Recover, Start, Resume, Model, NextCall, Take, Hold, Look, Begin,
     Execute, Interrupted, Complete, AfterTool, Save, EndBatch, Surface, Settle, Done, Failing,
     Crash, Drop, LookFails, BeginFails, CompleteFails, Breaks, Quiet, claims
<1>4. run' = run \/ att'[a] = Off
  <2>1. CASE Settle(a) \/ Done(a) \/ Failing(a)
    BY <1>1, <2>1 DEF Settle, Done, Failing
  <2>. QED
    BY <2>1 DEF Step, Work, Prepare, Recover, Start, Resume, Model, NextCall, Take, Hold, Look,
       Begin, Execute, Interrupted, Complete, AfterTool, Save, EndBatch, Surface, Crash, Drop,
       LookFails, BeginFails, CompleteFails, Breaks, claims
<1>. QED
  BY <1>2, <1>3, <1>4

(* A claim finds no attempt at work, as long as none stalls, and a         *)
(* decision changes none (Claim, Decide, Expire).                          *)
LEMMA OuterAnswers ==
  ASSUME TypeInv, TypeInv', Outer, stalls' = 0, AnswerInv
  PROVE  SoloInv' /\ ApartInv' /\ ReplyInv'
<1>0. att \in [Attempts -> AttemptType] /\ stalls \in Nat /\ epoch \in 0 .. MaxAttempts
  BY DEF TypeInv, TypeOK
<1>1. ~Takeover
  BY <1>0 DEF Takeover
<1>2. stalls = 0 /\ UNCHANGED session
  BY <1>0, <1>1 DEF Outer, Claim, Expire, Decide, Quiet, vars
<1>3. SoloInv /\ ApartInv /\ ReplyInv
  BY <1>2 DEF AnswerInv
<1>4. UNCHANGED <<issuer, said, holds, replies>>
  BY <1>2 DEF session
<1>5. CASE ~Claim
  <2>0. UNCHANGED att
    BY <1>1, <1>5 DEF Outer, Expire, Decide, vars
  <2>1. SoloInv'
    <3>1. epoch' = epoch /\ (run = "Running" => run' = "Running")
      BY <1>1, <1>5 DEF Outer, Expire, Decide, claims, vars
    <3>. QED
      BY <1>3, <2>0, <3>1 DEF SoloInv, At, Owns
  <2>2. ApartInv'
    BY <1>3, <1>4, <2>0 DEF ApartInv
  <2>3. ReplyInv'
    BY <1>3, <1>4, <2>0 DEF ReplyInv
  <2>. QED
    BY <2>1, <2>2, <2>3
<1>6. CASE Claim
  <2>1. PICK e \in Attempts : e = epoch + 1
    BY <1>0, <1>6, GovernedCallAssumption DEF Claim, Attempts
  <2>2. /\ run' = "Running" /\ epoch' = e
        /\ att' = [att EXCEPT ![e] = [Off EXCEPT !.pc = "prepare"]]
    BY <1>6, <2>1 DEF Claim
  <2>3. \A b \in Attempts : att[b].pc = "off"
    BY <1>3, <1>6 DEF SoloInv, Claim, At, Owns
  <2>4. /\ att'[e] = [Off EXCEPT !.pc = "prepare"]
        /\ \A b \in Attempts \ {e} : att'[b] = att[b]
    BY <1>0, <2>2
  <2>5. SoloInv'
    BY <2>2, <2>3, <2>4 DEF SoloInv, At, Owns
  <2>6. /\ att'[e].todo = {} /\ att'[e].call = None /\ att'[e].out = {} /\ att'[e].held = {}
    BY <2>4 DEF Off
  <2>7. Apart(att'[e]) /\ \A c \in Calls : c \notin Due(att'[e])
    BY <2>4, <2>6, GovernedCallAssumption DEF Apart, Due, Off
  <2>8. ApartInv'
    BY <1>3, <1>4, <2>4, <2>6, <2>7 DEF ApartInv
  <2>9. ReplyInv'
    BY <1>3, <1>4, <2>4, <2>7 DEF ReplyInv
  <2>. QED
    BY <2>5, <2>8, <2>9
<1>. QED
  BY <1>5, <1>6

(* Every step keeps answers apart, as long as no attempt stalls. *)
LEMMA AnswersKept ==
  ASSUME TypeInv, TypeInv', OnceInv, AnswerInv, [Next]_vars
  PROVE  AnswerInv'
<1>. SUFFICES ASSUME stalls' = 0 PROVE SoloInv' /\ ApartInv' /\ ReplyInv'
  BY DEF AnswerInv
<1>1. CASE Outer
  BY <1>1, OuterAnswers
<1>2. ASSUME NEW a \in Attempts, Step(a)
      PROVE  SoloInv' /\ ApartInv' /\ ReplyInv'
  <2>1. /\ ~At(a, "off") /\ epoch' = epoch /\ stalls = 0
        /\ run' = run \/ att'[a] = Off
    BY <1>2, ClaimFrame
  <2>2. SoloInv /\ ApartInv /\ ReplyInv
    BY <2>1 DEF AnswerInv
  <2>3. \A b \in Attempts \ {a} : att[b].pc = "off" /\ att'[b] = att[b]
    <3>1. \A b \in Attempts \ {a} : att'[b] = att[b]
      BY <1>2, StepMoves
    <3>2. \A b \in Attempts \ {a} : att[b].pc = "off"
      BY <2>1, <2>2 DEF SoloInv, At, Owns
    <3>. QED
      BY <3>1, <3>2
  <2>4. SoloInv'
    <3>1. Owns(a)
      BY <2>1, <2>2 DEF SoloInv
    <3>2. att'[a] = Off => att'[a].pc = "off"
      BY DEF Off
    <3>. QED
      BY <2>1, <2>3, <3>1, <3>2 DEF SoloInv, At, Owns
  <2>. QED
    BY <1>2, <2>2, <2>3, <2>4, AnswerStep DEF OnceInv
<1>. QED
  BY <1>1, <1>2, NextSplits

(* A call has one response that is not a pending one, over crashes,        *)
(* recoveries, and holds resumed and held again, as long as no attempt     *)
(* goes on after it lost the run (AnsweredCalls, recover_unanswered_calls, *)
(* scan_held_calls).                                                       *)
THEOREM CallsAreAnsweredOnce == Spec => []OneAnswer
<1>1. TypeInv /\ OnceInv /\ AnswerInv /\ [Next]_vars => (TypeInv /\ OnceInv /\ AnswerInv)'
  BY TypesKept, OnceKept, AnswersKept
<1>2. Init => AnswerInv
  <2>. SUFFICES ASSUME Init PROVE SoloInv /\ ApartInv /\ ReplyInv
    BY DEF AnswerInv
  <2>1. \A a \in Attempts : att[a] = Off
    BY DEF Init
  <2>2. Apart(Off) /\ Off.out = {} /\ Off.pc = "off"
    BY DEF Off, Apart
  <2>3. SoloInv /\ ApartInv
    BY <2>1, <2>2 DEF SoloInv, ApartInv, At
  <2>4. \A c \in Calls : replies[c] = 0
    BY DEF Init
  <2>5. ReplyInv
    BY <2>4 DEF ReplyInv
  <2>. QED
    BY <2>3, <2>5
<1>3. AnswerInv => OneAnswer
  BY DEF AnswerInv, ReplyInv, OneAnswer
<1>. QED
  BY <1>1, <1>2, <1>3, TypesFirst, OnceFirst, PTL DEF Spec
=============================================================================
