--------------------------- MODULE RiskGate_proofs ---------------------------
(***************************************************************************)
(* Proofs about RiskGate, for any number of orders, operators, readers,    *)
(* scopes and faults.                                                      *)
(***************************************************************************)
EXTENDS RiskGate, SequenceTheorems, TLAPS

Callers == Orders \cup Operators

\* prepend_event keeps a list of events.
LEMMA PrependType ==
    ASSUME NEW events \in Seq(Callers), NEW who \in Callers
    PROVE  Prepend(events, who) \in Seq(Callers)
<1> DEFINE all == <<who>> \o events
<1>1. <<who>> \in Seq(Callers)
  OBVIOUS
<1>2. all \in Seq(Callers)
  BY <1>1, ConcatProperties
<1>3. CASE Len(all) > EventLimit
  <2>1. \A i \in 1..EventLimit : i \in 1..Len(all)
    BY <1>2, <1>3, RiskGateAssumption, LenProperties
  <2>2. SubSeq(all, 1, EventLimit) \in Seq(Callers)
    BY <1>2, <1>3, <2>1, RiskGateAssumption, SubSeqProperties
  <2> QED
    BY <1>3, <2>2 DEF Prepend
<1>4. CASE ~(Len(all) > EventLimit)
  BY <1>2, <1>4 DEF Prepend
<1> QED
  BY <1>3, <1>4

LEMMA DefaultType == DefaultControl \in Control
<1>1. <<>> \in Seq(Callers)
  OBVIOUS
<1> QED
  BY <1>1 DEF DefaultControl, Control, Config, Callers

LEMMA LoggedType ==
    ASSUME NEW control \in Control, NEW who \in Callers
    PROVE  [control EXCEPT !.events = Prepend(@, who)] \in Control
<1>1. control.events \in Seq(Callers)
  BY DEF Control, Callers
<1>2. Prepend(control.events, who) \in Seq(Callers)
  BY <1>1, PrependType
<1> QED
  BY <1>2 DEF Control, Callers

LEMMA MutatedType ==
    ASSUME NEW control \in Control, NEW cmd \in Command, NEW who \in Operators
    PROVE  Mutated(control, cmd, who) \in Control
<1>1. control.events \in Seq(Callers) /\ who \in Callers
  BY DEF Control, Callers
<1>2. Prepend(control.events, who) \in Seq(Callers)
  BY <1>1, PrependType
<1> DEFINE m == Mutated(control, cmd, who)
<1>3. m.events \in Seq(Callers)
  BY <1>1, <1>2 DEF Mutated
<1>4. m.kill \in BOOLEAN
  BY DEF Mutated
<1>5. m.config \in Config
  BY DEF Mutated, MutatedConfig, Command, Control, Config
<1>6. m.stops \subseteq Stop
  <2>1. CASE cmd.kind = "stop"
    <3>1. cmd.scope \in Scopes
      BY <2>1 DEF Command
    <3>2. [id |-> who, scope |-> cmd.scope] \in Stop
      BY <3>1 DEF Stop
    <3> QED
      BY <2>1, <3>2 DEF Mutated, MutatedStops, Control
  <2>2. CASE cmd.kind = "unstop"
    BY <2>2 DEF Mutated, MutatedStops, Control
  <2>3. CASE cmd.kind \notin {"stop", "unstop"}
    BY <2>3 DEF Mutated, MutatedStops, Control
  <2> QED
    BY <2>1, <2>2, <2>3
<1>7. m = [kill |-> m.kill, config |-> m.config, stops |-> m.stops, events |-> m.events]
  BY DEF Mutated
<1> QED
  BY <1>3, <1>4, <1>5, <1>6, <1>7 DEF Control, Callers

LEMMA IdleTypes ==
    /\ \A at \in OrderPC : [IdleSub EXCEPT !.pc = at] \in [pc : OrderPC, copy : Control]
    /\ \A at \in OpPC : [IdleOp EXCEPT !.pc = at] \in [pc : OpPC, cmd : Command, copy : Control]
    /\ IdleSub \in [pc : OrderPC, copy : Control]
    /\ IdleOp \in [pc : OpPC, cmd : Command, copy : Control]
    /\ IdleReader \in [pc : {"idle", "loaded", "error"}, copy : Control]
  BY DefaultType DEF IdleSub, IdleOp, IdleReader, OrderPC, OpPC, Command

\* Every decision is a place of a submission.
LEMMA DecisionType ==
    ASSUME NEW control, NEW o, Decision(control, o) # "allowed"
    PROVE  Decision(control, o) \in OrderPC
  BY DEF Decision, OrderPC

----------------------------------------------------------------------------
(***************************************************************************)
(* Type correctness, one lemma for each group of callers.                  *)
(***************************************************************************)
OpType == [pc : OpPC, cmd : Command, copy : Control]
SubType == [pc : OrderPC, copy : Control]
ReaderType == [pc : {"idle", "loaded", "error"}, copy : Control]

LEMMA OperateTyped ==
    ASSUME TypeOK, NEW p \in Operators, Operate(p)
    PROVE  TypeOK'
<1>1. file.content \in Control /\ op[p] \in OpType
  BY DEF TypeOK, OpType
<1>2. op[p].copy \in Control /\ op[p].cmd \in Command
  BY <1>1 DEF OpType
<1>3. \A at \in {"failed", "acknowledged"} : [IdleOp EXCEPT !.pc = at] \in OpType
  BY IdleTypes DEF OpType, OpPC
<1>4. ASSUME NEW at \in {"failed", "acknowledged"}, OpEnds(p, at)
      PROVE  op' \in [Operators -> OpType]
  BY <1>3, <1>4 DEF TypeOK, OpEnds, OpType
<1>5. ASSUME NEW cmd \in Command, OpLoad(p, cmd) PROVE TypeOK'
  <2>1. gate' \in Orders \cup Operators \cup {Nobody} /\ unavailable' \in BOOLEAN
    BY <1>5 DEF OpLoad, TypeOK, ControlPlaneFails
  <2>2. op' \in [Operators -> OpType]
    <3>1. CASE OpEnds(p, "failed")
      BY <1>4, <3>1
    <3>2. CASE op' = [op EXCEPT ![p] = [pc |-> "mutated", cmd |-> cmd,
                                        copy |-> Mutated(file.content, cmd, p)]]
      <4>1. Mutated(file.content, cmd, p) \in Control
        BY <1>1, MutatedType
      <4>2. [pc |-> "mutated", cmd |-> cmd, copy |-> Mutated(file.content, cmd, p)] \in OpType
        BY <4>1 DEF OpType, OpPC
      <4> QED
        BY <3>2, <4>2 DEF TypeOK, OpType
    <3> QED
      BY <1>5, <3>1, <3>2 DEF OpLoad
  <2> QED
    BY <1>5, <2>1, <2>2 DEF OpLoad, TypeOK, OpType
<1>6. CASE OpPersist(p)
  <2>1. gate' \in Orders \cup Operators \cup {Nobody} /\ unavailable' \in BOOLEAN
    BY <1>6 DEF OpPersist, TypeOK, ControlPlaneFails
  <2>2. op' \in [Operators -> OpType]
    <3>1. CASE OpEnds(p, "failed")
      BY <1>4, <3>1
    <3>2. CASE op' = [op EXCEPT ![p].pc = "persisted"]
      <4>1. [op[p] EXCEPT !.pc = "persisted"] \in OpType
        BY <1>1 DEF OpType, OpPC
      <4> QED
        BY <3>2, <4>1 DEF TypeOK, OpType
    <3> QED
      BY <1>6, <3>1, <3>2 DEF OpPersist
  <2>3. file' \in [state : {"ok", "damaged", "missing"}, content : Control]
    BY <1>2, <1>6 DEF OpPersist, Persist, TypeOK
  <2>4. inforce' \in [kill : BOOLEAN, stops : SUBSET Stop] /\ faults' \in Nat
    <3>1. StillInForce(op[p].cmd) \in [kill : BOOLEAN, stops : SUBSET Stop]
      BY DEF StillInForce, TypeOK
    <3> QED
      BY <1>6, <3>1 DEF OpPersist, TypeOK
  <2> QED
    BY <1>6, <2>1, <2>2, <2>3, <2>4 DEF OpPersist, TypeOK, OpType
<1>7. CASE OpCommit(p)
  <2>1. op' \in [Operators -> OpType]
    BY <1>4, <1>7 DEF OpCommit
  <2>2. inforce' \in [kill : BOOLEAN, stops : SUBSET Stop]
    <3>1. op[p].copy.stops \subseteq Stop
      BY <1>2 DEF Control
    <3> QED
      BY <1>7, <3>1 DEF OpCommit, TypeOK
  <2> QED
    BY <1>2, <1>7, <2>1, <2>2 DEF OpCommit, TypeOK, OpType, Remember
<1> QED
  BY <1>5, <1>6, <1>7 DEF Operate

LEMMA SubmitTyped ==
    ASSUME TypeOK, NEW o \in Orders, Submit(o)
    PROVE  TypeOK'
<1>1. file.content \in Control /\ sub[o] \in SubType
  BY DEF TypeOK, SubType
<1>2. sub[o].copy \in Control
  BY <1>1 DEF SubType
<1>3. ASSUME NEW at \in OrderPC, SubAt(o, at)
      PROVE  sub' \in [Orders -> SubType]
  <2>1. [IdleSub EXCEPT !.pc = at] \in SubType
    BY IdleTypes DEF SubType
  <2> QED
    BY <1>3, <2>1 DEF TypeOK, SubAt, SubType
<1>4. CASE GuardPoisoned(o) \/ GuardSimulate(o)
  <2>1. sub' \in [Orders -> SubType]
    BY <1>3, <1>4 DEF GuardPoisoned, GuardSimulate, OrderPC
  <2> QED
    BY <1>4, <2>1 DEF GuardPoisoned, GuardSimulate, TypeOK, SubType
<1>5. CASE GuardReal(o)
  <2>1. sub' \in [Orders -> SubType]
    <3>1. \/ SubAt(o, "unavailable") \/ SubAt(o, "calling")
          \/ Decision(file.content, o) # "allowed" /\ SubAt(o, Decision(file.content, o))
          \/ sub' = [sub EXCEPT ![o] = [pc |-> "auditing",
                        copy |-> [file.content EXCEPT !.events = Prepend(@, o)]]]
      BY <1>5 DEF GuardReal
    <3>2. CASE SubAt(o, "unavailable") \/ SubAt(o, "calling")
      BY <1>3, <3>2 DEF OrderPC
    <3>3. CASE Decision(file.content, o) # "allowed" /\ SubAt(o, Decision(file.content, o))
      BY <1>3, <3>3, DecisionType
    <3>4. CASE sub' = [sub EXCEPT ![o] = [pc |-> "auditing",
                          copy |-> [file.content EXCEPT !.events = Prepend(@, o)]]]
      <4>1. [file.content EXCEPT !.events = Prepend(@, o)] \in Control
        BY <1>1, LoggedType DEF Callers
      <4>2. [pc |-> "auditing", copy |-> [file.content EXCEPT !.events = Prepend(@, o)]] \in SubType
        BY <4>1 DEF SubType, OrderPC
      <4> QED
        BY <3>4, <4>2 DEF TypeOK, SubType
    <3> QED
      BY <3>1, <3>2, <3>3, <3>4
  <2>2. /\ gate' \in Orders \cup Operators \cup {Nobody}
        /\ memory' \in Control /\ unavailable' \in BOOLEAN
    BY <1>1, <1>5 DEF GuardReal, TypeOK, ControlPlaneFails, Remember
  <2> QED
    BY <1>5, <2>1, <2>2 DEF GuardReal, TypeOK, SubType
<1>6. CASE GuardAudit(o)
  <2>1. sub' \in [Orders -> SubType]
    <3>1. CASE SubAt(o, "unavailable")
      BY <1>3, <3>1 DEF OrderPC
    <3>2. CASE sub' = [sub EXCEPT ![o].pc = "audited"]
      <4>1. [sub[o] EXCEPT !.pc = "audited"] \in SubType
        BY <1>1 DEF SubType, OrderPC
      <4> QED
        BY <3>2, <4>1 DEF TypeOK, SubType
    <3> QED
      BY <1>6, <3>1, <3>2 DEF GuardAudit
  <2>2. file' \in [state : {"ok", "damaged", "missing"}, content : Control]
    BY <1>2, <1>6 DEF GuardAudit, TypeOK, Persist
  <2>3. gate' \in Orders \cup Operators \cup {Nobody} /\ unavailable' \in BOOLEAN
    BY <1>6 DEF GuardAudit, TypeOK, ControlPlaneFails
  <2>4. faults' \in Nat
    BY <1>6 DEF GuardAudit, TypeOK
  <2> QED
    BY <1>6, <2>1, <2>2, <2>3, <2>4 DEF GuardAudit, TypeOK, SubType
<1>7. CASE GuardAudited(o)
  <2>1. sub' \in [Orders -> SubType]
    BY <1>3, <1>7 DEF GuardAudited, OrderPC
  <2> QED
    BY <1>2, <1>7, <2>1 DEF GuardAudited, TypeOK, SubType, Remember
<1>8. CASE GuardReturn(o)
  <2>1. sub' \in [Orders -> SubType]
    BY <1>3, <1>8 DEF GuardReturn, OrderPC
  <2> QED
    BY <1>8, <2>1 DEF GuardReturn, TypeOK, SubType
<1>9. CASE GuardPanic(o)
  <2>1. sub' \in [Orders -> SubType]
    BY <1>3, <1>9 DEF GuardPanic, OrderPC
  <2>2. faults' \in Nat
    BY <1>9 DEF GuardPanic, TypeOK
  <2> QED
    BY <1>9, <2>1, <2>2 DEF GuardPanic, TypeOK, SubType
<1> QED
  BY <1>4, <1>5, <1>6, <1>7, <1>8, <1>9 DEF Submit

LEMMA OtherTyped ==
    ASSUME TypeOK,
           Outside \/ UNCHANGED vars
              \/ \E r \in Readers : SnapshotLoad(r) \/ SnapshotStore(r)
    PROVE  TypeOK'
<1>1. file.content \in Control
  BY DEF TypeOK
<1>2. ASSUME NEW r \in Readers, SnapshotLoad(r) PROVE TypeOK'
  <2>1. /\ [pc |-> "loaded", copy |-> file.content] \in ReaderType
        /\ [pc |-> "error", copy |-> DefaultControl] \in ReaderType
    BY <1>1, DefaultType DEF ReaderType
  <2>2. reader' \in [Readers -> ReaderType]
    BY <1>2, <2>1 DEF SnapshotLoad, TypeOK, ReaderType
  <2> QED
    BY <1>2, <2>2 DEF SnapshotLoad, TypeOK, ReaderType
<1>3. ASSUME NEW r \in Readers, SnapshotStore(r) PROVE TypeOK'
  <2>1. reader[r] \in ReaderType /\ IdleReader \in ReaderType
    BY IdleTypes DEF TypeOK, ReaderType
  <2>2. reader' \in [Readers -> ReaderType]
    BY <1>3, <2>1 DEF SnapshotStore, TypeOK, ReaderType
  <2>3. memory' \in Control /\ unavailable' \in BOOLEAN
    BY <1>3, <2>1 DEF SnapshotStore, TypeOK, ReaderType, Remember
  <2> QED
    BY <1>3, <2>2, <2>3 DEF SnapshotStore, TypeOK, ReaderType
<1>4. CASE FileDamaged
  <2>1. file' \in [state : {"ok", "damaged", "missing"}, content : Control]
    BY <1>4 DEF FileDamaged, TypeOK
  <2>2. faults' = faults + 1 /\ UNCHANGED <<poisoned, memory, unavailable, up, gate, sub,
                                            op, reader, inforce, lost>>
    BY <1>4 DEF FileDamaged
  <2> QED
    BY <2>1, <2>2 DEF TypeOK
<1>5. CASE FileRepaired
  <2>1. file' \in [state : {"ok", "damaged", "missing"}, content : Control]
    BY <1>5 DEF FileRepaired, TypeOK
  <2>2. UNCHANGED <<poisoned, memory, unavailable, up, gate, sub, op, reader, inforce,
                    lost, faults>>
    BY <1>5 DEF FileRepaired
  <2> QED
    BY <2>1, <2>2 DEF TypeOK
<1>6. CASE FileDeleted
  <2>1. file' \in [state : {"ok", "damaged", "missing"}, content : Control]
    BY <1>6, DefaultType DEF FileDeleted
  <2>2. inforce' \in [kill : BOOLEAN, stops : SUBSET Stop]
    BY <1>6 DEF FileDeleted
  <2>3. faults' = faults + 1 /\ lost' = TRUE
        /\ UNCHANGED <<poisoned, memory, unavailable, up, gate, sub, op, reader>>
    BY <1>6 DEF FileDeleted
  <2> QED
    BY <2>1, <2>2, <2>3 DEF TypeOK
<1>7. CASE Crash
  <2>1. sub' \in [Orders -> SubType]
    <3>1. [IdleSub EXCEPT !.pc = "dead"] \in SubType
      BY IdleTypes DEF SubType, OrderPC
    <3> QED
      BY <1>7, <3>1 DEF Crash, TypeOK, SubType
  <2>2. op' \in [Operators -> OpType]
    <3>1. [IdleOp EXCEPT !.pc = "dead"] \in OpType
      BY IdleTypes DEF OpType, OpPC
    <3> QED
      BY <1>7, <3>1 DEF Crash, TypeOK, OpType
  <2>3. reader' \in [Readers -> ReaderType]
    BY <1>7, IdleTypes DEF Crash, ReaderType
  <2> QED
    BY <1>7, <2>1, <2>2, <2>3 DEF Crash, TypeOK, SubType, OpType, ReaderType
<1>8. CASE Open
  <2>1. file' \in [state : {"ok", "damaged", "missing"}, content : Control]
    BY <1>8 DEF Open, TypeOK
  <2> QED
    BY <1>1, <1>8, <2>1 DEF Open, TypeOK, Remember
<1>9. CASE UNCHANGED vars
  BY <1>9 DEF vars, TypeOK
<1> QED
  BY <1>2, <1>3, <1>4, <1>5, <1>6, <1>7, <1>8, <1>9 DEF Outside

LEMMA TypeInit == Init => TypeOK
<1> SUFFICES ASSUME Init PROVE TypeOK
  OBVIOUS
<1>1. PICK config \in Config :
         file = [state |-> "ok", content |-> [DefaultControl EXCEPT !.config = config]]
            /\ memory = file.content
  BY DEF Init
<1>2. [DefaultControl EXCEPT !.config = config] \in Control
  BY DefaultType DEF Control
<1> QED
  BY <1>1, <1>2, IdleTypes DEF Init, TypeOK

LEMMA TypeNext == TypeOK /\ [Next]_vars => TypeOK'
  BY OperateTyped, SubmitTyped, OtherTyped DEF Next

\* Every variable holds a value of its kind, in every reachable state.
THEOREM Typing == Spec => []TypeOK
  BY TypeInit, TypeNext, PTL DEF Spec
----------------------------------------------------------------------------
(***************************************************************************)
(* The safety of the gate.  AcknowledgedControlsKept and HaltHonoured are  *)
(* not inductive: what a caller will write, or do at the broker, was       *)
(* decided from a copy of the file it read before.  The strengthening says *)
(* that a caller in between holds the gate, and that its copy has every    *)
(* control that will still be in force when the copy is written.           *)
(***************************************************************************)
InGuard == {"calling", "auditing", "audited"}
InMutation == {"mutated", "persisted"}

GateHeld ==
    /\ \A o \in Orders : sub[o].pc \in InGuard => gate = o
    /\ \A p \in Operators : op[p].pc \in InMutation => gate = p

CopiesCurrent ==
    /\ \A o \in Orders :
          sub[o].pc = "auditing" =>
              /\ inforce.kill => sub[o].copy.kill
              /\ inforce.stops \subseteq sub[o].copy.stops
    /\ \A p \in Operators :
          op[p].pc = "mutated" =>
              /\ inforce.kill /\ op[p].cmd.kind # "unkill" => op[p].copy.kill
              /\ \A s \in inforce.stops :
                    ~(op[p].cmd.kind = "unstop" /\ s.id = op[p].cmd.id) => s \in op[p].copy.stops
              /\ op[p].cmd.kind = "kill" => op[p].copy.kill
    /\ \A p \in Operators :
          op[p].pc = "persisted" /\ ~lost =>
              /\ op[p].cmd.kind = "kill" => file.content.kill
              /\ op[p].copy.stops \subseteq file.content.stops

Safe == GateHeld /\ CopiesCurrent /\ AcknowledgedControlsKept /\ HaltHonoured

IInv == TypeOK /\ Safe

NobodyInside ==
    /\ \A o \in Orders : sub[o].pc \notin InGuard
    /\ \A p \in Operators : op[p].pc \notin InMutation

LEMMA SafeInit == Init => Safe
<1> SUFFICES ASSUME Init PROVE Safe
  OBVIOUS
<1>1. NobodyInside
  BY DEF Init, IdleSub, IdleOp, InGuard, InMutation, NobodyInside
<1>2. inforce = [kill |-> FALSE, stops |-> {}]
  BY DEF Init
<1>3. AcknowledgedControlsKept
  BY <1>2 DEF AcknowledgedControlsKept
<1> QED
  BY <1>1, <1>3, RiskGateAssumption DEF Safe, GateHeld, CopiesCurrent, HaltHonoured,
     NobodyInside, InGuard, InMutation

\* With nobody inside, only the file and the controls in force matter.
LEMMA SafeWhenEmpty ==
    ASSUME NobodyInside', AcknowledgedControlsKept'
    PROVE  Safe'
  BY RiskGateAssumption DEF Safe, GateHeld, CopiesCurrent, HaltHonoured,
     NobodyInside, InGuard, InMutation

\* A step that touches neither a caller inside the gate nor a control.
LEMMA SafeFrame ==
    ASSUME Safe, UNCHANGED <<sub, op, gate, inforce, lost>>, file'.content = file.content
    PROVE  Safe'
<1>1. GateHeld'
  BY DEF Safe, GateHeld
<1>2. CopiesCurrent'
  BY DEF Safe, CopiesCurrent
<1>3. AcknowledgedControlsKept' /\ HaltHonoured'
  BY DEF Safe, AcknowledgedControlsKept, HaltHonoured
<1> QED
  BY <1>1, <1>2, <1>3 DEF Safe

LEMMA SubAtEffect ==
    ASSUME TypeOK, NEW o \in Orders, NEW at, SubAt(o, at)
    PROVE  sub'[o].pc = at /\ \A q \in Orders \ {o} : sub'[q] = sub[q]
  BY DEF TypeOK, SubAt, IdleSub

LEMMA OpEndsEffect ==
    ASSUME TypeOK, NEW p \in Operators, NEW at, OpEnds(p, at)
    PROVE  op'[p].pc = at /\ \A q \in Operators \ {p} : op'[q] = op[q]
  BY DEF TypeOK, OpEnds, IdleOp

\* A submission that ends leaves nobody inside and the controls alone.
LEMMA SubmissionEnds ==
    ASSUME TypeOK, Safe, NEW o \in Orders, gate \in {Nobody, o},
           NEW at, at \notin InGuard, SubAt(o, at), UNCHANGED <<op, file, inforce>>
    PROVE  Safe'
<1>1. NobodyInside'
  <2>1. \A q \in Orders \ {o} : sub[q].pc \notin InGuard
    BY RiskGateAssumption DEF Safe, GateHeld
  <2>2. sub'[o].pc = at /\ \A q \in Orders \ {o} : sub'[q] = sub[q]
    BY SubAtEffect
  <2>3. \A p \in Operators : op[p].pc \notin InMutation
    BY RiskGateAssumption DEF Safe, GateHeld
  <2> QED
    BY <2>1, <2>2, <2>3 DEF NobodyInside
<1>2. AcknowledgedControlsKept'
  BY DEF Safe, AcknowledgedControlsKept
<1> QED
  BY <1>1, <1>2, SafeWhenEmpty

\* A mutation that ends leaves nobody inside.
LEMMA MutationEnds ==
    ASSUME TypeOK, Safe, NEW p \in Operators, gate \in {Nobody, p},
           NEW at, at \notin InMutation, OpEnds(p, at), UNCHANGED sub,
           AcknowledgedControlsKept'
    PROVE  Safe'
<1>1. NobodyInside'
  <2>1. \A q \in Operators \ {p} : op[q].pc \notin InMutation
    BY RiskGateAssumption DEF Safe, GateHeld
  <2>2. op'[p].pc = at /\ \A q \in Operators \ {p} : op'[q] = op[q]
    BY OpEndsEffect
  <2>3. \A o \in Orders : sub[o].pc \notin InGuard
    BY RiskGateAssumption DEF Safe, GateHeld
  <2> QED
    BY <2>1, <2>2, <2>3 DEF NobodyInside
<1> QED
  BY <1>1, SafeWhenEmpty

\* What a decision to allow has found.
LEMMA AllowedMeans ==
    ASSUME NEW control, NEW o, Decision(control, o) = "allowed"
    PROVE  /\ control.config \in {"on", "limited"}
           /\ ~control.kill /\ ~Stopped(control, o)
  BY DEF Decision

\* An order enters its broker call with nobody else inside.
LEMMA CallBegins ==
    ASSUME TypeOK, Safe, NEW o \in Orders, gate = Nobody, gate' = o, SubAt(o, "calling"),
           UNCHANGED <<op, file, inforce>>,
           o \in realOrders => Decision(file.content, o) = "allowed"
    PROVE  Safe'
<1>1. sub'[o].pc = "calling" /\ \A q \in Orders \ {o} : sub'[q] = sub[q]
  BY SubAtEffect
<1>2. /\ \A q \in Orders \ {o} : sub'[q].pc \notin InGuard
      /\ \A p \in Operators : op'[p].pc \notin InMutation
  BY <1>1, RiskGateAssumption DEF Safe, GateHeld
<1>3. GateHeld' /\ CopiesCurrent'
  BY <1>1, <1>2 DEF GateHeld, CopiesCurrent, InGuard, InMutation
<1>4. AcknowledgedControlsKept'
  BY DEF Safe, AcknowledgedControlsKept
<1>5. HaltHonoured'
  <2>1. o \in realOrders => ~file.content.kill /\ ~Stopped(file.content, o)
    BY AllowedMeans
  <2>2. o \in realOrders => ~inforce.kill /\ \A s \in inforce.stops : o \notin covers[s.scope]
    BY <2>1 DEF Safe, AcknowledgedControlsKept, Stopped
  <2> QED
    BY <1>2, <2>2, RiskGateAssumption DEF HaltHonoured, InGuard
<1> QED
  BY <1>3, <1>4, <1>5 DEF Safe

LEMMA SubmitSafe ==
    ASSUME TypeOK, Safe, NEW o \in Orders, Submit(o)
    PROVE  Safe'
<1>1. CASE GuardPoisoned(o)
  BY <1>1, SubmissionEnds DEF GuardPoisoned, GateFree, InGuard
<1>2. CASE GuardSimulate(o)
  BY <1>2, CallBegins DEF GuardSimulate, GateFree
<1>3. CASE GuardReal(o)
  <2>0. gate = Nobody /\ UNCHANGED <<op, file, inforce>>
    BY <1>3 DEF GuardReal, GateFree
  <2>1. CASE SubAt(o, "unavailable")
    BY <2>0, <2>1, SubmissionEnds DEF InGuard
  <2>2. CASE Decision(file.content, o) = "allowed" /\ gate' = o /\ SubAt(o, "calling")
    BY <2>0, <2>2, CallBegins
  <2>3. CASE /\ gate' = o
             /\ sub' = [sub EXCEPT ![o] = [pc |-> "auditing",
                           copy |-> [file.content EXCEPT !.events = Prepend(@, o)]]]
    <3>1. /\ sub'[o].pc = "auditing"
          /\ sub'[o].copy.kill = file.content.kill
          /\ sub'[o].copy.stops = file.content.stops
          /\ \A q \in Orders \ {o} : sub'[q] = sub[q]
      BY <2>3 DEF TypeOK, Control
    <3>2. /\ \A q \in Orders \ {o} : sub'[q].pc \notin InGuard
          /\ \A p \in Operators : op'[p].pc \notin InMutation
      BY <2>0, <3>1, RiskGateAssumption DEF Safe, GateHeld
    <3>3. GateHeld'
      BY <2>3, <3>2 DEF GateHeld
    <3>4. CopiesCurrent'
      BY <2>0, <3>1, <3>2 DEF CopiesCurrent, InGuard, InMutation, Safe,
         AcknowledgedControlsKept
    <3>5. AcknowledgedControlsKept'
      BY <2>0 DEF Safe, AcknowledgedControlsKept
    <3>6. HaltHonoured'
      BY <3>1, <3>2, RiskGateAssumption DEF HaltHonoured, InGuard
    <3> QED
      BY <3>3, <3>4, <3>5, <3>6 DEF Safe
  <2>4. CASE /\ Decision(file.content, o) \notin {"allowed", "stopped"}
             /\ SubAt(o, Decision(file.content, o))
    <3>1. Decision(file.content, o) \notin InGuard
      BY DEF Decision, InGuard
    <3> QED
      BY <2>0, <2>4, <3>1, SubmissionEnds
  <2> QED
    BY <1>3, <2>1, <2>2, <2>3, <2>4 DEF GuardReal
<1>4. CASE GuardAudit(o)
  <2>0. gate = o /\ UNCHANGED <<op, inforce, lost>>
    BY <1>4 DEF GuardAudit, Safe, GateHeld, InGuard
  <2>1. CASE SubAt(o, "unavailable") /\ UNCHANGED file
    BY <2>0, <2>1, SubmissionEnds DEF InGuard
  <2>2. CASE /\ Persist(sub[o].copy) /\ UNCHANGED gate
             /\ sub' = [sub EXCEPT ![o].pc = "audited"]
    <3>1. sub'[o].pc = "audited" /\ \A q \in Orders \ {o} : sub'[q] = sub[q]
      BY <2>2 DEF TypeOK
    <3>2. /\ \A q \in Orders \ {o} : sub'[q].pc \notin InGuard
          /\ \A p \in Operators : op'[p].pc \notin InMutation
      BY <2>0, <3>1, RiskGateAssumption DEF Safe, GateHeld
    <3>3. GateHeld' /\ CopiesCurrent'
      BY <2>0, <2>2, <3>1, <3>2 DEF GateHeld, CopiesCurrent, InGuard, InMutation
    <3>4. AcknowledgedControlsKept'
      <4>1. sub[o].pc = "auditing" /\ file'.content = sub[o].copy
        BY <1>4, <2>2 DEF GuardAudit, Persist
      <4> QED
        BY <2>0, <4>1 DEF Safe, CopiesCurrent, AcknowledgedControlsKept
    <3>5. HaltHonoured'
      BY <3>1, <3>2, RiskGateAssumption DEF HaltHonoured, InGuard
    <3> QED
      BY <3>3, <3>4, <3>5 DEF Safe
  <2> QED
    BY <1>4, <2>1, <2>2 DEF GuardAudit
<1>5. CASE GuardAudited(o)
  <2>1. gate = o
    BY <1>5 DEF GuardAudited, Safe, GateHeld, InGuard
  <2> QED
    BY <1>5, <2>1, SubmissionEnds DEF GuardAudited, InGuard
<1>6. CASE GuardReturn(o)
  <2>1. gate = o
    BY <1>6 DEF GuardReturn, Safe, GateHeld, InGuard
  <2> QED
    BY <1>6, <2>1, SubmissionEnds DEF GuardReturn, InGuard
<1>7. CASE GuardPanic(o)
  <2>1. gate = o
    BY <1>7 DEF GuardPanic, Safe, GateHeld, InGuard
  <2> QED
    BY <1>7, <2>1, SubmissionEnds DEF GuardPanic, InGuard
<1> QED
  BY <1>1, <1>2, <1>3, <1>4, <1>5, <1>6, <1>7 DEF Submit

\* A mutation of the copy drops no control but the one it releases.
LEMMA MutatedKeeps ==
    ASSUME NEW control \in Control, NEW cmd \in Command, NEW who \in Operators
    PROVE  LET copy == Mutated(control, cmd, who)
           IN /\ control.kill /\ cmd.kind # "unkill" => copy.kill
              /\ cmd.kind = "kill" => copy.kill
              /\ \A s \in control.stops :
                    ~(cmd.kind = "unstop" /\ s.id = cmd.id) => s \in copy.stops
<1> DEFINE copy == Mutated(control, cmd, who)
<1>1. copy.kill = ((control.kill \/ cmd.kind = "kill") /\ cmd.kind # "unkill")
  BY DEF Mutated
<1>2. CASE cmd.kind = "stop"
  <2>1. control.stops \subseteq copy.stops
    BY <1>2 DEF Mutated, MutatedStops
  <2> QED
    BY <1>1, <1>2, <2>1
<1>3. CASE cmd.kind = "unstop"
  <2>1. copy.stops = {s \in control.stops : s.id # cmd.id}
    BY <1>3 DEF Mutated, MutatedStops
  <2> QED
    BY <1>1, <1>3, <2>1
<1>4. CASE cmd.kind \notin {"stop", "unstop"}
  <2>1. copy.stops = control.stops
    BY <1>4 DEF Mutated, MutatedStops
  <2> QED
    BY <1>1, <1>4, <2>1
<1> QED
  BY <1>2, <1>3, <1>4

LEMMA OperateSafe ==
    ASSUME TypeOK, Safe, NEW p \in Operators, Operate(p)
    PROVE  Safe'
<1>1. ASSUME NEW cmd \in Command, OpLoad(p, cmd) PROVE Safe'
  <2>0. gate = Nobody /\ UNCHANGED <<sub, file, inforce, lost>>
    BY <1>1 DEF OpLoad, GateFree
  <2>1. AcknowledgedControlsKept'
    BY <2>0 DEF Safe, AcknowledgedControlsKept
  <2>2. CASE OpEnds(p, "failed")
    BY <2>0, <2>1, <2>2, MutationEnds DEF InMutation
  <2>3. CASE /\ gate' = p
             /\ op' = [op EXCEPT ![p] = [pc |-> "mutated", cmd |-> cmd,
                                         copy |-> Mutated(file.content, cmd, p)]]
    <3>1. /\ op'[p] = [pc |-> "mutated", cmd |-> cmd, copy |-> Mutated(file.content, cmd, p)]
          /\ \A q \in Operators \ {p} : op'[q] = op[q]
      BY <2>3 DEF TypeOK
    <3>2. op'[p].pc = "mutated" /\ op'[p].cmd = cmd /\ op'[p].copy = Mutated(file.content, cmd, p)
      BY <3>1
    <3>3. /\ \A q \in Operators \ {p} : op'[q].pc \notin InMutation
          /\ \A o \in Orders : sub'[o].pc \notin InGuard
      BY <2>0, <3>1, RiskGateAssumption DEF Safe, GateHeld
    <3>4. GateHeld' /\ HaltHonoured'
      BY <2>3, <3>3, RiskGateAssumption DEF GateHeld, HaltHonoured, InGuard
    <3>5. /\ inforce.kill /\ cmd.kind # "unkill" => op'[p].copy.kill
          /\ cmd.kind = "kill" => op'[p].copy.kill
          /\ \A s \in inforce.stops :
                ~(cmd.kind = "unstop" /\ s.id = cmd.id) => s \in op'[p].copy.stops
      <4>1. file.content \in Control
        BY DEF TypeOK
      <4>2. (inforce.kill => file.content.kill) /\ inforce.stops \subseteq file.content.stops
        BY DEF Safe, AcknowledgedControlsKept
      <4> QED
        BY <3>2, <4>1, <4>2, MutatedKeeps
    <3>6. CopiesCurrent'
      BY <2>0, <3>2, <3>3, <3>5 DEF CopiesCurrent, InGuard, InMutation
    <3> QED
      BY <2>1, <3>4, <3>6 DEF Safe
  <2> QED
    BY <1>1, <2>2, <2>3 DEF OpLoad
<1>2. CASE OpPersist(p)
  <2>0. gate = p /\ op[p].pc = "mutated" /\ UNCHANGED <<sub, lost>>
    BY <1>2 DEF OpPersist, Safe, GateHeld, InMutation
  <2>1. CASE OpEnds(p, "failed") /\ UNCHANGED <<file, inforce>>
    <3>1. AcknowledgedControlsKept'
      BY <2>1 DEF Safe, AcknowledgedControlsKept
    <3> QED
      BY <2>0, <2>1, <3>1, MutationEnds DEF InMutation
  <2>2. CASE /\ Persist(op[p].copy) /\ UNCHANGED gate
             /\ op' = [op EXCEPT ![p].pc = "persisted"]
             /\ inforce' = StillInForce(op[p].cmd)
    <3>1. /\ op'[p].pc = "persisted" /\ op'[p].cmd = op[p].cmd /\ op'[p].copy = op[p].copy
          /\ \A q \in Operators \ {p} : op'[q] = op[q]
      BY <2>2 DEF TypeOK
    <3>2. file'.content = op[p].copy
      BY <2>2 DEF Persist
    <3>3. /\ \A q \in Operators \ {p} : op'[q].pc \notin InMutation
          /\ \A o \in Orders : sub'[o].pc \notin InGuard
      BY <2>0, <3>1, RiskGateAssumption DEF Safe, GateHeld
    <3>4. GateHeld' /\ HaltHonoured'
      BY <2>0, <2>2, <3>3, RiskGateAssumption DEF GateHeld, HaltHonoured, InGuard
    <3>5. CopiesCurrent'
      BY <2>0, <3>1, <3>2, <3>3 DEF CopiesCurrent, InGuard, InMutation, Safe
    <3>6. AcknowledgedControlsKept'
      <4>1. inforce'.kill => inforce.kill /\ op[p].cmd.kind # "unkill"
        BY <2>2 DEF StillInForce
      <4>2. \A s \in inforce'.stops :
               s \in inforce.stops /\ ~(op[p].cmd.kind = "unstop" /\ s.id = op[p].cmd.id)
        BY <2>2 DEF StillInForce
      <4> QED
        BY <2>0, <3>2, <4>1, <4>2 DEF Safe, CopiesCurrent, AcknowledgedControlsKept
    <3> QED
      BY <3>4, <3>5, <3>6 DEF Safe
  <2> QED
    BY <1>2, <2>1, <2>2 DEF OpPersist
<1>3. CASE OpCommit(p)
  <2>0. gate = p /\ op[p].pc = "persisted" /\ OpEnds(p, "acknowledged") /\ UNCHANGED <<sub, file>>
    BY <1>3 DEF OpCommit, Safe, GateHeld, InMutation
  <2>1. AcknowledgedControlsKept'
    <3>1. CASE lost
      BY <1>3, <2>0, <3>1 DEF OpCommit, Safe, AcknowledgedControlsKept
    <3>2. CASE ~lost
      <4>1. /\ op[p].cmd.kind = "kill" => file.content.kill
            /\ op[p].copy.stops \subseteq file.content.stops
        BY <2>0, <3>2 DEF Safe, CopiesCurrent
      <4>2. /\ inforce'.kill => inforce.kill \/ op[p].cmd.kind = "kill"
            /\ inforce'.stops \subseteq inforce.stops \cup op[p].copy.stops
        BY <1>3, <3>2 DEF OpCommit
      <4> QED
        BY <2>0, <4>1, <4>2 DEF Safe, AcknowledgedControlsKept
    <3> QED
      BY <3>1, <3>2
  <2> QED
    BY <2>0, <2>1, MutationEnds DEF InMutation
<1> QED
  BY <1>1, <1>2, <1>3 DEF Operate

LEMMA OtherSafe ==
    ASSUME TypeOK, Safe,
           Outside \/ UNCHANGED vars
              \/ \E r \in Readers : SnapshotLoad(r) \/ SnapshotStore(r)
    PROVE  Safe'
<1>1. ASSUME NEW r \in Readers, SnapshotLoad(r) \/ SnapshotStore(r) PROVE Safe'
  BY <1>1, SafeFrame DEF SnapshotLoad, SnapshotStore
<1>2. CASE FileDamaged \/ FileRepaired \/ Open
  <2>1. file'.content = file.content
    BY <1>2 DEF FileDamaged, FileRepaired, Open, TypeOK
  <2>2. UNCHANGED <<sub, op, gate, inforce, lost>>
    BY <1>2 DEF FileDamaged, FileRepaired, Open
  <2> QED
    BY <2>1, <2>2, SafeFrame
<1>3. CASE FileDeleted
  <2>1. /\ ~inforce'.kill /\ inforce'.stops = {} /\ lost'
        /\ UNCHANGED <<sub, op, gate>>
    BY <1>3 DEF FileDeleted
  <2> QED
    BY <2>1 DEF Safe, GateHeld, CopiesCurrent, AcknowledgedControlsKept, HaltHonoured
<1>4. CASE Crash
  <2>1. NobodyInside'
    BY <1>4 DEF Crash, IdleSub, IdleOp, NobodyInside, InGuard, InMutation
  <2>2. AcknowledgedControlsKept'
    BY <1>4 DEF Crash, Safe, AcknowledgedControlsKept
  <2> QED
    BY <2>1, <2>2, SafeWhenEmpty
<1>5. CASE UNCHANGED vars
  BY <1>5, SafeFrame DEF vars
<1> QED
  BY <1>1, <1>2, <1>3, <1>4, <1>5 DEF Outside

----------------------------------------------------------------------------
(***************************************************************************)
(* The strengthened invariant holds in every reachable state: the caller   *)
(* between its read and its write holds the submission gate, and its copy  *)
(* has every control that is to stay in force.                             *)
(***************************************************************************)
THEOREM Inductive == Spec => []IInv
<1>1. Init => IInv
  BY TypeInit, SafeInit DEF IInv
<1>2. IInv /\ [Next]_vars => IInv'
  BY TypeNext, SubmitSafe, OperateSafe, OtherSafe DEF IInv, Next
<1> QED
  BY <1>1, <1>2, PTL DEF Spec

(***************************************************************************)
(* No interleaving of mutations, audit records, restarts and failed writes *)
(* takes an acknowledged kill switch or hard stop out of the control file. *)
(***************************************************************************)
THEOREM ControlsKept == Spec => []AcknowledgedControlsKept
<1>1. IInv => AcknowledgedControlsKept
  BY DEF IInv, Safe
<1> QED
  BY <1>1, Inductive, PTL

(***************************************************************************)
(* Once an operator has seen a kill switch or hard stop acknowledged, no   *)
(* REAL order it covers is at the broker's door until it is released.      *)
(***************************************************************************)
THEOREM HaltHolds == Spec => []HaltHonoured
<1>1. IInv => HaltHonoured
  BY DEF IInv, Safe
<1> QED
  BY <1>1, Inductive, PTL

LEMMA FailsClosedStep ==
    ASSUME TypeOK, [Next]_vars, NEW o \in realOrders,
           sub[o].pc # "calling", sub'[o].pc = "calling"
    PROVE  /\ Readable
           /\ file.content.config \in {"on", "limited"}
           /\ ~file.content.kill /\ ~Stopped(file.content, o)
<1>0. o \in Orders
  BY RiskGateAssumption
<1>1. CASE UNCHANGED sub
  BY <1>1
<1>2. CASE Crash
  BY <1>0, <1>2 DEF Crash, IdleSub
<1>3. ASSUME NEW q \in Orders, Submit(q)
      PROVE  Readable /\ Decision(file.content, o) = "allowed"
  <2>1. ASSUME NEW at, SubAt(q, at) PROVE q = o /\ at = "calling"
    BY <1>0, <2>1, SubAtEffect
  <2>2. CASE GuardReal(q)
    <3>1. CASE SubAt(q, "unavailable")
      BY <2>1, <3>1
    <3>2. CASE Readable /\ Decision(file.content, q) = "allowed" /\ SubAt(q, "calling")
      BY <2>1, <3>2
    <3>3. CASE sub' = [sub EXCEPT ![q] = [pc |-> "auditing",
                          copy |-> [file.content EXCEPT !.events = Prepend(@, q)]]]
      BY <1>0, <3>3 DEF TypeOK
    <3>4. CASE SubAt(q, Decision(file.content, q))
      <4>1. Decision(file.content, q) # "calling"
        BY DEF Decision
      <4> QED
        BY <2>1, <3>4, <4>1
    <3> QED
      BY <2>2, <3>1, <3>2, <3>3, <3>4 DEF GuardReal
  <2>3. CASE GuardSimulate(q)
    BY <2>1, <2>3 DEF GuardSimulate
  <2>4. CASE GuardAudit(q)
    <3>1. CASE SubAt(q, "unavailable")
      BY <2>1, <3>1
    <3>2. CASE sub' = [sub EXCEPT ![q].pc = "audited"]
      BY <1>0, <3>2 DEF TypeOK
    <3> QED
      BY <2>4, <3>1, <3>2 DEF GuardAudit
  <2>5. CASE GuardPoisoned(q) \/ GuardAudited(q) \/ GuardReturn(q) \/ GuardPanic(q)
    BY <2>1, <2>5 DEF GuardPoisoned, GuardAudited, GuardReturn, GuardPanic
  <2> QED
    BY <1>3, <2>2, <2>3, <2>4, <2>5 DEF Submit
<1>4. (\E q \in Orders : Submit(q)) => Readable /\ Decision(file.content, o) = "allowed"
  BY <1>3
<1>5. Crash \/ (\E q \in Orders : Submit(q)) \/ UNCHANGED sub
  BY DEF Next, Outside, Operate, OpLoad, OpPersist, OpCommit, SnapshotLoad, SnapshotStore,
     FileDamaged, FileRepaired, FileDeleted, Open, vars
<1> QED
  BY <1>1, <1>2, <1>4, <1>5, AllowedMeans

(***************************************************************************)
(* The guard fails closed: a REAL order reaches its broker call only from  *)
(* a file that was read and that allows it.                                *)
(***************************************************************************)
THEOREM ClosedOnFailure == Spec => FailsClosed
<1>1. TypeOK /\ [Next]_vars
         => [\A o \in realOrders :
               sub[o].pc # "calling" /\ sub'[o].pc = "calling" =>
                   /\ Readable
                   /\ file.content.config \in {"on", "limited"}
                   /\ ~file.content.kill /\ ~Stopped(file.content, o)]_vars
  BY FailsClosedStep
<1> QED
  BY <1>1, Typing, PTL DEF Spec, FailsClosed

----------------------------------------------------------------------------
(***************************************************************************)
(* The audit trail.  A record reaches the file from a copy, and any later  *)
(* mutation or audit rewrites the list of events from a copy of its own.   *)
(* The strengthening: as long as the file has not been deleted, a copy     *)
(* that will replace it has the file's list, at most one event longer.     *)
(***************************************************************************)
AuditInv ==
    ~lost =>
        LET events == file.content.events
        IN /\ \A o \in Orders :
                 /\ sub[o].pc = "auditing" => sub[o].copy.events = Prepend(events, o)
                 /\ sub[o].pc = "audited" => Newest(events, o)
           /\ \A p \in Operators :
                 op[p].pc = "mutated" => op[p].copy.events \in {events, Prepend(events, p)}

\* What HardStopAudited says of one step.
Audited ==
    ~lost' =>
        LET events == file.content.events
        IN /\ \A o \in Orders :
                 sub[o].pc # "stopped" /\ sub'[o].pc = "stopped" => Newest(events, o)
           /\ \/ file'.content.events = events
              \/ \E who \in Orders \cup Operators :
                    file'.content.events = Prepend(events, who)

\* prepend_event puts its event first.
LEMMA PrependNewest ==
    ASSUME NEW events \in Seq(Callers), NEW who \in Callers
    PROVE  Newest(Prepend(events, who), who)
<1> DEFINE all == <<who>> \o events
           new == Prepend(events, who)
<1>1. <<who>> \in Seq(Callers) /\ Len(<<who>>) = 1 /\ <<who>>[1] = who
  OBVIOUS
<1>2. Len(events) \in Nat /\ EventLimit \in Nat \ {0}
  BY LenProperties, RiskGateAssumption
<1>3. all \in Seq(Callers) /\ Len(all) = 1 + Len(events) /\ all[1] = who
  <2>1. /\ all \in Seq(Callers)
        /\ Len(all) = Len(<<who>>) + Len(events)
        /\ \A i \in 1..(Len(<<who>>) + Len(events)) :
              all[i] = IF i <= Len(<<who>>) THEN <<who>>[i] ELSE events[i - Len(<<who>>)]
    BY <1>1, ConcatProperties
  <2> QED
    BY <1>1, <1>2, <2>1
<1>4. CASE Len(all) > EventLimit
  <2>1. new = SubSeq(all, 1, EventLimit)
    BY <1>4 DEF Prepend
  <2>2. \A i \in 1..EventLimit : i \in 1..Len(all)
    BY <1>2, <1>3, <1>4
  <2>3. Len(new) = EventLimit /\ \A i \in 1..EventLimit : new[i] = all[i]
    BY <1>2, <1>3, <1>4, <2>1, <2>2, SubSeqProperties
  <2> QED
    BY <1>2, <1>3, <2>3 DEF Newest
<1>5. CASE ~(Len(all) > EventLimit)
  <2>1. new = all
    BY <1>5 DEF Prepend
  <2> QED
    BY <1>2, <1>3, <2>1 DEF Newest
<1> QED
  BY <1>4, <1>5

LEMMA AuditInit == Init => AuditInv
  BY DEF Init, IdleSub, IdleOp, AuditInv

\* A step that reports nothing, starts no copy and leaves the list.
LEMMA AuditFrame ==
    ASSUME AuditInv, lost => lost',
           lost' \/ file'.content = file.content,
           \A q \in Orders : \/ sub'[q] = sub[q]
                            \/ sub'[q].pc \notin {"auditing", "audited", "stopped"},
           \A p \in Operators : op'[p].pc = "mutated" => op'[p] = op[p]
    PROVE  AuditInv' /\ Audited
<1>1. AuditInv'
  BY DEF AuditInv
<1>2. Audited
  BY DEF Audited
<1> QED
  BY <1>1, <1>2

LEMMA SubmitAudited ==
    ASSUME TypeOK, Safe, AuditInv, NEW o \in Orders, Submit(o)
    PROVE  AuditInv' /\ Audited
<1>0. file.content \in Control /\ file.content.events \in Seq(Callers) /\ o \in Callers
  BY DEF TypeOK, Control, Callers
<1> DEFINE events == file.content.events
<1>1. ASSUME NEW at, SubAt(o, at), at \notin {"audited", "stopped", "auditing"},
             UNCHANGED <<file, op, lost>>
      PROVE  AuditInv' /\ Audited
  <2>1. sub'[o].pc = at /\ \A q \in Orders \ {o} : sub'[q] = sub[q]
    BY <1>1, SubAtEffect
  <2> QED
    BY <1>1, <2>1, AuditFrame
<1>2. CASE GuardPoisoned(o) \/ GuardSimulate(o) \/ GuardReturn(o) \/ GuardPanic(o)
  BY <1>1, <1>2 DEF GuardPoisoned, GuardSimulate, GuardReturn, GuardPanic
<1>3. CASE GuardReal(o)
  <2>1. UNCHANGED <<file, op, lost>>
    BY <1>3 DEF GuardReal
  <2>2. CASE SubAt(o, "unavailable") \/ SubAt(o, "calling")
    BY <1>1, <2>1, <2>2
  <2>3. CASE Decision(file.content, o) \notin {"allowed", "stopped"}
                /\ SubAt(o, Decision(file.content, o))
    <3>1. Decision(file.content, o) \notin {"audited", "stopped", "auditing"}
      BY <2>3 DEF Decision
    <3> QED
      BY <1>1, <2>1, <2>3, <3>1
  <2>4. CASE sub' = [sub EXCEPT ![o] = [pc |-> "auditing",
                        copy |-> [file.content EXCEPT !.events = Prepend(@, o)]]]
    <3> DEFINE next == [file.content EXCEPT !.events = Prepend(@, o)]
    <3>1. next.events = Prepend(events, o)
      BY <1>0 DEF Control
    <3> HIDE DEF next
    <3>2. sub' = [sub EXCEPT ![o] = [pc |-> "auditing", copy |-> next]]
      BY <2>4 DEF next
    <3>3. /\ sub'[o].pc = "auditing" /\ sub'[o].copy = next
          /\ \A q \in Orders \ {o} : sub'[q] = sub[q]
      BY <3>2 DEF TypeOK
    <3>4. AuditInv'
      BY <2>1, <3>1, <3>3 DEF AuditInv
    <3>5. Audited
      BY <2>1, <3>3 DEF Audited
    <3> QED
      BY <3>4, <3>5
  <2> QED
    BY <1>3, <2>2, <2>3, <2>4 DEF GuardReal
<1>4. CASE GuardAudit(o)
  <2>0. gate = o /\ sub[o].pc = "auditing" /\ UNCHANGED <<op, lost>>
    BY <1>4 DEF GuardAudit, Safe, GateHeld, InGuard
  <2>1. CASE SubAt(o, "unavailable") /\ UNCHANGED file
    BY <1>1, <2>0, <2>1
  <2>2. CASE Persist(sub[o].copy) /\ sub' = [sub EXCEPT ![o].pc = "audited"]
    <3>1. /\ sub'[o].pc = "audited"
          /\ \A q \in Orders \ {o} : sub'[q] = sub[q]
      BY <2>2 DEF TypeOK
    <3>2. file'.content = sub[o].copy
      BY <2>2 DEF Persist
    <3>3. \A q \in Orders \ {o} : sub[q].pc \notin {"auditing", "audited"}
      BY <2>0 DEF Safe, GateHeld, InGuard
    <3>4. \A p \in Operators : op[p].pc # "mutated"
      BY <2>0, RiskGateAssumption DEF Safe, GateHeld, InMutation
    <3>5. ~lost => sub[o].copy.events = Prepend(events, o)
      BY <2>0 DEF AuditInv
    <3>6. Newest(Prepend(events, o), o)
      BY <1>0, PrependNewest
    <3>7. ~lost' => file'.content.events = Prepend(events, o) /\ Newest(file.content.events, o)'
      <4>1. ASSUME ~lost' PROVE file'.content.events = Prepend(events, o)
        BY <2>0, <3>2, <3>5, <4>1
      <4>2. ASSUME ~lost' PROVE Newest(file.content.events, o)'
        BY <3>6, <4>1, <4>2 DEF Newest
      <4> QED
        BY <4>1, <4>2
    <3>8. AuditInv'
      <4>1. /\ \A q \in Orders : sub'[q].pc # "auditing"
            /\ \A q \in Orders : sub'[q].pc = "audited" => q = o
            /\ \A p \in Operators : op'[p].pc # "mutated"
        BY <2>0, <3>1, <3>3, <3>4
      <4> QED
        BY <3>7, <4>1 DEF AuditInv
    <3>9. Audited
      <4>1. \A q \in Orders : sub[q].pc # "stopped" => sub'[q].pc # "stopped"
        BY <3>1
      <4>2. ~lost' => file'.content.events = Prepend(events, o)
        BY <3>7
      <4> QED
        BY <4>1, <4>2 DEF Audited
    <3> QED
      BY <3>8, <3>9
  <2> QED
    BY <1>4, <2>1, <2>2 DEF GuardAudit
<1>5. CASE GuardAudited(o)
  <2>1. UNCHANGED <<file, op, lost>> /\ SubAt(o, "stopped") /\ sub[o].pc = "audited"
    BY <1>5 DEF GuardAudited
  <2>2. sub'[o].pc = "stopped" /\ \A q \in Orders \ {o} : sub'[q] = sub[q]
    BY <2>1, SubAtEffect
  <2>3. AuditInv'
    BY <2>1, <2>2 DEF AuditInv
  <2>4. Audited
    BY <2>1, <2>2 DEF AuditInv, Audited
  <2> QED
    BY <2>3, <2>4
<1> QED
  BY <1>2, <1>3, <1>4, <1>5 DEF Submit

LEMMA OperateAudited ==
    ASSUME TypeOK, Safe, AuditInv, NEW p \in Operators, Operate(p)
    PROVE  AuditInv' /\ Audited
<1>0. file.content \in Control /\ UNCHANGED <<sub, lost>>
  BY DEF TypeOK, Operate, OpLoad, OpPersist, OpCommit
<1> DEFINE events == file.content.events
<1>1. ASSUME NEW at, OpEnds(p, at), at # "mutated", UNCHANGED file
      PROVE  AuditInv' /\ Audited
  <2>1. op'[p].pc = at /\ \A q \in Operators \ {p} : op'[q] = op[q]
    BY <1>1, OpEndsEffect
  <2> QED
    BY <1>0, <1>1, <2>1, AuditFrame
<1>2. ASSUME NEW cmd \in Command, OpLoad(p, cmd) PROVE AuditInv' /\ Audited
  <2>0. UNCHANGED file
    BY <1>2 DEF OpLoad
  <2>1. CASE OpEnds(p, "failed")
    BY <1>1, <2>0, <2>1
  <2>2. CASE op' = [op EXCEPT ![p] = [pc |-> "mutated", cmd |-> cmd,
                                      copy |-> Mutated(file.content, cmd, p)]]
    <3> DEFINE next == Mutated(file.content, cmd, p)
    <3>1. next.events \in {events, Prepend(events, p)}
      BY DEF Mutated
    <3> HIDE DEF next
    <3>2. op' = [op EXCEPT ![p] = [pc |-> "mutated", cmd |-> cmd, copy |-> next]]
      BY <2>2 DEF next
    <3>3. op'[p].copy = next /\ \A q \in Operators \ {p} : op'[q] = op[q]
      BY <3>2 DEF TypeOK
    <3>4. AuditInv'
      BY <1>0, <2>0, <3>1, <3>3 DEF AuditInv
    <3>5. Audited
      BY <1>0, <2>0 DEF Audited
    <3> QED
      BY <3>4, <3>5
  <2> QED
    BY <1>2, <2>1, <2>2 DEF OpLoad
<1>3. CASE OpPersist(p)
  <2>0. op[p].pc = "mutated" /\ gate = p
    BY <1>3 DEF OpPersist, Safe, GateHeld, InMutation
  <2>1. CASE Persist(op[p].copy) /\ op' = [op EXCEPT ![p].pc = "persisted"]
    <3>1. /\ op'[p].pc = "persisted" /\ \A q \in Operators \ {p} : op'[q] = op[q]
          /\ file'.content = op[p].copy
      BY <2>1 DEF TypeOK, Persist
    <3>2. \A q \in Operators : op'[q].pc # "mutated"
      BY <2>0, <3>1 DEF Safe, GateHeld, InMutation
    <3>3. \A q \in Orders : sub'[q].pc \notin {"auditing", "audited"}
      BY <1>0, <2>0, RiskGateAssumption DEF Safe, GateHeld, InGuard
    <3>4. ~lost => op[p].copy.events \in {events, Prepend(events, p)}
      BY <2>0 DEF AuditInv
    <3>5. AuditInv'
      BY <3>2, <3>3 DEF AuditInv
    <3>6. Audited
      BY <1>0, <3>1, <3>4 DEF Audited
    <3> QED
      BY <3>5, <3>6
  <2>2. CASE OpEnds(p, "failed") /\ UNCHANGED file
    BY <1>1, <2>2
  <2> QED
    BY <1>3, <2>1, <2>2 DEF OpPersist
<1>4. CASE OpCommit(p)
  BY <1>1, <1>4 DEF OpCommit
<1> QED
  BY <1>2, <1>3, <1>4 DEF Operate

LEMMA OtherAudited ==
    ASSUME TypeOK, AuditInv,
           Outside \/ UNCHANGED vars
              \/ \E r \in Readers : SnapshotLoad(r) \/ SnapshotStore(r)
    PROVE  AuditInv' /\ Audited
<1>1. CASE Crash
  <2>1. /\ \A q \in Orders : sub'[q].pc = "dead" \/ sub'[q] = sub[q]
        /\ \A p \in Operators : op'[p].pc = "dead" \/ op'[p] = op[p]
        /\ UNCHANGED <<file, lost>>
    BY <1>1 DEF Crash, IdleSub, IdleOp
  <2> QED
    BY <2>1, AuditFrame
<1>2. CASE UNCHANGED <<sub, op>> /\ (lost => lost') /\ (lost' \/ file'.content = file.content)
  BY <1>2, AuditFrame
<1>3. CASE FileDamaged \/ FileRepaired \/ FileDeleted \/ Open
  <2>1. FileDeleted \/ (file'.content = file.content /\ UNCHANGED lost)
    BY <1>3 DEF FileDamaged, FileRepaired, Open, TypeOK
  <2>2. UNCHANGED <<sub, op>>
    BY <1>3 DEF FileDamaged, FileRepaired, FileDeleted, Open
  <2>3. FileDeleted => lost'
    BY DEF FileDeleted
  <2> QED
    BY <1>2, <2>1, <2>2, <2>3
<1>4. ASSUME NEW r \in Readers, SnapshotLoad(r) \/ SnapshotStore(r) PROVE AuditInv' /\ Audited
  BY <1>2, <1>4 DEF SnapshotLoad, SnapshotStore
<1>5. CASE UNCHANGED vars
  BY <1>2, <1>5 DEF vars
<1> QED
  BY <1>1, <1>3, <1>4, <1>5 DEF Outside

(***************************************************************************)
(* HardStopAudited: a hard-stop rejection is reported only with its event  *)
(* newest in the control file, and until the file is deleted from outside  *)
(* no mutation, audit, failed write or restart changes the list but by     *)
(* prepend_event, so that only EventLimit later events push one out.       *)
(***************************************************************************)
THEOREM AuditKept == Spec => HardStopAudited
<1>1. IInv /\ AuditInv /\ [Next]_vars => AuditInv' /\ Audited
  BY SubmitAudited, OperateAudited, OtherAudited DEF IInv, Next
<1>2. IInv /\ AuditInv /\ [Next]_vars =>
        [~lost' =>
            LET events == file.content.events
            IN /\ \A o \in Orders :
                     sub[o].pc # "stopped" /\ sub'[o].pc = "stopped" => Newest(events, o)
               /\ \/ file'.content.events = events
                  \/ \E who \in Orders \cup Operators :
                        file'.content.events = Prepend(events, who)]_vars
  BY <1>1 DEF Audited
<1> QED
  BY <1>1, <1>2, AuditInit, Inductive, PTL DEF Spec, HardStopAudited
=============================================================================
