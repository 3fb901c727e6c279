------------------------------ MODULE RiskGate ------------------------------
(***************************************************************************)
(* The real-trade control plane: ExecutionRiskCoordinator and the control  *)
(* file it guards.  Three kinds of callers run concurrently:               *)
(*                                                                         *)
(*  - orders: execute_with_risk_guard, which takes the submission gate,    *)
(*    reads the file, decides, and holds the gate across the broker call;  *)
(*  - operators: mutate_with, which takes the same gate, reads the file,   *)
(*    changes the copy, replaces the file and then the memory image;       *)
(*  - readers: snapshot, which takes no gate and writes the memory image.  *)
(*                                                                         *)
(* The file is replaced atomically (temporary file, fsync, rename), may be *)
(* deleted or damaged from outside, and outlives the process.              *)
(***************************************************************************)
EXTENDS Integers, Sequences, FiniteSets

CONSTANTS
    Orders,         \* guarded submissions
    Operators,      \* invocations of mutate_state
    Readers,        \* invocations of snapshot
    Nobody,         \* the submission gate is free
    realOrders,     \* the orders with trading_environment REAL
    malformed,      \* orders of an invalid shape
    oversized,      \* orders above the configured limits
    Scopes,         \* hard stop scopes
    covers,         \* [Scopes -> the orders a stop of that scope matches]
    EventLimit,     \* REAL_TRADE_EVENT_LIMIT
    MaxFaults       \* bound on failed writes and on damage to the file

ASSUME RiskGateAssumption ==
    /\ Orders \cap Operators = {}
    /\ Nobody \notin Orders \cup Operators
    /\ realOrders \subseteq Orders
    /\ malformed \subseteq Orders /\ oversized \subseteq Orders
    /\ covers \in [Scopes -> SUBSET Orders]
    /\ EventLimit \in Nat \ {0} /\ MaxFaults \in Nat

VARIABLES
    file,       \* the control file: its content and whether it can be read
    memory,     \* CoordinatorInner.state
    unavailable,\* CoordinatorInner.control_plane_error is set
    up,         \* is the process running?
    gate,       \* who holds submission_gate
    poisoned,   \* did a holder of submission_gate panic?
    sub,        \* the guarded submissions
    op,         \* the operators' mutations
    reader,     \* the snapshots
    inforce,    \* history: the controls whose activation was acknowledged
    lost,       \* history: the file was deleted from outside
    faults

vars == <<file, memory, unavailable, up, gate, poisoned, sub, op, reader, inforce, lost,
          faults>>

----------------------------------------------------------------------------
(* RealTradeControlState and its mutations. *)

Config == {"none", "off", "on", "limited"}
Stop == [id : Operators, scope : Scopes]

\* A REAL_TRADE event is named by the caller that caused it.
Control == [kill : BOOLEAN, config : Config, stops : SUBSET Stop,
            events : Seq(Orders \cup Operators)]

\* RealTradeControlState::default(): no risk_config, so real trading is off.
DefaultControl == [kill |-> FALSE, config |-> "none", stops |-> {}, events |-> <<>>]

\* prepend_event: insert at the front, truncate at the limit.
Prepend(events, who) ==
    LET all == <<who>> \o events
    IN IF Len(all) > EventLimit THEN SubSeq(all, 1, EventLimit) ELSE all

Command ==
    [kind : {"kill", "unkill", "disable", "retry"}]
        \cup [kind : {"config"}, config : Config \ {"none"}]
        \cup [kind : {"stop"}, scope : Scopes]
        \cup [kind : {"unstop"}, id : Operators]

\* release_hard_stop fails on an id that is not active.
Refused(control, cmd) ==
    cmd.kind = "unstop" /\ ~\E s \in control.stops : s.id = cmd.id

\* update_risk, disable_risk
MutatedConfig(control, cmd) ==
    CASE cmd.kind = "config"  -> cmd.config
      [] cmd.kind = "disable" -> "none"
      [] OTHER -> control.config

\* activate_hard_stop, release_hard_stop
MutatedStops(control, cmd, who) ==
    CASE cmd.kind = "stop"   -> control.stops \cup {[id |-> who, scope |-> cmd.scope]}
      [] cmd.kind = "unstop" -> {s \in control.stops : s.id # cmd.id}
      [] OTHER -> control.stops

\* mutate_state, on the copy.  A manual retry leaves the copy as it is.
Mutated(control, cmd, who) ==
    [kill   |-> (control.kill \/ cmd.kind = "kill") /\ cmd.kind # "unkill",
     config |-> MutatedConfig(control, cmd),
     stops  |-> MutatedStops(control, cmd, who),
     events |-> IF cmd.kind = "retry" THEN control.events ELSE Prepend(control.events, who)]

Stopped(control, o) == \E s \in control.stops : o \in covers[s.scope]

\* The two limits, with their price and amount cases, are one test.
OverLimit(control, o) == control.config = "limited" /\ o \in oversized

\* Mutant: every refusal has the same code.
DecisionCoarse(control, o) ==
    IF /\ o \notin malformed /\ control.config \in {"on", "limited"} /\ ~control.kill
       /\ ~Stopped(control, o) /\ ~OverLimit(control, o)
    THEN "allowed" ELSE "rejected"

\* Mutant: without a risk configuration real trading counts as enabled.
DecisionOpenByDefault(control, o) ==
    IF o \in malformed             THEN "invalid"
    ELSE IF control.config = "off" THEN "disabled"
    ELSE IF control.kill           THEN "killed"
    ELSE IF Stopped(control, o)    THEN "stopped"
    ELSE "allowed"

(***************************************************************************)
(* evaluate_pre_trade_risk for a REAL order, in the order of its checks.   *)
(***************************************************************************)
Decision(control, o) ==
    IF o \in malformed                              THEN "invalid"
    ELSE IF control.config \notin {"on", "limited"} THEN "disabled"
    ELSE IF control.kill                            THEN "killed"
    ELSE IF Stopped(control, o)                     THEN "stopped"
    ELSE IF OverLimit(control, o)                   THEN "limit"
    ELSE "allowed"

----------------------------------------------------------------------------
(* The control file. *)

\* load_state_strict succeeds.
Readable == file.state = "ok"

\* persist_state: the rename replaces whatever is there.
Persist(control) == file' = [state |-> "ok", content |-> control]

\* The caller at hand gave up: fail closed, release the gate.
ControlPlaneFails ==
    /\ unavailable' = TRUE
    /\ gate' = Nobody

\* Mutant: nobody waits for the gate.
GateIgnored == up

\* submission_gate can be taken.
GateFree == up /\ gate = Nobody

Remember(control) == memory' = control /\ unavailable' = FALSE

----------------------------------------------------------------------------
(* mutate_with. *)

IdleOp == [pc |-> "idle", cmd |-> [kind |-> "retry"], copy |-> DefaultControl]

OpEnds(p, pc) == op' = [op EXCEPT ![p] = [IdleOp EXCEPT !.pc = pc]]

(***************************************************************************)
(* Take the gate, load, mutate the copy.  A poisoned gate refuses; an      *)
(* unreadable file marks the control plane unavailable; a refused mutation *)
(* changes nothing.                                                        *)
(***************************************************************************)
OpLoad(p, cmd) ==
    /\ GateFree /\ op[p].pc = "idle"
    /\ \/ /\ poisoned
          /\ OpEnds(p, "failed")
          /\ UNCHANGED <<gate, unavailable>>
       \/ /\ ~poisoned /\ ~Readable
          /\ ControlPlaneFails
          /\ OpEnds(p, "failed")
       \/ /\ ~poisoned /\ Readable /\ Refused(file.content, cmd)
          /\ OpEnds(p, "failed")
          /\ UNCHANGED <<gate, unavailable>>
       \/ /\ ~poisoned /\ Readable /\ ~Refused(file.content, cmd)
          /\ gate' = p
          /\ op' = [op EXCEPT ![p] = [pc |-> "mutated", cmd |-> cmd,
                                      copy |-> Mutated(file.content, cmd, p)]]
          /\ UNCHANGED unavailable
    /\ UNCHANGED <<poisoned, file, memory, up, sub, reader, inforce, lost,
                   faults>>

\* A control is no longer in force once its release is on disk.
StillInForce(cmd) ==
    [kill |-> inforce.kill /\ cmd.kind # "unkill",
     stops |-> IF cmd.kind = "unstop" THEN {s \in inforce.stops : s.id # cmd.id}
               ELSE inforce.stops]

OpPersist(p) ==
    /\ op[p].pc = "mutated"
    /\ \/ /\ Persist(op[p].copy)
          /\ op' = [op EXCEPT ![p].pc = "persisted"]
          /\ inforce' = StillInForce(op[p].cmd)
          /\ UNCHANGED <<gate, unavailable, faults>>
       \/ /\ faults < MaxFaults /\ faults' = faults + 1
          /\ ControlPlaneFails
          /\ OpEnds(p, "failed")
          /\ UNCHANGED <<file, inforce>>
    /\ UNCHANGED <<poisoned, memory, up, sub, reader, lost>>

\* The memory image, the gate, the answer to the operator.
OpCommit(p) ==
    /\ op[p].pc = "persisted"
    /\ Remember(op[p].copy)
    /\ gate' = Nobody
    /\ OpEnds(p, "acknowledged")
    /\ inforce' = IF lost THEN inforce
                  ELSE [kill |-> inforce.kill \/ op[p].cmd.kind = "kill",
                        stops |-> inforce.stops \cup
                            {s \in op[p].copy.stops : op[p].cmd.kind = "stop" /\ s.id = p}]
    /\ UNCHANGED <<poisoned, file, up, sub, reader, lost, faults>>

----------------------------------------------------------------------------
(* execute_with_risk_guard. *)

IdleSub == [pc |-> "idle", copy |-> DefaultControl]

SubAt(o, pc) == sub' = [sub EXCEPT ![o] = [IdleSub EXCEPT !.pc = pc]]

(***************************************************************************)
(* A poisoned gate refuses every order.  A SIMULATE order only takes the   *)
(* gate.  A REAL one loads the file; the memory image is refreshed and the *)
(* decision is made on what was loaded.                                    *)
(***************************************************************************)
GuardPoisoned(o) ==
    /\ GateFree /\ sub[o].pc = "idle" /\ poisoned
    /\ SubAt(o, "unavailable")
    /\ UNCHANGED <<poisoned, file, memory, unavailable, up, gate, op, reader,
                   inforce, lost, faults>>

GuardSimulate(o) ==
    /\ GateFree /\ sub[o].pc = "idle" /\ ~poisoned
    /\ o \notin realOrders
    /\ gate' = o
    /\ SubAt(o, "calling")
    /\ UNCHANGED <<poisoned, file, memory, unavailable, up, op, reader,
                   inforce, lost, faults>>

GuardReal(o) ==
    /\ GateFree /\ sub[o].pc = "idle" /\ ~poisoned
    /\ o \in realOrders
    /\ \/ /\ ~Readable
          /\ ControlPlaneFails
          /\ SubAt(o, "unavailable")
          /\ UNCHANGED memory
       \/ /\ Readable
          /\ Remember(file.content)
          /\ LET decision == Decision(file.content, o)
             IN \/ /\ decision = "allowed"
                   /\ gate' = o
                   /\ SubAt(o, "calling")
                \/ /\ decision = "stopped"
                   /\ gate' = o
                   /\ sub' = [sub EXCEPT ![o] = [pc |-> "auditing",
                         copy |-> [file.content EXCEPT !.events = Prepend(@, o)]]]
                \/ /\ decision \notin {"allowed", "stopped"}
                   /\ SubAt(o, decision)
                   /\ UNCHANGED gate
    /\ UNCHANGED <<poisoned, file, up, op, reader, inforce, lost, faults>>

\* Mutant: the audit event only reaches the memory image.
AuditInMemory(o) ==
    /\ sub[o].pc = "auditing"
    /\ sub' = [sub EXCEPT ![o].pc = "audited"]
    /\ UNCHANGED <<poisoned, file, memory, unavailable, up, gate, op, reader, inforce,
                   lost, faults>>

\* The hard-stop rejection is written to the file before it is reported.
GuardAudit(o) ==
    /\ sub[o].pc = "auditing"
    /\ \/ /\ Persist(sub[o].copy)
          /\ sub' = [sub EXCEPT ![o].pc = "audited"]
          /\ UNCHANGED <<gate, unavailable, faults>>
       \/ /\ faults < MaxFaults /\ faults' = faults + 1
          /\ ControlPlaneFails
          /\ SubAt(o, "unavailable")
          /\ UNCHANGED file
    /\ UNCHANGED <<poisoned, memory, up, op, reader, inforce, lost>>

GuardAudited(o) ==
    /\ sub[o].pc = "audited"
    /\ Remember(sub[o].copy)
    /\ gate' = Nobody
    /\ SubAt(o, "stopped")
    /\ UNCHANGED <<poisoned, file, up, op, reader, inforce, lost, faults>>

\* submit_fn returned, with an order id, an error or a timeout.
GuardReturn(o) ==
    /\ sub[o].pc = "calling"
    /\ gate' = Nobody
    /\ SubAt(o, "called")
    /\ UNCHANGED <<poisoned, file, memory, unavailable, up, op, reader,
                   inforce, lost, faults>>

\* submit_fn panicked: the handler is gone and the gate is poisoned.
GuardPanic(o) ==
    /\ sub[o].pc = "calling"
    /\ faults < MaxFaults /\ faults' = faults + 1
    /\ gate' = Nobody /\ poisoned' = TRUE
    /\ SubAt(o, "dead")
    /\ UNCHANGED <<file, memory, unavailable, up, op, reader, inforce, lost>>

----------------------------------------------------------------------------
(* snapshot. *)

IdleReader == [pc |-> "idle", copy |-> DefaultControl]

SnapshotLoad(r) ==
    /\ up /\ reader[r].pc = "idle"
    /\ reader' = [reader EXCEPT ![r] =
          IF Readable THEN [pc |-> "loaded", copy |-> file.content]
                      ELSE [pc |-> "error", copy |-> DefaultControl]]
    /\ UNCHANGED <<poisoned, file, memory, unavailable, up, gate, sub, op,
                   inforce, lost, faults>>

SnapshotStore(r) ==
    /\ \/ /\ reader[r].pc = "loaded"
          /\ Remember(reader[r].copy)
       \/ /\ reader[r].pc = "error"
          /\ unavailable' = TRUE
          /\ UNCHANGED memory
    /\ reader' = [reader EXCEPT ![r] = IdleReader]
    /\ UNCHANGED <<poisoned, file, up, gate, sub, op, inforce, lost, faults>>

----------------------------------------------------------------------------
(* The outside world. *)

FileDamaged ==
    /\ Readable /\ faults < MaxFaults /\ faults' = faults + 1
    /\ file' = [file EXCEPT !.state = "damaged"]
    /\ UNCHANGED <<poisoned, memory, unavailable, up, gate, sub, op, reader,
                   inforce, lost>>

FileRepaired ==
    /\ file.state = "damaged"
    /\ file' = [file EXCEPT !.state = "ok"]
    /\ UNCHANGED <<poisoned, memory, unavailable, up, gate, sub, op, reader,
                   inforce, lost, faults>>

FileDeleted ==
    /\ faults < MaxFaults /\ faults' = faults + 1
    /\ file' = [state |-> "missing", content |-> DefaultControl]
    /\ lost' = TRUE
    /\ inforce' = [kill |-> FALSE, stops |-> {}]
    /\ UNCHANGED <<poisoned, memory, unavailable, up, gate, sub, op, reader>>

Crash ==
    /\ up
    /\ up' = FALSE
    /\ gate' = Nobody /\ poisoned' = FALSE
    /\ sub' = [o \in Orders |->
          IF sub[o].pc \in {"calling", "auditing", "audited"}
          THEN [IdleSub EXCEPT !.pc = "dead"] ELSE sub[o]]
    /\ op' = [p \in Operators |->
          IF op[p].pc \in {"mutated", "persisted"}
          THEN [IdleOp EXCEPT !.pc = "dead"] ELSE op[p]]
    /\ reader' = [r \in Readers |-> IdleReader]
    /\ UNCHANGED <<file, memory, unavailable, inforce, lost, faults>>

\* Mutant: the defaults are written whether or not a file is there.
OpenDefaults ==
    /\ ~up /\ up' = TRUE
    /\ file' = [state |-> "ok", content |-> DefaultControl]
    /\ Remember(DefaultControl)
    /\ UNCHANGED <<poisoned, gate, sub, op, reader, inforce, lost, faults>>

(***************************************************************************)
(* open: a missing file is created with the defaults; a damaged one keeps  *)
(* the process from starting.                                              *)
(***************************************************************************)
Open ==
    /\ ~up /\ file.state # "damaged"
    /\ up' = TRUE
    /\ file' = [file EXCEPT !.state = "ok"]
    /\ Remember(file.content)
    /\ UNCHANGED <<poisoned, gate, sub, op, reader, inforce, lost, faults>>

----------------------------------------------------------------------------
Init ==
    /\ \E config \in Config :
          /\ file = [state |-> "ok", content |-> [DefaultControl EXCEPT !.config = config]]
          /\ memory = file.content
    /\ unavailable = FALSE /\ up = TRUE /\ gate = Nobody /\ poisoned = FALSE
    /\ sub = [o \in Orders |-> IdleSub]
    /\ op = [p \in Operators |-> IdleOp]
    /\ reader = [r \in Readers |-> IdleReader]
    /\ inforce = [kill |-> FALSE, stops |-> {}]
    /\ lost = FALSE /\ faults = 0

Submit(o) ==
    \/ GuardPoisoned(o) \/ GuardSimulate(o) \/ GuardReal(o) \/ GuardAudit(o)
    \/ GuardAudited(o) \/ GuardReturn(o) \/ GuardPanic(o)

Operate(p) == OpPersist(p) \/ OpCommit(p) \/ \E cmd \in Command : OpLoad(p, cmd)

Outside == FileDamaged \/ FileRepaired \/ FileDeleted \/ Crash \/ Open

Next ==
    \/ Outside
    \/ \E o \in Orders : Submit(o)
    \/ \E p \in Operators : Operate(p)
    \/ \E r \in Readers : SnapshotLoad(r) \/ SnapshotStore(r)

Spec == Init /\ [][Next]_vars

----------------------------------------------------------------------------
(* Properties. *)

OrderPC == {"idle", "calling", "auditing", "audited", "called", "dead", "unavailable",
            "invalid", "disabled", "killed", "stopped", "limit"}
OpPC == {"idle", "mutated", "persisted", "acknowledged", "failed", "dead"}

\* Every variable holds a value of its kind.
TypeOK ==
    /\ file \in [state : {"ok", "damaged", "missing"}, content : Control]
    /\ memory \in Control
    /\ unavailable \in BOOLEAN /\ up \in BOOLEAN /\ poisoned \in BOOLEAN /\ lost \in BOOLEAN
    /\ gate \in Orders \cup Operators \cup {Nobody}
    /\ sub \in [Orders -> [pc : OrderPC, copy : Control]]
    /\ op \in [Operators -> [pc : OpPC, cmd : Command, copy : Control]]
    /\ reader \in [Readers -> [pc : {"idle", "loaded", "error"}, copy : Control]]
    /\ inforce \in [kill : BOOLEAN, stops : SUBSET Stop]
    /\ faults \in Nat

(***************************************************************************)
(* A control whose activation the operator saw acknowledged is on disk     *)
(* until its release is: no concurrent mutation and no hard-stop audit     *)
(* record, each of which rewrites the whole file from a copy, and no crash *)
(* between the write and the memory commit, ever drops it.                 *)
(***************************************************************************)
AcknowledgedControlsKept ==
    /\ inforce.kill => file.content.kill
    /\ inforce.stops \subseteq file.content.stops

(***************************************************************************)
(* While an acknowledged kill switch or hard stop is in force, no REAL     *)
(* order it covers is inside its broker call: not one that was decided     *)
(* before the activation, and not one decided on a stale memory image.     *)
(***************************************************************************)
HaltHonoured ==
    \A o \in realOrders :
        sub[o].pc = "calling" =>
            /\ ~inforce.kill
            /\ \A s \in inforce.stops : o \notin covers[s.scope]

(***************************************************************************)
(* A REAL order enters its broker call only in a step that found the file  *)
(* readable and found in it that real trading is enabled, the kill switch  *)
(* off and no stop on the order: no error path, restart or default state   *)
(* fails open.                                                             *)
(***************************************************************************)
FailsClosed ==
    [][\A o \in realOrders :
          sub[o].pc # "calling" /\ sub'[o].pc = "calling" =>
              /\ Readable
              /\ file.content.config \in {"on", "limited"}
              /\ ~file.content.kill /\ ~Stopped(file.content, o)]_vars

\* The newest event of the list is who's.
Newest(events, who) == Len(events) > 0 /\ events[1] = who

(***************************************************************************)
(* Until the file is deleted from outside, a hard-stop rejection is        *)
(* reported only when its audit event is the newest one in the file, and   *)
(* the list in the file changes only by prepend_event on itself: however   *)
(* audits and mutations, which each rewrite it from a copy, interleave     *)
(* with failed writes and restarts, an event leaves the file only after    *)
(* EventLimit later ones, and no two writers lose each other's.            *)
(***************************************************************************)
HardStopAudited ==
    [][~lost' =>
          LET events == file.content.events
          IN /\ \A o \in Orders :
                   sub[o].pc # "stopped" /\ sub'[o].pc = "stopped" => Newest(events, o)
             /\ \/ file'.content.events = events
                \/ \E who \in Orders \cup Operators :
                      file'.content.events = Prepend(events, who)]_vars
=============================================================================
