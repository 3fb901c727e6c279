--------------------------- MODULE OrderLifecycle ---------------------------
(***************************************************************************)
(* One execution order between its broker submission and its settlement:   *)
(* the place handler's acknowledgement, concurrent cancel_order handlers   *)
(* and the reconciliation worker write the same row, each from a copy it   *)
(* read earlier, fenced by transition_order_and_event_fenced.  The process *)
(* may crash between any two steps.                                        *)
(*                                                                         *)
(* Executions are unit fills; the i-th has create time i.  (Shared seconds *)
(* and lagging snapshots are the subject of FillAccounting.)               *)
(***************************************************************************)
EXTENDS OrderStatus, FillCoverage, FiniteSets

CONSTANTS
    Cancellers,     \* invocations of cancel_order for this order
    Quantity,       \* requested_quantity
    Identified,     \* was the client order id sent as the remark?
    MaxFaults,      \* bound on failed reads, undiscovered accounts, odd codes
    MaxCrashes      \* bound on process restarts

ASSUME LifecycleAssumption ==
    /\ Quantity \in Nat \ {0}
    /\ Identified \in BOOLEAN
    /\ MaxFaults \in Nat /\ MaxCrashes \in Nat

VARIABLES
    row,            \* the execution_orders row
    journal,        \* its execution_order_events
    broker,         \* the broker order
    ack,            \* is the place handler about to store the acknowledgement?
    inflight,       \* cancel_inflight contains the order
    cancel,         \* the cancel handlers
    wire,           \* cancel requests on their way to the broker
    worker,         \* the reconciliation worker
    faults,
    crashes

vars == <<row, journal, broker, ack, inflight, cancel, wire, worker, faults, crashes>>

LocalState == {"SUBMITTING", "SUBMITTED", "PARTIALLY_FILLED", "FILLED",
               "CANCEL_SUBMITTED", "CANCELLED", "FAILED", "UNKNOWN"}

\* last_error_code, as far as the handlers write it.
ErrorCode == {"none", "state", "cancel", "account", "not_found", "status"}

Row == [status : LocalState, bound : BOOLEAN, updated_at : Nat, code : BrokerCode,
        filled : Nat, fees : BOOLEAN, last_error : ErrorCode]

\* The row as reserved.
Reserved == [status |-> "SUBMITTING", bound |-> FALSE, updated_at |-> 0, code |-> 0,
             filled |-> 0, fees |-> FALSE, last_error |-> "none"]

Event(kind, prev, next, id, qty, at) ==
    [kind |-> kind, prev |-> prev, next |-> next, id |-> id, qty |-> qty, at |-> at]

\* order_revision
Revision == Len(journal)

\* provider_now_rfc3339: a time no row of this order carries yet.
Now == Revision + 1

\* Mutant: the fence forgets the status and the time the copy was read at.
FenceRevisionOnly(copy, revision) == Revision = revision

(***************************************************************************)
(* transition_order_and_event_fenced: the row must still have the status   *)
(* and updated_at of the caller's copy and, if asked, the revision; then   *)
(* the whole row is replaced and one event is appended.                    *)
(***************************************************************************)
FenceHolds(copy, revision) ==
    /\ row.status = copy.status
    /\ row.updated_at = copy.updated_at
    /\ Revision = revision

Transition(copy, next, kind, id, qty, at) ==
    /\ row' = next
    /\ journal' = Append(journal, Event(kind, copy.status, next.status, id, qty, at))

\* persist_unknown: fenced by status and updated_at only.
PersistUnknown(copy, kind, code) ==
    IF FenceHolds(copy, Revision)
    THEN Transition(copy, [copy EXCEPT !.status = "UNKNOWN", !.last_error = code,
                                       !.updated_at = Now], kind, 0, 0, 0)
    ELSE UNCHANGED <<row, journal>>

\* persist_unknown_if_needed
PersistUnknownIfNeeded(copy, kind, code) ==
    IF copy.status = "UNKNOWN" /\ copy.last_error = code
    THEN UNCHANGED <<row, journal>>
    ELSE PersistUnknown(copy, kind, code)

----------------------------------------------------------------------------
(***************************************************************************)
(* The broker (external: OpenD and the exchange).  A new order is pending  *)
(* until the exchange takes it; OpenD then reports code 0, 1 or 2.  Codes  *)
(* of one meaning (BrokerStatus) are modelled by one of them: 1 for        *)
(* pending, 12 for cancelling, 15 for cancelled, 21 for failed.            *)
(***************************************************************************)

BrokerFilled == broker.fills = Quantity
BrokerSettled == BrokerFilled \/ broker.state \in {"cancelled", "failed"}

ReportedCode ==
    IF BrokerFilled THEN 11
    ELSE CASE broker.state = "cancelled" -> 15
           [] broker.state = "failed" -> 21
           [] broker.state = "cancelling" -> 12
           [] broker.state = "pending" -> 1
           [] broker.state = "live" -> IF broker.fills = 0 THEN 5 ELSE 10

\* The local status that says what the broker settled on.
Outcome == StorageStatus(BrokerStatus(ReportedCode), "UNKNOWN")

BrokerAccepts ==
    /\ ~BrokerSettled /\ broker.state = "pending"
    /\ broker' = [broker EXCEPT !.state = "live"]
    /\ UNCHANGED <<row, journal, ack, inflight, cancel, wire, worker, faults, crashes>>

BrokerExecutes ==
    /\ ~BrokerSettled /\ broker.state # "pending"
    /\ broker' = [broker EXCEPT !.fills = @ + 1]
    /\ UNCHANGED <<row, journal, ack, inflight, cancel, wire, worker, faults, crashes>>

BrokerEnds ==
    /\ ~BrokerSettled
    /\ \E s \in {"cancelled", "failed"} : broker' = [broker EXCEPT !.state = s]
    /\ UNCHANGED <<row, journal, ack, inflight, cancel, wire, worker, faults, crashes>>

BrokerCancels(c) ==
    /\ c \in wire
    /\ wire' = wire \ {c}
    /\ broker' = IF BrokerSettled THEN broker ELSE [broker EXCEPT !.state = "cancelling"]
    /\ UNCHANGED <<row, journal, ack, inflight, cancel, worker, faults, crashes>>

CancelDropped(c) ==
    /\ c \in wire
    /\ wire' = wire \ {c}
    /\ UNCHANGED <<row, journal, broker, ack, inflight, cancel, worker, faults, crashes>>

\* A settled order ages out of the broker's lists.
BrokerForgets ==
    /\ BrokerSettled /\ broker.listed /\ faults < MaxFaults
    /\ faults' = faults + 1
    /\ broker' = [broker EXCEPT !.listed = FALSE]
    /\ UNCHANGED <<row, journal, ack, inflight, cancel, wire, worker, crashes>>

----------------------------------------------------------------------------
(* The place handler's last step: persist_external_success. *)

PlaceAck ==
    /\ ack
    /\ ack' = FALSE
    /\ LET sub == [Reserved EXCEPT !.status = "SUBMITTED", !.bound = TRUE]
       IN \/ IF FenceHolds(Reserved, Revision)
             THEN Transition(Reserved, sub, "submitted", 0, 0, 0)
             ELSE UNCHANGED <<row, journal>>
          \/ IF FenceHolds(Reserved, Revision)   \* the store failed once
             THEN Transition(Reserved, [sub EXCEPT !.status = "UNKNOWN",
                        !.last_error = "state"], "state_unknown", 0, 0, 0)
             ELSE UNCHANGED <<row, journal>>
    /\ UNCHANGED <<broker, inflight, cancel, wire, worker, faults, crashes>>

----------------------------------------------------------------------------
(* cancel_order. *)

\* CancelInFlightGuard: acquire, and drop when the handler returns.
AcquireInFlight == ~inflight /\ inflight' = TRUE
DropInFlight == inflight' = FALSE

Finished == [pc |-> "done", copy |-> Reserved, revision |-> 0]

\* get_order, before the in-flight guard is taken.
CancelRead(c) ==
    /\ cancel[c].pc = "idle"
    /\ cancel' = [cancel EXCEPT ![c] = [pc |-> "read", copy |-> row, revision |-> 0]]
    /\ UNCHANGED <<row, journal, broker, ack, inflight, wire, worker, faults, crashes>>

\* Mutant: only a settled order refuses to be cancelled.
RefusedSettled(copy) == copy.status \in {"FILLED", "CANCELLED", "FAILED"} \/ ~copy.bound

Refused(copy) ==
    \/ copy.status \in {"FILLED", "CANCELLED", "FAILED", "UNKNOWN", "CANCEL_SUBMITTED"}
    \/ ~copy.bound

\* The in-flight guard, the checks on the copy and the revision; or one of
\* them refuses, or writer() does because OpenD is not ready.
CancelCheck(c) ==
    /\ cancel[c].pc = "read"
    /\ \/ /\ AcquireInFlight /\ ~Refused(cancel[c].copy)
          /\ cancel' = [cancel EXCEPT ![c].pc = "guarded", ![c].revision = Revision]
       \/ /\ cancel' = [cancel EXCEPT ![c] = Finished]
          /\ UNCHANGED inflight
    /\ UNCHANGED <<row, journal, broker, ack, wire, worker, faults, crashes>>

\* The durable fence, committed before the broker is called.
CancelFence(c) ==
    /\ cancel[c].pc = "guarded"
    /\ LET copy == cancel[c].copy
           next == [copy EXCEPT !.status = "CANCEL_SUBMITTED", !.updated_at = Now]
       IN \/ /\ FenceHolds(copy, cancel[c].revision)
             /\ Transition(copy, next, "cancel_submitted", 0, 0, 0)
             /\ cancel' = [cancel EXCEPT ![c].pc = "fenced", ![c].copy = next]
             /\ UNCHANGED inflight
          \/ /\ ~FenceHolds(copy, cancel[c].revision)
             /\ cancel' = [cancel EXCEPT ![c] = Finished]
             /\ DropInFlight
             /\ UNCHANGED <<row, journal>>
    /\ UNCHANGED <<broker, ack, wire, worker, faults, crashes>>

CancelCall(c) ==
    /\ cancel[c].pc = "fenced"
    /\ wire' = wire \cup {c}
    /\ cancel' = [cancel EXCEPT ![c].pc = "calling"]
    /\ UNCHANGED <<row, journal, broker, ack, inflight, worker, faults, crashes>>

\* Mutant: the accepted request is taken for the cancellation itself.
CancelAcceptedFinal(c) ==
    /\ cancel[c].pc = "calling" /\ c \notin wire
    /\ LET copy == cancel[c].copy
       IN IF FenceHolds(copy, Revision)
          THEN Transition(copy, [copy EXCEPT !.status = "CANCELLED", !.updated_at = Now],
                          "cancelled", 0, 0, 0)
          ELSE UNCHANGED <<row, journal>>
    /\ cancel' = [cancel EXCEPT ![c] = Finished]
    /\ DropInFlight
    /\ UNCHANGED <<broker, ack, wire, worker, faults, crashes>>

\* modify_order returned: nothing more is written.
CancelAccepted(c) ==
    /\ cancel[c].pc = "calling" /\ c \notin wire
    /\ cancel' = [cancel EXCEPT ![c] = Finished]
    /\ DropInFlight
    /\ UNCHANGED <<row, journal, broker, ack, wire, worker, faults, crashes>>

\* modify_order failed or timed out; the request may still arrive.
CancelFailed(c) ==
    /\ cancel[c].pc = "calling"
    /\ PersistUnknown(cancel[c].copy, "cancel_failed", "cancel")
    /\ cancel' = [cancel EXCEPT ![c] = Finished]
    /\ DropInFlight
    /\ UNCHANGED <<broker, ack, wire, worker, faults, crashes>>

----------------------------------------------------------------------------
(* The reconciliation worker's pass over the order. *)

NoSnapshot == [code |-> -1, qty |-> 0]
IdleWorker == [pc |-> "idle", copy |-> Reserved, revision |-> 0,
               snap |-> NoSnapshot, todo |-> {}]

\* Go on with the pass; what was read so far is not used again.
Go(pc) == worker' = [IdleWorker EXCEPT !.pc = pc]
EndPass == worker' = IdleWorker

\* reconciliation_candidates: live orders, and settled ones without fees.
Candidate(r) ==
    \/ r.status \in CandidateStatus
    \/ IsTerminal(r.status) /\ ~r.fees /\ r.bound

\* The scan reads the row; a fault hides its account from discovery.
WorkerScan ==
    /\ worker.pc = "idle" /\ Candidate(row)
    /\ \/ /\ worker' = [IdleWorker EXCEPT !.pc = "scanned", !.copy = row]
          /\ UNCHANGED faults
       \/ /\ faults < MaxFaults /\ faults' = faults + 1
          /\ worker' = [IdleWorker EXCEPT !.pc = "undiscovered", !.copy = row]
    /\ UNCHANGED <<row, journal, broker, ack, inflight, cancel, wire, crashes>>

WorkerUndiscovered ==
    /\ worker.pc = "undiscovered"
    /\ PersistUnknownIfNeeded(worker.copy, "reconcile_account_unknown", "account")
    /\ EndPass
    /\ UNCHANGED <<broker, ack, inflight, cancel, wire, faults, crashes>>

(***************************************************************************)
(* reconcile_order looks the order up: by broker id in the active list and *)
(* the history, or, without an id, by remark (resolve_unidentified_        *)
(* submission).  A fault makes the broker report a code without a meaning. *)
(***************************************************************************)
WorkerRead ==
    /\ worker.pc = "scanned"
    /\ IF broker.listed /\ (worker.copy.bound \/ Identified)
       THEN \/ /\ worker' = [worker EXCEPT !.pc = "read",
                       !.snap = [code |-> ReportedCode, qty |-> broker.fills]]
               /\ UNCHANGED faults
            \/ /\ faults < MaxFaults /\ faults' = faults + 1
               /\ worker' = [worker EXCEPT !.pc = "read", !.snap = NoSnapshot]
       ELSE /\ IF worker.copy.bound /\ IsTerminal(worker.copy.status)
               THEN Go("fees")
               ELSE worker' = [worker EXCEPT !.pc = "missing"]
            /\ UNCHANGED faults
    /\ UNCHANGED <<row, journal, broker, ack, inflight, cancel, wire, crashes>>

WorkerMissing ==
    /\ worker.pc = "missing"
    /\ PersistUnknownIfNeeded(worker.copy, "reconcile_order_missing", "not_found")
    /\ EndPass
    /\ UNCHANGED <<broker, ack, inflight, cancel, wire, faults, crashes>>

\* apply_broker_snapshot, on the row as the scan read it.
WorkerApply ==
    /\ worker.pc = "read"
    /\ LET old == worker.copy
           snap == worker.snap
           incoming == BrokerStatus(snap.code)
           next == [old EXCEPT !.status = StorageStatus(incoming, old.status),
                      !.bound = TRUE, !.code = snap.code,
                      !.filled = FilledAfterSnapshot(snap.qty, old.filled), !.last_error = "none"]
       IN \/ /\ incoming = "Unknown"
             /\ PersistUnknownIfNeeded(old, "reconcile_status_unknown", "status")
             /\ EndPass
          \/ /\ incoming # "Unknown"
             /\ ~SnapshotAccepted(old.status, incoming) \/ next = old
             /\ Go("fills")
             /\ UNCHANGED <<row, journal>>
          \/ /\ incoming # "Unknown"
             /\ SnapshotAccepted(old.status, incoming) /\ next # old
             /\ \/ /\ FenceHolds(old, Revision)
                   /\ Transition(old, [next EXCEPT !.updated_at = Now],
                                 "snapshot", 0, snap.qty, snap.qty)
                   /\ Go("fills")
                \/ /\ ~FenceHolds(old, Revision)
                   /\ EndPass
                   /\ UNCHANGED <<row, journal>>
    /\ UNCHANGED <<broker, ack, inflight, cancel, wire, faults, crashes>>

\* read_fills: whatever part of the executions the readable lists show.
WorkerFills ==
    /\ worker.pc = "fills"
    /\ \E seen \in SUBSET (1..broker.fills) :
          worker' = [worker EXCEPT !.pc = "apply", !.todo = seen]
    /\ UNCHANGED <<row, journal, broker, ack, inflight, cancel, wire, faults, crashes>>

\* get_order and order_revision, afresh for every fill.
WorkerFillRead ==
    /\ worker.pc = "apply" /\ worker.todo # {}
    /\ worker' = [worker EXCEPT !.pc = "fill", !.copy = row, !.revision = Revision]
    /\ UNCHANGED <<row, journal, broker, ack, inflight, cancel, wire, faults, crashes>>

NextFill(i) == worker' = [IdleWorker EXCEPT !.pc = "apply", !.todo = worker.todo \ {i}]

\* Mutant: the first execution fills the order.
FillStatusEager(old, new) == IF new = 0 THEN old.status ELSE "FILLED"

FillStatus(old, new) ==
    IF new = 0 THEN old.status
    ELSE IF old.filled + new >= Quantity THEN "FILLED"
    ELSE IF CanonicalStored(old.status) \in {"Submitting", "Submitted", "BrokerAccepted"}
         THEN "PARTIALLY_FILLED" ELSE old.status

\* apply_fill_snapshot
WorkerFillApply ==
    /\ worker.pc = "fill"
    /\ LET i == Min(worker.todo)
           fill == [id |-> i, qty |-> 1, at |-> i]
           old == worker.copy
           new == AppliedQuantity(journal, fill)
           next == [old EXCEPT !.status = FillStatus(old, new), !.bound = TRUE,
                      !.filled = @ + new, !.updated_at = Now, !.last_error = "none"]
       IN \/ /\ Journaled(journal, fill)
             /\ NextFill(i)
             /\ UNCHANGED <<row, journal>>
          \/ /\ ~Journaled(journal, fill) /\ FenceHolds(old, worker.revision)
             /\ Transition(old, next, "fill", i, 1, i)
             /\ NextFill(i)
          \/ /\ ~Journaled(journal, fill) /\ ~FenceHolds(old, worker.revision)
             /\ EndPass
             /\ UNCHANGED <<row, journal>>
    /\ UNCHANGED <<broker, ack, inflight, cancel, wire, faults, crashes>>

\* The row is reloaded; fees are asked for if it is settled or has none.
WorkerFillsDone ==
    /\ worker.pc = "apply" /\ worker.todo = {}
    /\ IF row.bound /\ (IsTerminal(row.status) \/ ~row.fees) THEN Go("fees") ELSE EndPass
    /\ UNCHANGED <<row, journal, broker, ack, inflight, cancel, wire, faults, crashes>>

\* read_order_fees: the broker computes fees some time after settlement.
WorkerFees ==
    /\ worker.pc = "fees"
    /\ \/ EndPass
       \/ /\ BrokerSettled
          /\ worker' = [worker EXCEPT !.pc = "fee", !.copy = row, !.revision = Revision]
    /\ UNCHANGED <<row, journal, broker, ack, inflight, cancel, wire, faults, crashes>>

\* apply_fee_snapshot: an amount already stored is not written again.
WorkerFeeApply ==
    /\ worker.pc = "fee"
    /\ IF ~worker.copy.fees /\ FenceHolds(worker.copy, worker.revision)
       THEN Transition(worker.copy, [worker.copy EXCEPT !.fees = TRUE, !.updated_at = Now],
                       "fee", 0, 0, 0)
       ELSE UNCHANGED <<row, journal>>
    /\ EndPass
    /\ UNCHANGED <<broker, ack, inflight, cancel, wire, faults, crashes>>

\* A read of the broker failed: the order waits for the next scan.
WorkerReadFails ==
    /\ worker.pc \in {"scanned", "fills", "fees"} /\ faults < MaxFaults
    /\ faults' = faults + 1
    /\ EndPass
    /\ UNCHANGED <<row, journal, broker, ack, inflight, cancel, wire, crashes>>

----------------------------------------------------------------------------
\* Handlers, guard set and worker die with the process.
Crash ==
    /\ crashes < MaxCrashes
    /\ crashes' = crashes + 1
    /\ ack' = FALSE /\ inflight' = FALSE
    /\ cancel' = [c \in Cancellers |->
          IF cancel[c].pc \in {"idle", "done"} THEN cancel[c] ELSE Finished]
    /\ worker' = IdleWorker
    /\ UNCHANGED <<row, journal, broker, wire, faults>>

Init ==
    /\ row = Reserved /\ journal = <<>>
    /\ broker = [state |-> "pending", fills |-> 0, listed |-> TRUE]
    /\ ack = TRUE
    /\ inflight = FALSE
    /\ cancel = [c \in Cancellers |-> [pc |-> "idle", copy |-> Reserved, revision |-> 0]]
    /\ wire = {}
    /\ worker = IdleWorker
    /\ faults = 0 /\ crashes = 0

Cancel(c) ==
    \/ CancelRead(c) \/ CancelCheck(c) \/ CancelFence(c)
    \/ CancelCall(c) \/ CancelAccepted(c) \/ CancelFailed(c)

Broker ==
    \/ BrokerAccepts \/ BrokerExecutes \/ BrokerEnds \/ BrokerForgets
    \/ \E c \in Cancellers : BrokerCancels(c) \/ CancelDropped(c)

Worker ==
    \/ WorkerScan \/ WorkerUndiscovered \/ WorkerRead \/ WorkerMissing
    \/ WorkerApply \/ WorkerFills \/ WorkerFillRead \/ WorkerFillApply
    \/ WorkerFillsDone \/ WorkerFees \/ WorkerFeeApply

Next == PlaceAck \/ Crash \/ WorkerReadFails \/ Worker \/ Broker
        \/ \E c \in Cancellers : Cancel(c)

Spec == Init /\ [][Next]_vars

\* The worker task keeps scanning; nobody else is obliged to move.
FairSpec == Spec /\ WF_vars(Worker)

----------------------------------------------------------------------------
(* Properties. *)

CancelPC == {"idle", "read", "guarded", "fenced", "calling", "done"}
WorkerPC == {"idle", "scanned", "undiscovered", "read", "missing", "fills", "apply",
             "fill", "fees", "fee"}
EventKind == {"submitted", "state_unknown", "cancel_submitted", "cancel_failed",
              "reconcile_account_unknown", "reconcile_order_missing",
              "reconcile_status_unknown", "snapshot", "fill", "fee"}

\* Every variable holds a value of its kind.
TypeOK ==
    /\ row \in Row
    /\ journal \in Seq([kind : EventKind, prev : LocalState, next : LocalState,
                        id : 0..Quantity, qty : 0..Quantity, at : 0..Quantity])
    /\ broker \in [state : {"pending", "live", "cancelling", "cancelled", "failed"},
                   fills : 0..Quantity, listed : BOOLEAN]
    /\ ack \in BOOLEAN /\ inflight \in BOOLEAN
    /\ wire \subseteq Cancellers
    /\ faults \in 0..MaxFaults /\ crashes \in 0..MaxCrashes
    /\ cancel \in [Cancellers -> [pc : CancelPC, copy : Row, revision : Nat]]
    /\ worker \in [pc : WorkerPC, copy : Row, revision : Nat,
                   snap : [code : BrokerCode, qty : 0..Quantity],
                   todo : SUBSET (1..Quantity)]

(***************************************************************************)
(* The journal is the history of the row: it starts at the reservation,    *)
(* each event continues from where the one before it ended, and the last   *)
(* one ends in the row's status.  No writer slipped in between the copy an *)
(* event was computed from and its commit.                                 *)
(***************************************************************************)
JournalChain ==
    LET before(i) == IF i = 1 THEN "SUBMITTING" ELSE journal[i - 1].next
    IN /\ \A i \in DOMAIN journal : journal[i].prev = before(i)
       /\ row.status = before(Len(journal) + 1)

(***************************************************************************)
(* A settled local status is true: FILLED, CANCELLED or FAILED is only     *)
(* ever stored when that is how the broker settled the order, however      *)
(* stale the copies of the handlers and the worker are.                    *)
(***************************************************************************)
SettlementTrue == IsTerminal(row.status) => BrokerSettled /\ row.status = Outcome

\* The order never claims more than the broker executed.
NeverOverfilled == row.filled <= broker.fills

(***************************************************************************)
(* No write loses what an earlier one established: the broker identity and *)
(* the fees stay, the filled quantity never goes down.                     *)
(***************************************************************************)
NothingLost ==
    [][/\ row.bound => row'.bound
       /\ row.fees => row'.fees
       /\ row'.filled >= row.filled]_vars

(***************************************************************************)
(* Every broker cancel request was announced by a durable event of its own *)
(* that took a live order to CANCEL_SUBMITTED: two handlers that read the  *)
(* same live row never both call the broker on the strength of one fence.  *)
(* An order the broker still reports as being submitted may be cancelled,  *)
(* but only after an earlier event gave it a broker identity: the bare     *)
(* reservation never is.                                                   *)
(***************************************************************************)
CancelCalls == Cardinality({c \in Cancellers : cancel[c].pc \in {"fenced", "calling"}})

CancelFenced ==
    /\ CancelCalls <= 1
    /\ \A i \in DOMAIN journal :
          journal[i].next = "CANCEL_SUBMITTED" /\ journal[i].kind = "cancel_submitted"
              => /\ journal[i].prev \in {"SUBMITTING", "SUBMITTED", "PARTIALLY_FILLED"}
                 /\ journal[i].prev = "SUBMITTING" => i > 1
    /\ \A c \in Cancellers :
          cancel[c].pc = "calling" /\ row.updated_at = cancel[c].copy.updated_at
              => row.status = "CANCEL_SUBMITTED"

(***************************************************************************)
(* If the broker settles the order and keeps listing it, the row reaches   *)
(* the same outcome and the full filled quantity, and stays there unless   *)
(* the account disappears from discovery.                                  *)
(***************************************************************************)
OutcomeMirrored ==
    []broker.listed =>
        (BrokerSettled ~> (row.status = Outcome /\ row.filled = broker.fills))

(***************************************************************************)
(* A row that has settled stays settled.                                   *)
(***************************************************************************)
TerminalKept == [][IsTerminal(row.status) => IsTerminal(row'.status)]_vars
=============================================================================
