--------------------------- MODULE FillAccounting ---------------------------
(***************************************************************************)
(* The filled quantity of one order, pass after pass of reconcile_order:   *)
(* the order snapshot, then the fill list, then the fees, each possibly    *)
(* lagging behind what the broker has executed, with broker times in whole *)
(* seconds so that several executions share one.  The order is already     *)
(* bound to its broker order and the worker is its only writer; the races  *)
(* with the cancel handlers are the subject of OrderLifecycle.             *)
(***************************************************************************)
EXTENDS OrderStatus, FillCoverage, FiniteSets

CONSTANTS
    Quantity,       \* requested_quantity
    MaxTime,        \* last second of the broker's clock
    MaxLags         \* bound on the snapshots that are out of date when read

ASSUME AccountingAssumption ==
    Quantity \in Nat \ {0} /\ MaxTime \in Nat \ {0} /\ MaxLags \in Nat

VARIABLES
    clock,          \* the broker's clock
    fills,          \* executions: records [id, qty, at]
    cancelled,      \* has the broker cancelled the rest?
    changed,        \* update_time of the broker order
    past,           \* every snapshot the broker order has had
    lags,           \* out-of-date snapshots read so far
    row,            \* status, raw_broker_status, filled_quantity, fees present
    journal,        \* execution_order_events of the order
    pass            \* the worker's pass over this order

vars == <<clock, fills, cancelled, changed, past, lags, row, journal, pass>>

\* Executions unit by unit, and their quantity.
UnitsOf(fs) == UNION {{f} \X (1..f.qty) : f \in fs}
Executed(fs) == Cardinality(UnitsOf(fs))
FillIds == 1..Quantity
Fills == [id : FillIds, qty : 1..Quantity, at : 1..MaxTime]

\* TradeOrderSnapshot, as far as the accounting reads it.
View(fs, gone, at) ==
    [code |-> IF Executed(fs) = Quantity THEN 11
              ELSE IF gone THEN 15
              ELSE IF Executed(fs) = 0 THEN 5 ELSE 10,
     qty |-> Executed(fs),
     at |-> at]

Views == [code : {5, 10, 11, 15}, qty : 0..Quantity, at : 0..MaxTime]

BrokerSettled == cancelled \/ Executed(fills) = Quantity

IdlePass == [pc |-> "idle", snap |-> View({}, FALSE, 0), todo |-> {}]

----------------------------------------------------------------------------
(* The broker. *)

Tick ==
    /\ clock < MaxTime
    /\ clock' = clock + 1
    /\ UNCHANGED <<fills, cancelled, changed, past, lags, row, journal, pass>>

BrokerChanges(fs, gone) ==
    /\ fills' = fs /\ cancelled' = gone /\ changed' = clock
    /\ past' = past \cup {View(fs, gone, clock)}
    /\ UNCHANGED <<clock, lags, row, journal, pass>>

Execute(q, id) ==
    /\ ~BrokerSettled
    /\ q <= Quantity - Executed(fills)
    /\ id \notin {f.id : f \in fills}
    /\ BrokerChanges(fills \cup {[id |-> id, qty |-> q, at |-> clock]}, cancelled)

BrokerCancel == ~BrokerSettled /\ BrokerChanges(fills, TRUE)

----------------------------------------------------------------------------
(* The worker. *)

\* reconciliation_candidates: live orders, and settled ones without fees.
Candidate == row.status \in CandidateStatus \/ ~row.fees

\* The order is read from the active list or, failing that, from history.
ReadSnapshot(v) ==
    /\ pass.pc = "idle" /\ Candidate
    /\ v \in past
    /\ IF v = View(fills, cancelled, changed)
       THEN lags' = lags
       ELSE lags < MaxLags /\ lags' = lags + 1
    /\ pass' = [pass EXCEPT !.pc = "snapshot", !.snap = v]
    /\ UNCHANGED <<clock, fills, cancelled, changed, past, row, journal>>

(***************************************************************************)
(* apply_broker_snapshot: a status the table refuses changes nothing; an   *)
(* accepted one never lowers the filled quantity, and journals the         *)
(* snapshot if any column changed.                                         *)
(***************************************************************************)
ApplySnapshot ==
    /\ pass.pc = "snapshot"
    /\ LET v == pass.snap
           incoming == BrokerStatus(v.code)
           next == [row EXCEPT !.status = StorageStatus(incoming, row.status),
                               !.code = v.code,
                               !.filled = FilledAfterSnapshot(v.qty, row.filled)]
       IN IF SnapshotAccepted(row.status, incoming) /\ next # row
          THEN /\ row' = next
               /\ journal' = Append(journal, [kind |-> "snapshot", id |-> 0,
                                              qty |-> v.qty, at |-> v.at])
          ELSE UNCHANGED <<row, journal>>
    /\ pass' = [pass EXCEPT !.pc = "fills"]
    /\ UNCHANGED <<clock, fills, cancelled, changed, past, lags>>

\* read_fills sorts by create time, then identity: the fill whose turn it is.
Earlier(f, g) == f.at < g.at \/ (f.at = g.at /\ f.id < g.id)
Earliest(fs) == CHOOSE f \in fs : \A g \in fs : ~Earlier(g, f)

(***************************************************************************)
(* The active list and the history together, or the one that could be      *)
(* read: any part of the executions.                                       *)
(***************************************************************************)
ReadFills(seen) ==
    /\ pass.pc = "fills"
    /\ pass' = [pass EXCEPT !.pc = "apply", !.todo = seen]
    /\ UNCHANGED <<clock, fills, cancelled, changed, past, lags, row, journal>>

(***************************************************************************)
(* apply_fill_snapshot: skip a journaled identity; add what no snapshot    *)
(* covers; the order is FILLED at the requested quantity, PARTIALLY_FILLED *)
(* if it was merely submitted; journal the fill in any case.               *)
(***************************************************************************)
ApplyFill ==
    /\ pass.pc = "apply" /\ pass.todo # {}
    /\ LET f == Earliest(pass.todo)
           new == AppliedQuantity(journal, f)
           total == row.filled + new
           status == IF new = 0 THEN row.status
                     ELSE IF total >= Quantity THEN "FILLED"
                     ELSE IF CanonicalStored(row.status) \in
                                {"Submitting", "Submitted", "BrokerAccepted"}
                          THEN "PARTIALLY_FILLED" ELSE row.status
       IN IF Journaled(journal, f)
          THEN UNCHANGED <<row, journal>>
          ELSE /\ row' = [row EXCEPT !.status = status, !.filled = total]
               /\ journal' = Append(journal, [kind |-> "fill", id |-> f.id,
                                              qty |-> f.qty, at |-> f.at])
    /\ pass' = [pass EXCEPT !.todo = @ \ {Earliest(@)}]
    /\ UNCHANGED <<clock, fills, cancelled, changed, past, lags>>

\* The end of the pass: fees, if the broker has them, are stored once.
ReadFees(known) ==
    /\ pass.pc = "apply" /\ pass.todo = {}
    /\ row' = [row EXCEPT !.fees = @ \/ known]
    /\ journal' = IF row' = row THEN journal
                  ELSE Append(journal, [kind |-> "fee", id |-> 0, qty |-> 0, at |-> 0])
    /\ pass' = IdlePass
    /\ UNCHANGED <<clock, fills, cancelled, changed, past, lags>>

\* cancel_order commits its fence between two passes.
CancelFence ==
    /\ pass.pc = "idle"
    /\ row.status \in {"SUBMITTED", "PARTIALLY_FILLED"}
    /\ row' = [row EXCEPT !.status = "CANCEL_SUBMITTED"]
    /\ journal' = Append(journal, [kind |-> "cancel", id |-> 0, qty |-> 0, at |-> 0])
    /\ UNCHANGED <<clock, fills, cancelled, changed, past, lags, pass>>

----------------------------------------------------------------------------
Init ==
    /\ clock = 1 /\ fills = {} /\ cancelled = FALSE /\ changed = 1
    /\ past = {View({}, FALSE, 1)} /\ lags = 0
    /\ row = [status |-> "SUBMITTED", code |-> 0, filled |-> 0, fees |-> FALSE]
    /\ journal = <<>>
    /\ pass = IdlePass

Broker == Tick \/ BrokerCancel \/ \E q \in 1..Quantity, id \in FillIds : Execute(q, id)

Pass ==
    \/ \E v \in past : ReadSnapshot(v)
    \/ ApplySnapshot
    \/ \E seen \in SUBSET fills : ReadFills(seen)
    \/ ApplyFill
    \/ \E known \in BOOLEAN : ReadFees(known)

Next == Broker \/ Pass \/ CancelFence

Spec == Init /\ [][Next]_vars

\* The worker never stops scanning while the order is a candidate.
FairSpec == Spec /\ WF_vars(Pass)

----------------------------------------------------------------------------
(* Properties. *)

\* Every variable holds a value of its kind.
TypeOK ==
    /\ clock \in 1..MaxTime /\ changed \in 1..MaxTime
    /\ fills \in SUBSET Fills
    /\ cancelled \in BOOLEAN /\ lags \in 0..MaxLags
    /\ past \in SUBSET Views
    /\ row \in [status : StoredStatus, code : BrokerCode, filled : Nat, fees : BOOLEAN]
    /\ journal \in Seq([kind : {"snapshot", "fill", "fee", "cancel"}, id : 0..Quantity,
                        qty : 0..Quantity, at : 0..MaxTime])
    /\ pass \in [pc : {"idle", "snapshot", "fills", "apply"}, snap : Views,
                 todo : SUBSET fills]

(***************************************************************************)
(* The order never claims more than the broker executed, in whatever order *)
(* lagging snapshots and partial fill lists arrive: a quantity reported    *)
(* twice is counted once.                                                  *)
(***************************************************************************)
NeverOverfilled == row.filled <= Executed(fills)

\* The filled quantity of an order never goes down.
FilledMonotone == [][row'.filled >= row.filled]_vars

(***************************************************************************)
(* When the broker has settled the order, reconciliation brings the filled *)
(* quantity to exactly what was executed and keeps it there, and the order *)
(* to the broker's final status.                                           *)
(***************************************************************************)
FillsConverge ==
    BrokerSettled ~> [](/\ row.filled = Executed(fills)
                   /\ row.status = IF Executed(fills) = Quantity
                                   THEN "FILLED" ELSE "CANCELLED")
=============================================================================
