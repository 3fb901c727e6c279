----------------------------- MODULE OrderStatus -----------------------------
(***************************************************************************)
(* The two vocabularies an execution order's status is written in, and the *)
(* tables between them (jftrade-trading/src/model.rs and the engine's      *)
(* order_status_label / storage_status).                                   *)
(*                                                                         *)
(*  - a canonical status is a value of the enum OrderStatus;               *)
(*  - a stored status is the text kept in execution_orders.status;         *)
(*  - a broker code is the integer OpenD reports for an order.             *)
(***************************************************************************)
EXTENDS Integers

\* The enum OrderStatus.
CanonicalStatus ==
    {"Created", "PrecheckRejected", "Submitting", "SubmissionUnknown",
     "Submitted", "BrokerAccepted", "PartiallyFilled", "Filled",
     "CancelRequested", "Cancelled", "Rejected", "Expired", "Unknown"}

\* OrderStatus::is_terminal
TerminalStatus ==
    {"PrecheckRejected", "Filled", "Cancelled", "Rejected", "Expired"}

\* Every text the engine writes into the status column.
StoredStatus ==
    {"CREATED", "SUBMITTING", "SUBMITTED", "PARTIALLY_FILLED", "FILLED",
     "CANCEL_SUBMITTED", "CANCELLED", "FAILED", "REJECTED", "EXPIRED",
     "UNKNOWN"}

\* The codes OpenD can put in TradeOrderSnapshot.order_status.
BrokerCode == {-1, 0, 1, 2, 3, 4, 5, 10, 11, 12, 13, 14, 15, 21, 22, 23, 24}

(***************************************************************************)
(* canonical_broker_status(order_status_label(code)): the label of the     *)
(* code, read back as a canonical status.  TIMEOUT (4) and every code      *)
(* without a label read back as Unknown.                                   *)
(***************************************************************************)
BrokerStatus(code) ==
    CASE code \in {0, 1, 2}    -> "Submitting"
      [] code = 5              -> "BrokerAccepted"
      [] code = 10             -> "PartiallyFilled"
      [] code = 11             -> "Filled"
      [] code \in {12, 13}     -> "CancelRequested"
      [] code \in {14, 15, 23} -> "Cancelled"
      [] code \in {3, 21, 22, 24} -> "Rejected"
      [] OTHER                 -> "Unknown"

(***************************************************************************)
(* canonical_stored_status: CANCEL_SUBMITTED is in neither table, so it    *)
(* falls through canonical_broker_status to Unknown; FAILED reads back as  *)
(* Rejected.                                                               *)
(***************************************************************************)
CanonicalStored(stored) ==
    CASE stored = "CREATED"          -> "Created"
      [] stored = "SUBMITTING"       -> "Submitting"
      [] stored = "SUBMITTED"        -> "Submitted"
      [] stored = "PARTIALLY_FILLED" -> "PartiallyFilled"
      [] stored = "FILLED"           -> "Filled"
      [] stored = "CANCELLED"        -> "Cancelled"
      [] stored = "FAILED"           -> "Rejected"
      [] stored = "REJECTED"         -> "Rejected"
      [] stored = "EXPIRED"          -> "Expired"
      [] OTHER                       -> "Unknown"

\* recovery::is_terminal
IsTerminal(stored) == CanonicalStored(stored) \in TerminalStatus

\* What a live status may be followed by, row by row of reconcile_status.
Settled == {"Filled", "Cancelled", "Rejected", "Expired"}

Successors(current) ==
    CASE current = "Created" ->
            {"Submitting", "Submitted", "BrokerAccepted", "PartiallyFilled",
             "CancelRequested"} \cup Settled
      [] current \in {"Submitting", "SubmissionUnknown"} ->
            {"Submitted", "BrokerAccepted", "PartiallyFilled",
             "CancelRequested"} \cup Settled
      [] current = "Submitted" ->
            {"BrokerAccepted", "PartiallyFilled", "CancelRequested"} \cup Settled
      [] current = "BrokerAccepted" ->
            {"PartiallyFilled", "CancelRequested"} \cup Settled
      [] current = "PartiallyFilled" -> {"CancelRequested"} \cup Settled
      [] current = "CancelRequested" -> Settled
      [] OTHER -> {}

\* reconcile_status(current, incoming).1: is the incoming status accepted?
ReconcileAccepts(current, incoming) ==
    \/ current = incoming
    \/ /\ incoming # "Unknown"
       /\ \/ current = "Unknown"
          \/ /\ current \notin TerminalStatus
             /\ incoming \in Successors(current)

\* Mutant: the enum's own name is stored instead of the column's vocabulary.
StorageRawLabel(status, current) == IF status = "Unknown" THEN current ELSE status

\* storage_status(status, current)
StorageStatus(status, current) ==
    CASE status = "Created"          -> "CREATED"
      [] status \in {"Submitting", "SubmissionUnknown"} -> "SUBMITTING"
      [] status \in {"Submitted", "BrokerAccepted"}     -> "SUBMITTED"
      [] status = "PartiallyFilled"  -> "PARTIALLY_FILLED"
      [] status = "Filled"           -> "FILLED"
      [] status = "CancelRequested"  -> "CANCEL_SUBMITTED"
      [] status = "Cancelled"        -> "CANCELLED"
      [] status \in {"Rejected", "PrecheckRejected"}    -> "FAILED"
      [] status = "Expired"          -> "EXPIRED"
      [] OTHER                       -> current

\* Mutant: a pending cancellation ignores every snapshot.
CancelPendingDeaf(stored, incoming) ==
    stored # "CANCEL_SUBMITTED" /\ ReconcileAccepts(CanonicalStored(stored), incoming)

(***************************************************************************)
(* The guard of apply_broker_snapshot: while a cancellation is pending     *)
(* only a settled broker status is accepted.                               *)
(***************************************************************************)
SnapshotAccepted(stored, incoming) ==
    IF stored = "CANCEL_SUBMITTED"
    THEN incoming \in Settled
    ELSE ReconcileAccepts(CanonicalStored(stored), incoming)

\* Mutant: a row whose broker call is still out is not reconciled.
CandidateAnswered == {"UNKNOWN", "SUBMITTED", "PARTIALLY_FILLED", "CANCEL_SUBMITTED"}

\* The status column list_reconciliation_candidates selects on.
CandidateStatus ==
    {"SUBMITTING", "UNKNOWN", "SUBMITTED", "PARTIALLY_FILLED",
     "CANCEL_SUBMITTED"}
=============================================================================
