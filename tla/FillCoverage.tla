---------------------------- MODULE FillCoverage ----------------------------
(***************************************************************************)
(* How many units of a broker fill an order's journal already accounts     *)
(* for.  The broker reports executions twice: cumulatively, in the order   *)
(* snapshot, and one by one, in the fill list.  covered_by_snapshot keeps  *)
(* the two reports from being added up.                                    *)
(*                                                                         *)
(* A journal is a sequence of events [kind, id, qty, at]: kind "snapshot"  *)
(* (event "reconciled": cumulative quantity and the order's update time),  *)
(* kind "fill" (BROKER_FILL_RECEIVED: identity, quantity, create time) and *)
(* other kinds, which carry no quantity.                                   *)
(***************************************************************************)
EXTENDS Integers, Sequences, FiniteSetsExt, FiniteSets

Larger(a, b) == IF a >= b THEN a ELSE b
Smaller(a, b) == IF a <= b THEN a ELSE b

\* The fills journaled no later than `at`, unit by unit.
KnownUnits(journal, at) ==
    UNION {{i} \X (1..journal[i].qty) : i \in
            {j \in DOMAIN journal : journal[j].kind = "fill" /\ journal[j].at <= at}}

\* Their quantity.
KnownUpTo(journal, at) == Cardinality(KnownUnits(journal, at))

\* Mutant: a snapshot of the fill's own second does not count.
BestSnapshotNewer(journal, at) ==
    Max({0} \cup {journal[i].qty : i \in
            {j \in DOMAIN journal : journal[j].kind = "snapshot" /\ journal[j].at > at}})

\* The largest cumulative quantity of a snapshot not older than `at`.
BestSnapshot(journal, at) ==
    Max({0} \cup {journal[i].qty : i \in
            {j \in DOMAIN journal : journal[j].kind = "snapshot" /\ journal[j].at >= at}})

\* covered_by_snapshot
CoveredBySnapshot(journal, fill) ==
    Smaller(Larger(BestSnapshot(journal, fill.at) - KnownUpTo(journal, fill.at), 0),
            fill.qty)

\* The duplicate test at the head of apply_fill_snapshot.
Journaled(journal, fill) ==
    \E i \in DOMAIN journal : journal[i].kind = "fill" /\ journal[i].id = fill.id

\* Mutant: every fill is added in full.
WholeFill(journal, fill) == fill.qty

\* apply_fill_snapshot: the units of the fill that are new to the order.
AppliedQuantity(journal, fill) ==
    Larger(fill.qty - CoveredBySnapshot(journal, fill), 0)

\* Mutant: the broker's cumulative quantity is stored as reported.
FilledAsReported(reported, filled) == reported

\* apply_broker_snapshot: the cumulative quantity never lowers the order's.
FilledAfterSnapshot(reported, filled) == Larger(reported, filled)
=============================================================================
