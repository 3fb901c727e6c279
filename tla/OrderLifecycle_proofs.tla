------------------------ MODULE OrderLifecycle_proofs ------------------------
(***************************************************************************)
(* Proofs about OrderLifecycle, for any number of cancel handlers, any     *)
(* quantity and any number of faults and crashes.                          *)
(***************************************************************************)
EXTENDS OrderLifecycle, FiniteSetTheorems, FunctionTheorems, NaturalsInduction,
        SequenceTheorems, WellFoundedInduction, TLAPS

EventRecord == [kind : EventKind, prev : LocalState, next : LocalState,
                id : 0..Quantity, qty : 0..Quantity, at : 0..Quantity]
CancelRecord == [pc : CancelPC, copy : Row, revision : Nat]
Snapshot == [code : BrokerCode, qty : 0..Quantity]
BrokerRecord == [state : {"pending", "live", "cancelling", "cancelled", "failed"},
                 fills : 0..Quantity, listed : BOOLEAN]
WorkerRecord == [pc : WorkerPC, copy : Row, revision : Nat, snap : Snapshot,
                 todo : SUBSET (1..Quantity)]

\* apply_fill_snapshot is only called with a fill.
InHand == worker.pc = "fill" => worker.todo # {}

TypeInv == TypeOK /\ InHand

----------------------------------------------------------------------------
(***************************************************************************)
(* The versions of the row.  Every write but the acknowledgement stamps a  *)
(* new time, and the acknowledgement only replaces the reservation, so a   *)
(* copy that still passes the fence is the row itself.  The time tells the *)
(* reservation from a later SUBMITTING that the broker reported.           *)
(***************************************************************************)
CopyOK(k) ==
    /\ k.updated_at <= Len(journal)
    /\ k.status = "SUBMITTING" /\ k.updated_at = 0 => k = Reserved
    /\ row = Reserved => k = Reserved
    /\ k.updated_at = row.updated_at /\ (k.status = row.status \/ k.updated_at > 0) => k = row

\* The codes ReportedCode produces, and the one of NoSnapshot.
SnapCode == {-1, 1, 5, 10, 11, 12, 15, 21}

VersionInv ==
    /\ row.status = "SUBMITTING" /\ row.updated_at = 0 => row = Reserved
    /\ Len(journal) = 0 => row = Reserved
    /\ row.updated_at <= Len(journal)
    /\ \A c \in Cancellers : CopyOK(cancel[c].copy)
    /\ CopyOK(worker.copy)
    /\ worker.snap.code \in SnapCode

(***************************************************************************)
(* The in-flight guard has one holder, which decided on a live bound row   *)
(* and, once it has fenced, carries the version it wrote.                  *)
(***************************************************************************)
Holding == {"guarded", "fenced", "calling"}

HandlersInv ==
    /\ \A c \in Cancellers : cancel[c].pc \in Holding => inflight
    /\ \A c, d \in Cancellers :
          cancel[c].pc \in Holding /\ cancel[d].pc \in Holding => c = d
    /\ \A c \in Cancellers : cancel[c].pc = "guarded" => ~Refused(cancel[c].copy)
    /\ \A c \in Cancellers : cancel[c].pc \in {"fenced", "calling"} =>
          cancel[c].copy.status = "CANCEL_SUBMITTED" /\ cancel[c].copy.updated_at > 0

GuardInv ==
    /\ HandlersInv
    /\ \A i \in DOMAIN journal :
          journal[i].kind = "cancel_submitted"
              => /\ journal[i].prev \in {"SUBMITTING", "SUBMITTED", "PARTIALLY_FILLED"}
                 /\ journal[i].prev = "SUBMITTING" => i > 1

(***************************************************************************)
(* The executions the journal accounts for, by a snapshot or by name: the  *)
(* filled quantity never exceeds their number, and all of them happened.   *)
(***************************************************************************)
Accounted ==
    {n \in 1..Quantity : \E j \in DOMAIN journal :
        \/ journal[j].kind = "snapshot" /\ n <= journal[j].qty
        \/ journal[j].kind = "fill" /\ journal[j].id = n}

EventsTrue ==
    /\ \A j \in DOMAIN journal :
          /\ journal[j].kind = "fill" =>
                /\ journal[j].id \in 1..broker.fills
                /\ journal[j].qty = 1 /\ journal[j].at = journal[j].id
          /\ journal[j].kind = "snapshot" =>
                journal[j].at = journal[j].qty /\ journal[j].qty <= broker.fills
    /\ \A j, k \in DOMAIN journal :
          journal[j].kind = "fill" /\ journal[k].kind = "fill"
              /\ journal[j].id = journal[k].id => j = k

\* What the worker carries was true when it was read, and still is.
WorkerTrue ==
    /\ worker.snap.qty <= broker.fills
    /\ worker.todo \subseteq 1..broker.fills
    /\ worker.snap.code = 11 => BrokerFilled
    /\ worker.snap.code = 15 => ~BrokerFilled /\ broker.state = "cancelled"
    /\ worker.snap.code = 21 => ~BrokerFilled /\ broker.state = "failed"

FilledBound == row.filled <= Cardinality(Accounted)

FillInv == EventsTrue /\ WorkerTrue /\ FilledBound /\ SettlementTrue

----------------------------------------------------------------------------
(* The fold operators of the model, for a journal of this order. *)

StrictlyLess == {p \in Nat \X Nat : p[1] < p[2]}

\* A non-empty set of numbers has a least one.
LEMMA Least ==
    ASSUME NEW S \in SUBSET Nat, S # {}
    PROVE  \E n \in S : \A m \in S : n <= m
<1>1. IsWellFoundedOn(StrictlyLess, Nat)
  BY NatLessThanWellFounded DEF OpToRel, StrictlyLess
<1>2. PICK n \in S : \A m \in S : ~ (<<m, n>> \in StrictlyLess)
  BY <1>1, WFMin
<1>3. ASSUME NEW m \in S PROVE n <= m
  <2>1. <<m, n>> \in Nat \X Nat /\ <<m, n>>[1] = m /\ <<m, n>>[2] = n
    OBVIOUS
  <2>2. ~ (m < n)
    BY <1>2, <2>1 DEF StrictlyLess
  <2> QED
    BY <2>2
<1> QED
  BY <1>3

LEMMA MinIn ==
    ASSUME NEW S \in SUBSET Nat, S # {}
    PROVE  Min(S) \in S
  BY Least DEF Min

\* A bounded non-empty set of numbers has a greatest one.
LEMMA MaxIn ==
    ASSUME NEW n \in Nat, NEW S \in SUBSET (0..n), S # {}
    PROVE  Max(S) \in S /\ \A y \in S : Max(S) >= y
<1> DEFINE T == {n - y : y \in S}
<1>0. \A y \in S : n - y \in Nat
  OBVIOUS
<1>1. T \in SUBSET Nat /\ T # {}
  BY <1>0
<1>2. PICK t \in T : \A u \in T : t <= u
  BY <1>1, Least
<1>3. PICK x \in S : t = n - x
  BY <1>2
<1>4. \A y \in S : n - x <= n - y
  BY <1>2, <1>3
<1>5. \A y \in S : x >= y
  BY <1>4
<1> HIDE DEF T
<1> QED
  BY <1>5 DEF Max

\* The snapshot quantity a fill is compared with.
LEMMA BestIs ==
    ASSUME journal \in Seq(EventRecord), NEW at \in Nat
    PROVE  /\ BestSnapshot(journal, at) \in 0..Quantity
           /\ \A j \in DOMAIN journal :
                 journal[j].kind = "snapshot" /\ journal[j].at >= at
                     => BestSnapshot(journal, at) >= journal[j].qty
<1> DEFINE D == {j \in DOMAIN journal : journal[j].kind = "snapshot" /\ journal[j].at >= at}
           S == {0} \cup {journal[i].qty : i \in D}
<1>0. \A j \in DOMAIN journal : journal[j] \in EventRecord
  BY ElementOfSeq, LenProperties
<1>1. \A i \in D : journal[i].qty \in 0..Quantity
  BY <1>0 DEF EventRecord
<1>2. S \in SUBSET (0..Quantity) /\ S # {}
  BY <1>1, LifecycleAssumption
<1>3. Max(S) \in S /\ \A y \in S : Max(S) >= y
  BY <1>2, LifecycleAssumption, MaxIn
<1>4. BestSnapshot(journal, at) = Max(S)
  BY DEF BestSnapshot
<1>5. \A j \in D : journal[j].qty \in S
  OBVIOUS
<1>6. BestSnapshot(journal, at) \in 0..Quantity
  BY <1>2, <1>3, <1>4
<1>7. ASSUME NEW j \in DOMAIN journal, journal[j].kind = "snapshot" /\ journal[j].at >= at
      PROVE  BestSnapshot(journal, at) >= journal[j].qty
  <2>1. j \in D
    BY <1>7
  <2> HIDE DEF S, D
  <2> QED
    BY <1>3, <1>4, <1>5, <2>1
<1> QED
  BY <1>6, <1>7

\* The units of the journaled fills are finitely many.
LEMMA KnownIs ==
    ASSUME journal \in Seq(EventRecord), NEW at \in Nat
    PROVE  /\ IsFiniteSet(KnownUnits(journal, at))
           /\ KnownUpTo(journal, at) \in Nat
           /\ KnownUnits(journal, at) \subseteq
                {u \in (DOMAIN journal) \X (1..Quantity) :
                    /\ journal[u[1]].kind = "fill" /\ journal[u[1]].at <= at
                    /\ u[2] <= journal[u[1]].qty}
<1>0. /\ \A j \in DOMAIN journal : journal[j] \in EventRecord
      /\ DOMAIN journal = 1..Len(journal) /\ Len(journal) \in Nat
  BY ElementOfSeq, LenProperties
<1>1. ASSUME NEW u \in KnownUnits(journal, at)
      PROVE  /\ u \in (DOMAIN journal) \X (1..Quantity)
             /\ journal[u[1]].kind = "fill" /\ journal[u[1]].at <= at
             /\ u[2] <= journal[u[1]].qty
  <2>1. PICK i \in DOMAIN journal : /\ journal[i].kind = "fill" /\ journal[i].at <= at
                                    /\ u \in {i} \X (1..journal[i].qty)
    BY DEF KnownUnits
  <2>2. journal[i].qty \in 0..Quantity
    BY <1>0 DEF EventRecord
  <2> QED
    BY <2>1, <2>2, LifecycleAssumption
<1>2. IsFiniteSet(1..Len(journal)) /\ IsFiniteSet(1..Quantity)
  BY <1>0, LifecycleAssumption, FS_Interval
<1>3. IsFiniteSet((DOMAIN journal) \X (1..Quantity))
  BY <1>0, <1>2, FS_Product
<1>4. KnownUnits(journal, at) \in SUBSET ((DOMAIN journal) \X (1..Quantity))
  BY <1>1
<1>5. IsFiniteSet(KnownUnits(journal, at))
  BY <1>3, <1>4, FS_Subset
<1>6. KnownUpTo(journal, at) \in Nat
  BY <1>5, FS_CardinalityType DEF KnownUpTo
<1> QED
  BY <1>1, <1>5, <1>6

\* apply_fill_snapshot adds nothing or the whole unit, and nothing if a
\* snapshot is ahead of the fills known so far.
LEMMA AppliedUnit ==
    ASSUME journal \in Seq(EventRecord), NEW i \in Nat
    PROVE  LET fill == [id |-> i, qty |-> 1, at |-> i]
               new == AppliedQuantity(journal, fill)
           IN /\ new \in {0, 1}
              /\ BestSnapshot(journal, i) > KnownUpTo(journal, i) => new = 0
<1> DEFINE fill == [id |-> i, qty |-> 1, at |-> i]
<1>1. fill.qty = 1 /\ fill.at = i
  OBVIOUS
<1>2. BestSnapshot(journal, i) \in Nat /\ KnownUpTo(journal, i) \in Nat
  <2>1. BestSnapshot(journal, i) \in 0..Quantity
    BY BestIs
  <2> QED
    BY <2>1, KnownIs, LifecycleAssumption
<1> HIDE DEF fill
<1> QED
  BY <1>1, <1>2 DEF fill, AppliedQuantity, CoveredBySnapshot, Larger, Smaller

----------------------------------------------------------------------------
(***************************************************************************)
(* What is written, and by whom.  Each step leaves the row and its journal *)
(* alone or is one of six writes, and each write replaces the row as it is *)
(* now: whatever copy it was computed from.                                *)
(***************************************************************************)
Wrote(kind, next, id, qty, at) ==
    /\ row' = next
    /\ journal' = Append(journal, Event(kind, row.status, next.status, id, qty, at))

Acked == [Reserved EXCEPT !.status = "SUBMITTED", !.bound = TRUE]
AckedUnknown == [Acked EXCEPT !.status = "UNKNOWN", !.last_error = "state"]

AckWrite ==
    /\ row = Reserved
    /\ Wrote("submitted", Acked, 0, 0, 0) \/ Wrote("state_unknown", AckedUnknown, 0, 0, 0)

UnknownWrite ==
    \E kind \in {"cancel_failed", "reconcile_account_unknown", "reconcile_order_missing",
                 "reconcile_status_unknown"}, error \in {"cancel", "account", "not_found", "status"} :
        Wrote(kind, [row EXCEPT !.status = "UNKNOWN", !.last_error = error,
                                !.updated_at = Now], 0, 0, 0)

CancelWrite ==
    \E c \in Cancellers :
        /\ cancel[c].pc = "guarded" /\ cancel[c].copy = row
        /\ Wrote("cancel_submitted",
                 [row EXCEPT !.status = "CANCEL_SUBMITTED", !.updated_at = Now], 0, 0, 0)

SnapshotWrite ==
    LET snap == worker.snap
        incoming == BrokerStatus(snap.code)
    IN /\ worker.pc = "read" /\ incoming # "Unknown"
       /\ Wrote("snapshot",
                [row EXCEPT !.status = StorageStatus(incoming, row.status), !.bound = TRUE,
                    !.code = snap.code, !.filled = FilledAfterSnapshot(snap.qty, row.filled),
                    !.last_error = "none", !.updated_at = Now],
                0, snap.qty, snap.qty)

UnitFill(i) == [id |-> i, qty |-> 1, at |-> i]

FillWrite ==
    LET i == Min(worker.todo)
        new == AppliedQuantity(journal, UnitFill(i))
    IN /\ worker.pc = "fill" /\ ~Journaled(journal, UnitFill(i))
       /\ Wrote("fill",
                [row EXCEPT !.status = FillStatus(row, new), !.bound = TRUE,
                    !.filled = row.filled + new, !.updated_at = Now, !.last_error = "none"],
                i, 1, i)

FeeWrite ==
    /\ worker.pc = "fee"
    /\ Wrote("fee", [row EXCEPT !.fees = TRUE, !.updated_at = Now], 0, 0, 0)

Write == AckWrite \/ UnknownWrite \/ CancelWrite \/ SnapshotWrite \/ FillWrite \/ FeeWrite

\* The fence lets only the current version through.
LEMMA FencePasses ==
    ASSUME NEW k, CopyOK(k), NEW revision, FenceHolds(k, revision)
    PROVE  k = row
  BY DEF CopyOK, FenceHolds

LEMMA UnknownStep ==
    ASSUME NEW k, CopyOK(k),
           NEW kind \in {"cancel_failed", "reconcile_account_unknown",
                         "reconcile_order_missing", "reconcile_status_unknown"},
           NEW error \in {"cancel", "account", "not_found", "status"},
           PersistUnknown(k, kind, error) \/ PersistUnknownIfNeeded(k, kind, error)
    PROVE  UNCHANGED <<row, journal>> \/ UnknownWrite
<1>1. CASE UNCHANGED <<row, journal>>
  BY <1>1
<1>2. CASE /\ FenceHolds(k, Revision)
           /\ Transition(k, [k EXCEPT !.status = "UNKNOWN", !.last_error = error,
                                      !.updated_at = Now], kind, 0, 0, 0)
  <2>1. k = row
    BY <1>2, FencePasses
  <2> QED
    BY <1>2, <2>1 DEF Transition, UnknownWrite, Wrote
<1> QED
  BY <1>1, <1>2 DEF PersistUnknown, PersistUnknownIfNeeded

\* Every step writes the row as it is now, or not at all.
LEMMA Steps ==
    ASSUME VersionInv, [Next]_vars
    PROVE  UNCHANGED <<row, journal>> \/ Write
<1>0. CopyOK(worker.copy) /\ \A c \in Cancellers : CopyOK(cancel[c].copy)
  BY DEF VersionInv
<1>1. CASE PlaceAck
  <2>1. ASSUME FenceHolds(Reserved, Revision) PROVE row = Reserved
    BY <2>1 DEF VersionInv, FenceHolds, Reserved
  <2>2. Reserved.status = "SUBMITTING"
    BY DEF Reserved
  <2>3. CASE UNCHANGED <<row, journal>>
    BY <2>3
  <2>4. CASE /\ FenceHolds(Reserved, Revision)
             /\ \/ Transition(Reserved, Acked, "submitted", 0, 0, 0)
                \/ Transition(Reserved, AckedUnknown, "state_unknown", 0, 0, 0)
    BY <2>1, <2>4 DEF Transition, Write, AckWrite, Wrote
  <2> QED
    BY <1>1, <2>3, <2>4 DEF PlaceAck, Acked, AckedUnknown
<1>2. ASSUME NEW c \in Cancellers, Cancel(c) PROVE UNCHANGED <<row, journal>> \/ Write
  <2>1. CASE CancelFence(c)
    <3>1. CASE FenceHolds(cancel[c].copy, cancel[c].revision)
      <4>1. cancel[c].copy = row
        BY <1>0, <3>1, FencePasses
      <4>2. Transition(row, [row EXCEPT !.status = "CANCEL_SUBMITTED", !.updated_at = Now],
                       "cancel_submitted", 0, 0, 0) /\ cancel[c].pc = "guarded"
        BY <2>1, <3>1, <4>1 DEF CancelFence
      <4> QED
        BY <4>1, <4>2 DEF Transition, Write, CancelWrite, Wrote
    <3> QED
      BY <2>1, <3>1 DEF CancelFence
  <2>2. CASE CancelFailed(c)
    BY <1>0, <2>2, UnknownStep DEF CancelFailed, Write
  <2> QED
    BY <1>2, <2>1, <2>2 DEF Cancel, CancelRead, CancelCheck, CancelCall, CancelAccepted
<1>3. CASE WorkerUndiscovered \/ WorkerMissing
  BY <1>0, <1>3, UnknownStep DEF WorkerUndiscovered, WorkerMissing, Write
<1>4. CASE WorkerApply
  <2> DEFINE snap == worker.snap
             incoming == BrokerStatus(snap.code)
             next == [worker.copy EXCEPT !.status = StorageStatus(incoming, worker.copy.status),
                        !.bound = TRUE, !.code = snap.code,
                        !.filled = FilledAfterSnapshot(snap.qty, worker.copy.filled),
                        !.last_error = "none"]
  <2>1. CASE PersistUnknownIfNeeded(worker.copy, "reconcile_status_unknown", "status")
    BY <1>0, <2>1, UnknownStep DEF Write
  <2>2. CASE /\ incoming # "Unknown" /\ FenceHolds(worker.copy, Revision)
             /\ Transition(worker.copy, [next EXCEPT !.updated_at = Now],
                           "snapshot", 0, snap.qty, snap.qty)
    <3>1. worker.copy = row
      BY <1>0, <2>2, FencePasses
    <3>2. worker.pc = "read"
      BY <1>4 DEF WorkerApply
    <3> QED
      BY <2>2, <3>1, <3>2 DEF Transition, Write, SnapshotWrite, Wrote
  <2> QED
    BY <1>4, <2>1, <2>2 DEF WorkerApply
<1>5. CASE WorkerFillApply
  <2> DEFINE i == Min(worker.todo)
             old == worker.copy
             new == AppliedQuantity(journal, UnitFill(i))
             next == [old EXCEPT !.status = FillStatus(old, new), !.bound = TRUE,
                        !.filled = @ + new, !.updated_at = Now, !.last_error = "none"]
  <2>1. CASE /\ ~Journaled(journal, UnitFill(i)) /\ FenceHolds(old, worker.revision)
             /\ Transition(old, next, "fill", i, 1, i)
    <3>1. old = row
      BY <1>0, <2>1, FencePasses
    <3>2. worker.pc = "fill"
      BY <1>5 DEF WorkerFillApply
    <3> QED
      BY <2>1, <3>1, <3>2 DEF Transition, Write, FillWrite, Wrote
  <2> QED
    BY <1>5, <2>1 DEF WorkerFillApply, UnitFill
<1>6. CASE WorkerFeeApply
  <2>1. CASE /\ FenceHolds(worker.copy, worker.revision)
             /\ Transition(worker.copy, [worker.copy EXCEPT !.fees = TRUE, !.updated_at = Now],
                           "fee", 0, 0, 0)
    <3>1. worker.copy = row
      BY <1>0, <2>1, FencePasses
    <3> QED
      BY <1>6, <2>1, <3>1 DEF WorkerFeeApply, Transition, Write, FeeWrite, Wrote
  <2> QED
    BY <1>6, <2>1 DEF WorkerFeeApply
<1>7. CASE Crash \/ WorkerReadFails \/ Broker \/ UNCHANGED vars
  BY <1>7 DEF Crash, WorkerReadFails, Broker, vars, BrokerAccepts, BrokerExecutes, BrokerEnds, BrokerForgets,
     BrokerCancels, CancelDropped
<1>8. CASE WorkerScan \/ WorkerRead \/ WorkerFills \/ WorkerFillRead \/ WorkerFillsDone
             \/ WorkerFees
  BY <1>8 DEF WorkerScan, WorkerRead, WorkerFills, WorkerFillRead, WorkerFillsDone, WorkerFees
<1> QED
  BY <1>1, <1>2, <1>3, <1>4, <1>5, <1>6, <1>7, <1>8 DEF Next, Worker

LEMMA Appended ==
    ASSUME journal \in Seq(EventRecord), NEW e \in EventRecord, journal' = Append(journal, e)
    PROVE  /\ journal' \in Seq(EventRecord)
           /\ Len(journal) \in Nat /\ Len(journal') = Len(journal) + 1
           /\ DOMAIN journal = 1..Len(journal) /\ DOMAIN journal' = 1..(Len(journal) + 1)
           /\ \A j \in DOMAIN journal : journal'[j] = journal[j]
           /\ journal'[Len(journal) + 1] = e
  BY AppendProperties, LenProperties

\* The statuses a broker code maps to.
LEMMA SnapStatus ==
    ASSUME NEW code \in SnapCode, BrokerStatus(code) # "Unknown", NEW status
    PROVE  /\ StorageStatus(BrokerStatus(code), status) \in LocalState
           /\ code # -1 /\ code \in BrokerCode
  BY DEF SnapCode, BrokerStatus, StorageStatus, LocalState, BrokerCode

LEMMA StoredRow ==
    /\ Reserved \in Row /\ Acked \in Row /\ AckedUnknown \in Row
    /\ Acked.status = "SUBMITTED" /\ AckedUnknown.status = "UNKNOWN"
    /\ Acked.bound = TRUE /\ AckedUnknown.bound = TRUE
    /\ \A r \in {Reserved, Acked, AckedUnknown} :
          r.updated_at = 0 /\ r.filled = 0 /\ r.fees = FALSE
<1>1. Reserved \in Row /\ Reserved.updated_at = 0 /\ Reserved.filled = 0 /\ Reserved.fees = FALSE
  BY DEF Reserved, Row, LocalState, BrokerCode, ErrorCode
<1>2. /\ Acked \in Row /\ Acked.status = "SUBMITTED" /\ Acked.bound = TRUE
      /\ Acked.updated_at = 0 /\ Acked.filled = 0 /\ Acked.fees = FALSE
  BY <1>1 DEF Acked, Row, LocalState, ErrorCode
<1>3. /\ AckedUnknown \in Row /\ AckedUnknown.status = "UNKNOWN" /\ AckedUnknown.bound = TRUE
      /\ AckedUnknown.updated_at = 0 /\ AckedUnknown.filled = 0 /\ AckedUnknown.fees = FALSE
  BY <1>2 DEF AckedUnknown, Row, LocalState, ErrorCode
<1> QED
  BY <1>1, <1>2, <1>3

\* The event a write appends.
EventOf(e) ==
    \/ /\ AckWrite \/ UnknownWrite \/ FeeWrite
       /\ e.kind \notin {"cancel_submitted", "snapshot", "fill"}
    \/ CancelWrite /\ e.kind = "cancel_submitted"
    \/ SnapshotWrite /\ e.kind = "snapshot" /\ e.qty = worker.snap.qty /\ e.at = e.qty
    \/ /\ FillWrite /\ e.kind = "fill" /\ e.id = Min(worker.todo)
       /\ e.qty = 1 /\ e.at = e.id

\* What every write has in common.
LEMMA WriteEffect ==
    ASSUME TypeInv, VersionInv, Write
    PROVE  /\ row' \in Row
           /\ \E e \in EventRecord :
                 /\ e.prev = row.status /\ e.next = row'.status
                 /\ journal' = Append(journal, e)
                 /\ EventOf(e)
           /\ \/ row'.updated_at = Len(journal) + 1
              \/ row = Reserved /\ row'.updated_at = 0 /\ row'.status # "SUBMITTING"
           /\ row.bound => row'.bound
           /\ row.fees => row'.fees
           /\ row'.filled >= row.filled
<1>0. /\ row \in Row /\ journal \in Seq(EventRecord) /\ Len(journal) \in Nat
      /\ worker \in WorkerRecord
  BY LenProperties DEF TypeInv, TypeOK, EventRecord, WorkerRecord, Snapshot
<1>1. /\ row.status \in LocalState /\ row.filled \in Nat /\ row.bound \in BOOLEAN
      /\ row.fees \in BOOLEAN /\ row.updated_at \in Nat
  BY <1>0 DEF Row
<1>2. Now \in Nat /\ Now = Len(journal) + 1 /\ Quantity \in Nat /\ 0 \in 0..Quantity /\ 1 \in 0..Quantity
  BY <1>0, LifecycleAssumption DEF Now, Revision
<1>3. ASSUME NEW kind \in EventKind, NEW next \in Row, NEW id \in 0..Quantity,
             NEW qty \in 0..Quantity, NEW at \in 0..Quantity, Wrote(kind, next, id, qty, at)
      PROVE  /\ row' = next
             /\ \E e \in EventRecord :
                   /\ e.prev = row.status /\ e.next = row'.status
                   /\ journal' = Append(journal, e)
                   /\ e.kind = kind /\ e.id = id /\ e.qty = qty /\ e.at = at
  <2> DEFINE e == Event(kind, row.status, next.status, id, qty, at)
  <2>1. next.status \in LocalState
    BY DEF Row
  <2>2. /\ e \in EventRecord /\ e.prev = row.status /\ e.next = next.status
        /\ e.kind = kind /\ e.id = id /\ e.qty = qty /\ e.at = at
    BY <1>1, <2>1 DEF Event, EventRecord
  <2> HIDE DEF e
  <2>3. row' = next /\ journal' = Append(journal, e)
    BY <1>3 DEF Wrote, e
  <2> QED
    BY <2>2, <2>3
<1>4. CASE AckWrite
  <2>1. /\ row = Reserved
        /\ row' \in {Acked, AckedUnknown}
        /\ \E e \in EventRecord :
              /\ e.prev = row.status /\ e.next = row'.status
              /\ journal' = Append(journal, e)
              /\ EventOf(e)
    BY <1>2, <1>3, <1>4, StoredRow DEF AckWrite, EventKind, EventOf
  <2>2. row' \in Row /\ row'.status \in {"SUBMITTED", "UNKNOWN"} /\ row'.bound = TRUE
    BY <2>1, StoredRow
  <2>3. row'.updated_at = 0 /\ row'.filled = 0 /\ row.filled = 0 /\ row.fees = FALSE
    BY <2>1, StoredRow
  <2> QED
    BY <2>1, <2>2, <2>3
<1>5. CASE UnknownWrite
  <2>1. PICK kind \in {"cancel_failed", "reconcile_account_unknown",
                       "reconcile_order_missing", "reconcile_status_unknown"},
             error \in {"cancel", "account", "not_found", "status"} :
          Wrote(kind, [row EXCEPT !.status = "UNKNOWN", !.last_error = error,
                                  !.updated_at = Now], 0, 0, 0)
    BY <1>5 DEF UnknownWrite
  <2> DEFINE next == [row EXCEPT !.status = "UNKNOWN", !.last_error = error, !.updated_at = Now]
  <2>2. /\ next \in Row /\ next.status = "UNKNOWN" /\ next.bound = row.bound
        /\ next.fees = row.fees /\ next.filled = row.filled /\ next.updated_at = Now
    BY <1>0, <1>2 DEF Row, LocalState, ErrorCode
  <2> HIDE DEF next
  <2>3. /\ kind \in EventKind /\ kind \notin {"cancel_submitted", "snapshot", "fill"}
        /\ Wrote(kind, next, 0, 0, 0)
    BY <2>1 DEF next, EventKind
  <2>4. /\ row' = next
        /\ \E e \in EventRecord :
              /\ e.prev = row.status /\ e.next = row'.status
              /\ journal' = Append(journal, e)
              /\ EventOf(e)
    <3>1. /\ row' = next
          /\ \E e \in EventRecord :
                /\ e.prev = row.status /\ e.next = row'.status
                /\ journal' = Append(journal, e)
                /\ e.kind = kind /\ e.id = 0 /\ e.qty = 0 /\ e.at = 0
      BY <1>2, <1>3, <2>2, <2>3
    <3> QED
      BY <1>5, <2>3, <3>1 DEF EventOf
  <2> QED
    BY <1>1, <1>2, <2>2, <2>4
<1>6. CASE CancelWrite
  <2> DEFINE next == [row EXCEPT !.status = "CANCEL_SUBMITTED", !.updated_at = Now]
  <2>2. /\ next \in Row /\ next.status = "CANCEL_SUBMITTED" /\ next.bound = row.bound
        /\ next.fees = row.fees /\ next.filled = row.filled /\ next.updated_at = Now
    BY <1>0, <1>2 DEF Row, LocalState, ErrorCode
  <2> HIDE DEF next
  <2>3. Wrote("cancel_submitted", next, 0, 0, 0)
    BY <1>6 DEF next, CancelWrite
  <2>4. /\ row' = next
        /\ \E e \in EventRecord :
              /\ e.prev = row.status /\ e.next = row'.status
              /\ journal' = Append(journal, e)
              /\ EventOf(e)
    <3>1. "cancel_submitted" \in EventKind
      BY DEF EventKind
    <3>2. /\ row' = next
          /\ \E e \in EventRecord :
                /\ e.prev = row.status /\ e.next = row'.status
                /\ journal' = Append(journal, e)
                /\ e.kind = "cancel_submitted" /\ e.id = 0 /\ e.qty = 0 /\ e.at = 0
      BY <1>2, <1>3, <2>2, <2>3, <3>1
    <3> QED
      BY <1>6, <3>2 DEF EventOf
  <2> QED
    BY <1>1, <1>2, <2>2, <2>4
<1>7. CASE SnapshotWrite
  <2> DEFINE snap == worker.snap
             status == StorageStatus(BrokerStatus(snap.code), row.status)
             filled == FilledAfterSnapshot(snap.qty, row.filled)
             next == [row EXCEPT !.status = status, !.bound = TRUE, !.code = snap.code,
                        !.filled = filled, !.last_error = "none", !.updated_at = Now]
  <2>1. /\ status \in LocalState /\ snap.code \in BrokerCode
        /\ Wrote("snapshot", next, 0, snap.qty, snap.qty)
    BY <1>7, SnapStatus DEF SnapshotWrite, VersionInv
  <2>2. snap.qty \in 0..Quantity
    BY <1>0 DEF WorkerRecord, Snapshot
  <2>3. filled \in Nat /\ filled >= row.filled
    BY <1>1, <1>2, <2>2 DEF FilledAfterSnapshot, Larger
  <2> HIDE DEF status, filled
  <2>4. /\ next \in Row /\ next.status = status /\ next.bound = TRUE
        /\ next.fees = row.fees /\ next.filled = filled /\ next.updated_at = Now
    BY <1>0, <1>2, <2>1, <2>3 DEF Row, ErrorCode
  <2> HIDE DEF next
  <2>5. /\ row' = next
        /\ \E e \in EventRecord :
              /\ e.prev = row.status /\ e.next = row'.status
              /\ journal' = Append(journal, e)
              /\ EventOf(e)
    <3>1. "snapshot" \in EventKind
      BY DEF EventKind
    <3>2. /\ row' = next
          /\ \E e \in EventRecord :
                /\ e.prev = row.status /\ e.next = row'.status
                /\ journal' = Append(journal, e)
                /\ e.kind = "snapshot" /\ e.id = 0 /\ e.qty = snap.qty /\ e.at = snap.qty
      BY <1>2, <1>3, <2>1, <2>2, <2>4, <3>1
    <3> QED
      BY <1>7, <3>2 DEF EventOf
  <2> QED
    BY <1>1, <1>2, <2>1, <2>3, <2>4, <2>5
<1>8. CASE FillWrite
  <2> DEFINE i == Min(worker.todo)
             new == AppliedQuantity(journal, UnitFill(i))
             status == FillStatus(row, new)
             next == [row EXCEPT !.status = status, !.bound = TRUE,
                        !.filled = row.filled + new, !.updated_at = Now, !.last_error = "none"]
  <2>1. worker.pc = "fill" /\ Wrote("fill", next, i, 1, i)
    BY <1>8 DEF FillWrite
  <2>2. worker.todo \in SUBSET (1..Quantity) /\ worker.todo # {}
    BY <1>0, <2>1 DEF TypeInv, InHand, WorkerRecord
  <2>3. i \in 1..Quantity
    <3>1. worker.todo \in SUBSET Nat
      BY <1>2, <2>2
    <3> QED
      BY <2>2, <3>1, MinIn
  <2>4. new \in {0, 1}
    BY <1>0, <1>2, <2>3, AppliedUnit DEF UnitFill
  <2> HIDE DEF i, new
  <2>6. status \in LocalState
    BY <1>1 DEF FillStatus, LocalState
  <2> HIDE DEF status
  <2>7. row.filled + new \in Nat /\ row.filled + new >= row.filled
    BY <1>1, <2>4
  <2>8. /\ next \in Row /\ next.status = status /\ next.bound = TRUE
        /\ next.fees = row.fees /\ next.filled = row.filled + new /\ next.updated_at = Now
    BY <1>0, <1>2, <2>6, <2>7 DEF Row, ErrorCode
  <2> HIDE DEF next
  <2>9. /\ row' = next
        /\ \E e \in EventRecord :
              /\ e.prev = row.status /\ e.next = row'.status
              /\ journal' = Append(journal, e)
              /\ EventOf(e)
    <3>1. /\ row' = next
          /\ \E e \in EventRecord :
                /\ e.prev = row.status /\ e.next = row'.status
                /\ journal' = Append(journal, e)
                /\ e.kind = "fill" /\ e.id = i /\ e.qty = 1 /\ e.at = i
      <4>1. "fill" \in EventKind /\ i \in 0..Quantity
        BY <1>2, <2>3 DEF EventKind
      <4> QED
        BY <1>2, <1>3, <2>1, <2>8, <4>1
    <3>2. i = Min(worker.todo)
      BY DEF i
    <3> QED
      BY <1>8, <3>1, <3>2 DEF EventOf
  <2> QED
    BY <1>1, <1>2, <2>6, <2>7, <2>8, <2>9
<1>9. CASE FeeWrite
  <2> DEFINE next == [row EXCEPT !.fees = TRUE, !.updated_at = Now]
  <2>1. worker.pc = "fee" /\ Wrote("fee", next, 0, 0, 0)
    BY <1>9 DEF FeeWrite
  <2>2. /\ next \in Row /\ next.status = row.status /\ next.bound = row.bound
        /\ next.fees = TRUE /\ next.filled = row.filled /\ next.updated_at = Now
    BY <1>0, <1>2 DEF Row
  <2> HIDE DEF next
  <2>4. /\ row' = next
        /\ \E e \in EventRecord :
              /\ e.prev = row.status /\ e.next = row'.status
              /\ journal' = Append(journal, e)
              /\ EventOf(e)
    <3>1. "fee" \in EventKind
      BY DEF EventKind
    <3>2. /\ row' = next
          /\ \E e \in EventRecord :
                /\ e.prev = row.status /\ e.next = row'.status
                /\ journal' = Append(journal, e)
                /\ e.kind = "fee" /\ e.id = 0 /\ e.qty = 0 /\ e.at = 0
      BY <1>2, <1>3, <2>1, <2>2, <3>1
    <3> QED
      BY <1>9, <3>2 DEF EventOf
  <2> QED
    BY <1>1, <1>2, <2>2, <2>4
<1> QED
  BY <1>4, <1>5, <1>6, <1>7, <1>8, <1>9 DEF Write

----------------------------------------------------------------------------
(* Type correctness. *)

LEMMA RowTyped ==
    ASSUME TypeInv, VersionInv, [Next]_vars
    PROVE  row' \in Row /\ journal' \in Seq(EventRecord)
<1>1. row \in Row /\ journal \in Seq(EventRecord)
  BY DEF TypeInv, TypeOK, EventRecord
<1>2. CASE UNCHANGED <<row, journal>>
  BY <1>1, <1>2
<1>3. CASE Write
  <2>1. row' \in Row
    BY <1>3, WriteEffect
  <2>2. PICK e \in EventRecord : journal' = Append(journal, e)
    BY <1>3, WriteEffect
  <2>3. journal' \in Seq(EventRecord)
    BY <1>1, <2>2, Appended
  <2> QED
    BY <2>1, <2>3
<1> QED
  BY <1>2, <1>3, Steps

\* The code the broker reports says how it settled the order, if it has.
LEMMA ReportedIs ==
    ASSUME broker \in BrokerRecord
    PROVE  /\ BrokerFilled => ReportedCode = 11
           /\ ~BrokerFilled /\ broker.state = "cancelled" => ReportedCode = 15
           /\ ~BrokerFilled /\ broker.state = "failed" => ReportedCode = 21
           /\ ~BrokerSettled => ReportedCode \in {1, 5, 10, 12}
<1>1. CASE BrokerFilled
  BY <1>1 DEF ReportedCode, BrokerSettled
<1>2. CASE ~BrokerFilled /\ broker.state = "cancelled"
  BY <1>2 DEF ReportedCode, BrokerSettled
<1>3. CASE ~BrokerFilled /\ broker.state = "failed"
  BY <1>3 DEF ReportedCode, BrokerSettled
<1>4. CASE ~BrokerFilled /\ broker.state = "cancelling"
  BY <1>4 DEF ReportedCode, BrokerSettled
<1>6. CASE ~BrokerFilled /\ broker.state = "pending"
  BY <1>6 DEF ReportedCode, BrokerSettled
<1>5. CASE ~BrokerFilled /\ broker.state = "live"
  <2>1. CASE broker.fills = 0
    BY <1>5, <2>1 DEF ReportedCode, BrokerSettled
  <2>2. CASE broker.fills # 0
    BY <1>5, <2>2 DEF ReportedCode, BrokerSettled
  <2> QED
    BY <1>5, <2>1, <2>2
<1> QED
  BY <1>1, <1>2, <1>3, <1>4, <1>5, <1>6 DEF BrokerRecord

LEMMA ReportedTyped ==
    ASSUME broker \in BrokerRecord
    PROVE  ReportedCode \in SnapCode /\ ReportedCode \in BrokerCode
<1>1. ReportedCode \in {1, 5, 10, 11, 12, 15, 21}
  BY ReportedIs DEF BrokerSettled
<1> QED
  BY <1>1 DEF SnapCode, BrokerCode

LEMMA IdleWorkerTyped ==
    ASSUME NEW todo \in SUBSET (1..Quantity), NEW pc \in WorkerPC
    PROVE  /\ IdleWorker \in WorkerRecord
           /\ [IdleWorker EXCEPT !.pc = pc] \in WorkerRecord
           /\ [IdleWorker EXCEPT !.pc = pc, !.todo = todo] \in WorkerRecord
<1>1. NoSnapshot \in Snapshot
  <2>1. -1 \in BrokerCode
    BY DEF BrokerCode
  <2>2. 0 \in 0..Quantity
    BY LifecycleAssumption
  <2> QED
    BY <2>1, <2>2 DEF NoSnapshot, Snapshot
<1>2. {} \in SUBSET (1..Quantity) /\ "idle" \in WorkerPC /\ 0 \in Nat
  BY DEF WorkerPC
<1>3. IdleWorker \in WorkerRecord
  BY <1>1, <1>2, StoredRow DEF IdleWorker, WorkerRecord
<1> QED
  BY <1>3 DEF WorkerRecord

\* What the worker's record becomes.
LEMMA WorkerTyped ==
    ASSUME TypeInv, [Next]_vars
    PROVE  worker' \in WorkerRecord /\ InHand'
<1>0. /\ worker \in WorkerRecord /\ row \in Row /\ broker.fills \in 0..Quantity
      /\ Revision \in Nat /\ journal \in Seq(EventRecord)
  BY LenProperties DEF TypeInv, TypeOK, WorkerRecord, Snapshot, EventRecord, Revision
<1>1. /\ IdleWorker \in WorkerRecord
      /\ \A pc \in WorkerPC : [IdleWorker EXCEPT !.pc = pc] \in WorkerRecord
  <2>1. {} \in SUBSET (1..Quantity) /\ "idle" \in WorkerPC
    BY DEF WorkerPC
  <2> QED
    BY <2>1, IdleWorkerTyped
<1>2. ASSUME EndPass PROVE worker' \in WorkerRecord /\ InHand'
  <2>1. worker' \in WorkerRecord
    BY <1>1, <1>2 DEF EndPass
  <2>2. InHand'
    BY <1>2 DEF EndPass, InHand, IdleWorker
  <2> QED
    BY <2>1, <2>2
<1>3. ASSUME NEW pc \in {"fills", "fees"}, Go(pc) PROVE worker' \in WorkerRecord /\ InHand'
  BY <1>1, <1>3 DEF Go, InHand, IdleWorker, WorkerPC
<1>4. CASE UNCHANGED worker
  BY <1>0, <1>4 DEF TypeInv, InHand
<1>5. CASE WorkerScan
  <2>1. PICK pc \in {"scanned", "undiscovered"} :
           worker' = [IdleWorker EXCEPT !.pc = pc, !.copy = row]
    BY <1>5 DEF WorkerScan
  <2>2. worker' \in WorkerRecord
    <3>1. IdleWorker \in WorkerRecord /\ row \in Row /\ pc \in WorkerPC
      BY <1>0, <1>1 DEF WorkerPC
    <3>2. [IdleWorker EXCEPT !.pc = pc, !.copy = row] \in WorkerRecord
      BY <3>1 DEF WorkerRecord
    <3> QED
      BY <2>1, <3>2
  <2>3. InHand'
    BY <2>1 DEF InHand, IdleWorker
  <2> QED
    BY <2>2, <2>3
<1>6. CASE WorkerRead
  <2>1. [code |-> ReportedCode, qty |-> broker.fills] \in Snapshot /\ NoSnapshot \in Snapshot
    <3>1. ReportedCode \in BrokerCode /\ -1 \in BrokerCode
      BY ReportedTyped DEF TypeInv, TypeOK, BrokerRecord, BrokerCode
    <3> QED
      BY <1>0, <3>1, LifecycleAssumption DEF Snapshot, NoSnapshot
  <2>2. CASE \E sn \in Snapshot : worker' = [worker EXCEPT !.pc = "read", !.snap = sn]
    BY <1>0, <2>2 DEF WorkerRecord, WorkerPC, InHand
  <2>3. CASE worker' = [worker EXCEPT !.pc = "missing"]
    BY <1>0, <2>3 DEF WorkerRecord, WorkerPC, InHand
  <2>4. CASE Go("fees")
    BY <1>3, <2>4
  <2> QED
    BY <1>6, <2>1, <2>2, <2>3, <2>4 DEF WorkerRead
<1>7. CASE WorkerUndiscovered \/ WorkerMissing \/ WorkerApply \/ WorkerFillsDone \/ WorkerFeeApply
             \/ WorkerReadFails
  BY <1>2, <1>3, <1>7 DEF WorkerUndiscovered, WorkerMissing, WorkerApply, WorkerFillsDone,
     WorkerFeeApply, WorkerReadFails
<1>8. CASE WorkerFills
  <2>1. PICK seen \in SUBSET (1..broker.fills) :
           worker' = [worker EXCEPT !.pc = "apply", !.todo = seen]
    BY <1>8 DEF WorkerFills
  <2>2. seen \in SUBSET (1..Quantity)
    BY <1>0, LifecycleAssumption
  <2> QED
    BY <1>0, <2>1, <2>2 DEF WorkerRecord, WorkerPC, InHand
<1>9. CASE WorkerFillRead
  BY <1>0, <1>9 DEF WorkerFillRead, WorkerRecord, WorkerPC, InHand
<1>10. CASE WorkerFillApply
  <2>1. CASE EndPass
    BY <1>2, <2>1
  <2>2. CASE \E i : NextFill(i)
    <3>1. PICK i : NextFill(i)
      BY <2>2
    <3>2. worker.todo \ {i} \in SUBSET (1..Quantity)
      BY <1>0 DEF WorkerRecord
    <3>3. worker' \in WorkerRecord
      BY <3>1, <3>2, IdleWorkerTyped DEF NextFill, WorkerPC
    <3> QED
      BY <3>1, <3>3 DEF NextFill, IdleWorker, InHand
  <2> QED
    BY <1>10, <2>1, <2>2 DEF WorkerFillApply
<1>11. CASE WorkerFees
  <2>1. CASE worker' = [worker EXCEPT !.pc = "fee", !.copy = row, !.revision = Revision]
    BY <1>0, <2>1 DEF WorkerRecord, WorkerPC, InHand
  <2> QED
    BY <1>2, <1>11, <2>1 DEF WorkerFees
<1>12. CASE Crash
  BY <1>1, <1>12 DEF Crash, InHand, IdleWorker
<1>13. UNCHANGED worker \/ Crash \/ WorkerReadFails \/ Worker
  BY DEF Next, PlaceAck, Broker, BrokerAccepts, BrokerExecutes, BrokerEnds, BrokerForgets, BrokerCancels,
     CancelDropped, Cancel, CancelRead, CancelCheck, CancelFence, CancelCall, CancelAccepted,
     CancelFailed, vars
<1> QED
  BY <1>4, <1>5, <1>6, <1>7, <1>8, <1>9, <1>10, <1>11, <1>12, <1>13 DEF Worker

\* The cancel handlers' records.
LEMMA CancelTyped ==
    ASSUME TypeInv, [Next]_vars
    PROVE  cancel' \in [Cancellers -> CancelRecord]
<1>0. cancel \in [Cancellers -> CancelRecord] /\ row \in Row /\ Revision \in Nat
  BY LenProperties DEF TypeInv, TypeOK, CancelRecord, Revision
<1>1. Finished \in CancelRecord
  BY StoredRow DEF Finished, CancelRecord, CancelPC
<1>2. CASE UNCHANGED cancel
  BY <1>0, <1>2
<1>3. CASE Crash
  BY <1>0, <1>1, <1>3 DEF Crash
<1>4. ASSUME NEW c \in Cancellers, Cancel(c) PROVE cancel' \in [Cancellers -> CancelRecord]
  <2>0. cancel[c] \in CancelRecord /\ cancel[c].copy \in Row
    BY <1>0 DEF CancelRecord
  <2>1. CASE cancel' = [cancel EXCEPT ![c] = Finished]
    BY <1>0, <1>1, <2>1
  <2>2. CASE CancelRead(c)
    BY <1>0, <2>2 DEF CancelRead, CancelRecord, CancelPC
  <2>3. CASE cancel' = [cancel EXCEPT ![c].pc = "guarded", ![c].revision = Revision]
    BY <1>0, <2>0, <2>3 DEF CancelRecord, CancelPC
  <2>4. CASE cancel' = [cancel EXCEPT ![c].pc = "calling"]
    BY <1>0, <2>0, <2>4 DEF CancelRecord, CancelPC
  <2>5. CASE cancel' = [cancel EXCEPT ![c].pc = "fenced",
               ![c].copy = [cancel[c].copy EXCEPT !.status = "CANCEL_SUBMITTED", !.updated_at = Now]]
    <3>1. Now \in Nat
      BY <1>0 DEF Now
    <3>2. [cancel[c].copy EXCEPT !.status = "CANCEL_SUBMITTED", !.updated_at = Now] \in Row
      BY <2>0, <3>1 DEF Row, LocalState
    <3> QED
      BY <1>0, <2>0, <2>5, <3>2 DEF CancelRecord, CancelPC
  <2> QED
    BY <1>4, <2>1, <2>2, <2>3, <2>4, <2>5 DEF Cancel, CancelCheck, CancelFence, CancelCall,
       CancelAccepted, CancelFailed
<1>5. UNCHANGED cancel \/ Crash \/ \E c \in Cancellers : Cancel(c)
  BY DEF Next, PlaceAck, WorkerReadFails, Broker, BrokerAccepts, BrokerExecutes, BrokerEnds, BrokerForgets,
     BrokerCancels, CancelDropped, Worker, WorkerScan, WorkerUndiscovered, WorkerRead,
     WorkerMissing, WorkerApply, WorkerFills, WorkerFillRead, WorkerFillApply, WorkerFillsDone,
     WorkerFees, WorkerFeeApply, vars
<1> QED
  BY <1>2, <1>3, <1>4, <1>5

\* The broker fills one unit at a time, and not after it has settled.
LEMMA BrokerStep ==
    ASSUME TypeInv, [Next]_vars
    PROVE  /\ broker' \in BrokerRecord
           /\ broker'.fills >= broker.fills
           /\ BrokerSettled => broker'.fills = broker.fills /\ broker'.state = broker.state
<1>0. broker \in BrokerRecord
  BY DEF TypeInv, TypeOK, BrokerRecord
<1>1. CASE BrokerExecutes
  <2>1. broker.fills + 1 \in 0..Quantity
    BY <1>0, <1>1, LifecycleAssumption DEF BrokerExecutes, BrokerSettled, BrokerFilled, BrokerRecord
  <2> QED
    BY <1>0, <1>1, <2>1 DEF BrokerExecutes, BrokerRecord
<1>2. CASE BrokerEnds
  BY <1>0, <1>2, LifecycleAssumption DEF BrokerEnds, BrokerRecord
<1>7. CASE BrokerAccepts
  <2>1. broker' = [broker EXCEPT !.state = "live"] /\ ~BrokerSettled
    BY <1>7 DEF BrokerAccepts
  <2>2. broker' \in BrokerRecord /\ broker'.fills = broker.fills
    BY <1>0, <2>1 DEF BrokerRecord
  <2>3. broker.fills >= broker.fills
    BY <1>0, LifecycleAssumption DEF BrokerRecord
  <2> QED
    BY <2>1, <2>2, <2>3
<1>3. CASE BrokerForgets
  <2>1. broker' = [broker EXCEPT !.listed = FALSE]
    BY <1>3 DEF BrokerForgets
  <2>2. broker' \in BrokerRecord
    BY <1>0, <2>1 DEF BrokerRecord
  <2>3. broker'.fills = broker.fills /\ broker'.state = broker.state
    BY <1>0, <2>1 DEF BrokerRecord
  <2>4. broker.fills >= broker.fills
    BY <1>0, LifecycleAssumption DEF BrokerRecord
  <2> QED
    BY <2>2, <2>3, <2>4
<1>4. ASSUME NEW c \in Cancellers, BrokerCancels(c)
      PROVE  /\ broker' \in BrokerRecord
             /\ broker'.fills >= broker.fills
             /\ BrokerSettled => broker'.fills = broker.fills /\ broker'.state = broker.state
  BY <1>0, <1>4, LifecycleAssumption DEF BrokerCancels, BrokerRecord
<1>5. CASE UNCHANGED broker
  BY <1>0, <1>5, LifecycleAssumption DEF BrokerRecord
<1>6. \/ UNCHANGED broker \/ BrokerAccepts \/ BrokerExecutes \/ BrokerEnds \/ BrokerForgets
      \/ \E c \in Cancellers : BrokerCancels(c)
  BY DEF Next, PlaceAck, WorkerReadFails, Crash, Broker, CancelDropped,
     Worker, WorkerScan, WorkerUndiscovered, WorkerRead,
     WorkerMissing, WorkerApply, WorkerFills, WorkerFillRead, WorkerFillApply, WorkerFillsDone,
     WorkerFees, WorkerFeeApply, Cancel, CancelRead, CancelCheck, CancelFence, CancelCall,
     CancelAccepted, CancelFailed, vars
<1> QED
  BY <1>1, <1>2, <1>3, <1>4, <1>5, <1>6, <1>7

LEMMA RestTyped ==
    ASSUME TypeInv, [Next]_vars
    PROVE  /\ ack' \in BOOLEAN /\ inflight' \in BOOLEAN /\ wire' \subseteq Cancellers
           /\ faults' \in 0..MaxFaults /\ crashes' \in 0..MaxCrashes
<1>0. /\ ack \in BOOLEAN /\ inflight \in BOOLEAN /\ wire \subseteq Cancellers
      /\ faults \in 0..MaxFaults /\ crashes \in 0..MaxCrashes
  BY DEF TypeInv, TypeOK
<1>1. ack' \in BOOLEAN /\ inflight' \in BOOLEAN
  BY <1>0 DEF Next, PlaceAck, WorkerReadFails, Crash, Broker, BrokerAccepts, BrokerExecutes, BrokerEnds,
     BrokerForgets, BrokerCancels, CancelDropped, Worker, WorkerScan, WorkerUndiscovered, WorkerRead,
     WorkerMissing, WorkerApply, WorkerFills, WorkerFillRead, WorkerFillApply, WorkerFillsDone,
     WorkerFees, WorkerFeeApply, Cancel, CancelRead, CancelCheck, CancelFence, CancelCall,
     CancelAccepted, CancelFailed, vars, AcquireInFlight, DropInFlight
<1>2. wire' \subseteq Cancellers
  BY <1>0 DEF Next, PlaceAck, WorkerReadFails, Crash, Broker, BrokerAccepts, BrokerExecutes, BrokerEnds,
     BrokerForgets, BrokerCancels, CancelDropped, Worker, WorkerScan, WorkerUndiscovered, WorkerRead,
     WorkerMissing, WorkerApply, WorkerFills, WorkerFillRead, WorkerFillApply, WorkerFillsDone,
     WorkerFees, WorkerFeeApply, Cancel, CancelRead, CancelCheck, CancelFence, CancelCall,
     CancelAccepted, CancelFailed, vars
<1>3. faults' = faults \/ (faults < MaxFaults /\ faults' = faults + 1)
  BY DEF Next, PlaceAck, WorkerReadFails, Crash, Broker, BrokerAccepts, BrokerExecutes, BrokerEnds,
     BrokerForgets, BrokerCancels, CancelDropped, Worker, WorkerScan, WorkerUndiscovered, WorkerRead,
     WorkerMissing, WorkerApply, WorkerFills, WorkerFillRead, WorkerFillApply, WorkerFillsDone,
     WorkerFees, WorkerFeeApply, Cancel, CancelRead, CancelCheck, CancelFence, CancelCall,
     CancelAccepted, CancelFailed, vars
<1>4. crashes' = crashes \/ (crashes < MaxCrashes /\ crashes' = crashes + 1)
  BY DEF Next, PlaceAck, WorkerReadFails, Crash, Broker, BrokerAccepts, BrokerExecutes, BrokerEnds,
     BrokerForgets, BrokerCancels, CancelDropped, Worker, WorkerScan, WorkerUndiscovered, WorkerRead,
     WorkerMissing, WorkerApply, WorkerFills, WorkerFillRead, WorkerFillApply, WorkerFillsDone,
     WorkerFees, WorkerFeeApply, Cancel, CancelRead, CancelCheck, CancelFence, CancelCall,
     CancelAccepted, CancelFailed, vars
<1> QED
  BY <1>0, <1>1, <1>2, <1>3, <1>4, LifecycleAssumption

LEMMA TypeInit == Init => TypeInv
<1> SUFFICES ASSUME Init PROVE TypeInv
  OBVIOUS
<1>1. row \in Row /\ journal \in Seq(EventRecord)
  <2>1. <<>> \in Seq(EventRecord)
    OBVIOUS
  <2> QED
    BY <2>1, StoredRow DEF Init
<1>2. broker \in BrokerRecord
  BY LifecycleAssumption DEF Init, BrokerRecord
<1>3. [pc |-> "idle", copy |-> Reserved, revision |-> 0] \in CancelRecord
  BY StoredRow DEF CancelRecord, CancelPC
<1>4. cancel \in [Cancellers -> CancelRecord]
  BY <1>3 DEF Init
<1>5. IdleWorker \in WorkerRecord
  <2>1. {} \in SUBSET (1..Quantity) /\ "idle" \in WorkerPC
    BY DEF WorkerPC
  <2> QED
    BY <2>1, IdleWorkerTyped
<1>6. worker \in WorkerRecord /\ InHand
  <2>1. worker \in WorkerRecord
    BY <1>5 DEF Init
  <2>2. InHand
    BY DEF Init, InHand, IdleWorker
  <2> QED
    BY <2>1, <2>2
<1>7. ack \in BOOLEAN /\ inflight \in BOOLEAN /\ wire \subseteq Cancellers
  BY DEF Init
<1>8. faults \in 0..MaxFaults /\ crashes \in 0..MaxCrashes
  BY LifecycleAssumption DEF Init
<1> QED
  BY <1>1, <1>2, <1>4, <1>6, <1>7, <1>8 DEF TypeInv, TypeOK, EventRecord, BrokerRecord, CancelRecord,
     WorkerRecord, Snapshot

LEMMA TypeStep ==
    ASSUME TypeInv, VersionInv, [Next]_vars
    PROVE  TypeInv'
<1>1. row' \in Row /\ journal' \in Seq(EventRecord)
  BY RowTyped
<1>2. broker' \in BrokerRecord
  BY BrokerStep
<1>3. cancel' \in [Cancellers -> CancelRecord]
  BY CancelTyped
<1>4. worker' \in WorkerRecord /\ InHand'
  BY WorkerTyped
<1>5. /\ ack' \in BOOLEAN /\ inflight' \in BOOLEAN /\ wire' \subseteq Cancellers
      /\ faults' \in 0..MaxFaults /\ crashes' \in 0..MaxCrashes
  BY RestTyped
<1> QED
  BY <1>1, <1>2, <1>3, <1>4, <1>5 DEF TypeInv, TypeOK, EventRecord, BrokerRecord, CancelRecord,
     WorkerRecord, Snapshot

----------------------------------------------------------------------------
(* The versions of the row. *)

\* CopyOK(k) after the step, for a k that the step leaves alone.
CopyAfter(k) ==
    /\ k.updated_at <= Len(journal')
    /\ k.status = "SUBMITTING" /\ k.updated_at = 0 => k = Reserved
    /\ row' = Reserved => k = Reserved
    /\ k.updated_at = row'.updated_at /\ (k.status = row'.status \/ k.updated_at > 0) => k = row'

LEMMA RowVersion ==
    ASSUME TypeInv, VersionInv, [Next]_vars
    PROVE  /\ row'.status = "SUBMITTING" /\ row'.updated_at = 0 => row' = Reserved
           /\ Len(journal') = 0 => row' = Reserved
           /\ row'.updated_at <= Len(journal')
           /\ CopyAfter(Reserved) /\ CopyAfter(row')
           /\ \A k \in Row : CopyOK(k) => CopyAfter(k)
<1>0. /\ row \in Row /\ journal \in Seq(EventRecord) /\ Len(journal) \in Nat
      /\ row.updated_at \in Nat
  BY LenProperties DEF TypeInv, TypeOK, EventRecord, Row
<1>1. row' \in Row /\ row'.updated_at \in Nat
  BY RowTyped DEF Row
<1>2. /\ row'.status = "SUBMITTING" /\ row'.updated_at = 0 => row' = Reserved
      /\ Len(journal') = 0 => row' = Reserved
      /\ row'.updated_at <= Len(journal')
      /\ \A k \in Row : CopyOK(k) => CopyAfter(k)
      /\ Len(journal') \in Nat
  <2>1. CASE UNCHANGED <<row, journal>>
    BY <1>0, <2>1 DEF VersionInv, CopyOK, CopyAfter
  <2>2. CASE Write
    <3>1. \/ row'.updated_at = Len(journal) + 1
          \/ row = Reserved /\ row'.updated_at = 0 /\ row'.status # "SUBMITTING"
      BY <2>2, WriteEffect
    <3>5. Reserved.updated_at = 0 /\ Reserved.status = "SUBMITTING"
      BY DEF Reserved
    <3>2. PICK e \in EventRecord : journal' = Append(journal, e)
      BY <2>2, WriteEffect
    <3>3. Len(journal') = Len(journal) + 1
      BY <1>0, <3>2, Appended
    <3>4. ASSUME NEW k \in Row, CopyOK(k) PROVE CopyAfter(k)
      <4>0. k.updated_at \in Nat /\ k.updated_at <= Len(journal)
        BY <3>4 DEF Row, CopyOK
      <4>1. CASE row'.updated_at = Len(journal) + 1
        BY <1>0, <3>3, <3>4, <3>5, <4>0, <4>1 DEF CopyOK, CopyAfter
      <4>2. CASE row = Reserved /\ row'.updated_at = 0 /\ row'.status # "SUBMITTING"
        <5>1. k = Reserved
          BY <3>4, <4>2 DEF CopyOK
        <5> QED
          BY <1>0, <3>3, <3>5, <4>2, <5>1 DEF CopyAfter
      <4> QED
        BY <3>1, <4>1, <4>2
    <3> QED
      BY <1>0, <3>1, <3>3, <3>4, <3>5
  <2> QED
    BY <2>1, <2>2, Steps
<1>3. CopyAfter(Reserved)
  <2>1. Reserved.updated_at = 0 /\ Reserved.status = "SUBMITTING"
    BY DEF Reserved
  <2> QED
    BY <1>2, <2>1 DEF CopyAfter
<1>4. CopyAfter(row')
  BY <1>2 DEF CopyAfter
<1> QED
  BY <1>2, <1>3, <1>4

\* A copy is kept, dropped, or the row after the step.
LEMMA CancelCopies ==
    ASSUME TypeInv, VersionInv, [Next]_vars, NEW c \in Cancellers
    PROVE  cancel'[c].copy \in {cancel[c].copy, Reserved, row'}
<1>0. cancel \in [Cancellers -> CancelRecord] /\ Finished.copy = Reserved
  BY DEF TypeInv, TypeOK, CancelRecord, Finished
<1>1. CASE UNCHANGED cancel
  BY <1>1
<1>2. CASE Crash
  BY <1>0, <1>2 DEF Crash
<1>3. ASSUME NEW d \in Cancellers, Cancel(d)
      PROVE  cancel'[c].copy \in {cancel[c].copy, Reserved, row'}
  <2>0. cancel[d] \in CancelRecord
    BY <1>0
  <2>1. CASE c # d
    BY <1>0, <1>3, <2>1 DEF Cancel, CancelRead, CancelCheck, CancelFence, CancelCall,
       CancelAccepted, CancelFailed
  <2>2. CASE c = d /\ cancel' = [cancel EXCEPT ![d] = Finished]
    BY <1>0, <2>2
  <2>3. CASE c = d /\ CancelRead(d)
    BY <1>0, <2>3 DEF CancelRead
  <2>4. CASE c = d /\ cancel' = [cancel EXCEPT ![d].pc = "guarded", ![d].revision = Revision]
    BY <1>0, <2>0, <2>4 DEF CancelRecord
  <2>5. CASE c = d /\ cancel' = [cancel EXCEPT ![d].pc = "calling"]
    BY <1>0, <2>0, <2>5 DEF CancelRecord
  <2>6. CASE c = d /\ CancelFence(d) /\ FenceHolds(cancel[d].copy, cancel[d].revision)
    <3> DEFINE next == [cancel[d].copy EXCEPT !.status = "CANCEL_SUBMITTED", !.updated_at = Now]
    <3>1. row' = next /\ cancel' = [cancel EXCEPT ![d].pc = "fenced", ![d].copy = next]
      BY <2>6 DEF CancelFence, Transition
    <3> HIDE DEF next
    <3> QED
      BY <1>0, <2>0, <2>6, <3>1 DEF CancelRecord
  <2> QED
    BY <1>3, <2>1, <2>2, <2>3, <2>4, <2>5, <2>6 DEF Cancel, CancelCheck, CancelFence, CancelCall,
       CancelAccepted, CancelFailed
<1>4. UNCHANGED cancel \/ Crash \/ \E d \in Cancellers : Cancel(d)
  BY DEF Next, PlaceAck, WorkerReadFails, Broker, BrokerAccepts, BrokerExecutes, BrokerEnds, BrokerForgets,
     BrokerCancels, CancelDropped, Worker, WorkerScan, WorkerUndiscovered, WorkerRead,
     WorkerMissing, WorkerApply, WorkerFills, WorkerFillRead, WorkerFillApply, WorkerFillsDone,
     WorkerFees, WorkerFeeApply, vars
<1> QED
  BY <1>1, <1>2, <1>3, <1>4

\* The worker's copy likewise; its snapshot carries a code the broker reports.
LEMMA WorkerVersion ==
    ASSUME TypeInv, VersionInv, [Next]_vars
    PROVE  /\ worker'.copy \in {worker.copy, Reserved, row'}
           /\ worker'.snap.code \in SnapCode
<1>0. /\ worker \in WorkerRecord /\ CopyOK(worker.copy) /\ worker.snap.code \in SnapCode
  BY DEF TypeInv, TypeOK, WorkerRecord, Snapshot, VersionInv
<1>1. /\ IdleWorker.copy = Reserved /\ IdleWorker.pc = "idle" /\ IdleWorker.snap = NoSnapshot
      /\ NoSnapshot.code = -1 /\ -1 \in SnapCode
      /\ \A pc : [IdleWorker EXCEPT !.pc = pc].copy = Reserved
                    /\ [IdleWorker EXCEPT !.pc = pc].pc = pc
                    /\ [IdleWorker EXCEPT !.pc = pc].snap = NoSnapshot
  BY DEF IdleWorker, NoSnapshot, SnapCode
<1> DEFINE Goal == /\ worker'.copy \in {worker.copy, Reserved, row'}
                           /\ worker'.snap.code \in SnapCode
<1>2. ASSUME EndPass PROVE Goal
  BY <1>1, <1>2 DEF EndPass
<1>3. ASSUME NEW pc, Go(pc) PROVE Goal
  BY <1>1, <1>3 DEF Go
<1>4. CASE UNCHANGED worker
  BY <1>0, <1>4
<1>5. CASE WorkerScan
  <2>1. PICK pc \in {"scanned", "undiscovered"} :
           worker' = [IdleWorker EXCEPT !.pc = pc, !.copy = row]
    BY <1>5 DEF WorkerScan
  <2>2. worker'.copy = row /\ worker'.pc = pc /\ worker'.snap = NoSnapshot /\ row' = row
    BY <1>5, <2>1 DEF WorkerScan, IdleWorker
  <2> QED
    BY <1>1, <2>2
<1>6. CASE WorkerRead
  <2>1. CASE \E sn : worker' = [worker EXCEPT !.pc = "read", !.snap = sn] /\ sn.code \in SnapCode
    BY <1>0, <2>1 DEF WorkerRecord
  <2>2. CASE worker' = [worker EXCEPT !.pc = "missing"]
    BY <1>0, <2>2 DEF WorkerRecord
  <2>3. CASE Go("fees")
    BY <1>3, <2>3
  <2>4. ReportedCode \in SnapCode
    BY ReportedTyped DEF TypeInv, TypeOK, BrokerRecord
  <2> DEFINE fresh == [code |-> ReportedCode, qty |-> broker.fills]
  <2>5. fresh.code \in SnapCode /\ NoSnapshot.code \in SnapCode
    BY <1>1, <2>4
  <2> HIDE DEF fresh
  <2>6. \/ worker' = [worker EXCEPT !.pc = "read", !.snap = fresh]
        \/ worker' = [worker EXCEPT !.pc = "read", !.snap = NoSnapshot]
        \/ worker' = [worker EXCEPT !.pc = "missing"]
        \/ Go("fees")
    BY <1>6 DEF WorkerRead, fresh
  <2> QED
    BY <2>1, <2>2, <2>3, <2>5, <2>6
<1>7. CASE WorkerUndiscovered \/ WorkerMissing \/ WorkerFeeApply \/ WorkerReadFails
  BY <1>2, <1>7 DEF WorkerUndiscovered, WorkerMissing, WorkerFeeApply, WorkerReadFails
<1>8. CASE WorkerApply
  BY <1>2, <1>3, <1>8 DEF WorkerApply
<1>9. CASE WorkerFills
  <2>1. PICK seen : worker' = [worker EXCEPT !.pc = "apply", !.todo = seen]
    BY <1>9 DEF WorkerFills
  <2>2. worker'.copy = worker.copy /\ worker'.snap = worker.snap /\ worker.pc = "fills"
    BY <1>0, <1>9, <2>1 DEF WorkerRecord, WorkerFills
  <2> QED
    BY <1>0, <2>2
<1>10. CASE WorkerFillRead
  <2>1. worker'.copy = row /\ worker'.snap = worker.snap /\ worker.pc = "apply" /\ row' = row
    BY <1>0, <1>10 DEF WorkerRecord, WorkerFillRead
  <2> QED
    BY <1>0, <2>1
<1>11. CASE WorkerFillApply
  <2>1. worker.pc = "fill" /\ (EndPass \/ \E i : NextFill(i))
    BY <1>11 DEF WorkerFillApply
  <2>2. CASE \E i : NextFill(i)
    <3>1. worker'.copy = Reserved /\ worker'.snap = NoSnapshot
      BY <2>2 DEF NextFill, IdleWorker
    <3> QED
      BY <1>0, <1>1, <2>1, <3>1
  <2> QED
    BY <1>2, <2>1, <2>2
<1>12. CASE WorkerFillsDone
  <2>1. worker.pc = "apply" /\ (EndPass \/ Go("fees"))
    BY <1>12 DEF WorkerFillsDone
  <2> QED
    BY <1>0, <1>2, <1>3, <2>1
<1>13. CASE WorkerFees
  <2>1. CASE worker' = [worker EXCEPT !.pc = "fee", !.copy = row, !.revision = Revision]
    <3>1. worker'.copy = row /\ worker'.snap = worker.snap /\ worker.pc = "fees" /\ row' = row
      BY <1>0, <1>13, <2>1 DEF WorkerRecord, WorkerFees
    <3> QED
      BY <1>0, <3>1
  <2> QED
    BY <1>2, <1>13, <2>1 DEF WorkerFees
<1>14. CASE Crash
  BY <1>2, <1>14 DEF Crash, EndPass
<1>15. UNCHANGED worker \/ Crash \/ WorkerReadFails \/ Worker
  BY DEF Next, PlaceAck, Broker, BrokerAccepts, BrokerExecutes, BrokerEnds, BrokerForgets, BrokerCancels,
     CancelDropped, Cancel, CancelRead, CancelCheck, CancelFence, CancelCall, CancelAccepted,
     CancelFailed, vars
<1> QED
  BY <1>4, <1>5, <1>6, <1>7, <1>8, <1>9, <1>10, <1>11, <1>12, <1>13, <1>14, <1>15 DEF Worker

LEMMA VersionInit == Init => VersionInv
<1> SUFFICES ASSUME Init PROVE VersionInv
  OBVIOUS
<1>1. row = Reserved /\ Len(journal) = 0 /\ Reserved.updated_at = 0
      /\ Reserved.status = "SUBMITTING"
  BY DEF Init, Reserved
<1>2. CopyOK(Reserved)
  BY <1>1 DEF CopyOK
<1>3. worker.copy = Reserved /\ worker.pc = "idle" /\ worker.snap.code = -1
  BY DEF Init, IdleWorker, NoSnapshot
<1>4. \A c \in Cancellers : cancel[c].copy = Reserved
  BY DEF Init
<1> QED
  BY <1>1, <1>2, <1>3, <1>4 DEF VersionInv, SnapCode

LEMMA VersionStep ==
    ASSUME TypeInv, VersionInv, [Next]_vars
    PROVE  VersionInv'
<1>1. /\ row'.status = "SUBMITTING" /\ row'.updated_at = 0 => row' = Reserved
      /\ Len(journal') = 0 => row' = Reserved
      /\ row'.updated_at <= Len(journal')
      /\ CopyAfter(Reserved) /\ CopyAfter(row')
      /\ \A k \in Row : CopyOK(k) => CopyAfter(k)
  BY RowVersion
<1>2. ASSUME NEW c \in Cancellers PROVE CopyOK(cancel[c].copy)'
  <2>1. cancel[c].copy \in Row /\ CopyOK(cancel[c].copy)
    BY DEF TypeInv, TypeOK, VersionInv
  <2>2. CopyAfter(cancel'[c].copy)
    BY <1>1, <2>1, CancelCopies
  <2> QED
    BY <2>2 DEF CopyAfter, CopyOK
<1>3. CopyOK(worker.copy)'
  <2>1. worker.copy \in Row /\ CopyOK(worker.copy)
    BY DEF TypeInv, TypeOK, VersionInv
  <2>2. CopyAfter(worker'.copy)
    BY <1>1, <2>1, WorkerVersion
  <2> QED
    BY <2>2 DEF CopyAfter, CopyOK
<1>4. worker'.snap.code \in SnapCode
  BY WorkerVersion
<1> QED
  BY <1>1, <1>2, <1>3, <1>4 DEF VersionInv

(***************************************************************************)
(* Types, and the versions: a copy that passes the fence of                *)
(* transition_order_and_event_fenced is the row as it is now.              *)
(***************************************************************************)
THEOREM Versions == Spec => [](TypeInv /\ VersionInv)
<1>1. Init => TypeInv /\ VersionInv
  BY TypeInit, VersionInit
<1>2. TypeInv /\ VersionInv /\ [Next]_vars => (TypeInv /\ VersionInv)'
  BY TypeStep, VersionStep
<1> QED
  BY <1>1, <1>2, PTL DEF Spec

\* Every variable of the order's life keeps its type.
THEOREM TypeCorrect == Spec => []TypeOK
<1>1. TypeInv => TypeOK
  BY DEF TypeInv
<1> QED
  BY <1>1, Versions, PTL

(***************************************************************************)
(* No write loses the broker identity, the fees or a filled unit, however  *)
(* old the copy it was computed from.                                      *)
(***************************************************************************)
THEOREM NothingIsLost == Spec => NothingLost
<1>1. ASSUME TypeInv, VersionInv, [Next]_vars
      PROVE  /\ row.bound => row'.bound
             /\ row.fees => row'.fees
             /\ row'.filled >= row.filled
  <2>1. CASE Write
    BY <1>1, <2>1, WriteEffect
  <2>2. CASE UNCHANGED <<row, journal>>
    <3>1. row.filled \in Nat
      BY <1>1 DEF TypeInv, TypeOK, Row
    <3> QED
      BY <2>2, <3>1
  <2> QED
    BY <1>1, <2>1, <2>2, Steps
<1>2. TypeInv /\ VersionInv /\ [Next]_vars =>
        [/\ row.bound => row'.bound
         /\ row.fees => row'.fees
         /\ row'.filled >= row.filled]_vars
  BY <1>1
<1> QED
  BY <1>2, Versions, PTL DEF Spec, NothingLost

(***************************************************************************)
(* The journal is the unbroken history of the row's status.                *)
(***************************************************************************)
THEOREM JournalIsChain == Spec => []JournalChain
<1>1. Init => JournalChain
  <2> SUFFICES ASSUME Init PROVE JournalChain
    OBVIOUS
  <2>1. journal = <<>> /\ row.status = "SUBMITTING" /\ Len(journal) = 0 /\ DOMAIN journal = {}
    BY DEF Init, Reserved
  <2> QED
    BY <2>1 DEF JournalChain
<1>2. ASSUME TypeInv, VersionInv, JournalChain, [Next]_vars PROVE JournalChain'
  <2>1. CASE UNCHANGED <<row, journal>>
    BY <1>2, <2>1 DEF JournalChain
  <2>2. CASE Write
    <3>0. journal \in Seq(EventRecord)
      BY <1>2 DEF TypeInv, TypeOK, EventRecord
    <3>1. PICK e \in EventRecord : /\ e.prev = row.status /\ e.next = row'.status
                                   /\ journal' = Append(journal, e)
      BY <1>2, <2>2, WriteEffect
    <3>2. /\ Len(journal) \in Nat /\ Len(journal') = Len(journal) + 1
          /\ DOMAIN journal = 1..Len(journal) /\ DOMAIN journal' = 1..(Len(journal) + 1)
          /\ \A j \in DOMAIN journal : journal'[j] = journal[j]
          /\ journal'[Len(journal) + 1] = e
      BY <3>0, <3>1, Appended
    <3>3. ASSUME NEW i \in DOMAIN journal'
          PROVE  journal'[i].prev = IF i = 1 THEN "SUBMITTING" ELSE journal'[i - 1].next
      <4>1. CASE i \in DOMAIN journal
        <5>1. i = 1 \/ i - 1 \in DOMAIN journal
          BY <3>2, <4>1
        <5>2. journal[i].prev = IF i = 1 THEN "SUBMITTING" ELSE journal[i - 1].next
          BY <1>2, <4>1 DEF JournalChain
        <5> QED
          BY <3>2, <4>1, <5>1, <5>2
      <4>2. CASE i = Len(journal) + 1
        <5>1. row.status = IF i = 1 THEN "SUBMITTING" ELSE journal[i - 1].next
          BY <1>2, <4>2 DEF JournalChain
        <5>2. i = 1 \/ i - 1 \in DOMAIN journal
          BY <3>2, <4>2
        <5> QED
          BY <3>1, <3>2, <4>2, <5>1, <5>2
      <4> QED
        BY <3>2, <4>1, <4>2
    <3>4. /\ Len(journal') + 1 # 1
          /\ journal'[(Len(journal') + 1) - 1].next = row'.status
      BY <3>1, <3>2
    <3> QED
      BY <3>3, <3>4 DEF JournalChain
  <2> QED
    BY <1>2, <2>1, <2>2, Steps
<1> QED
  BY <1>1, <1>2, Versions, PTL DEF Spec

----------------------------------------------------------------------------
(* The cancel handlers. *)

\* What one step of a handler does to itself and to the in-flight guard.
LEMMA HandlerStep ==
    ASSUME TypeInv, VersionInv, GuardInv, NEW d \in Cancellers, Cancel(d)
    PROVE  /\ \A c \in Cancellers \ {d} : cancel'[c] = cancel[c]
           /\ \/ /\ cancel'[d].pc \notin Holding
                 /\ cancel[d].pc \in Holding \/ inflight' = inflight
              \/ /\ cancel'[d].pc = "guarded" /\ ~inflight /\ inflight' = TRUE
                 /\ ~Refused(cancel'[d].copy)
              \/ /\ cancel[d].pc \in Holding /\ inflight' = inflight
                 /\ cancel'[d].pc \in {"fenced", "calling"}
                 /\ cancel'[d].copy.status = "CANCEL_SUBMITTED"
                 /\ cancel'[d].copy.updated_at > 0
<1>0. /\ cancel \in [Cancellers -> CancelRecord] /\ cancel[d] \in CancelRecord
      /\ cancel[d].copy \in Row /\ Finished.pc = "done"
  BY DEF TypeInv, TypeOK, CancelRecord, Finished
<1>1. \A c \in Cancellers \ {d} : cancel'[c] = cancel[c]
  BY <1>0 DEF Cancel, CancelRead, CancelCheck, CancelFence, CancelCall, CancelAccepted,
     CancelFailed
<1>2. CASE CancelRead(d)
  <2>1. cancel'[d].pc = "read" /\ inflight' = inflight
    BY <1>0, <1>2 DEF CancelRead
  <2> QED
    BY <1>1, <2>1 DEF Holding
<1>3. CASE CancelCheck(d)
  <2>1. CASE /\ AcquireInFlight /\ ~Refused(cancel[d].copy)
             /\ cancel' = [cancel EXCEPT ![d].pc = "guarded", ![d].revision = Revision]
    <3>1. cancel'[d].pc = "guarded" /\ cancel'[d].copy = cancel[d].copy
      BY <1>0, <2>1 DEF CancelRecord
    <3> QED
      BY <1>1, <2>1, <3>1 DEF AcquireInFlight
  <2>2. CASE cancel' = [cancel EXCEPT ![d] = Finished] /\ UNCHANGED inflight
    <3>1. cancel'[d].pc = "done"
      BY <1>0, <2>2
    <3> QED
      BY <1>1, <2>2, <3>1 DEF Holding
  <2> QED
    BY <1>3, <2>1, <2>2 DEF CancelCheck
<1>4. CASE CancelFence(d)
  <2>0. cancel[d].pc \in Holding
    BY <1>4 DEF CancelFence, Holding
  <2> DEFINE next == [cancel[d].copy EXCEPT !.status = "CANCEL_SUBMITTED", !.updated_at = Now]
  <2>1. CASE cancel' = [cancel EXCEPT ![d].pc = "fenced", ![d].copy = next] /\ UNCHANGED inflight
    <3>1. next.status = "CANCEL_SUBMITTED" /\ next.updated_at > 0
      <4>1. Len(journal) \in Nat
        BY LenProperties DEF TypeInv, TypeOK
      <4>2. Now > 0
        BY <4>1 DEF Now, Revision
      <4> QED
        BY <1>0, <4>2 DEF Row
    <3> HIDE DEF next
    <3>2. cancel'[d].pc = "fenced" /\ cancel'[d].copy = next
      BY <1>0, <2>1 DEF CancelRecord
    <3> QED
      BY <1>1, <2>0, <2>1, <3>1, <3>2
  <2>2. CASE cancel' = [cancel EXCEPT ![d] = Finished]
    <3>1. cancel'[d].pc = "done"
      BY <1>0, <2>2
    <3> QED
      BY <1>1, <2>0, <3>1 DEF Holding
  <2> QED
    BY <1>4, <2>1, <2>2 DEF CancelFence
<1>5. CASE CancelCall(d)
  <2>1. cancel[d].pc = "fenced" /\ cancel'[d].pc = "calling" /\ cancel'[d].copy = cancel[d].copy
        /\ inflight' = inflight
    BY <1>0, <1>5 DEF CancelCall, CancelRecord
  <2>2. cancel[d].copy.status = "CANCEL_SUBMITTED" /\ cancel[d].copy.updated_at > 0
    BY <2>1 DEF GuardInv, HandlersInv
  <2> QED
    BY <1>1, <2>1, <2>2 DEF Holding
<1>6. CASE CancelAccepted(d) \/ CancelFailed(d)
  <2>1. cancel'[d].pc = "done" /\ cancel[d].pc = "calling"
    BY <1>0, <1>6 DEF CancelAccepted, CancelFailed
  <2> QED
    BY <1>1, <2>1 DEF Holding
<1> QED
  BY <1>2, <1>3, <1>4, <1>5, <1>6 DEF Cancel

LEMMA HandlersStep ==
    ASSUME TypeInv, VersionInv, GuardInv, [Next]_vars
    PROVE  HandlersInv'
<1>0. HandlersInv
  BY DEF GuardInv, HandlersInv
<1>1. CASE UNCHANGED <<cancel, inflight>>
  BY <1>0, <1>1 DEF HandlersInv
<1>2. CASE Crash
  <2>1. \A c \in Cancellers : cancel'[c].pc \in {"idle", "done"}
    BY <1>2 DEF Crash, Finished
  <2> QED
    BY <2>1 DEF HandlersInv, Holding
<1>3. ASSUME NEW d \in Cancellers, Cancel(d) PROVE HandlersInv'
  <2>1. \A c \in Cancellers \ {d} : cancel'[c] = cancel[c]
    BY <1>3, HandlerStep
  <2>2. CASE /\ cancel'[d].pc \notin Holding
             /\ cancel[d].pc \in Holding \/ inflight' = inflight
    BY <1>0, <2>1, <2>2 DEF HandlersInv, Holding
  <2>3. CASE /\ cancel'[d].pc = "guarded" /\ ~inflight /\ inflight' = TRUE
             /\ ~Refused(cancel'[d].copy)
    BY <1>0, <2>1, <2>3 DEF HandlersInv, Holding
  <2>4. CASE /\ cancel[d].pc \in Holding /\ inflight' = inflight
             /\ cancel'[d].pc \in {"fenced", "calling"}
             /\ cancel'[d].copy.status = "CANCEL_SUBMITTED"
             /\ cancel'[d].copy.updated_at > 0
    BY <1>0, <2>1, <2>4 DEF HandlersInv, Holding
  <2> QED
    BY <1>3, <2>2, <2>3, <2>4, HandlerStep
<1>4. UNCHANGED <<cancel, inflight>> \/ Crash \/ \E d \in Cancellers : Cancel(d)
  BY DEF Next, PlaceAck, WorkerReadFails, Broker, BrokerAccepts, BrokerExecutes, BrokerEnds, BrokerForgets,
     BrokerCancels, CancelDropped, Worker, WorkerScan, WorkerUndiscovered, WorkerRead,
     WorkerMissing, WorkerApply, WorkerFills, WorkerFillRead, WorkerFillApply, WorkerFillsDone,
     WorkerFees, WorkerFeeApply, vars
<1> QED
  BY <1>1, <1>2, <1>3, <1>4

LEMMA GuardStep ==
    ASSUME TypeInv, VersionInv, GuardInv, [Next]_vars
    PROVE  GuardInv'
<1>1. HandlersInv'
  BY HandlersStep
<1>2. ASSUME NEW i \in DOMAIN journal', journal'[i].kind = "cancel_submitted"
      PROVE  /\ journal'[i].prev \in {"SUBMITTING", "SUBMITTED", "PARTIALLY_FILLED"}
             /\ journal'[i].prev = "SUBMITTING" => i > 1
  <2>0. journal \in Seq(EventRecord) /\ row \in Row
    BY DEF TypeInv, TypeOK, EventRecord
  <2>1. CASE UNCHANGED <<row, journal>>
    BY <1>2, <2>1 DEF GuardInv, HandlersInv
  <2>2. CASE Write
    <3>1. PICK e \in EventRecord : /\ e.prev = row.status /\ EventOf(e)
                                   /\ journal' = Append(journal, e)
      BY <2>2, WriteEffect
    <3>2. /\ Len(journal) \in Nat
          /\ DOMAIN journal = 1..Len(journal) /\ DOMAIN journal' = 1..(Len(journal) + 1)
          /\ \A j \in DOMAIN journal : journal'[j] = journal[j]
          /\ journal'[Len(journal) + 1] = e
      BY <2>0, <3>1, Appended
    <3>3. CASE i \in DOMAIN journal
      BY <1>2, <3>2, <3>3 DEF GuardInv, HandlersInv
    <3>4. CASE i = Len(journal) + 1
      <4>1. CancelWrite
        BY <1>2, <3>1, <3>2, <3>4 DEF EventOf
      <4>2. PICK c \in Cancellers : cancel[c].pc = "guarded" /\ cancel[c].copy = row
        BY <4>1 DEF CancelWrite
      <4>3. ~Refused(row)
        BY <4>2 DEF GuardInv, HandlersInv
      <4>4. Len(journal) # 0
        <5> SUFFICES ASSUME Len(journal) = 0 PROVE FALSE
          OBVIOUS
        <5>1. row = Reserved
          BY DEF VersionInv
        <5> QED
          BY <4>3, <5>1 DEF Refused, Reserved
      <4>5. row.status \in LocalState
        BY <2>0 DEF Row
      <4>6. row.status \in {"SUBMITTING", "SUBMITTED", "PARTIALLY_FILLED"}
        BY <4>3, <4>5 DEF Refused, LocalState
      <4>7. i > 1
        BY <3>2, <3>4, <4>4
      <4> QED
        BY <3>1, <3>2, <3>4, <4>6, <4>7
    <3> QED
      BY <1>2, <3>2, <3>3, <3>4
  <2> QED
    BY <2>1, <2>2, Steps
<1> QED
  BY <1>1, <1>2 DEF GuardInv, HandlersInv

LEMMA GuardInit == Init => GuardInv
<1> SUFFICES ASSUME Init PROVE GuardInv
  OBVIOUS
<1>1. \A c \in Cancellers : cancel[c].pc = "idle"
  BY DEF Init
<1>2. DOMAIN journal = {}
  BY DEF Init
<1> QED
  BY <1>1, <1>2 DEF GuardInv, HandlersInv, Holding

(***************************************************************************)
(* At most one handler is between its fence and the broker's answer, every *)
(* fence took a live order to CANCEL_SUBMITTED, one the broker had already *)
(* identified if it was still SUBMITTING, and while the handler's version  *)
(* stands the row says that a cancellation is pending.                     *)
(***************************************************************************)
THEOREM CancelIsFenced == Spec => []CancelFenced
<1>1. TypeInv /\ VersionInv /\ GuardInv => CancelFenced
  <2> SUFFICES ASSUME TypeInv, VersionInv, GuardInv PROVE CancelFenced
    OBVIOUS
  <2> DEFINE S == {c \in Cancellers : cancel[c].pc \in {"fenced", "calling"}}
  <2>1. \A c, d \in S : c = d
    BY DEF GuardInv, HandlersInv, Holding
  <2>2. CancelCalls <= 1
    <3>1. CASE S = {}
      <4>1. Cardinality(S) = 0
        BY <3>1, FS_EmptySet
      <4> HIDE DEF S
      <4> QED
        BY <4>1 DEF CancelCalls, S
    <3>2. CASE S # {}
      <4>1. PICK c : c \in S
        BY <3>2
      <4>2. S = {c}
        BY <2>1, <4>1
      <4>3. Cardinality(S) = 1
        BY <4>2, FS_Singleton
      <4> HIDE DEF S
      <4> QED
        BY <4>3 DEF CancelCalls, S
    <3> QED
      BY <3>1, <3>2
  <2>3. ASSUME NEW c \in Cancellers, cancel[c].pc = "calling",
               row.updated_at = cancel[c].copy.updated_at
        PROVE  row.status = "CANCEL_SUBMITTED"
    BY <2>3 DEF GuardInv, HandlersInv, VersionInv, CopyOK
  <2> QED
    BY <2>2, <2>3 DEF CancelFenced, GuardInv
<1>2. TypeInv /\ VersionInv /\ GuardInv /\ [Next]_vars => GuardInv'
  BY GuardStep
<1> QED
  BY <1>1, <1>2, GuardInit, Versions, PTL DEF Spec

----------------------------------------------------------------------------
(* The filled quantity and the settled status. *)

LEMMA Counting ==
    ASSUME NEW n \in Nat
    PROVE  IsFiniteSet(1..n) /\ Cardinality(1..n) = n
<1>1. 1 \in Int /\ n \in Int
  OBVIOUS
<1>2. IsFiniteSet(1..n) /\ Cardinality(1..n) = IF 1 > n THEN 0 ELSE n - 1 + 1
  BY <1>1, FS_Interval
<1> QED
  BY <1>2

\* A unit that is added was not accounted for by any event.
LEMMA AppliedFresh ==
    ASSUME journal \in Seq(EventRecord), EventsTrue, broker.fills \in 0..Quantity,
           NEW i \in 1..Quantity, ~Journaled(journal, UnitFill(i)),
           AppliedQuantity(journal, UnitFill(i)) # 0
    PROVE  i \notin Accounted
<1> SUFFICES ASSUME i \in Accounted PROVE FALSE
  OBVIOUS
<1>0. /\ \A j \in DOMAIN journal : journal[j] \in EventRecord
      /\ Quantity \in Nat /\ i \in Nat /\ i >= 1
  BY ElementOfSeq, LenProperties, LifecycleAssumption
<1>1. \A j \in DOMAIN journal : ~(journal[j].kind = "fill" /\ journal[j].id = i)
  BY DEF Journaled, UnitFill
<1>2. PICK j \in DOMAIN journal : journal[j].kind = "snapshot" /\ i <= journal[j].qty
  BY <1>1 DEF Accounted
<1>3. journal[j].at = journal[j].qty /\ journal[j].qty \in 0..Quantity
  BY <1>0, <1>2 DEF EventsTrue, EventRecord
<1>4. BestSnapshot(journal, i) \in 0..Quantity /\ BestSnapshot(journal, i) >= journal[j].qty
  <2>1. journal[j].at >= i
    BY <1>0, <1>2, <1>3
  <2> QED
    BY <1>0, <1>2, <2>1, BestIs
<1> DEFINE K == KnownUnits(journal, i)
           f == [u \in K |-> journal[u[1]].id]
<1>5. ASSUME NEW u \in K
      PROVE  /\ u[1] \in DOMAIN journal /\ u[2] = 1 /\ u = <<u[1], u[2]>>
             /\ journal[u[1]].kind = "fill" /\ journal[u[1]].id \in 1..(i - 1)
  <2>1. /\ u \in (DOMAIN journal) \X (1..Quantity)
        /\ journal[u[1]].kind = "fill" /\ journal[u[1]].at <= i
        /\ u[2] <= journal[u[1]].qty
    BY <1>0, KnownIs
  <2>2. u[1] \in DOMAIN journal /\ u[2] \in 1..Quantity /\ u = <<u[1], u[2]>>
    BY <2>1
  <2>3. /\ journal[u[1]].id \in 1..broker.fills
        /\ journal[u[1]].qty = 1 /\ journal[u[1]].at = journal[u[1]].id
    BY <2>1, <2>2 DEF EventsTrue
  <2>4. journal[u[1]].id # i
    BY <1>1, <2>1, <2>2
  <2>5. journal[u[1]].id \in 1..(i - 1)
    BY <1>0, <2>1, <2>3, <2>4
  <2>6. u[2] = 1
    BY <1>0, <2>1, <2>2, <2>3
  <2> QED
    BY <2>1, <2>2, <2>5, <2>6
<1>6. f \in Injection(K, 1..(i - 1))
  <2>1. f \in [K -> 1..(i - 1)]
    BY <1>5
  <2>2. ASSUME NEW u \in K, NEW v \in K, f[u] = f[v] PROVE u = v
    <3>1. u[1] \in DOMAIN journal /\ v[1] \in DOMAIN journal
          /\ journal[u[1]].kind = "fill" /\ journal[v[1]].kind = "fill"
          /\ journal[u[1]].id = journal[v[1]].id
      BY <1>5, <2>2
    <3>2. u[1] = v[1]
      BY <3>1 DEF EventsTrue
    <3> QED
      BY <1>5, <3>2
  <2> HIDE DEF f, K
  <2> QED
    BY <2>1, <2>2 DEF Injection, IsInjective
<1>7. IsFiniteSet(1..(i - 1)) /\ Cardinality(1..(i - 1)) = i - 1
  <2>1. i - 1 \in Nat
    BY <1>0
  <2> QED
    BY <2>1, Counting
<1>8. KnownUpTo(journal, i) <= i - 1
  <2> HIDE DEF f, K
  <2>1. Cardinality(K) <= Cardinality(1..(i - 1))
    BY <1>6, <1>7, FS_Injection
  <2> QED
    BY <1>7, <2>1 DEF KnownUpTo, K
<1>9. KnownUpTo(journal, i) \in Nat
  BY <1>0, KnownIs
<1>10. BestSnapshot(journal, i) > KnownUpTo(journal, i)
  BY <1>0, <1>2, <1>3, <1>4, <1>8, <1>9
<1> QED
  BY <1>0, <1>10, AppliedUnit DEF UnitFill

\* Everything accounted for has been executed.
LEMMA AccountedBound ==
    ASSUME journal \in Seq(EventRecord), EventsTrue, broker.fills \in 0..Quantity
    PROVE  /\ IsFiniteSet(Accounted) /\ Cardinality(Accounted) \in Nat
           /\ Cardinality(Accounted) <= broker.fills
<1>0. Quantity \in Nat /\ broker.fills \in Nat
  BY LifecycleAssumption
<1>1. Accounted \in SUBSET (1..broker.fills)
  <2> SUFFICES ASSUME NEW n \in Accounted PROVE n \in 1..broker.fills
    OBVIOUS
  <2>1. n \in 1..Quantity
    BY DEF Accounted
  <2>2. PICK j \in DOMAIN journal :
           \/ journal[j].kind = "snapshot" /\ n <= journal[j].qty
           \/ journal[j].kind = "fill" /\ journal[j].id = n
    BY DEF Accounted
  <2>3. CASE journal[j].kind = "snapshot" /\ n <= journal[j].qty
    <3>1. journal[j].qty <= broker.fills
      BY <2>3 DEF EventsTrue
    <3>2. journal[j].qty \in 0..Quantity
      <4>1. journal[j] \in EventRecord
        BY ElementOfSeq, LenProperties
      <4> QED
        BY <4>1 DEF EventRecord
    <3> QED
      BY <1>0, <2>1, <2>3, <3>1, <3>2
  <2>4. CASE journal[j].kind = "fill" /\ journal[j].id = n
    BY <2>4 DEF EventsTrue
  <2> QED
    BY <2>2, <2>3, <2>4
<1>2. IsFiniteSet(1..broker.fills) /\ Cardinality(1..broker.fills) = broker.fills
  BY <1>0, Counting
<1>3. IsFiniteSet(Accounted) /\ Cardinality(Accounted) <= Cardinality(1..broker.fills)
  BY <1>1, <1>2, FS_Subset
<1> QED
  BY <1>2, <1>3, FS_CardinalityType

LEMMA EventsStep ==
    ASSUME TypeInv, VersionInv, EventsTrue, WorkerTrue, [Next]_vars
    PROVE  EventsTrue'
<1>0. /\ journal \in Seq(EventRecord) /\ worker \in WorkerRecord
      /\ broker.fills \in Nat /\ broker'.fills \in Nat /\ broker'.fills >= broker.fills
  <2>1. broker' \in BrokerRecord /\ broker'.fills >= broker.fills
    BY BrokerStep
  <2> QED
    BY <2>1, LifecycleAssumption DEF TypeInv, TypeOK, EventRecord, WorkerRecord, Snapshot, BrokerRecord
<1>1. ASSUME NEW ev \in EventRecord
      PROVE  /\ ev.id \in 1..broker.fills => ev.id \in 1..broker'.fills
             /\ ev.qty <= broker.fills => ev.qty <= broker'.fills
  <2>1. ev.id \in Nat /\ ev.qty \in Nat
    BY LifecycleAssumption DEF EventRecord
  <2> QED
    BY <1>0, <2>1
<1>2. \A j \in DOMAIN journal : journal[j] \in EventRecord
  BY <1>0, ElementOfSeq, LenProperties
<1>3. CASE UNCHANGED <<row, journal>>
  BY <1>1, <1>2, <1>3 DEF EventsTrue
<1>4. CASE Write
  <2>1. PICK e \in EventRecord : EventOf(e) /\ journal' = Append(journal, e)
    BY <1>4, WriteEffect
  <2>2. /\ Len(journal) \in Nat
        /\ DOMAIN journal = 1..Len(journal) /\ DOMAIN journal' = 1..(Len(journal) + 1)
        /\ \A j \in DOMAIN journal : journal'[j] = journal[j]
        /\ journal'[Len(journal) + 1] = e
    BY <1>0, <2>1, Appended
  <2>3. /\ e.kind = "fill" =>
              /\ e.id \in 1..broker.fills /\ e.qty = 1 /\ e.at = e.id
              /\ ~Journaled(journal, UnitFill(e.id))
        /\ e.kind = "snapshot" => e.at = e.qty /\ e.qty <= broker.fills
    <3>1. CASE SnapshotWrite /\ e.kind = "snapshot" /\ e.qty = worker.snap.qty /\ e.at = e.qty
      BY <3>1 DEF WorkerTrue
    <3>2. CASE /\ FillWrite /\ e.kind = "fill" /\ e.id = Min(worker.todo)
               /\ e.qty = 1 /\ e.at = e.id
      <4>1. worker.pc = "fill" /\ ~Journaled(journal, UnitFill(e.id))
        BY <3>2 DEF FillWrite
      <4>2. worker.todo # {} /\ worker.todo \in SUBSET Nat
        BY <1>0, <4>1, LifecycleAssumption DEF TypeInv, InHand, WorkerRecord
      <4>3. Min(worker.todo) \in worker.todo
        BY <4>2, MinIn
      <4> QED
        BY <3>2, <4>1, <4>3 DEF WorkerTrue
    <3>3. CASE e.kind \notin {"snapshot", "fill"}
      BY <3>3
    <3> QED
      BY <2>1, <3>1, <3>2, <3>3 DEF EventOf
  <2>4. ASSUME NEW j \in DOMAIN journal'
        PROVE  /\ journal'[j].kind = "fill" =>
                    /\ journal'[j].id \in 1..broker'.fills
                    /\ journal'[j].qty = 1 /\ journal'[j].at = journal'[j].id
               /\ journal'[j].kind = "snapshot" =>
                    journal'[j].at = journal'[j].qty /\ journal'[j].qty <= broker'.fills
    <3>1. CASE j \in DOMAIN journal
      <4>1. /\ journal[j].kind = "fill" =>
                  /\ journal[j].id \in 1..broker.fills
                  /\ journal[j].qty = 1 /\ journal[j].at = journal[j].id
            /\ journal[j].kind = "snapshot" =>
                  journal[j].at = journal[j].qty /\ journal[j].qty <= broker.fills
        BY <3>1 DEF EventsTrue
      <4> QED
        BY <1>1, <1>2, <2>2, <3>1, <4>1
    <3>2. CASE j = Len(journal) + 1
      BY <1>1, <2>2, <2>3, <3>2
    <3> QED
      BY <2>2, <3>1, <3>2
  <2>5. ASSUME NEW j \in DOMAIN journal', NEW k \in DOMAIN journal',
               journal'[j].kind = "fill", journal'[k].kind = "fill",
               journal'[j].id = journal'[k].id
        PROVE  j = k
    <3>1. \A n \in DOMAIN journal : ~(e.kind = "fill" /\ journal[n].kind = "fill"
                                         /\ journal[n].id = e.id)
      BY <2>3 DEF Journaled, UnitFill
    <3>2. CASE j \in DOMAIN journal /\ k \in DOMAIN journal
      BY <2>2, <2>5, <3>2 DEF EventsTrue
    <3>3. CASE j = Len(journal) + 1 /\ k \in DOMAIN journal
      BY <2>2, <2>5, <3>1, <3>3
    <3>4. CASE k = Len(journal) + 1 /\ j \in DOMAIN journal
      BY <2>2, <2>5, <3>1, <3>4
    <3> QED
      BY <2>2, <3>2, <3>3, <3>4
  <2> QED
    BY <2>4, <2>5 DEF EventsTrue
<1> QED
  BY <1>3, <1>4, Steps

LEMMA WorkerTrueStep ==
    ASSUME TypeInv, WorkerTrue, [Next]_vars
    PROVE  WorkerTrue'
<1>0. /\ worker \in WorkerRecord /\ broker \in BrokerRecord /\ broker' \in BrokerRecord
      /\ broker'.fills >= broker.fills
      /\ BrokerSettled => broker'.fills = broker.fills /\ broker'.state = broker.state
  BY BrokerStep DEF TypeInv, TypeOK, WorkerRecord, Snapshot, BrokerRecord
<1>1. broker.fills \in Nat /\ broker'.fills \in Nat /\ worker.snap.qty \in Nat
  BY <1>0, LifecycleAssumption DEF BrokerRecord, WorkerRecord, Snapshot
<1>2. ASSUME NEW sn, sn.qty \in Nat, sn.qty <= broker.fills,
             sn.code = 11 => BrokerFilled,
             sn.code = 15 => ~BrokerFilled /\ broker.state = "cancelled",
             sn.code = 21 => ~BrokerFilled /\ broker.state = "failed"
      PROVE  /\ sn.qty <= broker'.fills
             /\ sn.code = 11 => BrokerFilled'
             /\ sn.code = 15 => ~BrokerFilled' /\ broker'.state = "cancelled"
             /\ sn.code = 21 => ~BrokerFilled' /\ broker'.state = "failed"
  BY <1>0, <1>1, <1>2 DEF BrokerFilled, BrokerSettled
<1>3. ASSUME NEW T, T \subseteq 1..broker.fills PROVE T \subseteq 1..broker'.fills
  BY <1>0, <1>1, <1>3
<1>4. /\ NoSnapshot.qty = 0 /\ NoSnapshot.code = -1
      /\ IdleWorker.snap = NoSnapshot /\ IdleWorker.todo = {}
  BY DEF NoSnapshot, IdleWorker
<1>5. ASSUME worker'.snap \in {worker.snap, NoSnapshot}, worker'.todo \subseteq 1..broker.fills
      PROVE  WorkerTrue'
  <2>1. CASE worker'.snap = worker.snap
    <3>1. /\ worker.snap.qty <= broker'.fills
          /\ worker.snap.code = 11 => BrokerFilled'
          /\ worker.snap.code = 15 => ~BrokerFilled' /\ broker'.state = "cancelled"
          /\ worker.snap.code = 21 => ~BrokerFilled' /\ broker'.state = "failed"
      BY <1>1, <1>2 DEF WorkerTrue
    <3> QED
      BY <1>3, <1>5, <2>1, <3>1 DEF WorkerTrue
  <2>2. CASE worker'.snap = NoSnapshot
    BY <1>1, <1>3, <1>4, <1>5, <2>2 DEF WorkerTrue
  <2> QED
    BY <1>5, <2>1, <2>2
<1>6. worker.todo \subseteq 1..broker.fills /\ {} \subseteq 1..broker.fills
  BY DEF WorkerTrue
<1>7. ASSUME \/ EndPass \/ (\E pc : Go(pc)) \/ (\E i : NextFill(i)) \/ worker' = worker
             \/ \E pc, k : worker' = [IdleWorker EXCEPT !.pc = pc, !.copy = k]
             \/ \E pc, k, r : worker' = [worker EXCEPT !.pc = pc, !.copy = k, !.revision = r]
             \/ \E pc : worker' = [worker EXCEPT !.pc = pc]
      PROVE  WorkerTrue'
  <2>1. CASE EndPass
    BY <1>4, <1>5, <1>6, <2>1 DEF EndPass
  <2>2. CASE \E pc : Go(pc)
    <3>1. worker'.snap = NoSnapshot /\ worker'.todo = {}
      BY <2>2 DEF Go, IdleWorker
    <3> QED
      BY <1>5, <1>6, <3>1
  <2>3. CASE \E i : NextFill(i)
    <3>1. worker'.snap = NoSnapshot /\ worker'.todo \subseteq worker.todo
      BY <2>3 DEF NextFill, IdleWorker
    <3> QED
      BY <1>5, <1>6, <3>1
  <2>4. CASE worker' = worker
    BY <1>5, <1>6, <2>4
  <2>5. CASE \E pc, k : worker' = [IdleWorker EXCEPT !.pc = pc, !.copy = k]
    <3>1. worker'.snap = NoSnapshot /\ worker'.todo = {}
      BY <2>5 DEF IdleWorker
    <3> QED
      BY <1>5, <1>6, <3>1
  <2>6. CASE \E pc, k, r : worker' = [worker EXCEPT !.pc = pc, !.copy = k, !.revision = r]
    <3>1. worker'.snap = worker.snap /\ worker'.todo = worker.todo
      BY <1>0, <2>6 DEF WorkerRecord
    <3> QED
      BY <1>5, <1>6, <3>1
  <2>7. CASE \E pc : worker' = [worker EXCEPT !.pc = pc]
    <3>1. worker'.snap = worker.snap /\ worker'.todo = worker.todo
      BY <1>0, <2>7 DEF WorkerRecord
    <3> QED
      BY <1>5, <1>6, <3>1
  <2> QED
    BY <1>7, <2>1, <2>2, <2>3, <2>4, <2>5, <2>6, <2>7
<1>8. CASE WorkerRead
  <2> DEFINE fresh == [code |-> ReportedCode, qty |-> broker.fills]
  <2>1. /\ fresh.qty = broker.fills
        /\ fresh.code = 11 => BrokerFilled
        /\ fresh.code = 15 => ~BrokerFilled /\ broker.state = "cancelled"
        /\ fresh.code = 21 => ~BrokerFilled /\ broker.state = "failed"
    BY <1>0, ReportedIs DEF BrokerSettled, BrokerRecord
  <2> HIDE DEF fresh
  <2>2. CASE worker' = [worker EXCEPT !.pc = "read", !.snap = fresh]
    <3>1. worker'.snap = fresh /\ worker'.todo = worker.todo
      BY <1>0, <2>2 DEF WorkerRecord
    <3>2. /\ fresh.qty <= broker'.fills
          /\ fresh.code = 11 => BrokerFilled'
          /\ fresh.code = 15 => ~BrokerFilled' /\ broker'.state = "cancelled"
          /\ fresh.code = 21 => ~BrokerFilled' /\ broker'.state = "failed"
      BY <1>1, <1>2, <2>1
    <3> QED
      BY <1>3, <1>6, <3>1, <3>2 DEF WorkerTrue
  <2>3. CASE worker' = [worker EXCEPT !.pc = "read", !.snap = NoSnapshot]
    <3>1. worker'.snap = NoSnapshot /\ worker'.todo = worker.todo
      BY <1>0, <2>3 DEF WorkerRecord
    <3> QED
      BY <1>5, <1>6, <3>1
  <2> QED
    BY <1>7, <1>8, <2>2, <2>3 DEF WorkerRead, fresh
<1>9. CASE WorkerFills
  <2>1. PICK seen \in SUBSET (1..broker.fills) :
           worker' = [worker EXCEPT !.pc = "apply", !.todo = seen]
    BY <1>9 DEF WorkerFills
  <2>2. worker'.snap = worker.snap /\ worker'.todo = seen
    BY <1>0, <2>1 DEF WorkerRecord
  <2> QED
    BY <1>5, <2>1, <2>2
<1>10. CASE WorkerScan \/ WorkerFillRead \/ WorkerFees
  BY <1>7, <1>10 DEF WorkerScan, WorkerFillRead, WorkerFees
<1>11. CASE WorkerUndiscovered \/ WorkerMissing \/ WorkerApply \/ WorkerFillApply
              \/ WorkerFillsDone \/ WorkerFeeApply \/ WorkerReadFails
  BY <1>7, <1>11 DEF WorkerUndiscovered, WorkerMissing, WorkerApply, WorkerFillApply,
     WorkerFillsDone, WorkerFeeApply, WorkerReadFails
<1>12. CASE Crash
  BY <1>7, <1>12 DEF Crash, EndPass
<1>13. worker' = worker \/ Crash \/ WorkerReadFails \/ Worker
  BY DEF Next, PlaceAck, Broker, BrokerAccepts, BrokerExecutes, BrokerEnds, BrokerForgets, BrokerCancels,
     CancelDropped, Cancel, CancelRead, CancelCheck, CancelFence, CancelCall, CancelAccepted,
     CancelFailed, vars
<1> QED
  BY <1>7, <1>8, <1>9, <1>10, <1>11, <1>12, <1>13 DEF Worker

\* How a settled order reads in the row's vocabulary.
LEMMA OutcomeIs ==
    ASSUME broker \in BrokerRecord
    PROVE  /\ BrokerFilled => Outcome = "FILLED"
           /\ ~BrokerFilled /\ broker.state = "cancelled" => Outcome = "CANCELLED"
           /\ ~BrokerFilled /\ broker.state = "failed" => Outcome = "FAILED"
<1>1. /\ StorageStatus(BrokerStatus(11), "UNKNOWN") = "FILLED"
      /\ StorageStatus(BrokerStatus(15), "UNKNOWN") = "CANCELLED"
      /\ StorageStatus(BrokerStatus(21), "UNKNOWN") = "FAILED"
  BY DEF StorageStatus, BrokerStatus
<1> QED
  BY <1>1, ReportedIs DEF Outcome

\* What the broker settled on it does not take back.
LEMMA SettledStays ==
    ASSUME TypeInv, [Next]_vars, BrokerSettled
    PROVE  BrokerSettled' /\ Outcome' = Outcome
<1>0. /\ broker \in BrokerRecord
      /\ broker'.fills = broker.fills /\ broker'.state = broker.state
  BY BrokerStep DEF TypeInv, TypeOK, BrokerRecord
<1>1. BrokerFilled' = BrokerFilled
  BY <1>0 DEF BrokerFilled
<1>2. BrokerSettled'
  BY <1>0, <1>1 DEF BrokerSettled
<1>3. ReportedCode' = ReportedCode
  <2>1. CASE BrokerFilled
    BY <1>1, <2>1 DEF ReportedCode
  <2>2. CASE ~BrokerFilled
    BY <1>0, <1>1, <2>2 DEF ReportedCode
  <2> QED
    BY <2>1, <2>2
<1> QED
  BY <1>2, <1>3 DEF Outcome

\* The filled quantity after each write.
LEMMA FilledStep ==
    ASSUME TypeInv, VersionInv, EventsTrue, WorkerTrue, FilledBound, [Next]_vars
    PROVE  FilledBound'
<1>0. /\ journal \in Seq(EventRecord) /\ worker \in WorkerRecord /\ row \in Row
      /\ broker.fills \in 0..Quantity /\ Quantity \in Nat
  BY LifecycleAssumption DEF TypeInv, TypeOK, EventRecord, WorkerRecord, Snapshot
<1>1. /\ IsFiniteSet(Accounted) /\ Cardinality(Accounted) \in Nat
      /\ row.filled \in Nat /\ row.filled <= Cardinality(Accounted)
  BY <1>0, AccountedBound DEF Row, FilledBound
<1>2. CASE UNCHANGED <<row, journal>>
  BY <1>2 DEF FilledBound, Accounted
<1>3. CASE Write
  <2>1. PICK e \in EventRecord : EventOf(e) /\ journal' = Append(journal, e)
    BY <1>3, WriteEffect
  <2>2. /\ Len(journal) \in Nat
        /\ DOMAIN journal = 1..Len(journal) /\ DOMAIN journal' = 1..(Len(journal) + 1)
        /\ \A j \in DOMAIN journal : journal'[j] = journal[j]
        /\ journal'[Len(journal) + 1] = e
    BY <1>0, <2>1, Appended
  <2>3. Accounted \subseteq Accounted'
    <3> SUFFICES ASSUME NEW n \in Accounted PROVE n \in Accounted'
      OBVIOUS
    <3>1. n \in 1..Quantity
      BY DEF Accounted
    <3>2. PICK j \in DOMAIN journal :
             \/ journal[j].kind = "snapshot" /\ n <= journal[j].qty
             \/ journal[j].kind = "fill" /\ journal[j].id = n
      BY DEF Accounted
    <3>3. j \in DOMAIN journal' /\ journal'[j] = journal[j]
      BY <2>2
    <3> QED
      BY <3>1, <3>2, <3>3 DEF Accounted
  <2>4. IsFiniteSet(Accounted')
    <3>1. IsFiniteSet(1..Quantity)
      BY <1>0, Counting
    <3>2. Accounted' \in SUBSET (1..Quantity)
      BY DEF Accounted
    <3> QED
      BY <3>1, <3>2, FS_Subset
  <2>5. Cardinality(Accounted') \in Nat /\ Cardinality(Accounted) <= Cardinality(Accounted')
    BY <2>3, <2>4, FS_Subset, FS_CardinalityType
  <2>6. CASE row'.filled = row.filled
    BY <1>1, <2>5, <2>6 DEF FilledBound
  <2>7. CASE SnapshotWrite /\ e.kind = "snapshot" /\ e.qty = worker.snap.qty
    <3>1. row'.filled = Larger(e.qty, row.filled)
      BY <1>0, <2>7 DEF SnapshotWrite, Wrote, FilledAfterSnapshot, Row
    <3>2. e.qty \in 0..Quantity
      BY DEF EventRecord
    <3>3. 1..e.qty \subseteq Accounted'
      <4> SUFFICES ASSUME NEW n \in 1..e.qty PROVE n \in Accounted'
        OBVIOUS
      <4>1. n \in 1..Quantity /\ n <= e.qty
        BY <1>0, <3>2
      <4>2. Len(journal) + 1 \in DOMAIN journal'
        BY <2>2
      <4> QED
        BY <2>2, <2>7, <4>1, <4>2 DEF Accounted
    <3>4. e.qty <= Cardinality(Accounted')
      <4>1. e.qty \in Nat
        BY <1>0, <3>2
      <4>2. Cardinality(1..e.qty) = e.qty
        BY <4>1, Counting
      <4>3. Cardinality(1..e.qty) <= Cardinality(Accounted')
        BY <2>4, <3>3, FS_Subset
      <4> QED
        BY <4>2, <4>3
    <3> QED
      BY <1>1, <2>5, <3>1, <3>4 DEF FilledBound, Larger
  <2>8. CASE FillWrite /\ e.kind = "fill" /\ e.id = Min(worker.todo)
    <3> DEFINE i == Min(worker.todo)
               new == AppliedQuantity(journal, UnitFill(i))
    <3>1. worker.todo # {} /\ worker.todo \in SUBSET (1..Quantity) /\ worker.todo \in SUBSET Nat
      BY <1>0, <2>8 DEF FillWrite, TypeInv, InHand, WorkerRecord
    <3>2. i \in 1..Quantity
      BY <3>1, MinIn
    <3>3. new \in {0, 1}
      <4>1. i \in Nat
        BY <3>2
      <4> QED
        BY <1>0, <4>1, AppliedUnit DEF UnitFill
    <3>4. row'.filled = row.filled + new
      BY <1>0, <2>8 DEF FillWrite, Wrote, Row
    <3>5. CASE new = 0
      <4> HIDE DEF new
      <4> QED
        BY <1>1, <2>6, <3>4, <3>5
    <3>6. CASE new = 1
      <4>1. i \notin Accounted
        <5>1. ~Journaled(journal, UnitFill(i))
          BY <2>8 DEF FillWrite
        <5>2. AppliedQuantity(journal, UnitFill(i)) # 0
          BY <3>6
        <5> HIDE DEF i, new
        <5> QED
          BY <1>0, <3>2, <5>1, <5>2, AppliedFresh
      <4>2. Accounted \cup {i} \subseteq Accounted'
        <5>1. Len(journal) + 1 \in DOMAIN journal' /\ journal'[Len(journal) + 1].kind = "fill"
              /\ journal'[Len(journal) + 1].id = i
          BY <2>2, <2>8
        <5> HIDE DEF i, new
        <5>2. i \in Accounted'
          BY <3>2, <5>1 DEF Accounted
        <5> QED
          BY <2>3, <5>2
      <4> HIDE DEF i, new
      <4>3. Cardinality(Accounted \cup {i}) = Cardinality(Accounted) + 1
        BY <1>1, <4>1, FS_AddElement
      <4>4. Cardinality(Accounted \cup {i}) <= Cardinality(Accounted')
        BY <2>4, <4>2, FS_Subset
      <4> QED
        BY <1>1, <2>5, <3>4, <3>6, <4>3, <4>4 DEF FilledBound
    <3> QED
      BY <3>3, <3>5, <3>6
  <2>9. CASE AckWrite \/ UnknownWrite \/ FeeWrite \/ CancelWrite
    <3>1. CASE AckWrite
      BY <2>6, <3>1, StoredRow DEF AckWrite, Wrote
    <3>2. CASE UnknownWrite
      BY <1>0, <2>6, <3>2 DEF UnknownWrite, Wrote, Row
    <3>3. CASE FeeWrite
      BY <1>0, <2>6, <3>3 DEF FeeWrite, Wrote, Row
    <3>4. CASE CancelWrite
      BY <1>0, <2>6, <3>4 DEF CancelWrite, Wrote, Row
    <3> QED
      BY <2>9, <3>1, <3>2, <3>3, <3>4
  <2> QED
    BY <2>1, <2>7, <2>8, <2>9 DEF EventOf
<1> QED
  BY <1>2, <1>3, Steps

\* A fill that is added is one of the executions, beyond those accounted for.
LEMMA FillFits ==
    ASSUME TypeInv, EventsTrue, WorkerTrue, FilledBound, FillWrite
    PROVE  LET new == AppliedQuantity(journal, UnitFill(Min(worker.todo)))
           IN new \in {0, 1} /\ (new = 1 => row.filled + 1 <= broker.fills)
<1> DEFINE i == Min(worker.todo)
           new == AppliedQuantity(journal, UnitFill(i))
<1>0. /\ journal \in Seq(EventRecord) /\ worker \in WorkerRecord /\ row \in Row
      /\ broker.fills \in 0..Quantity /\ Quantity \in Nat /\ broker.fills \in Nat
  BY LifecycleAssumption DEF TypeInv, TypeOK, EventRecord, WorkerRecord, Snapshot
<1>1. /\ IsFiniteSet(Accounted) /\ Cardinality(Accounted) \in Nat
      /\ row.filled \in Nat /\ row.filled <= Cardinality(Accounted)
  BY <1>0, AccountedBound DEF Row, FilledBound
<1>2. worker.todo # {} /\ worker.todo \in SUBSET Nat
  BY <1>0 DEF FillWrite, TypeInv, InHand, WorkerRecord
<1>3. i \in 1..broker.fills /\ i \in 1..Quantity
  <2>1. i \in worker.todo
    BY <1>2, MinIn
  <2> QED
    BY <1>0, <2>1 DEF WorkerTrue, WorkerRecord
<1>4. new \in {0, 1}
  <2>1. i \in Nat
    BY <1>3
  <2> QED
    BY <1>0, <2>1, AppliedUnit DEF UnitFill
<1>5. ASSUME new = 1 PROVE row.filled + 1 <= broker.fills
  <2>1. ~Journaled(journal, UnitFill(i))
    BY DEF FillWrite
  <2>2. AppliedQuantity(journal, UnitFill(i)) # 0
    BY <1>5
  <2> HIDE DEF i, new
  <2>3. i \notin Accounted
    BY <1>0, <1>3, <2>1, <2>2, AppliedFresh
  <2>4. Accounted \cup {i} \subseteq 1..broker.fills
    <3> SUFFICES ASSUME NEW n \in Accounted PROVE n \in 1..broker.fills
      BY <1>3
    <3>1. n \in 1..Quantity
      BY DEF Accounted
    <3>2. PICK j \in DOMAIN journal :
             \/ journal[j].kind = "snapshot" /\ n <= journal[j].qty
             \/ journal[j].kind = "fill" /\ journal[j].id = n
      BY DEF Accounted
    <3>3. journal[j].qty \in 0..Quantity
      <4>1. journal[j] \in EventRecord
        BY <1>0, ElementOfSeq, LenProperties
      <4> QED
        BY <4>1 DEF EventRecord
    <3>4. CASE journal[j].kind = "snapshot" /\ n <= journal[j].qty
      <4>1. journal[j].qty <= broker.fills
        BY <3>4 DEF EventsTrue
      <4> QED
        BY <1>0, <3>1, <3>3, <3>4, <4>1
    <3>5. CASE journal[j].kind = "fill" /\ journal[j].id = n
      BY <3>5 DEF EventsTrue
    <3> QED
      BY <3>2, <3>4, <3>5
  <2>5. IsFiniteSet(1..broker.fills) /\ Cardinality(1..broker.fills) = broker.fills
    BY <1>0, Counting
  <2>6. Cardinality(Accounted \cup {i}) = Cardinality(Accounted) + 1
    BY <1>1, <2>3, FS_AddElement
  <2>7. Cardinality(Accounted \cup {i}) <= broker.fills
    BY <2>4, <2>5, FS_Subset
  <2> QED
    BY <1>0, <1>1, <2>6, <2>7
<1> QED
  BY <1>4, <1>5

LEMMA SettlementStep ==
    ASSUME TypeInv, VersionInv, EventsTrue, WorkerTrue, FilledBound, SettlementTrue, [Next]_vars
    PROVE  SettlementTrue'
<1>0. /\ worker \in WorkerRecord /\ row \in Row /\ broker \in BrokerRecord
      /\ broker.fills \in 0..Quantity /\ Quantity \in Nat /\ row.filled \in Nat
  BY LifecycleAssumption DEF TypeInv, TypeOK, EventRecord, WorkerRecord, Snapshot, BrokerRecord, Row
<1>1. ASSUME BrokerSettled, row'.status = Outcome PROVE SettlementTrue'
  BY <1>1, SettledStays DEF SettlementTrue
<1>2. ASSUME row'.status = row.status PROVE SettlementTrue'
  <2>1. CASE IsTerminal(row.status)
    BY <1>1, <1>2, <2>1 DEF SettlementTrue
  <2>2. CASE ~IsTerminal(row.status)
    BY <1>2, <2>2 DEF SettlementTrue
  <2> QED
    BY <2>1, <2>2
<1>3. ASSUME row'.status \in {"SUBMITTING", "SUBMITTED", "UNKNOWN", "CANCEL_SUBMITTED", "PARTIALLY_FILLED"}
      PROVE  SettlementTrue'
  <2>1. ~IsTerminal(row'.status)
    BY <1>3 DEF IsTerminal, CanonicalStored, TerminalStatus
  <2> QED
    BY <2>1 DEF SettlementTrue
<1>4. CASE UNCHANGED <<row, journal>>
  BY <1>2, <1>4
<1>5. CASE AckWrite
  BY <1>3, <1>5, StoredRow DEF AckWrite, Wrote
<1>6. CASE UnknownWrite
  BY <1>0, <1>3, <1>6 DEF UnknownWrite, Wrote, Row
<1>7. CASE CancelWrite
  BY <1>0, <1>3, <1>7 DEF CancelWrite, Wrote, Row
<1>8. CASE FeeWrite
  BY <1>0, <1>2, <1>8 DEF FeeWrite, Wrote, Row
<1>9. CASE SnapshotWrite
  <2> DEFINE code == worker.snap.code
  <2>1. row'.status = StorageStatus(BrokerStatus(code), row.status) /\ BrokerStatus(code) # "Unknown"
    BY <1>0, <1>9 DEF SnapshotWrite, Wrote, Row
  <2>2. code \in {1, 5, 10, 11, 12, 15, 21}
    <3>1. code \in SnapCode /\ BrokerStatus(-1) = "Unknown"
      BY DEF VersionInv, BrokerStatus
    <3> QED
      BY <2>1, <3>1 DEF SnapCode
  <2>3. /\ code = 11 => BrokerFilled
        /\ code = 15 => ~BrokerFilled /\ broker.state = "cancelled"
        /\ code = 21 => ~BrokerFilled /\ broker.state = "failed"
    BY DEF WorkerTrue
  <2> HIDE DEF code
  <2>4. CASE code = 11
    <3>1. row'.status = "FILLED"
      BY <2>1, <2>4 DEF StorageStatus, BrokerStatus
    <3> QED
      BY <1>0, <1>1, <2>3, <2>4, <3>1, OutcomeIs DEF BrokerSettled
  <2>5. CASE code = 15
    <3>1. row'.status = "CANCELLED"
      BY <2>1, <2>5 DEF StorageStatus, BrokerStatus
    <3> QED
      BY <1>0, <1>1, <2>3, <2>5, <3>1, OutcomeIs DEF BrokerSettled
  <2>6. CASE code = 21
    <3>1. row'.status = "FAILED"
      BY <2>1, <2>6 DEF StorageStatus, BrokerStatus
    <3> QED
      BY <1>0, <1>1, <2>3, <2>6, <3>1, OutcomeIs DEF BrokerSettled
  <2>7. CASE code \in {1, 5, 10, 12}
    <3>1. row'.status \in {"SUBMITTING", "SUBMITTED", "PARTIALLY_FILLED", "CANCEL_SUBMITTED"}
      BY <2>1, <2>7 DEF StorageStatus, BrokerStatus
    <3> QED
      BY <1>3, <3>1
  <2> QED
    BY <2>2, <2>4, <2>5, <2>6, <2>7
<1>10. CASE FillWrite
  <2> DEFINE new == AppliedQuantity(journal, UnitFill(Min(worker.todo)))
  <2>1. row'.status = FillStatus(row, new)
    BY <1>0, <1>10 DEF FillWrite, Wrote, Row
  <2>2. new \in {0, 1} /\ (new = 1 => row.filled + 1 <= broker.fills)
    BY <1>10, FillFits
  <2> HIDE DEF new
  <2>3. CASE new = 1 /\ row.filled + new >= Quantity
    <3>1. row'.status = "FILLED"
      BY <2>1, <2>3 DEF FillStatus
    <3>2. BrokerFilled
      BY <1>0, <2>2, <2>3 DEF BrokerFilled
    <3> QED
      BY <1>0, <1>1, <3>1, <3>2, OutcomeIs DEF BrokerSettled
  <2>4. CASE ~(new = 1 /\ row.filled + new >= Quantity)
    <3>1. row'.status = row.status \/ row'.status = "PARTIALLY_FILLED"
      BY <2>1, <2>2, <2>4 DEF FillStatus
    <3> QED
      BY <1>2, <1>3, <3>1
  <2> QED
    BY <2>3, <2>4
<1> QED
  BY <1>4, <1>5, <1>6, <1>7, <1>8, <1>9, <1>10, Steps DEF Write

LEMMA FillInit == Init => FillInv
<1> SUFFICES ASSUME Init PROVE FillInv
  OBVIOUS
<1>1. row = Reserved /\ journal = <<>> /\ worker = IdleWorker /\ broker.fills = 0
  BY DEF Init
<1>2. DOMAIN journal = {}
  BY <1>1
<1>3. EventsTrue
  BY <1>2 DEF EventsTrue
<1>4. Accounted = {}
  BY <1>2 DEF Accounted
<1>5. FilledBound
  <2>1. Cardinality(Accounted) = 0
    BY <1>4, FS_EmptySet
  <2> QED
    BY <1>1, <2>1 DEF FilledBound, Reserved
<1>6. WorkerTrue
  BY <1>1 DEF WorkerTrue, IdleWorker, NoSnapshot
<1>7. SettlementTrue
  <2>1. row.status = "SUBMITTING"
    BY <1>1 DEF Reserved
  <2> QED
    BY <2>1 DEF SettlementTrue, IsTerminal, CanonicalStored, TerminalStatus
<1> QED
  BY <1>3, <1>5, <1>6, <1>7 DEF FillInv

\* What the filled quantity and the settled status rest on holds throughout.
THEOREM FillsAccounted == Spec => []FillInv
<1>1. TypeInv /\ VersionInv /\ FillInv /\ [Next]_vars => FillInv'
  BY EventsStep, WorkerTrueStep, FilledStep, SettlementStep DEF FillInv
<1> QED
  BY <1>1, FillInit, Versions, PTL DEF Spec

(***************************************************************************)
(* SettlementTrue: FILLED, CANCELLED or FAILED is stored only when the     *)
(* broker settled the order that way, whatever the age of the copies that  *)
(* cancel_order, persist_external_success and the reconciliation worker    *)
(* write from.                                                             *)
(***************************************************************************)
THEOREM SettlementIsTrue == Spec => []SettlementTrue
<1>1. FillInv => SettlementTrue
  BY DEF FillInv
<1> QED
  BY <1>1, FillsAccounted, PTL

(***************************************************************************)
(* NeverOverfilled: apply_broker_snapshot and apply_fill_snapshot together *)
(* never bring filled_quantity above what the broker executed.             *)
(***************************************************************************)
THEOREM NeverOverfills == Spec => []NeverOverfilled
<1>1. TypeInv /\ FillInv => NeverOverfilled
  <2> SUFFICES ASSUME TypeInv, FillInv PROVE NeverOverfilled
    OBVIOUS
  <2>1. row.filled \in Nat /\ broker.fills \in 0..Quantity /\ journal \in Seq(EventRecord)
    BY DEF TypeInv, TypeOK, Row, EventRecord
  <2>2. Cardinality(Accounted) \in Nat /\ Cardinality(Accounted) <= broker.fills
    BY <2>1, AccountedBound DEF FillInv
  <2> QED
    BY <2>1, <2>2, LifecycleAssumption DEF FillInv, FilledBound, NeverOverfilled
<1> QED
  BY <1>1, Versions, FillsAccounted, PTL
=============================================================================
