------------------------ MODULE FillAccounting_proofs ------------------------
(***************************************************************************)
(* Proofs about FillAccounting, for any quantity, any number of seconds    *)
(* and any number of lagging snapshots.                                    *)
(***************************************************************************)
EXTENDS FillAccounting, FiniteSetTheorems, FunctionTheorems, NaturalsInduction,
        SequenceTheorems, WellFoundedInduction, TLAPS

EventRecord == [kind : {"snapshot", "fill", "fee", "cancel"}, id : 0..Quantity,
                qty : 0..Quantity, at : 0..MaxTime]
RowRecord == [status : StoredStatus, code : BrokerCode, filled : Nat, fees : BOOLEAN]

\* The broker executes at most the quantity asked for.
TypeInv == TypeOK /\ IsFiniteSet(fills) /\ Executed(fills) \in 0..Quantity

\* What had been executed by the end of a second.
UpTo(fs, at) == {f \in fs : f.at <= at}

\* The execution a journaled fill reports.
FillOf(i) == [id |-> journal[i].id, qty |-> journal[i].qty, at |-> journal[i].at]

(***************************************************************************)
(* Every report is true: a cumulative quantity does not exceed what had    *)
(* been executed by its time, and a journaled fill is an execution and is  *)
(* journaled once.                                                         *)
(***************************************************************************)
ReportsTrue ==
    /\ \A f \in fills : f.at <= clock
    /\ \A v \in past : v.qty <= Executed(UpTo(fills, v.at))
    /\ pass.snap.qty <= Executed(UpTo(fills, pass.snap.at))
    /\ \A j \in DOMAIN journal : journal[j].kind = "snapshot" =>
          journal[j].qty <= Executed(UpTo(fills, journal[j].at))
    /\ \A j \in DOMAIN journal : journal[j].kind = "fill" => FillOf(j) \in fills
    /\ \A j, k \in DOMAIN journal :
          journal[j].kind = "fill" /\ journal[k].kind = "fill"
              /\ journal[j].id = journal[k].id => j = k

(***************************************************************************)
(* The filled quantity is at most what the journaled fills add up to, or   *)
(* at most one journaled snapshot and the journaled fills after its time.  *)
(***************************************************************************)
Known == KnownUpTo(journal, MaxTime)

Reached(j) ==
    journal[j].kind = "snapshot"
      /\ row.filled <= journal[j].qty + (Known - KnownUpTo(journal, journal[j].at))

FilledBound == row.filled <= Known \/ \E j \in DOMAIN journal : Reached(j)

AccountInv == ReportsTrue /\ FilledBound

----------------------------------------------------------------------------
(* Counting units. *)

StrictlyLess == {p \in Nat \X Nat : p[1] < p[2]}

\* A non-empty set of numbers has a least one.
LEMMA Least ==
    ASSUME NEW S \in SUBSET Nat, S # {}
    PROVE  \E n \in S : \A m \in S : n <= m
<1>1. IsWellFoundedOn(StrictlyLess, Nat)
  BY NatLessThanWellFounded DEF OpToRel, StrictlyLess
<1>2. PICK n \in S : \A m \in S : ~ (<<m, n>> \in StrictlyLess)
  BY <1>1, WFMin
<1>3. ASSUME NEW m \in S PROVE n <= m
  <2>1. <<m, n>> \in Nat \X Nat /\ <<m, n>>[1] = m /\ <<m, n>>[2] = n
    OBVIOUS
  <2>2. ~ (m < n)
    BY <1>2, <2>1 DEF StrictlyLess
  <2> QED
    BY <2>2
<1> QED
  BY <1>3

\* A bounded non-empty set of numbers has a greatest one.
LEMMA MaxIn ==
    ASSUME NEW n \in Nat, NEW S \in SUBSET (0..n), S # {}
    PROVE  Max(S) \in S /\ \A y \in S : Max(S) >= y
<1> DEFINE T == {n - y : y \in S}
<1>0. \A y \in S : n - y \in Nat
  OBVIOUS
<1>1. T \in SUBSET Nat /\ T # {}
  BY <1>0
<1>2. PICK t \in T : \A u \in T : t <= u
  BY <1>1, Least
<1>3. PICK x \in S : t = n - x
  BY <1>2
<1>4. \A y \in S : n - x <= n - y
  BY <1>2, <1>3
<1>5. \A y \in S : x >= y
  BY <1>4
<1> HIDE DEF T
<1> QED
  BY <1>5 DEF Max

LEMMA Counting ==
    ASSUME NEW n \in Nat
    PROVE  IsFiniteSet(1..n) /\ Cardinality(1..n) = n
<1>1. 1 \in Int /\ n \in Int
  OBVIOUS
<1>2. IsFiniteSet(1..n) /\ Cardinality(1..n) = IF 1 > n THEN 0 ELSE n - 1 + 1
  BY <1>1, FS_Interval
<1> QED
  BY <1>2

LEMMA DisjointSum ==
    ASSUME NEW S, IsFiniteSet(S), NEW T, IsFiniteSet(T), S \cap T = {}
    PROVE  /\ IsFiniteSet(S \cup T)
           /\ Cardinality(S \cup T) = Cardinality(S) + Cardinality(T)
<1>1. Cardinality(S \cap T) = 0 /\ Cardinality(S) \in Nat /\ Cardinality(T) \in Nat
  BY FS_EmptySet, FS_CardinalityType
<1>2. /\ IsFiniteSet(S \cup T)
      /\ Cardinality(S \cup T) = Cardinality(S) + Cardinality(T) - Cardinality(S \cap T)
  BY FS_Union
<1> QED
  BY <1>1, <1>2

\* The units of one fill.
LEMMA Column ==
    ASSUME NEW x, NEW n \in Nat
    PROVE  IsFiniteSet({x} \X (1..n)) /\ Cardinality({x} \X (1..n)) = n
<1>1. IsFiniteSet({x}) /\ Cardinality({x}) = 1
  BY FS_Singleton
<1>2. IsFiniteSet(1..n) /\ Cardinality(1..n) = n
  BY Counting
<1>3. /\ IsFiniteSet({x} \X (1..n))
      /\ Cardinality({x} \X (1..n)) = Cardinality({x}) * Cardinality(1..n)
  BY <1>1, <1>2, FS_Product
<1> QED
  BY <1>1, <1>2, <1>3

LEMMA Events ==
    ASSUME NEW J \in Seq(EventRecord)
    PROVE  /\ Len(J) \in Nat /\ DOMAIN J = 1..Len(J)
           /\ \A j \in DOMAIN J : /\ J[j] \in EventRecord
                                  /\ J[j].id \in 0..Quantity /\ J[j].qty \in 0..Quantity
                                  /\ J[j].at \in 0..MaxTime /\ J[j].qty \in Nat /\ J[j].at \in Nat
<1>1. Len(J) \in Nat /\ DOMAIN J = 1..Len(J) /\ \A j \in DOMAIN J : J[j] \in EventRecord
  BY ElementOfSeq, LenProperties
<1> QED
  BY <1>1, AccountingAssumption DEF EventRecord

LEMMA InKnown ==
    ASSUME NEW J, NEW at, NEW u
    PROVE  u \in KnownUnits(J, at) <=>
             \E i \in DOMAIN J : /\ J[i].kind = "fill" /\ J[i].at <= at
                                 /\ u \in {i} \X (1..J[i].qty)
  BY DEF KnownUnits

\* The units of the journaled fills are finitely many.
LEMMA KnownIs ==
    ASSUME NEW J \in Seq(EventRecord), NEW at
    PROVE  /\ IsFiniteSet(KnownUnits(J, at)) /\ KnownUpTo(J, at) \in Nat
           /\ KnownUnits(J, at) \in SUBSET ((DOMAIN J) \X (1..Quantity))
<1>1. ASSUME NEW u \in KnownUnits(J, at) PROVE u \in (DOMAIN J) \X (1..Quantity)
  <2>1. PICK i \in DOMAIN J : /\ J[i].kind = "fill" /\ J[i].at <= at
                              /\ u \in {i} \X (1..J[i].qty)
    BY <1>1, InKnown
  <2>2. J[i].qty \in 0..Quantity
    BY Events
  <2> QED
    BY <2>1, <2>2, AccountingAssumption
<1>2. IsFiniteSet(1..Len(J)) /\ IsFiniteSet(1..Quantity) /\ DOMAIN J = 1..Len(J)
  BY Events, AccountingAssumption, Counting
<1>3. IsFiniteSet((DOMAIN J) \X (1..Quantity))
  BY <1>2, FS_Product
<1>4. IsFiniteSet(KnownUnits(J, at))
  BY <1>1, <1>3, FS_Subset
<1> QED
  BY <1>1, <1>4, FS_CardinalityType DEF KnownUpTo

LEMMA KnownGrows ==
    ASSUME NEW J \in Seq(EventRecord), NEW a \in Nat, NEW b \in Nat, a <= b
    PROVE  /\ KnownUnits(J, a) \subseteq KnownUnits(J, b)
           /\ KnownUpTo(J, a) <= KnownUpTo(J, b)
<1>1. ASSUME NEW u \in KnownUnits(J, a) PROVE u \in KnownUnits(J, b)
  <2>1. PICK i \in DOMAIN J : /\ J[i].kind = "fill" /\ J[i].at <= a
                              /\ u \in {i} \X (1..J[i].qty)
    BY <1>1, InKnown
  <2>2. J[i].at <= b
    BY <2>1, Events
  <2> QED
    BY <2>1, <2>2, InKnown
<1>2. KnownUnits(J, a) \subseteq KnownUnits(J, b)
  BY <1>1
<1>3. IsFiniteSet(KnownUnits(J, b))
  BY KnownIs
<1> QED
  BY <1>2, <1>3, FS_Subset DEF KnownUpTo

LEMMA Appended ==
    ASSUME NEW J \in Seq(EventRecord), NEW e \in EventRecord
    PROVE  /\ Append(J, e) \in Seq(EventRecord)
           /\ DOMAIN Append(J, e) = (DOMAIN J) \cup {Len(J) + 1}
           /\ Len(J) + 1 \notin DOMAIN J
           /\ \A j \in DOMAIN J : Append(J, e)[j] = J[j]
           /\ Append(J, e)[Len(J) + 1] = e
<1>1. Len(J) \in Nat /\ DOMAIN J = 1..Len(J)
  BY Events
<1>2. /\ Append(J, e) \in Seq(EventRecord) /\ Len(Append(J, e)) = Len(J) + 1
      /\ \A i \in 1..Len(J) : Append(J, e)[i] = J[i]
      /\ Append(J, e)[Len(J) + 1] = e
  BY AppendProperties
<1>3. DOMAIN Append(J, e) = 1..(Len(J) + 1)
  BY <1>2, Events
<1> QED
  BY <1>1, <1>2, <1>3

\* What a new event adds to the known quantity.
LEMMA KnownAppended ==
    ASSUME NEW J \in Seq(EventRecord), NEW e \in EventRecord, NEW at \in Nat
    PROVE  KnownUpTo(Append(J, e), at) =
             IF e.kind = "fill" /\ e.at <= at THEN KnownUpTo(J, at) + e.qty ELSE KnownUpTo(J, at)
<1> DEFINE A == Append(J, e)
           n == Len(J) + 1
           U == KnownUnits(J, at)
           V == {n} \X (1..e.qty)
<1>1. /\ DOMAIN A = (DOMAIN J) \cup {n} /\ n \notin DOMAIN J
      /\ \A j \in DOMAIN J : A[j] = J[j]
      /\ A[n] = e
  BY Appended
<1>2. \A u : u \in KnownUnits(A, at) <=>
          u \in U \/ (e.kind = "fill" /\ e.at <= at /\ u \in V)
  <2> SUFFICES ASSUME NEW u
               PROVE  u \in KnownUnits(A, at) <=>
                        u \in U \/ (e.kind = "fill" /\ e.at <= at /\ u \in V)
    OBVIOUS
  <2>1. u \in KnownUnits(A, at) <=>
          \E i \in DOMAIN A : /\ A[i].kind = "fill" /\ A[i].at <= at
                              /\ u \in {i} \X (1..A[i].qty)
    BY InKnown
  <2>2. u \in U <=>
          \E i \in DOMAIN J : /\ J[i].kind = "fill" /\ J[i].at <= at
                              /\ u \in {i} \X (1..J[i].qty)
    BY InKnown
  <2> HIDE DEF A, n, U
  <2> QED
    BY <1>1, <2>1, <2>2
<1>3. IsFiniteSet(U) /\ U \in SUBSET ((DOMAIN J) \X (1..Quantity))
  BY KnownIs
<1>4. U \cap V = {}
  <2> SUFFICES ASSUME NEW u \in U, u \in V PROVE FALSE
    OBVIOUS
  <2>1. u[1] \in DOMAIN J
    BY <1>3
  <2>2. u[1] = n
    OBVIOUS
  <2> QED
    BY <1>1, <2>1, <2>2
<1>5. e.qty \in Nat
  BY AccountingAssumption DEF EventRecord
<1>6. IsFiniteSet(V) /\ Cardinality(V) = e.qty
  BY <1>5, Column
<1> HIDE DEF A, n, U, V
<1>7. CASE e.kind = "fill" /\ e.at <= at
  <2>1. KnownUnits(A, at) = U \cup V
    BY <1>2, <1>7
  <2>2. Cardinality(U \cup V) = Cardinality(U) + Cardinality(V)
    BY <1>3, <1>4, <1>6, DisjointSum
  <2> QED
    BY <1>6, <1>7, <2>1, <2>2 DEF KnownUpTo, A, U
<1>8. CASE ~(e.kind = "fill" /\ e.at <= at)
  <2>1. KnownUnits(A, at) = U
    BY <1>2, <1>8
  <2> QED
    BY <1>8, <2>1 DEF KnownUpTo, A, U
<1> QED
  BY <1>7, <1>8

\* The snapshot quantity a fill is compared with.
LEMMA BestIs ==
    ASSUME NEW J \in Seq(EventRecord), NEW at \in Nat
    PROVE  /\ BestSnapshot(J, at) \in Nat
           /\ \A j \in DOMAIN J : J[j].kind = "snapshot" /\ J[j].at >= at
                                      => BestSnapshot(J, at) >= J[j].qty
<1> DEFINE D == {j \in DOMAIN J : J[j].kind = "snapshot" /\ J[j].at >= at}
           S == {0} \cup {J[i].qty : i \in D}
<1>1. \A i \in D : J[i].qty \in 0..Quantity
  BY Events
<1>2. S \in SUBSET (0..Quantity) /\ S # {}
  BY <1>1, AccountingAssumption
<1>3. Max(S) \in S /\ \A y \in S : Max(S) >= y
  BY <1>2, AccountingAssumption, MaxIn
<1>4. BestSnapshot(J, at) = Max(S)
  BY DEF BestSnapshot
<1>5. \A j \in D : J[j].qty \in S
  OBVIOUS
<1>6. BestSnapshot(J, at) \in Nat
  BY <1>2, <1>3, <1>4, AccountingAssumption
<1>7. ASSUME NEW j \in DOMAIN J, J[j].kind = "snapshot" /\ J[j].at >= at
      PROVE  BestSnapshot(J, at) >= J[j].qty
  <2>1. j \in D
    BY <1>7
  <2> HIDE DEF S, D
  <2> QED
    BY <1>3, <1>4, <1>5, <2>1
<1> QED
  BY <1>6, <1>7

\* apply_fill_snapshot adds what the snapshots of the time do not cover.
LEMMA Applied ==
    ASSUME NEW J \in Seq(EventRecord), NEW f \in Fills
    PROVE  /\ AppliedQuantity(J, f) \in 0..f.qty
           /\ AppliedQuantity(J, f) = 0
              \/ (/\ BestSnapshot(J, f.at) <= KnownUpTo(J, f.at)
                  /\ AppliedQuantity(J, f) = f.qty)
              \/ (/\ BestSnapshot(J, f.at) > KnownUpTo(J, f.at)
                  /\ AppliedQuantity(J, f) =
                       f.qty - (BestSnapshot(J, f.at) - KnownUpTo(J, f.at)))
<1>1. f.qty \in Nat /\ f.at \in Nat
  BY AccountingAssumption DEF Fills
<1>2. BestSnapshot(J, f.at) \in Nat /\ KnownUpTo(J, f.at) \in Nat
  BY <1>1, BestIs, KnownIs
<1> QED
  BY <1>1, <1>2 DEF AppliedQuantity, CoveredBySnapshot, Larger, Smaller

LEMMA InUnits ==
    ASSUME NEW fs, NEW u
    PROVE  u \in UnitsOf(fs) <=> \E f \in fs : u \in {f} \X (1..f.qty)
  BY DEF UnitsOf

\* What was executed, counted unit by unit.
LEMMA UnitsAre ==
    ASSUME NEW fs \in SUBSET Fills, IsFiniteSet(fs)
    PROVE  /\ IsFiniteSet(UnitsOf(fs)) /\ Executed(fs) \in Nat
           /\ UnitsOf(fs) \in SUBSET (fs \X (1..Quantity))
<1>1. ASSUME NEW u \in UnitsOf(fs) PROVE u \in fs \X (1..Quantity)
  <2>1. PICK f \in fs : u \in {f} \X (1..f.qty)
    BY <1>1, InUnits
  <2>2. f.qty \in 1..Quantity
    BY DEF Fills
  <2> QED
    BY <2>1, <2>2, AccountingAssumption
<1>2. IsFiniteSet(1..Quantity)
  BY AccountingAssumption, Counting
<1>3. IsFiniteSet(fs \X (1..Quantity))
  BY <1>2, FS_Product
<1>4. IsFiniteSet(UnitsOf(fs))
  BY <1>1, <1>3, FS_Subset
<1> QED
  BY <1>1, <1>4, FS_CardinalityType DEF Executed

\* Disjoint sets of executions add up.
LEMMA ExecutedSum ==
    ASSUME NEW fs \in SUBSET Fills, IsFiniteSet(fs), NEW gs \in SUBSET Fills, IsFiniteSet(gs),
           fs \cap gs = {}
    PROVE  Executed(fs \cup gs) = Executed(fs) + Executed(gs)
<1>1. UnitsOf(fs \cup gs) = UnitsOf(fs) \cup UnitsOf(gs)
  <2> SUFFICES ASSUME NEW u
               PROVE  u \in UnitsOf(fs \cup gs) <=> u \in UnitsOf(fs) \/ u \in UnitsOf(gs)
    OBVIOUS
  <2> QED
    BY InUnits
<1>2. /\ IsFiniteSet(UnitsOf(fs)) /\ UnitsOf(fs) \in SUBSET (fs \X (1..Quantity))
      /\ IsFiniteSet(UnitsOf(gs)) /\ UnitsOf(gs) \in SUBSET (gs \X (1..Quantity))
  BY UnitsAre
<1>3. UnitsOf(fs) \cap UnitsOf(gs) = {}
  <2> SUFFICES ASSUME NEW u \in UnitsOf(fs), u \in UnitsOf(gs) PROVE FALSE
    OBVIOUS
  <2>1. u[1] \in fs /\ u[1] \in gs
    BY <1>2
  <2> QED
    BY <2>1
<1> QED
  BY <1>1, <1>2, <1>3, DisjointSum DEF Executed

LEMMA ExecutedOne ==
    ASSUME NEW f \in Fills
    PROVE  IsFiniteSet({f}) /\ Executed({f}) = f.qty
<1>1. UnitsOf({f}) = {f} \X (1..f.qty)
  BY DEF UnitsOf
<1>2. f.qty \in Nat
  BY AccountingAssumption DEF Fills
<1>3. Cardinality({f} \X (1..f.qty)) = f.qty
  BY <1>2, Column
<1>4. IsFiniteSet({f})
  BY FS_Singleton
<1> QED
  BY <1>1, <1>3, <1>4 DEF Executed

LEMMA ExecutedNone == Executed({}) = 0
<1>1. UnitsOf({}) = {}
  BY DEF UnitsOf
<1> QED
  BY <1>1, FS_EmptySet DEF Executed

LEMMA ExecutedGrows ==
    ASSUME NEW gs \in SUBSET Fills, IsFiniteSet(gs), NEW fs \in SUBSET gs
    PROVE  Executed(fs) <= Executed(gs) /\ Executed(fs) \in Nat /\ IsFiniteSet(fs)
<1>1. IsFiniteSet(fs) /\ fs \in SUBSET Fills
  BY FS_Subset
<1>2. UnitsOf(fs) \subseteq UnitsOf(gs)
  <2> SUFFICES ASSUME NEW u \in UnitsOf(fs) PROVE u \in UnitsOf(gs)
    OBVIOUS
  <2> QED
    BY InUnits
<1>3. IsFiniteSet(UnitsOf(gs)) /\ Executed(fs) \in Nat
  BY <1>1, UnitsAre
<1> QED
  BY <1>1, <1>2, <1>3, FS_Subset DEF Executed

----------------------------------------------------------------------------
(* Type correctness. *)

\* The next fill is one of those read.
LEMMA EarliestIn ==
    ASSUME NEW fs \in SUBSET Fills, fs # {}
    PROVE  Earliest(fs) \in fs
<1> DEFINE times == {f.at : f \in fs}
<1>0. \A f \in fs : f.at \in Nat /\ f.id \in Nat
  BY AccountingAssumption DEF Fills, FillIds
<1>1. times \in SUBSET Nat /\ times # {}
  BY <1>0
<1>2. PICK t \in times : \A u \in times : t <= u
  BY <1>1, Least
<1> DEFINE ids == {f.id : f \in {g \in fs : g.at = t}}
<1>3. ids \in SUBSET Nat /\ ids # {}
  BY <1>0, <1>2
<1>4. PICK n \in ids : \A m \in ids : n <= m
  BY <1>3, Least
<1>5. PICK f \in fs : f.at = t /\ f.id = n
  BY <1>4
<1>6. \A g \in fs : t <= g.at /\ (g.at = t => n <= g.id)
  BY <1>2, <1>4
<1>7. ASSUME NEW g \in fs PROVE ~Earlier(g, f)
  BY <1>0, <1>5, <1>6 DEF Earlier
<1> HIDE DEF times, ids
<1> QED
  BY <1>7 DEF Earliest

LEMMA ViewTyped ==
    ASSUME NEW fs, Executed(fs) \in 0..Quantity, NEW gone, NEW at \in 0..MaxTime
    PROVE  /\ View(fs, gone, at) \in Views
           /\ View(fs, gone, at).qty = Executed(fs) /\ View(fs, gone, at).at = at
<1> DEFINE code == View(fs, gone, at).code
<1>1. code \in {5, 10, 11, 15}
  BY DEF View
<1>2. View(fs, gone, at) = [code |-> code, qty |-> Executed(fs), at |-> at]
  BY DEF View
<1> HIDE DEF code
<1> QED
  BY <1>1, <1>2 DEF Views

LEMMA IdleTyped ==
    /\ IdlePass \in [pc : {"idle", "snapshot", "fills", "apply"}, snap : Views, todo : {{}}]
    /\ IdlePass.snap.qty = 0 /\ IdlePass.snap.at = 0
<1>1. Executed({}) = 0 /\ 0 \in 0..Quantity /\ 0 \in 0..MaxTime
  BY ExecutedNone, AccountingAssumption
<1>2. /\ View({}, FALSE, 0) \in Views
      /\ View({}, FALSE, 0).qty = 0 /\ View({}, FALSE, 0).at = 0
  BY <1>1, ViewTyped
<1> QED
  BY <1>2 DEF IdlePass

LEMMA StatusTyped ==
    ASSUME NEW code \in {5, 10, 11, 15}, NEW status \in StoredStatus
    PROVE  StorageStatus(BrokerStatus(code), status) \in StoredStatus /\ code \in BrokerCode
  BY DEF StorageStatus, BrokerStatus, StoredStatus, BrokerCode

\* What the broker has executed only grows, and by executions of the present.
LEMMA BrokerStep ==
    ASSUME TypeInv, [Next]_vars
    PROVE  /\ fills \subseteq fills' /\ fills' \in SUBSET Fills /\ IsFiniteSet(fills')
           /\ Executed(fills') \in 0..Quantity
           /\ clock' \in 1..MaxTime /\ clock' >= clock
           /\ changed' \in 1..MaxTime /\ cancelled' \in BOOLEAN
           /\ \A f \in fills' : f \in fills \/ f.at = clock'
           /\ \/ past' = past
              \/ /\ past' = past \cup {View(fills', cancelled', clock')}
                 /\ clock' = clock
<1>0. /\ fills \in SUBSET Fills /\ IsFiniteSet(fills) /\ Executed(fills) \in 0..Quantity
      /\ clock \in 1..MaxTime /\ changed \in 1..MaxTime /\ cancelled \in BOOLEAN
  BY DEF TypeInv, TypeOK
<1>1. CASE Tick
  BY <1>0, <1>1, AccountingAssumption DEF Tick
<1>2. CASE BrokerCancel
  BY <1>0, <1>2, AccountingAssumption DEF BrokerCancel, BrokerChanges
<1>3. ASSUME NEW q \in 1..Quantity, NEW id \in FillIds, Execute(q, id)
      PROVE  /\ fills \subseteq fills' /\ fills' \in SUBSET Fills /\ IsFiniteSet(fills')
             /\ Executed(fills') \in 0..Quantity
             /\ clock' = clock /\ changed' = clock /\ cancelled' = cancelled
             /\ \A f \in fills' : f \in fills \/ f.at = clock'
             /\ past' = past \cup {View(fills', cancelled', clock)}
  <2> DEFINE f == [id |-> id, qty |-> q, at |-> clock]
  <2>1. f \in Fills /\ f.qty = q /\ f.at = clock /\ f.id = id
    BY <1>0 DEF Fills
  <2>2. /\ fills' = fills \cup {f} /\ clock' = clock /\ changed' = clock /\ cancelled' = cancelled
        /\ past' = past \cup {View(fills \cup {f}, cancelled, clock)}
        /\ q <= Quantity - Executed(fills) /\ id \notin {g.id : g \in fills}
    BY <1>3 DEF Execute, BrokerChanges
  <2> HIDE DEF f
  <2>3. f \notin fills
    BY <2>1, <2>2
  <2>4. IsFiniteSet({f}) /\ Executed({f}) = q
    BY <2>1, ExecutedOne
  <2>5. Executed(fills \cup {f}) = Executed(fills) + q
    <3>1. fills \cap {f} = {} /\ {f} \in SUBSET Fills
      BY <2>1, <2>3
    <3> QED
      BY <1>0, <2>4, <3>1, ExecutedSum
  <2>6. IsFiniteSet(fills')
    BY <1>0, <2>2, <2>4, FS_Union
  <2>7. Executed(fills') \in 0..Quantity
    BY <1>0, <2>2, <2>5, AccountingAssumption
  <2> QED
    BY <1>0, <2>1, <2>2, <2>6, <2>7
<1>4. CASE UNCHANGED <<clock, fills, cancelled, changed, past>>
  BY <1>0, <1>4
<1>5. Tick \/ BrokerCancel \/ (\E q \in 1..Quantity, id \in FillIds : Execute(q, id))
        \/ UNCHANGED <<clock, fills, cancelled, changed, past>>
  BY DEF Next, Broker, Pass, ReadSnapshot, ApplySnapshot, ReadFills, ApplyFill, ReadFees,
     CancelFence, vars
<1>6. CASE \E q \in 1..Quantity, id \in FillIds : Execute(q, id)
  BY <1>0, <1>3, <1>6, AccountingAssumption
<1> QED
  BY <1>1, <1>2, <1>4, <1>5, <1>6

\* The three ways the journal grows, and what each does to the filled quantity.
PlainEvent(e) == e.kind \notin {"snapshot", "fill"} /\ row'.filled = row.filled

SnapshotEvent(e) ==
    /\ e.kind = "snapshot" /\ e.qty = pass.snap.qty /\ e.at = pass.snap.at
    /\ row'.filled = Larger(e.qty, row.filled)

FillEvent(e) ==
    \E f \in fills :
        /\ e.kind = "fill" /\ e.id = f.id /\ e.qty = f.qty /\ e.at = f.at
        /\ ~Journaled(journal, f)
        /\ row'.filled = row.filled + AppliedQuantity(journal, f)

LEMMA WriteStep ==
    ASSUME TypeInv, [Next]_vars
    PROVE  /\ row' \in RowRecord
           /\ \/ journal' = journal /\ row'.filled = row.filled
              \/ \E e \in EventRecord :
                    /\ journal' = Append(journal, e)
                    /\ PlainEvent(e) \/ SnapshotEvent(e) \/ FillEvent(e)
<1>0. /\ row \in RowRecord /\ journal \in Seq(EventRecord) /\ fills \in SUBSET Fills
      /\ pass.snap \in Views /\ pass.todo \in SUBSET fills
  BY DEF TypeInv, TypeOK, RowRecord, EventRecord
<1>1. /\ row.status \in StoredStatus /\ row.code \in BrokerCode /\ row.filled \in Nat
      /\ row.fees \in BOOLEAN
  BY <1>0 DEF RowRecord
<1>2. CASE UNCHANGED <<row, journal>>
  BY <1>0, <1>2
<1>3. CASE ApplySnapshot
  <2> DEFINE v == pass.snap
             status == StorageStatus(BrokerStatus(v.code), row.status)
             next == [row EXCEPT !.status = status, !.code = v.code,
                                 !.filled = FilledAfterSnapshot(v.qty, row.filled)]
             e == [kind |-> "snapshot", id |-> 0, qty |-> v.qty, at |-> v.at]
  <2>1. v.code \in {5, 10, 11, 15} /\ v.qty \in 0..Quantity /\ v.at \in 0..MaxTime /\ v.qty \in Nat
    BY <1>0, AccountingAssumption DEF Views
  <2>2. status \in StoredStatus /\ v.code \in BrokerCode
    BY <1>1, <2>1, StatusTyped
  <2>3. FilledAfterSnapshot(v.qty, row.filled) \in Nat
    BY <1>1, <2>1 DEF FilledAfterSnapshot, Larger
  <2>4. next \in RowRecord /\ next.filled = Larger(v.qty, row.filled)
    <3> HIDE DEF status, v
    <3> QED
      BY <1>0, <2>2, <2>3 DEF RowRecord, FilledAfterSnapshot
  <2>5. /\ e \in EventRecord /\ e.kind = "snapshot" /\ e.qty = pass.snap.qty
        /\ e.at = pass.snap.at
    <3>1. 0 \in 0..Quantity
      BY AccountingAssumption
    <3> QED
      BY <2>1, <3>1 DEF EventRecord
  <2>6. (row' = next /\ journal' = Append(journal, e)) \/ UNCHANGED <<row, journal>>
    BY <1>3 DEF ApplySnapshot
  <2> HIDE DEF next, e, v, status
  <2>7. CASE row' = next /\ journal' = Append(journal, e)
    <3>1. SnapshotEvent(e)
      BY <2>4, <2>5, <2>7 DEF SnapshotEvent, v
    <3> QED
      BY <2>4, <2>5, <2>7, <3>1
  <2> QED
    BY <1>2, <2>6, <2>7
<1>4. CASE ApplyFill
  <2> DEFINE f == Earliest(pass.todo)
             new == AppliedQuantity(journal, f)
             e == [kind |-> "fill", id |-> f.id, qty |-> f.qty, at |-> f.at]
  <2>1. f \in fills /\ f \in Fills
    <3>1. pass.todo # {} /\ pass.todo \in SUBSET Fills
      BY <1>0, <1>4 DEF ApplyFill
    <3>2. f \in pass.todo
      BY <3>1, EarliestIn
    <3> QED
      BY <1>0, <3>2
  <2>2. new \in Nat
    <3>1. new \in 0..f.qty /\ f.qty \in Nat
      <4>1. new \in 0..f.qty
        BY <1>0, <2>1, Applied
      <4>2. f.qty \in Nat
        BY <2>1, AccountingAssumption DEF Fills
      <4> QED
        BY <4>1, <4>2
    <3> HIDE DEF f, new
    <3> QED
      BY <3>1
  <2>3. /\ e \in EventRecord /\ e.kind = "fill" /\ e.id = f.id /\ e.qty = f.qty
        /\ e.at = f.at
    <3> HIDE DEF f
    <3>1. f.id \in 0..Quantity /\ f.qty \in 0..Quantity /\ f.at \in 0..MaxTime
      BY <2>1, AccountingAssumption DEF Fills, FillIds
    <3> QED
      BY <3>1 DEF EventRecord
  <2>4. \/ UNCHANGED <<row, journal>>
        \/ /\ ~Journaled(journal, f)
           /\ \E status \in StoredStatus :
                 row' = [row EXCEPT !.status = status, !.filled = row.filled + new]
           /\ journal' = Append(journal, e)
    <3>1. "FILLED" \in StoredStatus /\ "PARTIALLY_FILLED" \in StoredStatus
      BY DEF StoredStatus
    <3> QED
      BY <1>1, <1>4, <3>1 DEF ApplyFill
  <2> HIDE DEF f, new, e
  <2>5. CASE /\ ~Journaled(journal, f)
             /\ \E status \in StoredStatus :
                   row' = [row EXCEPT !.status = status, !.filled = row.filled + new]
             /\ journal' = Append(journal, e)
    <3>1. row' \in RowRecord /\ row'.filled = row.filled + new
      <4>1. row.filled + new \in Nat
        BY <1>1, <2>2
      <4> QED
        BY <1>0, <2>5, <4>1 DEF RowRecord
    <3>2. FillEvent(e)
      BY <2>1, <2>3, <2>5, <3>1 DEF FillEvent, new
    <3> QED
      BY <2>3, <2>5, <3>1, <3>2
  <2> QED
    BY <1>2, <2>4, <2>5
<1>5. ASSUME NEW known \in BOOLEAN, ReadFees(known)
      PROVE  /\ row' \in RowRecord /\ row'.filled = row.filled
             /\ journal' = journal \/ \E e \in EventRecord :
                   journal' = Append(journal, e) /\ e.kind \notin {"snapshot", "fill"}
  <2> DEFINE e == [kind |-> "fee", id |-> 0, qty |-> 0, at |-> 0]
  <2>1. e \in EventRecord /\ e.kind \notin {"snapshot", "fill"}
    BY AccountingAssumption DEF EventRecord
  <2>2. row' = [row EXCEPT !.fees = @ \/ known] /\ (journal' = journal \/ journal' = Append(journal, e))
    BY <1>5 DEF ReadFees
  <2> HIDE DEF e
  <2>3. row' \in RowRecord /\ row'.filled = row.filled
    BY <1>0, <1>1, <2>2 DEF RowRecord
  <2> QED
    BY <2>1, <2>2, <2>3
<1>6. CASE CancelFence
  <2> DEFINE e == [kind |-> "cancel", id |-> 0, qty |-> 0, at |-> 0]
  <2>1. e \in EventRecord /\ e.kind \notin {"snapshot", "fill"}
    BY AccountingAssumption DEF EventRecord
  <2>2. row' = [row EXCEPT !.status = "CANCEL_SUBMITTED"] /\ journal' = Append(journal, e)
    BY <1>6 DEF CancelFence
  <2> HIDE DEF e
  <2>3. row' \in RowRecord /\ row'.filled = row.filled
    BY <1>0, <2>2 DEF RowRecord, StoredStatus
  <2> QED
    BY <2>1, <2>2, <2>3 DEF PlainEvent
<1>7. CASE \E known \in BOOLEAN : ReadFees(known)
  BY <1>5, <1>7 DEF PlainEvent
<1>8. UNCHANGED <<row, journal>> \/ ApplySnapshot \/ ApplyFill \/ CancelFence
        \/ \E known \in BOOLEAN : ReadFees(known)
  BY DEF Next, Broker, Tick, BrokerCancel, Execute, BrokerChanges, Pass, ReadSnapshot,
     ReadFills, vars
<1> QED
  BY <1>2, <1>3, <1>4, <1>6, <1>7, <1>8

PassRecord(fs) == [pc : {"idle", "snapshot", "fills", "apply"}, snap : Views, todo : SUBSET fs]

LEMMA PassStep ==
    ASSUME TypeInv, [Next]_vars
    PROVE  /\ pass' \in PassRecord(fills')
           /\ pass'.snap = pass.snap \/ pass'.snap \in past \/ pass'.snap = IdlePass.snap
           /\ lags' \in 0..MaxLags
<1>0. /\ pass \in PassRecord(fills) /\ fills \in SUBSET fills' /\ past \in SUBSET Views
      /\ lags \in 0..MaxLags
  BY BrokerStep DEF TypeInv, TypeOK, PassRecord
<1>1. ASSUME pass' = pass, lags' = lags PROVE pass' \in PassRecord(fills')
  BY <1>0, <1>1 DEF PassRecord
<1>2. ASSUME NEW v \in past, ReadSnapshot(v)
      PROVE  pass' \in PassRecord(fills') /\ pass'.snap = v /\ lags' \in 0..MaxLags
  <2>1. pass' = [pass EXCEPT !.pc = "snapshot", !.snap = v] /\ fills' = fills
    BY <1>2 DEF ReadSnapshot
  <2>2. pass' \in PassRecord(fills') /\ pass'.snap = v
    BY <1>0, <2>1 DEF PassRecord
  <2>3. lags' = lags \/ (lags < MaxLags /\ lags' = lags + 1)
    BY <1>2 DEF ReadSnapshot
  <2> QED
    BY <1>0, <2>2, <2>3, AccountingAssumption
<1>3. CASE ApplySnapshot
  <2>1. pass' = [pass EXCEPT !.pc = "fills"] /\ fills' = fills /\ lags' = lags
    BY <1>3 DEF ApplySnapshot
  <2> QED
    BY <1>0, <2>1 DEF PassRecord
<1>4. ASSUME NEW seen \in SUBSET fills, ReadFills(seen)
      PROVE  pass' \in PassRecord(fills') /\ pass'.snap = pass.snap /\ lags' = lags
  <2>1. pass' = [pass EXCEPT !.pc = "apply", !.todo = seen] /\ fills' = fills /\ lags' = lags
    BY <1>4 DEF ReadFills
  <2> QED
    BY <1>0, <2>1 DEF PassRecord
<1>5. CASE ApplyFill
  <2>1. pass' = [pass EXCEPT !.todo = @ \ {Earliest(@)}] /\ fills' = fills /\ lags' = lags
    BY <1>5 DEF ApplyFill
  <2> QED
    BY <1>0, <2>1 DEF PassRecord
<1>6. ASSUME NEW known \in BOOLEAN, ReadFees(known)
      PROVE  pass' \in PassRecord(fills') /\ pass'.snap = IdlePass.snap /\ lags' = lags
  <2>1. pass' = IdlePass /\ lags' = lags
    BY <1>6 DEF ReadFees
  <2>2. IdlePass \in PassRecord(fills')
    BY IdleTyped DEF PassRecord
  <2> QED
    BY <2>1, <2>2
<1>7. UNCHANGED <<pass, lags>> \/ (\E v \in past : ReadSnapshot(v)) \/ ApplySnapshot
        \/ (\E seen \in SUBSET fills : ReadFills(seen)) \/ ApplyFill
        \/ \E known \in BOOLEAN : ReadFees(known)
  BY DEF Next, Broker, Tick, BrokerCancel, Execute, BrokerChanges, Pass, CancelFence, vars
<1>8. CASE UNCHANGED <<pass, lags>>
  BY <1>0, <1>1, <1>8
<1>9. CASE \E v \in past : ReadSnapshot(v)
  BY <1>2, <1>9
<1>10. CASE \E seen \in SUBSET fills : ReadFills(seen)
  BY <1>0, <1>4, <1>10
<1>11. CASE \E known \in BOOLEAN : ReadFees(known)
  BY <1>0, <1>6, <1>11
<1> QED
  BY <1>3, <1>5, <1>7, <1>8, <1>9, <1>10, <1>11

LEMMA TypeInit == Init => TypeInv
<1> SUFFICES ASSUME Init PROVE TypeInv
  OBVIOUS
<1>1. /\ clock = 1 /\ fills = {} /\ cancelled = FALSE /\ changed = 1 /\ lags = 0
      /\ past = {View({}, FALSE, 1)} /\ journal = <<>> /\ pass = IdlePass
      /\ row = [status |-> "SUBMITTED", code |-> 0, filled |-> 0, fees |-> FALSE]
  BY DEF Init
<1>2. IsFiniteSet(fills) /\ Executed(fills) \in 0..Quantity /\ Executed({}) \in 0..Quantity
  BY <1>1, ExecutedNone, FS_EmptySet, AccountingAssumption
<1>3. past \in SUBSET Views
  <2>1. 1 \in 0..MaxTime
    BY AccountingAssumption
  <2>2. View({}, FALSE, 1) \in Views
    BY <1>2, <2>1, ViewTyped
  <2> QED
    BY <1>1, <2>2
<1>4. pass \in [pc : {"idle", "snapshot", "fills", "apply"}, snap : Views, todo : SUBSET fills]
  BY <1>1, IdleTyped
<1>5. row \in RowRecord
  BY <1>1 DEF RowRecord, StoredStatus, BrokerCode
<1>6. journal \in Seq(EventRecord)
  BY <1>1
<1>7. clock \in 1..MaxTime /\ changed \in 1..MaxTime /\ lags \in 0..MaxLags
  BY <1>1, AccountingAssumption
<1>8. cancelled \in BOOLEAN /\ fills \in SUBSET Fills
  BY <1>1
<1> QED
  BY <1>2, <1>3, <1>4, <1>5, <1>6, <1>7, <1>8 DEF TypeInv, TypeOK, RowRecord, EventRecord

LEMMA TypeStep ==
    ASSUME TypeInv, [Next]_vars
    PROVE  TypeInv'
<1>1. past' \in SUBSET Views
  <2>1. past \in SUBSET Views
    BY DEF TypeInv, TypeOK
  <2>2. CASE past' = past \cup {View(fills', cancelled', clock')}
    <3>1. clock' \in 0..MaxTime /\ Executed(fills') \in 0..Quantity
      BY BrokerStep, AccountingAssumption
    <3>2. View(fills', cancelled', clock') \in Views
      BY <3>1, ViewTyped
    <3> QED
      BY <2>1, <2>2, <3>2
  <2> QED
    BY <2>1, <2>2, BrokerStep
<1>2. journal' \in Seq(EventRecord)
  <2>1. journal \in Seq(EventRecord)
    BY DEF TypeInv, TypeOK, EventRecord
  <2>2. journal' = journal \/ \E e \in EventRecord : journal' = Append(journal, e)
    BY WriteStep
  <2> QED
    BY <2>1, <2>2, Appended
<1>3. row' \in RowRecord
  BY WriteStep
<1>4. pass' \in PassRecord(fills') /\ lags' \in 0..MaxLags
  BY PassStep
<1>5. /\ clock' \in 1..MaxTime /\ changed' \in 1..MaxTime /\ cancelled' \in BOOLEAN
      /\ fills' \in SUBSET Fills /\ IsFiniteSet(fills') /\ Executed(fills') \in 0..Quantity
  BY BrokerStep
<1>6. TypeOK'
  BY <1>1, <1>2, <1>3, <1>4, <1>5 DEF TypeOK, RowRecord, EventRecord, PassRecord
<1>7. (IsFiniteSet(fills) /\ Executed(fills) \in 0..Quantity)'
  BY <1>5 DEF Executed, UnitsOf
<1> QED
  BY <1>6, <1>7 DEF TypeInv

\* Every variable holds a value of its kind, and the broker executes at most
\* the quantity asked for.
THEOREM TypesHold == Spec => []TypeInv
<1>1. TypeInv /\ [Next]_vars => TypeInv'
  BY TypeStep
<1> QED
  BY <1>1, TypeInit, PTL DEF Spec

\* TypeOK: every variable holds a value of its kind.
THEOREM TypeCorrect == Spec => []TypeOK
<1>1. TypeInv => TypeOK
  BY DEF TypeInv
<1> QED
  BY <1>1, TypesHold, PTL

(***************************************************************************)
(* FilledMonotone: neither apply_broker_snapshot, whatever snapshot it is  *)
(* given, nor apply_fill_snapshot lowers filled_quantity.                  *)
(***************************************************************************)
THEOREM FilledNeverFalls == Spec => FilledMonotone
<1>1. TypeInv /\ [Next]_vars => [row'.filled >= row.filled]_vars
  <2> SUFFICES ASSUME TypeInv, [Next]_vars PROVE row'.filled >= row.filled
    OBVIOUS
  <2>0. row.filled \in Nat /\ journal \in Seq(EventRecord) /\ fills \in SUBSET Fills
    BY DEF TypeInv, TypeOK, EventRecord
  <2>1. CASE row'.filled = row.filled
    BY <2>0, <2>1
  <2>2. ASSUME NEW e \in EventRecord, SnapshotEvent(e) PROVE row'.filled >= row.filled
    <3>1. e.qty \in Nat
      BY AccountingAssumption DEF EventRecord
    <3> QED
      BY <2>0, <2>2, <3>1 DEF SnapshotEvent, Larger
  <2>3. ASSUME NEW e \in EventRecord, FillEvent(e) PROVE row'.filled >= row.filled
    <3>1. PICK f \in fills : row'.filled = row.filled + AppliedQuantity(journal, f)
      BY <2>3 DEF FillEvent
    <3>2. f.qty \in Nat /\ AppliedQuantity(journal, f) \in 0..f.qty
      BY <2>0, Applied, AccountingAssumption DEF Fills
    <3> QED
      BY <2>0, <3>1, <3>2
  <2> QED
    BY <2>1, <2>2, <2>3, WriteStep DEF PlainEvent
<1> QED
  BY <1>1, TypesHold, PTL DEF Spec, FilledMonotone

----------------------------------------------------------------------------
(* Reports. *)

\* An execution counts towards every report at or after its time, for good.
LEMMA UpToGrows ==
    ASSUME TypeInv, [Next]_vars, NEW at
    PROVE  /\ UpTo(fills, at) \subseteq UpTo(fills', at)
           /\ Executed(UpTo(fills, at)) \in Nat /\ Executed(UpTo(fills', at)) \in Nat
           /\ Executed(UpTo(fills, at)) <= Executed(UpTo(fills', at))
<1>1. fills \subseteq fills' /\ fills' \in SUBSET Fills /\ IsFiniteSet(fills')
  BY BrokerStep
<1>2. UpTo(fills, at) \in SUBSET UpTo(fills', at) /\ UpTo(fills', at) \in SUBSET fills'
  BY <1>1 DEF UpTo
<1>3. /\ IsFiniteSet(UpTo(fills', at)) /\ Executed(UpTo(fills', at)) \in Nat
      /\ UpTo(fills', at) \in SUBSET Fills
  BY <1>1, <1>2, ExecutedGrows
<1>4. Executed(UpTo(fills, at)) <= Executed(UpTo(fills', at)) /\ Executed(UpTo(fills, at)) \in Nat
  BY <1>2, <1>3, ExecutedGrows
<1> QED
  BY <1>2, <1>3, <1>4

\* A report that was true stays true.
LEMMA ReportStays ==
    ASSUME TypeInv, [Next]_vars, NEW qty \in Nat, NEW at, qty <= Executed(UpTo(fills, at))
    PROVE  qty <= Executed(UpTo(fills', at))
<1>1. Executed(UpTo(fills, at)) \in Nat /\ Executed(UpTo(fills', at)) \in Nat
      /\ Executed(UpTo(fills, at)) <= Executed(UpTo(fills', at))
  BY UpToGrows
<1> QED
  BY <1>1

LEMMA ReportsInit == Init => ReportsTrue
<1> SUFFICES ASSUME Init PROVE ReportsTrue
  OBVIOUS
<1>1. /\ fills = {} /\ past = {View({}, FALSE, 1)} /\ journal = <<>> /\ pass = IdlePass
  BY DEF Init
<1>2. \A at : Executed(UpTo(fills, at)) = 0
  <2> SUFFICES ASSUME NEW at PROVE Executed(UpTo(fills, at)) = 0
    OBVIOUS
  <2>1. UpTo(fills, at) = {}
    BY <1>1 DEF UpTo
  <2> QED
    BY <2>1, ExecutedNone
<1>3. View({}, FALSE, 1).qty = 0
  <2>1. Executed({}) \in 0..Quantity /\ 1 \in 0..MaxTime /\ Executed({}) = 0
    BY ExecutedNone, AccountingAssumption
  <2> QED
    BY <2>1, ViewTyped
<1>4. pass.snap.qty = 0
  BY <1>1, IdleTyped
<1>5. DOMAIN journal = {}
  BY <1>1
<1>6. ASSUME NEW v \in past PROVE v.qty <= Executed(UpTo(fills, v.at))
  <2>1. v.qty = 0
    BY <1>1, <1>3
  <2>2. Executed(UpTo(fills, v.at)) = 0
    BY <1>2
  <2> QED
    BY <2>1, <2>2
<1>7. pass.snap.qty <= Executed(UpTo(fills, pass.snap.at))
  BY <1>2, <1>4
<1> QED
  BY <1>1, <1>5, <1>6, <1>7 DEF ReportsTrue

LEMMA ReportsStep ==
    ASSUME TypeInv, ReportsTrue, [Next]_vars
    PROVE  ReportsTrue'
<1>0. /\ fills \in SUBSET Fills /\ journal \in Seq(EventRecord) /\ past \in SUBSET Views
      /\ pass.snap \in Views /\ clock \in 1..MaxTime
  BY DEF TypeInv, TypeOK, EventRecord
<1>1. /\ fills \subseteq fills' /\ fills' \in SUBSET Fills /\ clock' \in 1..MaxTime
      /\ clock' >= clock /\ \A f \in fills' : f \in fills \/ f.at = clock'
      /\ IsFiniteSet(fills') /\ Executed(fills') \in 0..Quantity
  BY BrokerStep
<1>2. \A f \in fills' : f.at <= clock'
  <2>1. \A f \in fills : f.at \in Nat /\ f.at <= clock
    BY <1>0, AccountingAssumption DEF ReportsTrue, Fills
  <2> QED
    BY <1>0, <1>1, <2>1, AccountingAssumption
<1>3. ASSUME NEW v \in Views, v.qty <= Executed(UpTo(fills, v.at))
      PROVE  v.qty <= Executed(UpTo(fills', v.at))
  <2>1. v.qty \in Nat
    BY AccountingAssumption DEF Views
  <2> QED
    BY <1>3, <2>1, ReportStays
<1>4. \A v \in past' : v.qty <= Executed(UpTo(fills', v.at))
  <2>1. \A v \in past : v.qty <= Executed(UpTo(fills', v.at))
    BY <1>0, <1>3 DEF ReportsTrue
  <2>2. CASE past' = past \cup {View(fills', cancelled', clock')}
    <3> DEFINE w == View(fills', cancelled', clock')
    <3>1. w.qty = Executed(fills') /\ w.at = clock'
      <4>1. clock' \in 0..MaxTime
        BY <1>1, AccountingAssumption
      <4> QED
        BY <1>1, <4>1, ViewTyped
    <3>2. UpTo(fills', clock') = fills'
      BY <1>2 DEF UpTo
    <3> QED
      BY <1>1, <2>1, <2>2, <3>1, <3>2, AccountingAssumption
  <2> QED
    BY <2>1, <2>2, BrokerStep
<1>5. pass'.snap.qty <= Executed(UpTo(fills', pass'.snap.at))
  <2>1. CASE pass'.snap = pass.snap
    BY <1>0, <1>3, <2>1 DEF ReportsTrue
  <2>2. CASE pass'.snap \in past
    BY <1>0, <1>3, <2>2 DEF ReportsTrue
  <2>3. CASE pass'.snap = IdlePass.snap
    <3>1. UpTo(fills', 0) \in SUBSET fills'
      BY DEF UpTo
    <3>2. Executed(UpTo(fills', 0)) \in Nat
      BY <1>1, <3>1, ExecutedGrows
    <3> QED
      BY <2>3, <3>2, IdleTyped
  <2> QED
    BY <2>1, <2>2, <2>3, PassStep
<1> DEFINE Good(e) ==
        /\ e.kind = "snapshot" => e.qty <= Executed(UpTo(fills', e.at))
        /\ e.kind = "fill" => [id |-> e.id, qty |-> e.qty, at |-> e.at] \in fills'
<1>6. \A j \in DOMAIN journal : Good(journal[j])
  <2> SUFFICES ASSUME NEW j \in DOMAIN journal PROVE Good(journal[j])
    OBVIOUS
  <2>1. journal[j].qty \in Nat
    BY <1>0, Events
  <2>2. CASE journal[j].kind = "snapshot"
    <3>1. journal[j].qty <= Executed(UpTo(fills, journal[j].at))
      BY <2>2 DEF ReportsTrue
    <3>2. journal[j].qty <= Executed(UpTo(fills', journal[j].at))
      BY <2>1, <3>1, ReportStays
    <3> QED
      BY <2>2, <3>2
  <2>3. CASE journal[j].kind = "fill"
    BY <1>1, <2>3 DEF ReportsTrue, FillOf
  <2> QED
    BY <2>2, <2>3
<1>7. CASE journal' = journal
  <2>1. \A j \in DOMAIN journal' : Good(journal'[j])
    BY <1>6, <1>7
  <2>2. \A j, k \in DOMAIN journal' :
          journal'[j].kind = "fill" /\ journal'[k].kind = "fill"
              /\ journal'[j].id = journal'[k].id => j = k
    BY <1>7 DEF ReportsTrue
  <2> QED
    BY <1>2, <1>4, <1>5, <2>1, <2>2 DEF ReportsTrue, FillOf
<1>8. ASSUME NEW e \in EventRecord, journal' = Append(journal, e),
             PlainEvent(e) \/ SnapshotEvent(e) \/ FillEvent(e)
      PROVE  ReportsTrue'
  <2>1. /\ DOMAIN journal' = (DOMAIN journal) \cup {Len(journal) + 1}
        /\ Len(journal) + 1 \notin DOMAIN journal
        /\ \A j \in DOMAIN journal : journal'[j] = journal[j]
        /\ journal'[Len(journal) + 1] = e
    BY <1>0, <1>8, Appended
  <2>2. Good(e) /\ (e.kind = "fill" =>
                      \A j \in DOMAIN journal : ~(journal[j].kind = "fill" /\ journal[j].id = e.id))
    <3>1. CASE PlainEvent(e)
      BY <3>1 DEF PlainEvent
    <3>2. CASE SnapshotEvent(e)
      <4>1. e.qty <= Executed(UpTo(fills', e.at))
        BY <1>0, <1>3, <3>2 DEF SnapshotEvent, ReportsTrue
      <4> QED
        BY <3>2, <4>1 DEF SnapshotEvent
    <3>3. CASE FillEvent(e)
      <4>1. PICK f \in fills : /\ e.kind = "fill" /\ e.id = f.id /\ e.qty = f.qty
                               /\ e.at = f.at /\ ~Journaled(journal, f)
        BY <3>3 DEF FillEvent
      <4>2. f = [id |-> e.id, qty |-> e.qty, at |-> e.at]
        BY <1>0, <4>1 DEF Fills
      <4>3. [id |-> e.id, qty |-> e.qty, at |-> e.at] \in fills'
        BY <1>1, <4>2
      <4> QED
        BY <4>1, <4>3 DEF Journaled
    <3> QED
      BY <1>8, <3>1, <3>2, <3>3
  <2>3. \A j \in DOMAIN journal' : Good(journal'[j])
    <3> HIDE DEF Good
    <3> QED
      BY <1>6, <2>1, <2>2
  <2>4. \A j, k \in DOMAIN journal' :
          journal'[j].kind = "fill" /\ journal'[k].kind = "fill"
              /\ journal'[j].id = journal'[k].id => j = k
    BY <2>1, <2>2 DEF ReportsTrue
  <2> QED
    BY <1>2, <1>4, <1>5, <2>3, <2>4 DEF ReportsTrue, FillOf
<1> QED
  BY <1>7, <1>8, WriteStep

----------------------------------------------------------------------------
(* The filled quantity. *)

LEMMA BoundStep ==
    ASSUME TypeInv, FilledBound, [Next]_vars
    PROVE  FilledBound'
<1>0. /\ journal \in Seq(EventRecord) /\ fills \in SUBSET Fills /\ row.filled \in Nat
      /\ MaxTime \in Nat
  BY AccountingAssumption DEF TypeInv, TypeOK, EventRecord
<1>1. /\ Known \in Nat
      /\ \A j \in DOMAIN journal :
            /\ journal[j].at \in Nat /\ journal[j].at <= MaxTime /\ journal[j].qty \in Nat
            /\ KnownUpTo(journal, journal[j].at) \in Nat
            /\ KnownUpTo(journal, journal[j].at) <= Known
  <2>1. \A at : KnownUpTo(journal, at) \in Nat
    BY <1>0, KnownIs
  <2>2. \A j \in DOMAIN journal :
           journal[j].at \in Nat /\ journal[j].at <= MaxTime /\ journal[j].qty \in Nat
    BY <1>0, Events
  <2>3. \A j \in DOMAIN journal : KnownUpTo(journal, journal[j].at) <= KnownUpTo(journal, MaxTime)
    BY <1>0, <2>2, KnownGrows
  <2> QED
    BY <2>1, <2>2, <2>3 DEF Known
<1>2. CASE journal' = journal /\ row'.filled = row.filled
  BY <1>2 DEF FilledBound, Known, Reached
<1>3. ASSUME NEW e \in EventRecord, journal' = Append(journal, e),
             PlainEvent(e) \/ SnapshotEvent(e) \/ FillEvent(e)
      PROVE  FilledBound'
  <2>0. /\ DOMAIN journal' = (DOMAIN journal) \cup {Len(journal) + 1}
        /\ \A j \in DOMAIN journal : journal'[j] = journal[j]
        /\ journal'[Len(journal) + 1] = e
        /\ e.qty \in Nat /\ e.at \in Nat /\ e.at <= MaxTime
    <3>1. e.qty \in Nat /\ e.at \in Nat /\ e.at <= MaxTime
      BY AccountingAssumption DEF EventRecord
    <3> QED
      BY <1>0, <1>3, <3>1, Appended
  <2>1. \A at \in Nat : KnownUpTo(journal', at) =
            IF e.kind = "fill" /\ e.at <= at THEN KnownUpTo(journal, at) + e.qty
            ELSE KnownUpTo(journal, at)
    BY <1>0, <1>3, KnownAppended
  <2>2. Known' = KnownUpTo(journal', MaxTime)
    BY DEF Known
  <2>3. CASE e.kind # "fill"
    <3>1. Known' = Known /\ \A j \in DOMAIN journal :
             KnownUpTo(journal', journal'[j].at) = KnownUpTo(journal, journal[j].at)
      BY <1>0, <1>1, <2>0, <2>1, <2>2, <2>3 DEF Known
    <3>2. CASE row'.filled = row.filled
      <4>1. CASE row.filled <= Known
        BY <3>1, <3>2, <4>1 DEF FilledBound
      <4>2. ASSUME NEW j \in DOMAIN journal, Reached(j) PROVE FilledBound'
        <5>1. j \in DOMAIN journal' /\ Reached(j)'
          BY <2>0, <3>1, <3>2, <4>2 DEF Reached
        <5> QED
          BY <5>1 DEF FilledBound
      <4> QED
        BY <4>1, <4>2 DEF FilledBound
    <3>3. CASE SnapshotEvent(e) /\ row'.filled = e.qty
      <4>1. KnownUpTo(journal', e.at) \in Nat /\ KnownUpTo(journal', e.at) <= Known'
        <5>1. /\ KnownUpTo(journal', e.at) = KnownUpTo(journal, e.at) /\ Known' = Known
              /\ KnownUpTo(journal, e.at) \in Nat
          BY <1>0, <2>0, <2>1, <2>3, <3>1, KnownIs
        <5>2. KnownUpTo(journal, e.at) <= Known
          BY <1>0, <2>0, KnownGrows DEF Known
        <5> QED
          BY <5>1, <5>2
      <4>2. PICK n : n = Len(journal) + 1
        OBVIOUS
      <4>3. n \in DOMAIN journal' /\ journal'[n] = e
        BY <2>0, <4>2
      <4>4. Known' \in Nat
        BY <1>1, <3>1
      <4>5. row'.filled <= e.qty + (Known' - KnownUpTo(journal', e.at))
        BY <2>0, <3>3, <4>1, <4>4
      <4>6. Reached(n)'
        BY <3>3, <4>3, <4>5 DEF Reached, SnapshotEvent
      <4> QED
        BY <4>3, <4>6 DEF FilledBound
    <3> QED
      BY <1>3, <2>3, <3>2, <3>3 DEF PlainEvent, SnapshotEvent, FillEvent, Larger
  <2>4. CASE FillEvent(e)
    <3>1. PICK f \in fills : /\ e.kind = "fill" /\ e.qty = f.qty /\ e.at = f.at
                             /\ row'.filled = row.filled + AppliedQuantity(journal, f)
      BY <2>4 DEF FillEvent
    <3> DEFINE new == AppliedQuantity(journal, f)
               best == BestSnapshot(journal, f.at)
               here == KnownUpTo(journal, f.at)
    <3>2. /\ new \in 0..f.qty
          /\ \/ new = 0
             \/ best <= here /\ new = f.qty
             \/ best > here /\ new = f.qty - (best - here)
      BY <1>0, Applied
    <3>3. best \in Nat /\ here \in Nat
      BY <1>0, <2>0, <3>1, BestIs, KnownIs
    <3>4. Known' = Known + f.qty
      BY <1>0, <2>0, <2>1, <2>2, <3>1 DEF Known
    <3>5. \A j \in DOMAIN journal :
             /\ journal[j].at >= f.at =>
                   KnownUpTo(journal', journal[j].at) = KnownUpTo(journal, journal[j].at) + f.qty
             /\ journal[j].at < f.at =>
                   KnownUpTo(journal', journal[j].at) = KnownUpTo(journal, journal[j].at)
      BY <1>1, <2>0, <2>1, <3>1
    <3>6. \A j \in DOMAIN journal : journal[j].kind = "snapshot" /\ journal[j].at >= f.at =>
             best >= journal[j].qty /\ here <= KnownUpTo(journal, journal[j].at)
      <4>1. f.at \in Nat
        BY <2>0, <3>1
      <4>2. \A j \in DOMAIN journal : journal[j].kind = "snapshot" /\ journal[j].at >= f.at =>
               best >= journal[j].qty
        BY <1>0, <4>1, BestIs
      <4>3. \A j \in DOMAIN journal : journal[j].at >= f.at =>
               here <= KnownUpTo(journal, journal[j].at)
        BY <1>0, <1>1, <4>1, KnownGrows
      <4> QED
        BY <4>2, <4>3
    <3>7. f.qty \in Nat /\ f.at \in Nat
      BY <2>0, <3>1
    <3> HIDE DEF new, best, here
    <3>8. row'.filled = row.filled + new /\ new \in Nat
      BY <3>1, <3>2, <3>7 DEF new
    <3>9. CASE row.filled <= Known
      <4>1. row'.filled <= Known'
        BY <1>0, <1>1, <3>2, <3>4, <3>7, <3>8, <3>9
      <4> QED
        BY <4>1 DEF FilledBound
    <3>10. ASSUME NEW j \in DOMAIN journal, Reached(j) PROVE FilledBound'
      <4> DEFINE k == KnownUpTo(journal, journal[j].at)
                 q == journal[j].qty
      <4>1. /\ journal[j].kind = "snapshot" /\ row.filled <= q + (Known - k)
            /\ k \in Nat /\ q \in Nat /\ k <= Known /\ journal[j].at \in Nat
        BY <1>1, <3>10 DEF Reached
      <4>2. /\ j \in DOMAIN journal' /\ journal'[j].kind = "snapshot"
            /\ journal'[j].qty = q /\ journal'[j].at = journal[j].at
        BY <2>0, <4>1
      <4>3. /\ journal[j].at >= f.at => KnownUpTo(journal', journal'[j].at) = k + f.qty
            /\ journal[j].at < f.at => KnownUpTo(journal', journal'[j].at) = k
        BY <3>5, <4>2
      <4>4. journal[j].at >= f.at => best >= q /\ here <= k
        BY <3>6, <4>1
      <4> HIDE DEF k, q
      <4>0. /\ Known \in Nat /\ row.filled \in Nat /\ new \in Nat /\ f.qty \in Nat
            /\ new <= f.qty
            /\ \/ new = 0
               \/ best <= here /\ new = f.qty
               \/ best > here /\ new = f.qty - (best - here)
        BY <1>0, <1>1, <3>2, <3>7, <3>8
      <4>5. CASE journal[j].at < f.at
        <5>1. row'.filled <= q + (Known' - k)
          BY <3>4, <3>8, <4>0, <4>1
        <5>2. Reached(j)'
          BY <4>2, <4>3, <4>5, <5>1 DEF Reached
        <5> QED
          BY <4>2, <5>2 DEF FilledBound
      <4>6. CASE journal[j].at >= f.at /\ new = 0
        <5>1. row'.filled <= q + (Known' - (k + f.qty))
          BY <3>4, <3>8, <4>0, <4>1, <4>6
        <5>2. Reached(j)'
          BY <4>2, <4>3, <4>6, <5>1 DEF Reached
        <5> QED
          BY <4>2, <5>2 DEF FilledBound
      <4>7. CASE journal[j].at >= f.at /\ new # 0
        <5>1. row'.filled <= Known'
          BY <3>3, <3>4, <3>8, <4>0, <4>1, <4>4, <4>7
        <5> QED
          BY <5>1 DEF FilledBound
      <4> QED
        BY <3>7, <4>1, <4>5, <4>6, <4>7
    <3> QED
      BY <3>9, <3>10 DEF FilledBound
  <2> QED
    BY <1>3, <2>3, <2>4 DEF PlainEvent, SnapshotEvent
<1> QED
  BY <1>2, <1>3, WriteStep

LEMMA BoundInit == Init => FilledBound
<1> SUFFICES ASSUME Init PROVE FilledBound
  OBVIOUS
<1>1. row.filled = 0 /\ journal = <<>>
  BY DEF Init
<1>2. journal \in Seq(EventRecord)
  BY <1>1
<1>3. Known \in Nat
  BY <1>2, KnownIs DEF Known
<1> QED
  BY <1>1, <1>3 DEF FilledBound

\* Journaled fills are executions: their units are among the units executed.
LEMMA JournalWithin ==
    ASSUME TypeInv, ReportsTrue, NEW G \in SUBSET fills,
           NEW U \in SUBSET KnownUnits(journal, MaxTime), \A u \in U : FillOf(u[1]) \in G
    PROVE  Cardinality(U) <= Executed(G) /\ Executed(G) \in Nat /\ IsFiniteSet(U)
<1> DEFINE h == [u \in U |-> <<FillOf(u[1]), u[2]>>]
<1>0. journal \in Seq(EventRecord) /\ fills \in SUBSET Fills /\ IsFiniteSet(fills)
  BY DEF TypeInv, TypeOK, EventRecord
<1>1. IsFiniteSet(G) /\ G \in SUBSET Fills
  BY <1>0, FS_Subset
<1>2. IsFiniteSet(UnitsOf(G)) /\ Executed(G) \in Nat
  BY <1>1, UnitsAre
<1>3. ASSUME NEW u \in U
      PROVE  /\ u[1] \in DOMAIN journal /\ journal[u[1]].kind = "fill"
             /\ u[2] \in 1..journal[u[1]].qty /\ u = <<u[1], u[2]>>
  <2>1. PICK i \in DOMAIN journal : /\ journal[i].kind = "fill"
                                    /\ u \in {i} \X (1..journal[i].qty)
    BY InKnown
  <2>2. u[1] = i /\ u[2] \in 1..journal[i].qty /\ u = <<u[1], u[2]>>
    BY <2>1
  <2> QED
    BY <2>1, <2>2
<1>4. \A u \in U : <<FillOf(u[1]), u[2]>> \in UnitsOf(G)
  <2> SUFFICES ASSUME NEW u \in U PROVE <<FillOf(u[1]), u[2]>> \in UnitsOf(G)
    OBVIOUS
  <2>1. FillOf(u[1]) \in G /\ FillOf(u[1]).qty = journal[u[1]].qty
    BY DEF FillOf
  <2>2. <<FillOf(u[1]), u[2]>> \in {FillOf(u[1])} \X (1..FillOf(u[1]).qty)
    BY <1>3, <2>1
  <2> QED
    BY <2>1, <2>2, InUnits
<1>5. h \in [U -> UnitsOf(G)]
  BY <1>4
<1>6. ASSUME NEW u \in U, NEW v \in U, h[u] = h[v] PROVE u = v
  <2>1. FillOf(u[1]) = FillOf(v[1]) /\ u[2] = v[2]
    BY <1>6
  <2>2. FillOf(u[1]).id = journal[u[1]].id /\ FillOf(v[1]).id = journal[v[1]].id
    BY DEF FillOf
  <2>3. u[1] = v[1]
    BY <1>3, <2>1, <2>2 DEF ReportsTrue
  <2> QED
    BY <1>3, <2>1, <2>3
<1> HIDE DEF h
<1>7. h \in Injection(U, UnitsOf(G))
  BY <1>5, <1>6 DEF Injection, IsInjective
<1>8. IsFiniteSet(U) /\ Cardinality(U) <= Cardinality(UnitsOf(G))
  BY <1>2, <1>7, FS_Injection
<1> QED
  BY <1>2, <1>8 DEF Executed

\* The inductive invariant bounds the filled quantity by what was executed.
LEMMA WithinExecuted ==
    ASSUME TypeInv, AccountInv
    PROVE  NeverOverfilled
<1>0. /\ journal \in Seq(EventRecord) /\ fills \in SUBSET Fills /\ IsFiniteSet(fills)
      /\ row.filled \in Nat /\ MaxTime \in Nat
  BY AccountingAssumption DEF TypeInv, TypeOK, EventRecord
<1> DEFINE All == KnownUnits(journal, MaxTime)
<1>1. ASSUME NEW u \in All
      PROVE  /\ u[1] \in DOMAIN journal /\ journal[u[1]].kind = "fill" /\ FillOf(u[1]) \in fills
             /\ u \in {u[1]} \X (1..journal[u[1]].qty)
  <2>1. PICK i \in DOMAIN journal : /\ journal[i].kind = "fill"
                                    /\ u \in {i} \X (1..journal[i].qty)
    BY <1>1, InKnown
  <2>2. u[1] = i
    BY <2>1
  <2> QED
    BY <2>1, <2>2 DEF AccountInv, ReportsTrue
<1>2. Known <= Executed(fills) /\ Executed(fills) \in Nat /\ Known \in Nat /\ IsFiniteSet(All)
  <2>1. Known = Cardinality(All) /\ Known \in Nat
    BY <1>0, KnownIs DEF Known, KnownUpTo
  <2>2. \A u \in All : FillOf(u[1]) \in fills
    BY <1>1
  <2> HIDE DEF All
  <2>3. Cardinality(All) <= Executed(fills) /\ Executed(fills) \in Nat /\ IsFiniteSet(All)
    BY <2>2, JournalWithin DEF AccountInv, All
  <2> QED
    BY <2>1, <2>3
<1>3. ASSUME NEW j \in DOMAIN journal, Reached(j)
      PROVE  row.filled <= Executed(fills)
  <2> DEFINE at == journal[j].at
             early == UpTo(fills, at)
             late == fills \ early
             U == KnownUnits(journal, at)
             after == All \ U
  <2>1. at \in Nat /\ at <= MaxTime /\ journal[j].qty \in Nat
    BY <1>0, Events
  <2>2. U \subseteq All /\ KnownUpTo(journal, at) \in Nat
    BY <1>0, <2>1, KnownGrows, KnownIs
  <2>3. \A u \in after : FillOf(u[1]) \in late
    <3> SUFFICES ASSUME NEW u \in after PROVE FillOf(u[1]) \in late
      OBVIOUS
    <3>1. /\ u[1] \in DOMAIN journal /\ journal[u[1]].kind = "fill" /\ FillOf(u[1]) \in fills
          /\ u \in {u[1]} \X (1..journal[u[1]].qty)
      BY <1>1
    <3>2. ~(journal[u[1]].at <= at)
      BY <3>1, InKnown
    <3>3. FillOf(u[1]).at = journal[u[1]].at
      BY DEF FillOf
    <3> QED
      BY <3>1, <3>2, <3>3 DEF UpTo
  <2>4. /\ early \in SUBSET fills /\ late \in SUBSET fills /\ early \cap late = {}
        /\ early \cup late = fills
    BY DEF UpTo
  <2>5. Executed(fills) = Executed(early) + Executed(late)
    <3>1. /\ IsFiniteSet(early) /\ early \in SUBSET Fills
          /\ IsFiniteSet(late) /\ late \in SUBSET Fills
      BY <1>0, <2>4, FS_Subset
    <3> HIDE DEF early, late
    <3>2. Executed(early \cup late) = Executed(early) + Executed(late)
      BY <2>4, <3>1, ExecutedSum
    <3> QED
      BY <2>4, <3>2
  <2>6. Executed(early) \in Nat
    BY <1>0, <2>4, ExecutedGrows
  <2>7. Cardinality(after) <= Executed(late) /\ Executed(late) \in Nat
    <3>1. after \in SUBSET KnownUnits(journal, MaxTime)
      OBVIOUS
    <3> HIDE DEF early, late, after
    <3> QED
      BY <2>3, <2>4, <3>1, JournalWithin DEF AccountInv
  <2>8. Cardinality(after) = Known - KnownUpTo(journal, at)
    <3>1. All \cap U = U
      BY <2>2
    <3> HIDE DEF All, U
    <3>2. Cardinality(All \ U) = Cardinality(All) - Cardinality(All \cap U)
      BY <1>2, FS_Difference
    <3> QED
      BY <3>1, <3>2 DEF Known, KnownUpTo, All, U
  <2>9. journal[j].qty <= Executed(early) /\ row.filled <= journal[j].qty + (Known - KnownUpTo(journal, at))
    BY <1>3 DEF Reached, AccountInv, ReportsTrue
  <2> HIDE DEF at, early, late, U, after, All
  <2> QED
    BY <1>0, <1>2, <2>1, <2>2, <2>5, <2>6, <2>7, <2>8, <2>9
<1>4. CASE row.filled <= Known
  BY <1>0, <1>2, <1>4 DEF NeverOverfilled
<1> QED
  BY <1>3, <1>4 DEF AccountInv, FilledBound, NeverOverfilled

\* Every report is true and the filled quantity rests on them, throughout.
THEOREM Accounts == Spec => []AccountInv
<1>1. Init => AccountInv
  BY ReportsInit, BoundInit DEF AccountInv
<1>2. TypeInv /\ AccountInv /\ [Next]_vars => AccountInv'
  BY ReportsStep, BoundStep DEF AccountInv
<1> QED
  BY <1>1, <1>2, TypesHold, PTL DEF Spec

(***************************************************************************)
(* NeverOverfilled: whatever snapshots lag and whatever part of the fills  *)
(* is listed, apply_broker_snapshot and apply_fill_snapshot never count an *)
(* execution twice: filled_quantity is at most what was executed.          *)
(***************************************************************************)
THEOREM NeverOverfills == Spec => []NeverOverfilled
<1>1. TypeInv /\ AccountInv => NeverOverfilled
  BY WithinExecuted
<1> QED
  BY <1>1, TypesHold, Accounts, PTL
=============================================================================
