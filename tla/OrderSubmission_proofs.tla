----------------------- MODULE OrderSubmission_proofs -----------------------
(***************************************************************************)
(* Proofs about OrderSubmission, for any number of requests, identities,   *)
(* previews and restarts.                                                  *)
(***************************************************************************)
EXTENDS OrderSubmission, TLAPS

(***************************************************************************)
(* transition_order_and_event replaces at most the row it is given.        *)
(***************************************************************************)
LEMMA CommitStep ==
    ASSUME TypeOK, NEW r \in Requests, NEW seen, NEW next \in Row,
           Commit(r, seen, next)
    PROVE  /\ rows' \in [Requests -> Row \cup {NoRow}]
           /\ revision' \in [Requests -> Nat]
           /\ \A s \in Requests \ {r} : rows'[s] = rows[s] /\ revision'[s] = revision[s]
           /\ \/ rows'[r] = rows[r] /\ revision'[r] = revision[r]
              \/ /\ FenceHolds(r, seen)
                 /\ rows'[r] = next /\ revision'[r] = revision[r] + 1
  BY DEF TypeOK, Commit

LEMMA TryCommitStep ==
    ASSUME TypeOK, NEW r \in Requests, NEW seen, NEW next \in Row,
           TryCommit(r, seen, next)
    PROVE  /\ rows' \in [Requests -> Row \cup {NoRow}]
           /\ revision' \in [Requests -> Nat]
           /\ \A s \in Requests \ {r} : rows'[s] = rows[s] /\ revision'[s] = revision[s]
           /\ \/ rows'[r] = rows[r] /\ revision'[r] = revision[r]
              \/ /\ FenceHolds(r, seen)
                 /\ rows'[r] = next /\ revision'[r] = revision[r] + 1
<1>1. CASE Commit(r, seen, next)
  BY <1>1, CommitStep
<1>2. CASE UNCHANGED <<rows, revision>>
  BY <1>2 DEF TypeOK
<1> QED
  BY <1>1, <1>2 DEF TryCommit

\* A row is told from no row, and is typed, by its fields.
LEMMA OrderRowType ==
    /\ \A st \in RowStatus, o \in Requests \cup {NoOrder}, at \in Nat, er \in ErrorCode :
          OrderRow(st, o, at, er) \in Row
    /\ NewOrder \in Row
    /\ NoRow \notin Row
  BY DEF OrderRow, NewOrder, Row, RowStatus, ErrorCode, NoRow

\* The states of the worker between two orders.
LEMMA WorkerRestType ==
    /\ IdleWorker \in WorkerState /\ IdleWorker.pc = "idle"
    /\ IdleWorker.todo = {} /\ IdleWorker.book = {}
    /\ \A todo \in SUBSET (Requests \X Row) :
          /\ Scanning(todo) \in WorkerState /\ Scanning(todo).pc = "scanning"
          /\ Scanning(todo).todo = todo /\ Scanning(todo).book = {}
  BY DEF IdleWorker, Scanning, Working, WorkerState, WorkerPC

\* While the worker looks at one order it has the order and its row.
WorkerBusy ==
    worker.pc \in {"read", "matched"} => worker.cur \in Requests /\ worker.seen \in Row

Typed == TypeOK /\ WorkerBusy


LEMMA TypedInit == Init => Typed
  BY SubmissionAssumption, WorkerRestType DEF Init, TypeOK, PlacePC, Typed, WorkerBusy

LEMMA TypedNext == Typed /\ [Next]_vars => Typed'
<1> SUFFICES ASSUME TypeOK, WorkerBusy, [Next]_vars PROVE TypeOK' /\ WorkerBusy'
  BY DEF Typed
<1> USE SubmissionAssumption
<1>1. ASSUME NEW r \in Requests, PlaceLookup(r) PROVE TypeOK' /\ WorkerBusy'
  BY <1>1 DEF TypeOK, WorkerBusy, PlaceLookup, PlacePC
<1>2. ASSUME NEW r \in Requests, PlaceReserve(r) PROVE TypeOK' /\ WorkerBusy'
  <2>1. rows' \in [Requests -> Row \cup {NoRow}]
    BY <1>2, OrderRowType DEF TypeOK, PlaceReserve
  <2>2. previews' \in [Previews -> Preview \cup {NoPreviewRow}]
    <3>1. CASE previews' = previews
      BY <3>1 DEF TypeOK
    <3>2. CASE previews' = ConsumePreview(r) /\ PreviewAccepts(r)
      <4>1. CASE previewOf[r] = NoPreview
        BY <3>2, <4>1 DEF TypeOK, ConsumePreview
      <4>2. CASE previewOf[r] # NoPreview
        <5>1. previewOf[r] \in Previews /\ previews[previewOf[r]].hash = hashOf[r]
          BY <4>2, <3>2 DEF PreviewAccepts
        <5>2. previews[previewOf[r]] \in Preview
          BY <5>1 DEF TypeOK, NoPreviewRow
        <5>3. [previews[previewOf[r]] EXCEPT !.consumed = TRUE] \in Preview
          BY <5>2 DEF Preview
        <5> QED
          BY <4>2, <3>2, <5>1, <5>3 DEF ConsumePreview, TypeOK
      <4> QED
        BY <4>1, <4>2
    <3> QED
      BY <1>2, <3>1, <3>2 DEF PlaceReserve
  <2> QED
    BY <1>2, <2>1, <2>2 DEF TypeOK, WorkerBusy, PlaceReserve, PlacePC
<1>3. ASSUME NEW r \in Requests, PlaceGuard(r) PROVE TypeOK' /\ WorkerBusy'
  <2>1. rows' \in [Requests -> Row \cup {NoRow}] /\ revision' \in [Requests -> Nat]
    <3>1. CASE UNCHANGED <<rows, revision>>
      BY <3>1 DEF TypeOK
    <3>2. ASSUME NEW outcome \in {<<"REJECTED", "risk">>, <<"UNKNOWN", "submission">>},
                 TryCommit(r, NewOrder, OrderRow(outcome[1], NoOrder, 0, outcome[2]))
          PROVE  rows' \in [Requests -> Row \cup {NoRow}] /\ revision' \in [Requests -> Nat]
      <4>1. OrderRow(outcome[1], NoOrder, 0, outcome[2]) \in Row
        BY OrderRowType DEF RowStatus, ErrorCode
      <4> QED
        BY <3>2, <4>1, TryCommitStep
    <3> QED
      BY <1>3, <3>1, <3>2 DEF PlaceGuard
  <2> QED
    BY <1>3, <2>1 DEF TypeOK, WorkerBusy, PlaceGuard, PlacePC
<1>4. ASSUME NEW r \in Requests, PlaceAck(r) PROVE TypeOK' /\ WorkerBusy'
  <2>1. /\ OrderRow("SUBMITTED", r, 0, "none") \in Row
        /\ OrderRow("UNKNOWN", r, 0, "submission") \in Row
    BY OrderRowType DEF RowStatus, ErrorCode
  <2>2. rows' \in [Requests -> Row \cup {NoRow}] /\ revision' \in [Requests -> Nat]
    BY <1>4, <2>1, CommitStep, TryCommitStep DEF PlaceAck
  <2> QED
    BY <1>4, <2>2 DEF TypeOK, WorkerBusy, PlaceAck, PlacePC
<1>5. ASSUME NEW r \in Requests, PlaceUnknown(r) PROVE TypeOK' /\ WorkerBusy'
  <2>1. OrderRow("UNKNOWN", NoOrder, 0, "submission") \in Row
    BY OrderRowType DEF RowStatus, ErrorCode
  <2>2. rows' \in [Requests -> Row \cup {NoRow}] /\ revision' \in [Requests -> Nat]
    BY <1>5, <2>1, TryCommitStep DEF PlaceUnknown
  <2> QED
    BY <1>5, <2>2 DEF TypeOK, WorkerBusy, PlaceUnknown, PlacePC
<1>6. CASE WorkerScan
  <2>1. {<<r, rows[r]>> : r \in {s \in Requests : Unidentified(s)}} \in SUBSET (Requests \X Row)
    BY DEF TypeOK, Unidentified, Exists
  <2> QED
    BY <1>6, <2>1, WorkerRestType DEF TypeOK, WorkerBusy, WorkerScan
<1>7. CASE WorkerScanDone
  BY <1>7, WorkerRestType DEF TypeOK, WorkerBusy, WorkerScanDone
<1>8. ASSUME NEW c \in worker.todo, WorkerRead(c) PROVE TypeOK' /\ WorkerBusy'
  <2>1. c \in Requests \X Row /\ worker.todo \ {c} \in SUBSET (Requests \X Row)
    BY DEF TypeOK, WorkerState
  <2>2. CASE worker' = Scanning(worker.todo \ {c})
    BY <1>8, <2>1, <2>2, WorkerRestType DEF TypeOK, WorkerBusy, WorkerRead
  <2>3. CASE worker' = Working("read", worker.todo \ {c}, c[1], c[2], booked, {})
    <3>1. c[1] \in Requests /\ c[2] \in Row /\ booked \subseteq Requests
      BY <2>1 DEF TypeOK
    <3>2. worker' \in WorkerState /\ worker'.cur = c[1] /\ worker'.seen = c[2]
      BY <2>1, <2>3, <3>1 DEF Working, WorkerState, WorkerPC
    <3> QED
      BY <1>8, <3>1, <3>2 DEF TypeOK, WorkerBusy, WorkerRead
  <2> QED
    BY <1>8, <2>2, <2>3 DEF WorkerRead
<1>9. CASE WorkerMatch
  <2>1. Candidates(worker.cur, worker.book) \subseteq Requests
    BY DEF TypeOK, Candidates, WorkerState
  <2> QED
    BY <1>9, <2>1 DEF TypeOK, WorkerBusy, WorkerMatch, Working, WorkerState, WorkerPC
<1>10. CASE WorkerCommit
  <2>1. worker' \in WorkerState /\ worker'.pc = "scanning"
    BY <1>10, WorkerRestType DEF TypeOK, WorkerCommit, WorkerState
  <2>2. rows' \in [Requests -> Row \cup {NoRow}] /\ revision' \in [Requests -> Nat]
    <3>1. worker.cur \in Requests /\ worker.seen \in Row
      BY <1>10 DEF WorkerBusy, WorkerCommit
    <3>2. Fresh(worker.cur) \in Nat
      BY <3>1 DEF TypeOK, Fresh
    <3>3. \A b \in worker.found : OrderRow("SUBMITTED", b, Fresh(worker.cur), "none") \in Row
      BY <3>2, OrderRowType DEF RowStatus, ErrorCode, TypeOK, WorkerState
    <3>4. \A code \in {"not_found", "ambiguous"} :
             OrderRow("UNKNOWN", worker.seen.order_id, Fresh(worker.cur), code) \in Row
      <4>1. worker.seen.order_id \in Requests \cup {NoOrder}
        BY <3>1 DEF Row
      <4> QED
        BY <3>2, <4>1, OrderRowType DEF RowStatus, ErrorCode
    <3>5. \/ UNCHANGED <<rows, revision>>
          \/ \E b \in worker.found :
                Commit(worker.cur, worker.seen,
                       OrderRow("SUBMITTED", b, Fresh(worker.cur), "none"))
          \/ \E code \in {"not_found", "ambiguous"} :
                Commit(worker.cur, worker.seen,
                       OrderRow("UNKNOWN", worker.seen.order_id, Fresh(worker.cur), code))
      BY <1>10 DEF WorkerCommit
    <3>6. CASE UNCHANGED <<rows, revision>>
      BY <3>6 DEF TypeOK
    <3> QED
      BY <3>1, <3>3, <3>4, <3>5, <3>6, CommitStep
  <2> QED
    BY <1>10, <2>1, <2>2 DEF TypeOK, WorkerBusy, WorkerCommit
<1>11. CASE Environment
  <2>1. CASE OpendFlip
    BY <2>1 DEF TypeOK, WorkerBusy, OpendFlip
  <2>2. CASE Crash
    BY <2>2, WorkerRestType DEF TypeOK, WorkerBusy, Crash, PlacePC
  <2>3. ASSUME NEW r \in Requests, SavePreview(r) PROVE TypeOK' /\ WorkerBusy'
    BY <2>3 DEF TypeOK, WorkerBusy, SavePreview, Preview
  <2>4. ASSUME NEW r \in Requests, BrokerBook(r) \/ BrokerDrop(r) PROVE TypeOK' /\ WorkerBusy'
    BY <2>4 DEF TypeOK, WorkerBusy, BrokerBook, BrokerDrop
  <2> QED
    BY <1>11, <2>1, <2>2, <2>3, <2>4 DEF Environment
<1>12. CASE UNCHANGED vars
  BY <1>12 DEF TypeOK, WorkerBusy, vars
<1> QED
  BY <1>1, <1>2, <1>3, <1>4, <1>5, <1>6, <1>7, <1>8, <1>9, <1>10, <1>11, <1>12
  DEF Next, Worker, Place

\* Every variable holds a value of its kind, in every reachable state.
THEOREM Typing == Spec => []TypeOK
<1>1. Spec => []Typed
  BY TypedInit, TypedNext, PTL DEF Spec
<1> QED
  BY <1>1, PTL DEF Typed

----------------------------------------------------------------------------
(***************************************************************************)
(* The inductive invariant.  The safety properties of OrderSubmission talk *)
(* about rows and broker orders; they are inductive only together with     *)
(* what each handler knows at its place, with what a row can look like,    *)
(* and with what a copy the worker read earlier still says of its row.     *)
(***************************************************************************)

\* One row per client identity.
IdentityHeld ==
    \A r, s \in Requests :
        Exists(r) /\ Exists(s) /\ clientOf[r] = clientOf[s] /\ clientOf[r] # NoClient
            => r = s

\* How far each place handler is, and what that says of its row.
Progress ==
    /\ \A r \in Requests : pc[r] \in {"idle", "looked_up"} => ~Exists(r)
    /\ \A r \in Requests : pc[r] \in {"reserved", "calling"} => Exists(r)
    /\ \A r \in Requests : pc[r] = "reserved" => rows[r].status # "REJECTED"
    /\ \A r \in Requests : pc[r] \in {"idle", "looked_up", "reserved"} => r \notin sent
    /\ \A r \in sent : Exists(r) /\ rows[r].status # "REJECTED"
    /\ wire \subseteq sent /\ booked \subseteq sent

\* The shape of a row.
RowSound(r) ==
    Exists(r) =>
        /\ rows[r].status = "SUBMITTING" => rows[r] = NewOrder
        /\ rows[r].order_id \in {r, NoOrder}
        /\ rows[r].updated_at <= revision[r]

\* A copy of r's row, read earlier: status and time tell whether it is current.
Copy(r, c) ==
    /\ Exists(r)
    /\ c.order_id = NoOrder
    /\ c.updated_at <= rows[r].updated_at
    /\ rows[r].status = "SUBMITTING" => c = rows[r]
    /\ c.status = rows[r].status /\ c.updated_at = rows[r].updated_at => c = rows[r]

WorkerSound ==
    /\ worker.book \subseteq booked
    /\ \A t \in worker.todo : Copy(t[1], t[2])
    /\ worker.pc \in {"read", "matched"} => Copy(worker.cur, worker.seen)
    /\ worker.pc = "matched" =>
          /\ worker.found \subseteq booked
          /\ \A b \in worker.found :
                clientOf[worker.cur] # NoClient /\ SentRemark(b) = clientOf[worker.cur]

\* A row that was paid for by a preview carries the preview's hash.
PreviewSound ==
    /\ \A r \in Requests :
          Exists(r) \/ pc[r] = "looked_up" => previewOf[r] = NoPreview \/ clientOf[r] # NoClient
    /\ \A r \in Requests :
          Exists(r) /\ previewOf[r] # NoPreview => previews[previewOf[r]].hash = hashOf[r]
    /\ \A p \in Previews :
          previews[p].consumed => \E r \in Requests : Exists(r) /\ previewOf[r] = p

IInv ==
    /\ Typed
    /\ IdentityHeld
    /\ Progress
    /\ \A r \in Requests : RowSound(r)
    /\ WorkerSound
    /\ PreviewSound

LEMMA IInvInit == Init => IInv
<1> SUFFICES ASSUME Init PROVE IInv
  OBVIOUS
<1>1. Typed
  BY TypedInit
<1>2. \A r \in Requests : ~Exists(r)
  BY DEF Init, Exists
<1>3. IdentityHeld /\ Progress /\ \A r \in Requests : RowSound(r)
  BY <1>2 DEF IdentityHeld, Progress, RowSound, Init
<1>4. WorkerSound
  BY WorkerRestType DEF WorkerSound, Init
<1>5. PreviewSound
  BY <1>2 DEF PreviewSound, Init, NoPreviewRow
<1> QED
  BY <1>1, <1>3, <1>4, <1>5 DEF IInv

----------------------------------------------------------------------------
(***************************************************************************)
(* What any step may do to a row: nothing, the reservation, or a fenced    *)
(* write to an unbound row that leaves SUBMITTING or takes a later time.   *)
(***************************************************************************)
RowStep(r) ==
    \/ rows'[r] = rows[r] /\ revision'[r] = revision[r]
    \/ ~Exists(r) /\ rows'[r] = NewOrder /\ revision'[r] = revision[r]
    \/ /\ Exists(r) /\ rows[r].order_id = NoOrder
       /\ rows'[r] \in Row
       /\ rows'[r].status # "SUBMITTING"
       /\ rows'[r].status = "REJECTED" => r \notin sent' /\ pc'[r] = "done"
       /\ rows'[r].order_id \in {r, NoOrder}
       /\ rows'[r].updated_at <= revision'[r]
       /\ \/ rows[r] = NewOrder /\ rows'[r].updated_at = 0
          \/ rows'[r].updated_at > rows[r].updated_at

\* A place handler writes only over the row as it reserved it.
LEMMA PlaceWrite ==
    ASSUME IInv, NEW r \in Requests,
           NEW st \in RowStatus \ {"SUBMITTING"}, NEW o \in {r, NoOrder}, NEW er \in ErrorCode,
           st = "REJECTED" => r \notin sent' /\ pc'[r] = "done",
           TryCommit(r, NewOrder, OrderRow(st, o, 0, er))
    PROVE  \A s \in Requests : RowStep(s)
<1> DEFINE next == OrderRow(st, o, 0, er)
<1>1. next \in Row /\ next.status = st /\ next.order_id = o /\ next.updated_at = 0
  BY OrderRowType DEF OrderRow
<1>2. TypeOK /\ RowSound(r)
  BY DEF IInv, Typed
<1>3. /\ \A s \in Requests \ {r} : rows'[s] = rows[s] /\ revision'[s] = revision[s]
      /\ \/ rows'[r] = rows[r] /\ revision'[r] = revision[r]
         \/ FenceHolds(r, NewOrder) /\ rows'[r] = next /\ revision'[r] = revision[r] + 1
  BY <1>1, <1>2, TryCommitStep
<1>4. CASE FenceHolds(r, NewOrder) /\ rows'[r] = next /\ revision'[r] = revision[r] + 1
  <2>1. Exists(r) /\ rows[r] = NewOrder
    BY <1>2, <1>4 DEF FenceHolds, RowSound, NewOrder, OrderRow
  <2>2. rows[r].order_id = NoOrder
    BY <2>1 DEF NewOrder, OrderRow
  <2>3. revision[r] \in Nat
    BY <1>2 DEF TypeOK
  <2>4. RowStep(r)
    BY <1>1, <1>4, <2>1, <2>2, <2>3 DEF RowStep
  <2> QED
    BY <1>3, <2>4 DEF RowStep
<1> QED
  BY <1>3, <1>4 DEF RowStep

\* The worker writes only if the row it read is still the row.
LEMMA WorkerWrite ==
    ASSUME IInv, NEW r \in Requests, NEW old \in Row, Copy(r, old),
           NEW st \in {"SUBMITTED", "UNKNOWN"}, NEW o \in {r, NoOrder}, NEW er \in ErrorCode,
           Commit(r, old, OrderRow(st, o, Fresh(r), er))
    PROVE  \A s \in Requests : RowStep(s)
<1> DEFINE next == OrderRow(st, o, Fresh(r), er)
<1>1. TypeOK /\ RowSound(r)
  BY DEF IInv, Typed
<1>2. revision[r] \in Nat /\ Fresh(r) = revision[r] + 1
  BY <1>1 DEF TypeOK, Fresh
<1>3. next \in Row /\ next.status = st /\ next.order_id = o /\ next.updated_at = revision[r] + 1
  BY <1>2, OrderRowType DEF OrderRow, RowStatus
<1>4. /\ \A s \in Requests \ {r} : rows'[s] = rows[s] /\ revision'[s] = revision[s]
      /\ \/ rows'[r] = rows[r] /\ revision'[r] = revision[r]
         \/ FenceHolds(r, old) /\ rows'[r] = next /\ revision'[r] = revision[r] + 1
  BY <1>1, <1>3, CommitStep
<1>5. CASE FenceHolds(r, old) /\ rows'[r] = next /\ revision'[r] = revision[r] + 1
  <2>1. Exists(r) /\ rows[r] = old /\ rows[r].order_id = NoOrder
    BY <1>5 DEF FenceHolds, Copy
  <2>2. rows[r].updated_at \in Nat /\ rows[r].updated_at <= revision[r]
    BY <1>1, <2>1 DEF RowSound, Row
  <2>3. RowStep(r)
    BY <1>2, <1>3, <1>5, <2>1, <2>2 DEF RowStep
  <2> QED
    BY <1>4, <2>3 DEF RowStep
<1> QED
  BY <1>4, <1>5 DEF RowStep

\* The worker's only candidate is the order its row's own submission created.
LEMMA OwnCandidate ==
    ASSUME IInv, worker.pc = "matched", NEW b \in worker.found
    PROVE  b = worker.cur
<1>1. worker.cur \in Requests /\ Exists(worker.cur)
  BY DEF IInv, Typed, WorkerBusy, WorkerSound, Copy
<1>2. b \in Requests /\ Exists(b)
  BY DEF IInv, Typed, TypeOK, WorkerSound, Progress
<1>3. clientOf[worker.cur] # NoClient /\ SentRemark(b) = clientOf[worker.cur]
  BY DEF IInv, WorkerSound
<1>4. clientOf[b] = clientOf[worker.cur]
  BY <1>3 DEF SentRemark
<1> QED
  BY <1>1, <1>2, <1>3, <1>4 DEF IInv, IdentityHeld

LEMMA RowSteps ==
    ASSUME IInv, [Next]_vars
    PROVE  \A s \in Requests : RowStep(s)
<1>1. ASSUME UNCHANGED <<rows, revision>> PROVE \A s \in Requests : RowStep(s)
  BY <1>1 DEF RowStep
<1>2. ASSUME NEW r \in Requests, PlaceReserve(r) PROVE \A s \in Requests : RowStep(s)
  <2>1. ~Exists(r)
    BY <1>2 DEF IInv, Progress, PlaceReserve
  <2>2. rows \in [Requests -> Row \cup {NoRow}]
    BY DEF IInv, Typed, TypeOK
  <2> QED
    BY <1>2, <2>1, <2>2 DEF PlaceReserve, RowStep
<1>3. ASSUME NEW r \in Requests, PlaceGuard(r) PROVE \A s \in Requests : RowStep(s)
  <2>1. ASSUME NEW outcome \in {<<"REJECTED", "risk">>, <<"UNKNOWN", "submission">>},
               TryCommit(r, NewOrder, OrderRow(outcome[1], NoOrder, 0, outcome[2])),
               UNCHANGED sent, pc' = [pc EXCEPT ![r] = "done"]
        PROVE  \A s \in Requests : RowStep(s)
    <3>1. outcome[1] \in RowStatus \ {"SUBMITTING"} /\ outcome[2] \in ErrorCode
      BY DEF RowStatus, ErrorCode
    <3>2. r \notin sent' /\ pc'[r] = "done"
      BY <1>3, <2>1 DEF IInv, Typed, TypeOK, Progress, PlaceGuard
    <3> QED
      BY <2>1, <3>1, <3>2, PlaceWrite
  <2> QED
    BY <1>1, <1>3, <2>1 DEF PlaceGuard
<1>4. ASSUME NEW r \in Requests, PlaceAck(r) PROVE \A s \in Requests : RowStep(s)
  <2>1. \/ TryCommit(r, NewOrder, OrderRow("SUBMITTED", r, 0, "none"))
        \/ TryCommit(r, NewOrder, OrderRow("UNKNOWN", r, 0, "submission"))
    BY <1>4 DEF PlaceAck, TryCommit
  <2>2. /\ {"SUBMITTED", "UNKNOWN"} \subseteq RowStatus \ {"SUBMITTING"}
        /\ {"none", "submission"} \subseteq ErrorCode
    BY DEF RowStatus, ErrorCode
  <2> QED
    BY <2>1, <2>2, PlaceWrite
<1>5. ASSUME NEW r \in Requests, PlaceUnknown(r) PROVE \A s \in Requests : RowStep(s)
  <2>1. "UNKNOWN" \in RowStatus \ {"SUBMITTING"} /\ "submission" \in ErrorCode
    BY DEF RowStatus, ErrorCode
  <2> QED
    BY <1>5, <2>1, PlaceWrite DEF PlaceUnknown
<1>6. CASE WorkerCommit
  <2>1. /\ worker.pc = "matched"
        /\ worker.cur \in Requests /\ worker.seen \in Row /\ Copy(worker.cur, worker.seen)
    BY <1>6 DEF WorkerCommit, IInv, Typed, WorkerBusy, WorkerSound
  <2>2. {"not_found", "ambiguous", "none"} \subseteq ErrorCode
    BY DEF ErrorCode
  <2>3. CASE UNCHANGED <<rows, revision>>
    BY <1>1, <2>3
  <2>4. ASSUME NEW b \in worker.found,
               Commit(worker.cur, worker.seen,
                      OrderRow("SUBMITTED", b, Fresh(worker.cur), "none"))
        PROVE  \A s \in Requests : RowStep(s)
    <3>1. b = worker.cur
      BY <2>1, OwnCandidate
    <3> QED
      BY <2>1, <2>2, <2>4, <3>1, WorkerWrite
  <2>5. ASSUME NEW code \in {"not_found", "ambiguous"},
               Commit(worker.cur, worker.seen,
                      OrderRow("UNKNOWN", worker.seen.order_id, Fresh(worker.cur), code))
        PROVE  \A s \in Requests : RowStep(s)
    <3>1. worker.seen.order_id \in {worker.cur, NoOrder}
      BY <2>1 DEF Copy
    <3> QED
      BY <2>1, <2>2, <2>5, <3>1, WorkerWrite
  <2> QED
    BY <1>6, <2>3, <2>4, <2>5 DEF WorkerCommit
<1>7. CASE Environment \/ UNCHANGED vars \/ WorkerScan \/ WorkerScanDone \/ WorkerMatch
  BY <1>1, <1>7 DEF Environment, OpendFlip, Crash, SavePreview, BrokerBook, BrokerDrop, vars,
                    WorkerScan, WorkerScanDone, WorkerMatch
<1>8. ASSUME NEW c \in worker.todo, WorkerRead(c) PROVE \A s \in Requests : RowStep(s)
  BY <1>1, <1>8 DEF WorkerRead
<1>9. ASSUME NEW r \in Requests, PlaceLookup(r) PROVE \A s \in Requests : RowStep(s)
  BY <1>1, <1>9 DEF PlaceLookup
<1> QED
  BY <1>2, <1>3, <1>4, <1>5, <1>6, <1>7, <1>8, <1>9 DEF Next, Worker, Place

----------------------------------------------------------------------------
\* Rows stay, and keep their shape.
LEMMA RowsKept ==
    ASSUME IInv, [Next]_vars, Typed', NEW r \in Requests
    PROVE  RowSound(r)' /\ (Exists(r) => Exists(r)')
<1>1. RowStep(r)
  BY RowSteps
<1>2. rows[r] \in Row \cup {NoRow} /\ revision[r] \in Nat /\ RowSound(r)
  BY DEF IInv, Typed, TypeOK
<1>3. NewOrder \in Row /\ NoRow \notin Row /\ NewOrder.order_id = NoOrder /\ NewOrder.updated_at = 0
  BY OrderRowType DEF NewOrder, OrderRow
<1> QED
  BY <1>1, <1>2, <1>3 DEF RowStep, RowSound, Exists

\* A copy stays a copy, whoever writes the row.
LEMMA CopyKept ==
    ASSUME IInv, [Next]_vars, NEW r \in Requests, NEW c \in Row, Copy(r, c)
    PROVE  Copy(r, c)'
<1>1. RowStep(r)
  BY RowSteps
<1>2. rows[r] \in Row /\ RowSound(r) /\ Exists(r)
  BY DEF IInv, Typed, TypeOK, Copy, Exists
<1>3. CASE rows'[r] = rows[r]
  BY <1>3 DEF Copy, Exists
<1>4. CASE rows'[r] # rows[r]
  <2>1. /\ rows'[r] \in Row /\ rows'[r].status # "SUBMITTING"
        /\ \/ rows[r] = NewOrder /\ rows'[r].updated_at = 0
           \/ rows'[r].updated_at > rows[r].updated_at
    BY <1>1, <1>2, <1>4 DEF RowStep
  <2>2. Exists(r)'
    BY <2>1, OrderRowType DEF Exists
  <2>3. c.updated_at \in Nat /\ rows[r].updated_at \in Nat /\ rows'[r].updated_at \in Nat
    BY <1>2, <2>1 DEF Row
  <2>4. CASE rows[r] = NewOrder /\ rows'[r].updated_at = 0
    <3>1. c = rows[r] /\ c.status = "SUBMITTING" /\ c.updated_at = 0
      BY <2>4 DEF Copy, NewOrder, OrderRow
    <3> QED
      BY <2>1, <2>2, <2>4, <3>1 DEF Copy
  <2>5. CASE rows'[r].updated_at > rows[r].updated_at
    BY <2>1, <2>2, <2>3, <2>5 DEF Copy
  <2> QED
    BY <2>1, <2>4, <2>5
<1> QED
  BY <1>3, <1>4

\* Only the reservation makes a row.
LEMMA RowMade ==
    ASSUME IInv, [Next]_vars, NEW s \in Requests, Exists(s)', ~Exists(s)
    PROVE  PlaceReserve(s)
<1>1. rows \in [Requests -> Row \cup {NoRow}]
  BY DEF IInv, Typed, TypeOK
<1>2. rows' # rows
  BY DEF Exists
<1>3. ASSUME NEW r, NEW seen, NEW next PROVE ~TryCommit(r, seen, next)
  BY <1>1 DEF TryCommit, Commit, FenceHolds, Exists
<1>4. ~Worker
  BY <1>2, <1>3 DEF Worker, WorkerScan, WorkerScanDone, WorkerMatch, WorkerRead,
                    WorkerCommit, TryCommit
<1>5. ~Environment /\ ~UNCHANGED vars
  BY <1>2 DEF Environment, OpendFlip, Crash, SavePreview, BrokerBook, BrokerDrop, vars
<1>6. PICK r \in Requests : Place(r)
  BY <1>4, <1>5 DEF Next
<1>7. PlaceReserve(r)
  BY <1>2, <1>3, <1>6 DEF Place, PlaceLookup, PlaceGuard, PlaceAck, PlaceUnknown, TryCommit
<1> QED
  BY <1>1, <1>7 DEF PlaceReserve, Exists

\* A row is made only for an identity nobody holds.
LEMMA IdentityNext ==
    ASSUME IInv, [Next]_vars
    PROVE  IdentityHeld'
<1>1. rows \in [Requests -> Row \cup {NoRow}]
  BY DEF IInv, Typed, TypeOK
<1>2. ASSUME NEW r \in Requests, PlaceReserve(r) PROVE IdentityHeld'
  BY <1>1, <1>2 DEF IInv, IdentityHeld, PlaceReserve, Answered, Owners, Exists
<1>3. ASSUME \A s \in Requests : Exists(s)' => Exists(s) PROVE IdentityHeld'
  BY <1>3 DEF IInv, IdentityHeld
<1> QED
  BY <1>2, <1>3, RowMade

(***************************************************************************)
(* What any step may do to a place handler and to the submissions.         *)
(***************************************************************************)
HandlerStep(r) ==
    \/ pc'[r] = pc[r] /\ (r \in sent' => r \in sent)
    \/ pc[r] = "idle" /\ pc'[r] = "looked_up" /\ (r \in sent' => r \in sent)
    \/ pc[r] = "looked_up" /\ pc'[r] = "reserved" /\ rows'[r] = NewOrder
          /\ (r \in sent' => r \in sent)
    \/ pc[r] = "reserved" /\ pc'[r] = "calling"
    \/ pc'[r] \in {"done", "dead"} /\ (r \in sent' => r \in sent)

LEMMA HandlerSteps ==
    ASSUME IInv, [Next]_vars
    PROVE  /\ \A r \in Requests : HandlerStep(r)
           /\ wire' \subseteq sent' /\ booked' \subseteq sent'
<1>1. TypeOK /\ wire \subseteq sent /\ booked \subseteq sent
  BY DEF IInv, Typed, Progress
<1> DEFINE Goal == /\ \A r \in Requests : HandlerStep(r)
                   /\ wire' \subseteq sent' /\ booked' \subseteq sent'
<1>2. ASSUME UNCHANGED <<pc, wire, sent, booked>> PROVE Goal
  BY <1>1, <1>2 DEF HandlerStep
<1>3. ASSUME NEW r \in Requests, PlaceLookup(r) PROVE Goal
  BY <1>1, <1>3 DEF HandlerStep, PlaceLookup, TypeOK
<1>4. ASSUME NEW r \in Requests, PlaceReserve(r) PROVE Goal
  BY <1>1, <1>4 DEF HandlerStep, PlaceReserve, TypeOK
<1>5. ASSUME NEW r \in Requests, PlaceGuard(r) PROVE Goal
  BY <1>1, <1>5 DEF HandlerStep, PlaceGuard, TypeOK
<1>6. ASSUME NEW r \in Requests, PlaceAck(r) \/ PlaceUnknown(r) PROVE Goal
  BY <1>1, <1>6 DEF HandlerStep, PlaceAck, PlaceUnknown, TypeOK
<1>7. CASE Worker
  BY <1>2, <1>7 DEF Worker, WorkerScan, WorkerScanDone, WorkerMatch, WorkerRead, WorkerCommit
<1>8. ASSUME NEW r \in Requests, BrokerBook(r) \/ BrokerDrop(r) PROVE Goal
  BY <1>1, <1>8 DEF HandlerStep, BrokerBook, BrokerDrop
<1>9. CASE Crash
  BY <1>1, <1>9 DEF HandlerStep, Crash, TypeOK
<1>10. ASSUME OpendFlip \/ UNCHANGED vars \/ \E r \in Requests : SavePreview(r) PROVE Goal
  BY <1>2, <1>10 DEF OpendFlip, vars, SavePreview
<1> QED
  BY <1>3, <1>4, <1>5, <1>6, <1>7, <1>8, <1>9, <1>10 DEF Next, Place, Environment

LEMMA ProgressNext ==
    ASSUME IInv, [Next]_vars, Typed'
    PROVE  Progress'
<1>1. TypeOK /\ Progress /\ TypeOK'
  BY DEF IInv, Typed
<1>2. /\ \A r \in Requests : HandlerStep(r)
      /\ wire' \subseteq sent' /\ booked' \subseteq sent'
  BY HandlerSteps
<1>3. \A r \in Requests : Exists(r) => Exists(r)'
  BY RowsKept
<1>4. \A r \in Requests :
         Exists(r) /\ rows[r].status # "REJECTED" /\ (r \in sent' \/ pc'[r] # "done")
            => rows'[r].status # "REJECTED"
  BY RowSteps DEF RowStep
<1>5. NewOrder # NoRow /\ NewOrder.status = "SUBMITTING"
  BY OrderRowType DEF NewOrder, OrderRow
<1>6. ASSUME NEW r \in Requests, pc'[r] \in {"idle", "looked_up"} PROVE ~Exists(r)'
  <2>1. ~Exists(r)
    BY <1>1, <1>2, <1>6 DEF HandlerStep, Progress
  <2>2. SUFFICES ASSUME PlaceReserve(r) PROVE FALSE
    BY <2>1, RowMade
  <2> QED
    BY <1>1, <1>6, <2>2 DEF PlaceReserve, TypeOK
<1>7. ASSUME NEW r \in Requests, pc'[r] \in {"reserved", "calling"} PROVE Exists(r)'
  BY <1>1, <1>2, <1>3, <1>5, <1>7 DEF HandlerStep, Progress, Exists
<1>8. ASSUME NEW r \in Requests, pc'[r] = "reserved" PROVE rows'[r].status # "REJECTED"
  BY <1>1, <1>2, <1>4, <1>5, <1>8 DEF HandlerStep, Progress
<1>9. ASSUME NEW r \in Requests, pc'[r] \in {"idle", "looked_up", "reserved"}
      PROVE  r \notin sent'
  BY <1>1, <1>2, <1>9 DEF HandlerStep, Progress
<1>10. ASSUME NEW r \in sent' PROVE Exists(r)' /\ rows'[r].status # "REJECTED"
  <2>1. r \in Requests
    BY <1>1 DEF TypeOK
  <2>2. Exists(r) /\ rows[r].status # "REJECTED"
    BY <1>1, <1>2, <2>1 DEF HandlerStep, Progress
  <2> QED
    BY <1>3, <1>4, <2>1, <2>2
<1> QED
  BY <1>2, <1>6, <1>7, <1>8, <1>9, <1>10 DEF Progress

LEMMA WorkerNext ==
    ASSUME IInv, [Next]_vars
    PROVE  WorkerSound'
<1>1. TypeOK /\ WorkerSound /\ WorkerBusy
  BY DEF IInv, Typed
<1>2. booked \subseteq booked'
  BY DEF Next, Place, PlaceLookup, PlaceReserve, PlaceGuard, PlaceAck, PlaceUnknown, Worker,
         WorkerScan, WorkerScanDone, WorkerMatch, WorkerRead, WorkerCommit, Environment,
         OpendFlip, Crash, SavePreview, BrokerBook, BrokerDrop, vars
<1>3. \A t \in worker.todo : t \in Requests \X Row /\ Copy(t[1], t[2])'
  <2> SUFFICES ASSUME NEW t \in worker.todo PROVE t \in Requests \X Row /\ Copy(t[1], t[2])'
    OBVIOUS
  <2>1. t \in Requests \X Row /\ Copy(t[1], t[2])
    BY <1>1 DEF TypeOK, WorkerState, WorkerSound
  <2>2. t[1] \in Requests /\ t[2] \in Row
    BY <2>1
  <2> QED
    BY <2>1, <2>2, CopyKept
<1>4. ASSUME worker.pc \in {"read", "matched"}, worker'.cur = worker.cur, worker'.seen = worker.seen
      PROVE  Copy(worker.cur, worker.seen)'
  <2>1. worker.cur \in Requests /\ worker.seen \in Row /\ Copy(worker.cur, worker.seen)
    BY <1>1, <1>4 DEF WorkerBusy, WorkerSound
  <2>2. \A r \in Requests, c \in Row : Copy(r, c) => Copy(r, c)'
    BY CopyKept
  <2> QED
    BY <1>4, <2>1, <2>2 DEF Copy, Exists
<1>5. CASE worker' = worker
  BY <1>1, <1>2, <1>3, <1>4, <1>5 DEF WorkerSound
<1>6. CASE worker' = IdleWorker
  BY <1>6, WorkerRestType DEF WorkerSound
<1>7. CASE WorkerScan
  <2> DEFINE todo == {<<r, rows[r]>> : r \in {s \in Requests : Unidentified(s)}}
  <2>1. \A t \in todo : t \in Requests \X Row /\ Copy(t[1], t[2])'
    <3> SUFFICES ASSUME NEW t \in todo PROVE t \in Requests \X Row /\ Copy(t[1], t[2])'
      OBVIOUS
    <3>1. PICK r \in Requests : Unidentified(r) /\ t = <<r, rows[r]>>
      OBVIOUS
    <3>2. Exists(r) /\ rows[r] \in Row /\ rows[r].order_id = NoOrder
      BY <1>1, <3>1 DEF TypeOK, Unidentified, Exists
    <3>3. rows[r].updated_at \in Nat /\ rows' = rows
      BY <1>7, <3>2 DEF Row, WorkerScan
    <3>4. Copy(r, rows[r])'
      BY <3>2, <3>3 DEF Copy, Exists
    <3> QED
      BY <3>1, <3>2, <3>3, <3>4 DEF Copy, Exists
  <2>2. todo \in SUBSET (Requests \X Row)
    BY <2>1
  <2>3. worker' = Scanning(todo)
    BY <1>7 DEF WorkerScan
  <2> QED
    BY <2>1, <2>2, <2>3, WorkerRestType DEF WorkerSound
<1>8. ASSUME NEW t \in worker.todo, WorkerRead(t) PROVE WorkerSound'
  <2>1. t[1] \in Requests /\ t[2] \in Row /\ Copy(t[1], t[2])'
    BY <1>3
  <2>2. worker.todo \ {t} \in SUBSET (Requests \X Row)
    BY <1>3
  <2>3. CASE worker' = Scanning(worker.todo \ {t})
    BY <1>3, <2>2, <2>3, WorkerRestType DEF WorkerSound
  <2>4. CASE worker' = Working("read", worker.todo \ {t}, t[1], t[2], booked, {})
    <3>1. /\ worker'.pc = "read" /\ worker'.todo = worker.todo \ {t}
          /\ worker'.cur = t[1] /\ worker'.seen = t[2] /\ worker'.book = booked
      BY <2>4 DEF Working
    <3>2. Copy(worker.cur, worker.seen)'
      BY <2>1, <3>1 DEF Copy, Exists
    <3> QED
      BY <1>2, <1>3, <3>1, <3>2 DEF WorkerSound
  <2> QED
    BY <1>8, <2>3, <2>4 DEF WorkerRead
<1>9. CASE WorkerMatch
  <2> DEFINE found == Candidates(worker.cur, worker.book)
  <2>1. /\ worker.pc = "read" /\ worker'.pc = "matched" /\ worker'.todo = worker.todo
        /\ worker'.cur = worker.cur /\ worker'.seen = worker.seen
        /\ worker'.book = worker.book /\ worker'.found = found
    BY <1>9 DEF WorkerMatch, Working
  <2>2. Copy(worker.cur, worker.seen)'
    BY <1>4, <2>1
  <2>3. /\ found \subseteq worker.book
        /\ \A b \in found : clientOf[worker.cur] # NoClient /\ SentRemark(b) = clientOf[worker.cur]
    BY DEF Candidates
  <2> QED
    BY <1>1, <1>2, <1>3, <2>1, <2>2, <2>3 DEF WorkerSound
<1>10. CASE WorkerCommit
  <2>1. worker.todo \in SUBSET (Requests \X Row)
    BY <1>3
  <2> QED
    BY <1>3, <1>10, <2>1, WorkerRestType DEF WorkerSound, WorkerCommit
<1> QED
  BY <1>5, <1>6, <1>7, <1>8, <1>9, <1>10
  DEF Next, Place, PlaceLookup, PlaceReserve, PlaceGuard, PlaceAck, PlaceUnknown, Worker,
      WorkerScanDone, Environment, OpendFlip, Crash, SavePreview, BrokerBook, BrokerDrop, vars

LEMMA PreviewNext ==
    ASSUME IInv, [Next]_vars
    PROVE  PreviewSound'
<1> USE SubmissionAssumption
<1>1. TypeOK /\ PreviewSound /\ Progress
  BY DEF IInv, Typed
<1>2. \A r \in Requests : Exists(r) => Exists(r)'
  BY RowsKept, TypedNext DEF IInv
<1>3. ASSUME NEW r \in Requests, PlaceReserve(r), rows' # rows PROVE PreviewSound'
  <2>1. /\ pc[r] = "looked_up" /\ PreviewAccepts(r) /\ rows' = [rows EXCEPT ![r] = NewOrder]
        /\ previews' = ConsumePreview(r) /\ pc' = [pc EXCEPT ![r] = "reserved"]
    BY <1>3 DEF PlaceReserve
  <2>2. \A s \in Requests : Exists(s)' => Exists(s) \/ s = r
    BY <1>1, <2>1 DEF TypeOK, Exists
  <2>3. Exists(r)'
    BY <1>1, <2>1, OrderRowType DEF TypeOK, Exists
  <2>4. \A p \in Previews :
           /\ previews'[p].hash = previews[p].hash
           /\ previews'[p].consumed => previews[p].consumed \/ p = previewOf[r]
    <3> SUFFICES ASSUME NEW p \in Previews
                 PROVE  /\ previews'[p].hash = previews[p].hash
                        /\ previews'[p].consumed => previews[p].consumed \/ p = previewOf[r]
      OBVIOUS
    <3>1. CASE previewOf[r] = NoPreview
      BY <2>1, <3>1 DEF ConsumePreview
    <3>2. CASE previewOf[r] # NoPreview /\ p # previewOf[r]
      BY <1>1, <2>1, <3>2 DEF ConsumePreview, TypeOK
    <3>3. CASE previewOf[r] # NoPreview /\ p = previewOf[r]
      <4>1. previews[p] \in Preview
        BY <1>1, <2>1, <3>3 DEF PreviewAccepts, TypeOK, NoPreviewRow
      <4>2. previews'[p] = [previews[p] EXCEPT !.consumed = TRUE]
        BY <1>1, <2>1, <3>3 DEF ConsumePreview, TypeOK
      <4> QED
        BY <3>3, <4>1, <4>2 DEF Preview
    <3> QED
      BY <3>1, <3>2, <3>3
  <2>5. \A s \in Requests : Exists(s)' \/ pc'[s] = "looked_up"
           => previewOf[s] = NoPreview \/ clientOf[s] # NoClient
    BY <1>1, <2>1, <2>2 DEF PreviewSound, TypeOK
  <2>6. \A s \in Requests : Exists(s)' /\ previewOf[s] # NoPreview
           => previews'[previewOf[s]].hash = hashOf[s]
    BY <1>1, <2>1, <2>2, <2>4 DEF PreviewSound, PreviewAccepts
  <2>7. \A p \in Previews : previews'[p].consumed
           => \E s \in Requests : Exists(s)' /\ previewOf[s] = p
    BY <1>1, <1>2, <2>3, <2>4 DEF PreviewSound
  <2> QED
    BY <2>5, <2>6, <2>7 DEF PreviewSound
<1>4. ASSUME NEW r \in Requests, SavePreview(r) PROVE PreviewSound'
  <2>1. previews' = [previews EXCEPT ![previewOf[r]] = [hash |-> hashOf[r], consumed |-> FALSE]]
        /\ previews[previewOf[r]] = NoPreviewRow /\ UNCHANGED <<rows, pc>>
        /\ previewOf[r] \in Previews
    BY <1>4 DEF SavePreview
  <2>2. \A s \in Requests : Exists(s) /\ previewOf[s] # NoPreview => previewOf[s] # previewOf[r]
    BY <1>1, <2>1 DEF PreviewSound, NoPreviewRow
  <2> QED
    BY <1>1, <2>1, <2>2 DEF PreviewSound, TypeOK, Exists
<1>5. ASSUME \A s \in Requests : Exists(s)' => Exists(s), UNCHANGED previews,
             \A s \in Requests : pc'[s] = "looked_up" =>
                pc[s] = "looked_up" \/ previewOf[s] = NoPreview \/ clientOf[s] # NoClient
      PROVE  PreviewSound'
  BY <1>1, <1>2, <1>5 DEF PreviewSound
<1>6. ASSUME ~\E r \in Requests : PlaceReserve(r), ~\E r \in Requests : SavePreview(r)
      PROVE  PreviewSound'
  <2>1. \A s \in Requests : Exists(s)' => Exists(s)
    BY <1>6, RowMade
  <2>2. UNCHANGED previews
    BY <1>6 DEF Next, Place, PlaceLookup, PlaceGuard, PlaceAck, PlaceUnknown, Worker,
                WorkerScan, WorkerScanDone, WorkerMatch, WorkerRead, WorkerCommit, Environment,
                OpendFlip, Crash, BrokerBook, BrokerDrop, vars
  <2>3. \A s \in Requests : pc'[s] = "looked_up" =>
           pc[s] = "looked_up" \/ previewOf[s] = NoPreview \/ clientOf[s] # NoClient
    <3>1. ASSUME NEW r \in Requests, PlaceLookup(r), NEW s \in Requests, pc'[s] = "looked_up"
          PROVE  pc[s] = "looked_up" \/ previewOf[s] = NoPreview \/ clientOf[s] # NoClient
      BY <1>1, <3>1 DEF PlaceLookup, TypeOK
    <3>2. ASSUME ~\E r \in Requests : PlaceLookup(r), NEW s \in Requests, pc'[s] = "looked_up"
          PROVE  pc[s] = "looked_up"
      BY <1>1, <1>6, <3>2
      DEF Next, Place, PlaceGuard, PlaceAck, PlaceUnknown, Worker, TypeOK,
          WorkerScan, WorkerScanDone, WorkerMatch, WorkerRead, WorkerCommit, Environment,
          OpendFlip, Crash, BrokerBook, BrokerDrop, vars
    <3> QED
      BY <3>1, <3>2
  <2> QED
    BY <1>5, <2>1, <2>2, <2>3
<1>7. ASSUME NEW r \in Requests, PlaceReserve(r), rows' = rows PROVE PreviewSound'
  <2>1. UNCHANGED previews
    <3>1. NewOrder # rows[r]
      BY <1>1, <1>7, OrderRowType DEF Progress, PlaceReserve, Exists
    <3> QED
      BY <1>1, <1>7, <3>1 DEF PlaceReserve, TypeOK
  <2>2. \A s \in Requests : pc'[s] = "looked_up" => pc[s] = "looked_up"
    BY <1>1, <1>7 DEF PlaceReserve, TypeOK
  <2> QED
    BY <1>5, <1>7, <2>1, <2>2 DEF Exists
<1> QED
  BY <1>3, <1>4, <1>6, <1>7

LEMMA IInvNext == IInv /\ [Next]_vars => IInv'
<1> SUFFICES ASSUME IInv, [Next]_vars PROVE IInv'
  OBVIOUS
<1>1. Typed'
  BY TypedNext DEF IInv
<1> QED
  BY <1>1, IdentityNext, ProgressNext, RowsKept, WorkerNext, PreviewNext DEF IInv

THEOREM Inductive == Spec => []IInv
  BY IInvInit, IInvNext, PTL DEF Spec

----------------------------------------------------------------------------
(***************************************************************************)
(* The broker is called for at most one request of a client identity       *)
(* (reserve_order_with_preview_checked), whatever the number of retries,   *)
(* the interleaving, the failures and the restarts.                        *)
(***************************************************************************)
THEOREM OneSubmission == Spec => []AtMostOneSubmission
<1>1. IInv => AtMostOneSubmission
  BY DEF IInv, Typed, TypeOK, Progress, IdentityHeld, AtMostOneSubmission
<1> QED
  BY <1>1, Inductive, PTL

(***************************************************************************)
(* No row is ever bound to a broker order of another request               *)
(* (persist_external_success, resolve_unidentified_submission).            *)
(***************************************************************************)
THEOREM OwnBinding == Spec => []BoundToOwnSubmission
<1>1. IInv => BoundToOwnSubmission
  BY DEF IInv, RowSound, BoundToOwnSubmission
<1> QED
  BY <1>1, Inductive, PTL

(***************************************************************************)
(* Every order in the broker's book has a row that knows it or that the    *)
(* next scan looks at (list_reconciliation_candidates).                    *)
(***************************************************************************)
THEOREM Tracking == Spec => []BookedOrderTracked
<1>1. IInv => BookedOrderTracked
  <2> SUFFICES ASSUME IInv, NEW r \in booked
               PROVE  Exists(r) /\ (rows[r].order_id = r \/ rows[r].status \in CandidateStatus)
    BY DEF BookedOrderTracked
  <2>1. r \in Requests /\ Exists(r) /\ rows[r].status # "REJECTED"
    BY DEF IInv, Typed, TypeOK, Progress
  <2>2. rows[r].status \in RowStatus
    BY <2>1 DEF IInv, Typed, TypeOK, Exists, Row
  <2> QED
    BY <2>1, <2>2 DEF RowStatus, CandidateStatus
<1> QED
  BY <1>1, Inductive, PTL

(***************************************************************************)
(* A preview pays for one order and is spent only with it                  *)
(* (consume_preview_in_transaction).                                       *)
(***************************************************************************)
THEOREM OnePayment == Spec => []PreviewPaysOnce
<1>1. IInv => PreviewPaysOnce
  <2> SUFFICES ASSUME IInv PROVE PreviewPaysOnce
    OBVIOUS
  <2>1. ASSUME NEW r \in Requests, NEW s \in Requests, Exists(r), Exists(s),
               previewOf[r] = previewOf[s], previewOf[r] # NoPreview
        PROVE  r = s
    <3>1. hashOf[r] = hashOf[s] /\ clientOf[r] # NoClient
      BY <2>1 DEF IInv, PreviewSound
    <3> QED
      BY <2>1, <3>1, SubmissionAssumption DEF IInv, IdentityHeld
  <2> QED
    BY <2>1 DEF IInv, PreviewSound, PreviewPaysOnce
<1> QED
  BY <1>1, Inductive, PTL

(***************************************************************************)
(* A binding is never lost or changed: every later write of a handler or   *)
(* of the worker fails the fence (transition_order_and_event_fenced).      *)
(***************************************************************************)
THEOREM StableBinding == Spec => BindingStable
<1>1. ASSUME IInv, [Next]_vars, NEW r \in Requests, Exists(r), rows[r].order_id # NoOrder
      PROVE  rows'[r].order_id = rows[r].order_id
  BY <1>1, RowSteps DEF RowStep
<1>2. IInv /\ [Next]_vars =>
        [\A r \in Requests : Exists(r) /\ rows[r].order_id # NoOrder
            => rows'[r].order_id = rows[r].order_id]_vars
  BY <1>1
<1> QED
  BY <1>2, Inductive, PTL DEF Spec, BindingStable
=============================================================================
