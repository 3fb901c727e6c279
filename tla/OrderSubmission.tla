--------------------------- MODULE OrderSubmission ---------------------------
(***************************************************************************)
(* Submitting an execution order: the handlers place_order / place_combo,  *)
(* the durable reservation fence of the SQLite store, the broker call, and *)
(* the reconciliation worker that binds a row whose acknowledgement was    *)
(* lost to the broker order its submission created.                        *)
(*                                                                         *)
(* A request is one invocation of a place handler.  A retry of a client is *)
(* another request with the same client order identity.  A row and a       *)
(* broker order are named by the request that created them: the internal   *)
(* id of a row comes from a durable sequence, so no two requests share it. *)
(* "Client identity" is the tuple (broker, environment, account, client    *)
(* order id) of the unique index.                                          *)
(*                                                                         *)
(* Once a row carries a broker order id its life is the subject of module  *)
(* OrderLifecycle; here it is left alone.                                  *)
(***************************************************************************)
EXTENDS OrderStatus, FiniteSets

CONSTANTS
    Requests,       \* invocations of place_order / place_combo
    ClientIds,      \* client order identities
    Hashes,         \* canonical request hashes (preview_request_hash)
    Previews,       \* preview ids
    NoClient,       \* a request without clientOrderId
    NoPreview,      \* a request without previewId
    NoOrder,        \* a NULL broker order id
    clientOf,       \* [Requests -> client identity or NoClient]
    hashOf,         \* [Requests -> Hashes]
    previewOf,      \* [Requests -> preview id or NoPreview]
    userRemark,     \* the requests whose order carries a remark of the user
    MaxCrashes      \* bound on process restarts

(***************************************************************************)
(* The hash covers broker, account, environment and client order id        *)
(* (CanonicalPlaceOrderQuery, CanonicalComboIntent), so equal hashes have  *)
(* equal client identities.                                                *)
(***************************************************************************)
ASSUME SubmissionAssumption ==
    /\ NoClient \notin ClientIds
    /\ NoPreview \notin Previews \cup Hashes
    /\ NoOrder \notin Requests
    /\ clientOf \in [Requests -> ClientIds \cup {NoClient}]
    /\ hashOf \in [Requests -> Hashes]
    /\ previewOf \in [Requests -> Previews \cup {NoPreview}]
    /\ userRemark \subseteq Requests
    /\ MaxCrashes \in Nat
    /\ \A r, s \in Requests : hashOf[r] = hashOf[s] => clientOf[r] = clientOf[s]

VARIABLES
    rows,       \* execution_orders: [Requests -> NoRow or a row]
    revision,   \* COUNT(execution_order_events) of the row
    previews,   \* execution_order_previews: the bound hash and consumed_at
    pc,         \* where each place handler is
    wire,       \* submissions on their way to the broker
    sent,       \* history: the requests whose broker call was made
    booked,     \* the orders in the broker's book
    opend,      \* is OpenD connected and the trade account logged in?
    worker,     \* the reconciliation worker
    crashes     \* number of restarts so far

vars == <<rows, revision, previews, pc, wire, sent, booked, opend, worker, crashes>>

NoRow == [status |-> "none"]

RowStatus == {"SUBMITTING", "SUBMITTED", "REJECTED", "UNKNOWN"}

\* last_error_code, as far as persist_unknown_if_needed tells codes apart.
ErrorCode == {"none", "risk", "submission", "not_found", "ambiguous"}

Row == [status : RowStatus,
        order_id : Requests \cup {NoOrder},
        updated_at : Nat,
        last_error : ErrorCode]

OrderRow(status, order_id, updated_at, last_error) ==
    [status |-> status, order_id |-> order_id,
     updated_at |-> updated_at, last_error |-> last_error]

Preview == [hash : Hashes, consumed : BOOLEAN]
NoPreviewRow == [hash |-> NoPreview, consumed |-> FALSE]

PlacePC == {"idle", "looked_up", "reserved", "calling", "done", "dead"}
WorkerPC == {"idle", "scanning", "read", "matched"}

Exists(r) == rows[r] # NoRow

(***************************************************************************)
(* The remark that goes out with the order: the user's own text, or the    *)
(* client order id when the user gave none (to_trade_request, new_order).  *)
(* A user's text is correlation evidence for nobody.                       *)
(***************************************************************************)
SentRemark(r) == IF r \in userRemark THEN NoClient ELSE clientOf[r]

\* Mutant: a row whose outcome is unknown does not hold its client identity.
OwnersWithOutcome(r) ==
    IF clientOf[r] = NoClient
    THEN {}
    ELSE {s \in Requests : /\ Exists(s) /\ clientOf[s] = clientOf[r]
                           /\ rows[s].status # "UNKNOWN"}

\* find_order_by_client_identity / find_existing_order
Owners(r) ==
    IF clientOf[r] = NoClient
    THEN {}
    ELSE {s \in Requests : Exists(s) /\ clientOf[s] = clientOf[r]}

\* replay_or_conflict: an owner of the identity answers the request, with its
\* own state for the same hash and with a conflict for another.
Answered(r) == Owners(r) # {}

\* writer() and reconciliation_reader(): OpenD is ready, the account logged in.
WriterReady == opend
ReaderReady == opend

----------------------------------------------------------------------------
(* The store's fenced transition. *)

\* Mutant: the transition is not fenced.
FenceDropped(r, seen) == Exists(r)

(***************************************************************************)
(* transition_order_and_event: compare-and-set on (status, updated_at);    *)
(* the whole row is replaced and one event is appended.                    *)
(***************************************************************************)
FenceHolds(r, seen) ==
    /\ Exists(r)
    /\ rows[r].status = seen.status
    /\ rows[r].updated_at = seen.updated_at

Commit(r, seen, next) ==
    IF FenceHolds(r, seen)
    THEN /\ rows' = [rows EXCEPT ![r] = next]
         /\ revision' = [revision EXCEPT ![r] = @ + 1]
    ELSE UNCHANGED <<rows, revision>>

\* A handler's write: the store may also fail and change nothing.
TryCommit(r, seen, next) == Commit(r, seen, next) \/ UNCHANGED <<rows, revision>>

\* A timestamp nobody has written to this row before (provider_now_rfc3339).
Fresh(r) == revision[r] + 1

----------------------------------------------------------------------------
(* The place handlers. *)

\* Mutant: an empty text instead of a NULL broker order id.
NewOrderEmptyId == OrderRow("SUBMITTING", "", 0, "none")

\* new_order: the row as reserved; updated_at is the handler's own `now`.
NewOrder == OrderRow("SUBMITTING", NoOrder, 0, "none")

(***************************************************************************)
(* save_preview: binds a preview id to one request hash; saving the same   *)
(* binding again changes nothing.                                          *)
(***************************************************************************)
SavePreview(r) ==
    /\ previewOf[r] # NoPreview
    /\ previews[previewOf[r]] = NoPreviewRow
    /\ previews' = [previews EXCEPT ![previewOf[r]] =
                        [hash |-> hashOf[r], consumed |-> FALSE]]
    /\ UNCHANGED <<rows, revision, pc, wire, sent, booked, opend, worker, crashes>>

(***************************************************************************)
(* The head of place_order: a preview demands a client order id; an owner  *)
(* of the identity answers the request (replay_or_conflict); OpenD must be *)
(* ready before anything is written (writer()).                            *)
(***************************************************************************)
PlaceLookup(r) ==
    /\ pc[r] = "idle"
    /\ \/ /\ previewOf[r] # NoPreview /\ clientOf[r] = NoClient
          /\ pc' = [pc EXCEPT ![r] = "done"]
       \/ /\ previewOf[r] = NoPreview \/ clientOf[r] # NoClient
          /\ pc' = [pc EXCEPT ![r] =
                IF Answered(r) \/ ~WriterReady THEN "done" ELSE "looked_up"]
    /\ UNCHANGED <<rows, revision, previews, wire, sent, booked, opend, worker, crashes>>

\* Mutant: the preview is not compared with the request it was made for.
PreviewUnchecked(r) ==
    previewOf[r] # NoPreview => previews[previewOf[r]] # NoPreviewRow

(***************************************************************************)
(* consume_preview_in_transaction: the preview must be bound to this very  *)
(* hash; a consumed one is accepted again, a fresh one may have expired.   *)
(***************************************************************************)
PreviewAccepts(r) ==
    previewOf[r] # NoPreview => previews[previewOf[r]].hash = hashOf[r]

ConsumePreview(r) ==
    IF previewOf[r] = NoPreview
    THEN previews
    ELSE [previews EXCEPT ![previewOf[r]].consumed = TRUE]

(***************************************************************************)
(* reserve_order_with_preview_checked, one immediate transaction: an owner *)
(* wins without touching the preview; otherwise consume and insert, or     *)
(* refuse and change nothing.                                              *)
(***************************************************************************)
PlaceReserve(r) ==
    /\ pc[r] = "looked_up"
    /\ \/ /\ ~Answered(r) /\ PreviewAccepts(r)
          /\ rows' = [rows EXCEPT ![r] = NewOrder]
          /\ previews' = ConsumePreview(r)
          /\ pc' = [pc EXCEPT ![r] = "reserved"]
       \/ /\ \/ Answered(r)
             \/ previewOf[r] # NoPreview      \* wrong hash, or expired
          /\ pc' = [pc EXCEPT ![r] = "done"]
          /\ UNCHANGED <<rows, previews>>
    /\ UNCHANGED <<revision, wire, sent, booked, opend, worker, crashes>>

(***************************************************************************)
(* execute_order_under_guard: the risk guard refuses and the row becomes   *)
(* REJECTED (persist_rejected), or the control plane cannot be read and    *)
(* the row becomes UNKNOWN, or the submission goes out.                    *)
(***************************************************************************)
PlaceGuard(r) ==
    /\ pc[r] = "reserved"
    /\ \/ /\ pc' = [pc EXCEPT ![r] = "calling"]
          /\ wire' = wire \cup {r}
          /\ sent' = sent \cup {r}
          /\ UNCHANGED <<rows, revision>>
       \/ /\ \E outcome \in {<<"REJECTED", "risk">>, <<"UNKNOWN", "submission">>} :
                TryCommit(r, NewOrder, OrderRow(outcome[1], NoOrder, 0, outcome[2]))
          /\ pc' = [pc EXCEPT ![r] = "done"]
          /\ UNCHANGED <<wire, sent>>
    /\ UNCHANGED <<previews, booked, opend, worker, crashes>>

(***************************************************************************)
(* The broker acknowledged: persist_external_success stores the broker id. *)
(* When the fence fails, or the store does, the handler tries to leave     *)
(* UNKNOWN behind with the same fence and reports EXECUTION_STATE_UNKNOWN. *)
(***************************************************************************)
PlaceAck(r) ==
    /\ pc[r] = "calling"
    /\ r \in booked
    /\ \/ Commit(r, NewOrder, OrderRow("SUBMITTED", r, 0, "none"))
       \/ TryCommit(r, NewOrder, OrderRow("UNKNOWN", r, 0, "submission"))
    /\ pc' = [pc EXCEPT ![r] = "done"]
    /\ UNCHANGED <<previews, wire, sent, booked, opend, worker, crashes>>

(***************************************************************************)
(* The broker call failed, timed out or answered without an order id:      *)
(* persist_unknown("submission_failed").  The submission may still be on   *)
(* its way.                                                                *)
(***************************************************************************)
PlaceUnknown(r) ==
    /\ pc[r] = "calling"
    /\ TryCommit(r, NewOrder, OrderRow("UNKNOWN", NoOrder, 0, "submission"))
    /\ pc' = [pc EXCEPT ![r] = "done"]
    /\ UNCHANGED <<previews, wire, sent, booked, opend, worker, crashes>>

----------------------------------------------------------------------------
(* The reconciliation worker: one task, one scan at a time. *)

\* The pass over one order: the row as it was read, the broker's orders, the
\* candidates among them.
Working(at, todo, cur, seen, book, found) ==
    [pc |-> at, todo |-> todo, cur |-> cur, seen |-> seen, book |-> book, found |-> found]
Scanning(todo) == Working("scanning", todo, NoOrder, NoRow, {}, {})
IdleWorker == Working("idle", {}, NoOrder, NoRow, {}, {})

\* Mutant: a row already marked UNKNOWN is not looked at again.
UnidentifiedInFlight(r) ==
    Exists(r) /\ rows[r].status = "SUBMITTING" /\ rows[r].order_id = NoOrder

Unidentified(r) ==
    /\ Exists(r)
    /\ rows[r].status \in CandidateStatus
    /\ rows[r].order_id = NoOrder

(***************************************************************************)
(* reconcile_pending_orders: needs a ready reader; reads the candidates    *)
(* once.  (worker.todo keeps the row as it was read.)                      *)
(***************************************************************************)
WorkerScan ==
    /\ worker.pc = "idle" /\ ReaderReady
    /\ worker' = Scanning({<<r, rows[r]>> : r \in {s \in Requests : Unidentified(s)}})
    /\ UNCHANGED <<rows, revision, previews, pc, wire, sent, booked, opend, crashes>>

WorkerScanDone ==
    /\ worker.pc = "scanning" /\ worker.todo = {}
    /\ worker' = IdleWorker
    /\ UNCHANGED <<rows, revision, previews, pc, wire, sent, booked, opend, crashes>>

(***************************************************************************)
(* resolve_unidentified_submission, first half: the active and the history *)
(* orders of the account.  A failed read leaves the order for a later scan.*)
(***************************************************************************)
WorkerRead(c) ==
    /\ worker.pc = "scanning" /\ c \in worker.todo
    /\ worker' = IF ReaderReady
                 THEN Working("read", worker.todo \ {c}, c[1], c[2], booked, {})
                 ELSE Scanning(worker.todo \ {c})
    /\ UNCHANGED <<rows, revision, previews, pc, wire, sent, booked, opend, crashes>>

(***************************************************************************)
(* unclaimed_orders and find_recovery_candidates: broker orders no other   *)
(* row claims, whose remark is the client id this order was sent with.     *)
(* symbols_match and matches_safe_attributes, which every order must pass  *)
(* as well, are left out: they only leave fewer candidates, and an order   *)
(* sent for a row has the row's attributes.                                *)
(***************************************************************************)
Claimed(r) == {rows[s].order_id : s \in {t \in Requests \ {r} : Exists(t)}}

\* Mutant: any broker order nobody claims will do.
CandidatesUnclaimed(r, book) == book \ Claimed(r)

Candidates(r, book) ==
    {b \in book : /\ b \notin Claimed(r)
                  /\ clientOf[r] # NoClient
                  /\ SentRemark(r) = clientOf[r]
                  /\ SentRemark(b) = clientOf[r]}

WorkerMatch ==
    /\ worker.pc = "read"
    /\ worker' = Working("matched", worker.todo, worker.cur, worker.seen, worker.book,
                         Candidates(worker.cur, worker.book))
    /\ UNCHANGED <<rows, revision, previews, pc, wire, sent, booked, opend, crashes>>

(***************************************************************************)
(* One candidate: apply_broker_snapshot binds it.  None or several:        *)
(* persist_unknown_if_needed, which leaves a row alone that already says   *)
(* UNKNOWN for the same reason.  A stale row fails the fence.  SUBMITTED    *)
(* stands for whatever status the snapshot carries: what becomes of a row  *)
(* that is bound is OrderLifecycle.                                        *)
(***************************************************************************)
WorkerCommit ==
    /\ worker.pc = "matched"
    /\ LET r == worker.cur
           old == worker.seen
           code == IF worker.found = {} THEN "not_found" ELSE "ambiguous"
       IN \/ \E b \in worker.found :
                /\ worker.found = {b}
                /\ Commit(r, old, OrderRow("SUBMITTED", b, Fresh(r), "none"))
          \/ /\ Cardinality(worker.found) # 1
             /\ IF old.status = "UNKNOWN" /\ old.last_error = code
                THEN UNCHANGED <<rows, revision>>
                ELSE Commit(r, old, OrderRow("UNKNOWN", old.order_id, Fresh(r), code))
    /\ worker' = Scanning(worker.todo)
    /\ UNCHANGED <<previews, pc, wire, sent, booked, opend, crashes>>

----------------------------------------------------------------------------
(* The environment: the broker, the connection and the process. *)

BrokerBook(r) ==
    /\ r \in wire
    /\ wire' = wire \ {r}
    /\ booked' = booked \cup {r}
    /\ UNCHANGED <<rows, revision, previews, pc, sent, opend, worker, crashes>>

BrokerDrop(r) ==
    /\ r \in wire
    /\ wire' = wire \ {r}
    /\ UNCHANGED <<rows, revision, previews, pc, sent, booked, opend, worker, crashes>>

OpendFlip ==
    /\ opend' = ~opend
    /\ UNCHANGED <<rows, revision, previews, pc, wire, sent, booked, worker, crashes>>

\* Handlers and worker die with the process; the store and the wire do not.
Crash ==
    /\ crashes < MaxCrashes
    /\ crashes' = crashes + 1
    /\ pc' = [r \in Requests |-> IF pc[r] \in {"idle", "done"} THEN pc[r] ELSE "dead"]
    /\ worker' = IdleWorker
    /\ UNCHANGED <<rows, revision, previews, wire, sent, booked, opend>>

----------------------------------------------------------------------------
Init ==
    /\ rows = [r \in Requests |-> NoRow]
    /\ revision = [r \in Requests |-> 0]
    /\ previews = [p \in Previews |-> NoPreviewRow]
    /\ pc = [r \in Requests |-> "idle"]
    /\ wire = {} /\ sent = {} /\ booked = {}
    /\ opend = TRUE
    /\ worker = IdleWorker
    /\ crashes = 0

Place(r) ==
    \/ PlaceLookup(r) \/ PlaceReserve(r) \/ PlaceGuard(r)
    \/ PlaceAck(r) \/ PlaceUnknown(r)

Worker ==
    \/ WorkerScan \/ WorkerScanDone \/ WorkerMatch \/ WorkerCommit
    \/ \E c \in worker.todo : WorkerRead(c)

Environment ==
    \/ OpendFlip \/ Crash
    \/ \E r \in Requests : SavePreview(r) \/ BrokerBook(r) \/ BrokerDrop(r)

Next == Worker \/ Environment \/ \E r \in Requests : Place(r)

Spec == Init /\ [][Next]_vars

(***************************************************************************)
(* The worker task is scheduled again and again (15 s cadence, 1..60 s     *)
(* back-off); a place handler promises nothing, it may die at any step.    *)
(***************************************************************************)
FairSpec == Spec /\ WF_vars(Worker)
----------------------------------------------------------------------------
(* Properties. *)

WorkerState ==
    [pc : WorkerPC, todo : SUBSET (Requests \X Row), seen : Row \cup {NoRow},
     book : SUBSET Requests, cur : Requests \cup {NoOrder}, found : SUBSET Requests]

\* Every variable holds a value of its kind.
TypeOK ==
    /\ rows \in [Requests -> Row \cup {NoRow}]
    /\ revision \in [Requests -> Nat]
    /\ previews \in [Previews -> Preview \cup {NoPreviewRow}]
    /\ pc \in [Requests -> PlacePC]
    /\ wire \subseteq Requests /\ sent \subseteq Requests /\ booked \subseteq Requests
    /\ opend \in BOOLEAN
    /\ crashes \in Nat
    /\ worker \in WorkerState

(***************************************************************************)
(* However many requests carry one client order identity, concurrently, as *)
(* retries, or after a restart, the broker is called for at most one of    *)
(* them (ExecutionOrderReservation: "may call the broker exactly once").   *)
(***************************************************************************)
AtMostOneSubmission ==
    \A r, s \in sent :
        clientOf[r] = clientOf[s] /\ clientOf[r] # NoClient => r = s

(***************************************************************************)
(* A row never carries the id of a broker order that another request       *)
(* created: neither the acknowledgement nor the recovery by remark binds a *)
(* foreign order (unclaimed_orders, matches_submission_identity).          *)
(***************************************************************************)
BoundToOwnSubmission ==
    \A r \in Requests : Exists(r) => rows[r].order_id \in {r, NoOrder}

(***************************************************************************)
(* An order in the broker's book is never out of the system's sight: its   *)
(* row exists and either knows the broker id or is still in a status that  *)
(* the next reconciliation scan picks up.                                  *)
(***************************************************************************)
BookedOrderTracked ==
    \A r \in booked :
        /\ Exists(r)
        /\ rows[r].order_id = r \/ rows[r].status \in CandidateStatus

(***************************************************************************)
(* A preview credential pays for one order: two rows never share it, and a *)
(* preview is spent only together with the row it paid for (a refused      *)
(* reservation leaves it unspent).                                         *)
(***************************************************************************)
PreviewPaysOnce ==
    /\ \A r, s \in Requests :
          Exists(r) /\ Exists(s) /\ previewOf[r] = previewOf[s]
             /\ previewOf[r] # NoPreview => r = s
    /\ \A p \in Previews :
          previews[p].consumed => \E r \in Requests : Exists(r) /\ previewOf[r] = p

(***************************************************************************)
(* Once a row knows its broker order, no later write of the place handler  *)
(* or of a worker that read the row earlier loses or changes that id.      *)
(***************************************************************************)
BindingStable ==
    [][\A r \in Requests :
          Exists(r) /\ rows[r].order_id # NoOrder
              => rows'[r].order_id = rows[r].order_id]_vars

(***************************************************************************)
(* If OpenD stays connected from some point on, every order that reached   *)
(* the broker with its client id in the remark ends up bound to its row,   *)
(* whatever timeout, lost acknowledgement, racing scan or crash came       *)
(* between.                                                                *)
(***************************************************************************)
LostAckRecovered ==
    <>[]opend =>
        \A r \in Requests :
            (r \in booked /\ SentRemark(r) # NoClient)
                ~> (Exists(r) /\ rows[r].order_id = r)
=============================================================================
