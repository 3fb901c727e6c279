# JFTrade in TLA+

JFTrade is a trading workstation: a Rust engine that places, cancels and
reconciles orders at a broker (Futu OpenD), guards real-money trading with an
operator's kill switch and hard stops, runs strategies on live bars, lets an
assistant act through approved tools, collects market data, and serves a web
and a desktop front end. This project models the parts in which several
threads, processes or people act on the same durable state and a mistake costs
money: the life of an order, the control plane that can stop it, the strategy
runtime that creates orders, the assistant whose tools may change things, and
the market data session they depend on. TLC checks the modules on small
instances; TLAPS proves the central results for every value of the constants.

Paths below are relative to the repository; `engine/` is
`crates/jftrade-engine/src/`, `store/` is `crates/jftrade-store-sqlite/src/`,
`trading/` is `crates/jftrade-trading/src/`, `futu/` is
`crates/jftrade-integration-futu/src/`. `PROJECT.json` maps every definition to
the lines it translates and lists the runs, the mutants, the hazards, the
findings and the theorems.

## 1. Inventory of the system

### Modelled

| Component | State | Operations | Interacts with |
|---|---|---|---|
| Order submission (`engine/product_production_ports_execution_orders_impl.rs`, `store/execution_order_reservation.rs`, `store/execution_order_preview.rs`) | `execution_orders` rows, `execution_order_events`, previews with their bound hash and `consumed_at`; in memory only the running handlers | `save_preview`, `place_order`, `place_combo`: look up the client identity, reserve (one SQLite transaction), call the broker under the risk gate, store the acknowledgement or the failure | store (fenced transition), risk control plane, OpenD, reconciliation worker |
| Recovery of lost acknowledgements (`..._reconciliation_recovery.rs`) | none of its own | `resolve_unidentified_submission`: read the broker's orders, drop those another row claims, match the remark, bind or mark UNKNOWN | store, OpenD |
| Order lifecycle (`..._orders_impl.rs`, `..._reconciliation.rs`, `store/execution_order.rs`) | one row and its journal, the in-flight set of cancellations | `cancel_order`, `reconcile_order` (discovery, snapshot, fills, fees), `persist_*` | three writers of one row, each from a copy it read earlier |
| Status tables (`trading/model.rs`) | none | `canonical_broker_status`, `canonical_stored_status`, `reconcile_status`, `storage_status` | every writer |
| Fill accounting (`covered_by_snapshot`, `apply_fill_snapshot`, `apply_broker_snapshot`) | filled quantity and journal of the row | add an execution, accept a cumulative quantity | two reports of the same executions |
| Real-trade control plane (`engine/product_execution_risk_coordinator.rs`, `engine/real_trade_control.rs`, `trading/risk.rs`) | the control file, its memory image, an error flag, the submission gate | `open`, `mutate_with`, `execute_with_risk_guard`, `snapshot` | every order, operators, status pages, the file system |
| Strategy runtime and its risk (`engine/strategy_runtime*.rs`, `store/strategy_runtime.rs`, `store/strategy_runtime_observation.rs`) | the instance row and its status, checkpoints per scope, quota events; in memory the task maps, the cancel flag, the managed demand | Start, Stop, Pause, Delete, definition and risk updates; per bar: read candles, open or append to a Pine session, dispatch intents, checkpoint; fail, recover at restart | order submission, Pine worker, market data router |
| Assistant run leases and tool claims (`crates/jftrade-assistant/src/claims.rs`, `store/adk.rs`, `engine/product_adk_model_runtime*.rs`) | `adk_runs`, `adk_run_leases`, `adk_tool_invocations` | acquire, renew, release a lease; claim, complete, write off an invocation; heartbeats | continuation workers of several processes |
| Course of an assistant run (`engine/product_adk_*.rs`, `store/adk.rs`) | the run row with its payload, `adk_approvals`, the executor's token, the continuation supervisor | decide an approval, roll it back, deny, ask and answer, cancel, reconnect, scan and resume, provider back-off | users over HTTP, two executors, scanner, tool claims |
| OpenD quote session (`futu/session_coordinator.rs`, `subscriptions.rs`, `runtime_task.rs`, `basic_quote_query.rs`, `managed_session.rs`, `crates/jftrade-marketdata/src/`) | recorder shared with the router, lifecycle generation, subscription records, the session, the pending reconnect, the snapshot cache | change of demand, reconcile, subscribe, unsubscribe, reconnect and replay, snapshot poll, health | router threads, OpenD |

What makes them hard: the broker call has a time limit but the request may still
be on its way; a client retries; several tasks rewrite the same row from stale
copies; the broker's reports lag and repeat each other; the process may stop
between any two writes; the control file may be damaged or deleted from outside;
a Stop gives up on a thread that goes on; a user decides while an executor of an
earlier decision still runs; demand changes while a reconnect is under way.

What makes them correct: one broker call per client identity and per strategy
intent; a broker order is bound to the row that created it and never drops out
of sight; a write never undoes another; a settled status is true; a quantity is
counted once; an acknowledged halt is on disk and no covered order is at the
broker while it is in force; every failure refuses rather than permits; no
signal of a closed bar is stepped over and history is not traded; a stopped
instance has no thread; a tool with side effects is begun at most once and only
after its approval; a run that waits can be decided and a running one is never
stranded; what the program believes subscribed is subscribed.

### Not modelled

* **Workflow scheduler** (`engine/product_workflow_*.rs`,
  `store/adk_workflow_queue.rs`): triggers advanced and enqueued in one
  transaction, invocations resumed from checkpoints. Correct if a due trigger
  runs once and no invocation is lost in a restart. The next component to model.
* **Pine worker pool** (`crates/jftrade-integration-pine/src/pool.rs`):
  reservations pinned to workers, health, restarts. A strategy sees it as a
  session that may vanish (`WorkerDies`).
* **Authentication sessions** (`engine/product_auth_session_manager.rs`) and
  **backtest data synchronisation tasks**: small state machines under one mutex.
* **Single writer** (`crates/jftrade-owner-lock/src/lib.rs`): an advisory lock
  on the data directory. Every module here but `ToolClaims`, which admits
  several processes, assumes the one writing process it provides.
* **OpenD trade session** (`futu/trade_session.rs`): it appears as the orders
  use it: a call may time out while the request still travels, reads may fail.
* **Backtest engine, simulated account, ledger, portfolio, indicators, Pine
  parser and interpreter, decimal and calendar arithmetic**: sequential numeric
  or symbolic code, out of a model checker's reach and covered by the
  repository's unit tests.
* **HTTP routing, JSON projection, wire codecs, settings, watchlist and research
  stores, front ends, sidecars**: transport, presentation and plain record
  keeping; no interleaving of theirs can violate one of the properties above.

By lines most of the repository belongs to the last two groups. The modules
cover a small share of it, the part where the order of events decides.

## 2. Modules

| Module | Models |
|---|---|
| `OrderStatus` | the status vocabularies and the tables between them |
| `OrderSubmission` | place handlers, reservation, preview, broker call, recovery by remark, crashes |
| `FillCoverage` | the arithmetic that keeps two reports of one execution apart |
| `FillAccounting` | one order's filled quantity under lagging reports and one-second clocks |
| `OrderLifecycle` | acknowledgement, cancel handlers and worker writing one row; faults, crashes |
| `RiskGate` | the submission gate, the control file, operators, orders, readers, damage, restarts |
| `StrategyRuntime` | one instance: lifecycle mutations, task thread, Pine session, checkpoints, quota, crashes |
| `ToolLedger` | abstract: what the durable tool ledger promises, without leases and workers |
| `ToolClaims` | leases, fencing tokens, heartbeats, claims and results of several workers; implements `ToolLedger` |
| `AssistantRun` | one run: users, executors, continuation supervisor, scanner, restarts |
| `QuoteSubscriptions` | the OpenD task, its session and records, the recorder shared with the router |
| `MC...` | small instances for TLC |
| `..._proofs` | theorems about each of the eight state machines |

`OrderSubmission` and `OrderLifecycle` extend `OrderStatus`; `FillAccounting`
and `OrderLifecycle` extend `FillCoverage`. The two order modules meet at the
moment a row carries its broker id: `OrderSubmission` leaves such a row alone,
`OrderLifecycle` starts at the acknowledgement and follows it to settlement.
`StrategyRuntime` uses order submission by what `AtMostOneSubmission` says of
it: a client order id has one row and one broker call (`rows`, `book`).
`AssistantRun` uses `ToolClaims` in the same way: a living executor keeps its
lease, and a started tool is claimed and recorded once.

### OrderSubmission

A *request* is one invocation of `place_order` or `place_combo`; a retry is
another request with the same client identity. A row and a broker order are
named by their request, because internal ids come from a durable sequence.
`place_combo` takes the same steps on the same store.

* `PlaceLookup` is the head of the handler up to `writer()`; `PlaceReserve` is
  the one SQLite transaction that looks for an owner again, consumes the preview
  and inserts the row; `PlaceGuard` is the decision of the risk guard and the
  call; `PlaceAck` and `PlaceUnknown` are the two ways the call ends.
* Every write after the reservation is a compare-and-set on `(status,
  updated_at)` (`FenceHolds`, `Commit`). The handler's copy is always the row as
  reserved, so its fence fails as soon as the worker has touched the row. The
  store may also fail (`TryCommit`).
* `WorkerScan`, `WorkerRead`, `WorkerMatch`, `WorkerCommit` are one pass of
  `resolve_unidentified_submission` with its reads at different moments: the
  rows at the scan, the broker's orders next, the claimed ids after that, the
  fenced write last.
* `updated_at` is a number: the handler writes the time it started with (0), the
  worker a fresh one.
* A risk rejection ends in REJECTED; every other failure ends in UNKNOWN. A
  request whose remark is the user's own text has no correlation evidence
  (`SentRemark`). A user text that happens to equal another order's client id is
  assumed not to occur.

### FillCoverage and FillAccounting

The journal holds cumulative snapshots and single fills, both with the broker's
whole-second times. `CoveredBySnapshot` is the part of a fill that a snapshot
already accounts for. `FillAccounting` lets the broker execute units in any
sizes within a second, hands the worker any snapshot the order ever had (at most
`MaxLags` out-of-date ones), and any part of the fill list, because the active
list and the history are read separately and either read may fail.

### OrderLifecycle

One row, its journal and three kinds of writers: the place handler's last step,
`cancel_order` handlers and the worker. Each keeps its copy of the row and the
revision in its own state between read and write. `cancel_order` reads the row
*before* it takes the in-flight guard, as the code does. The worker's pass has
one action per read and per write of `reconcile_order`; `WorkerReadFails` is any
failed broker read. Executions are unit fills with distinct times here. The
broker may report an order it has booked as waiting, unsubmitted or submitting
before it accepts it (`pending`, `BrokerAccepts`): such a report takes a bound
row back to SUBMITTING, and `cancel_order` does not refuse a bound row in that
status, so a cancellation may start from it.
Remembered copies that the code reads afresh are dropped (`Go`), which keeps the
state space small without changing a step.

### RiskGate

Orders, operators and readers are concurrent callers. `gate` is
`submission_gate`: an order keeps it from the read of the control file to the
end of its broker call, an operator from the read to the commit of the memory
image. The file is content plus readability; `Persist` is the atomic rename.
`inforce` is a history variable: the controls whose activation an operator saw
acknowledged and whose release is not yet on disk. `lost` records that the file
was deleted from outside, after which nothing can be said of earlier controls.
An event list is a sequence of who wrote each event, cut at `EventLimit` by
`Prepend`, as `prepend_event` does.
A panic in the broker call poisons the gate, as `std::sync::Mutex` does.

### StrategyRuntime

One instance with one symbol on one trading day. Bars are numbered; an intent is
a bar and a place in that bar's list, because the intent key, the client order
id and the reservation key are functions of it.

* The owner's mutations (`StartResume` ... `UpdateRisk`) take the manager's
  mutation lock (`mut`). Start and Stop set the cancel flag and wait for the
  thread; `CancelTimeout` is the wait that ends after `STRATEGY_STOP_TIMEOUT`
  and moves the task to the reclaiming map. Such a Stop is refused and leaves
  the row RUNNING with the cancel flag raised: the thread ends and no bar is
  processed until the next Stop or restart, which `CaughtUp` excepts by name.
* The thread (`TaskStep`) has one action per call that can fail or be
  overtaken: restoring the checkpoint, reading candles, opening or appending to
  the Pine session, reading the account, reserving a slot, placing, recording,
  checkpointing. Any of them may fail (`Fault`); `CycleError` is what the
  thread does then, according to the status on record. A failed dispatch gives
  its slot back, unless the store refuses that as well, which the code ignores
  (`ReleaseReservation`).
* `Crash`, `ShutdownBegin` and `ShutdownEnd` end the process; `Restart` is
  `restore`, which resumes RUNNING rows.
* `baseline` and `handled` are history: the first checkpoint of a scope, and the
  intents that were sent, skipped or refused.

### ToolLedger and ToolClaims

`ToolLedger` has three variables: whether the run is over, the verdict of each
call, and how often its side effect was begun. `ToolClaims` is the protocol:
each transaction of `adk.rs` is one step, guarded by the lease token
(`LeaseValid`), the claim token (`ClaimCurrent`) and the revision of the run
row (`fresh`). An expiry is kept as the time left. A worker may die at any step
(`Crash`) or stall past its expiry and come back (`RunsOut`), and another then
takes over with the next token. A call whose tool is not replay safe is
written off when its claim expired (`ClaimUnknown`). The refinement mapping reads
the abstract ledger off the run's status and the rows of the invocations.

### AssistantRun

The run row, its payload and the approval rows; users in the middle of an HTTP
request; the executor of the request that created the run and the continuation
that the supervisor admits one at a time; the scanner that resumes what nobody
holds. Every compare-and-set on `updated_at` is kept as the set of agents whose
reading is still current (`staged`, `read`): every write of the row empties it.

* `Resolve` is the transaction that decides an approval and, if it is the last
  one or a denial, stages the calls; `ResumeRead`, `Spawn`, `DenyAcquire` and
  `DenyWrite` are the rest of the handler; `Rollback` and `Repair` undo a
  decision or an answer whose continuation was refused.
* `ReadRound` reads the calls shown as RUNNING once (`plan`); `StartTool` takes
  from that list, because the claim re-reads the run's status and revision only.
* A woken executor cancels the run, except while it claims a tool, where
  `claim_tool_invocation_with_retry` lets it leave without a write (`Abandon`).
* `Overtake` is an executor whose write loses to a rollback or a repair.
* `Crash` ends every request and executor; `Recovering` is the scan at start.

### QuoteSubscriptions

One task thread against OpenD and router threads that change the demand at any
moment (`DemandChanges`) and with it the recorder's generation, without the
coordinator's lock. The change of the demand book and the recorder's reconcile
are one step because both run under the router's mutex. A session the
coordinator closes itself has been taken out before, so the poll never sees its
own (Local) close.

`reconfigure_for_reconnect` takes the recorder's lock twice, to read the plan
and to raise the generation (`futu/subscriptions.rs:485`, `:487`), and so does
the model (`ReconfigureForReconnect`, `Reconfigure`). When the demand changes in
between, the reconnect replays the old demand under a generation whose
instruments are the new ones, and the snapshots it polls for a dropped
instrument are shown as current until its subscription is given up; nothing
moves that generation on but the next change or reconnect. The history variable
`torn` names such a generation, and `CacheCurrent` excepts it.

At shutdown the cache may keep its ticks (`deactivate` can fail), and after a
panic the session is never closed (`Shutdown`). The task's iteration is a walk over `pc`: reconcile, apply
the subscriptions and unsubscriptions one by one, poll events, reconnect with
its replay, quota, snapshots, health. Calls are refused or time out, in which
case OpenD may have applied them or not (`CallFailed`). A record is *ripe* after
the minimum hold and *due* after its retry window: the clock is reduced to
these two facts. Several keys serve a reference, and references share keys.

## 3. What the runs check

| Run | Instance | Shows |
|---|---|---|
| `OrderSubmission` | a request and its retry, a second client with the same preview and a remark of its own; one restart, fair worker | `AtMostOneSubmission`, `PreviewPaysOnce`, `BoundToOwnSubmission`, `BookedOrderTracked`, `BindingStable`, `LostAckRecovered` |
| `FillAccounting` | 2 units, 2 seconds, 2 lagging snapshots, fair worker | `NeverOverfilled`, `FillsConverge` |
| `OrderLifecycle` | 1 unit, 2 cancel handlers, every broker code, no fault | `JournalChain`, `SettlementTrue`, `CancelFenced`, `NothingLost` |
| `OrderOutcome` | 1 unit, 1 cancel handler, 1 fault, 1 restart, fair worker | `SettlementTrue`, `OutcomeMirrored`, `NothingLost` |
| `RiskGate` | 2 REAL orders (one over the limit), a SIMULATE order, 2 operators with every command, 1 reader, 1 fault, any number of restarts | `AcknowledgedControlsKept`, `HaltHonoured`, `HardStopAudited`, `FailsClosed` |
| `StrategyTrading` | 2 bars of 2 intents, 1 fault, 1 crash, 1 timed-out cancellation, 1 change of definition | `OrdersOnce`, `SignalsKept`, `QuotaKept`, `HistoryNotTraded` |
| `StrategyLifecycle` | 2 bars of 1 intent, 1 pause, 1 timed-out cancellation, 1 risk update, 1 fault, 1 crash, fair thread | `DemandMatches`, `StoppedMeansGone`, `OneTask`, `CaughtUp` |
| `ToolClaims` | 2 workers, a replay-safe and a fail-closed call, 1 crash or stall, 1 provider retry, a cancellation | `FailClosedOnce`, `LastClaimRecorded`, `EndedRunFrozen`, `ImplementsLedger`, `RunEnds` |
| `AssistantRun` | 1 user (any number of requests, one after the other), 2 calls, 2 failures, questions, cancellations or restarts | `Decidable`, `PlansApproved`, `EndedStays`, `Continued` |
| `QuoteSubscriptions` | a snapshot and an order book on two instruments, 2 changes of demand, 2 faults | `RecordsTrue`, `CacheCurrent`, `ReplayComplete`, `LostReplaced` |
| `TerminalKept` | 1 unit, 1 fault | violated: see section 6 |
| `AssistantDenial` | 1 user, 2 calls, 1 event | violated: see section 6 |

Every property of a passing run has a mutant: a variant of one mapped
definition, kept next to it and marked "Mutant", with which TLC finds the
property violated. The type invariants are proved for all eight state
machines (section 4).

### Further configurations

They ask the same questions of other instances, or questions the code answers
with no; each is run with its `MC` module.

| Configuration | Instance | Result |
|---|---|---|
| `SubmissionMixed` | one identity with two bodies, an order without identity | passes, with `TypeOK` |
| `OrderFills` | 2 units, 1 cancel handler, 1 fault | passes, with `TypeOK` and `NeverOverfilled` |
| `OrderHandlers` | `OrderLifecycle` with 1 fault (8.2 million states) | passes |
| `ToolTakeover` | 2 mishaps, safety only | passes, with `TypeOK` and `LedgerMatchesProjection` |
| `AssistantRounds` | a second round of calls, safety only | passes, with `TypeOK` |
| `AssistantUsers` | 2 users at once, safety only | passes, with `TypeOK` |
| `QuoteAssertion` | `ReconnectAsserted` | violated |
| `QuoteServed` | `DemandServed` | violated |
| `QuoteHealth` | `ConnectedCurrent` | violated |
| `QuoteRelease` | `ReleasedEventually` | violated |
| `StrategyResume` | `StartedRuns` | violated |
| `StrategyRefresh` | `ScopeCurrent` | violated |
| `StrategyLostIntent` | `SignalsKept` with a pause and a fault | violated |
| `StrategyLostBars` | `SignalsKept` with a window of 2 and 4 bars | violated |
| `StrategyRefusal` | `RefusedAtLimit` | violated |
| `StrategyOwnSlot` | `OwnSlot` | violated |
| `StrategyQuota` | `BrokerWithinQuota` | violated |
| `AssistantRollback` | `ApprovalStands` | violated |
| `AssistantCancel` | `CancelEnds` | violated |
| `AssistantAnswer` | `CallsKept` with 2 users | violated |

What the violated ones show is in section 6.

### Bounds

* Three requests are one original, one retry and one stranger: the properties
  relate two requests, and a third can only interfere between them. (The proofs
  remove the bound.)
* Two units are the least with a partial fill and with two executions in one or
  in two seconds. Three would add two in one second and one in another; the
  proof of `NeverOverfilled` covers every quantity and every timing.
* Two cancel handlers are the least that race. `OrderLifecycle` has them without
  faults, `OrderHandlers` with one, `OrderOutcome` has one handler with a fault
  and a restart; all together exceed what TLC explores in minutes, and the
  proofs allow any number of each.
* Two REAL orders and two operators are the least in which two orders, two
  mutations, and an audit and a mutation race for the gate. `EventLimit = 2` in
  place of the code's constant lets the truncation happen.
* Two bars are the least with a bar before and one after a crash, and a window
  of two holds both: `SignalsKept` says what happens while the window is long
  enough and nobody pauses; `StrategyLostBars` and `StrategyLostIntent` show
  what lies outside. Two intents per bar are the least that count each other;
  the lifecycle does not depend on how many a bar has. A definition is changed
  in `StrategyTrading` only; what a change during a pause does is
  `StrategyRefresh`.
* Two workers are the least that take over from each other; `TTL = 2` is the
  least in which a heartbeat has something to renew; one mishap and one retry
  give a first holder that comes back late.
* Two calls are the least round in which one call is decided while another
  waits or runs.
* Two references with three keys are the least in which one instrument's
  subscription is dropped while another's is added; two faults are a lost
  connection and a failure while it is replaced.
* `MaxFaults`, `MaxCrashes`, `MaxLags`, `MaxMishaps`, `MaxEvents` bound how
  often the outside world misbehaves, never what the program does. Symmetry sets
  permute operators, cancel handlers, workers and users, which the modules treat alike,
  and only where no liveness is checked.

`CHECK_DEADLOCK FALSE` is set where the system may stop: a settled order with
its fees, a deleted instance after the last bar, an ended run, a task that was
shut down.

### Fairness

* `OrderSubmission`, `FillAccounting`, `OrderLifecycle`: weak fairness of the
  worker. `ExecutionReconciliationWorker::start` loops for ever with a 15 s
  cadence and a back-off of 1 to 60 s. Place and cancel handlers promise
  nothing: they may die at any step. Each liveness property names what the
  outside has to grant: OpenD stays connected (`LostAckRecovered`), the broker
  keeps listing the order (`OutcomeMirrored`).
* `RiskGate`: none. `std::sync::Mutex` does not promise that a waiting caller
  ever gets it, and that a holder lets go of a scoped guard is not in question.
* `StrategyRuntime`: weak fairness of the thread, of a mutation that has begun,
  of the restart of a process that went down, and of bars. Owners promise
  nothing.
* `ToolClaims`: weak fairness of each worker, its heartbeat threads and of time.
  That a crashed worker's process comes back is `Resume`, part of `Work`: the
  recovery scan runs at start and on a cadence.
* `AssistantRun`: weak fairness of handlers that have begun, executors, scanner
  and the passing of time. Users promise nothing.
* `QuoteSubscriptions`: weak fairness of the thread's loop and of time, and
  strong fairness of the snapshot query, which the loop skips for its cadence or
  its retry window and comes back to.

## 4. What is proved

All theorems hold for any finite or infinite sets of requests, clients,
previews, orders, operators, readers, scopes, workers, calls, users, handlers
and subscriptions, and any quantity and number of bars, restarts, faults, rounds
and retries. They rest on the named assumptions of the modules only; the one
theorem with a condition of its own is `SignalsHandled`. Every safety invariant
and every action property that a passing run checks is proved.

Quantities are sums over journals and sets, and what a fold computes cannot be
proved by induction here. The models therefore count: `Executed`, `KnownUpTo`
and `Total` are cardinalities of sets of units, and the proofs compare such sets
by inclusion and by injections. Where a least or a greatest element is needed
(`Min`, `Max`, `Earliest`) it comes from the well-foundedness of the naturals
(lemma `Least`).

### `OrderSubmission_proofs`, from `SubmissionAssumption`

The assumption says what the constants are, and that requests with equal hashes
have equal client identities (the hash covers them).

`AtMostOneSubmission` is not inductive: `sent` knows nothing of rows, and a
worker's copy of a row is older than the row. `IInv` strengthens it with
`IdentityHeld` (one row per client identity), `Progress` (what each handler's
position says of its row, and that a sent request has a row that is not
REJECTED), `RowSound` (a row has its own broker id or none, and is as reserved
while SUBMITTING), `WorkerSound` (a stale copy is told from the row by status
and time, and candidates carry the remark of the row's client) and
`PreviewSound` (a spent preview has its row, and the row has the bound hash).
`Inductive` proves `[]IInv`, action by action and conjunct by conjunct. From it:
`Typing`, `OneSubmission`, `OwnBinding`, `Tracking`, `OnePayment` and, as an
action property, `StableBinding`.

The argument against a foreign binding is short:
the broker's book holds at most one order per client identity, because the
broker was called at most once for it; a candidate has the row's own client id
as its remark; so the only candidate there can be is the row's own order.

### `RiskGate_proofs`, from `RiskGateAssumption`

`AcknowledgedControlsKept` and `HaltHonoured` are not inductive either: what a
caller is about to write, or is doing at the broker, was decided from an earlier
read. `IInv` adds `GateHeld` (a caller between read and write holds the gate)
and `CopiesCurrent` (the copy about to be written has every control that stays
in force). The proofs go by "who is inside": a step that ends a call leaves
nobody inside (`SafeWhenEmpty`), a step that begins one found nobody inside.
From `Inductive`: `ControlsKept` and `HaltHolds`. `ClosedOnFailure` proves the
action property `FailsClosed` from `Typing`.

`HardStopAudited` says of every step that an order is reported as stopped only
when its event is the newest in the file, and that the file's list changes by
`Prepend` on itself only. The file is rewritten from copies, so `AuditInv` says
what every copy holds that will replace it: the file's present list with its
owner's event in front, or, for a mutation, that list as it is; for as long as
the file was not deleted. `AuditKept` follows.

### `OrderLifecycle_proofs`, from `LifecycleAssumption`

Every writer works from a copy, so the first question is what the fence proves
of it. `VersionInv` answers: a copy with the row's status and time is the row
(`CopyOK`). That is not obvious, because `persist_external_success` writes
SUBMITTED without a new `updated_at`; it holds because only the reservation has
time 0 and status SUBMITTING, and a later SUBMITTING has a later time. With it each step
leaves row and journal alone or is one of six writes on the present row (lemma
`Steps`), and `TypeCorrect`, `NothingIsLost` and `JournalIsChain` go by that
list instead of by the actions.

`GuardInv` says that the in-flight guard has one holder, which decided on a live
bound row and carries the version it fenced with; `CancelIsFenced` follows. The
row it decided on may be SUBMITTING, but only after an earlier event bound it.

`SettlementTrue` and `NeverOverfilled` are not inductive: FILLED is stored when
the quantity is complete, and the quantity is a sum of two kinds of report.
`FillInv` adds that every journaled event and everything the worker holds is
true of the broker (`EventsTrue`, `WorkerTrue`), and that the filled quantity is
at most the number of executions the journal accounts for, by a snapshot or by
name (`FilledBound`). The step that matters is `AppliedFresh`: a fill that adds
a unit was accounted for by no earlier event, because a snapshot not older than
it exceeds the fills known up to its time. From it: `SettlementIsTrue` and
`NeverOverfills`.

### `FillAccounting_proofs`, from `AccountingAssumption`

Here several executions share a second and snapshots lag, so the executions a
snapshot covers cannot be named. `ReportsTrue` says that a cumulative quantity
is at most what had been executed by its time, and that a journaled fill is an
execution, journaled once. `FilledBound` says that the filled quantity is at
most the sum of the journaled fills, or at most one journaled snapshot and the
fills journaled with a later time. A fill either adds to both sides or is
covered by a snapshot that then carries the bound (`BoundStep`); and the fills
after a snapshot's time are disjoint from those it counts (`WithinExecuted`).
From `Accounts`: `NeverOverfills`; `FilledNeverFalls` needs the types only.

### `StrategyRuntime_proofs`, from `StrategyAssumption`

Four invariants, each on top of the types (`TypeInv`). `LifeInv` relates the
status on record, the mutation in progress, the slot of the task and the thread:
`DemandFollowsStatus`, `StopJoinsThread` and `NoSecondThread`. `QuotaInv` says
that a row precedes its order and that an order in dispatch holds its slot:
`OrderSentOnce` and `DailyLimit`. `HistInv` says that a session handles bars
after the scope's baseline only: `HistoryStaysHistory`. `SigInv` says that the
handled intents reach up to the bar in hand and that the checkpoint does not run
ahead: `SignalsHandled`, under `Undisturbed` (nobody pauses, a refusal does not
pause, the candle window reaches back to the first bar). `StrategyLostIntent`
and `StrategyLostBars` show that without it the statement is false.

### `QuoteSubscriptions_proofs`, from `QuoteAssumption`

The assumption includes that the basic subscription of an instrument belongs to
a reference on that instrument (`desired_subscriptions` builds it so). `LinkInv`
ties the generations of recorder, lifecycle, reconnect and session together
(`FenceHolds`). `RecordsInv` adds what a replay in progress has subscribed and
that a failed call leaves a record: `RecordsHold`, `NothingForgotten`,
`ReplayCompletes`. `CacheInv` adds that active subscriptions and served ticks
belong to demanded instruments, outside a `torn` generation: `CacheIsCurrent`.

### `ToolClaims_proofs`, from `ClaimsAssumption`

`FailClosedOnce` speaks of the history `begun` only. `ClaimsInv` adds that of a
fail-closed call one worker at most stands before the adapter, and only while
nothing was begun (`OneStarter`); that work has a row (`WorkHasRow`,
`BegunHasRow`); what a worker brings back was begun and settled (`ResultBegun`,
`ResultSettled`); and that a projection read under the current revision is the
current one (`FreshSnapshot`), without which the ledger and the projection of
the run part (`LedgerMatches`). From `ClaimsInvariant`: `FailClosedOnceHolds`,
`LastClaim`, the action property `EndedStaysFrozen`, and
`ClaimsImplementLedger`, the refinement: the initial states map to initial
states (`LedgerStarts`) and every step to a step of the ledger or to a stutter
(`LedgerStep`), the argument going by which row the step changes.

### `AssistantRun_proofs`, from `RunAssumption`

`Decidable` and `PlansApproved` hold because the calls of the payload follow the
approval rows whichever of the payload's writers wrote last. `Inv` says so:
`Backed` (a call to be executed has its approval), `Waiting` (a call that waits
is listed by a run that waits), `AnswerFirst` (a question forgets the approvals
of the round before), `StagedLast` (a staging that is still the last write can be
rolled back), `KeptSafe` (the payload an answer may write back asks for nothing
unapproved) and `ReadLive` (a current reading is of a run that goes on).
`InvCorrect` proves it; `DecidableCorrect`, `PlansApprovedCorrect` and
`EndedStaysCorrect` follow.

### Only model-checked

Liveness (`LostAckRecovered`, `FillsConverge`, `OutcomeMirrored`,
`CaughtUp`, `RunEnds`, `Continued`, `LostReplaced`) is out of
this prover's reach.

## 5. What the models leave out

* Wording, JSON projection, notifications, logging, and the prices and limits
  of orders (one test, `OverLimit`, in `RiskGate`; a refusal that may or may not
  come in `StrategyRuntime`).
* `symbols_match` and `matches_safe_attributes`: an order is recovered only if
  the snapshot also repeats its symbol and attributes, so a recovery may stay at
  UNKNOWN where the model binds. For safety the model is the more permissive;
  `LostAckRecovered` assumes a snapshot that repeats what was sent.
* The status with which recovery binds a row is always SUBMITTED in
  `OrderSubmission`; the tables and their consequences are in `OrderLifecycle`.
* In `ToolClaims`, an answer that asks for further tools (it is `StageCalls` of
  `AssistantRun`) and a heartbeat thread that cannot be spawned, which fails the
  run before the tool begins.
* Rounds of ten tool calls and more, in which the rollback's comparison of
  confirmation ids by prefix (`store/adk.rs:3143`) also reaches the calls whose
  number begins with the same digit.
* A failing store write of the reconciliation worker behaves like a failed fence
  and is not a separate step.
* `resolve_broker_cancel_target` only picks the row that `cancel_order` is then
  called for.
* Power loss: `persist_state` syncs the file and not its directory; a crash here
  is the end of the process.
* Wall-clock time: time stamps of one row are assumed to differ.
* Strategies: intents that cancel orders, several symbols, quantities in percent
  of the cash, the observation row, midnight.
* Assistant: pause and resume of goal runs (they need a work mode the runtime
  never sets), the streaming of partial answers, tools that are not replay safe
  (the runtime refuses them before they are staged; `ToolClaims` has them,
  because the store's contract does).
* Quotes: contents of ticks, entitlement errors, the byte protocol.
  `DemandBook` is a set that changes; its heartbeats and its expiry, which no
  production code calls, are left out.

## 6. Findings and observations

### Findings

**A settled order can be reopened** (run `TerminalKept`). `reconcile_order`
checks the discovered accounts before it looks at the status. A settled order is
still a candidate while its fees are missing; if its account is absent from one
answer of account discovery, or the broker reports a code without a meaning, the
row goes from FILLED, CANCELLED or FAILED back to UNKNOWN. The sibling case, an
order that aged out of the broker's history, is handled and tested. A later scan
restores the status as long as the broker lists the order, which is what
`OutcomeMirrored` still says.

**A denied tool can be started** (run `AssistantDenial`).
`run_approval_continuation` reads the calls shown as RUNNING once and then claims
them one by one; the claim asks for the run's status and revision, not for the
approval. A continuation that a reconnect has registered refuses the one of the
last approval, whose handler rolls the approval back; when the user then denies
it, the run is RUNNING again for the end of the round and the waiting
continuation starts the denied call from its list.

### What the further configurations show

* `QuoteAssertion`: `recover` asserts that the recorder stands at the generation
  the reconnect was planned with (`futu/session_coordinator.rs:416`); a change
  of demand in between moves it, and the task panics.
* `QuoteServed`: snapshots are fenced by "session generation = lifecycle
  generation" (`futu/basic_quote_query.rs:204`), but a change of demand moves
  only the latter: after the first one on a healthy connection no snapshot is
  stored until the connection is lost.
* `QuoteHealth`: `sync_provider_health` (`futu/runtime_task.rs:411`) reads the
  recorder and writes "connected" later, under whatever generation it finds.
* `QuoteRelease`: the topology is reconciled only when the demand differs from
  the one last reconciled (`futu/runtime_task.rs:341`), so an unsubscribe that
  was held back or failed is not sent again, where
  `docs/market-data-providers.md:89` promises a retry.
* `StrategyResume`: Start of a PAUSED instance counts a task that a timed-out
  Stop has cancelled as alive (`engine/strategy_runtime_mutation.rs:54`): the
  row says RUNNING and nothing will process a bar.
* `StrategyRefresh`: a definition can be refreshed while PAUSED
  (`engine/strategy_runtime_mutation.rs:239`); the living task goes on with the
  old one.
* `StrategyLostIntent`: the key of an intent is remembered before its dispatch
  (`engine/strategy_runtime_task.rs:373`); a failure while the instance is being
  paused leaves the thread alive, and the replay drops the intent.
* `StrategyLostBars`: the live path does not check that the candles read continue
  the last one (`engine/strategy_runtime_task.rs:303`); after a pause longer than
  the window the oldest bars are stepped over. The recovery path does check.
* `StrategyRefusal`: the orders of the current call are counted twice
  (`engine/strategy_runtime_execution.rs:224`), so an order is refused while
  slots are free.
* `StrategyOwnSlot`: a reservation that a crash leaves behind is not given back
  and may refuse the replay of its own order.
* `StrategyQuota`: a dispatch whose answer is lost releases its slot although the
  broker may hold the order.
* `AssistantRollback`: the comment at `store/adk.rs:3068` says an approval goes
  back "only if no worker has already advanced the run"; a claim does not write
  the run row, so the approval of an executing tool can be reopened.
* `AssistantCancel`: `docs/adk.md:194` says that runs waiting for an approval can
  be cancelled; their stored status PENDING is not in the list of
  `cancel_run`. A cancel that loses its compare-and-set is answered with the run
  still RUNNING.
* `AssistantAnswer`: the repair of `respond_to_input` writes the payload it holds
  in memory over a newer one and drops the calls staged meanwhile.

### Seen while modelling

* A scan may pick up a SUBMITTING row whose broker call is still out, mark it
  UNKNOWN, and make the handler's acknowledgement fail its fence. The id is then
  recovered by the remark only: an order without a client id, or with a remark
  of the user, stays UNKNOWN.
* A crash between the CANCEL_SUBMITTED fence and the broker call leaves a live
  order that every later `cancel_order` refuses.
* `snapshot` writes the memory image without the gate, so a status page may show
  an older control state; no order is ever decided on it. ManualRetry activates
  Futu inside `mutate_with`, holding the gate, and does not save the setting.
* A broker call that timed out has released the gate, so its request can reach
  the broker after a kill switch was acknowledged. `HaltHonoured` is about the
  call, not the arrival.
* Pause does not stop the orders of the cycle in flight; bars that close during a
  pause are traded on resume; `fail_strategy_task` ignores store errors; a crash
  in STARTING needs a Stop before the next Start; a checkpoint older than the
  candle window makes every later Start fail until the scope changes; the replay
  of a percent-of-cash order has another request hash and is refused.
* A failed handshake at start closes the router's recorder for good; a subscribe
  or unsubscribe that timed out but was applied leaves record and OpenD apart;
  `DemandBook::acquire` with a later invalid reference leaves an entry behind.
* A rolled-back denial reopens the denied approval only, not the siblings that
  were swept with it; a denied run can still COMPLETE through a continuation
  that was waiting.

## 7. What is left

1. `WorkflowQueue`: advance-and-enqueue, dispatch, resume from a checkpoint.
2. Theorems about the true parts of what the further configurations refute: the
   scope of a task that was not refreshed while PAUSED, the orders of a day when
   no answer is lost.
3. An abstract order (`requested`, `live`, `settled` with a quantity) that
   `OrderLifecycle` implements for as long as accounts stay discovered.
4. `WorkerPool`, `AuthSessions`, the OpenD trade session.
