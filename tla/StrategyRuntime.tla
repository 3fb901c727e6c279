--------------------------- MODULE StrategyRuntime ---------------------------
(***************************************************************************)
(* One live strategy instance: the lifecycle mutations of its owner (start,*)
(* stop, pause, delete, update, refresh), the task thread that polls       *)
(* candles, feeds them to a Pine worker session and turns order intents    *)
(* into broker orders, the durable checkpoints that fence replays, and the *)
(* daily order quota.                                                      *)
(*                                                                         *)
(* Bars are numbered by open time; 0 stands for "no bar".  An intent is a  *)
(* bar and a place in that bar's list: the worker stamps every intent with *)
(* its candle time, and intent key, client order id and reservation key    *)
(* are all functions of it.  The binding has one symbol, executes orders   *)
(* and enforces a daily limit; intents that cancel orders, and the display *)
(* rows of the observation table, are left out.  One trading day is        *)
(* modelled.                                                               *)
(***************************************************************************)
EXTENDS Integers, FiniteSets

CONSTANTS
    MaxBars,        \* bars of the modelled day
    PerBar,         \* order intents of a bar
    Window,         \* candleLimit: closed candles a quote read returns
    DailyMax,       \* runtime risk: daily_max_orders
    PauseOnReject,  \* runtime risk: pause_on_reject
    MaxFaults,      \* bound on failing calls
    MaxCrashes,     \* bound on ends of the process
    MaxPauses,      \* bound on Pause requests
    MaxTimeouts,    \* bound on cancellations that outlast STRATEGY_STOP_TIMEOUT
    MaxEdits,       \* bound on changes of binding or definition
    MaxRisk         \* bound on updates of the runtime risk

ASSUME StrategyAssumption ==
    /\ MaxBars \in Nat \ {0} /\ PerBar \in Nat \ {0} /\ Window \in Nat \ {0}
    /\ DailyMax \in Nat \ {0} /\ PauseOnReject \in BOOLEAN
    /\ MaxFaults \in Nat /\ MaxCrashes \in Nat /\ MaxPauses \in Nat
    /\ MaxTimeouts \in Nat /\ MaxEdits \in Nat /\ MaxRisk \in Nat

Bars == 1 .. MaxBars
Intents == Bars \X (1 .. PerBar)
Scopes == 0 .. MaxEdits

Status == {"STOPPED", "STARTING", "RUNNING", "PAUSED", "FAILED", "DELETED"}
Mutation == {"idle", "start", "stop", "delete", "claimed", "spawned", "undo",
             "shutdown"}
TaskPC == {"none", "restore", "top", "read", "open", "opened", "append",
           "answered", "account", "dispatch", "reserved", "placed", "checkpoint",
           "error", "failing", "failed", "closing", "done"}

VARIABLES
    \* the strategy store
    status,     \* strategy_catalog_operations.status
    scope,      \* the binding and definition revision a checkpoint is scoped to
    riskRev,    \* runtime_risk_revision
    ckpt,       \* the newest PINE_SESSION_CHECKPOINT of each scope
    pending,    \* ORDER_RESERVED events neither released nor submitted since
    submits,    \* ORDER_SUBMITTED events
    \* the execution store and the broker
    rows,       \* intents whose client order id has an execution row
    book,       \* broker orders of each intent
    \* the Pine worker
    remote,     \* its live session: the last bar and the revision
    \* the manager
    up,         \* is the process running?
    mut,        \* the mutation under way (mutation_lock)
    owner,      \* the map that holds the task: tasks, reclaiming_tasks or none
    cancel,     \* the task's cancel flag
    demand,     \* does the router hold the instance's managed demand?
    \* the task thread
    pc,
    task,       \* its memory
    \* the environment
    closed,     \* bars closed so far
    used,       \* faults, crashes, pauses and timeouts used up
    \* history
    baseline,   \* the first checkpoint of each scope: bars up to it are history
    handled     \* intents attempted, skipped or refused by the runtime risk

store == <<status, scope, riskRev, ckpt>>
quota == <<pending, submits>>
broker == <<rows, book>>
manager == <<up, mut, owner, cancel, demand>>
history == <<baseline, handled>>
vars == <<status, scope, riskRev, ckpt, pending, submits, rows, book, remote,
          up, mut, owner, cancel, demand, pc, task, closed, used, baseline, handled>>

NoSession == [last |-> 0, revision |-> 0]
NoCheckpoint == [last |-> 0, keys |-> {}]

Checkpoint == [last : 0 .. MaxBars, keys : SUBSET Intents]
Session == [last : 0 .. MaxBars, revision : Nat]

(***************************************************************************)
(* What the thread keeps: the last processed bar and the submitted intent  *)
(* keys (submitted_intents), the session revision it believes in, the      *)
(* candles of this cycle (lo .. hi), the bar in hand, its intents still to *)
(* be dispatched, how many were submitted in this call, the risk revision  *)
(* read at the top of the cycle, and the scope it was spawned with.        *)
(***************************************************************************)
Task == [last : 0 .. MaxBars, keys : SUBSET Intents, revision : Nat,
         lo : 0 .. MaxBars, hi : 0 .. MaxBars, bar : 0 .. MaxBars,
         todo : SUBSET Intents, count : Nat,
         risk : 0 .. MaxRisk, scope : Scopes]

NewTask(s) ==
    [last |-> 0, keys |-> {}, revision |-> 0, lo |-> 0, hi |-> 0, bar |-> 0,
     todo |-> {}, count |-> 0, risk |-> 0, scope |-> s]

Init ==
    /\ status = "STOPPED" /\ scope = 0 /\ riskRev = 0
    /\ ckpt = [s \in Scopes |-> NoCheckpoint]
    /\ pending = [i \in Intents |-> 0] /\ submits = [i \in Intents |-> 0]
    /\ rows = {} /\ book = [i \in Intents |-> 0]
    /\ remote = NoSession
    /\ up = TRUE /\ mut = "idle" /\ owner = "none" /\ cancel = FALSE
    /\ demand = FALSE
    /\ pc = "none" /\ task = NewTask(0)
    /\ closed = 0
    /\ used = [faults |-> 0, crashes |-> 0, pauses |-> 0, timeouts |-> 0]
    /\ baseline = [s \in Scopes |-> 0] /\ handled = {}

Fault == used.faults < MaxFaults /\ used' = [used EXCEPT !.faults = @ + 1]

ThreadGone == pc \in {"none", "done"}

----------------------------------------------------------------------------
(* Lifecycle mutations: serialised by mutation_lock, they interleave with  *)
(* the task thread.                                                        *)

Idle == up /\ mut = "idle"

\* The instance's status as a compare-and-set of the store sees it.
Cas(expected, new) == status \in expected /\ status' = new

\* Start finds a paused instance whose task is still owned (is_task_alive).
Resumes == status = "PAUSED" /\ owner # "none"

StartResume ==
    /\ Idle /\ Resumes
    /\ Cas({"PAUSED"}, "RUNNING")
    /\ UNCHANGED <<scope, riskRev, ckpt, quota, broker, remote, manager, pc, task,
                   closed, used, history>>

(***************************************************************************)
(* cancel: raises the flag of a running task and then waits for it.  Start *)
(* of an instance that is not running, Stop and Delete begin with it.      *)
(***************************************************************************)
BeginCancel(m) ==
    /\ mut' = m
    /\ cancel' = (cancel \/ owner = "tasks")
    /\ UNCHANGED <<store, quota, broker, remote, up, owner, demand, pc, task,
                   closed, used, history>>

StartBegin == Idle /\ status \notin {"RUNNING", "DELETED"} /\ ~Resumes /\ BeginCancel("start")
StopBegin == Idle /\ status \notin {"STOPPED", "DELETED"} /\ BeginCancel("stop")
DeleteBegin == Idle /\ status \in {"STOPPED", "FAILED"} /\ BeginCancel("delete")

\* The task is joined, or there was none.
Joined == owner = "none" \/ ThreadGone

\* Mutant: Start does not wait for the task it cancelled.
StartClaimUnjoined ==
    /\ mut = "start"
    /\ owner' = "none"
    /\ Cas({"STOPPED", "FAILED", "PAUSED"}, "STARTING") /\ mut' = "claimed"
    /\ UNCHANGED <<scope, riskRev, ckpt, quota, broker, remote, up, cancel, demand,
                   pc, task, closed, used, history>>

StartClaim ==
    /\ mut = "start" /\ Joined
    /\ owner' = "none"
    /\ \/ Cas({"STOPPED", "FAILED", "PAUSED"}, "STARTING") /\ mut' = "claimed"
       \/ status = "STARTING" /\ mut' = "idle" /\ UNCHANGED status
    /\ UNCHANGED <<scope, riskRev, ckpt, quota, broker, remote, up, cancel, demand,
                   pc, task, closed, used, history>>

\* acquire_demand and spawn_task succeed ...
StartSpawn ==
    /\ mut = "claimed"
    /\ demand' = TRUE
    /\ mut' = "spawned" /\ owner' = "tasks" /\ cancel' = FALSE
    /\ pc' = "restore" /\ task' = NewTask(scope)
    /\ UNCHANGED <<store, quota, broker, remote, up, closed, used, history>>

\* ... or one of them fails and the demand is given back.
StartFails ==
    /\ mut = "claimed"
    /\ Cas({"STARTING"}, "FAILED")
    /\ demand' = FALSE /\ mut' = "idle"
    /\ UNCHANGED <<scope, riskRev, ckpt, quota, broker, remote, up, owner, cancel,
                   pc, task, closed, used, history>>

\* The task may have failed before the instance is published as RUNNING.
StartPublish ==
    /\ mut = "spawned"
    /\ \/ Cas({"STARTING"}, "RUNNING") /\ mut' = "idle" /\ UNCHANGED cancel
       \/ status # "STARTING" /\ mut' = "undo" /\ cancel' = TRUE /\ UNCHANGED status
    /\ UNCHANGED <<scope, riskRev, ckpt, quota, broker, remote, up, owner, demand,
                   pc, task, closed, used, history>>

StartUndone ==
    /\ mut = "undo" /\ Joined
    /\ owner' = "none" /\ demand' = FALSE /\ mut' = "idle"
    /\ UNCHANGED <<store, quota, broker, remote, up, cancel, pc, task, closed, used,
                   history>>

\* Mutant: Stop does not wait for the task.
StopCommitUnjoined ==
    /\ mut = "stop"
    /\ Cas({"RUNNING", "PAUSED", "STARTING", "FAILED"}, "STOPPED")
    /\ owner' = "none" /\ demand' = FALSE /\ mut' = "idle"
    /\ UNCHANGED <<scope, riskRev, ckpt, quota, broker, remote, up, cancel, pc, task,
                   closed, used, history>>

StopCommit ==
    /\ mut = "stop" /\ Joined
    /\ Cas({"RUNNING", "PAUSED", "STARTING", "FAILED"}, "STOPPED")
    /\ owner' = "none" /\ demand' = FALSE /\ mut' = "idle"
    /\ UNCHANGED <<scope, riskRev, ckpt, quota, broker, remote, up, cancel, pc, task,
                   closed, used, history>>

DeleteCommit ==
    /\ mut = "delete" /\ Joined
    /\ Cas({"STOPPED", "FAILED"}, "DELETED")
    /\ owner' = "none" /\ demand' = FALSE /\ mut' = "idle"
    /\ UNCHANGED <<scope, riskRev, ckpt, quota, broker, remote, up, cancel, pc, task,
                   closed, used, history>>

(***************************************************************************)
(* The task does not end in time: it goes to reclaiming_tasks with its     *)
(* flag raised, the mutation is refused.  A task that is already there is  *)
(* only looked at.  The undo of a start ignores the outcome.               *)
(***************************************************************************)
CancelTimeout ==
    /\ mut \in {"start", "stop", "delete", "undo"}
    /\ owner # "none" /\ ~ThreadGone
    /\ \/ /\ owner = "tasks" /\ used.timeouts < MaxTimeouts
          /\ used' = [used EXCEPT !.timeouts = @ + 1]
       \/ owner = "reclaiming" /\ UNCHANGED used
    /\ owner' = "reclaiming" /\ mut' = "idle"
    /\ demand' = (demand /\ mut # "undo")
    /\ UNCHANGED <<store, quota, broker, remote, up, cancel, pc, task, closed, history>>

Pause ==
    /\ Idle /\ used.pauses < MaxPauses
    /\ Cas({"RUNNING"}, "PAUSED")
    /\ used' = [used EXCEPT !.pauses = @ + 1]
    /\ UNCHANGED <<scope, riskRev, ckpt, quota, broker, remote, manager, pc, task,
                   closed, history>>

\* update_binding of a stopped instance; refresh_definition of one that is
\* neither running nor marked active.
Editable == status \in {"STOPPED", "STARTING", "PAUSED", "FAILED"}

Edit ==
    /\ Idle /\ Editable /\ scope < MaxEdits
    /\ scope' = scope + 1
    /\ UNCHANGED <<status, riskRev, ckpt, quota, broker, remote, manager, pc, task,
                   closed, used, history>>

UpdateRisk ==
    /\ Idle /\ status \in {"RUNNING", "STOPPED", "PAUSED", "FAILED"}
    /\ riskRev < MaxRisk
    /\ riskRev' = riskRev + 1
    /\ UNCHANGED <<status, scope, ckpt, quota, broker, remote, manager, pc, task,
                   closed, used, history>>

----------------------------------------------------------------------------
(* The end of the process and the restart. *)

\* The intent in hand: the first of the bar that is not dispatched yet.
Current == CHOOSE i \in task.todo : \A j \in task.todo : i[2] <= j[2]

\* An order whose call was cut short has its row, and may be at the broker.
CutShort ==
    /\ pc = "reserved" /\ Current \notin rows
    /\ rows' = rows \cup {Current}
    /\ book' \in {book, [book EXCEPT ![Current] = @ + 1]}

Ends ==
    /\ up' = FALSE /\ mut' = "idle" /\ owner' = "none" /\ cancel' = FALSE
    /\ demand' = FALSE
    /\ pc' = "none" /\ task' = NewTask(0)
    /\ remote' \in {remote, NoSession}
    /\ CutShort \/ UNCHANGED broker
    /\ UNCHANGED <<store, quota, closed, history>>

Crash ==
    /\ up /\ used.crashes < MaxCrashes
    /\ used' = [used EXCEPT !.crashes = @ + 1]
    /\ Ends

\* shutdown: every task is cancelled and joined up to a deadline, then
\* abandoned; the process ends.
ShutdownBegin ==
    /\ Idle /\ used.crashes < MaxCrashes
    /\ used' = [used EXCEPT !.crashes = @ + 1]
    /\ mut' = "shutdown" /\ cancel' = TRUE
    /\ UNCHANGED <<store, quota, broker, remote, up, owner, demand, pc, task, closed,
                   history>>

ShutdownEnd == mut = "shutdown" /\ Ends /\ UNCHANGED used

\* Mutant: the restart trusts the status on record.
RestoreNothing ==
    /\ ~up /\ up' = TRUE
    /\ UNCHANGED <<store, quota, broker, remote, mut, owner, cancel, demand, pc, task,
                   closed, used, history>>

(***************************************************************************)
(* restore_running_instances, before the API is exposed: a RUNNING row     *)
(* gets its demand and a task again, or is marked FAILED.                  *)
(***************************************************************************)
Restart ==
    /\ ~up /\ up' = TRUE
    /\ \/ /\ status = "RUNNING"
          /\ demand' = TRUE /\ owner' = "tasks" /\ cancel' = FALSE
          /\ pc' = "restore" /\ task' = NewTask(scope)
          /\ UNCHANGED status
       \/ /\ Cas({"RUNNING"}, "FAILED")
          /\ UNCHANGED <<demand, owner, cancel, pc, task>>
       \/ /\ status # "RUNNING"
          /\ UNCHANGED <<status, demand, owner, cancel, pc, task>>
    /\ UNCHANGED <<scope, riskRev, ckpt, quota, broker, remote, mut, closed, used,
                   history>>

----------------------------------------------------------------------------
(* The task thread: one cycle reads candles, opens or extends the worker   *)
(* session and handles every newly closed bar.                             *)

\* What every step of the thread leaves to the mutations.
Threaded == UNCHANGED <<scope, riskRev, up, mut, owner, cancel, closed>>

Goto(p) == pc' = p

\* restore_pine_runtime_state of the current scope; a corrupt checkpoint
\* fails the task.
Restore ==
    /\ pc = "restore"
    /\ \/ /\ Goto("top") /\ UNCHANGED used
          /\ task' = [task EXCEPT !.last = ckpt[scope].last,
                                  !.keys = ckpt[scope].keys]
       \/ Fault /\ Goto("failing") /\ UNCHANGED task
    /\ UNCHANGED <<status, ckpt, demand, quota, broker, remote, history>> /\ Threaded

\* The head of the loop: a paused task waits here.
Top ==
    /\ pc = "top"
    /\ cancel \/ status # "PAUSED"
    /\ Goto(IF cancel \/ status \notin {"RUNNING", "STARTING"} THEN "closing" ELSE "read")
    /\ task' = [task EXCEPT !.risk = riskRev]
    /\ UNCHANGED <<status, ckpt, demand, quota, broker, remote, used, history>> /\ Threaded

\* The candles of a read are the last Window closed ones.
Oldest == IF closed > Window THEN closed - Window + 1 ELSE 1

\* Mutant: the candle in progress is taken for the warm-up.
WarmupBarOpen == IF task.last = 0 THEN closed + 1 ELSE task.last

\* Mutant: a first session is opened with the oldest candle only.
WarmupBarOldest == IF task.last = 0 THEN Oldest ELSE task.last

\* Mutant: recovery warms the session up with everything that is closed.
WarmupBarAll == closed

\* The session is warmed up to the checkpoint, or with all history at first.
WarmupBar == IF task.last = 0 THEN closed ELSE task.last

ReadCandles ==
    /\ pc = "read"
    /\ task' = [task EXCEPT !.lo = Oldest, !.hi = closed,
                            !.bar = IF task.revision = 0 THEN WarmupBar ELSE @]
    /\ \/ /\ UNCHANGED used
          /\ Goto(CASE cancel -> "closing"
                    [] ~cancel /\ task.revision # 0 -> "append"
                    [] ~cancel /\ task.revision = 0 /\ closed = 0 -> "top"
                    [] ~cancel /\ task.revision = 0 /\ closed # 0 ->
                         IF task.last # 0 /\ task.last < Oldest THEN "error" ELSE "open")
       \/ Fault /\ Goto("error")
    /\ UNCHANGED <<status, ckpt, demand, quota, broker, remote, history>> /\ Threaded

\* openLiveSession replaces any session and reports no intents.
Opened == [last |-> task.bar, revision |-> 1]

Open ==
    /\ pc = "open"
    /\ \/ /\ ~cancel /\ UNCHANGED used
          /\ remote' = Opened /\ task' = [task EXCEPT !.revision = 1]
          /\ Goto("opened")
       \/ /\ cancel /\ UNCHANGED <<used, task>>
          /\ remote' \in {remote, Opened} /\ Goto("closing")
       \/ /\ Fault /\ UNCHANGED task
          /\ remote' \in {remote, Opened} /\ Goto("error")
    /\ UNCHANGED <<status, ckpt, demand, quota, broker, history>> /\ Threaded

\* record_worker_output and persist_pine_runtime_checkpoint, in the scope the
\* instance has now; `first` is the history a first checkpoint starts from.
SaveCheckpoint(first) ==
    /\ ckpt' = [ckpt EXCEPT ![scope] = [last |-> task.bar, keys |-> task.keys]]
    /\ baseline' = [baseline EXCEPT ![scope] = IF @ = 0 THEN first ELSE @]
    /\ task' = [task EXCEPT !.last = task.bar]
    /\ UNCHANGED used

SaveFails == Fault /\ Goto("error") /\ UNCHANGED <<ckpt, baseline, task>>

CheckpointOpen ==
    /\ pc = "opened"
    /\ \/ /\ SaveCheckpoint(IF task.last = 0 THEN task.hi ELSE task.last)
          /\ Goto(IF task.last = 0 THEN "top" ELSE "append")
       \/ SaveFails
    /\ UNCHANGED <<status, demand, quota, broker, remote, handled>> /\ Threaded

\* The next closed bar after the last one, as far as the window reaches back.
NextBar == IF task.last >= task.lo THEN task.last + 1 ELSE task.lo

\* appendLiveSession: the session exists, the revision is the expected one and
\* open times strictly increase.
Accepts ==
    /\ remote.revision # 0 /\ remote.revision = task.revision
    /\ NextBar > remote.last

Appended == [last |-> NextBar, revision |-> remote.revision + 1]

AppendEnds ==
    /\ pc = "append" /\ (cancel \/ NextBar > task.hi)
    /\ Goto(IF cancel THEN "closing" ELSE "top")
    /\ UNCHANGED <<status, ckpt, demand, quota, broker, remote, task, used, history>>
    /\ Threaded

Append ==
    /\ pc = "append" /\ ~cancel /\ NextBar <= task.hi
    /\ Accepts
    /\ remote' = Appended
    /\ task' = [task EXCEPT !.bar = NextBar, !.revision = @ + 1]
    /\ Goto("answered")
    /\ UNCHANGED <<status, ckpt, demand, quota, broker, used, history>> /\ Threaded

(***************************************************************************)
(* run_session_request after a failed append: the session is closed (the   *)
(* close may fail too) and the revision forgotten, so the next cycle opens *)
(* a new one.  A call that got lost may have been executed.                *)
(***************************************************************************)
AppendFails ==
    /\ pc = "append" /\ ~cancel /\ NextBar <= task.hi
    /\ \/ ~Accepts /\ remote' = NoSession /\ UNCHANGED used
       \/ /\ Fault
          /\ remote' \in {remote, NoSession} \cup (IF Accepts THEN {Appended} ELSE {})
    /\ task' = [task EXCEPT !.revision = 0]
    /\ Goto("top")
    /\ UNCHANGED <<status, ckpt, demand, quota, broker, history>> /\ Threaded

\* current_bar_intents without the keys already submitted.
FreshIntents == {i \in Intents : i[1] = task.bar} \ task.keys

\* The keys count as submitted from here on.
TakeIntents ==
    /\ pc = "answered"
    /\ IF cancel
       THEN Goto("closing") /\ UNCHANGED task
       ELSE /\ task' = [task EXCEPT !.keys = @ \cup FreshIntents,
                                    !.todo = FreshIntents, !.count = 0]
            /\ Goto(IF FreshIntents = {} THEN "checkpoint" ELSE "account")
    /\ UNCHANGED <<status, ckpt, demand, quota, broker, remote, used, history>> /\ Threaded

\* read_strategy_account_inputs; then execute_strategy_intents begins with the
\* revision of the risk settings, which may have moved since the top.
ReadAccount ==
    /\ pc = "account"
    /\ \/ /\ Goto(IF cancel THEN "closing"
                  ELSE IF riskRev # task.risk THEN "error" ELSE "dispatch")
          /\ UNCHANGED used
       \/ Goto("error") /\ Fault
    /\ UNCHANGED <<status, ckpt, demand, quota, broker, remote, task, history>> /\ Threaded

----------------------------------------------------------------------------
(* execute_strategy_intents. *)

\* The events of a kind on record, each an intent and its number, and how
\* many they are.
Recorded(f) == UNION {{i} \X (1 .. f[i]) : i \in Intents}
Total(f) == Cardinality(Recorded(f))

\* today_submitted_order_count: the submissions on record plus this call's.
TodaySubmitted == Total(submits) + task.count

\* Mutant: only submissions on record count against the limit.
SlotsTakenSubmitted == Total(submits)

\* The count of reserve_daily_order: submissions and open reservations.
SlotsTaken == Total(submits) + Total(pending)

Drop(i) == task' = [task EXCEPT !.todo = @ \ {i}]

IntentsDone ==
    /\ pc = "dispatch" /\ task.todo = {}
    /\ Goto("checkpoint")
    /\ UNCHANGED <<status, ckpt, demand, quota, broker, remote, task, used, history>>
    /\ Threaded

Working == pc = "dispatch" /\ task.todo # {}

\* INTENT_SKIPPED: nothing to close, or a quantity that rounds to zero.
SkipIntent ==
    /\ Working
    /\ Drop(Current) /\ handled' = handled \cup {Current}
    /\ UNCHANGED <<status, ckpt, demand, quota, broker, remote, pc, used, baseline>>
    /\ Threaded

\* An intent without direction or price, or a read that fails.
IntentInvalid ==
    /\ Working /\ Fault
    /\ Goto("error")
    /\ UNCHANGED <<status, ckpt, demand, quota, broker, remote, task, history>>
    /\ Threaded

\* The revision is read again before the slot is reserved.
RiskFenced ==
    /\ Working /\ riskRev # task.risk
    /\ TodaySubmitted < DailyMax
    /\ Goto("error")
    /\ UNCHANGED <<status, ckpt, demand, quota, broker, remote, task, used, history>>
    /\ Threaded

\* evaluate_runtime_risk: daily_max_orders.
RiskRejects ==
    /\ Working
    /\ TodaySubmitted >= DailyMax
    /\ handled' = handled \cup {Current}
    /\ status' = IF PauseOnReject /\ status = "RUNNING" THEN "PAUSED" ELSE status
    /\ Goto("error")
    /\ UNCHANGED <<ckpt, demand, quota, broker, remote, task, used, baseline>> /\ Threaded

\* reserve_daily_order, one immediate transaction.
Reserve ==
    /\ Working /\ riskRev = task.risk
    /\ TodaySubmitted < DailyMax
    /\ IF SlotsTaken < DailyMax
       THEN /\ pending' = [pending EXCEPT ![Current] = @ + 1]
            /\ Goto("reserved") /\ UNCHANGED handled
       ELSE /\ handled' = handled \cup {Current}
            /\ Goto("error") /\ UNCHANGED pending
    /\ UNCHANGED <<status, ckpt, demand, submits, broker, remote, task, used, baseline>>
    /\ Threaded

Attempted == handled' = handled \cup {Current}

\* Mutant: the client order id is not looked up before the order is sent.
PlaceUnchecked ==
    /\ pc = "reserved" /\ ~cancel
    /\ rows' = rows \cup {Current}
    /\ book' = [book EXCEPT ![Current] = @ + 1]
    /\ Goto("placed") /\ Attempted
    /\ UNCHANGED <<status, ckpt, demand, quota, remote, task, used, baseline>> /\ Threaded

\* The broker takes the order, or a row with the client order id answers
\* (replay_or_conflict).
PlaceAccepted ==
    /\ pc = "reserved" /\ ~cancel
    /\ rows' = rows \cup {Current}
    /\ book' = IF Current \in rows THEN book ELSE [book EXCEPT ![Current] = @ + 1]
    /\ Goto("placed") /\ Attempted
    /\ UNCHANGED <<status, ckpt, demand, quota, remote, task, used, baseline>> /\ Threaded

(***************************************************************************)
(* The order is refused because the task is stopping, because its client   *)
(* order id is taken by a request with another quantity (the account moved *)
(* since), or by the broker or the way there, which may lose the answer    *)
(* only.  A failed dispatch gives its slot back, whatever became of the    *)
(* order; an error of the release is ignored and leaves the slot taken.    *)
(***************************************************************************)
ReleaseReservation ==
    /\ pending' \in {pending, [pending EXCEPT ![Current] = 0]}
    /\ UNCHANGED submits

PlaceFails ==
    /\ pc = "reserved"
    /\ \/ cancel /\ UNCHANGED <<broker, handled, used>>
       \/ ~cancel /\ Current \in rows /\ Attempted /\ UNCHANGED <<broker, used>>
       \/ /\ ~cancel /\ Fault /\ Attempted
          /\ \/ UNCHANGED broker
             \/ /\ Current \notin rows
                /\ rows' = rows \cup {Current}
                /\ book' \in {book, [book EXCEPT ![Current] = @ + 1]}
    /\ ReleaseReservation
    /\ Goto("error")
    /\ UNCHANGED <<status, ckpt, demand, remote, task, baseline>> /\ Threaded

\* ORDER_SUBMITTED settles every earlier reservation of the key; its loss is
\* ignored.
RecordSubmitted ==
    /\ pc = "placed"
    /\ task' = [task EXCEPT !.todo = @ \ {Current}, !.count = @ + 1]
    /\ \/ /\ submits' = [submits EXCEPT ![Current] = @ + 1]
          /\ pending' = [pending EXCEPT ![Current] = 0]
          /\ UNCHANGED used
       \/ Fault /\ UNCHANGED quota
    /\ Goto("dispatch")
    /\ UNCHANGED <<status, ckpt, demand, broker, remote, history>> /\ Threaded

CheckpointBar ==
    /\ pc = "checkpoint"
    /\ \/ SaveCheckpoint(task.last) /\ Goto("append")
       \/ SaveFails
    /\ UNCHANGED <<status, demand, quota, broker, remote, handled>> /\ Threaded

----------------------------------------------------------------------------
(* The end of a cycle with an error, and the end of the task. *)

\* A paused instance keeps its task; otherwise the sessions are closed first.
CycleError ==
    /\ pc = "error"
    /\ \/ cancel /\ Goto("closing") /\ UNCHANGED remote
       \/ ~cancel /\ status = "PAUSED" /\ Goto("top") /\ UNCHANGED remote
       \/ ~cancel /\ status # "PAUSED" /\ Goto("failing") /\ remote' \in {remote, NoSession}
    /\ UNCHANGED <<status, ckpt, demand, quota, broker, task, used, history>> /\ Threaded

\* fail_strategy_task: the status, unconditionally ...
FailStatus ==
    /\ pc = "failing"
    /\ status' = "FAILED"
    /\ Goto("failed")
    /\ UNCHANGED <<ckpt, demand, quota, broker, remote, task, used, history>> /\ Threaded

\* Mutant: a failed task keeps its demand.
FailKeepsDemand ==
    /\ pc = "failed"
    /\ Goto("done")
    /\ UNCHANGED <<status, ckpt, demand, quota, broker, remote, task, used, history>>
    /\ Threaded

\* ... and then the demand.
FailRelease ==
    /\ pc = "failed"
    /\ demand' = FALSE
    /\ Goto("done")
    /\ UNCHANGED <<status, ckpt, quota, broker, remote, task, used, history>> /\ Threaded

CloseSessions ==
    /\ pc = "closing"
    /\ remote' \in {remote, NoSession}
    /\ Goto("done")
    /\ UNCHANGED <<status, ckpt, demand, quota, broker, task, used, history>> /\ Threaded

----------------------------------------------------------------------------
(* The environment. *)

BarCloses ==
    /\ closed < MaxBars /\ closed' = closed + 1
    /\ UNCHANGED <<store, quota, broker, remote, manager, pc, task, used, history>>

WorkerDies ==
    /\ remote # NoSession /\ remote' = NoSession /\ Fault
    /\ UNCHANGED <<store, quota, broker, manager, pc, task, closed, history>>

TaskStep ==
    \/ Restore \/ Top \/ ReadCandles \/ Open \/ CheckpointOpen
    \/ AppendEnds \/ Append \/ AppendFails \/ TakeIntents \/ ReadAccount
    \/ IntentsDone \/ SkipIntent \/ IntentInvalid \/ RiskFenced \/ RiskRejects \/ Reserve
    \/ PlaceAccepted \/ PlaceFails \/ RecordSubmitted \/ CheckpointBar
    \/ CycleError \/ FailStatus \/ FailRelease \/ CloseSessions

Lifecycle ==
    \/ StartResume \/ StartBegin \/ StopBegin \/ DeleteBegin
    \/ StartClaim \/ StartSpawn \/ StartFails \/ StartPublish \/ StartUndone
    \/ StopCommit \/ DeleteCommit \/ CancelTimeout
    \/ Pause \/ Edit \/ UpdateRisk

Process == Crash \/ ShutdownBegin \/ ShutdownEnd \/ Restart

Next == TaskStep \/ Lifecycle \/ Process \/ BarCloses \/ WorkerDies

Spec == Init /\ [][Next]_vars

(***************************************************************************)
(* The thread is scheduled, a mutation that waits for it ends, a process   *)
(* that went down is started again, and bars close.                        *)
(***************************************************************************)
FairSpec ==
    /\ Spec
    /\ WF_vars(TaskStep)
    /\ WF_vars(StartClaim \/ StartSpawn \/ StartPublish \/ StartUndone
               \/ StopCommit \/ DeleteCommit)
    /\ WF_vars(ShutdownEnd \/ Restart)
    /\ WF_vars(BarCloses)

----------------------------------------------------------------------------
(* Properties. *)

TypeOK ==
    /\ status \in Status /\ scope \in Scopes /\ riskRev \in 0 .. MaxRisk
    /\ ckpt \in [Scopes -> Checkpoint]
    /\ pending \in [Intents -> Nat] /\ submits \in [Intents -> Nat]
    /\ rows \subseteq Intents /\ book \in [Intents -> Nat]
    /\ remote \in Session
    /\ up \in BOOLEAN /\ mut \in Mutation /\ cancel \in BOOLEAN /\ demand \in BOOLEAN
    /\ owner \in {"none", "tasks", "reclaiming"}
    /\ pc \in TaskPC /\ task \in Task
    /\ closed \in 0 .. MaxBars
    /\ used \in [faults : 0 .. MaxFaults, crashes : 0 .. MaxCrashes,
                 pauses : 0 .. MaxPauses, timeouts : 0 .. MaxTimeouts]
    /\ baseline \in [Scopes -> 0 .. MaxBars] /\ handled \subseteq Intents

\* An intent reaches the broker at most once, across crashes between the order
\* and its checkpoint, retries after a lost answer, restarts and edits.
OrdersOnce == \A i \in Intents : book[i] <= 1

\* An order is sent only for a bar that closed after the scope's first session
\* was opened: the history a session is warmed up with is never traded.
HistoryNotTraded ==
    [][\A i \in Intents : book'[i] > book[i] => i[1] > baseline[task.scope]]_vars

\* Every intent of a bar that a checkpoint covers, history aside, was sent,
\* skipped or refused: no crash, failed append, reopened session or failed
\* order makes the runtime step over a signal.
SignalsKept ==
    \A i \in Intents :
        i[1] > baseline[scope] /\ i[1] <= ckpt[scope].last => i \in handled

\* Between mutations the router's managed demand follows the status on record:
\* a running instance holds it, a stopped, deleted or failed one does not.
DemandMatches ==
    Idle => /\ status = "RUNNING" => demand
            /\ status \in {"STOPPED", "DELETED"} => ~demand
            /\ status = "FAILED" /\ ThreadGone => ~demand

\* An instance on record as stopped or deleted has no thread that could still
\* send an order: a stop that cannot join its task is refused.
StoppedMeansGone == status \in {"STOPPED", "DELETED"} => ThreadGone

\* A task is started only when the instance's previous thread has ended.
OneTask == [][pc' = "restore" => pc \in {"none", "done", "restore"}]_vars

\* Reservations and submissions together never exceed the daily limit.
QuotaKept == Total(submits) + Total(pending) <= DailyMax

\* A running instance whose bars have all closed has a task that brings its
\* checkpoint up to the last one, unless it stops running or a Stop that timed
\* out has given its task up: that Stop is refused and leaves the row RUNNING,
\* but the flag stays raised, the thread ends, and nothing catches up until the
\* next Stop or the next restart.
CaughtUp ==
    (Idle /\ status = "RUNNING" /\ closed = MaxBars)
        ~> (\/ owner = "tasks" /\ ckpt[scope].last = MaxBars
            \/ status # "RUNNING"
            \/ owner = "reclaiming")

----------------------------------------------------------------------------
(* What the documents say and the code does not do. *)

\* A Start or resume that answers RUNNING has a task nobody has cancelled.
StartedRuns ==
    [][status # "RUNNING" /\ status' = "RUNNING" => owner = "tasks" /\ ~cancel]_vars

\* A task works with the binding and definition on record.
ScopeCurrent == ~ThreadGone /\ ~cancel => task.scope = scope

\* The daily limit refuses an order only when its slots are taken.
RefusedAtLimit == [][RiskRejects => SlotsTaken >= DailyMax]_vars

\* No order is refused because of the slot an earlier attempt of it holds.
OwnSlot ==
    [][Reserve /\ pc' = "error" => pending[Current] = 0]_vars

\* The broker holds no more orders of the day than the limit allows.
BrokerWithinQuota == Total(book) <= DailyMax

==============================================================================
