---------------------------- MODULE AssistantRun ----------------------------
(***************************************************************************)
(* One run of the assistant and the people and threads that decide its     *)
(* course: the model that asks for tools, the users who approve, deny,     *)
(* answer, reconnect and cancel over HTTP, the recovery scanner, and the   *)
(* two executors: the request that created the run, and the continuation   *)
(* the supervisor lets run one at a time.                                  *)
(*                                                                         *)
(* A transaction of the store is one step.  Its revision check             *)
(* (updated_at) is kept as the set of agents whose revision is still the   *)
(* one on the row: every write of the run row empties it.  The items of    *)
(* pendingApprovals are overwritten from the approval rows before they     *)
(* are read, so only which calls are listed is kept.  How an executor      *)
(* claims and commits one tool is ToolClaims; here a tool starts, ends and *)
(* is recorded, and a living executor keeps its lease.                     *)
(***************************************************************************)
EXTENDS Naturals, FiniteSets

CONSTANTS
    Users,         \* HTTP requests in flight
    Calls,         \* tool calls the model may ask for
    Batches,       \* Batches[k]: the calls of round k, a sequence of sets
    NoCall,
    MaxEvents      \* bound: provider failures, questions to the user, cancel
                   \* requests and restarts, together

Scanner == "scanner"
Agents == Users \cup {Scanner}
Executors == {"first", "continuation"}
Nobody == "nobody"
Dead == "dead"           \* an executor of a process that is gone

ASSUME RunAssumption ==
    /\ Users \cap ({Scanner, Nobody, Dead} \cup Executors) = {}
    /\ NoCall \notin Calls
    /\ \A k \in DOMAIN Batches : Batches[k] \subseteq Calls /\ Batches[k] # {}
    /\ \A j, k \in DOMAIN Batches : j # k => Batches[j] \cap Batches[k] = {}
    /\ MaxEvents \in Nat

VARIABLES
    run,           \* adk_runs.status
    call,          \* status of each entry of payload.toolCalls
    listed,        \* the calls named by payload.pendingApprovals
    row,           \* adk_approvals.status, by the call it is about
    input,         \* status of payload.inputRequest
    backoff,       \* payload.providerRetry is in the future
    lease,         \* owner of the unexpired row of adk_run_leases
    stage,         \* where each executor stands
    plan,          \* the calls an executor read and has not come to yet
    tool,          \* the call an executor executes
    woken,         \* executors whose cancellation token is set
    req,           \* what each agent is doing: [pc, kind, about]
    staged,        \* agents whose staging is still the last write of the run
    read,          \* agents for whom no write followed their read of the run
    kept,          \* the payload an answering request holds in memory
    events         \* how many of the bounded events have happened

payload == <<call, listed, input, backoff>>
local == <<stage, plan, tool, woken>>
agents == <<req, staged, read, kept>>
vars == <<run, payload, row, lease, local, agents, events>>

Ended == {"COMPLETED", "FAILED", "DENIED", "CANCELLED"}
Cancellable == {"RUNNING", "PENDING_INPUT"}
Decision == {"APPROVED", "DENIED"}
CallStatus == {"none", "PENDING_APPROVAL", "RUNNING", "DENIED", "CANCELLED",
               "SUCCEEDED", "FAILED"}
Stages == {"none", "spawned", "acquire", "mark", "round", "tools", "executing", "failing", "model",
           "leaving", "released"}
Positions == {"idle", "resume", "deny", "denied", "spawn", "rollback", "repair", "cancel",
              "cancelling"}
Kinds == {"none", "approval", "input", "reconnect", "startup", "scan", "cancel"}
Requests == [pc : Positions, kind : Kinds, about : Calls \cup {NoCall}]
Kept == [call : [Calls -> CallStatus], listed : SUBSET Calls]
NoKept == [call |-> [c \in Calls |-> "none"], listed |-> {}]
Idle == [pc |-> "idle", kind |-> "none", about |-> NoCall]

TypeOK ==
    /\ run \in {"RUNNING", "PENDING", "PENDING_INPUT"} \cup Ended
    /\ call \in [Calls -> CallStatus]
    /\ listed \subseteq Calls
    /\ row \in [Calls -> {"none", "PENDING"} \cup Decision]
    /\ input \in {"none", "PENDING", "ANSWERED", "CANCELLED"}
    /\ backoff \in BOOLEAN
    /\ lease \in Executors \cup Agents \cup {Nobody, Dead}
    /\ stage \in [Executors -> Stages]
    /\ plan \in [Executors -> SUBSET Calls]
    /\ tool \in [Executors -> Calls \cup {NoCall}]
    /\ woken \subseteq Executors
    /\ req \in [Agents -> Requests]
    /\ staged \subseteq Agents /\ read \subseteq Agents
    /\ kept \in [Agents -> Kept]
    /\ events \in 0..MaxEvents

\* prepare_chat has created the run with the lease of its own executor.
Init ==
    /\ run = "RUNNING"
    /\ call = [c \in Calls |-> "none"] /\ listed = {}
    /\ row = [c \in Calls |-> "none"]
    /\ input = "none" /\ backoff = FALSE
    /\ lease = "first"
    /\ stage = [e \in Executors |-> IF e = "first" THEN "model" ELSE "none"]
    /\ plan = [e \in Executors |-> {}]
    /\ tool = [e \in Executors |-> NoCall] /\ woken = {}
    /\ req = [a \in Agents |-> Idle]
    /\ staged = {} /\ read = {} /\ kept = [a \in Agents |-> NoKept]
    /\ events = 0
-----------------------------------------------------------------------------
\* Every write of the run row gives it a new updated_at.
Touch == staged' = {} /\ read' = {}

\* The entries of f that are in status s, moved to status t.
Turn(f, s, t) == [c \in Calls |-> IF f[c] = s THEN t ELSE f[c]]

\* One of the bounded events.
Happens == events < MaxEvents /\ events' = events + 1

\* What an agent does next, and the end of its request.
At(a, pc) == req' = [req EXCEPT ![a] = [pc |-> pc, kind |-> req[a].kind, about |-> req[a].about]]
Answered(a) == req' = [req EXCEPT ![a] = Idle]
GoTo(e, s) == stage' = [stage EXCEPT ![e] = s]

\* The executors that read the run in order to write it ...
Writing ==
    {e \in Executors : \/ stage[e] \in {"mark", "executing", "failing", "model"}
                       \/ stage[e] \in {"round", "tools"} /\ e \in woken}

\* ... may have read it before this write: theirs is refused, and they leave.
Overtake ==
    \E late \in SUBSET Writing :
        /\ stage' = [e \in Executors |-> IF e \in late THEN "leaving" ELSE stage[e]]
        /\ tool' = [e \in Executors |-> IF e \in late THEN NoCall ELSE tool[e]]
        /\ UNCHANGED <<plan, woken>>
-----------------------------------------------------------------------------
(* Approvals.                                                              *)

\* resolve_and_stage_approval up to its first commit: a PENDING row takes
\* the decision.
Decided(c, d) == IF row[c] = "PENDING" THEN [row EXCEPT ![c] = d] ELSE row

\* The decision reaches the run only if it is the one on the row, the run
\* waits, and lists the approval.
Concerns(c, d) == Decided(c, d)[c] = d /\ run = "PENDING" /\ c \in listed

\* One denial turns the approvals still open into denials.
RowsStaged(c, d) ==
    LET rows == Decided(c, d) IN
    IF \E x \in listed : rows[x] = "DENIED"
    THEN [x \in Calls |-> IF x \in listed /\ rows[x] = "PENDING" THEN "DENIED" ELSE rows[x]]
    ELSE rows

\* The waiting calls are denied with the first denial and released with the
\* last approval.
CallsStaged(rows) ==
    IF \E x \in listed : rows[x] = "DENIED" THEN Turn(call, "PENDING_APPROVAL", "DENIED")
    ELSE IF \E x \in listed : rows[x] = "PENDING" THEN call
    ELSE Turn(call, "PENDING_APPROVAL", "RUNNING")

\* Approve and Deny: the transaction, and on with the continuation when no
\* approval of the round is open any more.
Resolve(a, c, d) ==
    /\ req[a].pc = "idle" /\ a \in Users
    /\ row[c] # "none"
    /\ IF Concerns(c, d)
       THEN LET rows == RowsStaged(c, d)
                continue == \A x \in listed : rows[x] # "PENDING" IN
            /\ row' = rows
            /\ call' = CallsStaged(rows)
            /\ run' = IF continue THEN "RUNNING" ELSE "PENDING"
            /\ staged' = (IF continue THEN {a} ELSE {}) /\ read' = {}
            /\ req' = IF continue
                      THEN [req EXCEPT ![a] = [pc |-> "resume", kind |-> "approval", about |-> c]]
                      ELSE req
       ELSE row' = Decided(c, d) /\ UNCHANGED <<run, call, staged, read, req>>
    /\ UNCHANGED <<listed, input, backoff, lease, local, kept, events>>

\* Mutant: only the run is put back.
RowRolledBack(c) == row

\* The approval is open again.
RowReopened(c) == [row EXCEPT ![c] = "PENDING"]

\* Mutant: the call keeps the status the staging gave it.
CallLeftStaged(c) == call

\* Its call waits again.  The other calls of the round stay as staged: the
\* confirmation ids, compared by prefix, reach another call only in rounds of
\* ten calls and more, which are left out.
CallReopened(c) ==
    IF call[c] = "none" THEN call ELSE [call EXCEPT ![c] = "PENDING_APPROVAL"]

\* rollback_staged_approval, on the run as it was staged only: the approval,
\* its call and the run are put back.
Rollback(a) ==
    /\ req[a].pc = "rollback"
    /\ IF run = "RUNNING" /\ a \in staged /\ row[req[a].about] \in Decision
       THEN /\ row' = RowReopened(req[a].about)
            /\ call' = CallReopened(req[a].about)
            /\ run' = "PENDING"
            /\ Touch /\ Overtake
       ELSE UNCHANGED <<row, call, run, staged, read, local>>
    /\ Answered(a)
    /\ UNCHANGED <<listed, input, backoff, lease, kept, events>>
-----------------------------------------------------------------------------
(* resume_approval, called by approvals, answers, reconnecting clients,    *)
(* the scanner and the start of the process.                               *)

\* An error reaches the caller: an approval is rolled back, an answer is
\* marked for a later resume unless the error is a conflict.
Refused(a, conflict) ==
    IF req[a].kind = "approval" THEN At(a, "rollback")
    ELSE IF req[a].kind = "input" /\ ~conflict THEN At(a, "repair")
    ELSE Answered(a)

\* get_run, and what its status, marker and calls say.
ResumeRead(a) ==
    /\ req[a].pc = "resume"
    /\ \/ /\ run = "CANCELLED" \/ (run = "RUNNING" /\ backoff)
          /\ Answered(a) /\ UNCHANGED read
       \/ /\ run \notin {"RUNNING", "CANCELLED"}
          /\ Refused(a, FALSE) /\ UNCHANGED read
       \/ /\ run = "RUNNING" /\ ~backoff
          /\ At(a, IF \E c \in Calls : call[c] = "DENIED" THEN "deny" ELSE "spawn")
          /\ read' = read \cup {a}
    /\ UNCHANGED <<run, payload, row, lease, local, staged, kept, events>>

\* A denied call: the agent takes the run lease itself ...
DenyAcquire(a) ==
    /\ req[a].pc = "deny"
    /\ IF lease = Nobody
       THEN lease' = a /\ At(a, "denied")
       ELSE Refused(a, TRUE) /\ UNCHANGED lease
    /\ UNCHANGED <<run, payload, row, local, staged, read, kept, events>>

\* ... and ends the run it read; a lost race is not reported.
DenyWrite(a) ==
    /\ req[a].pc = "denied"
    /\ IF run = "RUNNING" /\ a \in read
       THEN run' = "DENIED" /\ Touch
       ELSE UNCHANGED <<run, staged, read>>
    /\ lease' = Nobody
    /\ Answered(a)
    /\ UNCHANGED <<payload, row, local, kept, events>>

\* The provider cannot be resolved.  The scanner leaves a marker, under a
\* lease of its own when it gets one.
ProviderMissing(a) ==
    /\ req[a].pc = "spawn"
    /\ Happens
    /\ Refused(a, FALSE)
    /\ IF req[a].kind = "scan" /\ lease = Nobody /\ run = "RUNNING"
       THEN backoff' = TRUE /\ Touch
       ELSE UNCHANGED <<backoff, staged, read>>
    /\ UNCHANGED <<run, call, listed, input, row, lease, local, kept>>

\* ContinuationSupervisor::spawn admits one continuation of a run.
Spawn(a) ==
    /\ req[a].pc = "spawn"
    /\ IF stage["continuation"] = "none"
       THEN GoTo("continuation", "spawned") /\ Answered(a)
       ELSE Refused(a, TRUE) /\ UNCHANGED stage
    /\ UNCHANGED <<run, payload, row, lease, plan, tool, woken, staged, read, kept, events>>

\* prepare_existing_run: a client repeats the request of the run.
Reconnect(a) ==
    /\ req[a].pc = "idle" /\ a \in Users
    /\ run = "RUNNING" /\ ~backoff
    /\ req' = [req EXCEPT ![a] = [pc |-> "resume", kind |-> "reconnect", about |-> NoCall]]
    /\ UNCHANGED <<run, payload, row, lease, local, staged, read, kept, events>>

\* Mutant: the scanner leaves runs that wait for an approved continuation.
ScanUnapproved == run = "RUNNING" /\ ~backoff /\ lease = Nobody /\ \A c \in Calls : row[c] # "APPROVED"

\* A RUNNING run that is due and has no live lease is recoverable.
Recoverable == run = "RUNNING" /\ ~backoff /\ lease = Nobody

\* recover_durable_provider_runs.
Scan ==
    /\ req[Scanner].pc = "idle"
    /\ Recoverable
    /\ req' = [req EXCEPT ![Scanner] = [pc |-> "resume", kind |-> "scan", about |-> NoCall]]
    /\ UNCHANGED <<run, payload, row, lease, local, staged, read, kept, events>>
-----------------------------------------------------------------------------
(* Questions to the user, and cancellation.                                *)

\* respond_to_input: the answer is accepted against the revision it read,
\* and the request keeps the payload it wrote.
Respond(a) ==
    /\ req[a].pc = "idle" /\ a \in Users
    /\ run = "PENDING_INPUT" /\ input = "PENDING"
    /\ run' = "RUNNING" /\ input' = "ANSWERED"
    /\ Touch
    /\ kept' = [kept EXCEPT ![a] = [call |-> call, listed |-> listed]]
    /\ req' = [req EXCEPT ![a] = [pc |-> "resume", kind |-> "input", about |-> NoCall]]
    /\ UNCHANGED <<call, listed, backoff, row, lease, local, events>>

\* Mutant: the payload is written whatever the status of the run.
RepairAnyStatus == TRUE

\* The run must be RUNNING; its revision is read again just before.
RepairAllowed == run = "RUNNING"

\* The continuation did not start: the payload in memory, marked
\* input_resume_pending, is written over the current revision.
Repair(a) ==
    /\ req[a].pc = "repair"
    /\ IF RepairAllowed
       THEN /\ call' = kept[a].call /\ listed' = kept[a].listed
            /\ run' = "RUNNING"
            /\ input' = "ANSWERED" /\ backoff' = FALSE
            /\ Touch /\ Overtake
       ELSE UNCHANGED <<run, payload, staged, read, local>>
    /\ kept' = [kept EXCEPT ![a] = NoKept]
    /\ Answered(a)
    /\ UNCHANGED <<row, lease, events>>

\* CancelRun wakes the executors that have registered a token ...
Cancel(a) ==
    /\ req[a].pc = "idle" /\ a \in Users
    /\ Happens
    /\ woken' = woken \cup {e \in Executors : stage[e] \notin {"none", "spawned", "released"}}
    /\ req' = [req EXCEPT ![a] = [pc |-> "cancel", kind |-> "cancel", about |-> NoCall]]
    /\ UNCHANGED <<run, payload, row, lease, stage, plan, tool, staged, read, kept>>

\* ... reads the run ...
CancelRead(a) ==
    /\ req[a].pc = "cancel"
    /\ IF run \in Cancellable
       THEN At(a, "cancelling") /\ read' = read \cup {a}
       ELSE Answered(a) /\ UNCHANGED read
    /\ UNCHANGED <<run, payload, row, lease, local, staged, kept, events>>

\* ... and ends it, unless the run was written since.
CancelWrite(a) ==
    /\ req[a].pc = "cancelling"
    /\ IF a \in read
       THEN /\ run' = "CANCELLED"
            /\ listed' = {}
            /\ input' = IF input = "PENDING" THEN "CANCELLED" ELSE input
            /\ call' = [c \in Calls |-> IF call[c] \in {"RUNNING", "PENDING_APPROVAL"}
                                        THEN "CANCELLED" ELSE call[c]]
            /\ Touch
       ELSE UNCHANGED <<run, call, listed, input, staged, read>>
    /\ Answered(a)
    /\ UNCHANGED <<backoff, row, lease, local, kept, events>>
-----------------------------------------------------------------------------
(* The executors.                                                          *)

\* The continuation starts, registers its token and looks for a cancelled run.
StartTask(e) ==
    /\ stage[e] = "spawned"
    /\ GoTo(e, IF run = "CANCELLED" THEN "released" ELSE "acquire")
    /\ UNCHANGED <<run, payload, row, lease, plan, tool, woken, agents, events>>

\* acquire_run_lease_with_retry.
Acquire(e) ==
    /\ stage[e] = "acquire"
    /\ \/ /\ e \in woken \/ run = "CANCELLED"
          /\ GoTo(e, "released") /\ UNCHANGED lease
       \/ /\ e \notin woken /\ run # "CANCELLED" /\ lease = Nobody
          /\ lease' = e /\ GoTo(e, "mark")
    /\ UNCHANGED <<run, payload, row, plan, tool, woken, agents, events>>

\* mark_provider_attempt_started; it does nothing to a run not RUNNING.
Mark(e) ==
    /\ stage[e] = "mark"
    /\ IF run = "RUNNING" THEN backoff' = FALSE /\ Touch
       ELSE UNCHANGED <<backoff, staged, read>>
    /\ GoTo(e, "round")
    /\ UNCHANGED <<run, call, listed, input, row, lease, plan, tool, woken, req, kept, events>>

\* A woken executor cancels a RUNNING run (persist_cancelled) and leaves, or,
\* woken while it claims a tool, leaves without a word; one that finds the run
\* in another status leaves.
Abandon(e) ==
    /\ stage[e] \in {"round", "tools", "model"}
    /\ e \in woken \/ run # "RUNNING"
    /\ \/ run = "RUNNING" /\ run' = "CANCELLED" /\ Touch
       \/ /\ run # "RUNNING" \/ (stage[e] = "tools" /\ plan[e] # {})
          /\ UNCHANGED <<run, staged, read>>
    /\ GoTo(e, "leaving")
    /\ UNCHANGED <<payload, row, lease, plan, tool, woken, req, kept, events>>

\* executable_tool_calls: the calls the payload shows as RUNNING.
ReadRound(e) ==
    /\ stage[e] = "round"
    /\ e \notin woken /\ run = "RUNNING"
    /\ plan' = [plan EXCEPT ![e] = {c \in Calls : call[c] = "RUNNING"}]
    /\ GoTo(e, "tools")
    /\ UNCHANGED <<run, payload, row, lease, tool, woken, agents, events>>

\* The next of them is claimed and executed.  The claim asks for a RUNNING
\* run; what the payload says of the call by now is not read again.
StartTool(e, c) ==
    /\ stage[e] = "tools"
    /\ e \notin woken /\ run = "RUNNING"
    /\ c \in plan[e]
    /\ plan' = [plan EXCEPT ![e] = plan[e] \ {c}]
    /\ tool' = [tool EXCEPT ![e] = c]
    /\ GoTo(e, "executing")
    /\ UNCHANGED <<run, payload, row, lease, woken, agents, events>>

\* persist_tool_result, refused when the run is not RUNNING any more.
FinishTool(e, verdict) ==
    /\ stage[e] = "executing"
    /\ IF run = "RUNNING"
       THEN /\ call' = IF call[tool[e]] = "none" THEN call
                       ELSE [call EXCEPT ![tool[e]] = verdict]
            /\ Touch
            /\ GoTo(e, IF verdict = "SUCCEEDED" THEN "tools" ELSE "failing")
       ELSE GoTo(e, "leaving") /\ UNCHANGED <<call, staged, read>>
    /\ tool' = [tool EXCEPT ![e] = NoCall]
    /\ UNCHANGED <<run, listed, input, backoff, row, lease, plan, woken, req, kept, events>>

\* persist_failure after a failed tool.
FailRun(e) ==
    /\ stage[e] = "failing"
    /\ IF run = "RUNNING" THEN run' = "FAILED" /\ Touch ELSE UNCHANGED <<run, staged, read>>
    /\ GoTo(e, "leaving")
    /\ UNCHANGED <<payload, row, lease, plan, tool, woken, req, kept, events>>

AskModel(e) ==
    /\ stage[e] = "tools"
    /\ run = "RUNNING"
    /\ plan[e] = {}
    /\ GoTo(e, "model")
    /\ UNCHANGED <<run, payload, row, lease, plan, tool, woken, agents, events>>

\* An answer reaches a RUNNING run and an executor nobody has woken.
ModelAnswers(e) == stage[e] = "model" /\ e \notin woken /\ run = "RUNNING"

\* The round the payload calls next.
NextRound == 1 + Cardinality({k \in DOMAIN Batches : \E c \in Batches[k] : call[c] # "none"})

\* persist_tool_calls: calls, approvals and the waiting run in one
\* transaction.  An approval id that exists already fails it.
StageCalls(e) ==
    /\ ModelAnswers(e)
    /\ NextRound \in DOMAIN Batches
    /\ LET batch == Batches[NextRound] IN
       IF \A c \in batch : row[c] = "none"
       THEN /\ run' = "PENDING" /\ listed' = batch /\ backoff' = FALSE
            /\ call' = [c \in Calls |-> IF c \in batch THEN "PENDING_APPROVAL" ELSE call[c]]
            /\ row' = [c \in Calls |-> IF c \in batch THEN "PENDING" ELSE row[c]]
       ELSE run' = "FAILED" /\ UNCHANGED <<call, listed, backoff, row>>
    /\ Touch
    /\ GoTo(e, "leaving")
    /\ UNCHANGED <<input, lease, plan, tool, woken, req, kept, events>>

\* persist_pending_input_call.
AskUser(e) ==
    /\ ModelAnswers(e)
    /\ Happens
    /\ run' = "PENDING_INPUT" /\ listed' = {} /\ input' = "PENDING"
    /\ Touch
    /\ GoTo(e, "leaving")
    /\ UNCHANGED <<call, backoff, row, lease, plan, tool, woken, req, kept>>

\* persist_success and persist_failure, an unavailable tool included.
EndRun(e, status) ==
    /\ ModelAnswers(e)
    /\ run' = status
    /\ Touch
    /\ GoTo(e, "leaving")
    /\ UNCHANGED <<payload, row, lease, plan, tool, woken, req, kept, events>>

\* persist_provider_retry.
RetryLater(e) ==
    /\ ModelAnswers(e)
    /\ Happens
    /\ backoff' = TRUE
    /\ Touch
    /\ GoTo(e, "leaving")
    /\ UNCHANGED <<run, call, listed, input, row, lease, plan, tool, woken, req, kept>>

\* The RunLeaseGuard is dropped ...
Release(e) ==
    /\ stage[e] = "leaving"
    /\ lease' = IF lease = e THEN Nobody ELSE lease
    /\ plan' = [plan EXCEPT ![e] = {}]
    /\ GoTo(e, "released")
    /\ UNCHANGED <<run, payload, row, tool, woken, agents, events>>

\* ... and then the task leaves the table of the supervisor.
Deregister(e) ==
    /\ stage[e] = "released"
    /\ GoTo(e, "none")
    /\ woken' = woken \ {e}
    /\ UNCHANGED <<run, payload, row, lease, plan, tool, agents, events>>
-----------------------------------------------------------------------------
(* Time and crashes.                                                       *)

BackoffEnds ==
    /\ backoff
    /\ backoff' = FALSE
    /\ UNCHANGED <<run, call, listed, input, row, lease, local, agents, events>>

LeaseExpires ==
    /\ lease = Dead
    /\ lease' = Nobody
    /\ UNCHANGED <<run, payload, row, local, agents, events>>

Quiet == [a \in Agents |-> Idle]

\* recover_approval_continuations, at startup: a RUNNING run that is due is
\* resumed without a look at its lease, unless its resumeState is
\* provider_waiting and leaves it to the scanner.
Recovering ==
    {Quiet} \cup
    IF run = "RUNNING" /\ ~backoff
    THEN {[Quiet EXCEPT ![Scanner] = [pc |-> "resume", kind |-> "startup", about |-> NoCall]]}
    ELSE {}

\* The process dies and starts again: what was in memory is gone, a lease it
\* held has to expire.
Crash ==
    /\ Happens
    /\ lease' = IF lease = Nobody THEN Nobody ELSE Dead
    /\ stage' = [e \in Executors |-> "none"]
    /\ plan' = [e \in Executors |-> {}]
    /\ tool' = [e \in Executors |-> NoCall] /\ woken' = {}
    /\ req' \in Recovering
    /\ staged' = {} /\ read' = {} /\ kept' = [a \in Agents |-> NoKept]
    /\ UNCHANGED <<run, payload, row>>
-----------------------------------------------------------------------------
Request(a) ==
    \/ \E c \in Calls, d \in Decision : Resolve(a, c, d)
    \/ Reconnect(a)
    \/ Respond(a)
    \/ Cancel(a)

Handle(a) ==
    \/ ResumeRead(a) \/ DenyAcquire(a) \/ DenyWrite(a) \/ Spawn(a) \/ ProviderMissing(a)
    \/ Rollback(a) \/ Repair(a) \/ CancelRead(a) \/ CancelWrite(a)

Execute(e) ==
    \/ StartTask(e) \/ Acquire(e) \/ Mark(e) \/ Abandon(e)
    \/ ReadRound(e) \/ \E c \in Calls : StartTool(e, c)
    \/ \E verdict \in {"SUCCEEDED", "FAILED"} : FinishTool(e, verdict)
    \/ FailRun(e) \/ AskModel(e) \/ StageCalls(e) \/ AskUser(e)
    \/ \E status \in {"COMPLETED", "FAILED"} : EndRun(e, status)
    \/ RetryLater(e) \/ Release(e) \/ Deregister(e)

Next ==
    \/ \E a \in Users : Request(a)
    \/ \E a \in Agents : Handle(a)
    \/ \E e \in Executors : Execute(e)
    \/ Scan \/ BackoffEnds \/ LeaseExpires \/ Crash

Spec == Init /\ [][Next]_vars

\* Requests are handled to their end, executors and the scanner run, time
\* passes.  Users need not do anything.
FairSpec ==
    /\ Spec
    /\ \A a \in Agents : WF_vars(Handle(a))
    /\ \A e \in Executors : WF_vars(Execute(e))
    /\ WF_vars(Scan) /\ WF_vars(BackoffEnds) /\ WF_vars(LeaseExpires)
-----------------------------------------------------------------------------
\* What an executor sets out to do was approved: no order of decisions,
\* rollbacks, answers, crashes and late executors shows it as released a call
\* whose approval is open or was denied.
PlansApproved ==
    [][\A e \in Executors : ~(plan'[e] \subseteq plan[e])
                            => (\A c \in plan'[e] : row[c] = "APPROVED")]_vars

\* "Tools are executed only once all is approved; any denial ends what was
\* still to be done": a call whose approval stands denied is not started.
DeniedNotStarted ==
    [][\A e \in Executors : (stage[e] # "executing" /\ stage'[e] = "executing")
                            => (row[tool'[e]] # "DENIED")]_vars

\* "... back into their pending state only if no worker has already advanced
\* the run": the approval of a tool that executes is not taken back.
ApprovalStands ==
    \A e \in Executors : stage[e] = "executing" => row[tool[e]] = "APPROVED"

\* A run that waits for approvals can be decided: one of the approvals it
\* lists is open, whatever was denied, rolled back or lost before.
Decidable ==
    run = "PENDING" => \E c \in listed : row[c] = "PENDING"

\* Nothing that was under way when a run ended changes it: late rollbacks,
\* repairs, denials, cancellations and results leave the ended run alone.
EndedStays ==
    [][(run \in Ended) => UNCHANGED <<run, call, listed>>]_vars

\* A run is never left RUNNING: crashes, rollbacks, lost leases and provider
\* failures end in a wait for the user or in the end of the run.
Continued ==
    (run = "RUNNING") ~> (run # "RUNNING")

\* "cancel ends runs that are running, wait for an approval or an answer":
\* the request is answered with an ended run.
CancelEnds ==
    [][\A a \in Users : (req[a].kind = "cancel" /\ req'[a].kind = "none" /\ events' = events)
                         => (run' \in Ended)]_vars

\* A call that was staged stays in the run: no write made from an older
\* reading of the payload drops it.
CallsKept ==
    [][\A c \in Calls : (call[c] # "none") => (call'[c] # "none")]_vars
=============================================================================
