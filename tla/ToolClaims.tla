----------------------------- MODULE ToolClaims -----------------------------
(***************************************************************************)
(* The durable claims under which the assistant executes the tool calls of *)
(* one run: the run lease with its fencing token, the invocation ledger,   *)
(* and the continuation workers of several processes that use them.        *)
(*                                                                         *)
(* An expiry instant is kept as the time left until it (0: expired), so    *)
(* `expires_at > now` reads `left > 0`.  A heartbeat renews it; time that  *)
(* runs out under a living worker is a stalled process; MaxMishaps bounds  *)
(* stalls and crashes.  Each operation of the store is one database        *)
(* transaction and one step here; reads that precede a fenced              *)
(* compare-and-swap are part of its step unless what was read is written   *)
(* back (the projection in CommitResult), because losing the race has the  *)
(* effect of reading later: nothing is written and the worker returns.     *)
(***************************************************************************)
EXTENDS Naturals, FiniteSets

CONSTANTS
    Workers,      \* continuation workers, one per process
    Calls,        \* idempotency keys of the approved calls of the round
    FailClosed,   \* the calls whose tool is not replay safe
    NoOne,        \* no owner, no call
    TTL,          \* RUN_LEASE_TTL and TOOL_CLAIM_TTL, in ticks
    MaxMishaps,   \* bound: workers that die at work or miss their heartbeats
    MaxRetries    \* bound: provider failures that are retried

ASSUME ClaimsAssumption ==
    /\ FailClosed \subseteq Calls
    /\ NoOne \notin Workers
    /\ NoOne \notin Calls
    /\ TTL \in Nat \ {0}
    /\ MaxMishaps \in Nat
    /\ MaxRetries \in Nat

VARIABLES
    run,          \* adk_runs.status
    results,      \* the verdicts in the run projection (toolResults)
    lease,        \* adk_run_leases: owner_id, fencing_token, time left
    inv,          \* adk_tool_invocations by idempotency key
    pc,           \* where each worker stands in run_approval_continuation
    held,         \* the fencing token of the RunLeaseGuard of each worker
    todo,         \* the calls a worker still has to walk in this round
    call,         \* the call a worker has claimed
    tok,          \* the fencing token of that claim
    verdict,      \* what the adapter returned to the worker
    snap,         \* the projection a worker read before its commit
    fresh,        \* workers whose updated_at is still the one of the run row
    begun,        \* history: side effects begun for each call
    crashes, late, retries

store == <<run, results, lease, inv>>
local == <<pc, held, todo, call, tok, verdict, snap>>
bounds == <<crashes, late, retries>>
claimVars == <<store, local, fresh, begun, bounds>>

Ended == {"COMPLETED", "FAILED", "CANCELLED"}
Settled == {"SUCCEEDED", "FAILED"}
Verdict == Settled \cup {"none"}
Stage == {"idle", "acquire", "mark", "round", "loop", "claimed", "starting",
          "executing", "returned", "commit", "failing", "model", "leaving"}

RowStatus == {"none", "RUNNING", "UNKNOWN"} \cup Settled
Row == [status : RowStatus, owner : Workers \cup {NoOne}, token : Nat,
        leaseToken : Nat, left : 0..TTL, output : Nat]
NoRow == [status |-> "none", owner |-> NoOne, token |-> 0, leaseToken |-> 0,
          left |-> 0, output |-> 0]

\* A row whose expiry has moved.
WithLeft(row, n) ==
    [status |-> row.status, owner |-> row.owner, token |-> row.token,
     leaseToken |-> row.leaseToken, left |-> n, output |-> row.output]

Init ==
    /\ run = "RUNNING"
    /\ results = [c \in Calls |-> "none"]
    /\ lease = [owner |-> NoOne, token |-> 0, left |-> 0]
    /\ inv = [c \in Calls |-> NoRow]
    /\ pc = [w \in Workers |-> "idle"]
    /\ held = [w \in Workers |-> 0]
    /\ todo = [w \in Workers |-> {}]
    /\ call = [w \in Workers |-> NoOne]
    /\ tok = [w \in Workers |-> 0]
    /\ verdict = [w \in Workers |-> "none"]
    /\ snap = [w \in Workers |-> [c \in Calls |-> "none"]]
    /\ fresh = {}
    /\ begun = [c \in Calls |-> 0]
    /\ crashes = 0 /\ late = 0 /\ retries = 0
-----------------------------------------------------------------------------
(* The store.                                                              *)

\* ensure_current_run_lease, RunLeaseGuard::is_lost.
LeaseValid(w) ==
    /\ lease.owner = w
    /\ lease.token = held[w]
    /\ lease.left > 0

\* The claim a worker holds is still the one on the row.
ClaimCurrent(w) ==
    /\ inv[call[w]].status = "RUNNING"
    /\ inv[call[w]].left > 0
    /\ inv[call[w]].token = tok[w]
    /\ inv[call[w]].owner = w
    /\ inv[call[w]].leaseToken = held[w]

\* Every write of the run row gives it a new updated_at.
Touch == fresh' = {}

GoTo(w, stage) == pc' = [pc EXCEPT ![w] = stage]

\* What a worker knew goes with it.
Forget(w) ==
    /\ GoTo(w, "idle")
    /\ held' = [held EXCEPT ![w] = 0]
    /\ todo' = [todo EXCEPT ![w] = {}]
    /\ call' = [call EXCEPT ![w] = NoOne]
    /\ tok' = [tok EXCEPT ![w] = 0]
    /\ verdict' = [verdict EXCEPT ![w] = "none"]
    /\ snap' = [snap EXCEPT ![w] = [c \in Calls |-> "none"]]
-----------------------------------------------------------------------------
(* Acquiring the run.                                                      *)

\* A scan of the recovery supervisor, a reconnecting client or an approval
\* hands a RUNNING run to a continuation; a process runs one at a time.
Resume(w) ==
    /\ pc[w] = "idle"
    /\ run = "RUNNING"
    /\ GoTo(w, "acquire")
    /\ UNCHANGED <<store, held, todo, call, tok, verdict, snap, fresh, begun, bounds>>

\* Mutant: an expired lease is not taken over.
AcquireOrGiveUp(w) ==
    /\ pc[w] = "acquire"
    /\ run # "CANCELLED"
    /\ lease' = IF lease.owner = NoOne THEN [owner |-> w, token |-> lease.token, left |-> TTL] ELSE lease
    /\ held' = [held EXCEPT ![w] = lease.token]
    /\ GoTo(w, IF lease.owner = NoOne THEN "mark" ELSE "idle")
    /\ UNCHANGED <<run, results, inv, todo, call, tok, verdict, snap, fresh, begun, bounds>>

\* claim_run_lease in acquire_run_lease_with_retry.  A live lease of another
\* owner is waited for, one's own is renewed with its token, and an expired
\* or released one is taken over with the next token.
AcquireLease(w) ==
    /\ pc[w] = "acquire"
    /\ run # "CANCELLED"
    /\ lease.left > 0 => lease.owner = w
    /\ LET token == IF lease.left > 0 THEN lease.token ELSE lease.token + 1 IN
       /\ lease' = [owner |-> w, token |-> token, left |-> TTL]
       /\ held' = [held EXCEPT ![w] = token]
    /\ GoTo(w, "mark")
    /\ UNCHANGED <<run, results, inv, todo, call, tok, verdict, snap, fresh, begun, bounds>>

\* A run cancelled while waiting ends the wait.
AbandonAcquire(w) ==
    /\ pc[w] = "acquire"
    /\ run = "CANCELLED"
    /\ GoTo(w, "idle")
    /\ UNCHANGED <<store, held, todo, call, tok, verdict, snap, fresh, begun, bounds>>

\* mark_provider_attempt_started: a fenced write, skipped on an ended run.
MarkAttempt(w) ==
    /\ pc[w] = "mark"
    /\ GoTo(w, IF run = "RUNNING" /\ ~LeaseValid(w) THEN "leaving" ELSE "round")
    /\ IF run = "RUNNING" /\ LeaseValid(w) THEN Touch ELSE UNCHANGED fresh
    /\ UNCHANGED <<store, held, todo, call, tok, verdict, snap, begun, bounds>>

\* The top of a round: executable_tool_calls are the calls without a result.
StartRound(w) ==
    /\ pc[w] = "round"
    /\ IF LeaseValid(w) /\ run = "RUNNING"
       THEN /\ todo' = [todo EXCEPT ![w] = {c \in Calls : results[c] = "none"}]
            /\ GoTo(w, "loop")
       ELSE /\ GoTo(w, "leaving")
            /\ UNCHANGED todo
    /\ UNCHANGED <<store, held, call, tok, verdict, snap, fresh, begun, bounds>>
-----------------------------------------------------------------------------
(* One tool call.                                                          *)

\* The row a successful claim leaves: a first claim, or a takeover of an
\* expired one under the next token.
ClaimedRow(w, c) ==
    [status |-> "RUNNING", owner |-> w, token |-> inv[c].token + 1,
     leaseToken |-> held[w], left |-> TTL, output |-> 0]

\* The row of a fail-closed call whose executor let its claim expire.
UnknownRow(w, c) ==
    [status |-> "UNKNOWN", owner |-> NoOne, token |-> inv[c].token + 1,
     leaseToken |-> held[w], left |-> 0, output |-> inv[c].output]

\* Mutant: the claim does not look at the run's status.
ClaimOnAnyRun(w) == LeaseValid(w)

\* A claim needs the run, as it was read, and the lease.
ClaimAllowed(w) == run = "RUNNING" /\ LeaseValid(w)

\* Mutant: every expired claim is taken over.
TakenOverAlways(c) == inv[c].status = "RUNNING" /\ inv[c].left = 0

\* An expired claim is taken over only for a call that is safe to replay.
TakenOver(c) == inv[c].status = "RUNNING" /\ inv[c].left = 0 /\ c \notin FailClosed

\* claim_tool_invocation answers Execute.
ClaimTool(w, c) ==
    /\ pc[w] = "loop"
    /\ c \in todo[w]
    /\ ClaimAllowed(w)
    /\ inv[c].status = "none" \/ TakenOver(c)
    /\ inv' = [inv EXCEPT ![c] = ClaimedRow(w, c)]
    /\ call' = [call EXCEPT ![w] = c]
    /\ tok' = [tok EXCEPT ![w] = inv[c].token + 1]
    /\ GoTo(w, "claimed")
    /\ UNCHANGED <<run, results, lease, held, todo, verdict, snap, fresh, begun, bounds>>

\* ... answers Unknown: the outcome of the lost executor cannot be known, and
\* the worker goes on to fail the run.
ClaimUnknown(w, c) ==
    /\ pc[w] = "loop"
    /\ c \in todo[w]
    /\ ClaimAllowed(w)
    /\ \/ /\ inv[c].status = "RUNNING" /\ inv[c].left = 0 /\ c \in FailClosed
          /\ inv' = [inv EXCEPT ![c] = UnknownRow(w, c)]
       \/ inv[c].status = "UNKNOWN" /\ UNCHANGED inv
    /\ GoTo(w, "failing")
    /\ UNCHANGED <<run, results, lease, held, todo, call, tok, verdict, snap, fresh, begun, bounds>>

\* ... fails on the run's status, its revision or the lease.  (A live claim is
\* waited for: ClaimTool and ClaimUnknown are not enabled until it expires.)
ClaimRefused(w) ==
    /\ pc[w] = "loop"
    /\ todo[w] # {}
    /\ run # "RUNNING" \/ ~LeaseValid(w)
    /\ GoTo(w, "leaving")
    /\ UNCHANGED <<store, held, todo, call, tok, verdict, snap, fresh, begun, bounds>>

\* The lease is looked at once more before the adapter is called; it may run
\* out between the look and the call.
CheckLease(w) ==
    /\ pc[w] = "claimed"
    /\ GoTo(w, IF LeaseValid(w) THEN "starting" ELSE "leaving")
    /\ UNCHANGED <<store, held, todo, call, tok, verdict, snap, fresh, begun, bounds>>

\* tool_executor.execute begins: the side effect.  A heartbeat thread that
\* cannot be spawned, which fails the run before this, is left out.
StartTool(w) ==
    /\ pc[w] = "starting"
    /\ begun' = [begun EXCEPT ![call[w]] = @ + 1]
    /\ GoTo(w, "executing")
    /\ UNCHANGED <<store, held, todo, call, tok, verdict, snap, fresh, bounds>>

\* The adapter returns.  A heartbeat thread that noticed the loss of the claim,
\* or the loss of the lease, ends the continuation without a commit.
ToolReturns(w, v) ==
    /\ pc[w] = "executing"
    /\ verdict' = [verdict EXCEPT ![w] = v]
    /\ \/ LeaseValid(w) /\ GoTo(w, "returned")
       \/ (~LeaseValid(w) \/ ~ClaimCurrent(w)) /\ GoTo(w, "leaving")
    /\ UNCHANGED <<store, held, todo, call, tok, snap, fresh, begun, bounds>>

\* persist_tool_result reads the projection it will extend.
ReadProjection(w) ==
    /\ pc[w] = "returned"
    /\ IF run = "RUNNING"
       THEN /\ snap' = [snap EXCEPT ![w] = results]
            /\ fresh' = fresh \cup {w}
            /\ GoTo(w, "commit")
       ELSE /\ GoTo(w, "leaving")
            /\ UNCHANGED <<snap, fresh>>
    /\ UNCHANGED <<store, held, todo, call, tok, verdict, begun, bounds>>

\* Mutants: the commit without its fences, and without its look at the run.
CommitUnfenced(w) == inv[call[w]].status = "RUNNING" /\ run = "RUNNING"
CommitOnAnyRun(w) == ClaimCurrent(w) /\ LeaseValid(w)

\* commit_tool_result: claim, lease and revision are checked in the
\* transaction that writes the ledger row and the projection.
CommitAllowed(w) ==
    /\ ClaimCurrent(w)
    /\ LeaseValid(w)
    /\ run = "RUNNING"
    /\ w \in fresh

CommitResult(w) ==
    /\ pc[w] = "commit"
    /\ CommitAllowed(w)
    /\ inv' = [inv EXCEPT ![call[w]] =
                 [status |-> verdict[w], owner |-> w, token |-> inv[call[w]].token,
                  leaseToken |-> held[w], left |-> inv[call[w]].left, output |-> tok[w]]]
    /\ results' = [snap[w] EXCEPT ![call[w]] = verdict[w]]
    /\ Touch
    /\ todo' = [todo EXCEPT ![w] = @ \ {call[w]}]
    /\ GoTo(w, IF verdict[w] = "SUCCEEDED" THEN "loop" ELSE "failing")
    /\ UNCHANGED <<run, lease, held, call, tok, verdict, snap, begun, bounds>>

CommitRefused(w) ==
    /\ pc[w] = "commit"
    /\ ~CommitAllowed(w)
    /\ GoTo(w, "leaving")
    /\ UNCHANGED <<store, held, todo, call, tok, verdict, snap, fresh, begun, bounds>>
-----------------------------------------------------------------------------
(* The end of the run and of the worker.                                   *)

\* A fenced terminal write: persist_success, persist_failure.
EndRun(w, status) ==
    IF run = "RUNNING" /\ LeaseValid(w)
    THEN run' = status /\ Touch
    ELSE UNCHANGED <<run, fresh>>

\* persist_failure after a failed or an unknown tool.
FailRun(w) ==
    /\ pc[w] = "failing"
    /\ EndRun(w, "FAILED")
    /\ GoTo(w, "leaving")
    /\ UNCHANGED <<results, lease, inv, held, todo, call, tok, verdict, snap, begun, bounds>>

\* No call is left: the model is asked to go on.
AskModel(w) ==
    /\ pc[w] = "loop"
    /\ todo[w] = {}
    /\ GoTo(w, IF run = "RUNNING" THEN "model" ELSE "leaving")
    /\ UNCHANGED <<store, held, todo, call, tok, verdict, snap, fresh, begun, bounds>>

\* The answer completes or fails the run, or the provider is retried later.
\* An answer that asks for further tools ends this round in a run that waits:
\* it is AssistantRun's StageCalls.
ModelReturns(w) ==
    /\ pc[w] = "model"
    /\ \/ \E status \in {"COMPLETED", "FAILED"} : EndRun(w, status) /\ UNCHANGED retries
       \/ /\ retries < MaxRetries
          /\ retries' = retries + 1
          /\ IF run = "RUNNING" /\ LeaseValid(w) THEN Touch ELSE UNCHANGED fresh
          /\ UNCHANGED run
    /\ GoTo(w, "leaving")
    /\ UNCHANGED <<results, lease, inv, held, todo, call, tok, verdict, snap, begun, crashes, late>>

\* Drop of the RunLeaseGuard: release_run_lease invalidates the token.
ReleaseLease(w) ==
    /\ pc[w] = "leaving"
    /\ lease' = IF lease.owner = w /\ lease.token = held[w]
                THEN [owner |-> NoOne, token |-> lease.token + 1, left |-> 0]
                ELSE lease
    /\ Forget(w)
    /\ UNCHANGED <<run, results, inv, fresh, begun, bounds>>
-----------------------------------------------------------------------------
(* The environment.                                                        *)

\* CancelRun of the API: a compare-and-swap that needs no lease.
Cancel ==
    /\ run = "RUNNING"
    /\ run' = "CANCELLED"
    /\ Touch
    /\ UNCHANGED <<results, lease, inv, local, begun, bounds>>

\* The heartbeat thread of the RunLeaseGuard.
HeartbeatRun(w) ==
    /\ pc[w] \notin {"idle", "acquire"}
    /\ LeaseValid(w)
    /\ lease' = [owner |-> w, token |-> lease.token, left |-> TTL]
    /\ UNCHANGED <<run, results, inv, local, fresh, begun, bounds>>

\* Mutant: the renewal is added to what is left.
HeartbeatAdds(w) ==
    /\ pc[w] \in {"starting", "executing"}
    /\ ClaimCurrent(w)
    /\ LeaseValid(w)
    /\ inv' = [inv EXCEPT ![call[w]] = WithLeft(inv[call[w]], inv[call[w]].left + TTL)]
    /\ UNCHANGED <<run, results, lease, local, fresh, begun, bounds>>

\* The heartbeat thread of the tool claim, alive while the adapter executes.
HeartbeatTool(w) ==
    /\ pc[w] \in {"starting", "executing"}
    /\ ClaimCurrent(w)
    /\ LeaseValid(w)
    /\ inv' = [inv EXCEPT ![call[w]] = WithLeft(inv[call[w]], TTL)]
    /\ UNCHANGED <<run, results, lease, local, fresh, begun, bounds>>

\* Time passes.  It is late when a lease or claim of a living worker runs out.
RunsOut(w) ==
    \/ pc[w] \notin {"idle", "acquire"} /\ LeaseValid(w) /\ lease.left = 1
    \/ pc[w] \in {"claimed", "starting", "executing", "returned", "commit"}
         /\ ClaimCurrent(w) /\ inv[call[w]].left = 1

Dec(n) == IF n > 0 THEN n - 1 ELSE 0

Tick ==
    /\ lease.left > 0 \/ \E c \in Calls : inv[c].left > 0 /\ inv[c].status = "RUNNING"
    /\ IF \E w \in Workers : RunsOut(w)
       THEN late + crashes < MaxMishaps /\ late' = late + 1
       ELSE UNCHANGED late
    /\ lease' = [owner |-> lease.owner, token |-> lease.token, left |-> Dec(lease.left)]
    /\ inv' = [c \in Calls |-> WithLeft(inv[c], Dec(inv[c].left))]
    /\ UNCHANGED <<run, results, local, fresh, begun, crashes, retries>>

\* A process dies; the new one knows only what is in the database.
Crash(w) ==
    /\ pc[w] # "idle"
    /\ crashes + late < MaxMishaps
    /\ crashes' = crashes + 1
    /\ Forget(w)
    /\ UNCHANGED <<store, fresh, begun, late, retries>>

\* An ended run with no worker left stays as it is.
AllDone ==
    /\ run \in Ended
    /\ \A w \in Workers : pc[w] = "idle"
    /\ UNCHANGED claimVars

Work(w) ==
    \/ Resume(w) \/ AcquireLease(w) \/ AbandonAcquire(w) \/ MarkAttempt(w) \/ StartRound(w)
    \/ \E c \in Calls : ClaimTool(w, c) \/ ClaimUnknown(w, c)
    \/ ClaimRefused(w) \/ CheckLease(w) \/ StartTool(w)
    \/ \E v \in Settled : ToolReturns(w, v)
    \/ ReadProjection(w) \/ CommitResult(w) \/ CommitRefused(w)
    \/ FailRun(w) \/ AskModel(w) \/ ModelReturns(w) \/ ReleaseLease(w)

Next ==
    \/ \E w \in Workers : Work(w) \/ HeartbeatRun(w) \/ HeartbeatTool(w) \/ Crash(w)
    \/ Cancel \/ Tick \/ AllDone

Spec == Init /\ [][Next]_claimVars

\* A process is scheduled, its heartbeat threads run and time passes; nobody
\* is forced to cancel, and no process to crash.
FairSpec ==
    /\ Spec
    /\ \A w \in Workers : WF_claimVars(Work(w))
    /\ \A w \in Workers : WF_claimVars(HeartbeatRun(w)) /\ WF_claimVars(HeartbeatTool(w))
    /\ WF_claimVars(Tick)
-----------------------------------------------------------------------------
TypeOK ==
    /\ run \in Ended \cup {"RUNNING"}
    /\ results \in [Calls -> Verdict]
    /\ lease \in [owner : Workers \cup {NoOne}, token : Nat, left : 0..TTL]
    /\ inv \in [Calls -> Row]
    /\ pc \in [Workers -> Stage]
    /\ held \in [Workers -> Nat]
    /\ todo \in [Workers -> SUBSET Calls]
    /\ call \in [Workers -> Calls \cup {NoOne}]
    /\ tok \in [Workers -> Nat]
    /\ verdict \in [Workers -> Verdict]
    /\ snap \in [Workers -> [Calls -> Verdict]]
    /\ fresh \in SUBSET Workers
    /\ begun \in [Calls -> Nat]
    /\ crashes \in Nat /\ late \in Nat /\ retries \in Nat

\* A call that is not replay safe has its side effect begun at most once,
\* whatever crashes, stalls and takeovers happen around its claim
\* (claim_tool_invocation with fail_closed never answers Execute twice).
FailClosedOnce ==
    \A c \in FailClosed : begun[c] <= 1

\* The ledger and the run projection tell the same story: a call has a result
\* in the projection exactly when its row holds that verdict, although they
\* live in two tables and the projection is rewritten as a whole.
LedgerMatchesProjection ==
    \A c \in Calls : results[c] = (IF inv[c].status \in Settled THEN inv[c].status ELSE "none")

\* The recorded output is that of the execution under the last claim: a worker
\* whose claim was taken over never has its output recorded.
LastClaimRecorded ==
    \A c \in Calls :
        inv[c].status \in Settled => inv[c].output = inv[c].token /\ begun[c] > 0

Statuses == [c \in Calls |-> inv[c].status]

\* Nothing a late worker does reaches an ended run: neither its status, nor its
\* results, nor the verdicts of the ledger change any more.
EndedRunFrozen ==
    [][(run \in Ended) => UNCHANGED <<run, results, Statuses>>]_claimVars

\* A run is not stranded by the crash or the stall of its executor.
RunEnds == run = "RUNNING" ~> run \in Ended

\* The refinement mapping: the abstract ledger is read off the run's status and
\* its rows; begun is the same history in both.
Over == run \in Ended
Entry == [c \in Calls |-> IF inv[c].status = "RUNNING" THEN "open" ELSE inv[c].status]

Ledger == INSTANCE ToolLedger WITH over <- Over, entry <- Entry

\* Every step of the claims is a step of the abstract ledger or none of it.
ImplementsLedger == Ledger!LedgerSpec
=============================================================================
