------------------------- MODULE ToolClaims_proofs -------------------------
(***************************************************************************)
(* Proofs about ToolClaims: for any workers, calls, TTL and bounds, the    *)
(* fenced claims execute a fail-closed call at most once, keep the ledger  *)
(* and the run projection in step, freeze an ended run, and implement the  *)
(* abstract ledger of ToolLedger.                                          *)
(***************************************************************************)
EXTENDS ToolClaims, TLAPS

Working == {"claimed", "starting", "executing", "returned", "commit"}

\* A worker at a call works on a call that has a row.
WorkHasRow ==
    \A w \in Workers : pc[w] \in Working =>
        /\ call[w] \in Calls
        /\ inv[call[w]].status # "none"

\* Nothing was begun for a call that never had a row.
BegunHasRow == \A c \in Calls : begun[c] > 0 => inv[c].status # "none"

\* The adapter was called before a result exists.
ResultBegun ==
    \A w \in Workers : pc[w] \in {"executing", "returned", "commit"} => begun[call[w]] > 0

ResultSettled ==
    \A w \in Workers : pc[w] \in {"returned", "commit"} => verdict[w] \in Settled

\* Of a fail-closed call one worker at most stands before the adapter, and only
\* while nothing has been begun.
BeforeStart(w, c) == pc[w] \in {"claimed", "starting"} /\ call[w] = c

OneStarter ==
    \A c \in FailClosed : \A w \in Workers : BeforeStart(w, c) =>
        /\ begun[c] = 0
        /\ \A v \in Workers : BeforeStart(v, c) => v = w

\* A projection read under the current revision is the current projection.
FreshSnapshot ==
    \A w \in Workers : w \in fresh /\ pc[w] = "commit" => snap[w] = results

ClaimsInv ==
    /\ TypeOK
    /\ WorkHasRow
    /\ BegunHasRow
    /\ ResultBegun
    /\ ResultSettled
    /\ OneStarter
    /\ FreshSnapshot
    /\ FailClosedOnce
    /\ LedgerMatchesProjection
    /\ LastClaimRecorded
-----------------------------------------------------------------------------
(* Types.                                                                  *)

\* Rows stay rows when their expiry moves.
LEMMA WithLeftType ==
    ASSUME NEW row \in Row, NEW n \in 0..TTL
    PROVE  WithLeft(row, n) \in Row
  BY DEF WithLeft, Row

\* Dec stays within 0..TTL.
LEMMA DecType ==
    ASSUME NEW n \in 0..TTL
    PROVE  Dec(n) \in 0..TTL
  BY ClaimsAssumption DEF Dec

\* The initial state has its types.
LEMMA TypeInit == Init => TypeOK
  <1> SUFFICES ASSUME Init PROVE TypeOK
    OBVIOUS
  <1>1. NoRow \in Row
    BY ClaimsAssumption DEF NoRow, Row, RowStatus
  <1>2. lease \in [owner : Workers \cup {NoOne}, token : Nat, left : 0..TTL]
    BY ClaimsAssumption DEF Init
  <1>3. inv \in [Calls -> Row]
    BY <1>1 DEF Init
  <1>4. QED
    BY <1>2, <1>3 DEF Init, TypeOK, Ended, Verdict, Settled, Stage

\* A worker that vanishes leaves its private variables well typed.
LEMMA ForgetType ==
    ASSUME TypeOK, NEW w \in Workers, Forget(w)
    PROVE  /\ pc' \in [Workers -> Stage] /\ held' \in [Workers -> Nat]
           /\ todo' \in [Workers -> SUBSET Calls]
           /\ call' \in [Workers -> Calls \cup {NoOne}]
           /\ tok' \in [Workers -> Nat]
           /\ verdict' \in [Workers -> Verdict]
           /\ snap' \in [Workers -> [Calls -> Verdict]]
  BY DEF TypeOK, Forget, GoTo, Stage, Verdict

\* Every step of a worker keeps the types.
LEMMA TypeWork ==
    ASSUME TypeOK, NEW w \in Workers, Work(w)
    PROVE  TypeOK'
  <1>1. CASE Resume(w) \/ AbandonAcquire(w) \/ ClaimRefused(w) \/ CommitRefused(w)
    BY <1>1 DEF TypeOK, Resume, AbandonAcquire, ClaimRefused, CommitRefused,
         GoTo, Stage, store, bounds
  <1>13. CASE MarkAttempt(w)
    BY <1>13 DEF TypeOK, MarkAttempt, GoTo, Touch, Stage, store, bounds
  <1>14. CASE CheckLease(w) \/ AskModel(w)
    BY <1>14 DEF TypeOK, CheckLease, AskModel, GoTo, Stage, store, bounds
  <1>2. CASE AcquireLease(w)
    <2>1. lease' \in [owner : Workers \cup {NoOne}, token : Nat, left : 0..TTL]
      BY <1>2, ClaimsAssumption DEF TypeOK, AcquireLease
    <2>2. held' \in [Workers -> Nat]
      BY <1>2 DEF TypeOK, AcquireLease
    <2>3. QED
      BY <1>2, <2>1, <2>2 DEF TypeOK, AcquireLease, GoTo, Stage, bounds
  <1>3. CASE StartRound(w)
    <2> DEFINE open == {c \in Calls : results[c] = "none"}
    <2>0. open \in SUBSET Calls
      OBVIOUS
    <2>3. todo' = [todo EXCEPT ![w] = open] \/ todo' = todo
      BY <1>3 DEF StartRound
    <2>4. todo' \in [Workers -> SUBSET Calls]
      <3> HIDE DEF open
      <3> QED BY <2>0, <2>3 DEF TypeOK
    <2>5. pc' = [pc EXCEPT ![w] = "loop"] \/ pc' = [pc EXCEPT ![w] = "leaving"]
      BY <1>3 DEF StartRound, GoTo
    <2>1. pc' \in [Workers -> Stage] /\ todo' \in [Workers -> SUBSET Calls]
      BY <2>4, <2>5 DEF TypeOK, Stage
    <2>2. QED
      BY <1>3, <2>1 DEF TypeOK, StartRound, store, bounds
  <1>4. ASSUME NEW c \in Calls, ClaimTool(w, c) PROVE TypeOK'
    <2>1. ClaimedRow(w, c) \in Row
      BY ClaimsAssumption DEF TypeOK, ClaimedRow, Row, RowStatus
    <2>2. inv' \in [Calls -> Row]
      BY <1>4, <2>1 DEF TypeOK, ClaimTool
    <2>3. tok' \in [Workers -> Nat]
      BY <1>4 DEF TypeOK, ClaimTool, Row
    <2>4. QED
      BY <1>4, <2>2, <2>3 DEF TypeOK, ClaimTool, GoTo, Stage, bounds
  <1>5. ASSUME NEW c \in Calls, ClaimUnknown(w, c) PROVE TypeOK'
    <2>1. UnknownRow(w, c) \in Row
      BY ClaimsAssumption DEF TypeOK, UnknownRow, Row, RowStatus
    <2>2. inv' \in [Calls -> Row]
      BY <1>5, <2>1 DEF TypeOK, ClaimUnknown
    <2>3. QED
      BY <1>5, <2>2 DEF TypeOK, ClaimUnknown, GoTo, Stage, bounds
  <1>6. CASE StartTool(w)
    <2>1. begun' \in [Calls -> Nat]
      <3>1. begun' = [begun EXCEPT ![call[w]] = begun[call[w]] + 1] /\ begun \in [Calls -> Nat]
        BY <1>6 DEF TypeOK, StartTool
      <3>2. CASE call[w] \in Calls
        BY <3>1, <3>2
      <3>3. CASE call[w] \notin Calls
        BY <3>1, <3>3
      <3>4. QED
        BY <3>2, <3>3
    <2>2. pc' \in [Workers -> Stage]
      BY <1>6 DEF TypeOK, StartTool, GoTo, Stage
    <2>3. QED
      BY <1>6, <2>1, <2>2 DEF TypeOK, StartTool, store, bounds
  <1>7. ASSUME NEW v \in Settled, ToolReturns(w, v) PROVE TypeOK'
    BY <1>7 DEF TypeOK, ToolReturns, GoTo, Stage, store, bounds, Verdict
  <1>8. CASE ReadProjection(w)
    BY <1>8 DEF TypeOK, ReadProjection, GoTo, Stage, store, bounds
  <1>9. CASE CommitResult(w)
    <2>1. /\ inv' \in [Calls -> Row]
          /\ results' \in [Calls -> Verdict]
      <3> DEFINE r == [status |-> verdict[w], owner |-> w, token |-> inv[call[w]].token,
                       leaseToken |-> held[w], left |-> inv[call[w]].left, output |-> tok[w]]
      <3>1. CASE call[w] \in Calls
        <4>1. r \in Row
          BY <3>1 DEF TypeOK, Row, RowStatus, Verdict
        <4>2. inv' = [inv EXCEPT ![call[w]] = r]
          BY <1>9 DEF CommitResult
        <4>3. inv' \in [Calls -> Row]
          BY <4>1, <4>2 DEF TypeOK
        <4>4. results' \in [Calls -> Verdict]
          BY <1>9 DEF TypeOK, CommitResult
        <4>5. QED
          BY <4>3, <4>4
      <3>2. CASE call[w] \notin Calls
        BY <1>9, <3>2 DEF TypeOK, CommitResult
      <3>3. QED
        BY <3>1, <3>2
    <2>2. QED
      BY <1>9, <2>1 DEF TypeOK, CommitResult, GoTo, Stage, Touch, bounds
  <1>10. CASE FailRun(w) \/ ModelReturns(w)
    <2>1. run' \in Ended \cup {"RUNNING"} /\ fresh' \in SUBSET Workers
      <3>1. CASE FailRun(w)
        BY <3>1 DEF TypeOK, FailRun, EndRun, Ended, Touch
      <3>2. CASE ModelReturns(w)
        BY <3>2 DEF TypeOK, ModelReturns, EndRun, Ended, Touch
      <3> QED
        BY <1>10, <3>1, <3>2
    <2>2. crashes' \in Nat /\ late' \in Nat /\ retries' \in Nat
      BY <1>10 DEF TypeOK, FailRun, ModelReturns, bounds
    <2>3. pc' = [pc EXCEPT ![w] = "leaving"]
      BY <1>10 DEF FailRun, ModelReturns, GoTo
    <2>4. pc' \in [Workers -> Stage]
      BY <2>3 DEF TypeOK, Stage
    <2>5. UNCHANGED <<results, lease, inv, held, todo, call, tok, verdict, snap, begun>>
      BY <1>10 DEF FailRun, ModelReturns
    <2> QED
      BY <2>1, <2>2, <2>4, <2>5 DEF TypeOK
  <1>11. CASE ReleaseLease(w)
    <2>1. lease' \in [owner : Workers \cup {NoOne}, token : Nat, left : 0..TTL]
      BY <1>11, ClaimsAssumption DEF TypeOK, ReleaseLease
    <2>2. QED
      BY <1>11, <2>1, ForgetType DEF TypeOK, ReleaseLease, bounds
  <1>12. QED
    BY <1>1, <1>2, <1>3, <1>4, <1>5, <1>6, <1>7, <1>8, <1>9, <1>10, <1>11, <1>13, <1>14 DEF Work

\* So does every step of the environment.
LEMMA TypeEnvironment ==
    ASSUME TypeOK
    PROVE  /\ \A w \in Workers : HeartbeatRun(w) \/ HeartbeatTool(w) \/ Crash(w) => TypeOK'
           /\ Cancel \/ Tick \/ UNCHANGED claimVars => TypeOK'
  <1>1. ASSUME NEW w \in Workers, HeartbeatRun(w) PROVE TypeOK'
    <2>1. lease' \in [owner : Workers \cup {NoOne}, token : Nat, left : 0..TTL]
      BY <1>1, ClaimsAssumption DEF TypeOK, HeartbeatRun
    <2>2. QED
      BY <1>1, <2>1 DEF TypeOK, HeartbeatRun, local, bounds
  <1>2. ASSUME NEW w \in Workers, HeartbeatTool(w) PROVE TypeOK'
    <2>1. TTL \in 0..TTL
      BY ClaimsAssumption
    <2>2. inv' \in [Calls -> Row]
      BY <1>2, <2>1, WithLeftType DEF TypeOK, HeartbeatTool
    <2>3. QED
      BY <1>2, <2>2 DEF TypeOK, HeartbeatTool, local, bounds
  <1>3. ASSUME NEW w \in Workers, Crash(w) PROVE TypeOK'
    BY <1>3, ForgetType DEF TypeOK, Crash, store
  <1>4. ASSUME Cancel PROVE TypeOK'
    BY <1>4 DEF TypeOK, Cancel, Ended, Touch, local, bounds
  <1>5. ASSUME Tick PROVE TypeOK'
    <2>1. \A c \in Calls : inv[c] \in Row /\ inv[c].left \in 0..TTL
      BY DEF TypeOK, Row
    <2>2. inv' \in [Calls -> Row]
      BY <1>5, <2>1, WithLeftType, DecType DEF Tick
    <2>3. lease' \in [owner : Workers \cup {NoOne}, token : Nat, left : 0..TTL]
      BY <1>5, DecType DEF TypeOK, Tick
    <2>4. QED
      BY <1>5, <2>2, <2>3 DEF TypeOK, Tick, local
  <1>6. ASSUME UNCHANGED claimVars PROVE TypeOK'
    BY <1>6 DEF TypeOK, claimVars, store, local, bounds
  <1>7. QED
    BY <1>1, <1>2, <1>3, <1>4, <1>5, <1>6

\* Types, for every step.
LEMMA TypeNext == TypeOK /\ [Next]_claimVars => TypeOK'
  BY TypeWork, TypeEnvironment DEF Next, AllDone

\* The variables keep their types: tokens are naturals, expiries lie within the
\* TTL, rows and leases are what the tables hold.
THEOREM TypesHold == Spec => []TypeOK
  BY TypeInit, TypeNext, PTL DEF Spec
-----------------------------------------------------------------------------
(* The inductive invariant.  Most steps move one worker to a stage at which *)
(* it has no call, and change no verdict; two lemmas cover them.            *)

\* What the invariant needs of a row: a step that keeps it.
RowsKept ==
    \A c \in Calls : /\ inv'[c].status = inv[c].status
                     /\ inv'[c].token = inv[c].token
                     /\ inv'[c].output = inv[c].output

\* The part of the invariant that is about rows and histories.
RowsInv == BegunHasRow /\ FailClosedOnce /\ LedgerMatchesProjection /\ LastClaimRecorded

\* The part about workers.
WorkersInv == WorkHasRow /\ ResultBegun /\ ResultSettled /\ OneStarter /\ FreshSnapshot

\* Rows and histories do not change: their part stays.
LEMMA RowsStay ==
    ASSUME RowsInv, RowsKept, results' = results, begun' = begun
    PROVE  RowsInv'
  BY DEF RowsInv, RowsKept, BegunHasRow, FailClosedOnce, LedgerMatchesProjection, LastClaimRecorded

\* One worker leaves for a stage without a call.
LEMMA WorkerLeaves ==
    ASSUME WorkersInv, TypeOK, RowsKept, results' = results, begun' = begun,
           NEW w \in Workers, NEW s \in Stage, s \notin Working,
           pc' = [pc EXCEPT ![w] = s],
           \A v \in Workers : v # w => /\ call'[v] = call[v]
                                       /\ snap'[v] = snap[v]
                                       /\ verdict'[v] = verdict[v],
           fresh' \subseteq fresh
    PROVE  WorkersInv'
  <1>1. \A v \in Workers : pc'[v] \in Working => v # w /\ pc[v] = pc'[v]
    BY DEF TypeOK
  <1>2. WorkHasRow'
    BY <1>1 DEF WorkersInv, WorkHasRow, RowsKept
  <1>3. ResultBegun' /\ ResultSettled'
    BY <1>1 DEF WorkersInv, ResultBegun, ResultSettled, Working
  <1>4. OneStarter'
    <2>1. \A v \in Workers, c \in FailClosed : BeforeStart(v, c)' => BeforeStart(v, c)
      BY <1>1 DEF BeforeStart, Working
    <2>2. QED
      BY <2>1 DEF WorkersInv, OneStarter
  <1>5. FreshSnapshot'
    BY <1>1 DEF WorkersInv, FreshSnapshot, Working
  <1>6. QED
    BY <1>2, <1>3, <1>4, <1>5 DEF WorkersInv

\* Nobody moves.
LEMMA NobodyMoves ==
    ASSUME WorkersInv, RowsKept, results' = results, begun' = begun,
           UNCHANGED local, fresh' \subseteq fresh
    PROVE  WorkersInv'
  BY DEF WorkersInv, RowsKept, local, WorkHasRow, ResultBegun, ResultSettled, OneStarter,
       BeforeStart, FreshSnapshot, Working

\* A step that only takes worker w to a stage without a call.
Leaves(w) ==
    /\ \E s \in Stage \ Working : pc' = [pc EXCEPT ![w] = s]
    /\ \A v \in Workers : v # w => /\ call'[v] = call[v]
                                   /\ snap'[v] = snap[v]
                                   /\ verdict'[v] = verdict[v]
    /\ fresh' \subseteq fresh
    /\ inv' = inv /\ results' = results /\ begun' = begun

\* Such a step keeps the invariant.
LEMMA LeavesKeeps ==
    ASSUME TypeOK, RowsInv, WorkersInv, NEW w \in Workers, Leaves(w)
    PROVE  RowsInv' /\ WorkersInv'
  <1>1. RowsKept
    BY DEF Leaves, RowsKept
  <1>2. RowsInv'
    BY <1>1, RowsStay DEF Leaves
  <1>3. PICK s \in Stage \ Working : pc' = [pc EXCEPT ![w] = s]
    BY DEF Leaves
  <1>4. WorkersInv'
    BY <1>1, <1>3, WorkerLeaves DEF Leaves
  <1>5. QED
    BY <1>2, <1>4

\* A worker that forgets everything leaves.
LEMMA ForgetLeaves ==
    ASSUME TypeOK, NEW w \in Workers, Forget(w), inv' = inv, results' = results,
           begun' = begun, fresh' = fresh
    PROVE  Leaves(w)
  <1>1. "idle" \in Stage \ Working
    BY DEF Stage, Working
  <1>2. \A v \in Workers : v # w => call'[v] = call[v] /\ snap'[v] = snap[v] /\ verdict'[v] = verdict[v]
    BY DEF Forget, TypeOK
  <1>3. pc' = [pc EXCEPT ![w] = "idle"]
    BY DEF Forget, GoTo
  <1>4. QED
    BY <1>1, <1>2, <1>3 DEF Leaves

\* The steps before, between and after the calls.
LEMMA QuietSteps ==
    ASSUME TypeOK, NEW w \in Workers,
           \/ Resume(w) \/ AcquireLease(w) \/ AbandonAcquire(w) \/ MarkAttempt(w)
           \/ StartRound(w) \/ ClaimRefused(w) \/ CommitRefused(w) \/ FailRun(w)
           \/ AskModel(w) \/ ModelReturns(w) \/ ReleaseLease(w) \/ Crash(w)
    PROVE  Leaves(w)
  <1>0. {"idle", "acquire", "mark", "round", "loop", "leaving", "model", "failing"}
          \subseteq Stage \ Working
    BY DEF Stage, Working
  <1>1. CASE Resume(w) \/ AcquireLease(w) \/ AbandonAcquire(w)
    BY <1>0, <1>1 DEF Leaves, Resume, AcquireLease, AbandonAcquire, GoTo, store
  <1>2. CASE MarkAttempt(w)
    <2>1. pc' = [pc EXCEPT ![w] = "leaving"] \/ pc' = [pc EXCEPT ![w] = "round"]
      BY <1>2 DEF MarkAttempt, GoTo
    <2>2. fresh' \subseteq fresh
      BY <1>2 DEF MarkAttempt, Touch
    <2>3. QED
      BY <1>0, <1>2, <2>1, <2>2 DEF Leaves, MarkAttempt, store
  <1>3. CASE StartRound(w)
    <2>1. pc' = [pc EXCEPT ![w] = "leaving"] \/ pc' = [pc EXCEPT ![w] = "loop"]
      BY <1>3 DEF StartRound, GoTo
    <2>2. QED
      BY <1>0, <1>3, <2>1 DEF Leaves, StartRound, store
  <1>4. CASE ClaimRefused(w) \/ CommitRefused(w)
    BY <1>0, <1>4 DEF Leaves, ClaimRefused, CommitRefused, GoTo, store
  <1>5. CASE AskModel(w)
    <2>1. pc' = [pc EXCEPT ![w] = "leaving"] \/ pc' = [pc EXCEPT ![w] = "model"]
      BY <1>5 DEF AskModel, GoTo
    <2>2. QED
      BY <1>0, <1>5, <2>1 DEF Leaves, AskModel, store
  <1>6. CASE FailRun(w) \/ ModelReturns(w)
    <2>1. fresh' \subseteq fresh
      BY <1>6 DEF FailRun, ModelReturns, EndRun, Touch
    <2>2. pc' = [pc EXCEPT ![w] = "leaving"]
      BY <1>6 DEF FailRun, ModelReturns, GoTo
    <2>3. UNCHANGED <<inv, results, begun, call, snap, verdict>>
      BY <1>6 DEF FailRun, ModelReturns
    <2>4. QED
      BY <1>0, <2>1, <2>2, <2>3 DEF Leaves
  <1>7. CASE ReleaseLease(w) \/ Crash(w)
    BY <1>7, ForgetLeaves DEF ReleaseLease, Crash, store
  <1>8. QED
    BY <1>1, <1>2, <1>3, <1>4, <1>5, <1>6, <1>7

\* The steps of the environment and of the heartbeats keep the invariant.
LEMMA EnvironmentSteps ==
    ASSUME TypeOK, RowsInv, WorkersInv,
           \/ \E w \in Workers : HeartbeatRun(w) \/ HeartbeatTool(w)
           \/ Cancel \/ Tick \/ UNCHANGED claimVars
    PROVE  RowsInv' /\ WorkersInv'
  <1>1. /\ results' = results /\ begun' = begun
        /\ UNCHANGED local /\ fresh' \subseteq fresh
    BY DEF HeartbeatRun, HeartbeatTool, Cancel, Tick, Touch, claimVars, store
  <1>2. RowsKept
    <2>1. CASE (\E w \in Workers : HeartbeatRun(w)) \/ Cancel \/ UNCHANGED claimVars
      BY <2>1 DEF RowsKept, HeartbeatRun, Cancel, claimVars, store
    <2>2. ASSUME NEW w \in Workers, HeartbeatTool(w) PROVE RowsKept
      BY <2>2 DEF RowsKept, HeartbeatTool, WithLeft, TypeOK
    <2>3. CASE Tick
      BY <2>3 DEF RowsKept, Tick, WithLeft, TypeOK
    <2>4. QED
      BY <2>1, <2>2, <2>3
  <1>3. QED
    BY <1>1, <1>2, RowsStay, NobodyMoves

\* A first claim or a takeover: a fail-closed call is claimed only as long as
\* nobody stands before its adapter and nothing was begun for it.
LEMMA ClaimKeeps ==
    ASSUME TypeOK, TypeOK', RowsInv, WorkersInv,
           NEW w \in Workers, NEW c \in Calls, ClaimTool(w, c)
    PROVE  RowsInv' /\ WorkersInv'
  <1>1. /\ inv'[c].status = "RUNNING"
        /\ inv[c].status \in {"none", "RUNNING"}
        /\ c \in FailClosed => inv[c].status = "none"
        /\ \A d \in Calls : d # c => inv'[d] = inv[d]
    BY DEF ClaimTool, TakenOver, ClaimedRow, TypeOK
  <1>2. /\ results' = results /\ begun' = begun /\ fresh' = fresh
        /\ snap' = snap /\ verdict' = verdict
        /\ pc'[w] = "claimed" /\ call'[w] = c
        /\ \A v \in Workers : v # w => pc'[v] = pc[v] /\ call'[v] = call[v]
    BY DEF ClaimTool, GoTo, TypeOK
  <1>3. RowsInv'
    BY <1>1, <1>2 DEF RowsInv, BegunHasRow, FailClosedOnce, LedgerMatchesProjection,
         LastClaimRecorded, Settled
  <1>4. WorkHasRow'
    <2>1. inv'[c].status # "none"
      BY <1>1
    <2>2. QED
      BY <1>1, <1>2, <2>1 DEF WorkersInv, WorkHasRow, Working
  <1>5. ResultBegun' /\ ResultSettled'
    BY <1>2 DEF WorkersInv, ResultBegun, ResultSettled
  <1>6. FreshSnapshot'
    BY <1>2 DEF WorkersInv, FreshSnapshot
  <1>7. OneStarter'
    <2>1. \A d \in FailClosed, v \in Workers : v # w /\ BeforeStart(v, d)' => BeforeStart(v, d)
      BY <1>2 DEF BeforeStart
    <2>2. c \in FailClosed => begun[c] = 0 /\ \A v \in Workers : ~BeforeStart(v, c)
      BY <1>1, <1>2 DEF RowsInv, BegunHasRow, WorkersInv, WorkHasRow, BeforeStart, Working, TypeOK
    <2>3. \A d \in FailClosed : BeforeStart(w, d)' => d = c
      BY <1>2 DEF BeforeStart
    <2>4. QED
      BY <1>2, <2>1, <2>2, <2>3 DEF WorkersInv, OneStarter
  <1>8. QED
    BY <1>3, <1>4, <1>5, <1>6, <1>7 DEF WorkersInv

\* An unknown outcome: the row gets no verdict, the worker leaves.
LEMMA UnknownKeeps ==
    ASSUME TypeOK, RowsInv, WorkersInv,
           NEW w \in Workers, NEW c \in Calls, ClaimUnknown(w, c)
    PROVE  RowsInv' /\ WorkersInv'
  <1>1. CASE inv' = inv
    <2>1. "failing" \in Stage \ Working
      BY DEF Stage, Working
    <2>2. Leaves(w)
      BY <1>1, <2>1 DEF Leaves, ClaimUnknown, GoTo
    <2>3. QED
      BY <2>2, LeavesKeeps
  <1>2. CASE inv' = [inv EXCEPT ![c] = UnknownRow(w, c)]
    <2>1. /\ inv'[c].status = "UNKNOWN"
          /\ \A d \in Calls : d # c => inv'[d] = inv[d]
      BY <1>2 DEF UnknownRow, TypeOK
    <2>2. /\ results' = results /\ begun' = begun /\ fresh' = fresh
          /\ snap' = snap /\ verdict' = verdict /\ call' = call
          /\ pc'[w] = "failing"
          /\ \A v \in Workers : v # w => pc'[v] = pc[v]
      BY DEF ClaimUnknown, GoTo, TypeOK
    <2>3. inv[c].status \in {"RUNNING", "UNKNOWN"}
      BY DEF ClaimUnknown
    <2>4. RowsInv'
      BY <2>1, <2>2, <2>3 DEF RowsInv, BegunHasRow, FailClosedOnce, LedgerMatchesProjection,
           LastClaimRecorded, Settled
    <2>5. WorkersInv'
      BY <2>1, <2>2 DEF WorkersInv, WorkHasRow, ResultBegun, ResultSettled, OneStarter,
           BeforeStart, FreshSnapshot, Working
    <2>6. QED
      BY <2>4, <2>5
  <1>3. QED
    BY <1>1, <1>2 DEF ClaimUnknown

\* The steps around the adapter other than its call.
LEMMA AdapterKeeps ==
    ASSUME TypeOK, RowsInv, WorkersInv, NEW w \in Workers,
           CheckLease(w) \/ (\E v \in Settled : ToolReturns(w, v)) \/ ReadProjection(w)
    PROVE  RowsInv' /\ WorkersInv'
  <1>0. /\ inv' = inv /\ results' = results /\ begun' = begun /\ call' = call
        /\ \A v \in Workers : v # w => pc'[v] = pc[v] /\ verdict'[v] = verdict[v] /\ snap'[v] = snap[v]
    BY DEF CheckLease, ToolReturns, ReadProjection, GoTo, TypeOK, store
  <1>1. RowsInv'
    BY <1>0, RowsStay DEF RowsKept
  <1>2. /\ pc[w] \in Working
        /\ pc'[w] \in {"starting", "returned", "commit", "leaving"}
        /\ pc'[w] = "starting" => pc[w] = "claimed"
        /\ pc'[w] \in {"returned", "commit"} => pc[w] \in {"executing", "returned"}
        /\ pc'[w] \in {"returned", "commit"} => verdict'[w] \in Settled
        /\ pc'[w] = "commit" => snap'[w] = results
        /\ \A v \in Workers : v # w /\ v \in fresh' => v \in fresh
    <2>1. CASE CheckLease(w)
      BY <2>1 DEF CheckLease, GoTo, TypeOK, Working
    <2>2. CASE \E v \in Settled : ToolReturns(w, v)
      BY <2>2 DEF ToolReturns, GoTo, TypeOK, Working
    <2>3. CASE ReadProjection(w)
      BY <2>3 DEF ReadProjection, GoTo, TypeOK, Working, WorkersInv, ResultSettled
    <2>4. QED
      BY <2>1, <2>2, <2>3
  <1>3. WorkHasRow'
    BY <1>0, <1>2 DEF WorkersInv, WorkHasRow, Working
  <1>4. ResultBegun'
    BY <1>0, <1>2 DEF WorkersInv, ResultBegun
  <1>5. ResultSettled'
    BY <1>0, <1>2 DEF WorkersInv, ResultSettled
  <1>6. OneStarter'
    <2>1. \A v \in Workers, d \in FailClosed : BeforeStart(v, d)' => BeforeStart(v, d)
      BY <1>0, <1>2 DEF BeforeStart
    <2>2. QED
      BY <1>0, <2>1 DEF WorkersInv, OneStarter
  <1>7. FreshSnapshot'
    BY <1>0, <1>2 DEF WorkersInv, FreshSnapshot
  <1>8. QED
    BY <1>1, <1>3, <1>4, <1>5, <1>6, <1>7 DEF WorkersInv

\* The side effect begins.
LEMMA StartKeeps ==
    ASSUME TypeOK, RowsInv, WorkersInv, NEW w \in Workers, StartTool(w)
    PROVE  RowsInv' /\ WorkersInv'
  <1>0. /\ inv' = inv /\ results' = results /\ call' = call /\ fresh' = fresh
        /\ verdict' = verdict /\ snap' = snap
        /\ pc[w] = "starting" /\ pc'[w] = "executing"
        /\ \A v \in Workers : v # w => pc'[v] = pc[v]
    BY DEF StartTool, GoTo, TypeOK, store
  <1>1. call[w] \in Calls /\ inv[call[w]].status # "none"
    BY <1>0 DEF WorkersInv, WorkHasRow, Working
  <1>2. /\ begun'[call[w]] = begun[call[w]] + 1
        /\ \A d \in Calls : d # call[w] => begun'[d] = begun[d]
    BY <1>1 DEF StartTool, TypeOK
  <1>3. call[w] \in FailClosed =>
          begun[call[w]] = 0 /\ \A v \in Workers : BeforeStart(v, call[w]) => v = w
    BY <1>0 DEF WorkersInv, OneStarter, BeforeStart
  <1>4. FailClosedOnce'
    BY <1>2, <1>3, ClaimsAssumption DEF RowsInv, FailClosedOnce
  <1>5. \A d \in Calls : begun[d] \in Nat /\ (begun[d] > 0 => begun'[d] > 0)
    BY <1>2 DEF TypeOK
  <1>5a. begun'[call[w]] > 0
    BY <1>1, <1>2 DEF TypeOK
  <1>6. BegunHasRow' /\ LedgerMatchesProjection' /\ LastClaimRecorded'
    BY <1>0, <1>1, <1>2, <1>5 DEF RowsInv, BegunHasRow, LedgerMatchesProjection, LastClaimRecorded
  <1>7. WorkHasRow' /\ ResultSettled' /\ FreshSnapshot'
    BY <1>0 DEF WorkersInv, WorkHasRow, ResultSettled, FreshSnapshot, Working
  <1>8. ResultBegun'
    <2>1. \A v \in Workers : pc[v] \in Working => call[v] \in Calls
      BY DEF WorkersInv, WorkHasRow
    <2>2. QED
      BY <1>0, <1>5, <1>5a, <2>1 DEF WorkersInv, ResultBegun, Working
  <1>9. OneStarter'
    <2>1. \A v \in Workers, d \in FailClosed : BeforeStart(v, d)' => v # w /\ BeforeStart(v, d)
      BY <1>0 DEF BeforeStart
    <2>2. \A v \in Workers, d \in FailClosed : BeforeStart(v, d)' => d # call[w]
      BY <1>3, <2>1
    <2>3. QED
      BY <1>2, <2>1, <2>2, ClaimsAssumption DEF WorkersInv, OneStarter
  <1>10. QED
    BY <1>4, <1>6, <1>7, <1>8, <1>9 DEF RowsInv, WorkersInv

\* The result is recorded.
LEMMA CommitKeeps ==
    ASSUME TypeOK, RowsInv, WorkersInv, NEW w \in Workers, CommitResult(w)
    PROVE  RowsInv' /\ WorkersInv'
  <1>0. /\ begun' = begun /\ call' = call /\ verdict' = verdict /\ snap' = snap
        /\ fresh' = {}
        /\ pc[w] = "commit" /\ pc'[w] \in {"loop", "failing"}
        /\ \A v \in Workers : v # w => pc'[v] = pc[v]
    BY DEF CommitResult, GoTo, Touch, TypeOK
  <1>1. /\ call[w] \in Calls /\ begun[call[w]] > 0 /\ verdict[w] \in Settled
        /\ snap[w] = results
    BY <1>0 DEF CommitResult, CommitAllowed, WorkersInv, WorkHasRow, ResultBegun, ResultSettled,
         FreshSnapshot, Working
  <1>2. /\ inv'[call[w]].status = verdict[w]
        /\ inv'[call[w]].output = inv'[call[w]].token
        /\ \A d \in Calls : d # call[w] => inv'[d] = inv[d]
    BY <1>1 DEF CommitResult, CommitAllowed, ClaimCurrent, TypeOK
  <1>3. /\ results'[call[w]] = verdict[w]
        /\ \A d \in Calls : d # call[w] => results'[d] = results[d]
    BY <1>1 DEF CommitResult, TypeOK
  <1>4. RowsInv'
    BY <1>0, <1>1, <1>2, <1>3 DEF RowsInv, BegunHasRow, FailClosedOnce, LedgerMatchesProjection,
         LastClaimRecorded, Settled
  <1>5. WorkHasRow'
    BY <1>0, <1>1, <1>2 DEF WorkersInv, WorkHasRow, Working, Settled
  <1>6. ResultBegun' /\ ResultSettled' /\ FreshSnapshot'
    BY <1>0 DEF WorkersInv, ResultBegun, ResultSettled, FreshSnapshot
  <1>7. OneStarter'
    BY <1>0 DEF WorkersInv, OneStarter, BeforeStart
  <1>8. QED
    BY <1>4, <1>5, <1>6, <1>7 DEF WorkersInv
-----------------------------------------------------------------------------
(* The theorems.                                                           *)

\* The invariant holds initially.
LEMMA InvInit == Init => ClaimsInv
  <1> SUFFICES ASSUME Init PROVE ClaimsInv
    OBVIOUS
  <1>1. \A c \in Calls : inv[c].status = "none" /\ begun[c] = 0 /\ results[c] = "none"
    BY DEF Init, NoRow
  <1>2. \A w \in Workers : pc[w] = "idle"
    BY DEF Init
  <1>3. BegunHasRow /\ LedgerMatchesProjection /\ LastClaimRecorded
    BY <1>1 DEF BegunHasRow, LedgerMatchesProjection, LastClaimRecorded, Settled
  <1>4. FailClosedOnce
    BY <1>1, ClaimsAssumption DEF FailClosedOnce
  <1>5. WorkHasRow /\ ResultBegun /\ ResultSettled /\ OneStarter /\ FreshSnapshot
    BY <1>2 DEF WorkHasRow, ResultBegun, ResultSettled, OneStarter, BeforeStart, FreshSnapshot, Working
  <1>6. QED
    BY <1>3, <1>4, <1>5, TypeInit DEF ClaimsInv

\* Every step keeps it.
LEMMA InvNext == ClaimsInv /\ [Next]_claimVars => ClaimsInv'
  <1> SUFFICES ASSUME ClaimsInv, [Next]_claimVars PROVE ClaimsInv'
    OBVIOUS
  <1>1. TypeOK /\ RowsInv /\ WorkersInv
    BY DEF ClaimsInv, RowsInv, WorkersInv
  <1>2. TypeOK'
    BY <1>1, TypeNext
  <1>3. RowsInv' /\ WorkersInv'
    <2>1. ASSUME NEW w \in Workers, Work(w) PROVE RowsInv' /\ WorkersInv'
      <3>1. CASE \/ Resume(w) \/ AcquireLease(w) \/ AbandonAcquire(w) \/ MarkAttempt(w)
                 \/ StartRound(w) \/ ClaimRefused(w) \/ CommitRefused(w) \/ FailRun(w)
                 \/ AskModel(w) \/ ModelReturns(w) \/ ReleaseLease(w)
        BY <1>1, <3>1, QuietSteps, LeavesKeeps
      <3>2. CASE \E c \in Calls : ClaimTool(w, c)
        BY <1>1, <1>2, <3>2, ClaimKeeps
      <3>3. CASE \E c \in Calls : ClaimUnknown(w, c)
        BY <1>1, <3>3, UnknownKeeps
      <3>4. CASE CheckLease(w) \/ (\E v \in Settled : ToolReturns(w, v)) \/ ReadProjection(w)
        BY <1>1, <3>4, AdapterKeeps
      <3>5. CASE StartTool(w)
        BY <1>1, <3>5, StartKeeps
      <3>6. CASE CommitResult(w)
        BY <1>1, <3>6, CommitKeeps
      <3>7. QED
        BY <2>1, <3>1, <3>2, <3>3, <3>4, <3>5, <3>6 DEF Work
    <2>2. ASSUME NEW w \in Workers, Crash(w) PROVE RowsInv' /\ WorkersInv'
      BY <1>1, <2>2, QuietSteps, LeavesKeeps
    <2>3. QED
      BY <1>1, <2>1, <2>2, EnvironmentSteps DEF Next, AllDone
  <1>4. QED
    BY <1>2, <1>3 DEF ClaimsInv, RowsInv, WorkersInv

\* The inductive invariant is an invariant.
THEOREM ClaimsInvariant == Spec => []ClaimsInv
  BY InvInit, InvNext, PTL DEF Spec

\* A fail-closed call is begun at most once, whatever the number of workers,
\* crashes, stalls and takeovers (claim_tool_invocation with fail_closed).
THEOREM FailClosedOnceHolds == Spec => []FailClosedOnce
  BY ClaimsInvariant, PTL DEF ClaimsInv

\* The ledger and the projection agree in every reachable state.
THEOREM LedgerMatches == Spec => []LedgerMatchesProjection
  BY ClaimsInvariant, PTL DEF ClaimsInv

\* A recorded output is that of the last claim, and was really executed.
THEOREM LastClaim == Spec => []LastClaimRecorded
  BY ClaimsInvariant, PTL DEF ClaimsInv

\* Only a running run changes: its status, its results and its verdicts.
LEMMA FrozenStep ==
    ASSUME TypeOK, [Next]_claimVars, run \in Ended
    PROVE  UNCHANGED <<run, results, Statuses>>
  <1>0. run # "RUNNING"
    BY DEF Ended
  <1>1. run' = run /\ results' = results
    BY <1>0 DEF Next, Work, Resume, AcquireLease, AbandonAcquire, MarkAttempt, StartRound,
         ClaimTool, ClaimUnknown, ClaimRefused, CheckLease, StartTool, ToolReturns,
         ReadProjection, CommitResult, CommitAllowed, CommitRefused, FailRun, AskModel,
         ModelReturns, ReleaseLease, EndRun, Cancel, HeartbeatRun, HeartbeatTool, Tick,
         Crash, AllDone, claimVars, store
  <1>2. ASSUME NEW c \in Calls PROVE inv'[c].status = inv[c].status
    <2>1. CASE inv' = inv
      BY <2>1
    <2>2. ASSUME NEW w \in Workers, HeartbeatTool(w) PROVE inv'[c].status = inv[c].status
      BY <2>2 DEF HeartbeatTool, WithLeft, TypeOK
    <2>3. CASE Tick
      BY <2>3 DEF Tick, WithLeft
    <2>4. QED
      BY <1>0, <2>1, <2>2, <2>3 DEF Next, Work, Resume, AcquireLease, AbandonAcquire,
         MarkAttempt, StartRound, ClaimTool, ClaimUnknown, ClaimAllowed, ClaimRefused,
         CheckLease, StartTool, ToolReturns, ReadProjection, CommitResult, CommitAllowed,
         CommitRefused, FailRun, AskModel, ModelReturns, ReleaseLease, Cancel,
         HeartbeatRun, Crash, AllDone, claimVars, store
  <1>3. Statuses' = Statuses
    BY <1>2 DEF Statuses
  <1>4. QED
    BY <1>1, <1>3

\* No late worker changes an ended run, its results or its ledger.
THEOREM EndedStaysFrozen == Spec => EndedRunFrozen
  <1>1. TypeOK /\ [Next]_claimVars => [(run \in Ended) => UNCHANGED <<run, results, Statuses>>]_claimVars
    BY FrozenStep
  <1>2. QED
    BY <1>1, TypesHold, PTL DEF Spec, EndedRunFrozen
-----------------------------------------------------------------------------
(* The claims implement the ledger.                                        *)

\* What the mapping of one row is.
LEMMA EntryOf ==
    ASSUME NEW c \in Calls
    PROVE  Entry[c] = IF inv[c].status = "RUNNING" THEN "open" ELSE inv[c].status
  BY DEF Entry

\* A step that keeps the statuses keeps the mapped ledger.
LEMMA EntryKept ==
    ASSUME \A c \in Calls : inv'[c].status = inv[c].status
    PROVE  Entry' = Entry
  BY DEF Entry

\* A step that changes one row changes one entry.
LEMMA EntryChanged ==
    ASSUME NEW c \in Calls, \A d \in Calls : d # c => inv'[d] = inv[d], NEW e,
           (IF inv'[c].status = "RUNNING" THEN "open" ELSE inv'[c].status) = e
    PROVE  Entry' = [Entry EXCEPT ![c] = e]
  BY DEF Entry

\* Initial states map to initial states.
LEMMA LedgerStarts == Init => Ledger!LedgerInit
  BY DEF Init, Ledger!LedgerInit, Over, Entry, NoRow, Ended

\* Steps that end the run, or do nothing the ledger knows of.
LEMMA RunSteps ==
    ASSUME TypeOK, Entry' = Entry, begun' = begun, run' = run \/ (run = "RUNNING" /\ run' \in Ended)
    PROVE  [Ledger!LedgerNext]_(Ledger!ledgerVars)
  <1>1. CASE run' = run
    BY <1>1 DEF Ledger!ledgerVars, Over
  <1>2. CASE run = "RUNNING" /\ run' \in Ended
    <2>1. ~Over /\ Over' = TRUE
      BY <1>2 DEF Over, Ended
    <2>2. Ledger!Close
      BY <2>1 DEF Ledger!Close
    <2>3. QED
      BY <2>2 DEF Ledger!LedgerNext
  <1>3. QED
    BY <1>1, <1>2

\* Every step maps to a step of the ledger or to none.
LEMMA LedgerStep ==
    ASSUME ClaimsInv, [Next]_claimVars
    PROVE  [Ledger!LedgerNext]_(Ledger!ledgerVars)
  <1>0. TypeOK
    BY DEF ClaimsInv
  <1>1. ASSUME NEW w \in Workers, NEW c \in Calls, ClaimTool(w, c)
        PROVE  [Ledger!LedgerNext]_(Ledger!ledgerVars)
    <2>1. /\ inv'[c].status = "RUNNING" /\ \A d \in Calls : d # c => inv'[d] = inv[d]
          /\ inv[c].status \in {"none", "RUNNING"}
          /\ run = "RUNNING" /\ run' = run /\ begun' = begun
      BY <1>0, <1>1 DEF ClaimTool, ClaimAllowed, TakenOver, ClaimedRow, TypeOK
    <2>2. CASE inv[c].status = "none"
      <3>1. ~Over /\ Over' = Over /\ Entry[c] = "none"
        BY <2>1, <2>2 DEF Over, Ended, Entry
      <3>2. Entry' = [Entry EXCEPT ![c] = "open"]
        BY <2>1, EntryChanged
      <3>3. Ledger!Open(c)
        BY <2>1, <3>1, <3>2 DEF Ledger!Open
      <3>4. QED
        BY <3>3 DEF Ledger!LedgerNext
    <2>3. CASE inv[c].status = "RUNNING"
      <3>1. Entry' = Entry
        BY <2>1, <2>3, EntryKept
      <3>2. QED
        BY <1>0, <2>1, <3>1, RunSteps
    <2>4. QED
      BY <2>1, <2>2, <2>3
  <1>2. ASSUME NEW w \in Workers, NEW c \in Calls, ClaimUnknown(w, c)
        PROVE  [Ledger!LedgerNext]_(Ledger!ledgerVars)
    <2>1. run = "RUNNING" /\ run' = run /\ begun' = begun
      BY <1>2 DEF ClaimUnknown, ClaimAllowed
    <2>2. CASE inv' = inv
      <3>1. Entry' = Entry
        BY <2>2, EntryKept
      <3>2. QED
        BY <1>0, <2>1, <3>1, RunSteps
    <2>3. CASE inv[c].status = "RUNNING" /\ c \in FailClosed /\ inv' = [inv EXCEPT ![c] = UnknownRow(w, c)]
      <3>1. inv'[c].status = "UNKNOWN" /\ \A d \in Calls : d # c => inv'[d] = inv[d]
        BY <1>0, <2>3 DEF UnknownRow, TypeOK
      <3>2. ~Over /\ Over' = Over /\ Entry[c] = "open"
        BY <2>1, <2>3 DEF Over, Ended, Entry
      <3>3. Entry' = [Entry EXCEPT ![c] = "UNKNOWN"]
        BY <3>1, EntryChanged
      <3>4. Ledger!WriteOff(c)
        BY <2>1, <2>3, <3>2, <3>3 DEF Ledger!WriteOff
      <3>5. QED
        BY <3>4 DEF Ledger!LedgerNext
    <2>4. QED
      BY <1>2, <2>2, <2>3 DEF ClaimUnknown
  <1>3. ASSUME NEW w \in Workers, StartTool(w)
        PROVE  [Ledger!LedgerNext]_(Ledger!ledgerVars)
    <2>1. /\ inv' = inv /\ run' = run /\ pc[w] = "starting"
          /\ begun' = [begun EXCEPT ![call[w]] = begun[call[w]] + 1]
      BY <1>3 DEF StartTool, store
    <2>2. /\ call[w] \in Calls /\ inv[call[w]].status # "none"
          /\ call[w] \in FailClosed => begun[call[w]] = 0
      BY <2>1 DEF ClaimsInv, WorkHasRow, OneStarter, BeforeStart, Working
    <2>3. Entry[call[w]] # "none" /\ Entry' = Entry /\ Over' = Over
      BY <2>1, <2>2 DEF Entry, Over
    <2>4. Ledger!Begin(call[w])
      BY <2>1, <2>2, <2>3 DEF Ledger!Begin
    <2>5. QED
      BY <2>2, <2>4 DEF Ledger!LedgerNext
  <1>4. ASSUME NEW w \in Workers, CommitResult(w)
        PROVE  [Ledger!LedgerNext]_(Ledger!ledgerVars)
    <2>1. /\ run = "RUNNING" /\ run' = run /\ begun' = begun /\ pc[w] = "commit"
          /\ inv[call[w]].status = "RUNNING"
      BY <1>4 DEF CommitResult, CommitAllowed, ClaimCurrent
    <2>2. call[w] \in Calls /\ begun[call[w]] > 0 /\ verdict[w] \in Settled
      BY <2>1 DEF ClaimsInv, WorkHasRow, ResultBegun, ResultSettled, Working
    <2>3. inv'[call[w]].status = verdict[w] /\ \A d \in Calls : d # call[w] => inv'[d] = inv[d]
      BY <1>0, <1>4, <2>2 DEF CommitResult, TypeOK
    <2>4. ~Over /\ Over' = Over /\ Entry[call[w]] = "open"
      BY <2>1, <2>2 DEF Over, Ended, Entry
    <2>5. verdict[w] # "RUNNING" /\ verdict[w] \in Ledger!Verdicts
      BY <2>2 DEF Settled, Ledger!Verdicts
    <2>6. Entry' = [Entry EXCEPT ![call[w]] = verdict[w]]
      BY <2>2, <2>3, <2>5, EntryChanged
    <2>7. Ledger!Settle(call[w])
      BY <2>1, <2>2, <2>4, <2>5, <2>6 DEF Ledger!Settle
    <2>8. QED
      BY <2>2, <2>7 DEF Ledger!LedgerNext
  <1>5. CASE \/ Cancel \/ Tick \/ AllDone \/ UNCHANGED claimVars
             \/ \E w \in Workers : HeartbeatRun(w) \/ HeartbeatTool(w) \/ Crash(w)
    <2>1. begun' = begun /\ (run' = run \/ (run = "RUNNING" /\ run' \in Ended))
      BY <1>5 DEF Cancel, Tick, AllDone, HeartbeatRun, HeartbeatTool, Crash, claimVars, store, Ended
    <2>2. \A c \in Calls : inv'[c].status = inv[c].status
      <3>1. ASSUME NEW w \in Workers, HeartbeatTool(w), NEW c \in Calls
            PROVE  inv'[c].status = inv[c].status
        BY <1>0, <3>1 DEF HeartbeatTool, WithLeft, TypeOK
      <3>2. ASSUME Tick, NEW c \in Calls PROVE inv'[c].status = inv[c].status
        BY <3>2 DEF Tick, WithLeft
      <3>3. QED
        BY <1>5, <3>1, <3>2 DEF Cancel, AllDone, HeartbeatRun, Crash, claimVars, store
    <2>3. Entry' = Entry
      BY <2>2, EntryKept
    <2>4. QED
      BY <1>0, <2>1, <2>3, RunSteps
  <1>6. ASSUME NEW w \in Workers,
               \/ Resume(w) \/ AcquireLease(w) \/ AbandonAcquire(w) \/ MarkAttempt(w)
               \/ StartRound(w) \/ ClaimRefused(w) \/ CheckLease(w)
               \/ (\E v \in Settled : ToolReturns(w, v)) \/ ReadProjection(w)
               \/ CommitRefused(w) \/ FailRun(w) \/ AskModel(w) \/ ModelReturns(w)
               \/ ReleaseLease(w)
        PROVE  [Ledger!LedgerNext]_(Ledger!ledgerVars)
    <2>1. inv' = inv /\ begun' = begun
      BY <1>6 DEF Resume, AcquireLease, AbandonAcquire, MarkAttempt, StartRound, ClaimRefused,
           CheckLease, ToolReturns, ReadProjection, CommitRefused, FailRun, AskModel,
           ModelReturns, ReleaseLease, store
    <2>2. run' = run \/ (run = "RUNNING" /\ run' \in Ended)
      BY <1>6 DEF Resume, AcquireLease, AbandonAcquire, MarkAttempt, StartRound, ClaimRefused,
           CheckLease, ToolReturns, ReadProjection, CommitRefused, FailRun, AskModel,
           ModelReturns, ReleaseLease, EndRun, Ended, store
    <2>3. Entry' = Entry
      BY <2>1, EntryKept
    <2>4. QED
      BY <1>0, <2>1, <2>2, <2>3, RunSteps
  <1>7. QED
    BY <1>1, <1>2, <1>3, <1>4, <1>5, <1>6 DEF Next, Work

\* The leases, tokens and workers implement the abstract ledger: a call is
\* opened before it is begun, begun at most once when it must fail closed, and
\* settled once, while the run is going.
THEOREM ClaimsImplementLedger == Spec => ImplementsLedger
  <1>1. ClaimsInv /\ [Next]_claimVars => [Ledger!LedgerNext]_(Ledger!ledgerVars)
    BY LedgerStep
  <1>2. QED
    BY <1>1, LedgerStarts, ClaimsInvariant, PTL DEF Spec, ImplementsLedger, Ledger!LedgerSpec
=============================================================================
