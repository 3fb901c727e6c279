----------------------- MODULE StrategyRuntime_proofs -----------------------
(***************************************************************************)
(* Proofs about StrategyRuntime, for any number of bars, intents, faults,  *)
(* crashes, pauses, timeouts and edits: an intent reaches the broker once, *)
(* the daily quota holds, no two threads of an instance overlap, demand    *)
(* follows the status, history is not traded and, while nobody pauses and  *)
(* the candle window reaches back, no signal is stepped over.              *)
(***************************************************************************)
EXTENDS StrategyRuntime, FiniteSetTheorems, TLAPS

-----------------------------------------------------------------------------
(* Types. *)

\* While an order is placed there is an intent in hand.
InHand == pc \in {"reserved", "placed"} => task.todo # {}

\* A fault is counted within its bound.
LEMMA FaultType ==
    ASSUME TypeOK, Fault
    PROVE  used' \in [faults : 0 .. MaxFaults, crashes : 0 .. MaxCrashes,
                      pauses : 0 .. MaxPauses, timeouts : 0 .. MaxTimeouts]
  BY StrategyAssumption DEF TypeOK, Fault

\* A new task is a task.
LEMMA NewTaskType == \A s \in Scopes : NewTask(s) \in Task
  BY StrategyAssumption DEF NewTask, Task, Scopes

LEMMA TypeInit == Init => TypeOK
<1> SUFFICES ASSUME Init PROVE TypeOK
  OBVIOUS
<1>1. 0 \in Scopes
  BY StrategyAssumption DEF Scopes
<1>2. task \in Task
  BY <1>1, NewTaskType DEF Init
<1>3. ckpt \in [Scopes -> Checkpoint]
  BY StrategyAssumption DEF Init, NoCheckpoint, Checkpoint
<1>4. /\ pending \in [Intents -> Nat] /\ submits \in [Intents -> Nat]
      /\ book \in [Intents -> Nat]
  BY DEF Init
<1>5. baseline \in [Scopes -> 0 .. MaxBars]
  BY StrategyAssumption DEF Init
<1>6. remote \in Session
  BY StrategyAssumption DEF Init, NoSession, Session
<1>7. used \in [faults : 0 .. MaxFaults, crashes : 0 .. MaxCrashes,
                 pauses : 0 .. MaxPauses, timeouts : 0 .. MaxTimeouts]
  BY StrategyAssumption DEF Init
<1> QED
  <2>1. status \in Status /\ scope \in Scopes /\ riskRev \in 0 .. MaxRisk /\ closed \in 0 .. MaxBars
    BY <1>1, StrategyAssumption DEF Init, Status
  <2>2. /\ up \in BOOLEAN /\ mut \in Mutation /\ cancel \in BOOLEAN /\ demand \in BOOLEAN
        /\ owner \in {"none", "tasks", "reclaiming"} /\ pc \in TaskPC
    BY DEF Init, Mutation, TaskPC
  <2>3. rows \subseteq Intents /\ handled \subseteq Intents
    BY DEF Init
  <2> QED BY <1>2, <1>3, <1>4, <1>5, <1>6, <1>7, <2>1, <2>2, <2>3 DEF TypeOK

\* The oldest candle of a read is a bar.
LEMMA OldestType == TypeOK => Oldest \in 1 .. MaxBars
  BY StrategyAssumption DEF TypeOK, Oldest

LEMMA TypeLifecycle == TypeOK /\ Lifecycle => TypeOK'
<1> SUFFICES ASSUME TypeOK, Lifecycle PROVE TypeOK'
  OBVIOUS
<1> USE StrategyAssumption DEF TypeOK, Status, Mutation, store, quota, broker, manager, history, Cas
<1>1. CASE StartResume
  BY <1>1 DEF StartResume
<1>2. CASE StartBegin \/ StopBegin \/ DeleteBegin
  BY <1>2 DEF StartBegin, StopBegin, DeleteBegin, BeginCancel
<1>3. CASE StartClaim
  BY <1>3 DEF StartClaim
<1>4. CASE StartSpawn
  BY <1>4, NewTaskType DEF StartSpawn, TaskPC
<1>5. CASE StartFails
  BY <1>5 DEF StartFails
<1>6. CASE StartPublish
  BY <1>6 DEF StartPublish
<1>7. CASE StartUndone \/ StopCommit \/ DeleteCommit
  BY <1>7 DEF StartUndone, StopCommit, DeleteCommit
<1>8. CASE CancelTimeout
  BY <1>8 DEF CancelTimeout
<1>9. CASE Pause
  BY <1>9 DEF Pause
<1>10. CASE Edit
  BY <1>10 DEF Edit, Scopes
<1>11. CASE UpdateRisk
  BY <1>11 DEF UpdateRisk
<1> QED
  BY <1>1, <1>2, <1>3, <1>4, <1>5, <1>6, <1>7, <1>8, <1>9, <1>10, <1>11 DEF Lifecycle

\* Every nonempty set of natural numbers has a least element.
StrictlyLess == {p \in Nat \X Nat : p[1] < p[2]}

LEMMA Least ==
    ASSUME NEW S \in SUBSET Nat, S # {}
    PROVE  \E n \in S : \A m \in S : n <= m
<1>1. IsWellFoundedOn(StrictlyLess, Nat)
  BY NatLessThanWellFounded DEF OpToRel, StrictlyLess
<1>2. PICK n \in S : \A m \in S : ~ (<<m, n>> \in StrictlyLess)
  BY <1>1, WFMin
<1>3. ASSUME NEW m \in S PROVE n <= m
  <2>1. m \in Nat /\ n \in Nat
    OBVIOUS
  <2>2. ~ (m < n)
    <3> SUFFICES ASSUME m < n PROVE FALSE
      OBVIOUS
    <3>1. <<m, n>> \in Nat \X Nat /\ <<m, n>>[1] < <<m, n>>[2]
      BY <2>1
    <3>2. <<m, n>> \in StrictlyLess
      BY <3>1 DEF StrictlyLess
    <3> QED BY <3>2, <1>2
  <2> QED BY <2>1, <2>2
<1> QED BY <1>3

\* The intent in hand is one of those to be dispatched, and the first.
LEMMA CurrentIn ==
    ASSUME TypeOK, task.todo # {}
    PROVE  Current \in task.todo /\ Current \in Intents
<1>1. task.todo \subseteq Intents
  BY DEF TypeOK, Task
<1>2. \A i \in Intents : i[2] \in Nat
  BY StrategyAssumption DEF Intents
<1> DEFINE S == {i[2] : i \in task.todo}
<1>3. S \in SUBSET Nat /\ S # {}
  BY <1>1, <1>2
<1>4. PICK n \in S : \A m \in S : n <= m
  BY <1>3, Least
<1>5. PICK i \in task.todo : n = i[2]
  BY <1>4
<1>6. \A j \in task.todo : i[2] <= j[2]
  BY <1>4, <1>5
<1> HIDE DEF S
<1>7. Current \in task.todo
  BY <1>6 DEF Current
<1> QED BY <1>7, <1>1

LEMMA TypeProcess == TypeOK /\ InHand /\ Process => TypeOK'
<1> SUFFICES ASSUME TypeOK, InHand, Process PROVE TypeOK'
  OBVIOUS
<1> USE StrategyAssumption DEF TypeOK, Status, Mutation, store, quota, broker, manager, history, Cas
<1>0. 0 \in Scopes
  BY DEF Scopes
<1>1. ASSUME Ends, used' \in [faults : 0 .. MaxFaults, crashes : 0 .. MaxCrashes,
                               pauses : 0 .. MaxPauses, timeouts : 0 .. MaxTimeouts]
      PROVE  TypeOK'
  <2>1. remote' \in Session
    BY <1>1 DEF Ends, NoSession, Session
  <2>2. rows' \subseteq Intents /\ book' \in [Intents -> Nat]
    <3>1. CASE CutShort
      BY <3>1, CurrentIn DEF CutShort, InHand
    <3>2. CASE UNCHANGED broker
      BY <3>2
    <3> QED BY <1>1, <3>1, <3>2 DEF Ends
  <2> QED BY <1>0, <1>1, <2>1, <2>2, NewTaskType DEF Ends, TaskPC
<1>2. CASE Crash
  BY <1>1, <1>2 DEF Crash
<1>3. CASE ShutdownBegin
  BY <1>3 DEF ShutdownBegin
<1>4. CASE ShutdownEnd
  BY <1>1, <1>4 DEF ShutdownEnd
<1>5. CASE Restart
  <2>1. task' \in Task /\ pc' \in TaskPC
    BY <1>5, NewTaskType DEF Restart, TaskPC
  <2>2. /\ status' \in Status /\ owner' \in {"none", "tasks", "reclaiming"}
        /\ cancel' \in BOOLEAN /\ demand' \in BOOLEAN
    BY <1>5 DEF Restart
  <2> QED BY <1>5, <2>1, <2>2 DEF Restart
<1> QED BY <1>2, <1>3, <1>4, <1>5 DEF Process

LEMMA TypeTask == TypeOK /\ InHand /\ TaskStep => TypeOK'
<1> SUFFICES ASSUME TypeOK, InHand, TaskStep PROVE TypeOK'
  OBVIOUS
<1> USE StrategyAssumption DEF TypeOK, quota, broker, history, Threaded, Goto
<1>0. scope \in Scopes /\ ckpt[scope] \in Checkpoint
  OBVIOUS
<1>1. CASE Restore
  BY <1>0, <1>1, FaultType DEF Restore, TaskPC, Task, Checkpoint
<1>2. CASE Top
  BY <1>2 DEF Top, TaskPC, Task
<1>3. CASE ReadCandles
  <2>1. task' \in Task
    <3> DEFINE b == IF task.revision = 0 THEN WarmupBar ELSE task.bar
    <3>1. Oldest \in 0 .. MaxBars /\ b \in 0 .. MaxBars
      BY OldestType DEF Task, WarmupBar
    <3>2. task' = [task EXCEPT !.lo = Oldest, !.hi = closed, !.bar = b]
      BY <1>3 DEF ReadCandles
    <3> HIDE DEF b
    <3> QED BY <3>1, <3>2 DEF Task
  <2>2. pc' \in TaskPC
    <3>1. CASE UNCHANGED used
      BY <1>3 DEF ReadCandles, TaskPC
    <3> QED BY <1>3 DEF ReadCandles, TaskPC
  <2> QED BY <1>3, <2>1, <2>2, FaultType DEF ReadCandles
<1>4. CASE Open
  <2>1. remote' \in Session
    BY <1>4 DEF Open, Opened, Session, Task
  <2>2. task' \in Task
    BY <1>4 DEF Open, Task
  <2> QED BY <1>4, <2>1, <2>2, FaultType DEF Open, TaskPC
<1>5. ASSUME NEW f \in 0 .. MaxBars, SaveCheckpoint(f)
      PROVE  /\ ckpt' \in [Scopes -> Checkpoint] /\ baseline' \in [Scopes -> 0 .. MaxBars]
             /\ task' \in Task /\ used' = used
  BY <1>0, <1>5 DEF SaveCheckpoint, Task, Checkpoint
<1>6. CASE CheckpointOpen
  <2>1. (IF task.last = 0 THEN task.hi ELSE task.last) \in 0 .. MaxBars
    BY DEF Task
  <2>2. CASE SaveFails
    BY <1>6, <2>2, FaultType DEF CheckpointOpen, SaveFails, TaskPC
  <2> QED BY <1>5, <1>6, <2>1, <2>2 DEF CheckpointOpen, TaskPC
<1>7. CASE CheckpointBar
  <2>1. task.last \in 0 .. MaxBars
    BY DEF Task
  <2>2. CASE SaveFails
    BY <1>7, <2>2, FaultType DEF CheckpointBar, SaveFails, TaskPC
  <2> QED BY <1>5, <1>7, <2>1, <2>2 DEF CheckpointBar, TaskPC
<1>8. CASE AppendEnds
  BY <1>8 DEF AppendEnds, TaskPC
<1>9. ASSUME NextBar <= task.hi PROVE NextBar \in 0 .. MaxBars
  BY <1>9 DEF NextBar, Task
<1>10. CASE Append
  <2>1. task' \in Task
    <3>1. task.revision + 1 \in Nat /\ NextBar \in 0 .. MaxBars
      BY <1>9, <1>10 DEF Append, Task
    <3>2. task' = [task EXCEPT !.bar = NextBar, !.revision = task.revision + 1]
      BY <1>10 DEF Append
    <3> QED BY <3>1, <3>2 DEF Task
  <2>2. remote' \in Session
    BY <1>9, <1>10 DEF Append, Appended, Session
  <2> QED BY <1>10, <2>1, <2>2 DEF Append, TaskPC
<1>11. CASE AppendFails
  <2>1. task' \in Task
    BY <1>11 DEF AppendFails, Task
  <2>2. remote' \in Session
    <3>1. NoSession \in Session /\ Appended \in Session
      BY <1>9, <1>11 DEF AppendFails, NoSession, Appended, Session
    <3> QED BY <1>11, <3>1 DEF AppendFails
  <2> QED BY <1>11, <2>1, <2>2, FaultType DEF AppendFails, TaskPC
<1>12. CASE TakeIntents
  <2>1. FreshIntents \subseteq Intents /\ task.keys \cup FreshIntents \subseteq Intents
    BY DEF FreshIntents, Task
  <2>2. CASE cancel
    BY <1>12, <2>2 DEF TakeIntents, TaskPC
  <2>3. CASE ~cancel
    <3>1. task' = [task EXCEPT !.keys = task.keys \cup FreshIntents, !.todo = FreshIntents,
                               !.count = 0]
      BY <1>12, <2>3 DEF TakeIntents
    <3>2. task' \in Task
      BY <2>1, <3>1 DEF Task
    <3> QED BY <1>12, <2>3, <3>2 DEF TakeIntents, TaskPC
  <2> QED BY <2>2, <2>3
<1>13. CASE ReadAccount
  BY <1>13, FaultType DEF ReadAccount, TaskPC
<1>14. CASE IntentsDone \/ RiskFenced
  BY <1>14 DEF IntentsDone, RiskFenced, TaskPC
<1>15. CASE IntentInvalid
  BY <1>15, FaultType DEF IntentInvalid, TaskPC
<1>16. CASE SkipIntent
  BY <1>16, CurrentIn DEF SkipIntent, Working, Drop, Task
<1>17. CASE RiskRejects
  BY <1>17, CurrentIn DEF RiskRejects, Working, TaskPC, Status
<1>18. CASE Reserve
  BY <1>18, CurrentIn DEF Reserve, Working, TaskPC
<1>19. CASE PlaceAccepted
  <2>1. Current \in Intents
    BY <1>19, CurrentIn DEF PlaceAccepted, InHand
  <2>2. book' \in [Intents -> Nat]
    BY <1>19, <2>1 DEF PlaceAccepted
  <2> QED BY <1>19, <2>1, <2>2 DEF PlaceAccepted, Attempted, TaskPC
<1>20. CASE PlaceFails
  <2>1. Current \in Intents
    BY <1>20, CurrentIn DEF PlaceFails, InHand
  <2>2. book' \in [Intents -> Nat] /\ rows' \subseteq Intents
    BY <1>20, <2>1 DEF PlaceFails
  <2>3. used' \in [faults : 0 .. MaxFaults, crashes : 0 .. MaxCrashes,
                    pauses : 0 .. MaxPauses, timeouts : 0 .. MaxTimeouts]
    BY <1>20, FaultType DEF PlaceFails
  <2>4. handled' \subseteq Intents
    BY <1>20, <2>1 DEF PlaceFails, Attempted
  <2>5. pending' \in [Intents -> Nat] /\ submits' = submits
    BY <1>20, <2>1 DEF PlaceFails, ReleaseReservation
  <2> QED BY <1>20, <2>2, <2>3, <2>4, <2>5 DEF PlaceFails, TaskPC
<1>21. CASE RecordSubmitted
  <2>1. Current \in Intents
    BY <1>21, CurrentIn DEF RecordSubmitted, InHand
  <2>2. task' \in Task
    <3>1. task.count + 1 \in Nat /\ task.todo \ {Current} \subseteq Intents
      BY DEF Task
    <3>2. task' = [task EXCEPT !.todo = task.todo \ {Current}, !.count = task.count + 1]
      BY <1>21 DEF RecordSubmitted
    <3> QED BY <3>1, <3>2 DEF Task
  <2>3. pending' \in [Intents -> Nat] /\ submits' \in [Intents -> Nat]
    BY <1>21, <2>1 DEF RecordSubmitted
  <2> QED BY <1>21, <2>2, <2>3, FaultType DEF RecordSubmitted, TaskPC
<1>22. CASE CycleError \/ CloseSessions
  <2>1. remote' \in Session
    BY <1>22 DEF CycleError, CloseSessions, NoSession, Session
  <2> QED BY <1>22, <2>1 DEF CycleError, CloseSessions, TaskPC
<1>23. CASE FailStatus \/ FailRelease
  BY <1>23 DEF FailStatus, FailRelease, TaskPC, Status
<1> QED
  BY <1>1, <1>2, <1>3, <1>4, <1>6, <1>7, <1>8, <1>10, <1>11, <1>12, <1>13, <1>14, <1>15,
     <1>16, <1>17, <1>18, <1>19, <1>20, <1>21, <1>22, <1>23 DEF TaskStep

LEMMA TypeEnvironment == TypeOK /\ (BarCloses \/ WorkerDies) => TypeOK'
<1> USE StrategyAssumption DEF TypeOK, store, quota, broker, manager, history
<1>1. ASSUME TypeOK, BarCloses PROVE TypeOK'
  BY <1>1 DEF BarCloses
<1>2. ASSUME TypeOK, WorkerDies PROVE TypeOK'
  BY <1>2, FaultType DEF WorkerDies, NoSession, Session
<1> QED BY <1>1, <1>2

-----------------------------------------------------------------------------
(* What the steps have in common.                                          *)

\* The actions of the thread that leave the status and the demand alone.
Quiet ==
    /\ UNCHANGED <<status, demand>>
    /\ pc \notin {"none", "done", "failed"} /\ pc' \notin {"none", "failed", "restore"}

\* A step of the thread is quiet, refuses an intent, or is one of the two that
\* fail the instance; the manager's state is the mutations' alone.
LEMMA TaskEffect ==
    ASSUME TypeOK, TaskStep
    PROVE  /\ UNCHANGED <<scope, riskRev, up, mut, owner, cancel, closed>>
           /\ Quiet \/ FailStatus \/ FailRelease
              \/ /\ pc = "dispatch" /\ pc' = "error" /\ demand' = demand
                 /\ status' = status \/ (status = "RUNNING" /\ status' = "PAUSED")
<1> USE DEF Goto, Threaded, Quiet
<1>1. CASE Restore \/ Top \/ Open \/ CheckpointOpen \/ AppendEnds
  BY <1>1 DEF Restore, Top, Open, CheckpointOpen, AppendEnds, SaveFails
<1>2. CASE ReadCandles
  <2>1. CASE UNCHANGED used
    BY <1>2 DEF ReadCandles
  <2> QED BY <1>2 DEF ReadCandles
<1>3. CASE Append \/ AppendFails \/ TakeIntents \/ ReadAccount \/ IntentsDone
  BY <1>3 DEF Append, AppendFails, TakeIntents, ReadAccount, IntentsDone
<1>4. CASE SkipIntent \/ IntentInvalid \/ RiskFenced \/ Reserve \/ CheckpointBar
  BY <1>4 DEF SkipIntent, IntentInvalid, RiskFenced, Reserve, Working, CheckpointBar, SaveFails
<1>5. CASE PlaceAccepted \/ PlaceFails \/ RecordSubmitted \/ CycleError \/ CloseSessions
  BY <1>5 DEF PlaceAccepted, PlaceFails, RecordSubmitted, CycleError, CloseSessions
<1>6. CASE RiskRejects
  BY <1>6 DEF RiskRejects, Working
<1>7. CASE FailStatus \/ FailRelease
  BY <1>7 DEF FailStatus, FailRelease
<1> QED
  BY <1>1, <1>2, <1>3, <1>4, <1>5, <1>6, <1>7 DEF TaskStep

\* The thread itself moves with its own steps, a start and the end of the process.
LEMMA ThreadMoves ==
    ASSUME Lifecycle \/ Process \/ BarCloses \/ WorkerDies
    PROVE  \/ UNCHANGED <<pc, task>>
           \/ pc' = "restore" /\ task' = NewTask(scope)
              /\ (mut = "claimed" \/ ~up) /\ UNCHANGED <<scope, remote, broker>>
           \/ pc' = "none" /\ task' = NewTask(0) /\ ~up'
<1> USE DEF manager, broker
<1>1. CASE Lifecycle
  BY <1>1 DEF Lifecycle, StartResume, StartBegin, StopBegin, DeleteBegin, BeginCancel, StartClaim,
     StartSpawn, StartFails, StartPublish, StartUndone, StopCommit, DeleteCommit, CancelTimeout,
     Pause, Edit, UpdateRisk, store
<1>2. CASE Process
  BY <1>2 DEF Process, Crash, Ends, ShutdownBegin, ShutdownEnd, Restart
<1>3. CASE BarCloses \/ WorkerDies
  BY <1>3 DEF BarCloses, WorkerDies
<1> QED BY <1>1, <1>2, <1>3

LEMMA InHandStep == TypeOK /\ InHand /\ [Next]_vars => InHand'
<1> SUFFICES ASSUME TypeOK, InHand, [Next]_vars, pc' \in {"reserved", "placed"}
             PROVE  task'.todo # {}
  BY DEF InHand
<1>1. CASE TaskStep
  <2> USE DEF Goto, Threaded
  <2>1. CASE Reserve
    BY <2>1 DEF Reserve, Working
  <2>2. CASE PlaceAccepted
    BY <2>2 DEF PlaceAccepted, InHand
  <2>3. ~Restore /\ ~Top /\ ~Open /\ ~CheckpointOpen /\ ~AppendEnds /\ ~SkipIntent
    BY DEF Restore, Top, Open, CheckpointOpen, AppendEnds, SaveFails, SkipIntent, Working
  <2>4. ~ReadCandles
    <3>1. ASSUME ReadCandles, UNCHANGED used PROVE FALSE
      BY <3>1 DEF ReadCandles
    <3> QED BY <3>1 DEF ReadCandles
  <2>5. ~Append /\ ~AppendFails /\ ~TakeIntents /\ ~ReadAccount /\ ~IntentsDone
    BY DEF Append, AppendFails, TakeIntents, ReadAccount, IntentsDone
  <2>6. ~IntentInvalid /\ ~RiskFenced /\ ~RiskRejects /\ ~CheckpointBar
    BY DEF IntentInvalid, RiskFenced, RiskRejects, CheckpointBar, SaveFails
  <2>7. ~PlaceFails /\ ~RecordSubmitted /\ ~CycleError /\ ~CloseSessions /\ ~FailStatus /\ ~FailRelease
    BY DEF PlaceFails, RecordSubmitted, CycleError, CloseSessions, FailStatus, FailRelease
  <2> QED BY <1>1, <2>1, <2>2, <2>3, <2>4, <2>5, <2>6, <2>7 DEF TaskStep
<1>2. CASE Lifecycle \/ Process \/ BarCloses \/ WorkerDies
  BY <1>2, ThreadMoves DEF InHand
<1>3. CASE UNCHANGED vars
  BY <1>3 DEF InHand, vars
<1> QED BY <1>1, <1>2, <1>3 DEF Next

TypeInv == TypeOK /\ InHand

LEMMA TypeInvInit == Init => TypeInv
  BY TypeInit DEF TypeInv, InHand, Init

LEMMA TypeInvStep == TypeInv /\ [Next]_vars => TypeInv'
<1> SUFFICES ASSUME TypeInv, [Next]_vars PROVE TypeInv'
  OBVIOUS
<1>1. CASE UNCHANGED vars
  BY <1>1 DEF TypeInv, TypeOK, InHand, vars
<1>2. CASE Next
  BY <1>2, TypeTask, TypeLifecycle, TypeProcess, TypeEnvironment, InHandStep DEF TypeInv, Next
<1> QED BY <1>1, <1>2

\* Every variable of the instance keeps its type: quotas and books stay
\* functions on the intents, and the order in hand is always a real intent.
THEOREM TypeCorrect == Spec => []TypeOK
<1>1. Spec => []TypeInv
  BY TypeInvInit, TypeInvStep, PTL DEF Spec
<1> QED BY <1>1, PTL DEF TypeInv

-----------------------------------------------------------------------------
(* Lifecycle: who owns the thread, and which status goes with the demand.  *)

\* A task no map holds has ended.
OwnedThread == owner = "none" => ThreadGone

\* A process that is down has no mutation, no task and no demand.
DownMeansNothing == ~up => mut = "idle" /\ owner = "none" /\ pc = "none" /\ ~demand

\* What is on record while a start is under way.
StartUnderWay ==
    /\ mut = "claimed" => status = "STARTING" /\ owner = "none"
    /\ mut = "spawned" => status \in {"STARTING", "FAILED"} /\ (status = "STARTING" => demand)
    /\ mut = "undo" => status = "FAILED"

\* An instance fails with the last steps of its thread, or without one.
FailedThread ==
    /\ pc = "failed" => status = "FAILED"
    /\ status = "FAILED" => pc = "failed" \/ (ThreadGone /\ ~demand)

DemandHeld ==
    /\ up /\ status = "RUNNING" => demand
    /\ status = "PAUSED" /\ owner # "none" => demand

StoppedGone == status \in {"STOPPED", "DELETED"} => ThreadGone /\ ~demand

LifeInv ==
    OwnedThread /\ DownMeansNothing /\ StartUnderWay /\ FailedThread /\ DemandHeld /\ StoppedGone

LEMMA LifeTask == TypeInv /\ LifeInv /\ TaskStep => LifeInv'
<1> SUFFICES ASSUME TypeOK, LifeInv, TaskStep PROVE LifeInv'
  BY DEF TypeInv
<1> USE TaskEffect DEF LifeInv, OwnedThread, DownMeansNothing, StartUnderWay, FailedThread,
        DemandHeld, StoppedGone, ThreadGone
<1>1. CASE Quiet
  BY <1>1 DEF Quiet
<1>2. CASE FailStatus
  BY <1>2 DEF FailStatus, Goto
<1>3. CASE FailRelease
  BY <1>3 DEF FailRelease, Goto
<1>4. CASE /\ pc = "dispatch" /\ pc' = "error" /\ demand' = demand
           /\ status' = status \/ (status = "RUNNING" /\ status' = "PAUSED")
  BY <1>4 DEF TypeOK
<1> QED BY <1>1, <1>2, <1>3, <1>4

LEMMA LifeLifecycle == TypeInv /\ LifeInv /\ Lifecycle => LifeInv'
<1> SUFFICES ASSUME TypeOK, LifeInv, Lifecycle PROVE LifeInv'
  BY DEF TypeInv
<1> USE DEF LifeInv, OwnedThread, DownMeansNothing, StartUnderWay, FailedThread,
        DemandHeld, StoppedGone, ThreadGone, Idle, Cas, manager, store
<1>1. CASE StartResume
  BY <1>1 DEF StartResume, Resumes
<1>2. CASE StartBegin \/ StopBegin \/ DeleteBegin
  BY <1>2 DEF StartBegin, StopBegin, DeleteBegin, BeginCancel
<1>3. CASE StartClaim
  BY <1>3 DEF StartClaim, Joined
<1>4. CASE StartSpawn
  BY <1>4 DEF StartSpawn
<1>5. CASE StartFails
  BY <1>5 DEF StartFails
<1>6. CASE StartPublish
  BY <1>6 DEF StartPublish
<1>7. CASE StartUndone \/ StopCommit \/ DeleteCommit
  BY <1>7 DEF StartUndone, StopCommit, DeleteCommit, Joined
<1>8. CASE CancelTimeout
  BY <1>8 DEF CancelTimeout
<1>9. CASE Pause \/ Edit \/ UpdateRisk
  BY <1>9 DEF Pause, Edit, UpdateRisk
<1> QED
  BY <1>1, <1>2, <1>3, <1>4, <1>5, <1>6, <1>7, <1>8, <1>9 DEF Lifecycle

LEMMA LifeProcess == TypeInv /\ LifeInv /\ (Process \/ BarCloses \/ WorkerDies) => LifeInv'
<1> SUFFICES ASSUME TypeOK, LifeInv, Process \/ BarCloses \/ WorkerDies PROVE LifeInv'
  BY DEF TypeInv
<1> USE DEF LifeInv, OwnedThread, DownMeansNothing, StartUnderWay, FailedThread,
        DemandHeld, StoppedGone, ThreadGone, Idle, Cas, manager, store
<1>1. CASE Ends
  BY <1>1 DEF Ends
<1>2. CASE ShutdownBegin
  BY <1>2 DEF ShutdownBegin
<1>3. CASE Restart
  BY <1>3 DEF Restart
<1>4. CASE BarCloses \/ WorkerDies
  BY <1>4 DEF BarCloses, WorkerDies
<1> QED
  BY <1>1, <1>2, <1>3, <1>4 DEF Process, Crash, ShutdownEnd

LEMMA LifeStep == TypeInv /\ LifeInv /\ [Next]_vars => LifeInv'
<1>1. TypeInv /\ LifeInv /\ UNCHANGED vars => LifeInv'
  BY DEF vars, LifeInv, OwnedThread, DownMeansNothing, StartUnderWay, FailedThread,
     DemandHeld, StoppedGone, ThreadGone
<1> QED
  BY <1>1, LifeTask, LifeLifecycle, LifeProcess DEF Next

LEMMA LifeInvariant == Spec => [](TypeInv /\ LifeInv)
<1>1. Init => LifeInv
  BY DEF Init, LifeInv, OwnedThread, DownMeansNothing, StartUnderWay, FailedThread,
     DemandHeld, StoppedGone, ThreadGone
<1> QED
  BY <1>1, LifeStep, TypeInvInit, TypeInvStep, PTL DEF Spec

\* Between mutations a running instance holds the router's managed demand and a
\* stopped, deleted or failed one does not, whatever crashes, timeouts and
\* failures of the thread came between.
THEOREM DemandFollowsStatus == Spec => []DemandMatches
<1>1. TypeInv /\ LifeInv => DemandMatches
  BY DEF LifeInv, FailedThread, DemandHeld, StoppedGone, DemandMatches, Idle, ThreadGone
<1> QED BY <1>1, LifeInvariant, PTL

\* An instance on record as stopped or deleted has no thread left that could
\* still send an order.
THEOREM StopJoinsThread == Spec => []StoppedMeansGone
<1>1. TypeInv /\ LifeInv => StoppedMeansGone
  BY DEF LifeInv, StoppedGone, StoppedMeansGone
<1> QED BY <1>1, LifeInvariant, PTL

\* No start, resume or restart runs a second thread of the instance beside one
\* that has not ended.
THEOREM NoSecondThread == Spec => OneTask
<1> DEFINE A == pc' = "restore" => pc \in {"none", "done", "restore"}
<1>1. TypeInv /\ LifeInv /\ [Next]_vars => [A]_vars
  <2> SUFFICES ASSUME TypeOK, LifeInv, Next, pc' = "restore" PROVE pc \in {"none", "done", "restore"}
    BY DEF TypeInv
  <2>1. CASE TaskStep
    BY <2>1, TaskEffect DEF Quiet, FailStatus, FailRelease, Goto
  <2>2. CASE Lifecycle \/ Process \/ BarCloses \/ WorkerDies
    BY <2>2, ThreadMoves DEF LifeInv, StartUnderWay, OwnedThread, DownMeansNothing, ThreadGone
  <2> QED BY <2>1, <2>2 DEF Next
<1> QED BY <1>1, LifeInvariant, PTL DEF Spec, OneTask

-----------------------------------------------------------------------------
(* The daily quota and the broker's book.                                  *)

LEMMA RecordedFinite ==
    ASSUME NEW f \in [Intents -> Nat]
    PROVE  IsFiniteSet(Recorded(f)) /\ Total(f) \in Nat
<1>1. IsFiniteSet(Intents)
  <2>1. IsFiniteSet(1 .. MaxBars) /\ IsFiniteSet(1 .. PerBar)
    BY FS_Interval, StrategyAssumption
  <2> QED BY <2>1, FS_Product DEF Intents, Bars
<1> DEFINE Sets == {{i} \X (1 .. f[i]) : i \in Intents}
<1>2. IsFiniteSet(Sets)
  <2> DEFINE h == [i \in Intents |-> {i} \X (1 .. f[i])]
  <2>1. h \in Surjection(Intents, Sets)
    BY DEF Surjection
  <2> HIDE DEF h
  <2> HIDE DEF Sets
  <2> QED BY <1>1, <2>1, FS_Surjection
<1>3. \A T \in Sets : IsFiniteSet(T)
  <2> SUFFICES ASSUME NEW i \in Intents PROVE IsFiniteSet({i} \X (1 .. f[i]))
    OBVIOUS
  <2>1. IsFiniteSet({i})
    BY FS_Singleton
  <2>2. f[i] \in Int /\ 1 \in Int
    OBVIOUS
  <2>3. IsFiniteSet(1 .. f[i])
    BY <2>2, FS_Interval
  <2> QED BY <2>1, <2>3, FS_Product
<1>4. IsFiniteSet(UNION Sets)
  BY <1>2, <1>3, FS_UNION
<1> QED BY <1>4, FS_CardinalityType DEF Recorded, Total

LEMMA RecordedMember ==
    ASSUME NEW f \in [Intents -> Nat], NEW e
    PROVE  e \in Recorded(f) <=> \E i \in Intents : \E n \in 1 .. f[i] : e = <<i, n>>
  BY DEF Recorded

\* One more event of an intent.
LEMMA TotalAdd ==
    ASSUME NEW f \in [Intents -> Nat], NEW i \in Intents
    PROVE  Total([f EXCEPT ![i] = @ + 1]) = Total(f) + 1
<1> DEFINE g == [f EXCEPT ![i] = @ + 1]
<1>1. g \in [Intents -> Nat] /\ g[i] = f[i] + 1 /\ \A j \in Intents : j # i => g[j] = f[j]
  OBVIOUS
<1> HIDE DEF g
<1>2. <<i, f[i] + 1>> \notin Recorded(f)
  <2> SUFFICES ASSUME NEW j \in Intents, NEW n \in 1 .. f[j], <<i, f[i] + 1>> = <<j, n>> PROVE FALSE
    BY RecordedMember
  <2>1. j = i /\ n = f[i] + 1
    OBVIOUS
  <2> QED BY <2>1
<1>3. Recorded(g) = Recorded(f) \cup {<<i, f[i] + 1>>}
  <2>1. ASSUME NEW j \in Intents, NEW n \in 1 .. g[j]
        PROVE  <<j, n>> \in Recorded(f) \cup {<<i, f[i] + 1>>}
    <3>1. CASE n \in 1 .. f[j]
      BY <3>1, RecordedMember
    <3>2. CASE n \notin 1 .. f[j]
      <4>1. j = i /\ n = f[i] + 1
        BY <1>1, <3>2
      <4> QED BY <4>1
    <3> QED BY <3>1, <3>2
  <2>2. ASSUME NEW j \in Intents, NEW n \in 1 .. f[j] PROVE <<j, n>> \in Recorded(g)
    <3>1. n \in 1 .. g[j]
      BY <1>1
    <3> QED BY <1>1, <3>1, RecordedMember
  <2>3. <<i, f[i] + 1>> \in Recorded(g)
    <3>1. f[i] + 1 \in 1 .. g[i]
      BY <1>1
    <3> QED BY <1>1, <3>1, RecordedMember
  <2>4. Recorded(g) \subseteq Recorded(f) \cup {<<i, f[i] + 1>>}
    BY <1>1, <2>1, RecordedMember
  <2>5. Recorded(f) \subseteq Recorded(g)
    BY <2>2, RecordedMember
  <2> QED BY <2>3, <2>4, <2>5
<1> QED
  BY <1>2, <1>3, RecordedFinite, FS_AddElement DEF Total, g

\* The events of an intent are settled.
LEMMA TotalDrop ==
    ASSUME NEW f \in [Intents -> Nat], NEW i \in Intents
    PROVE  /\ Total([f EXCEPT ![i] = 0]) \in Nat
           /\ Total([f EXCEPT ![i] = 0]) <= Total(f)
           /\ f[i] > 0 => Total([f EXCEPT ![i] = 0]) + 1 <= Total(f)
<1> DEFINE g == [f EXCEPT ![i] = 0]
<1>1. g \in [Intents -> Nat] /\ g[i] = 0 /\ \A j \in Intents : j # i => g[j] = f[j]
  OBVIOUS
<1> HIDE DEF g
<1>2. ASSUME NEW j \in Intents, NEW n \in 1 .. g[j]
      PROVE  <<j, n>> \in Recorded(f) /\ <<j, n>> # <<i, 1>>
  <2>1. j # i
    BY <1>1
  <2>2. n \in 1 .. f[j]
    BY <1>1, <2>1
  <2>3. <<j, n>> # <<i, 1>>
    BY <2>1
  <2> QED BY <2>2, <2>3, RecordedMember
<1>3. Recorded(g) \subseteq Recorded(f) \ {<<i, 1>>}
  <2> SUFFICES ASSUME NEW e \in Recorded(g) PROVE e \in Recorded(f) /\ e # <<i, 1>>
    OBVIOUS
  <2>1. PICK j \in Intents : \E n \in 1 .. g[j] : e = <<j, n>>
    BY <1>1, RecordedMember
  <2>2. PICK n \in 1 .. g[j] : e = <<j, n>>
    BY <2>1
  <2> QED BY <1>2, <2>2
<1>4. IsFiniteSet(Recorded(f)) /\ Total(f) \in Nat /\ Total(g) \in Nat
  BY <1>1, RecordedFinite
<1>5. Total(g) <= Total(f)
  BY <1>3, <1>4, FS_Subset DEF Total
<1>6. ASSUME f[i] > 0 PROVE Total(g) + 1 <= Total(f)
  <2>1. <<i, 1>> \in Recorded(f)
    <3>1. 1 \in 1 .. f[i]
      BY <1>6
    <3> QED BY <3>1, RecordedMember
  <2>2. /\ IsFiniteSet(Recorded(f) \ {<<i, 1>>})
        /\ Cardinality(Recorded(f) \ {<<i, 1>>}) = Total(f) - 1
    BY <1>4, <2>1, FS_RemoveElement DEF Total
  <2>3. Total(g) <= Cardinality(Recorded(f) \ {<<i, 1>>})
    BY <1>3, <2>2, FS_Subset DEF Total
  <2> QED BY <1>4, <2>2, <2>3
<1> QED BY <1>4, <1>5, <1>6 DEF g

\* An order at the broker has its row.
RowFirst == \A i \in Intents : book[i] <= (IF i \in rows THEN 1 ELSE 0)

\* The order in hand holds a reservation until it is settled.
SlotHeld == pc \in {"reserved", "placed"} => pending[Current] > 0

QuotaInv == RowFirst /\ SlotHeld /\ QuotaKept

\* One order more of an intent that has no row yet.
LEMMA RowThenOrder ==
    ASSUME TypeOK, RowFirst, NEW i \in Intents,
           rows' = rows \cup {i},
           \/ book' = book
           \/ i \notin rows /\ book' = [book EXCEPT ![i] = @ + 1]
    PROVE  RowFirst'
<1> SUFFICES ASSUME NEW j \in Intents PROVE book'[j] <= (IF j \in rows' THEN 1 ELSE 0)
  BY DEF RowFirst
<1>1. book[j] \in Nat /\ book[j] <= (IF j \in rows THEN 1 ELSE 0)
  BY DEF TypeOK, RowFirst
<1>2. CASE book' = book
  BY <1>1, <1>2
<1>3. CASE i \notin rows /\ book' = [book EXCEPT ![i] = @ + 1]
  <2>1. CASE j = i
    BY <1>1, <1>3, <2>1 DEF TypeOK
  <2>2. CASE j # i
    BY <1>1, <1>3, <2>2 DEF TypeOK
  <2> QED BY <2>1, <2>2
<1> QED BY <1>2, <1>3

\* The steps of the thread that touch neither reservations nor orders.
LEMMA TaskQuota ==
    ASSUME TypeInv, TaskStep
    PROVE  \/ UNCHANGED <<pending, submits, rows, book>> /\ pc' \notin {"reserved", "placed"}
           \/ Reserve \/ PlaceAccepted \/ PlaceFails \/ RecordSubmitted
<1> USE DEF Goto, Threaded, quota, broker
<1>1. CASE Restore \/ Top \/ Open \/ CheckpointOpen \/ AppendEnds
  BY <1>1 DEF Restore, Top, Open, CheckpointOpen, AppendEnds, SaveFails
<1>2. CASE ReadCandles
  <2>1. CASE UNCHANGED used
    BY <1>2 DEF ReadCandles
  <2> QED BY <1>2 DEF ReadCandles
<1>3. CASE Append \/ AppendFails \/ TakeIntents \/ ReadAccount \/ IntentsDone
  BY <1>3 DEF Append, AppendFails, TakeIntents, ReadAccount, IntentsDone
<1>4. CASE SkipIntent \/ IntentInvalid \/ RiskFenced \/ RiskRejects \/ CheckpointBar
  BY <1>4 DEF SkipIntent, IntentInvalid, RiskFenced, RiskRejects, Working, CheckpointBar, SaveFails
<1>5. CASE CycleError \/ CloseSessions \/ FailStatus \/ FailRelease
  BY <1>5 DEF CycleError, CloseSessions, FailStatus, FailRelease
<1> QED
  BY <1>1, <1>2, <1>3, <1>4, <1>5 DEF TaskStep

LEMMA QuotaTask == TypeInv /\ QuotaInv /\ TaskStep => QuotaInv'
<1> SUFFICES ASSUME TypeInv, QuotaInv, TaskStep PROVE QuotaInv'
  OBVIOUS
<1> USE StrategyAssumption DEF TypeInv, QuotaInv
<1>0. /\ pending \in [Intents -> Nat] /\ submits \in [Intents -> Nat]
      /\ Total(pending) \in Nat /\ Total(submits) \in Nat
  BY RecordedFinite DEF TypeOK
<1>1. CASE UNCHANGED <<pending, submits, rows, book>> /\ pc' \notin {"reserved", "placed"}
  BY <1>1 DEF RowFirst, SlotHeld, QuotaKept
<1>2. CASE Reserve
  <2>1. Current \in Intents /\ task' = task /\ UNCHANGED <<submits, rows, book>>
    BY <1>2, CurrentIn DEF Reserve, Working, broker
  <2>2. RowFirst'
    BY <2>1 DEF RowFirst
  <2>3. Current' = Current
    BY <2>1 DEF Current
  <2>4. CASE SlotsTaken < DailyMax
    <3>1. pending' = [pending EXCEPT ![Current] = @ + 1] /\ pc' = "reserved"
      BY <1>2, <2>4 DEF Reserve, Goto
    <3>2. pending'[Current] = pending[Current] + 1
      BY <1>0, <2>1, <3>1
    <3>3. SlotHeld'
      BY <1>0, <2>1, <2>3, <3>2 DEF SlotHeld
    <3>4. Total(pending') = Total(pending) + 1
      BY <1>0, <2>1, <3>1, TotalAdd
    <3>5. QuotaKept'
      BY <1>0, <2>1, <2>4, <3>4 DEF QuotaKept, SlotsTaken
    <3> QED BY <2>2, <3>3, <3>5
  <2>5. CASE ~(SlotsTaken < DailyMax)
    <3>1. pending' = pending /\ pc' = "error"
      BY <1>2, <2>5 DEF Reserve, Goto
    <3> QED BY <2>1, <2>2, <3>1 DEF SlotHeld, QuotaKept
  <2> QED BY <2>4, <2>5
<1>3. CASE PlaceAccepted
  <2>1. Current \in Intents /\ task' = task /\ UNCHANGED <<pending, submits>>
    BY <1>3, CurrentIn DEF PlaceAccepted, InHand, quota
  <2>2. RowFirst'
    BY <1>3, <2>1, RowThenOrder DEF PlaceAccepted
  <2>3. Current' = Current
    BY <2>1 DEF Current
  <2> QED BY <1>3, <2>1, <2>2, <2>3 DEF PlaceAccepted, SlotHeld, QuotaKept
<1>4. CASE PlaceFails
  <2>1. Current \in Intents /\ submits' = submits /\ pc' = "error"
    BY <1>4, CurrentIn DEF PlaceFails, InHand, ReleaseReservation, Goto
  <2>4. pending' = pending \/ pending' = [pending EXCEPT ![Current] = 0]
    BY <1>4 DEF PlaceFails, ReleaseReservation
  <2>2. RowFirst'
    <3>1. CASE UNCHANGED broker
      BY <3>1 DEF broker, RowFirst
    <3>2. CASE ~UNCHANGED broker
      <4>1. /\ Current \notin rows /\ rows' = rows \cup {Current}
            /\ book' = book \/ book' = [book EXCEPT ![Current] = @ + 1]
        BY <1>4, <3>2 DEF PlaceFails
      <4> QED BY <2>1, <4>1, RowThenOrder
    <3> QED BY <3>1, <3>2
  <2>3. Total(pending') \in Nat /\ Total(pending') <= Total(pending)
    <3>1. CASE pending' = pending
      BY <1>0, <3>1
    <3>2. CASE pending' = [pending EXCEPT ![Current] = 0]
      BY <1>0, <2>1, <3>2, TotalDrop
    <3> QED BY <2>4, <3>1, <3>2
  <2> QED BY <1>0, <2>1, <2>2, <2>3 DEF SlotHeld, QuotaKept
<1>5. CASE RecordSubmitted
  <2>1. Current \in Intents /\ UNCHANGED <<rows, book>> /\ pc' = "dispatch"
    BY <1>5, CurrentIn DEF RecordSubmitted, InHand, broker, Goto
  <2>2. pending[Current] > 0
    BY <1>5 DEF RecordSubmitted, SlotHeld
  <2>3. CASE UNCHANGED quota
    BY <2>1, <2>3 DEF quota, RowFirst, SlotHeld, QuotaKept
  <2>4. CASE /\ submits' = [submits EXCEPT ![Current] = @ + 1]
             /\ pending' = [pending EXCEPT ![Current] = 0]
    <3>1. Total(submits') = Total(submits) + 1
      BY <1>0, <2>1, <2>4, TotalAdd
    <3>2. Total(pending') \in Nat /\ Total(pending') + 1 <= Total(pending)
      BY <1>0, <2>1, <2>2, <2>4, TotalDrop
    <3> QED BY <1>0, <2>1, <3>1, <3>2 DEF RowFirst, SlotHeld, QuotaKept
  <2> QED BY <1>5, <2>3, <2>4 DEF RecordSubmitted
<1> QED BY <1>1, <1>2, <1>3, <1>4, <1>5, TaskQuota

LEMMA QuotaOther ==
    TypeInv /\ QuotaInv /\ (Lifecycle \/ Process \/ BarCloses \/ WorkerDies) => QuotaInv'
<1> SUFFICES ASSUME TypeInv, QuotaInv, Lifecycle \/ Process \/ BarCloses \/ WorkerDies PROVE QuotaInv'
  OBVIOUS
<1>1. UNCHANGED <<pending, submits>> /\ (UNCHANGED <<rows, book>> \/ CutShort)
  <2> USE DEF quota, broker
  <2>1. CASE Lifecycle
    BY <2>1 DEF Lifecycle, StartResume, StartBegin, StopBegin, DeleteBegin, BeginCancel, StartClaim,
       StartSpawn, StartFails, StartPublish, StartUndone, StopCommit, DeleteCommit, CancelTimeout,
       Pause, Edit, UpdateRisk
  <2>2. CASE Process
    BY <2>2 DEF Process, Crash, Ends, ShutdownBegin, ShutdownEnd, Restart
  <2>3. CASE BarCloses \/ WorkerDies
    BY <2>3 DEF BarCloses, WorkerDies
  <2> QED BY <2>1, <2>2, <2>3
<1>2. RowFirst'
  <2>1. CASE UNCHANGED <<rows, book>>
    BY <2>1 DEF QuotaInv, RowFirst
  <2>2. CASE CutShort
    <3>1. Current \in Intents
      BY <2>2, CurrentIn DEF CutShort, TypeInv, InHand
    <3> QED BY <2>2, <3>1, RowThenOrder DEF CutShort, QuotaInv, TypeInv
  <2> QED BY <1>1, <2>1, <2>2
<1>3. SlotHeld'
  <2>1. CASE UNCHANGED <<pc, task>>
    <3>1. Current' = Current
      BY <2>1 DEF Current
    <3> QED BY <1>1, <2>1, <3>1 DEF QuotaInv, SlotHeld
  <2>2. CASE ~UNCHANGED <<pc, task>>
    BY <2>2, ThreadMoves DEF SlotHeld
  <2> QED BY <2>1, <2>2
<1> QED BY <1>1, <1>2, <1>3 DEF QuotaInv, QuotaKept

LEMMA QuotaInvariant == Spec => [](TypeInv /\ QuotaInv)
<1>1. Init => QuotaInv
  <2> SUFFICES ASSUME Init PROVE QuotaInv
    OBVIOUS
  <2>1. ASSUME NEW f \in [Intents -> Nat], f = [i \in Intents |-> 0] PROVE Total(f) = 0
    <3>1. \A i \in Intents : 1 .. f[i] = {}
      BY <2>1
    <3>2. \A e : e \notin Recorded(f)
      BY <3>1, RecordedMember
    <3>3. Recorded(f) = {}
      BY <3>2
    <3> QED BY <3>3, FS_EmptySet DEF Total
  <2>2. Total(pending) = 0 /\ Total(submits) = 0
    BY <2>1, TypeInit DEF Init, TypeOK
  <2> QED BY <2>2, StrategyAssumption DEF Init, QuotaInv, RowFirst, SlotHeld, QuotaKept
<1>2. TypeInv /\ QuotaInv /\ UNCHANGED vars => QuotaInv'
  <2> SUFFICES ASSUME QuotaInv, UNCHANGED vars PROVE QuotaInv'
    OBVIOUS
  <2>1. Current' = Current
    BY DEF Current, vars
  <2> QED BY <2>1 DEF QuotaInv, RowFirst, SlotHeld, QuotaKept, vars
<1>3. TypeInv /\ QuotaInv /\ [Next]_vars => QuotaInv'
  BY <1>2, QuotaTask, QuotaOther DEF Next
<1> QED BY <1>1, <1>3, TypeInvInit, TypeInvStep, PTL DEF Spec

\* An intent reaches the broker at most once: its execution row is there before
\* the order can be, and answers every later attempt.
THEOREM OrderSentOnce == Spec => []OrdersOnce
<1>1. TypeInv /\ QuotaInv => OrdersOnce
  BY DEF TypeInv, TypeOK, QuotaInv, RowFirst, OrdersOnce
<1> QED BY <1>1, QuotaInvariant, PTL

\* Reservations and submissions together never exceed the daily limit.
THEOREM DailyLimit == Spec => []QuotaKept
  BY QuotaInvariant, PTL DEF QuotaInv

-----------------------------------------------------------------------------
(* The checkpoints: bars at or before one are never appended again.        *)

\* No checkpoint of any scope is beyond bar n.
NoneBeyond(n) == \A s \in Scopes : ckpt[s].last <= n

BaseCovered == \A s \in Scopes : baseline[s] <= ckpt[s].last /\ ckpt[s].last <= closed

LaterScopes == \A s \in Scopes : s > scope => ckpt[s].last = 0

NewestScope == ckpt[scope].last # 0 => NoneBeyond(ckpt[scope].last)

\* A thread that restored a checkpoint continues from the newest one.
Restored ==
    /\ pc = "restore" => task.last = 0
    /\ ~ThreadGone /\ pc # "restore" /\ task.last # 0 => NoneBeyond(task.last)

\* The bar in hand of a session being opened, and of one being extended.
Handling == {"answered", "account", "dispatch", "reserved", "placed", "checkpoint"}
BarInHand ==
    /\ pc \in {"open", "opened"} =>
          NoneBeyond(task.bar) /\ task.bar = (IF task.last = 0 THEN task.hi ELSE task.last)
    /\ pc \in Handling => (\A s \in Scopes : ckpt[s].last < task.bar) /\ task.last < task.bar

\* A worker session at the thread's revision has seen every checkpointed bar.
InStep ==
    task.revision # 0 /\ remote.revision = task.revision =>
        NoneBeyond(remote.last) /\ task.bar <= remote.last

ClosedBars == task.last <= closed /\ task.hi <= closed /\ task.bar <= closed

\* The intents to be dispatched are those of the bar in hand.
Dispatching == {"account", "dispatch", "reserved", "placed"}
DispatchesBar == pc \in Dispatching => \A i \in task.todo : i[1] = task.bar

HistInv ==
    /\ BaseCovered /\ LaterScopes /\ NewestScope /\ Restored /\ BarInHand
    /\ InStep /\ ClosedBars /\ DispatchesBar

\* The parts of a task and of the checkpoints are numbers.
LEMMA Numbers ==
    ASSUME TypeOK
    PROVE  /\ task.last \in Nat /\ task.hi \in Nat /\ task.bar \in Nat /\ task.lo \in Nat
           /\ task.revision \in Nat /\ remote.last \in Nat /\ remote.revision \in Nat
           /\ closed \in Nat /\ scope \in Nat /\ scope \in Scopes
           /\ \A s \in Scopes : s \in Nat /\ ckpt[s].last \in Nat /\ baseline[s] \in Nat
<1> USE StrategyAssumption
<1>1. task.last \in Nat /\ task.hi \in Nat /\ task.bar \in Nat /\ task.lo \in Nat /\ task.revision \in Nat
  BY DEF TypeOK, Task
<1>2. remote.last \in Nat /\ remote.revision \in Nat
  BY DEF TypeOK, Session
<1>3. closed \in Nat /\ scope \in Nat /\ scope \in Scopes
  BY DEF TypeOK, Scopes
<1>4. ASSUME NEW s \in Scopes PROVE s \in Nat /\ ckpt[s].last \in Nat /\ baseline[s] \in Nat
  <2>1. ckpt[s] \in Checkpoint
    BY DEF TypeOK
  <2> QED BY <2>1 DEF TypeOK, Checkpoint, Scopes
<1> QED BY <1>1, <1>2, <1>3, <1>4

\* Steps that read the checkpoints only: the thread keeps the bar in hand and
\* its session, and at most drops intents.
HistQuiet ==
    /\ UNCHANGED <<ckpt, baseline, scope>> /\ closed <= closed' /\ closed' \in Nat
    /\ task'.last = task.last /\ task'.hi = task.hi /\ task'.bar = task.bar
    /\ task'.revision = task.revision
    /\ remote' \in {remote, NoSession}
    /\ \/ UNCHANGED <<pc, task>>
       \/ /\ pc \notin {"none", "done", "restore"} /\ pc' \notin {"open", "opened", "restore"}
          /\ pc' \in Handling => pc \in Handling
          /\ pc' \in Dispatching => pc \in Dispatching /\ task'.todo \subseteq task.todo

LEMMA HistKinds ==
    ASSUME TypeOK, TaskStep
    PROVE  HistQuiet \/ Restore \/ ReadCandles \/ Open \/ CheckpointOpen \/ Append
           \/ AppendFails \/ TakeIntents \/ CheckpointBar
<1> USE Numbers DEF Goto, Threaded, HistQuiet, Handling, Dispatching, history
<1>1. CASE Top
  BY <1>1 DEF Top, TypeOK, Task
<1>2. CASE AppendEnds \/ ReadAccount \/ IntentsDone
  BY <1>2 DEF AppendEnds, ReadAccount, IntentsDone
<1>3. CASE SkipIntent
  BY <1>3 DEF SkipIntent, Working, Drop, TypeOK, Task
<1>4. CASE IntentInvalid \/ RiskFenced \/ RiskRejects \/ Reserve
  BY <1>4 DEF IntentInvalid, RiskFenced, RiskRejects, Reserve, Working
<1>5. CASE PlaceAccepted \/ PlaceFails
  BY <1>5 DEF PlaceAccepted, PlaceFails
<1>6. CASE RecordSubmitted
  BY <1>6 DEF RecordSubmitted, TypeOK, Task
<1>7. CASE CycleError \/ FailStatus \/ FailRelease \/ CloseSessions
  BY <1>7 DEF CycleError, FailStatus, FailRelease, CloseSessions
<1> QED BY <1>1, <1>2, <1>3, <1>4, <1>5, <1>6, <1>7 DEF TaskStep

LEMMA HistQuietKeeps == TypeOK /\ HistInv /\ HistQuiet => HistInv'
<1> SUFFICES ASSUME TypeOK, HistInv, HistQuiet PROVE HistInv'
  OBVIOUS
<1> USE Numbers DEF HistInv, HistQuiet, NoneBeyond
<1>1. BaseCovered' /\ LaterScopes' /\ NewestScope'
  BY DEF BaseCovered, LaterScopes, NewestScope
<1>2. Restored'
  BY DEF Restored, ThreadGone
<1>3. BarInHand'
  BY DEF BarInHand
<1>4. InStep'
  BY DEF InStep, NoSession
<1>5. ClosedBars'
  BY DEF ClosedBars
<1>6. DispatchesBar'
  BY DEF DispatchesBar
<1> QED BY <1>1, <1>2, <1>3, <1>4, <1>5, <1>6

\* A checkpoint of a bar that none is beyond.
LEMMA HistSave ==
    ASSUME TypeOK, HistInv, NEW f \in Nat, SaveCheckpoint(f), UNCHANGED <<scope, closed, remote>>,
           NoneBeyond(task.bar), f <= task.bar, pc' \in {"top", "append"}
    PROVE  HistInv'
<1> USE Numbers DEF HistInv
<1>1. /\ task'.last = task.bar /\ task'.hi = task.hi /\ task'.bar = task.bar
      /\ task'.revision = task.revision
  BY DEF SaveCheckpoint, TypeOK, Task
<1>2. ckpt'[scope].last = task.bar /\ \A s \in Scopes : s # scope => ckpt'[s] = ckpt[s]
  BY DEF SaveCheckpoint, TypeOK
<1>3. /\ baseline'[scope] = (IF baseline[scope] = 0 THEN f ELSE baseline[scope])
      /\ \A s \in Scopes : s # scope => baseline'[s] = baseline[s]
  BY DEF SaveCheckpoint, TypeOK
<1>4. \A s \in Scopes : ckpt'[s].last <= task.bar
  BY <1>2 DEF NoneBeyond
<1>5. BaseCovered'
  <2> SUFFICES ASSUME NEW s \in Scopes
               PROVE  baseline'[s] <= ckpt'[s].last /\ ckpt'[s].last <= closed
    BY DEF BaseCovered
  <2>1. CASE s = scope
    BY <1>2, <1>3, <2>1 DEF BaseCovered, ClosedBars, NoneBeyond
  <2>2. CASE s # scope
    BY <1>2, <1>3, <2>2 DEF BaseCovered
  <2> QED BY <2>1, <2>2
<1>6. LaterScopes'
  BY <1>2 DEF LaterScopes
<1>7. NewestScope'
  BY <1>2, <1>4 DEF NewestScope, NoneBeyond
<1>8. Restored'
  BY <1>1, <1>4 DEF Restored, NoneBeyond
<1>9. BarInHand' /\ DispatchesBar'
  BY DEF BarInHand, DispatchesBar, Handling, Dispatching
<1>10. InStep'
  <2> SUFFICES ASSUME task.revision # 0, remote.revision = task.revision
               PROVE  (\A s \in Scopes : ckpt'[s].last <= remote.last) /\ task.bar <= remote.last
    BY <1>1 DEF InStep, NoneBeyond
  <2>1. task.bar <= remote.last
    BY DEF InStep
  <2>2. ASSUME NEW s \in Scopes PROVE ckpt'[s].last <= remote.last
    <3>1. CASE s = scope
      BY <1>2, <2>1, <3>1
    <3>2. CASE s # scope
      BY <1>2, <3>2 DEF InStep, NoneBeyond
    <3> QED BY <3>1, <3>2
  <2> QED BY <2>1, <2>2
<1>11. ClosedBars'
  BY <1>1 DEF ClosedBars
<1> QED BY <1>5, <1>6, <1>7, <1>8, <1>9, <1>10, <1>11

LEMMA HistTask == TypeInv /\ HistInv /\ TaskStep => HistInv'
<1> SUFFICES ASSUME TypeOK, HistInv, TaskStep PROVE HistInv'
  BY DEF TypeInv
<1> USE Numbers DEF HistInv, Goto, Threaded, NoneBeyond
<1>1. CASE Restore
  <2>1. UNCHANGED <<ckpt, baseline, scope, closed, remote>> /\ pc' \in {"top", "failing"}
    BY <1>1 DEF Restore, history
  <2>2. /\ task'.hi = task.hi /\ task'.bar = task.bar /\ task'.revision = task.revision
        /\ task'.last = ckpt[scope].last \/ task'.last = task.last
    BY <1>1 DEF Restore, TypeOK, Task
  <2>3. task.last = 0
    BY <1>1 DEF Restore, Restored
  <2>4. BaseCovered' /\ LaterScopes' /\ NewestScope'
    BY <2>1 DEF BaseCovered, LaterScopes, NewestScope
  <2>5. Restored'
    BY <2>1, <2>2, <2>3 DEF Restored, NewestScope
  <2>6. BarInHand' /\ DispatchesBar'
    BY <2>1 DEF BarInHand, DispatchesBar, Handling, Dispatching
  <2>7. InStep'
    BY <2>1, <2>2 DEF InStep
  <2>8. ClosedBars'
    BY <2>1, <2>2, <2>3 DEF ClosedBars, BaseCovered
  <2> QED BY <2>4, <2>5, <2>6, <2>7, <2>8
<1>2. CASE ReadCandles
  <2>1. UNCHANGED <<ckpt, baseline, scope, closed, remote>>
    BY <1>2 DEF ReadCandles, history
  <2>2. /\ task'.hi = closed /\ task'.last = task.last /\ task'.revision = task.revision
        /\ task'.bar = (IF task.revision = 0 THEN WarmupBar ELSE task.bar)
    BY <1>2 DEF ReadCandles, TypeOK, Task
  <2>3. pc' \in {"closing", "append", "top", "open", "error"} /\ (pc' = "open" => task.revision = 0)
    <3>1. CASE UNCHANGED used
      BY <1>2 DEF ReadCandles
    <3> QED BY <1>2 DEF ReadCandles
  <2>4. BaseCovered' /\ LaterScopes' /\ NewestScope'
    BY <2>1 DEF BaseCovered, LaterScopes, NewestScope
  <2>5. Restored'
    BY <1>2, <2>1, <2>2, <2>3 DEF Restored, ReadCandles, ThreadGone
  <2>6. BarInHand'
    <3> SUFFICES ASSUME pc' = "open"
                 PROVE  /\ \A s \in Scopes : ckpt[s].last <= task'.bar
                        /\ task'.bar = (IF task'.last = 0 THEN task'.hi ELSE task'.last)
      BY <2>1, <2>3 DEF BarInHand, Handling
    <3>1. task'.bar = IF task.last = 0 THEN closed ELSE task.last
      BY <2>2, <2>3 DEF WarmupBar
    <3> QED BY <1>2, <2>2, <3>1 DEF BaseCovered, Restored, ThreadGone, ReadCandles
  <2>7. InStep'
    BY <2>1, <2>2 DEF InStep
  <2>8. ClosedBars'
    BY <2>1, <2>2 DEF ClosedBars, WarmupBar
  <2>9. DispatchesBar'
    BY <2>3 DEF DispatchesBar, Dispatching
  <2> QED BY <2>4, <2>5, <2>6, <2>7, <2>8, <2>9
<1>3. CASE Open
  <2>1. UNCHANGED <<ckpt, baseline, scope, closed>> /\ pc' \in {"opened", "closing", "error"}
    BY <1>3 DEF Open, history
  <2>2. /\ task'.hi = task.hi /\ task'.last = task.last /\ task'.bar = task.bar
        /\ \/ task'.revision = task.revision /\ remote' \in {remote, Opened}
           \/ task'.revision = 1 /\ remote' = Opened
    BY <1>3 DEF Open, TypeOK, Task
  <2>3. BaseCovered' /\ LaterScopes' /\ NewestScope'
    BY <2>1 DEF BaseCovered, LaterScopes, NewestScope
  <2>4. Restored'
    BY <1>3, <2>1, <2>2 DEF Restored, Open, ThreadGone
  <2>5. BarInHand' /\ DispatchesBar'
    BY <1>3, <2>1, <2>2 DEF BarInHand, DispatchesBar, Open, Handling, Dispatching
  <2>6. InStep'
    <3>1. \A s \in Scopes : ckpt[s].last <= task.bar
      BY <1>3 DEF Open, BarInHand
    <3>2. CASE remote' = Opened
      BY <2>1, <2>2, <3>1, <3>2 DEF InStep, Opened
    <3>3. CASE remote' = remote /\ task'.revision = task.revision
      BY <2>1, <2>2, <3>3 DEF InStep
    <3> QED BY <2>2, <3>2, <3>3
  <2>7. ClosedBars'
    BY <2>1, <2>2 DEF ClosedBars
  <2> QED BY <2>3, <2>4, <2>5, <2>6, <2>7
<1>4. CASE CheckpointOpen
  <2> DEFINE f == IF task.last = 0 THEN task.hi ELSE task.last
  <2>1. UNCHANGED <<scope, closed, remote>> /\ f \in Nat /\ f <= task.bar /\ NoneBeyond(task.bar)
    BY <1>4 DEF CheckpointOpen, BarInHand
  <2>2. CASE SaveCheckpoint(f) /\ pc' \in {"top", "append"}
    <3> HIDE DEF f
    <3> QED BY <2>1, <2>2, HistSave
  <2>3. CASE SaveFails
    <3>1. HistQuiet
      BY <1>4, <2>3 DEF CheckpointOpen, SaveFails, HistQuiet, Handling, Dispatching
    <3> QED BY <3>1, HistQuietKeeps
  <2> QED BY <1>4, <2>2, <2>3 DEF CheckpointOpen
<1>5. CASE Append
  <2>1. UNCHANGED <<ckpt, baseline, scope, closed>> /\ pc = "append" /\ pc' = "answered"
    BY <1>5 DEF Append, history
  <2>2. /\ task'.hi = task.hi /\ task'.last = task.last /\ task'.bar = NextBar
        /\ task'.revision = task.revision + 1
    BY <1>5 DEF Append, TypeOK, Task
  <2>3. remote' = Appended /\ Accepts /\ NextBar <= task.hi /\ NextBar \in Nat /\ task.last < NextBar
    BY <1>5 DEF Append, NextBar
  <2>4. BaseCovered' /\ LaterScopes' /\ NewestScope'
    BY <2>1 DEF BaseCovered, LaterScopes, NewestScope
  <2>5. Restored'
    BY <2>1, <2>2 DEF Restored, ThreadGone
  <2>6. \A s \in Scopes : ckpt[s].last < NextBar
    BY <2>3 DEF Accepts, InStep
  <2>7. BarInHand' /\ DispatchesBar'
    BY <2>1, <2>2, <2>3, <2>6 DEF BarInHand, DispatchesBar, Handling, Dispatching
  <2>8. InStep'
    BY <2>1, <2>2, <2>3, <2>6 DEF InStep, Appended
  <2>9. ClosedBars'
    BY <2>1, <2>2, <2>3 DEF ClosedBars
  <2> QED BY <2>4, <2>5, <2>7, <2>8, <2>9
<1>6. CASE AppendFails
  <2>1. UNCHANGED <<ckpt, baseline, scope, closed>> /\ pc = "append" /\ pc' = "top"
    BY <1>6 DEF AppendFails, history
  <2>2. task'.hi = task.hi /\ task'.last = task.last /\ task'.bar = task.bar /\ task'.revision = 0
    BY <1>6 DEF AppendFails, TypeOK, Task
  <2>3. BaseCovered' /\ LaterScopes' /\ NewestScope'
    BY <2>1 DEF BaseCovered, LaterScopes, NewestScope
  <2>4. Restored'
    BY <2>1, <2>2 DEF Restored, ThreadGone
  <2> QED
    BY <2>1, <2>2, <2>3, <2>4 DEF BarInHand, DispatchesBar, Handling, Dispatching, InStep, ClosedBars
<1>7. CASE TakeIntents
  <2>1. UNCHANGED <<ckpt, baseline, scope, closed, remote>> /\ pc = "answered"
        /\ pc' \in {"closing", "checkpoint", "account"}
    BY <1>7 DEF TakeIntents, history
  <2>2. /\ task'.hi = task.hi /\ task'.last = task.last /\ task'.bar = task.bar
        /\ task'.revision = task.revision /\ (pc' = "account" => task'.todo = FreshIntents)
    BY <1>7 DEF TakeIntents, TypeOK, Task
  <2>3. BaseCovered' /\ LaterScopes' /\ NewestScope'
    BY <2>1 DEF BaseCovered, LaterScopes, NewestScope
  <2>4. Restored'
    BY <2>1, <2>2 DEF Restored, ThreadGone
  <2>5. BarInHand'
    BY <2>1, <2>2 DEF BarInHand, Handling
  <2>6. DispatchesBar'
    BY <2>1, <2>2 DEF DispatchesBar, Dispatching, FreshIntents
  <2>7. InStep' /\ ClosedBars'
    BY <2>1, <2>2 DEF InStep, ClosedBars
  <2> QED BY <2>3, <2>4, <2>5, <2>6, <2>7
<1>8. CASE CheckpointBar
  <2>1. UNCHANGED <<scope, closed, remote>> /\ task.last <= task.bar /\ NoneBeyond(task.bar)
    BY <1>8 DEF CheckpointBar, BarInHand, Handling
  <2>2. CASE SaveCheckpoint(task.last) /\ pc' = "append"
    BY <2>1, <2>2, HistSave
  <2>3. CASE SaveFails
    <3>1. HistQuiet
      BY <1>8, <2>3 DEF CheckpointBar, SaveFails, HistQuiet, Handling, Dispatching
    <3> QED BY <3>1, HistQuietKeeps
  <2> QED BY <1>8, <2>2, <2>3 DEF CheckpointBar
<1> QED
  BY <1>1, <1>2, <1>3, <1>4, <1>5, <1>6, <1>7, <1>8, HistKinds, HistQuietKeeps

LEMMA HistOther ==
    TypeInv /\ HistInv /\ (Lifecycle \/ Process \/ BarCloses \/ WorkerDies) => HistInv'
<1> SUFFICES ASSUME TypeOK, HistInv, Lifecycle \/ Process \/ BarCloses \/ WorkerDies PROVE HistInv'
  BY DEF TypeInv
<1> USE Numbers
<1>1. /\ UNCHANGED <<ckpt, baseline>> /\ remote' \in {remote, NoSession}
      /\ closed' \in Nat /\ closed <= closed'
      /\ scope' = scope \/ (scope' = scope + 1 /\ UNCHANGED <<pc, task>>)
  <2> USE DEF history, store, manager
  <2>1. CASE Lifecycle
    BY <2>1 DEF Lifecycle, StartResume, StartBegin, StopBegin, DeleteBegin, BeginCancel, StartClaim,
       StartSpawn, StartFails, StartPublish, StartUndone, StopCommit, DeleteCommit, CancelTimeout,
       Pause, Edit, UpdateRisk
  <2>2. CASE Process
    BY <2>2 DEF Process, Crash, Ends, ShutdownBegin, ShutdownEnd, Restart
  <2>3. CASE BarCloses \/ WorkerDies
    BY <2>3 DEF BarCloses, WorkerDies
  <2> QED BY <2>1, <2>2, <2>3
<1>2. BaseCovered'
  BY <1>1 DEF HistInv, BaseCovered
<1>3. LaterScopes' /\ NewestScope'
  <2>1. CASE scope' = scope
    BY <1>1, <2>1 DEF HistInv, LaterScopes, NewestScope, NoneBeyond
  <2>2. CASE scope' = scope + 1
    <3>1. LaterScopes'
      BY <1>1, <2>2 DEF HistInv, LaterScopes
    <3>2. scope' \in Scopes
      BY TypeLifecycle, <2>2, TypeEnvironment DEF Process, Crash, Ends, ShutdownBegin, ShutdownEnd,
         Restart, store, TypeOK
    <3>3. ckpt[scope'].last = 0
      BY <2>2, <3>2 DEF HistInv, LaterScopes
    <3> QED BY <1>1, <3>1, <3>3 DEF NewestScope
  <2> QED BY <1>1, <2>1, <2>2
<1>4. CASE UNCHANGED <<pc, task>>
  BY <1>1, <1>2, <1>3, <1>4 DEF HistInv, Restored, ThreadGone, BarInHand, InStep, ClosedBars,
     DispatchesBar, NoneBeyond, NoSession
<1>5. CASE pc' \in {"none", "restore"} /\ \E s \in Scopes : task' = NewTask(s)
  BY <1>1, <1>2, <1>3, <1>5 DEF HistInv, Restored, ThreadGone, BarInHand, InStep, ClosedBars,
     DispatchesBar, NewTask, Handling, Dispatching
<1>6. 0 \in Scopes
  BY StrategyAssumption DEF Scopes
<1> QED BY <1>4, <1>5, <1>6, ThreadMoves

LEMMA HistInvariant == Spec => [](TypeInv /\ HistInv)
<1>1. Init => HistInv
  <2> SUFFICES ASSUME Init PROVE HistInv
    OBVIOUS
  <2>1. \A s \in Scopes : ckpt[s].last = 0 /\ baseline[s] = 0
    BY DEF Init, NoCheckpoint
  <2>2. /\ task.last = 0 /\ task.hi = 0 /\ task.bar = 0 /\ task.revision = 0
        /\ pc = "none" /\ closed = 0 /\ scope \in Scopes
    BY StrategyAssumption DEF Init, NewTask, Scopes
  <2> QED BY <2>1, <2>2 DEF HistInv, BaseCovered, LaterScopes, NewestScope, Restored, ThreadGone,
             BarInHand, InStep, ClosedBars, DispatchesBar, NoneBeyond, Handling, Dispatching
<1>2. TypeInv /\ HistInv /\ UNCHANGED vars => HistInv'
  BY DEF vars, HistInv, BaseCovered, LaterScopes, NewestScope, Restored, ThreadGone,
     BarInHand, InStep, ClosedBars, DispatchesBar, NoneBeyond
<1>3. TypeInv /\ HistInv /\ [Next]_vars => HistInv'
  BY <1>2, HistTask, HistOther DEF Next
<1> QED BY <1>1, <1>3, TypeInvInit, TypeInvStep, PTL DEF Spec

\* The broker's book grows by the intent in hand only.
LEMMA BookGrows ==
    ASSUME TypeInv, Next, NEW i \in Intents, book'[i] > book[i]
    PROVE  i = Current /\ pc = "reserved"
<1>1. book \in [Intents -> Nat]
  BY DEF TypeInv, TypeOK
<1>2. ASSUME pc = "reserved",
             book' = book \/ book' = [book EXCEPT ![Current] = @ + 1]
      PROVE  i = Current /\ pc = "reserved"
  BY <1>1, <1>2
<1>3. book' # book
  BY <1>1
<1>4. CASE TaskStep
  <2>1. CASE PlaceAccepted \/ PlaceFails
    BY <1>2, <2>1 DEF PlaceAccepted, PlaceFails, broker
  <2>2. CASE Reserve \/ RecordSubmitted
    BY <1>3, <2>2 DEF Reserve, RecordSubmitted, broker
  <2> QED BY <1>3, <1>4, <2>1, <2>2, TaskQuota
<1>5. CASE Lifecycle
  BY <1>3, <1>5 DEF Lifecycle, StartResume, StartBegin, StopBegin, DeleteBegin, BeginCancel, StartClaim,
     StartSpawn, StartFails, StartPublish, StartUndone, StopCommit, DeleteCommit, CancelTimeout,
     Pause, Edit, UpdateRisk, broker
<1>6. CASE Process
  BY <1>2, <1>3, <1>6 DEF Process, Crash, Ends, ShutdownBegin, ShutdownEnd, Restart, CutShort, broker
<1>7. CASE BarCloses \/ WorkerDies
  BY <1>3, <1>7 DEF BarCloses, WorkerDies, broker
<1> QED BY <1>4, <1>5, <1>6, <1>7 DEF Next

\* No order is sent for a bar of the history a scope's first session was warmed
\* up with, however often the session is reopened, the thread restarted or the
\* binding edited.
THEOREM HistoryStaysHistory == Spec => HistoryNotTraded
<1>1. TypeInv /\ HistInv /\ [Next]_vars =>
        [\A i \in Intents : book'[i] > book[i] => i[1] > baseline[task.scope]]_vars
  <2> SUFFICES ASSUME TypeInv, HistInv, Next, NEW i \in Intents, book'[i] > book[i]
               PROVE  i[1] > baseline[task.scope]
    BY DEF vars
  <2>1. i = Current /\ pc = "reserved"
    BY BookGrows
  <2>2. i \in task.todo
    BY <2>1, CurrentIn DEF TypeInv, InHand
  <2>3. i[1] = task.bar
    BY <2>1, <2>2 DEF HistInv, DispatchesBar, Dispatching
  <2>4. task.scope \in Scopes
    BY DEF TypeInv, TypeOK, Task
  <2>5. ckpt[task.scope].last < task.bar /\ baseline[task.scope] <= ckpt[task.scope].last
    BY <2>1, <2>4 DEF HistInv, BarInHand, BaseCovered, Handling
  <2> QED BY <2>3, <2>4, <2>5, Numbers DEF TypeInv
<1> QED BY <1>1, HistInvariant, PTL DEF Spec, HistoryNotTraded

-----------------------------------------------------------------------------
(* Signals, as long as nobody pauses the instance and a candle read reaches *)
(* back to the first bar.                                                   *)

Undisturbed == MaxPauses = 0 /\ ~PauseOnReject /\ Window >= MaxBars

NeverPaused == status # "PAUSED"

\* An instance that is starting has no thread before the start spawns one.
StartingGone == status = "STARTING" /\ mut # "spawned" => ThreadGone

\* The cycle of a thread that has met no error.
Trading == {"top", "read", "open", "opened", "append"} \cup Handling

LastSaved == pc \in Trading => task.last = ckpt[scope].last

LoOne == task.lo <= 1

BarNext == pc \in Handling => task.bar = task.last + 1

\* The keys that count as submitted were handled, except those in hand.
InHands == IF pc \in Dispatching THEN task.todo ELSE {}
SavedKeys == \A s \in Scopes : ckpt[s].keys \subseteq handled
TaskKeys ==
    /\ pc \in Trading => task.keys \subseteq handled \cup InHands
    /\ pc = "placed" => Current \in handled
    /\ pc \in Handling \ {"answered"} => {i \in Intents : i[1] = task.bar} \subseteq task.keys

\* Every intent between a scope's history and its checkpoint was handled.
SignalsDone ==
    \A s \in Scopes : \A i \in Intents :
        i[1] > baseline[s] /\ i[1] <= ckpt[s].last => i \in handled

SigInv ==
    /\ NeverPaused /\ StartingGone /\ LastSaved /\ LoOne /\ BarNext /\ SavedKeys /\ TaskKeys
    /\ SignalsDone

\* Steps of the thread that leave checkpoints and keys alone.
SigQuiet ==
    /\ UNCHANGED <<ckpt, baseline, scope, task>> /\ handled \subseteq handled'
    /\ pc' \in Trading => pc \in Trading
    /\ pc' \in Handling => pc \in Handling
    /\ pc' \in Dispatching => pc \in Dispatching
    /\ pc \in Dispatching /\ pc' \in Trading \ Dispatching => task.todo = {}
    /\ pc' = "placed" => Current \in handled'
    /\ pc' \in Handling \ {"answered"} => pc \in Handling \ {"answered"}

LEMMA SigStatus ==
    ASSUME Undisturbed, TypeInv, LifeInv, NeverPaused, StartingGone, Next
    PROVE  NeverPaused' /\ StartingGone'
<1>1. CASE TaskStep
  <2>1. status' # "PAUSED"
    <3>1. CASE RiskRejects
      BY <3>1 DEF RiskRejects, Undisturbed, NeverPaused
    <3>2. CASE ~RiskRejects
      <4>1. status' = status \/ FailStatus
        BY <1>1, <3>2 DEF TaskStep, Restore, Top, ReadCandles, Open, CheckpointOpen, AppendEnds, Append,
           AppendFails, TakeIntents, ReadAccount, IntentsDone, SkipIntent, IntentInvalid, RiskFenced,
           Reserve, PlaceAccepted, PlaceFails, RecordSubmitted, CheckpointBar, CycleError, FailRelease,
           CloseSessions
      <4> QED BY <4>1 DEF NeverPaused, FailStatus
    <3> QED BY <3>1, <3>2
  <2> QED
    BY <1>1, <2>1, TaskEffect DEF TypeInv, NeverPaused, StartingGone, Quiet, FailStatus, FailRelease,
       ThreadGone, Goto
<1>2. CASE Lifecycle
  <2> USE DEF NeverPaused, StartingGone, ThreadGone, Idle, Cas, manager, store
  <2>1. CASE StartResume \/ StartBegin \/ StopBegin \/ DeleteBegin
    BY <2>1 DEF StartResume, Resumes, StartBegin, StopBegin, DeleteBegin, BeginCancel
  <2>2. CASE StartClaim
    BY <2>2 DEF StartClaim, Joined, LifeInv, OwnedThread
  <2>3. CASE StartSpawn \/ StartFails \/ StartPublish
    BY <2>3 DEF StartSpawn, StartFails, StartPublish
  <2>4. CASE StartUndone \/ StopCommit \/ DeleteCommit
    BY <2>4 DEF StartUndone, StopCommit, DeleteCommit
  <2>5. CASE CancelTimeout
    BY <2>5 DEF CancelTimeout
  <2>6. ~Pause
    BY DEF Pause, Undisturbed, TypeInv, TypeOK
  <2>7. CASE Edit \/ UpdateRisk
    BY <2>7 DEF Edit, UpdateRisk
  <2> QED BY <1>2, <2>1, <2>2, <2>3, <2>4, <2>5, <2>6, <2>7 DEF Lifecycle
<1>3. CASE Process
  BY <1>3 DEF Process, Crash, Ends, ShutdownBegin, ShutdownEnd, Restart, NeverPaused, StartingGone,
     ThreadGone, Cas, store, Idle, LifeInv, DownMeansNothing
<1>4. CASE BarCloses \/ WorkerDies
  BY <1>4 DEF BarCloses, WorkerDies, NeverPaused, StartingGone, ThreadGone, manager, store
<1> QED BY <1>1, <1>2, <1>3, <1>4 DEF Next

LEMMA SigQuietKeeps ==
    TypeInv /\ SigInv /\ SigQuiet
      => LastSaved' /\ LoOne' /\ BarNext' /\ SavedKeys' /\ TaskKeys' /\ SignalsDone'
<1> SUFFICES ASSUME TypeInv, SigInv, SigQuiet
             PROVE  LastSaved' /\ LoOne' /\ BarNext' /\ SavedKeys' /\ TaskKeys' /\ SignalsDone'
  OBVIOUS
<1> USE DEF SigInv, SigQuiet
<1>1. LastSaved' /\ LoOne' /\ BarNext'
  BY DEF LastSaved, LoOne, BarNext
<1>2. SavedKeys' /\ SignalsDone'
  BY DEF SavedKeys, SignalsDone
<1>3. Current' = Current
  BY DEF Current
<1>4. TaskKeys'
  BY <1>3 DEF TaskKeys, InHands
<1> QED BY <1>1, <1>2, <1>4

LEMMA SigKinds ==
    ASSUME TypeInv, NeverPaused, TaskStep
    PROVE  SigQuiet \/ Restore \/ Top \/ ReadCandles \/ Open \/ CheckpointOpen \/ Append
           \/ AppendFails \/ TakeIntents \/ SkipIntent \/ RecordSubmitted \/ CheckpointBar
<1> USE DEF Goto, Threaded, SigQuiet, Trading, Handling, Dispatching, history
<1>1. CASE AppendEnds \/ ReadAccount \/ IntentsDone
  BY <1>1 DEF AppendEnds, ReadAccount, IntentsDone
<1>2. CASE IntentInvalid \/ RiskFenced \/ RiskRejects \/ Reserve
  BY <1>2 DEF IntentInvalid, RiskFenced, RiskRejects, Reserve, Working
<1>3. CASE PlaceAccepted \/ PlaceFails
  BY <1>3 DEF PlaceAccepted, PlaceFails, Attempted
<1>4. CASE CycleError \/ FailStatus \/ FailRelease \/ CloseSessions
  BY <1>4 DEF CycleError, FailStatus, FailRelease, CloseSessions, NeverPaused
<1> QED BY <1>1, <1>2, <1>3, <1>4 DEF TaskStep

\* A checkpoint of the bar in hand, with the keys so far.
LEMMA SigSave ==
    ASSUME TypeInv, HistInv, SigInv, NEW f \in Nat, SaveCheckpoint(f), UNCHANGED <<scope, handled>>,
           pc \in {"opened", "checkpoint"}, pc' \in {"top", "append"},
           ckpt[scope].last <= task.bar, ckpt[scope].last = 0 \/ ckpt[scope].last <= f,
           \A i \in Intents : i[1] > ckpt[scope].last /\ i[1] <= task.bar => i \in handled \/ i[1] <= f,
           baseline[scope] # 0 =>
             \A i \in Intents : i[1] > ckpt[scope].last /\ i[1] <= task.bar => i \in handled
    PROVE  LastSaved' /\ LoOne' /\ BarNext' /\ SavedKeys' /\ TaskKeys' /\ SignalsDone'
<1> USE Numbers DEF TypeInv
<1>1. task'.last = task.bar /\ task'.lo = task.lo /\ task'.bar = task.bar /\ task'.keys = task.keys
  BY DEF SaveCheckpoint, TypeOK, Task
<1>2. /\ ckpt'[scope] = [last |-> task.bar, keys |-> task.keys]
      /\ \A s \in Scopes : s # scope => ckpt'[s] = ckpt[s]
  BY DEF SaveCheckpoint, TypeOK
<1>3. /\ baseline'[scope] = (IF baseline[scope] = 0 THEN f ELSE baseline[scope])
      /\ \A s \in Scopes : s # scope => baseline'[s] = baseline[s]
  BY DEF SaveCheckpoint, TypeOK
<1>4. task.keys \subseteq handled
  BY DEF SigInv, TaskKeys, InHands, Trading, Handling, Dispatching
<1>5. LastSaved' /\ LoOne'
  BY <1>1, <1>2 DEF SigInv, LastSaved, LoOne
<1>6. BarNext'
  BY DEF BarNext, Handling
<1>7. SavedKeys'
  <2> SUFFICES ASSUME NEW s \in Scopes PROVE ckpt'[s].keys \subseteq handled
    BY DEF SavedKeys
  <2>1. CASE s = scope
    BY <1>2, <1>4, <2>1
  <2>2. CASE s # scope
    BY <1>2, <2>2 DEF SigInv, SavedKeys
  <2> QED BY <2>1, <2>2
<1>8. TaskKeys'
  BY <1>1, <1>4 DEF TaskKeys, InHands, Handling, Dispatching
<1>9. SignalsDone'
  <2> SUFFICES ASSUME NEW s \in Scopes, NEW i \in Intents,
                      i[1] > baseline'[s], i[1] <= ckpt'[s].last
               PROVE  i \in handled
    BY DEF SignalsDone
  <2>0. i[1] \in Nat
    BY StrategyAssumption DEF Intents, Bars
  <2>1. CASE s = scope
    <3>1. i[1] <= task.bar
      BY <1>2, <2>1
    <3>2. CASE baseline[scope] = 0
      BY <1>3, <2>0, <2>1, <3>1, <3>2 DEF SigInv, SignalsDone
    <3>3. CASE baseline[scope] # 0
      BY <1>3, <2>0, <2>1, <3>1, <3>3 DEF SigInv, SignalsDone
    <3> QED BY <3>2, <3>3
  <2>2. CASE s # scope
    BY <1>2, <1>3, <2>2 DEF SigInv, SignalsDone
  <2> QED BY <2>1, <2>2
<1> QED BY <1>5, <1>6, <1>7, <1>8, <1>9

LEMMA SigTask ==
    ASSUME Undisturbed, TypeInv, HistInv, SigInv, TaskStep
    PROVE  LastSaved' /\ LoOne' /\ BarNext' /\ SavedKeys' /\ TaskKeys' /\ SignalsDone'
<1> DEFINE Goal == LastSaved' /\ LoOne' /\ BarNext' /\ SavedKeys' /\ TaskKeys' /\ SignalsDone'
<1> USE Numbers DEF TypeInv, Goto, Threaded
<1>0. \A i \in Intents : i[1] \in Nat
  BY StrategyAssumption DEF Intents, Bars
<1>a. ASSUME UNCHANGED <<ckpt, baseline, scope>>, handled \subseteq handled'
      PROVE  SavedKeys' /\ SignalsDone'
  BY <1>a DEF SigInv, SavedKeys, SignalsDone
<1>1. CASE Restore
  <2>1. UNCHANGED <<ckpt, baseline, scope, handled>> /\ pc' \in {"top", "failing"}
    BY <1>1 DEF Restore, history
  <2>2. /\ task'.lo = task.lo
        /\ pc' = "top" => task'.last = ckpt[scope].last /\ task'.keys = ckpt[scope].keys
    BY <1>1 DEF Restore, TypeOK, Task
  <2>3. LastSaved' /\ LoOne' /\ BarNext'
    BY <2>1, <2>2 DEF SigInv, LastSaved, LoOne, BarNext, Trading, Handling
  <2>4. TaskKeys'
    BY <2>1, <2>2 DEF SigInv, SavedKeys, TaskKeys, InHands, Trading, Handling, Dispatching
  <2> QED BY <1>a, <2>1, <2>3, <2>4
<1>2. CASE Top \/ Open \/ AppendFails
  <2>1. UNCHANGED <<ckpt, baseline, scope, handled>> /\ pc \in Trading \ Handling
        /\ pc' \in {"closing", "read", "opened", "error", "top"}
    BY <1>2 DEF Top, Open, AppendFails, history, Trading, Handling
  <2>2. task'.lo = task.lo /\ task'.last = task.last /\ task'.keys = task.keys
    BY <1>2 DEF Top, Open, AppendFails, TypeOK, Task
  <2>3. LastSaved' /\ LoOne' /\ BarNext'
    BY <2>1, <2>2 DEF SigInv, LastSaved, LoOne, BarNext, Handling
  <2>4. TaskKeys'
    BY <2>1, <2>2 DEF SigInv, TaskKeys, InHands, Handling, Dispatching
  <2> QED BY <1>a, <2>1, <2>3, <2>4
<1>3. CASE ReadCandles
  <2>1. UNCHANGED <<ckpt, baseline, scope, handled>> /\ pc = "read"
    BY <1>3 DEF ReadCandles, history
  <2>2. task'.lo = Oldest /\ task'.last = task.last /\ task'.keys = task.keys
    BY <1>3 DEF ReadCandles, TypeOK, Task
  <2>3. Oldest = 1
    BY StrategyAssumption DEF Oldest, Undisturbed, TypeOK
  <2>4. pc' \in {"closing", "append", "top", "open", "error"}
    <3>1. CASE UNCHANGED used
      BY <1>3 DEF ReadCandles
    <3> QED BY <1>3 DEF ReadCandles
  <2>5. LastSaved' /\ LoOne' /\ BarNext'
    BY <2>1, <2>2, <2>3, <2>4 DEF SigInv, LastSaved, LoOne, BarNext, Trading, Handling
  <2>6. TaskKeys'
    BY <2>1, <2>2, <2>4 DEF SigInv, TaskKeys, InHands, Trading, Handling, Dispatching
  <2> QED BY <1>a, <2>1, <2>5, <2>6
<1>4. CASE CheckpointOpen
  <2> DEFINE f == IF task.last = 0 THEN task.hi ELSE task.last
  <2>1. CASE SaveFails
    <3>1. SigQuiet
      BY <1>4, <2>1 DEF CheckpointOpen, SaveFails, SigQuiet, Trading, Handling, Dispatching
    <3> QED BY <3>1, SigQuietKeeps
  <2>2. CASE SaveCheckpoint(f) /\ pc' \in {"top", "append"}
    <3>1. f \in Nat /\ task.bar = f /\ ckpt[scope].last = task.last /\ ckpt[scope].last <= task.bar
      BY <1>4 DEF CheckpointOpen, HistInv, BarInHand, NoneBeyond, SigInv, LastSaved, Trading
    <3>2. baseline[scope] # 0 => task.last # 0
      BY <3>1 DEF HistInv, BaseCovered
    <3>3. baseline[scope] # 0 => ckpt[scope].last = task.bar
      BY <3>1, <3>2
    <3>4. UNCHANGED <<scope, handled>> /\ pc = "opened"
      BY <1>4 DEF CheckpointOpen
    <3>5. ckpt[scope].last = 0 \/ ckpt[scope].last <= f
      BY <3>1
    <3>6. \A i \in Intents : i[1] > ckpt[scope].last /\ i[1] <= task.bar => i \in handled \/ i[1] <= f
      BY <3>1
    <3>7. baseline[scope] # 0 =>
            \A i \in Intents : i[1] > ckpt[scope].last /\ i[1] <= task.bar => i \in handled
      BY <1>0, <3>3
    <3> HIDE DEF f
    <3> QED BY <2>2, <3>1, <3>4, <3>5, <3>6, <3>7, SigSave
  <2> QED BY <1>4, <2>1, <2>2 DEF CheckpointOpen
<1>5. CASE Append
  <2>1. UNCHANGED <<ckpt, baseline, scope, handled>> /\ pc = "append" /\ pc' = "answered"
    BY <1>5 DEF Append, history
  <2>2. task'.lo = task.lo /\ task'.last = task.last /\ task'.keys = task.keys /\ task'.bar = NextBar
    BY <1>5 DEF Append, TypeOK, Task
  <2>3. NextBar = task.last + 1
    BY DEF NextBar, SigInv, LoOne
  <2>4. LastSaved' /\ LoOne' /\ BarNext'
    BY <2>1, <2>2, <2>3 DEF SigInv, LastSaved, LoOne, BarNext, Trading
  <2>5. TaskKeys'
    BY <2>1, <2>2 DEF SigInv, TaskKeys, InHands, Trading, Handling, Dispatching
  <2> QED BY <1>a, <2>1, <2>4, <2>5
<1>6. CASE TakeIntents
  <2>1. UNCHANGED <<ckpt, baseline, scope, handled>> /\ pc = "answered"
    BY <1>6 DEF TakeIntents, history
  <2>2. CASE cancel
    <3>1. SigQuiet
      BY <1>6, <2>1, <2>2 DEF TakeIntents, SigQuiet, Trading, Handling, Dispatching
    <3> QED BY <3>1, SigQuietKeeps
  <2>3. CASE ~cancel
    <3>1. /\ task'.lo = task.lo /\ task'.last = task.last /\ task'.bar = task.bar
          /\ task'.keys = task.keys \cup FreshIntents /\ task'.todo = FreshIntents
      BY <1>6, <2>3 DEF TakeIntents, TypeOK, Task
    <3>2. pc' = "account" \/ (pc' = "checkpoint" /\ FreshIntents = {})
      BY <1>6, <2>3 DEF TakeIntents
    <3>3. LastSaved' /\ LoOne' /\ BarNext'
      BY <2>1, <3>1, <3>2 DEF SigInv, LastSaved, LoOne, BarNext, Trading, Handling
    <3>4. task.keys \subseteq handled
      BY <2>1 DEF SigInv, TaskKeys, InHands, Trading, Handling, Dispatching
    <3>5. {i \in Intents : i[1] = task.bar} \subseteq task.keys \cup FreshIntents
      BY DEF FreshIntents
    <3>6. TaskKeys'
      BY <2>1, <3>1, <3>2, <3>4, <3>5 DEF TaskKeys, InHands, Dispatching
    <3> QED BY <1>a, <2>1, <3>3, <3>6
  <2> QED BY <2>2, <2>3
<1>7. CASE SkipIntent \/ RecordSubmitted
  <2>1. /\ UNCHANGED <<ckpt, baseline, scope>> /\ handled \subseteq handled' /\ Current \in handled'
        /\ pc \in Dispatching /\ pc' = "dispatch"
    BY <1>7 DEF SkipIntent, RecordSubmitted, Working, history, SigInv, TaskKeys, Dispatching
  <2>2. /\ task'.lo = task.lo /\ task'.last = task.last /\ task'.bar = task.bar
        /\ task'.keys = task.keys /\ task'.todo = task.todo \ {Current}
    BY <1>7 DEF SkipIntent, Drop, RecordSubmitted, TypeOK, Task
  <2>3. LastSaved' /\ LoOne' /\ BarNext'
    BY <2>1, <2>2 DEF SigInv, LastSaved, LoOne, BarNext, Trading, Handling, Dispatching
  <2>4. TaskKeys'
    <3>1. task.keys \subseteq handled \cup task.todo
      BY <2>1 DEF SigInv, TaskKeys, InHands, Trading, Handling, Dispatching
    <3>2. {i \in Intents : i[1] = task.bar} \subseteq task.keys
      BY <2>1 DEF SigInv, TaskKeys, Handling, Dispatching
    <3> QED BY <2>1, <2>2, <3>1, <3>2 DEF TaskKeys, InHands, Dispatching
  <2> QED BY <1>a, <2>1, <2>3, <2>4
<1>8. CASE CheckpointBar
  <2>1. CASE SaveFails
    <3>1. SigQuiet
      BY <1>8, <2>1 DEF CheckpointBar, SaveFails, SigQuiet, Trading, Handling, Dispatching
    <3> QED BY <3>1, SigQuietKeeps
  <2>2. CASE SaveCheckpoint(task.last) /\ pc' = "append"
    <3>1. task.bar = task.last + 1 /\ ckpt[scope].last = task.last
      BY <1>8 DEF CheckpointBar, SigInv, BarNext, LastSaved, Trading, Handling
    <3>2. UNCHANGED <<scope, handled>> /\ pc = "checkpoint"
      BY <1>8 DEF CheckpointBar
    <3>3. {i \in Intents : i[1] = task.bar} \subseteq handled
      BY <3>2 DEF SigInv, TaskKeys, InHands, Trading, Handling, Dispatching
    <3>4. ASSUME NEW i \in Intents, i[1] > ckpt[scope].last, i[1] <= task.bar PROVE i \in handled
      <4>1. i[1] = task.bar
        BY <1>0, <3>1, <3>4
      <4> QED BY <3>3, <4>1
    <3> QED BY <2>2, <3>1, <3>2, <3>4, SigSave
  <2> QED BY <1>8, <2>1, <2>2 DEF CheckpointBar
<1> QED
  BY <1>1, <1>2, <1>3, <1>4, <1>5, <1>6, <1>7, <1>8, SigKinds, SigQuietKeeps DEF SigInv

LEMMA SigOther ==
    ASSUME TypeInv, LifeInv, SigInv, Lifecycle \/ Process \/ BarCloses \/ WorkerDies
    PROVE  LastSaved' /\ LoOne' /\ BarNext' /\ SavedKeys' /\ TaskKeys' /\ SignalsDone'
<1>1. /\ UNCHANGED <<ckpt, baseline, handled>>
      /\ scope' = scope \/ Edit
  <2> USE DEF history, store, manager
  <2>1. CASE Lifecycle
    BY <2>1 DEF Lifecycle, StartResume, StartBegin, StopBegin, DeleteBegin, BeginCancel, StartClaim,
       StartSpawn, StartFails, StartPublish, StartUndone, StopCommit, DeleteCommit, CancelTimeout,
       Pause, Edit, UpdateRisk
  <2>2. CASE Process
    BY <2>2 DEF Process, Crash, Ends, ShutdownBegin, ShutdownEnd, Restart
  <2>3. CASE BarCloses \/ WorkerDies
    BY <2>3 DEF BarCloses, WorkerDies
  <2> QED BY <2>1, <2>2, <2>3
<1>2. SavedKeys' /\ SignalsDone'
  BY <1>1 DEF SigInv, SavedKeys, SignalsDone
<1>3. ASSUME Edit PROVE pc \notin Trading
  BY <1>3 DEF Edit, Idle, Editable, SigInv, NeverPaused, StartingGone, LifeInv, FailedThread, StoppedGone,
     ThreadGone, Trading, Handling
<1>4. CASE UNCHANGED <<pc, task>>
  <2>1. Current' = Current
    BY <1>4 DEF Current
  <2>2. LastSaved'
    BY <1>1, <1>3, <1>4 DEF SigInv, LastSaved
  <2> QED BY <1>1, <1>2, <1>4, <2>1, <2>2 DEF SigInv, LoOne, BarNext, TaskKeys, InHands
<1>5. CASE pc' \in {"none", "restore"} /\ \E s \in Scopes : task' = NewTask(s)
  BY <1>2, <1>5 DEF LastSaved, LoOne, BarNext, TaskKeys, InHands, NewTask, Trading, Handling, Dispatching
<1>6. 0 \in Scopes /\ scope \in Scopes
  BY StrategyAssumption DEF Scopes, TypeInv, TypeOK
<1> QED BY <1>4, <1>5, <1>6, ThreadMoves

\* While nobody pauses the instance and its candle window reaches back to the
\* first bar, no crash, failed append, reopened session, failed order or edit
\* makes the runtime step over a signal.  The configurations StrategyLostIntent
\* and StrategyLostBars show that each of the two conditions is needed.
THEOREM SignalsHandled == Undisturbed /\ Spec => []SignalsKept
<1> SUFFICES ASSUME Undisturbed PROVE Spec => []SignalsKept
  OBVIOUS
<1>1. Init => SigInv
  <2> SUFFICES ASSUME Init PROVE SigInv
    OBVIOUS
  <2>1. \A s \in Scopes : ckpt[s].last = 0 /\ ckpt[s].keys = {} /\ baseline[s] = 0
    BY DEF Init, NoCheckpoint
  <2>2. \A i \in Intents : i[1] \in Nat \ {0}
    BY StrategyAssumption DEF Intents, Bars
  <2>3. SignalsDone
    BY <2>1, <2>2 DEF SignalsDone
  <2> QED BY <2>1, <2>3 DEF Init, SigInv, NeverPaused, StartingGone, ThreadGone, LastSaved, LoOne, BarNext,
             SavedKeys, TaskKeys, InHands, NewTask, Trading, Handling, Dispatching
<1>2. TypeInv /\ LifeInv /\ HistInv /\ SigInv /\ [Next]_vars => SigInv'
  <2> SUFFICES ASSUME TypeInv, LifeInv, HistInv, SigInv, [Next]_vars PROVE SigInv'
    OBVIOUS
  <2>1. CASE UNCHANGED vars
    <3>1. Current' = Current
      BY <2>1 DEF Current, vars
    <3> QED BY <2>1, <3>1 DEF vars, SigInv, NeverPaused, StartingGone, ThreadGone, LastSaved, LoOne,
               BarNext, SavedKeys, TaskKeys, InHands, SignalsDone
  <2>2. CASE Next
    <3>1. NeverPaused' /\ StartingGone'
      BY <2>2, SigStatus DEF SigInv
    <3>2. LastSaved' /\ LoOne' /\ BarNext' /\ SavedKeys' /\ TaskKeys' /\ SignalsDone'
      BY <2>2, SigTask, SigOther DEF Next
    <3> QED BY <3>1, <3>2 DEF SigInv
  <2> QED BY <2>1, <2>2
<1>3. TypeInv /\ SigInv => SignalsKept
  BY DEF TypeInv, TypeOK, SigInv, SignalsDone, SignalsKept
<1> QED BY <1>1, <1>2, <1>3, LifeInvariant, HistInvariant, PTL DEF Spec
=============================================================================
