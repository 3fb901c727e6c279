----------------------- MODULE AssistantRun_proofs -----------------------
(***************************************************************************)
(* Proofs about AssistantRun, for any number of users, tool calls, rounds  *)
(* and events: its type, that a run that waits can be decided, that an     *)
(* executor sets out to do approved calls only, and that an ended run      *)
(* stays as it is.                                                         *)
(***************************************************************************)
EXTENDS AssistantRun, TLAPS

USE DEF Scanner, Agents, Executors, Nobody, Dead, Stages

-----------------------------------------------------------------------------
(* The inductive invariant.  Decidable and PlansApproved need the calls    *)
(* of the payload to follow the approval rows (Backed, Waiting), whichever *)
(* of the writers of the payload wrote last: the staging (Staged), an      *)
(* answer that writes an old payload back (Kept), a cancellation (Live).   *)

\* A call to be executed has its approval.
Backed == \A c \in Calls : call[c] = "RUNNING" => row[c] = "APPROVED"

\* A call that waits for an approval is of the round the run waits for.
Waiting ==
    \A c \in Calls : call[c] = "PENDING_APPROVAL" =>
        run = "PENDING" /\ c \in listed /\ row[c] \in {"PENDING", "APPROVED"}

\* A question to the user forgets the approvals of the round before.
AnswerFirst == run = "PENDING_INPUT" => listed = {}

\* A staging that is the last write of the run can be rolled back: the run
\* lists the approval.
StagedLast ==
    \A a \in Agents :
        /\ req[a].pc = "rollback" => req[a].kind = "approval"
        /\ req[a].kind = "approval" => req[a].about \in Calls
        /\ a \in staged => /\ run = "RUNNING"
                           /\ req[a].kind = "approval" => req[a].about \in listed

\* The payload an answer may write back asks for nothing that was not
\* approved, and no approval that can still be taken back is about it.
KeptSafe ==
    \A a \in Agents :
        /\ kept[a].listed = {}
        /\ \A c \in Calls : /\ kept[a].call[c] # "PENDING_APPROVAL"
                            /\ kept[a].call[c] = "RUNNING" => row[c] = "APPROVED" /\ c \notin listed

\* A handler whose reading is still current has read a run that goes on.
ReadLive == \A a \in Agents : a \in read => run \in Cancellable

Inv ==
    /\ TypeOK /\ Backed /\ Waiting /\ AnswerFirst /\ StagedLast /\ KeptSafe /\ ReadLive
    /\ Decidable
-----------------------------------------------------------------------------
(* Types.                                                                  *)

\* What an agent may turn to.
LEMMA TypeAt ==
    ASSUME TypeOK, NEW a \in Agents
    PROVE  /\ Idle \in Requests /\ NoKept \in Kept
           /\ \A pc \in Positions : At(a, pc) => req' \in [Agents -> Requests]
           /\ Answered(a) => req' \in [Agents -> Requests]
           /\ \A conflict \in BOOLEAN : Refused(a, conflict) => req' \in [Agents -> Requests]
<1>1. Idle \in Requests
  BY DEF Idle, Requests, Positions, Kinds
<1>2. NoKept \in Kept
  BY DEF NoKept, Kept, CallStatus
<1>3. ASSUME NEW pc \in Positions, At(a, pc) PROVE req' \in [Agents -> Requests]
  BY <1>3 DEF At, TypeOK, Requests
<1>4. Answered(a) => req' \in [Agents -> Requests]
  BY <1>1 DEF Answered, TypeOK
<1>5. ASSUME NEW conflict \in BOOLEAN, Refused(a, conflict) PROVE req' \in [Agents -> Requests]
  <2>1. \/ At(a, "rollback") \/ At(a, "repair") \/ Answered(a)
    BY <1>5 DEF Refused
  <2> QED BY <2>1, <1>3, <1>4 DEF Positions
<1> QED BY <1>1, <1>2, <1>3, <1>4, <1>5

\* A step of a user's request keeps the types.
LEMMA TypeRequest ==
    ASSUME TypeOK, NEW a \in Users, Request(a)
    PROVE  TypeOK'
<1>1. ASSUME NEW c \in Calls, NEW d \in Decision, Resolve(a, c, d) PROVE TypeOK'
  <2>1. row' \in [Calls -> {"none", "PENDING"} \cup Decision]
    BY <1>1 DEF Resolve, TypeOK, RowsStaged, Decided, Decision
  <2>2. call' \in [Calls -> CallStatus]
    BY <1>1 DEF Resolve, TypeOK, CallsStaged, Turn, CallStatus
  <2>3. [pc |-> "resume", kind |-> "approval", about |-> c] \in Requests
    BY DEF Requests, Positions, Kinds
  <2>4. req' \in [Agents -> Requests]
    BY <1>1, <2>3 DEF Resolve, TypeOK
  <2>5. /\ run' \in {"RUNNING", "PENDING", "PENDING_INPUT"} \cup Ended
        /\ staged' \subseteq Agents /\ read' \subseteq Agents
    BY <1>1 DEF Resolve, TypeOK
  <2>6. UNCHANGED <<listed, input, backoff, lease, local, kept, events>>
    BY <1>1 DEF Resolve
  <2> QED BY <2>1, <2>2, <2>4, <2>5, <2>6 DEF TypeOK, local
<1>2. CASE Reconnect(a)
  <2>1. [pc |-> "resume", kind |-> "reconnect", about |-> NoCall] \in Requests
    BY DEF Requests, Positions, Kinds
  <2> QED BY <1>2, <2>1 DEF Reconnect, TypeOK, payload, local
<1>3. CASE Respond(a)
  <2>1. [pc |-> "resume", kind |-> "input", about |-> NoCall] \in Requests
    BY DEF Requests, Positions, Kinds
  <2>2. [call |-> call, listed |-> listed] \in Kept
    BY DEF TypeOK, Kept
  <2> QED BY <1>3, <2>1, <2>2 DEF Respond, TypeOK, Touch, local
<1>4. CASE Cancel(a)
  <2>1. events' \in 0..MaxEvents
    BY <1>4, RunAssumption DEF Cancel, Happens, TypeOK
  <2>2. [pc |-> "cancel", kind |-> "cancel", about |-> NoCall] \in Requests
    BY DEF Requests, Positions, Kinds
  <2> QED BY <1>4, <2>1, <2>2 DEF Cancel, TypeOK, payload
<1> QED BY <1>1, <1>2, <1>3, <1>4 DEF Request

\* A write that overtakes executors.
LEMMA TypeOvertake ==
    ASSUME TypeOK, Overtake
    PROVE  /\ stage' \in [Executors -> Stages] /\ tool' \in [Executors -> Calls \cup {NoCall}]
           /\ UNCHANGED <<plan, woken>>
BY DEF TypeOK, Overtake

\* A step of a handler keeps the types.
LEMMA TypeHandle ==
    ASSUME TypeOK, NEW a \in Agents, Handle(a)
    PROVE  TypeOK'
<1>1. CASE ResumeRead(a)
  <2>1. req' \in [Agents -> Requests]
    BY <1>1, TypeAt DEF ResumeRead, Positions
  <2> QED BY <1>1, <2>1 DEF ResumeRead, TypeOK, payload, local
<1>2. CASE DenyAcquire(a)
  <2>1. req' \in [Agents -> Requests]
    BY <1>2, TypeAt DEF DenyAcquire, Positions
  <2> QED BY <1>2, <2>1 DEF DenyAcquire, TypeOK, payload, local
<1>3. CASE DenyWrite(a)
  BY <1>3, TypeAt DEF DenyWrite, TypeOK, payload, local, Touch, Ended
<1>4. CASE Spawn(a)
  <2>1. req' \in [Agents -> Requests]
    BY <1>4, TypeAt DEF Spawn
  <2> QED BY <1>4, <2>1 DEF Spawn, GoTo, TypeOK, payload
<1>5. CASE ProviderMissing(a)
  <2>1. events' \in 0..MaxEvents
    BY <1>5, RunAssumption DEF ProviderMissing, Happens, TypeOK
  <2>2. req' \in [Agents -> Requests]
    BY <1>5, TypeAt DEF ProviderMissing
  <2> QED BY <1>5, <2>1, <2>2 DEF ProviderMissing, TypeOK, local, Touch
<1>6. CASE Rollback(a)
  <2>1. row' \in [Calls -> {"none", "PENDING"} \cup Decision]
    BY <1>6 DEF Rollback, RowReopened, TypeOK
  <2>2. call' \in [Calls -> CallStatus]
    BY <1>6 DEF Rollback, CallReopened, TypeOK, CallStatus
  <2>3. req' \in [Agents -> Requests]
    BY <1>6, TypeAt DEF Rollback
  <2>4. stage' \in [Executors -> Stages] /\ tool' \in [Executors -> Calls \cup {NoCall}]
        /\ UNCHANGED <<plan, woken>>
    BY <1>6, TypeOvertake DEF Rollback, local, TypeOK
  <2> QED BY <1>6, <2>1, <2>2, <2>3, <2>4 DEF Rollback, TypeOK, Touch
<1>7. CASE Repair(a)
  <2>1. req' \in [Agents -> Requests] /\ kept' \in [Agents -> Kept]
    BY <1>7, TypeAt DEF Repair, TypeOK
  <2>2. kept[a].call \in [Calls -> CallStatus] /\ kept[a].listed \subseteq Calls
    BY DEF TypeOK, Kept
  <2>3. stage' \in [Executors -> Stages] /\ tool' \in [Executors -> Calls \cup {NoCall}]
        /\ UNCHANGED <<plan, woken>>
    BY <1>7, TypeOvertake DEF Repair, local, TypeOK
  <2> QED BY <1>7, <2>1, <2>2, <2>3 DEF Repair, TypeOK, Touch, payload
<1>8. CASE CancelRead(a)
  <2>1. req' \in [Agents -> Requests]
    BY <1>8, TypeAt DEF CancelRead, Positions
  <2> QED BY <1>8, <2>1 DEF CancelRead, TypeOK, payload, local
<1>9. CASE CancelWrite(a)
  <2>1. req' \in [Agents -> Requests]
    BY <1>9, TypeAt DEF CancelWrite
  <2>2. call' \in [Calls -> CallStatus]
    BY <1>9 DEF CancelWrite, TypeOK, CallStatus
  <2> QED BY <1>9, <2>1, <2>2 DEF CancelWrite, TypeOK, local, Touch, Ended
<1> QED BY <1>1, <1>2, <1>3, <1>4, <1>5, <1>6, <1>7, <1>8, <1>9 DEF Handle

\* A step of an executor keeps the types.
LEMMA TypeExecute ==
    ASSUME TypeOK, NEW e \in Executors, Execute(e)
    PROVE  TypeOK'
<1>0. Happens => events' \in 0..MaxEvents
  BY RunAssumption DEF Happens, TypeOK
<1>1. CASE StartTask(e)
  BY <1>1 DEF StartTask, GoTo, TypeOK, payload, agents
<1>2. CASE Acquire(e)
  BY <1>2 DEF Acquire, GoTo, TypeOK, payload, agents
<1>3. CASE Mark(e)
  BY <1>3 DEF Mark, GoTo, TypeOK, Touch
<1>4. CASE Abandon(e)
  BY <1>4 DEF Abandon, GoTo, TypeOK, payload, Touch, Ended
<1>5. CASE ReadRound(e)
  BY <1>5 DEF ReadRound, GoTo, TypeOK, payload, agents
<1>15. ASSUME NEW c \in Calls, StartTool(e, c) PROVE TypeOK'
  BY <1>15 DEF StartTool, GoTo, TypeOK, payload, agents
<1>6. ASSUME NEW verdict \in {"SUCCEEDED", "FAILED"}, FinishTool(e, verdict) PROVE TypeOK'
  <2>1. call' \in [Calls -> CallStatus]
    BY <1>6 DEF FinishTool, TypeOK, CallStatus
  <2>2. stage' = [stage EXCEPT ![e] = "tools"] \/ stage' = [stage EXCEPT ![e] = "failing"]
        \/ stage' = [stage EXCEPT ![e] = "leaving"]
    BY <1>6 DEF FinishTool, GoTo
  <2> QED BY <1>6, <2>1, <2>2 DEF FinishTool, TypeOK, Touch
<1>7. CASE FailRun(e)
  BY <1>7 DEF FailRun, GoTo, TypeOK, payload, Touch, Ended
<1>8. CASE AskModel(e)
  BY <1>8 DEF AskModel, GoTo, TypeOK, payload, agents
<1>9. CASE StageCalls(e)
  <2>1. Batches[NextRound] \subseteq Calls
    BY <1>9, RunAssumption DEF StageCalls
  <2>2. call' \in [Calls -> CallStatus] /\ row' \in [Calls -> {"none", "PENDING"} \cup Decision]
    BY <1>9 DEF StageCalls, TypeOK, CallStatus
  <2> QED BY <1>9, <2>1, <2>2 DEF StageCalls, GoTo, TypeOK, Touch, Ended
<1>10. CASE AskUser(e)
  BY <1>0, <1>10 DEF AskUser, GoTo, TypeOK, Touch
<1>11. ASSUME NEW status \in {"COMPLETED", "FAILED"}, EndRun(e, status) PROVE TypeOK'
  BY <1>11 DEF EndRun, GoTo, TypeOK, payload, Touch, Ended
<1>12. CASE RetryLater(e)
  BY <1>0, <1>12 DEF RetryLater, GoTo, TypeOK, Touch
<1>13. CASE Release(e)
  BY <1>13 DEF Release, GoTo, TypeOK, payload, agents
<1>14. CASE Deregister(e)
  BY <1>14 DEF Deregister, GoTo, TypeOK, payload, agents
<1> QED BY <1>1, <1>2, <1>3, <1>4, <1>5, <1>6, <1>7, <1>8, <1>9, <1>10, <1>11, <1>12, <1>13,
           <1>14, <1>15 DEF Execute

\* The scanner, time and a crash keep the types.
LEMMA TypeTime ==
    ASSUME TypeOK, Scan \/ BackoffEnds \/ LeaseExpires \/ Crash
    PROVE  TypeOK'
<1>1. CASE Scan
  <2>1. [pc |-> "resume", kind |-> "scan", about |-> NoCall] \in Requests
    BY DEF Requests, Positions, Kinds
  <2> QED BY <1>1, <2>1 DEF Scan, TypeOK, payload, local
<1>2. CASE BackoffEnds
  BY <1>2 DEF BackoffEnds, TypeOK, local, agents
<1>3. CASE LeaseExpires
  BY <1>3 DEF LeaseExpires, TypeOK, payload, local, agents
<1>4. CASE Crash
  <2>1. events' \in 0..MaxEvents
    BY <1>4, RunAssumption DEF Crash, Happens, TypeOK
  <2>2. req' \in [Agents -> Requests]
    <3>1. /\ [pc |-> "resume", kind |-> "startup", about |-> NoCall] \in Requests
          /\ Idle \in Requests
      BY DEF Requests, Positions, Kinds, Idle
    <3> QED BY <1>4, <3>1 DEF Crash, Recovering, Quiet
  <2>3. NoKept \in Kept
    BY DEF NoKept, Kept, CallStatus
  <2>4. /\ stage' \in [Executors -> {"none"}] /\ tool' \in [Executors -> {NoCall}]
        /\ plan' \in [Executors -> SUBSET Calls]
    BY <1>4 DEF Crash
  <2>5. kept' \in [Agents -> Kept]
    BY <1>4, <2>3 DEF Crash
  <2>6. /\ lease' \in {Nobody, Dead} /\ woken' = {} /\ staged' = {} /\ read' = {}
        /\ UNCHANGED <<run, call, listed, input, backoff, row>>
    BY <1>4 DEF Crash, payload
  <2> QED BY <2>1, <2>2, <2>4, <2>5, <2>6 DEF TypeOK
<1> QED BY <1>1, <1>2, <1>3, <1>4

\* The created run has the types.
LEMMA TypeInit == Init => TypeOK
<1>1. Idle \in Requests /\ NoKept \in Kept
  BY DEF Idle, Requests, Positions, Kinds, NoKept, Kept, CallStatus
<1>2. ASSUME Init
      PROVE  /\ req \in [Agents -> Requests] /\ kept \in [Agents -> Kept]
             /\ stage \in [Executors -> {"model", "none"}] /\ tool \in [Executors -> {NoCall}]
             /\ plan \in [Executors -> SUBSET Calls]
  BY <1>1, <1>2 DEF Init
<1>3. Init => events \in 0..MaxEvents
  BY RunAssumption DEF Init
<1>4. Init => call \in [Calls -> CallStatus] /\ row \in [Calls -> {"none", "PENDING"} \cup Decision]
  BY DEF Init, CallStatus
<1> QED BY <1>2, <1>3, <1>4 DEF Init, TypeOK

\* Every step keeps the types.
LEMMA TypeStep == TypeOK /\ [Next]_vars => TypeOK'
<1>1. TypeOK /\ UNCHANGED vars => TypeOK'
  BY DEF TypeOK, vars, payload, local, agents
<1> QED BY <1>1, TypeRequest, TypeHandle, TypeExecute, TypeTime DEF Next

\* The variables of a run, its requests and its executors keep their types
\* through every request, handler, executor step and crash.
THEOREM TypeCorrect == Spec => []TypeOK
BY TypeInit, TypeStep, PTL DEF Spec
-----------------------------------------------------------------------------
(* The invariant.                                                          *)

\* No agent starts to handle an approval, and only an approval is rolled back.
ReqFollows ==
    \A a \in Agents :
        /\ req'[a].kind = "approval" => req[a].kind = "approval" /\ req'[a].about = req[a].about
        /\ req'[a].pc = "rollback" => req'[a].kind = "approval"

\* The steps of an agent that is not asked to decide.
LEMMA Follows ==
    ASSUME Inv, NEW a \in Agents
    PROVE  /\ UNCHANGED req => ReqFollows
           /\ Answered(a) => ReqFollows
           /\ \A pc \in Positions \ {"rollback"} : At(a, pc) => ReqFollows
           /\ \A conflict \in BOOLEAN : Refused(a, conflict) => ReqFollows
           /\ \A r \in Requests : /\ r.kind # "approval" /\ r.pc # "rollback"
                                 /\ req' = [req EXCEPT ![a] = r]
                                 => ReqFollows
<1> USE DEF Inv, StagedLast, ReqFollows
<1>0. req \in [Agents -> Requests]
  BY DEF TypeOK
<1>1. UNCHANGED req => ReqFollows
  OBVIOUS
<1>2. ASSUME NEW r \in Requests, r.kind # "approval", r.pc # "rollback",
             req' = [req EXCEPT ![a] = r]
      PROVE  ReqFollows
  BY <1>0, <1>2
<1>3. Answered(a) => ReqFollows
  <2>1. Idle \in Requests /\ Idle.kind # "approval" /\ Idle.pc # "rollback"
    BY DEF Idle, Requests, Positions, Kinds
  <2> QED BY <2>1, <1>2 DEF Answered
<1>4. ASSUME NEW pc \in Positions, At(a, pc), pc = "rollback" => req[a].kind = "approval"
      PROVE  ReqFollows
  <2>1. /\ req'[a].pc = pc /\ req'[a].kind = req[a].kind /\ req'[a].about = req[a].about
        /\ \A b \in Agents : b # a => req'[b] = req[b]
    BY <1>0, <1>4 DEF At
  <2> QED BY <2>1, <1>4
<1>5. ASSUME NEW conflict \in BOOLEAN, Refused(a, conflict) PROVE ReqFollows
  <2>1. \/ At(a, "rollback") /\ req[a].kind = "approval"
        \/ At(a, "repair") \/ Answered(a)
    BY <1>5 DEF Refused
  <2> QED BY <2>1, <1>3, <1>4 DEF Positions
<1> QED BY <1>1, <1>2, <1>3, <1>4, <1>5

\* Most steps leave calls, approvals and kept payloads alone; they may read a
\* run that goes on, write it without changing it, or end a RUNNING one.
LEMMA Undisturbed ==
    ASSUME Inv, TypeOK', ReqFollows,
           UNCHANGED <<call, listed, row, kept>>,
           \/ run' = run /\ (staged' = staged \/ staged' = {})
              /\ (read' \subseteq read \/ run \in Cancellable)
           \/ run = "RUNNING" /\ run' \in Ended /\ staged' = {} /\ read' = {}
    PROVE  Inv'
<1>1. Backed' /\ KeptSafe'
  BY DEF Inv, Backed, KeptSafe
<1>2. CASE run' = run /\ (staged' = staged \/ staged' = {})
           /\ (read' \subseteq read \/ run \in Cancellable)
  <2>1. Waiting' /\ AnswerFirst' /\ Decidable'
    BY <1>2 DEF Inv, Waiting, AnswerFirst, Decidable
  <2>2. StagedLast'
    BY <1>2 DEF Inv, StagedLast, ReqFollows
  <2>3. ReadLive'
    BY <1>2 DEF Inv, ReadLive
  <2> QED BY <1>1, <2>1, <2>2, <2>3 DEF Inv
<1>3. CASE run = "RUNNING" /\ run' \in Ended /\ staged' = {} /\ read' = {}
  <2>1. Waiting' /\ AnswerFirst' /\ Decidable' /\ ReadLive'
    BY <1>3 DEF Inv, Waiting, AnswerFirst, Decidable, ReadLive, Ended
  <2>2. StagedLast'
    BY <1>3 DEF Inv, StagedLast, ReqFollows
  <2> QED BY <1>1, <2>1, <2>2 DEF Inv
<1> QED BY <1>2, <1>3

\* A decision: the rows it changes were open, the calls it releases approved.
LEMMA InvResolve ==
    ASSUME Inv, TypeOK', NEW a \in Users, NEW c \in Calls, NEW d \in Decision, Resolve(a, c, d)
    PROVE  Inv'
<1> DEFINE rows == RowsStaged(c, d)
<1>0. /\ row \in [Calls -> {"none", "PENDING", "APPROVED", "DENIED"}]
      /\ call \in [Calls -> CallStatus] /\ listed \subseteq Calls
      /\ req \in [Agents -> Requests] /\ d \in {"APPROVED", "DENIED"}
  BY DEF Inv, TypeOK, Decision
<1>1. \A x \in Calls : /\ Decided(c, d)[x] = row[x] \/ (x = c /\ row[x] = "PENDING"
                                                             /\ Decided(c, d)[x] = d)
                       /\ row[x] = "PENDING" /\ x = c => Decided(c, d)[x] = d
  BY <1>0 DEF Decided
<1>2. \A x \in Calls : /\ row[x] # "PENDING" => rows[x] = row[x]
                       /\ row[x] = "PENDING" => rows[x] \in {"PENDING", "APPROVED", "DENIED"}
  BY <1>0, <1>1 DEF RowsStaged
<1>3. /\ UNCHANGED <<listed, kept>>
      /\ Concerns(c, d) \/ ~Concerns(c, d)
  BY DEF Resolve
<1>4. CASE ~Concerns(c, d)
  <2>1. row' = Decided(c, d) /\ UNCHANGED <<run, call, staged, read, req>>
    BY <1>4 DEF Resolve
  <2>2. \A x \in Calls : /\ row[x] # "PENDING" => row'[x] = row[x]
                         /\ x \in listed /\ run = "PENDING" => row'[x] = row[x]
    <3> SUFFICES ASSUME NEW x \in Calls, row'[x] # row[x]
                 PROVE  row[x] = "PENDING" /\ ~(x \in listed /\ run = "PENDING")
      OBVIOUS
    <3>1. x = c /\ row[x] = "PENDING" /\ Decided(c, d)[c] = d
      BY <1>1, <2>1
    <3> QED BY <3>1, <1>4 DEF Concerns
  <2>3. Backed' /\ KeptSafe'
    BY <2>1, <2>2, <1>3 DEF Inv, Backed, KeptSafe
  <2>4. Waiting'
    BY <2>1, <2>2, <1>3 DEF Inv, Waiting
  <2>5. Decidable'
    BY <2>1, <2>2, <1>3, <1>0 DEF Inv, Decidable
  <2>6. AnswerFirst' /\ StagedLast' /\ ReadLive'
    BY <2>1, <1>3 DEF Inv, AnswerFirst, StagedLast, ReadLive
  <2> QED BY <2>3, <2>4, <2>5, <2>6 DEF Inv
<1>5. CASE Concerns(c, d)
  <2>0. run = "PENDING" /\ c \in listed
    BY <1>5 DEF Concerns
  <2>1. row' = rows /\ call' = CallsStaged(rows) /\ read' = {}
    BY <1>5 DEF Resolve
  <2>2. KeptSafe'
    BY <2>1, <1>2, <1>3 DEF Inv, KeptSafe
  <2> HIDE DEF rows
  <2>3. \A x \in Calls : call[x] # "PENDING_APPROVAL" => call'[x] = call[x]
    BY <2>1, <1>0 DEF CallsStaged, Turn
  <2>4. \A x \in Calls : call[x] = "PENDING_APPROVAL" =>
            /\ x \in listed /\ rows[x] \in {"PENDING", "APPROVED", "DENIED"}
    BY <1>2, <1>0 DEF Inv, Waiting
  <2>5. CASE \A x \in listed : rows[x] # "PENDING"
    <3>1. /\ run' = "RUNNING" /\ staged' = {a}
          /\ req' = [req EXCEPT ![a] = [pc |-> "resume", kind |-> "approval", about |-> c]]
      BY <1>5, <2>5 DEF Resolve, rows
    <3>2. \A x \in Calls : call[x] = "PENDING_APPROVAL" =>
              call'[x] = "DENIED" \/ (call'[x] = "RUNNING" /\ rows[x] = "APPROVED")
      <4>1. CASE \E x \in listed : rows[x] = "DENIED"
        BY <2>1, <4>1, <1>0 DEF CallsStaged, Turn
      <4>2. CASE \A x \in listed : rows[x] # "DENIED"
        BY <2>1, <2>4, <2>5, <4>2, <1>0 DEF CallsStaged, Turn
      <4> QED BY <4>1, <4>2
    <3>3. Backed'
      BY <2>1, <2>3, <3>2, <1>2 DEF Inv, Backed
    <3>4. Waiting' /\ AnswerFirst' /\ ReadLive' /\ Decidable'
      BY <2>1, <2>3, <3>1, <3>2 DEF Waiting, AnswerFirst, ReadLive, Decidable
    <3>5. StagedLast'
      BY <3>1, <1>0, <1>3, <2>0 DEF Inv, StagedLast
    <3> QED BY <2>2, <3>3, <3>4, <3>5 DEF Inv
  <2>6. CASE \E x \in listed : rows[x] = "PENDING"
    <3>1. run' = "PENDING" /\ staged' = {} /\ req' = req
      BY <1>5, <2>6 DEF Resolve, rows
    <3>2. \A x \in listed : rows[x] # "DENIED"
      <4> SUFFICES ASSUME NEW x \in listed, rows[x] = "DENIED",
                          NEW y \in listed, rows[y] = "PENDING"
                   PROVE  FALSE
        BY <2>6
      <4>1. \A z \in listed : Decided(c, d)[z] # "DENIED"
        BY <1>0 DEF rows, RowsStaged
      <4> QED BY <4>1, <1>0 DEF rows, RowsStaged
    <3>3. call' = call
      BY <2>1, <2>6, <3>2 DEF CallsStaged
    <3>4. Backed'
      BY <2>1, <3>3, <1>2 DEF Inv, Backed
    <3>5. Waiting'
      BY <2>1, <2>4, <3>1, <3>2, <3>3, <1>3 DEF Waiting
    <3>6. AnswerFirst' /\ ReadLive' /\ Decidable'
      BY <2>1, <2>6, <3>1, <1>3 DEF AnswerFirst, ReadLive, Decidable
    <3>7. StagedLast'
      BY <3>1 DEF Inv, StagedLast
    <3> QED BY <2>2, <3>4, <3>5, <3>6, <3>7 DEF Inv
  <2> QED BY <2>5, <2>6
<1> QED BY <1>4, <1>5

\* A rollback: the run as it was staged lists the approval it reopens.
LEMMA InvRollback ==
    ASSUME Inv, TypeOK', NEW a \in Agents, Rollback(a)
    PROVE  Inv'
<1>1. ReqFollows
  BY Follows DEF Rollback
<1>2. CASE UNCHANGED <<row, call, run, staged, read>>
  BY <1>1, <1>2, Undisturbed DEF Rollback
<1>3. CASE /\ run = "RUNNING" /\ a \in staged
           /\ row' = RowReopened(req[a].about) /\ call' = CallReopened(req[a].about)
           /\ run' = "PENDING" /\ Touch
  <2> DEFINE c == req[a].about
  <2>1. c \in Calls /\ c \in listed /\ UNCHANGED <<listed, kept>>
    BY <1>3 DEF Inv, StagedLast, Rollback
  <2>2. /\ row \in [Calls -> {"none", "PENDING", "APPROVED", "DENIED"}]
        /\ call \in [Calls -> CallStatus]
    BY DEF Inv, TypeOK, Decision
  <2> HIDE DEF c
  <2>3. /\ row'[c] = "PENDING" /\ \A x \in Calls : x # c => row'[x] = row[x]
        /\ call'[c] \in {"none", "PENDING_APPROVAL"}
        /\ \A x \in Calls : x # c => call'[x] = call[x]
    BY <1>3, <2>1, <2>2 DEF RowReopened, CallReopened, c
  <2>4. \A x \in Calls : call[x] # "PENDING_APPROVAL"
    BY <1>3 DEF Inv, Waiting
  <2>5. Backed' /\ KeptSafe'
    BY <2>1, <2>3 DEF Inv, Backed, KeptSafe
  <2>6. Waiting' /\ AnswerFirst' /\ Decidable' /\ ReadLive'
    BY <1>3, <2>1, <2>3, <2>4 DEF Waiting, AnswerFirst, Decidable, ReadLive, Touch
  <2>7. StagedLast'
    BY <1>1, <1>3 DEF Inv, StagedLast, ReqFollows, Touch
  <2> QED BY <2>5, <2>6, <2>7 DEF Inv
<1> QED BY <1>2, <1>3 DEF Rollback

\* The requests of the users.
LEMMA InvRequest ==
    ASSUME Inv, TypeOK', NEW a \in Users, Request(a)
    PROVE  Inv'
<1>1. CASE Reconnect(a)
  <2>1. /\ [pc |-> "resume", kind |-> "reconnect", about |-> NoCall] \in Requests
        /\ a \in Agents
    BY DEF Requests, Positions, Kinds
  <2>2. ReqFollows
    BY <1>1, <2>1, Follows DEF Reconnect
  <2> QED BY <1>1, <2>2, Undisturbed DEF Reconnect, payload
<1>2. CASE Respond(a)
  <2>1. /\ [pc |-> "resume", kind |-> "input", about |-> NoCall] \in Requests
        /\ a \in Agents
    BY DEF Requests, Positions, Kinds
  <2>2. ReqFollows
    BY <1>2, <2>1, Follows DEF Respond
  <2>3. /\ run = "PENDING_INPUT" /\ run' = "RUNNING" /\ listed = {}
        /\ staged' = {} /\ read' = {} /\ UNCHANGED <<call, listed, row>>
    BY <1>2 DEF Respond, Touch, Inv, AnswerFirst
  <2>4. \A c \in Calls : call[c] # "PENDING_APPROVAL"
    BY <2>3 DEF Inv, Waiting
  <2>5. /\ kept'[a] = [call |-> call, listed |-> listed]
        /\ \A b \in Agents : b # a => kept'[b] = kept[b]
    BY <1>2, <2>1 DEF Respond, Inv, TypeOK
  <2>6. KeptSafe'
    BY <2>3, <2>4, <2>5 DEF Inv, KeptSafe, Backed
  <2>7. Backed' /\ Waiting' /\ AnswerFirst' /\ Decidable' /\ ReadLive'
    BY <2>3, <2>4 DEF Inv, Backed, Waiting, AnswerFirst, Decidable, ReadLive
  <2>8. StagedLast'
    BY <2>2, <2>3 DEF Inv, StagedLast, ReqFollows
  <2> QED BY <2>6, <2>7, <2>8 DEF Inv
<1>3. CASE Cancel(a)
  <2>1. /\ [pc |-> "cancel", kind |-> "cancel", about |-> NoCall] \in Requests
        /\ a \in Agents
    BY DEF Requests, Positions, Kinds
  <2>2. ReqFollows
    BY <1>3, <2>1, Follows DEF Cancel
  <2> QED BY <1>3, <2>2, Undisturbed DEF Cancel, payload
<1> QED BY <1>1, <1>2, <1>3, InvResolve DEF Request

\* The handlers that carry a request on.
LEMMA InvHandle ==
    ASSUME Inv, TypeOK', NEW a \in Agents, Handle(a)
    PROVE  Inv'
<1>1. CASE ResumeRead(a)
  <2>1. ReqFollows
    BY <1>1, Follows DEF ResumeRead, Positions
  <2>2. read' = read \/ run \in Cancellable
    BY <1>1 DEF ResumeRead, Cancellable
  <2> QED BY <1>1, <2>1, <2>2, Undisturbed DEF ResumeRead, payload
<1>2. CASE DenyAcquire(a)
  <2>1. ReqFollows
    BY <1>2, Follows DEF DenyAcquire, Positions
  <2> QED BY <1>2, <2>1, Undisturbed DEF DenyAcquire, payload
<1>3. CASE DenyWrite(a)
  <2>1. ReqFollows
    BY <1>3, Follows DEF DenyWrite
  <2> QED BY <1>3, <2>1, Undisturbed DEF DenyWrite, payload, Touch, Ended
<1>4. CASE Spawn(a)
  <2>1. ReqFollows
    BY <1>4, Follows DEF Spawn
  <2> QED BY <1>4, <2>1, Undisturbed DEF Spawn, payload
<1>5. CASE ProviderMissing(a)
  <2>1. ReqFollows
    BY <1>5, Follows DEF ProviderMissing
  <2> QED BY <1>5, <2>1, Undisturbed DEF ProviderMissing, Touch
<1>6. CASE Repair(a)
  <2>1. ReqFollows
    BY <1>6, Follows DEF Repair
  <2>2. /\ kept'[a] = NoKept /\ UNCHANGED row
        /\ \A b \in Agents : b # a => kept'[b] = kept[b]
    BY <1>6 DEF Repair, Inv, TypeOK
  <2>3. CASE UNCHANGED <<run, call, listed, staged, read>>
    <3>1. KeptSafe'
      BY <2>2, <2>3 DEF Inv, KeptSafe, NoKept
    <3>2. Backed' /\ Waiting' /\ AnswerFirst' /\ Decidable' /\ ReadLive'
      BY <2>2, <2>3 DEF Inv, Backed, Waiting, AnswerFirst, Decidable, ReadLive
    <3>3. StagedLast'
      BY <2>1, <2>3 DEF Inv, StagedLast, ReqFollows
    <3> QED BY <3>1, <3>2, <3>3 DEF Inv
  <2>4. CASE /\ call' = kept[a].call /\ listed' = kept[a].listed
             /\ run' = "RUNNING" /\ Touch
    <3>1. listed' = {}
      BY <2>4 DEF Inv, KeptSafe
    <3>2. KeptSafe'
      BY <2>2, <3>1 DEF Inv, KeptSafe, NoKept
    <3>3. Backed' /\ Waiting' /\ AnswerFirst' /\ Decidable' /\ ReadLive'
      BY <2>2, <2>4, <3>1
         DEF Inv, KeptSafe, Backed, Waiting, AnswerFirst, Decidable, ReadLive, Touch
    <3>4. StagedLast'
      BY <2>1, <2>4 DEF Inv, StagedLast, ReqFollows, Touch
    <3> QED BY <3>2, <3>3, <3>4 DEF Inv
  <2> QED BY <1>6, <2>3, <2>4 DEF Repair, payload
<1>7. CASE CancelRead(a)
  <2>1. ReqFollows
    BY <1>7, Follows DEF CancelRead, Positions
  <2> QED BY <1>7, <2>1, Undisturbed DEF CancelRead, payload
<1>8. CASE CancelWrite(a)
  <2>1. ReqFollows
    BY <1>8, Follows DEF CancelWrite
  <2>2. CASE UNCHANGED <<run, call, listed, input, staged, read>>
    BY <1>8, <2>1, <2>2, Undisturbed DEF CancelWrite
  <2>3. CASE a \in read
    <3>1. /\ run' = "CANCELLED" /\ listed' = {} /\ staged' = {} /\ read' = {}
          /\ \A c \in Calls : call'[c] \notin {"RUNNING", "PENDING_APPROVAL"}
          /\ UNCHANGED <<row, kept>>
      BY <1>8, <2>3 DEF CancelWrite, Touch
    <3>2. Backed' /\ Waiting' /\ AnswerFirst' /\ Decidable' /\ ReadLive'
      BY <3>1 DEF Backed, Waiting, AnswerFirst, Decidable, ReadLive
    <3>3. StagedLast' /\ KeptSafe'
      BY <2>1, <3>1 DEF Inv, StagedLast, KeptSafe, ReqFollows
    <3> QED BY <3>2, <3>3 DEF Inv
  <2> QED BY <1>8, <2>2, <2>3 DEF CancelWrite
<1> QED BY <1>1, <1>2, <1>3, <1>4, <1>5, <1>6, <1>7, <1>8, InvRollback DEF Handle

\* The executors.
LEMMA InvExecute ==
    ASSUME Inv, TypeOK', NEW e \in Executors, Execute(e)
    PROVE  Inv'
<1>0. UNCHANGED req => ReqFollows
  BY Follows
<1>1. CASE StartTask(e)
  BY <1>0, <1>1, Undisturbed DEF StartTask, payload, agents
<1>2. CASE Acquire(e)
  BY <1>0, <1>2, Undisturbed DEF Acquire, payload, agents
<1>3. CASE Mark(e)
  BY <1>0, <1>3, Undisturbed DEF Mark, Touch
<1>4. CASE Abandon(e)
  BY <1>0, <1>4, Undisturbed DEF Abandon, payload, Touch, Ended
<1>5. CASE ReadRound(e)
  BY <1>0, <1>5, Undisturbed DEF ReadRound, payload, agents
<1>15. ASSUME NEW c \in Calls, StartTool(e, c) PROVE Inv'
  BY <1>0, <1>15, Undisturbed DEF StartTool, payload, agents
<1>6. ASSUME NEW verdict \in {"SUCCEEDED", "FAILED"}, FinishTool(e, verdict) PROVE Inv'
  <2>1. CASE UNCHANGED <<call, staged, read>>
    BY <1>0, <1>6, <2>1, Undisturbed DEF FinishTool
  <2>2. CASE run = "RUNNING"
    <3>1. /\ \A c \in Calls : call'[c] = call[c] \/ call'[c] \in {"SUCCEEDED", "FAILED"}
          /\ staged' = {} /\ read' = {} /\ UNCHANGED <<run, listed, row, kept, req>>
      BY <1>6, <2>2 DEF FinishTool, Touch, Inv, TypeOK
    <3>2. Backed' /\ Waiting' /\ AnswerFirst' /\ Decidable' /\ ReadLive'
      BY <3>1 DEF Inv, Backed, Waiting, AnswerFirst, Decidable, ReadLive
    <3>3. StagedLast' /\ KeptSafe'
      BY <3>1 DEF Inv, StagedLast, KeptSafe
    <3> QED BY <3>2, <3>3 DEF Inv
  <2> QED BY <1>6, <2>1, <2>2 DEF FinishTool
<1>7. CASE FailRun(e)
  BY <1>0, <1>7, Undisturbed DEF FailRun, payload, Touch, Ended
<1>8. CASE AskModel(e)
  BY <1>0, <1>8, Undisturbed DEF AskModel, payload, agents
<1>9. CASE StageCalls(e)
  <2> DEFINE batch == Batches[NextRound]
  <2>1. batch \subseteq Calls /\ batch # {}
    BY <1>9, RunAssumption DEF StageCalls
  <2>2. /\ run = "RUNNING" /\ staged' = {} /\ read' = {} /\ UNCHANGED <<req, kept>>
        /\ \A c \in Calls : call[c] # "PENDING_APPROVAL"
    BY <1>9 DEF StageCalls, ModelAnswers, Touch, Inv, Waiting
  <2>3. CASE run' = "FAILED" /\ UNCHANGED <<call, listed, backoff, row>>
    BY <1>0, <2>2, <2>3, Undisturbed DEF Ended
  <2>4. CASE \A c \in batch : row[c] = "none"
    <3>1. /\ run' = "PENDING" /\ listed' = batch
          /\ \A c \in Calls : /\ c \in batch => call'[c] = "PENDING_APPROVAL" /\ row'[c] = "PENDING"
                              /\ c \notin batch => call'[c] = call[c] /\ row'[c] = row[c]
      BY <1>9, <2>4 DEF StageCalls
    <3> HIDE DEF batch
    <3>2. Backed' /\ Waiting' /\ AnswerFirst' /\ Decidable' /\ ReadLive'
      BY <2>1, <2>2, <3>1 DEF Inv, Backed, Waiting, AnswerFirst, Decidable, ReadLive
    <3>3. KeptSafe'
      BY <2>2, <2>4, <3>1 DEF Inv, KeptSafe
    <3>4. StagedLast'
      BY <2>2 DEF Inv, StagedLast
    <3> QED BY <3>2, <3>3, <3>4 DEF Inv
  <2> QED BY <1>9, <2>3, <2>4 DEF StageCalls
<1>10. CASE AskUser(e)
  <2>1. /\ run = "RUNNING" /\ run' = "PENDING_INPUT" /\ listed' = {}
        /\ staged' = {} /\ read' = {} /\ UNCHANGED <<call, row, kept, req>>
        /\ \A c \in Calls : call[c] # "PENDING_APPROVAL"
    BY <1>10 DEF AskUser, ModelAnswers, Touch, Inv, Waiting
  <2>2. Backed' /\ Waiting' /\ AnswerFirst' /\ Decidable' /\ ReadLive'
    BY <2>1 DEF Inv, Backed, Waiting, AnswerFirst, Decidable, ReadLive
  <2>3. StagedLast' /\ KeptSafe'
    BY <2>1 DEF Inv, StagedLast, KeptSafe
  <2> QED BY <2>2, <2>3 DEF Inv
<1>11. ASSUME NEW status \in {"COMPLETED", "FAILED"}, EndRun(e, status) PROVE Inv'
  BY <1>0, <1>11, Undisturbed DEF EndRun, ModelAnswers, payload, Touch, Ended
<1>12. CASE RetryLater(e)
  BY <1>0, <1>12, Undisturbed DEF RetryLater, ModelAnswers, Touch
<1>13. CASE Release(e)
  BY <1>0, <1>13, Undisturbed DEF Release, payload, agents
<1>14. CASE Deregister(e)
  BY <1>0, <1>14, Undisturbed DEF Deregister, payload, agents
<1> QED BY <1>1, <1>2, <1>3, <1>4, <1>5, <1>6, <1>7, <1>8, <1>9, <1>10, <1>11, <1>12, <1>13,
           <1>14, <1>15 DEF Execute

\* The scanner, time and a crash.
LEMMA InvTime ==
    ASSUME Inv, TypeOK', Scan \/ BackoffEnds \/ LeaseExpires \/ Crash
    PROVE  Inv'
<1>1. CASE Scan
  <2>1. [pc |-> "resume", kind |-> "scan", about |-> NoCall] \in Requests
    BY DEF Requests, Positions, Kinds
  <2>2. ReqFollows
    BY <1>1, <2>1, Follows DEF Scan
  <2> QED BY <1>1, <2>2, Undisturbed DEF Scan, payload
<1>2. CASE BackoffEnds
  BY <1>2, Undisturbed, Follows DEF BackoffEnds, agents
<1>3. CASE LeaseExpires
  BY <1>3, Undisturbed, Follows DEF LeaseExpires, agents, payload
<1>4. CASE Crash
  <2>1. \A a \in Agents : req'[a].kind # "approval" /\ req'[a].pc # "rollback"
    BY <1>4 DEF Crash, Recovering, Quiet, Idle
  <2>2. /\ staged' = {} /\ read' = {} /\ UNCHANGED <<run, call, listed, row>>
        /\ \A a \in Agents : kept'[a] = NoKept
    BY <1>4 DEF Crash, payload
  <2>3. KeptSafe'
    BY <2>2 DEF KeptSafe, NoKept
  <2>4. StagedLast'
    BY <2>1, <2>2 DEF StagedLast
  <2>5. Backed' /\ Waiting' /\ AnswerFirst' /\ Decidable' /\ ReadLive'
    BY <2>2 DEF Inv, Backed, Waiting, AnswerFirst, Decidable, ReadLive
  <2> QED BY <2>3, <2>4, <2>5 DEF Inv
<1> QED BY <1>1, <1>2, <1>3, <1>4

\* The calls, the approvals and what every writer holds stay consistent.
THEOREM InvCorrect == Spec => []Inv
<1>1. Init => Inv
  <2>1. Init => TypeOK
    BY TypeInit
  <2>2. ASSUME Init PROVE \A a \in Agents : req[a] = Idle /\ kept[a] = NoKept
    BY <2>2 DEF Init
  <2>3. ASSUME Init PROVE StagedLast /\ KeptSafe
    BY <2>2, <2>3 DEF Init, StagedLast, KeptSafe, Idle, NoKept
  <2> QED BY <2>1, <2>3 DEF Init, Inv, Backed, Waiting, AnswerFirst, ReadLive, Decidable
<1>2. Inv /\ [Next]_vars => Inv'
  <2> SUFFICES ASSUME Inv, [Next]_vars PROVE Inv'
    OBVIOUS
  <2>1. TypeOK'
    BY TypeStep DEF Inv
  <2>2. CASE UNCHANGED vars
    BY <2>1, <2>2 DEF vars, payload, agents, Inv, Backed, Waiting, AnswerFirst, StagedLast, KeptSafe,
       ReadLive, Decidable
  <2> QED BY <2>1, <2>2, InvRequest, InvHandle, InvExecute, InvTime DEF Next
<1> QED BY <1>1, <1>2, PTL DEF Spec

\* A run that waits for approvals always has one that can be decided: after
\* any denials, rollbacks, answers and crashes.
THEOREM DecidableCorrect == Spec => []Decidable
<1>1. Inv => Decidable
  BY DEF Inv
<1> QED BY <1>1, InvCorrect, PTL
-----------------------------------------------------------------------------
(* What a step may not do.                                                 *)

\* Only ReadRound adds to the plan of an executor.
LEMMA PlanStep ==
    ASSUME Inv, Next, NEW e \in Executors, ~(plan'[e] \subseteq plan[e]), NEW c \in plan'[e]
    PROVE  row[c] = "APPROVED"
<1>0. plan \in [Executors -> SUBSET Calls]
  BY DEF Inv, TypeOK
<1>1. ASSUME NEW a \in Users, Request(a) PROVE FALSE
  BY <1>1 DEF Request, Resolve, Reconnect, Respond, Cancel, local
<1>2. ASSUME NEW a \in Agents, Handle(a) PROVE FALSE
  BY <1>2 DEF Handle, ResumeRead, DenyAcquire, DenyWrite, Spawn, ProviderMissing, Rollback,
     Repair, CancelRead, CancelWrite, Overtake, local
<1>3. ASSUME Scan \/ BackoffEnds \/ LeaseExpires \/ Crash PROVE FALSE
  BY <1>3 DEF Scan, BackoffEnds, LeaseExpires, Crash, local
<1>4. ASSUME NEW f \in Executors, Execute(f) PROVE row[c] = "APPROVED"
  <2>1. CASE ReadRound(f)
    <3>1. c \in Calls /\ call[c] = "RUNNING"
      BY <1>0, <2>1 DEF ReadRound
    <3> QED BY <3>1 DEF Inv, Backed
  <2>2. ASSUME NEW x \in Calls, StartTool(f, x) PROVE FALSE
    BY <1>0, <2>2 DEF StartTool
  <2>3. CASE Release(f)
    BY <1>0, <2>3 DEF Release
  <2>4. ASSUME UNCHANGED plan PROVE FALSE
    BY <2>4
  <2>5. CASE StartTask(f) \/ Acquire(f) \/ Mark(f) \/ Abandon(f) \/ FailRun(f) \/ AskModel(f)
    BY <2>4, <2>5 DEF StartTask, Acquire, Mark, Abandon, FailRun, AskModel
  <2>6. CASE StageCalls(f) \/ AskUser(f) \/ RetryLater(f) \/ Deregister(f)
    BY <2>4, <2>6 DEF StageCalls, AskUser, RetryLater, Deregister
  <2>7. CASE \/ \E verdict \in {"SUCCEEDED", "FAILED"} : FinishTool(f, verdict)
             \/ \E status \in {"COMPLETED", "FAILED"} : EndRun(f, status)
    BY <2>4, <2>7 DEF FinishTool, EndRun
  <2> QED BY <1>4, <2>1, <2>2, <2>3, <2>5, <2>6, <2>7 DEF Execute
<1> QED BY <1>1, <1>2, <1>3, <1>4 DEF Next

\* No order of decisions, rollbacks, answers, crashes and late executors
\* shows an executor a released call whose approval is open or was denied.
THEOREM PlansApprovedCorrect == Spec => PlansApproved
<1>1. Inv /\ [Next]_vars =>
        [\A e \in Executors : ~(plan'[e] \subseteq plan[e])
                              => (\A c \in plan'[e] : row[c] = "APPROVED")]_vars
  BY PlanStep
<1> QED BY <1>1, InvCorrect, PTL DEF Spec, PlansApproved

\* An ended run is not written.
LEMMA EndedStep ==
    ASSUME Inv, Next, run \in Ended
    PROVE  UNCHANGED <<run, call, listed>>
<1>0. run \notin {"RUNNING", "PENDING", "PENDING_INPUT"}
  BY DEF Ended
<1>1. ASSUME NEW a \in Users, Request(a) PROVE UNCHANGED <<run, call, listed>>
  BY <1>0, <1>1 DEF Request, Resolve, Concerns, Reconnect, Respond, Cancel, payload
<1>2. ASSUME NEW a \in Agents, Handle(a) PROVE UNCHANGED <<run, call, listed>>
  <2>1. a \notin read
    BY <1>0 DEF Inv, ReadLive, Cancellable
  <2> QED BY <1>0, <1>2, <2>1 DEF Handle, ResumeRead, DenyAcquire, DenyWrite, Spawn,
          ProviderMissing, Rollback, Repair, RepairAllowed, CancelRead, CancelWrite, payload
<1>3. ASSUME Scan \/ BackoffEnds \/ LeaseExpires \/ Crash PROVE UNCHANGED <<run, call, listed>>
  BY <1>3 DEF Scan, BackoffEnds, LeaseExpires, Crash, payload
<1>4. ASSUME NEW e \in Executors, Execute(e) PROVE UNCHANGED <<run, call, listed>>
  <2>1. ~ModelAnswers(e)
    BY <1>0 DEF ModelAnswers
  <2> QED BY <1>0, <1>4, <2>1 DEF Execute, StartTask, Acquire, Mark, Abandon, ReadRound, StartTool,
          FinishTool, FailRun, AskModel, StageCalls, AskUser, EndRun, RetryLater, Release,
          Deregister, payload
<1> QED BY <1>1, <1>2, <1>3, <1>4 DEF Next

\* Late rollbacks, repairs, denials, cancellations and results leave an
\* ended run alone.
THEOREM EndedStaysCorrect == Spec => EndedStays
<1>1. Inv /\ [Next]_vars => [(run \in Ended) => UNCHANGED <<run, call, listed>>]_vars
  BY EndedStep
<1> QED BY <1>1, InvCorrect, PTL DEF Spec, EndedStays
=============================================================================
