---------------------- MODULE QuoteSubscriptions_proofs ----------------------
(***************************************************************************)
(* Proofs about QuoteSubscriptions, for any references, physical keys and  *)
(* instruments and any number of demand changes and faults: the session    *)
(* fence, the truth of the reconciler's records, the completeness of a     *)
(* replay and the currency of the cache.                                   *)
(***************************************************************************)
EXTENDS QuoteSubscriptions, TLAPS

-----------------------------------------------------------------------------
(* The recorder and types. *)

\* The physical keys of a demand are keys, its instruments instruments.
LEMMA DemandTypes ==
    ASSUME NEW refs \in SUBSET Refs
    PROVE  PhysicalOf(refs) \subseteq Keys /\ InstrumentsOf(refs) \subseteq Instruments
  BY QuoteAssumption DEF PhysicalOf, InstrumentsOf

\* A reconciliation never takes the generation back, and keeps it only with the
\* instruments it had.
LEMMA RecorderGrows ==
    ASSUME TypeOK, NEW refs \in SUBSET Refs, RecorderReconcile(refs)
    PROVE  /\ recGen' \in Nat /\ recGen <= recGen' /\ recInsts' \subseteq Instruments
           /\ recConnected' \in BOOLEAN /\ recClosed' = recClosed
           /\ recGen' = recGen => recInsts' = recInsts
           /\ ~recClosed => recInsts' = InstrumentsOf(refs)
  BY DemandTypes DEF TypeOK, RecorderReconcile, Reconciled

\* The replay of a reconnect is planned in the recorder's new generation, with
\* its instruments unless the demand changed between the two locks.
LEMMA ReconnectGrows ==
    ASSUME TypeOK, ReconfigureForReconnect \/ Reconfigure
    PROVE  /\ ReconnectRefs \in SUBSET Refs
           /\ recGen' \in Nat /\ recGen <= recGen' /\ recInsts' \subseteq Instruments
           /\ recConnected' \in BOOLEAN /\ recClosed' = recClosed /\ torn' \in Nat
           /\ recGen' = recGen => recInsts' = recInsts /\ torn' = torn
           /\ ~recClosed /\ recGen' # torn' => recInsts' = InstrumentsOf(ReconnectRefs)
           /\ desired' = ReconnectRefs /\ gen' = recGen' /\ recoGen' = recGen' /\ planGen' = recGen'
           /\ plan' = PhysicalOf(ReconnectRefs) /\ plan' \subseteq Keys
           /\ records' = Replayed(ReconnectRefs, recGen')
<1>0. ReconnectRefs \in SUBSET Refs /\ recGen \in Nat /\ torn \in Nat /\ recInsts \subseteq Instruments
  BY DEF TypeOK, ReconnectRefs
<1>1. CASE ReconfigureForReconnect
  <2>1. RecorderReconcile(ReconnectRefs) /\ ReplayIn(recGen') /\ torn' = torn
    BY <1>1 DEF ReconfigureForReconnect
  <2>2. /\ recGen' \in Nat /\ recGen <= recGen' /\ recInsts' \subseteq Instruments
        /\ recConnected' \in BOOLEAN /\ recClosed' = recClosed
        /\ recGen' = recGen => recInsts' = recInsts
        /\ ~recClosed => recInsts' = InstrumentsOf(ReconnectRefs)
    BY <1>0, <2>1, RecorderGrows
  <2> QED BY <1>0, <2>1, <2>2, DemandTypes DEF ReplayIn
<1>2. CASE Reconfigure
  <2>1. /\ recGen' = recGen + 1 /\ recConnected' = FALSE /\ recInsts' = recInsts
        /\ recClosed' = recClosed /\ ReplayIn(recGen')
        /\ torn' = IF recInsts = InstrumentsOf(ReconnectRefs) THEN torn ELSE recGen'
    BY <1>2 DEF Reconfigure
  <2>2. recGen' \in Nat /\ recGen < recGen' /\ torn' \in Nat
    BY <1>0, <2>1
  <2>3. recGen' # torn' => recInsts' = InstrumentsOf(ReconnectRefs)
    BY <2>1
  <2>4. recGen <= recGen' /\ recGen' # recGen
    BY <1>0, <2>1
  <2>5. /\ desired' = ReconnectRefs /\ gen' = recGen' /\ recoGen' = recGen' /\ planGen' = recGen'
        /\ plan' = PhysicalOf(ReconnectRefs) /\ records' = Replayed(ReconnectRefs, recGen')
    BY <2>1 DEF ReplayIn
  <2>6. plan' \subseteq Keys
    BY <1>0, <2>5, DemandTypes
  <2>7. recConnected' \in BOOLEAN /\ recClosed' = recClosed /\ recInsts' \subseteq Instruments
    BY <1>0, <2>1
  <2> QED BY <1>0, <2>2, <2>3, <2>4, <2>5, <2>6, <2>7
<1> QED BY <1>1, <1>2

\* A record per key after a replay is planned.
LEMMA ReplayedType ==
    ASSUME TypeOK, NEW refs \in SUBSET Refs, NEW g \in Nat
    PROVE  /\ Replayed(refs, g) \in [Keys -> Records]
           /\ \A k \in Keys : /\ ~Replayed(refs, g)[k].active /\ Replayed(refs, g)[k].gen \in {0, g}
                              /\ Replayed(refs, g)[k].known => k \in PhysicalOf(refs)
<1>1. ASSUME NEW k \in Keys
      PROVE  [known |-> TRUE, active |-> FALSE, gen |-> g, ripe |-> records[k].ripe,
              failed |-> FALSE, due |-> FALSE] \in Records
  <2>1. records[k] \in Records
    BY DEF TypeOK
  <2> QED BY <2>1 DEF Records
<1>2. NoRecord \in Records
  BY DEF NoRecord, Records
<1>3. Replayed(refs, g) \in [Keys -> Records]
  BY <1>1, <1>2 DEF Replayed
<1>4. ASSUME NEW k \in Keys
      PROVE  /\ ~Replayed(refs, g)[k].active /\ Replayed(refs, g)[k].gen \in {0, g}
             /\ Replayed(refs, g)[k].known => k \in PhysicalOf(refs)
  BY DEF Replayed, NoRecord
<1> QED BY <1>3, <1>4

\* The records of a call: only the key of the call gets another one.
LEMMA RecordChange ==
    ASSUME TypeOK, NEW k \in Keys
    PROVE  /\ records[k] \in Records
           /\ \A j \in Keys \ {k} : /\ Subscribed(k)[j] = records[j]
                                    /\ SubscribeRefused(k)[j] = records[j]
                                    /\ UnsubscribeRefused(k)[j] = records[j]
           /\ Subscribed(k)[k] = [known |-> TRUE, active |-> TRUE, gen |-> gen, ripe |-> FALSE,
                                  failed |-> FALSE, due |-> FALSE]
           /\ SubscribeRefused(k)[k] = [known |-> TRUE, active |-> FALSE, gen |-> gen,
                                        ripe |-> records[k].ripe \/ ~records[k].known,
                                        failed |-> TRUE, due |-> FALSE]
           /\ UnsubscribeRefused(k)[k] =
                IF records[k].gen # gen THEN records[k]
                ELSE [known |-> records[k].known, active |-> records[k].active, gen |-> gen,
                      ripe |-> records[k].ripe, failed |-> TRUE, due |-> FALSE]
           /\ Subscribed(k) \in [Keys -> Records] /\ SubscribeRefused(k) \in [Keys -> Records]
           /\ UnsubscribeRefused(k) \in [Keys -> Records]
           /\ [records EXCEPT ![k] = NoRecord] \in [Keys -> Records]
<1>1. records \in [Keys -> Records] /\ records[k] \in Records /\ gen \in Nat
  BY DEF TypeOK
<1>2. /\ records[k].known \in BOOLEAN /\ records[k].active \in BOOLEAN /\ records[k].ripe \in BOOLEAN
      /\ (records[k].ripe \/ ~records[k].known) \in BOOLEAN
  BY <1>1 DEF Records
<1>3. /\ Subscribed(k) \in [Keys -> Records] /\ SubscribeRefused(k) \in [Keys -> Records]
      /\ UnsubscribeRefused(k) \in [Keys -> Records]
      /\ [records EXCEPT ![k] = NoRecord] \in [Keys -> Records]
  BY <1>1, <1>2 DEF Records, NoRecord, Subscribed, SubscribeRefused, UnsubscribeRefused
<1>4. \A j \in Keys \ {k} : /\ Subscribed(k)[j] = records[j]
                            /\ SubscribeRefused(k)[j] = records[j]
                            /\ UnsubscribeRefused(k)[j] = records[j]
  BY <1>1 DEF Subscribed, SubscribeRefused, UnsubscribeRefused
<1>5. /\ Subscribed(k)[k] = [known |-> TRUE, active |-> TRUE, gen |-> gen, ripe |-> FALSE,
                             failed |-> FALSE, due |-> FALSE]
      /\ SubscribeRefused(k)[k] = [known |-> TRUE, active |-> FALSE, gen |-> gen,
                                   ripe |-> records[k].ripe \/ ~records[k].known,
                                   failed |-> TRUE, due |-> FALSE]
  BY <1>1 DEF Subscribed, SubscribeRefused
<1>6. UnsubscribeRefused(k)[k] =
        IF records[k].gen # gen THEN records[k]
        ELSE [known |-> records[k].known, active |-> records[k].active, gen |-> gen,
              ripe |-> records[k].ripe, failed |-> TRUE, due |-> FALSE]
  BY <1>1 DEF UnsubscribeRefused
<1> QED BY <1>1, <1>3, <1>4, <1>5, <1>6

\* The empty cache, and a reconciler without records.
LEMMA Empties ==
    /\ [i \in Instruments |-> 0] \in [Instruments -> Nat]
    /\ [k \in Keys |-> NoRecord] \in [Keys -> Records]
  BY DEF NoRecord, Records

\* A shutdown moves an open recorder on, and keeps the cache or clears it.
LEMMA ShutdownRecorder ==
    ASSUME TypeOK, Shutdown
    PROVE  /\ recGen' \in Nat /\ recGen <= recGen' /\ (~recClosed => recGen < recGen') /\ recClosed'
           /\ served' = served \/ served' = [i \in Instruments |-> 0]
<1>1. PICK cleared \in BOOLEAN :
        /\ served' = IF cleared THEN [i \in Instruments |-> 0] ELSE served
        /\ recGen' = IF recClosed THEN recGen
                     ELSE IF cleared /\ pc = "panicked" THEN recGen + 2
                     ELSE recGen + 1
  BY DEF Shutdown
<1>2. recGen \in Nat
  BY DEF TypeOK
<1>3. recGen' \in Nat /\ recGen <= recGen' /\ (~recClosed => recGen < recGen')
  BY <1>1, <1>2
<1>4. recClosed' /\ (served' = served \/ served' = [i \in Instruments |-> 0])
  BY <1>1 DEF Shutdown
<1> QED BY <1>3, <1>4

LEMMA TypeInit == Init => TypeOK
<1> SUFFICES ASSUME Init PROVE TypeOK
  OBVIOUS
<1>1. records \in [Keys -> Records] /\ served \in [Instruments -> Nat]
  BY Empties DEF Init
<1>2. changes \in 0 .. MaxChanges /\ faults \in 0 .. MaxFaults
  BY QuoteAssumption DEF Init
<1>3. pc \in Steps
  BY DEF Init, Steps
<1>4. /\ demand \in SUBSET Refs /\ recInsts \in SUBSET Instruments /\ desired \in SUBSET Refs
      /\ held \in SUBSET Keys /\ plan \in SUBSET Keys /\ snap \in SUBSET Refs
      /\ subs \in SUBSET Keys /\ unsubs \in SUBSET Keys
  BY DEF Init
<1>5. /\ recGen \in Nat /\ gen \in Nat /\ recoGen \in Nat /\ linkGen \in Nat /\ planGen \in Nat
      /\ recConnected \in BOOLEAN /\ recClosed \in BOOLEAN /\ pending \in BOOLEAN /\ seen \in BOOLEAN
      /\ link \in {"none", "up", "lost"} /\ torn \in Nat
  BY DEF Init
<1> QED BY <1>1, <1>2, <1>3, <1>4, <1>5 DEF TypeOK

\* The steps of the task that only move it on.
LEMMA TypeMoves ==
    ASSUME TypeOK,
           \/ TickStart \/ SameDemand \/ Applied \/ PollEvents \/ PollPending \/ ReconnectPanics
           \/ QuotaDone \/ QuotaFails \/ SnapshotQuery \/ SnapshotSkipped \/ HealthSkipped
           \/ HealthRead \/ ConnectFails \/ ReconfigureNeeded
    PROVE  TypeOK'
<1> USE QuoteAssumption DEF TypeOK, Steps, recorder, lifecycle, session, reconnect, task
<1>1. CASE TickStart \/ SameDemand \/ Applied \/ PollEvents
  BY <1>1 DEF TickStart, SameDemand, Applied, PollEvents
<1>2. CASE PollPending \/ ReconnectPanics \/ QuotaDone
  BY <1>2 DEF PollPending, ReconnectPanics, QuotaDone
<1>3. CASE QuotaFails \/ ConnectFails
  BY <1>3 DEF QuotaFails, ConnectFails
<1>4. CASE SnapshotQuery \/ SnapshotSkipped \/ HealthSkipped
  BY <1>4 DEF SnapshotQuery, SnapshotSkipped, HealthSkipped
<1>5. CASE HealthRead
  BY <1>5 DEF HealthRead
<1>6. CASE ReconfigureNeeded
  BY <1>6 DEF ReconfigureNeeded
<1> QED BY <1>1, <1>2, <1>3, <1>4, <1>5, <1>6

LEMMA TypeStep ==
    ASSUME TypeOK, Next
    PROVE  TypeOK'
<1> USE QuoteAssumption DEF TypeOK, Steps, recorder, lifecycle, session, reconnect, task
<1>1. ASSUME NEW refs \in SUBSET Refs, DemandChanges(refs) PROVE TypeOK'
  BY <1>1, RecorderGrows DEF DemandChanges
<1>2. CASE Start
  <2>1. records' \in [Keys -> Records]
    BY <1>2, Empties DEF Start
  <2>2. recGen' \in Nat /\ recInsts' \subseteq Instruments /\ recConnected' \in BOOLEAN
    <3>1. StartRecorder
      BY <1>2 DEF Start
    <3>2. recGen' \in Nat
      BY <3>1 DEF StartRecorder
    <3>3. recInsts' \subseteq Instruments
      BY <3>1 DEF StartRecorder
    <3>4. recConnected' \in BOOLEAN
      BY <3>1 DEF StartRecorder
    <3> QED BY <3>2, <3>3, <3>4
  <2> QED BY <1>2, <2>1, <2>2 DEF Start
<1>3. CASE StartFails
  <2>1. served' \in [Instruments -> Nat]
    BY <1>3, Empties DEF StartFails
  <2>2. recGen' \in Nat
    BY <1>3 DEF StartFails
  <2>3. recInsts' \subseteq Instruments
    BY <1>3 DEF StartFails
  <2>4. faults' \in 0 .. MaxFaults
    BY <1>3 DEF StartFails
  <2>5. recConnected' \in BOOLEAN /\ recClosed' \in BOOLEAN
    BY <1>3 DEF StartFails
  <2>6. UNCHANGED <<demand, lifecycle, session, reconnect, pc, task, torn, changes>>
    BY <1>3 DEF StartFails
  <2> QED BY <2>1, <2>2, <2>3, <2>4, <2>5, <2>6
<1>4. CASE Shutdown
  <2>1. served' \in [Instruments -> Nat]
    BY <1>4, ShutdownRecorder, Empties
  <2>2. recGen' \in Nat
    BY <1>4, ShutdownRecorder
  <2> QED BY <1>4, <2>1, <2>2 DEF Shutdown
<1>5. CASE ConnectionLost
  BY <1>5 DEF ConnectionLost
<1>6. ASSUME NEW k \in Keys, RetryDue(k) \/ MinimumAge(k) PROVE TypeOK'
  <2>1. [records[k] EXCEPT !.due = TRUE] \in Records /\ [records[k] EXCEPT !.ripe = TRUE] \in Records
    BY DEF Records
  <2>2. \/ records' = [records EXCEPT ![k] = [records[k] EXCEPT !.due = TRUE]]
        \/ records' = [records EXCEPT ![k] = [records[k] EXCEPT !.ripe = TRUE]]
    BY <1>6 DEF RetryDue, MinimumAge
  <2>3. records' \in [Keys -> Records]
    BY <2>1, <2>2
  <2> QED BY <1>6, <2>3 DEF RetryDue, MinimumAge
<1>7. CASE Replan
  <2>1. subs' \subseteq Keys /\ unsubs' \subseteq Keys
    BY <1>7, DemandTypes DEF Replan, ToSubscribe, ToUnsubscribe
  <2> QED BY <1>7, <2>1, RecorderGrows DEF Replan
<1>8. ASSUME ReconfigureForReconnect \/ Reconfigure
      PROVE  /\ recGen' \in Nat /\ recInsts' \subseteq Instruments /\ recConnected' \in BOOLEAN
             /\ recClosed' \in BOOLEAN /\ torn' \in Nat /\ desired' \in SUBSET Refs /\ gen' \in Nat
             /\ recoGen' \in Nat /\ planGen' \in Nat /\ plan' \subseteq Keys
             /\ records' \in [Keys -> Records]
  <2>1. records' \in [Keys -> Records]
    BY <1>8, ReconnectGrows, ReplayedType
  <2> QED BY <1>8, <2>1, ReconnectGrows
<1>9. CASE ReplaceReplay \/ BeginReconnect
  <2>1. /\ ReconfigureForReconnect /\ pc' \in Steps /\ pending' \in BOOLEAN
        /\ link' \in {"none", "up", "lost"}
        /\ UNCHANGED <<demand, linkGen, held, task, served, changes, faults>>
    BY <1>9 DEF ReplaceReplay, BeginReconnect
  <2> QED BY <1>8, <2>1
<1>18. CASE Reconfigure
  <2>1. /\ pc' \in Steps /\ pending' \in BOOLEAN /\ link' \in {"none", "up", "lost"}
        /\ UNCHANGED <<demand, linkGen, held, task, served, changes, faults>>
    BY <1>18 DEF Reconfigure
  <2> QED BY <1>8, <1>18, <2>1
<1>10. ASSUME NEW k \in Keys, Subscribe(k) PROVE TypeOK'
  BY <1>10, RecordChange DEF Subscribe
<1>11. ASSUME NEW k \in Keys, Unsubscribe(k) PROVE TypeOK'
  BY <1>11, RecordChange DEF Unsubscribe
<1>12. ASSUME NEW k \in Keys, SubscribeFails(k) PROVE TypeOK'
  <2>1. held' \subseteq Keys /\ faults' \in 0 .. MaxFaults
    BY <1>12 DEF SubscribeFails, CallFailed
  <2> QED BY <1>12, <2>1, RecordChange DEF SubscribeFails, EndWithError
<1>13. ASSUME NEW k \in Keys, UnsubscribeFails(k) PROVE TypeOK'
  <2>1. held' \subseteq Keys /\ faults' \in 0 .. MaxFaults
    BY <1>13 DEF UnsubscribeFails, CallFailed
  <2> QED BY <1>13, <2>1, RecordChange DEF UnsubscribeFails, EndWithError
<1>14. CASE Connect
  BY <1>14 DEF Connect
<1>15. CASE Reconnected
  BY <1>15 DEF Reconnected
<1>16. CASE SnapshotStored
  BY <1>16 DEF SnapshotStored
<1>17. CASE HealthWrite
  BY <1>17 DEF HealthWrite
<1> QED
  BY <1>1, <1>2, <1>3, <1>4, <1>5, <1>6, <1>7, <1>8, <1>9, <1>10, <1>11, <1>12, <1>13, <1>14, <1>15,
     <1>16, <1>17, <1>18, TypeMoves DEF Next, Time, Perform, Fails

-----------------------------------------------------------------------------
(* The session, its generation and the pending reconnect.                  *)

\* When a reconnect is pending, and what the session looks like meanwhile.
PendingLink ==
    /\ pc \in {"connect", "replay"} => pending
    /\ pc \in {"down", "apply", "stopped"} => ~pending
    /\ pending /\ pc \notin {"replay", "panicked"} => link = "none"
    /\ pc \in {"down", "stopped"} => link = "none"
    /\ link # "up" => held = {}
    /\ pc = "replay" => linkGen = gen /\ link # "none"
    /\ pc = "reconfigure" => link # "up"

\* The actions to be executed are those of the planned demand.
Planned == pc \in {"apply", "replay"} => subs \subseteq PhysicalOf(desired)

LinkInv == Fence /\ PendingLink /\ Planned

\* Steps of the task that change neither session nor plan.
Still ==
    /\ UNCHANGED <<recGen, recInsts, recClosed, desired, gen, recoGen, records, link, linkGen, held,
                   pending, plan, planGen, subs, served, torn>>
    /\ pc \notin {"down", "stopped", "panicked"}
    /\ pc' \notin {"down", "stopped", "apply", "replay"}
    /\ pc = "replay" => pc' = "panicked"
    /\ pc' = "connect" => pending
    /\ pc' = "reconfigure" => link = "lost" \/ (pending /\ pc = "reconcile")

LEMMA StillSteps ==
    ASSUME \/ TickStart \/ SameDemand \/ Applied \/ PollEvents \/ PollPending \/ ReconnectPanics
           \/ QuotaDone \/ QuotaFails \/ SnapshotQuery \/ SnapshotSkipped \/ HealthSkipped
           \/ HealthRead \/ ConnectFails \/ HealthWrite \/ ReconfigureNeeded
    PROVE  Still
<1> USE DEF Still, recorder, lifecycle, session, reconnect, task
<1>1. CASE TickStart \/ SameDemand \/ Applied \/ PollEvents
  BY <1>1 DEF TickStart, SameDemand, Applied, PollEvents
<1>2. CASE PollPending \/ ReconnectPanics \/ QuotaDone
  BY <1>2 DEF PollPending, ReconnectPanics, QuotaDone
<1>3. CASE QuotaFails \/ ConnectFails \/ HealthRead \/ HealthWrite
  BY <1>3 DEF QuotaFails, ConnectFails, HealthRead, HealthWrite
<1>4. CASE SnapshotQuery \/ SnapshotSkipped \/ HealthSkipped
  BY <1>4 DEF SnapshotQuery, SnapshotSkipped, HealthSkipped
<1>5. CASE ReconfigureNeeded
  <2>1. (pc = "reconcile" /\ pending) \/ (pc = "poll" /\ link = "lost")
    BY <1>5, Zenon DEF ReconfigureNeeded
  <2>2. pc' = "reconfigure"
    BY <1>5, Zenon DEF ReconfigureNeeded
  <2>3. UNCHANGED <<recGen, recInsts, recClosed, desired, gen, recoGen, records, link, linkGen, held,
                    pending, plan, planGen, subs, served, torn>>
    BY <1>5 DEF ReconfigureNeeded
  <2> QED BY <2>1, <2>2, <2>3
<1> QED BY <1>1, <1>2, <1>3, <1>4, <1>5

\* Every step is still, or one of these.
LEMMA StepKinds ==
    ASSUME Next
    PROVE  \/ Still
           \/ \E refs \in SUBSET Refs : DemandChanges(refs)
           \/ Start \/ StartFails \/ Shutdown \/ ConnectionLost
           \/ \E k \in Keys : \/ RetryDue(k) \/ MinimumAge(k) \/ Subscribe(k) \/ Unsubscribe(k)
                              \/ SubscribeFails(k) \/ UnsubscribeFails(k)
           \/ Replan \/ ReplaceReplay \/ BeginReconnect \/ Reconfigure \/ Connect \/ Reconnected
           \/ SnapshotStored
  BY StillSteps DEF Next, Time, Perform, Fails

LEMMA LinkStep ==
    ASSUME TypeOK, LinkInv, Next
    PROVE  LinkInv'
<1> USE DEF TypeOK, LinkInv, Fence, PendingLink, Planned, recorder, lifecycle, session, reconnect, task
<1>0. CASE Still
  BY <1>0 DEF Still
<1>1. ASSUME NEW refs \in SUBSET Refs, DemandChanges(refs) PROVE LinkInv'
  BY <1>1, RecorderGrows DEF DemandChanges
<1>2. CASE Start
  <2>1. recGen' \in Nat
    <3>1. StartRecorder
      BY <1>2 DEF Start
    <3> QED BY <3>1 DEF StartRecorder
  <2>2. /\ pc' = "idle" /\ gen' = recGen' /\ recoGen' = 0 /\ link' = "up" /\ linkGen' = gen'
        /\ held' = {} /\ UNCHANGED pending /\ pc = "down"
    BY <1>2 DEF Start
  <2> QED BY <2>1, <2>2
<1>3. CASE StartFails
  <2>1. recGen' \in Nat /\ recGen <= recGen'
    BY <1>3 DEF StartFails
  <2>2. UNCHANGED <<lifecycle, session, reconnect, pc, task>>
    BY <1>3 DEF StartFails
  <2> QED BY <2>1, <2>2
<1>4. CASE Shutdown
  <2>1. recGen' \in Nat /\ recGen <= recGen'
    BY <1>4, ShutdownRecorder
  <2>2. UNCHANGED <<desired, gen, recoGen>> /\ pc' = "stopped" /\ pending' = FALSE /\ link' = "none"
        /\ held' = {}
    BY <1>4 DEF Shutdown
  <2> QED BY <2>1, <2>2
<1>5. CASE ConnectionLost
  BY <1>5 DEF ConnectionLost
<1>6. ASSUME NEW k \in Keys, RetryDue(k) \/ MinimumAge(k) PROVE LinkInv'
  BY <1>6 DEF RetryDue, MinimumAge
<1>7. CASE Replan
  <2>1. recGen' \in Nat /\ recGen <= recGen' /\ gen' = recGen' /\ desired' = snap
    BY <1>7, RecorderGrows DEF Replan
  <2>2. subs' \subseteq PhysicalOf(snap)
    BY <1>7 DEF Replan, ToSubscribe
  <2>3. UNCHANGED <<recoGen, session, reconnect>> /\ pc' = "apply" /\ ~pending /\ pc = "reconcile"
    BY <1>7 DEF Replan
  <2> QED BY <2>1, <2>2, <2>3
<1>8. ASSUME ReconfigureForReconnect \/ Reconfigure, pending', link' = "none", held' = {},
             pc' \in {"poll", "connect"}
      PROVE  LinkInv'
  <2>1. /\ recGen' \in Nat /\ gen' = recGen' /\ recoGen' = recGen' /\ planGen' = recGen'
        /\ desired' = ReconnectRefs /\ plan' = PhysicalOf(ReconnectRefs)
    BY <1>8, ReconnectGrows
  <2>2. Fence'
    BY <1>8, <2>1
  <2> QED BY <1>8, <2>2
<1>9. CASE ReplaceReplay \/ BeginReconnect
  <2>1. /\ ReconfigureForReconnect /\ pending' /\ link' = "none" /\ held' = {}
        /\ pc' \in {"poll", "connect"}
    BY <1>9 DEF ReplaceReplay, BeginReconnect
  <2> QED BY <1>8, <2>1
<1>17. CASE Reconfigure
  <2>1. pending' /\ link' = "none" /\ held' = {} /\ pc' \in {"poll", "connect"}
    BY <1>17 DEF Reconfigure
  <2> QED BY <1>8, <1>17, <2>1
<1>10. ASSUME NEW k \in Keys, Subscribe(k) PROVE LinkInv'
  BY <1>10 DEF Subscribe
<1>11. ASSUME NEW k \in Keys, Unsubscribe(k) PROVE LinkInv'
  BY <1>11 DEF Unsubscribe
<1>12. ASSUME NEW k \in Keys, SubscribeFails(k) PROVE LinkInv'
  <2>1. /\ link' = (IF pc = "replay" THEN "none" ELSE link) /\ pc' = "end" /\ pc \in {"apply", "replay"}
        /\ UNCHANGED <<recorder, desired, gen, recoGen, linkGen, reconnect>>
    BY <1>12 DEF SubscribeFails, EndWithError
  <2>2. link' # "up" => held' = {}
    BY <1>12 DEF SubscribeFails, CallFailed
  <2> QED BY <2>1, <2>2
<1>13. ASSUME NEW k \in Keys, UnsubscribeFails(k) PROVE LinkInv'
  <2>1. /\ link' = link /\ pc' = "end" /\ pc = "apply"
        /\ UNCHANGED <<recorder, desired, gen, recoGen, linkGen, reconnect>>
    BY <1>13 DEF UnsubscribeFails, EndWithError
  <2>2. link' # "up" => held' = {}
    BY <1>13 DEF UnsubscribeFails, CallFailed
  <2> QED BY <2>1, <2>2
<1>14. CASE Connect
  BY <1>14 DEF Connect
<1>15. CASE Reconnected
  BY <1>15 DEF Reconnected
<1>16. CASE SnapshotStored
  BY <1>16 DEF SnapshotStored
<1> QED
  BY <1>0, <1>1, <1>2, <1>3, <1>4, <1>5, <1>6, <1>7, <1>8, <1>9, <1>10, <1>11, <1>12, <1>13, <1>14,
     <1>15, <1>16, <1>17, StepKinds

LEMMA LinkInvariant == Spec => [](TypeOK /\ LinkInv)
<1>1. Init => TypeOK /\ LinkInv
  BY TypeInit DEF Init, LinkInv, Fence, PendingLink, Planned
<1>2. TypeOK /\ LinkInv /\ [Next]_vars => TypeOK' /\ LinkInv'
  <2> SUFFICES ASSUME TypeOK, LinkInv, [Next]_vars PROVE TypeOK' /\ LinkInv'
    OBVIOUS
  <2>1. CASE UNCHANGED vars
    BY <2>1 DEF vars, TypeOK, LinkInv, Fence, PendingLink, Planned, recorder, lifecycle, session,
       reconnect, task
  <2>2. CASE Next
    BY <2>2, TypeStep, LinkStep
  <2> QED BY <2>1, <2>2
<1> QED BY <1>1, <1>2, PTL DEF Spec

\* Every variable of the quote runtime keeps its type.
THEOREM TypeCorrect == Spec => []TypeOK
  BY LinkInvariant, PTL

\* A session never belongs to a generation before the last reconnect or after
\* the lifecycle's, and a pending replay is the one of the current demand: the
\* fence of execute_action never skips what was planned, whatever other threads
\* do to the recorder meanwhile.
THEOREM FenceHolds == Spec => []Fence
  BY LinkInvariant, PTL DEF LinkInv

-----------------------------------------------------------------------------
(* The reconciler's records.                                               *)

Sane ==
    \A k \in Keys :
        /\ records[k].active => records[k].known
        /\ records[k].gen <= gen
        /\ pending /\ records[k].known => k \in plan

\* What a replay has executed so far is held and recorded.
Replaying ==
    pc = "replay" =>
        \A k \in plan \ subs : /\ records[k].active /\ records[k].gen = gen
                               /\ link = "up" => k \in held

RecordsInv == Sane /\ Replaying /\ RecordsTrue /\ HeldKnown

LEMMA RecordsStep ==
    ASSUME TypeOK, TypeOK', LinkInv, RecordsInv, Next
    PROVE  RecordsInv'
<1> USE DEF RecordsInv, recorder, lifecycle, session, reconnect, task
<1>a. /\ gen \in Nat /\ gen' \in Nat /\ held \subseteq Keys /\ plan \subseteq Keys /\ subs \subseteq Keys
      /\ desired \in SUBSET Refs /\ snap \in SUBSET Refs
      /\ \A k \in Keys : records[k] \in Records
  BY DEF TypeOK
<1>c. \A k \in Keys : records[k].gen \in Nat
  BY <1>a DEF Records
<1>d. \A k \in Keys :
        /\ records[k].known \in BOOLEAN /\ records[k].active \in BOOLEAN /\ records[k].failed \in BOOLEAN
        /\ records'[k].known \in BOOLEAN /\ records'[k].active \in BOOLEAN
        /\ records'[k].failed \in BOOLEAN
  <2>1. \A k \in Keys : records'[k] \in Records
    BY DEF TypeOK
  <2> QED BY <1>a, <2>1 DEF Records
<1>b. link = "up" => InFence
  BY DEF LinkInv, Fence, InFence
<1>0. CASE Still
  BY <1>0 DEF Still, Sane, Replaying, RecordsTrue, HeldKnown
<1>1. ASSUME NEW refs \in SUBSET Refs, DemandChanges(refs) PROVE RecordsInv'
  BY <1>1 DEF DemandChanges, Sane, Replaying, RecordsTrue, HeldKnown
<1>2. CASE Start
  <2>1. /\ records' = [k \in Keys |-> NoRecord] /\ held' = {} /\ pc' = "idle"
    BY <1>2 DEF Start
  <2>2. \A k \in Keys : records'[k] = NoRecord
    BY <2>1
  <2> QED BY <1>a, <2>1, <2>2 DEF NoRecord, Sane, Replaying, RecordsTrue, HeldKnown
<1>3. CASE StartFails
  BY <1>3 DEF StartFails, Sane, Replaying, RecordsTrue, HeldKnown
<1>4. CASE Shutdown
  <2>1. UNCHANGED <<records, gen>> /\ held' = {} /\ pc' = "stopped" /\ pending' = FALSE /\ link' = "none"
    BY <1>4 DEF Shutdown
  <2> QED BY <2>1 DEF Sane, Replaying, RecordsTrue, HeldKnown
<1>5. CASE ConnectionLost
  BY <1>5 DEF ConnectionLost, Sane, Replaying, RecordsTrue, HeldKnown
<1>6. ASSUME NEW k \in Keys, RetryDue(k) \/ MinimumAge(k) PROVE RecordsInv'
  <2>1. \/ records' = [records EXCEPT ![k] = [records[k] EXCEPT !.due = TRUE]]
        \/ records' = [records EXCEPT ![k] = [records[k] EXCEPT !.ripe = TRUE]]
    BY <1>6 DEF RetryDue, MinimumAge
  <2>2. ASSUME NEW j \in Keys
        PROVE  /\ records'[j].known = records[j].known /\ records'[j].active = records[j].active
               /\ records'[j].gen = records[j].gen /\ records'[j].failed = records[j].failed
    <3>1. records \in [Keys -> Records] /\ records[k] \in Records
      BY DEF TypeOK
    <3> QED BY <2>1, <3>1 DEF Records
  <2>3. UNCHANGED <<gen, link, held, pending, plan, pc, subs>>
    BY <1>6 DEF RetryDue, MinimumAge
  <2> QED BY <1>a, <1>c, <1>d, <2>2, <2>3 DEF Sane, Replaying, RecordsTrue, HeldKnown
<1>7. CASE Replan
  <2>1. /\ gen' \in Nat /\ gen <= gen' /\ ~pending /\ pc' = "apply"
        /\ UNCHANGED <<records, link, held, pending, plan>>
    BY <1>7, RecorderGrows DEF Replan, LinkInv, Fence, TypeOK
  <2>2. Sane'
    BY <1>a, <1>c, <2>1 DEF Sane
  <2>3. RecordsTrue'
    BY <1>a, <1>c, <2>1 DEF Sane, RecordsTrue
  <2> QED BY <2>1, <2>2, <2>3 DEF Replaying, HeldKnown
<1>8. ASSUME ReconfigureForReconnect \/ Reconfigure, held' = {}, pc' # "replay", pending'
      PROVE  RecordsInv'
  <2>1. records' = Replayed(ReconnectRefs, recGen') /\ ReconnectRefs \in SUBSET Refs
    BY <1>8, ReconnectGrows
  <2>2. gen' = recGen' /\ plan' = PhysicalOf(ReconnectRefs) /\ recGen' \in Nat
    BY <1>8, ReconnectGrows
  <2>3. \A k \in Keys : /\ ~records'[k].active /\ records'[k].gen \in {0, gen'}
                        /\ records'[k].known => k \in plan'
    BY <2>1, <2>2, ReplayedType
  <2>4. Sane'
    <3> SUFFICES ASSUME NEW k \in Keys
                 PROVE  /\ records'[k].active => records'[k].known
                        /\ records'[k].gen <= gen'
                        /\ pending' /\ records'[k].known => k \in plan'
      BY DEF Sane
    <3>1. records'[k].gen <= gen'
      BY <1>a, <2>3
    <3> QED BY <2>3, <3>1, Zenon
  <2>5. RecordsTrue'
    BY <2>3, Zenon DEF RecordsTrue
  <2> QED BY <1>8, <2>4, <2>5 DEF Replaying, HeldKnown
<1>9. CASE ReplaceReplay \/ BeginReconnect
  BY <1>8, <1>9 DEF ReplaceReplay, BeginReconnect, LinkInv, PendingLink
<1>17. CASE Reconfigure
  BY <1>8, <1>17 DEF Reconfigure, LinkInv, PendingLink
<1>10. ASSUME NEW k \in Keys, Subscribe(k) PROVE RecordsInv'
  <2>1. /\ InFence /\ records' = Subscribed(k) /\ held' = held \cup {k} /\ subs' = subs \ {k}
        /\ UNCHANGED <<gen, link, pending, plan, pc>> /\ link = "up" /\ k \in subs
        /\ pc \in {"apply", "replay"}
    BY <1>10, <1>b DEF Subscribe
  <2>2. /\ records'[k] = [known |-> TRUE, active |-> TRUE, gen |-> gen, ripe |-> FALSE,
                          failed |-> FALSE, due |-> FALSE]
        /\ \A j \in Keys \ {k} : records'[j] = records[j]
    BY <2>1, RecordChange
  <2>3. pending => k \in plan
    BY <2>1 DEF LinkInv, PendingLink, Planned, Fence
  <2>4. Sane'
    BY <1>a, <1>c, <2>1, <2>2, <2>3 DEF Sane
  <2>5. Replaying'
    BY <1>a, <1>c, <1>d, <2>1, <2>2 DEF Replaying
  <2>6. RecordsTrue' /\ HeldKnown'
    BY <1>a, <1>c, <1>d, <2>1, <2>2 DEF RecordsTrue, HeldKnown
  <2> QED BY <2>4, <2>5, <2>6
<1>11. ASSUME NEW k \in Keys, Unsubscribe(k) PROVE RecordsInv'
  <2>1. /\ records' = [records EXCEPT ![k] = NoRecord] /\ held' = held \ {k}
        /\ UNCHANGED <<gen, link, pending, plan, pc>> /\ link = "up" /\ pc = "apply"
    BY <1>11, <1>b DEF Unsubscribe
  <2>2. records'[k] = NoRecord /\ \A j \in Keys \ {k} : records'[j] = records[j]
    BY <2>1 DEF TypeOK
  <2> QED BY <1>a, <1>c, <2>1, <2>2 DEF Sane, Replaying, RecordsTrue, HeldKnown, NoRecord
<1>12. ASSUME NEW k \in Keys, SubscribeFails(k) PROVE RecordsInv'
  <2>1. /\ records' = SubscribeRefused(k) /\ pc' = "end" /\ UNCHANGED <<gen, pending, plan>>
        /\ pc \in {"apply", "replay"} /\ k \in subs
        /\ link' = IF pc = "replay" THEN "none" ELSE link
    BY <1>12 DEF SubscribeFails, EndWithError
  <2>2. \/ pc = "replay" /\ held' = {}
        \/ held' \in {held, held \cup {k}}
    BY <1>12 DEF SubscribeFails
  <2>3. /\ records'[k].known /\ ~records'[k].active /\ records'[k].gen = gen
        /\ \A j \in Keys \ {k} : records'[j] = records[j]
    <3>1. SubscribeRefused(k)[k] = [known |-> TRUE, active |-> FALSE, gen |-> gen,
                                    ripe |-> records[k].ripe \/ ~records[k].known,
                                    failed |-> TRUE, due |-> FALSE]
      BY RecordChange
    <3>2. \A j \in Keys \ {k} : SubscribeRefused(k)[j] = records[j]
      BY RecordChange
    <3> QED BY <1>d, <2>1, <3>1, <3>2
  <2>4. pending => k \in plan
    BY <2>1 DEF LinkInv, PendingLink, Planned, Fence
  <2>5. Sane' /\ Replaying'
    BY <1>a, <1>c, <2>1, <2>3, <2>4 DEF Sane, Replaying
  <2>6. RecordsTrue' /\ HeldKnown'
    BY <1>a, <1>c, <1>d, <2>1, <2>2, <2>3 DEF RecordsTrue, HeldKnown
  <2> QED BY <2>5, <2>6
<1>13. ASSUME NEW k \in Keys, UnsubscribeFails(k) PROVE RecordsInv'
  <2>1. /\ records' = UnsubscribeRefused(k) /\ pc' = "end" /\ UNCHANGED <<gen, pending, plan, link>>
        /\ held' \in {held, held \ {k}}
    BY <1>13 DEF UnsubscribeFails, EndWithError
  <2>2. /\ records'[k].known = records[k].known /\ records'[k].active = records[k].active
        /\ records'[k].gen = records[k].gen
        /\ records'[k].gen = gen => records'[k].failed
        /\ \A j \in Keys \ {k} : records'[j] = records[j]
    <3>1. UnsubscribeRefused(k)[k] =
            IF records[k].gen # gen THEN records[k]
            ELSE [known |-> records[k].known, active |-> records[k].active, gen |-> gen,
                  ripe |-> records[k].ripe, failed |-> TRUE, due |-> FALSE]
      BY RecordChange
    <3>2. \A j \in Keys \ {k} : UnsubscribeRefused(k)[j] = records[j]
      BY RecordChange
    <3> QED BY <1>d, <2>1, <3>1, <3>2
  <2>3. Sane' /\ Replaying' /\ HeldKnown'
    BY <1>a, <1>c, <2>1, <2>2 DEF Sane, Replaying, HeldKnown
  <2>4. RecordsTrue'
    BY <2>1, <2>2 DEF RecordsTrue
  <2> QED BY <2>3, <2>4
<1>14. CASE Connect
  <2>1. /\ pc = "connect" /\ pc' = "replay" /\ held' = {} /\ subs' = plan
        /\ UNCHANGED <<records, gen, pending, plan>>
    BY <1>14 DEF Connect
  <2>2. pending
    BY <2>1 DEF LinkInv, PendingLink
  <2> QED BY <2>1, <2>2 DEF Sane, Replaying, RecordsTrue, HeldKnown
<1>15. CASE Reconnected
  <2>1. /\ pc = "replay" /\ subs = {} /\ pc' = "quota" /\ pending' = FALSE
        /\ UNCHANGED <<records, gen, plan, link, held>>
    BY <1>15 DEF Reconnected
  <2>2. pending
    BY <2>1 DEF LinkInv, PendingLink
  <2>3. RecordsTrue'
    BY <2>1, <2>2 DEF RecordsTrue, Replaying, Sane
  <2> QED BY <2>1, <2>3 DEF Sane, Replaying, HeldKnown
<1>16. CASE SnapshotStored
  BY <1>16 DEF SnapshotStored, Sane, Replaying, RecordsTrue, HeldKnown
<1> QED
  BY <1>0, <1>1, <1>2, <1>3, <1>4, <1>5, <1>6, <1>7, <1>9, <1>10, <1>11, <1>12, <1>13, <1>14,
     <1>15, <1>16, <1>17, StepKinds

LEMMA RecordsInvariant == Spec => [](TypeOK /\ LinkInv /\ RecordsInv)
<1>1. Init => RecordsInv
  <2> SUFFICES ASSUME Init PROVE RecordsInv
    OBVIOUS
  <2>1. \A k \in Keys : records[k] = NoRecord
    BY DEF Init
  <2> QED BY <2>1 DEF Init, NoRecord, RecordsInv, Sane, Replaying, RecordsTrue, HeldKnown
<1>2. TypeOK /\ TypeOK' /\ LinkInv /\ RecordsInv /\ [Next]_vars => RecordsInv'
  <2>1. RecordsInv /\ UNCHANGED vars => RecordsInv'
    BY DEF vars, RecordsInv, Sane, Replaying, RecordsTrue, HeldKnown, recorder, lifecycle, session,
       reconnect, task
  <2> QED BY <2>1, RecordsStep
<1> QED BY <1>1, <1>2, LinkInvariant, PTL DEF Spec

\* What the reconciler believes active in the current generation OpenD holds on
\* the live session, after any refused, timed out or cut off calls.
THEOREM RecordsHold == Spec => []RecordsTrue
  BY RecordsInvariant, PTL DEF RecordsInv

\* OpenD holds nothing on the session that the reconciler has forgotten: a call
\* that timed out leaves a record of what may have been done.
THEOREM NothingForgotten == Spec => []HeldKnown
  BY RecordsInvariant, PTL DEF RecordsInv

\* A reconnect ends only when every subscription of the demand it was last given
\* is recorded active in the session's generation and held by it.
THEOREM ReplayCompletes == Spec => ReplayComplete
<1>1. TypeOK /\ LinkInv /\ RecordsInv /\ [Next]_vars =>
        [(pending /\ ~pending' /\ pc' # "stopped") =>
           \A k \in PhysicalOf(desired) :
             /\ records[k].active /\ records[k].gen = linkGen
             /\ link = "up" => k \in held]_vars
  <2> SUFFICES ASSUME LinkInv, RecordsInv, Next, pending, ~pending', pc' # "stopped",
                      NEW k \in PhysicalOf(desired)
               PROVE  /\ records[k].active /\ records[k].gen = linkGen
                      /\ link = "up" => k \in held
    OBVIOUS
  <2> USE DEF reconnect
  <2>1. ~Still /\ ~Start /\ ~StartFails /\ ~Shutdown /\ ~ConnectionLost
    BY DEF Still, Start, StartFails, Shutdown, ConnectionLost
  <2>2. ~Replan /\ ~ReplaceReplay /\ ~BeginReconnect /\ ~Reconfigure /\ ~Connect /\ ~SnapshotStored
    BY DEF Replan, ReplaceReplay, BeginReconnect, Reconfigure, Connect, SnapshotStored
  <2>3. \A refs \in SUBSET Refs : ~DemandChanges(refs)
    BY DEF DemandChanges
  <2>4. \A j \in Keys : ~RetryDue(j) /\ ~MinimumAge(j) /\ ~Subscribe(j) /\ ~Unsubscribe(j)
    BY DEF RetryDue, MinimumAge, Subscribe, Unsubscribe
  <2>5. \A j \in Keys : ~SubscribeFails(j) /\ ~UnsubscribeFails(j)
    BY DEF SubscribeFails, UnsubscribeFails, EndWithError
  <2>6. Reconnected
    BY <2>1, <2>2, <2>3, <2>4, <2>5, StepKinds
  <2>7. pc = "replay" /\ subs = {} /\ plan = PhysicalOf(desired) /\ linkGen = gen
    BY <2>6 DEF Reconnected, LinkInv, PendingLink, Fence
  <2> QED BY <2>7 DEF RecordsInv, Replaying
<1> QED BY <1>1, RecordsInvariant, PTL DEF Spec, ReplayComplete

-----------------------------------------------------------------------------
(* The cache.                                                              *)

\* In the recorder's generation the lifecycle and the recorder mean the same
\* instruments, unless the generation is torn.
SameInstruments == ~recClosed /\ gen = recGen /\ gen # torn => recInsts = InstrumentsOf(desired)

\* An active BASIC subscription of a generation that is not torn is of a
\* demanded instrument.
ActiveDemanded ==
    ~recClosed /\ gen # torn => ActiveBasics \subseteq InstrumentsOf(desired)

ServedBefore ==
    \A i \in Instruments : served[i] <= recGen /\ (recClosed => served[i] = 0 \/ served[i] < recGen)

CacheInv == SameInstruments /\ ActiveDemanded /\ ServedBefore /\ CacheCurrent

\* A step of the recorder that stores no tick.
RecorderMoves ==
    /\ recGen <= recGen' /\ recGen' \in Nat
    /\ recGen' = recGen => recInsts' = recInsts /\ torn' = torn
    /\ served' = served /\ recClosed' = recClosed

LEMMA ServedStays ==
    ASSUME TypeOK, CacheInv, RecorderMoves
    PROVE  ServedBefore' /\ CacheCurrent'
<1>1. recGen \in Nat /\ \A i \in Instruments : served[i] \in Nat
  BY DEF TypeOK
<1> QED BY <1>1 DEF RecorderMoves, CacheInv, ServedBefore, CacheCurrent

\* The basic subscriptions of a demand belong to its instruments.
LEMMA BasicDemanded ==
    ASSUME NEW refs \in SUBSET Refs, NEW i \in Instruments, BasicOf[i] \in PhysicalOf(refs)
    PROVE  i \in InstrumentsOf(refs)
<1>1. PICK r \in refs : BasicOf[i] \in Physical[r]
  BY DEF PhysicalOf
<1>2. InstrumentOf[r] = i
  BY <1>1, QuoteAssumption
<1> QED BY <1>2 DEF InstrumentsOf

\* Steps that make no BASIC subscription active, and plan for nothing else.
LEMMA ActiveStays ==
    ASSUME TypeOK, LinkInv, CacheInv, RecorderMoves, UNCHANGED <<gen, desired, torn>>,
           \A k \in Keys : records'[k].known /\ records'[k].active /\ records'[k].gen = gen
                           => records[k].known /\ records[k].active /\ records[k].gen = gen
    PROVE  CacheInv'
<1>1. gen \in Nat /\ recGen \in Nat /\ gen <= recGen /\ \A i \in Instruments : BasicOf[i] \in Keys
  BY QuoteAssumption DEF TypeOK, LinkInv, Fence
<1>2. SameInstruments'
  BY <1>1 DEF CacheInv, SameInstruments, RecorderMoves
<1>3. ActiveBasics' \subseteq ActiveBasics
  BY <1>1 DEF ActiveBasics
<1>4. ActiveDemanded'
  BY <1>3 DEF CacheInv, ActiveDemanded, RecorderMoves
<1> QED BY <1>2, <1>4, ServedStays DEF CacheInv

LEMMA CacheStep ==
    ASSUME TypeOK, TypeOK', LinkInv, RecordsInv, CacheInv, Next
    PROVE  CacheInv'
<1> USE DEF recorder, lifecycle, session, reconnect, task
<1>a. /\ gen \in Nat /\ recGen \in Nat /\ recGen' \in Nat /\ gen <= recGen
      /\ desired \in SUBSET Refs /\ snap \in SUBSET Refs
      /\ \A i \in Instruments : BasicOf[i] \in Keys
      /\ \A i \in Instruments : served[i] \in Nat
      /\ \A k \in Keys : records[k] \in Records /\ records'[k] \in Records
  BY QuoteAssumption DEF TypeOK, LinkInv, Fence
<1>b. \A k \in Keys : records[k].gen \in Nat
  BY <1>a DEF Records
<1>c. ASSUME UNCHANGED <<recGen, recInsts, recClosed, served, torn>> PROVE RecorderMoves
  BY <1>a, <1>c DEF RecorderMoves
<1>0. CASE Still
  BY <1>0, <1>c, ActiveStays DEF Still
<1>1. ASSUME NEW refs \in SUBSET Refs, DemandChanges(refs) PROVE CacheInv'
  <2>1. RecorderMoves
    BY <1>1, RecorderGrows DEF DemandChanges, RecorderMoves
  <2> QED BY <1>1, <2>1, ActiveStays DEF DemandChanges
<1>2. CASE Start
  <2>1. StartRecorder /\ desired' = {} /\ UNCHANGED <<served, recClosed, torn>>
    BY <1>2 DEF Start
  <2>2. records' = [k \in Keys |-> NoRecord]
    BY <1>2 DEF Start
  <2>3. ActiveBasics' = {}
    <3>1. \A k \in Keys : records'[k] = NoRecord
      BY <2>2
    <3> QED BY <1>a, <3>1 DEF ActiveBasics, NoRecord
  <2>4. recGen <= recGen' /\ (~recClosed => recGen < recGen' /\ recInsts' = {})
        /\ (recClosed => recGen' = recGen /\ recInsts' = recInsts)
    BY <1>a, <2>1 DEF StartRecorder
  <2>5. RecorderMoves
    BY <1>a, <2>1, <2>4 DEF RecorderMoves
  <2>6. SameInstruments'
    BY <2>1, <2>4 DEF SameInstruments, InstrumentsOf
  <2> QED BY <2>3, <2>5, <2>6, ServedStays DEF CacheInv, ActiveDemanded
<1>3. CASE StartFails
  <2>1. recClosed' /\ served' = [i \in Instruments |-> 0]
    BY <1>3 DEF StartFails
  <2> QED BY <1>a, <2>1 DEF CacheInv, SameInstruments, ActiveDemanded, ServedBefore, CacheCurrent
<1>4. CASE Shutdown
  <2>1. /\ recGen' \in Nat /\ recGen <= recGen' /\ (~recClosed => recGen < recGen') /\ recClosed'
        /\ served' = served \/ served' = [i \in Instruments |-> 0]
    BY <1>4, ShutdownRecorder
  <2>2. \A i \in Instruments : served'[i] = served[i] \/ served'[i] = 0
    BY <2>1
  <2>3. \A i \in Instruments : served'[i] = 0 \/ served'[i] < recGen'
    BY <1>a, <2>1, <2>2 DEF CacheInv, ServedBefore
  <2>4. ServedBefore' /\ CacheCurrent'
    BY <1>a, <2>1, <2>3 DEF ServedBefore, CacheCurrent
  <2> QED BY <2>1, <2>4 DEF CacheInv, SameInstruments, ActiveDemanded
<1>5. CASE ConnectionLost \/ Connect \/ Reconnected
  <2>1. UNCHANGED <<recGen, recInsts, recClosed, served, torn, gen, desired, records>>
    BY <1>5 DEF ConnectionLost, Connect, Reconnected
  <2> QED BY <1>c, <2>1, ActiveStays
<1>6. ASSUME NEW k \in Keys, RetryDue(k) \/ MinimumAge(k) PROVE CacheInv'
  <2>1. \/ records' = [records EXCEPT ![k] = [records[k] EXCEPT !.due = TRUE]]
        \/ records' = [records EXCEPT ![k] = [records[k] EXCEPT !.ripe = TRUE]]
    BY <1>6 DEF RetryDue, MinimumAge
  <2>2. \A j \in Keys :
          /\ records'[j].known = records[j].known /\ records'[j].active = records[j].active
          /\ records'[j].gen = records[j].gen
    <3>1. records \in [Keys -> Records] /\ records[k] \in Records
      BY DEF TypeOK
    <3> QED BY <2>1, <3>1 DEF Records
  <2>3. UNCHANGED <<recGen, recInsts, recClosed, served, torn, gen, desired>>
    BY <1>6 DEF RetryDue, MinimumAge
  <2> QED BY <1>c, <2>2, <2>3, ActiveStays
<1>7. CASE Replan
  <2>1. RecorderReconcile(snap) /\ gen' = recGen' /\ desired' = snap /\ UNCHANGED <<records, served, torn>>
    BY <1>7 DEF Replan
  <2>2. RecorderMoves /\ (~recClosed => recInsts' = InstrumentsOf(snap))
    BY <1>a, <2>1, RecorderGrows DEF RecorderMoves
  <2>3. ASSUME ~recClosed, gen' # torn, NEW i \in ActiveBasics' PROVE i \in InstrumentsOf(snap)
    <3> DEFINE r == records[BasicOf[i]]
    <3>1. i \in Instruments /\ r.known /\ r.active /\ r.gen = gen'
      BY <2>1, <2>3 DEF ActiveBasics
    <3>2. r.gen <= gen
      BY <1>a, <3>1 DEF RecordsInv, Sane
    <3>3. gen' = gen /\ recGen' = recGen /\ gen = recGen
      BY <1>a, <2>1, <2>2, <3>1, <3>2 DEF RecorderMoves
    <3>4. i \in ActiveBasics
      BY <3>1, <3>3 DEF ActiveBasics
    <3>5. i \in InstrumentsOf(desired) /\ recInsts = InstrumentsOf(desired)
      BY <2>3, <3>3, <3>4 DEF CacheInv, ActiveDemanded, SameInstruments
    <3> QED BY <2>2, <2>3, <3>3, <3>5 DEF RecorderMoves
  <2>4. SameInstruments' /\ ActiveDemanded'
    BY <2>1, <2>2, <2>3 DEF SameInstruments, ActiveDemanded, RecorderMoves
  <2> QED BY <2>2, <2>4, ServedStays DEF CacheInv
<1>8. ASSUME ReconfigureForReconnect \/ Reconfigure, served' = served PROVE CacheInv'
  <2>1. /\ records' = Replayed(ReconnectRefs, recGen') /\ ReconnectRefs \in SUBSET Refs
        /\ recGen <= recGen' /\ recClosed' = recClosed
        /\ recGen' = recGen => recInsts' = recInsts /\ torn' = torn
    BY <1>8, ReconnectGrows
  <2>2. /\ ~recClosed /\ recGen' # torn' => recInsts' = InstrumentsOf(ReconnectRefs)
        /\ desired' = ReconnectRefs /\ gen' = recGen'
    BY <1>8, ReconnectGrows
  <2>3. RecorderMoves
    BY <1>a, <1>8, <2>1 DEF RecorderMoves
  <2>4. \A k \in Keys : ~records'[k].active
    BY <1>a, <2>1, ReplayedType
  <2>5. ActiveBasics' = {}
    BY <1>a, <2>4 DEF ActiveBasics
  <2>6. SameInstruments' /\ ActiveDemanded'
    BY <2>1, <2>2, <2>5 DEF SameInstruments, ActiveDemanded
  <2> QED BY <2>3, <2>6, ServedStays DEF CacheInv
<1>9. CASE ReplaceReplay \/ BeginReconnect \/ Reconfigure
  BY <1>8, <1>9 DEF ReplaceReplay, BeginReconnect, Reconfigure
<1>10. ASSUME NEW k \in Keys, Subscribe(k) PROVE CacheInv'
  <2>1. /\ UNCHANGED <<recGen, recInsts, recClosed, served, torn, gen, desired>>
        /\ k \in PhysicalOf(desired) /\ records' \in {records, Subscribed(k)}
    BY <1>10 DEF Subscribe, LinkInv, Planned
  <2>2. \A j \in Keys \ {k} : records'[j] = records[j]
    <3>1. \A j \in Keys \ {k} : Subscribed(k)[j] = records[j]
      BY RecordChange
    <3> QED BY <2>1, <3>1
  <2>3. ASSUME ~recClosed, gen # torn, NEW i \in ActiveBasics' PROVE i \in InstrumentsOf(desired)
    <3>1. CASE BasicOf[i] = k
      BY <1>a, <2>1, <2>3, <3>1, BasicDemanded DEF ActiveBasics
    <3>2. CASE BasicOf[i] # k
      BY <1>a, <2>1, <2>2, <2>3, <3>2 DEF ActiveBasics, CacheInv, ActiveDemanded
    <3> QED BY <3>1, <3>2
  <2>4. SameInstruments' /\ ActiveDemanded'
    BY <2>1, <2>3 DEF CacheInv, SameInstruments, ActiveDemanded
  <2> QED BY <1>c, <2>1, <2>4, ServedStays DEF CacheInv
<1>11. ASSUME NEW k \in Keys, Unsubscribe(k) PROVE CacheInv'
  <2>1. /\ UNCHANGED <<recGen, recInsts, recClosed, served, torn, gen, desired>>
        /\ records' \in {records, [records EXCEPT ![k] = NoRecord]}
    BY <1>11 DEF Unsubscribe
  <2>2. \A j \in Keys : records'[j] \in {records[j], NoRecord}
    BY <2>1 DEF TypeOK
  <2> QED BY <1>c, <2>1, <2>2, ActiveStays DEF NoRecord
<1>12. ASSUME NEW k \in Keys, SubscribeFails(k) PROVE CacheInv'
  <2>1. /\ UNCHANGED <<recGen, recInsts, recClosed, served, torn, gen, desired>>
        /\ records' = SubscribeRefused(k)
    BY <1>12 DEF SubscribeFails, EndWithError
  <2>2. /\ \A j \in Keys \ {k} : records'[j] = records[j]
        /\ records'[k].active = FALSE
    <3>1. \A j \in Keys \ {k} : SubscribeRefused(k)[j] = records[j]
      BY RecordChange
    <3>2. SubscribeRefused(k)[k] = [known |-> TRUE, active |-> FALSE, gen |-> gen,
                                    ripe |-> records[k].ripe \/ ~records[k].known,
                                    failed |-> TRUE, due |-> FALSE]
      BY RecordChange
    <3> QED BY <2>1, <3>1, <3>2
  <2> QED BY <1>c, <2>1, <2>2, ActiveStays
<1>13. ASSUME NEW k \in Keys, UnsubscribeFails(k) PROVE CacheInv'
  <2>1. /\ UNCHANGED <<recGen, recInsts, recClosed, served, torn, gen, desired>>
        /\ records' = UnsubscribeRefused(k)
    BY <1>13 DEF UnsubscribeFails, EndWithError
  <2>2. \A j \in Keys :
          /\ records'[j].known = records[j].known /\ records'[j].active = records[j].active
          /\ records'[j].gen = records[j].gen
    <3>1. \A j \in Keys \ {k} : UnsubscribeRefused(k)[j] = records[j]
      BY RecordChange
    <3>2. UnsubscribeRefused(k)[k] =
            IF records[k].gen # gen THEN records[k]
            ELSE [known |-> records[k].known, active |-> records[k].active, gen |-> gen,
                  ripe |-> records[k].ripe, failed |-> TRUE, due |-> FALSE]
      BY RecordChange
    <3> QED BY <2>1, <3>1, <3>2
  <2> QED BY <1>c, <2>1, <2>2, ActiveStays
<1>14. CASE SnapshotStored
  <2>1. UNCHANGED <<recGen, recInsts, recClosed, torn, gen, desired, records>>
    BY <1>14 DEF SnapshotStored
  <2>2. CASE StillCurrent
    <3>1. /\ recGen = gen /\ ~recClosed
          /\ served' = [i \in Instruments |-> IF i \in ActiveBasics THEN gen ELSE served[i]]
      BY <1>14, <2>2 DEF SnapshotStored, StillCurrent
    <3>2. recGen # torn => ActiveBasics \subseteq recInsts
      BY <3>1 DEF CacheInv, ActiveDemanded, SameInstruments
    <3>3. ServedBefore'
      BY <1>a, <2>1, <3>1 DEF CacheInv, ServedBefore
    <3>4. CacheCurrent'
      BY <2>1, <3>1, <3>2 DEF CacheInv, CacheCurrent
    <3>5. ActiveBasics' = ActiveBasics
      BY <2>1 DEF ActiveBasics
    <3> QED BY <2>1, <3>3, <3>4, <3>5 DEF CacheInv, SameInstruments, ActiveDemanded
  <2>3. CASE ~StillCurrent
    <3>1. served' = served
      BY <1>14, <2>3 DEF SnapshotStored
    <3> QED BY <1>c, <2>1, <3>1, ActiveStays
  <2> QED BY <2>2, <2>3
<1> QED
  BY <1>0, <1>1, <1>2, <1>3, <1>4, <1>5, <1>6, <1>7, <1>9, <1>10, <1>11, <1>12, <1>13, <1>14, StepKinds

\* A tick that the cache shows for the recorder's generation is of an instrument
\* demanded in it, although the demand changes under the poll at any moment,
\* unless it changed between the two locks with which a reconnect took the
\* generation over.
THEOREM CacheIsCurrent == Spec => []CacheCurrent
<1>1. Init => CacheInv
  <2> SUFFICES ASSUME Init PROVE CacheInv
    OBVIOUS
  <2>1. ActiveBasics = {}
    BY QuoteAssumption DEF Init, ActiveBasics, NoRecord
  <2>2. \A i \in Instruments : served[i] = 0
    BY DEF Init
  <2> QED BY <2>1, <2>2 DEF Init, CacheInv, SameInstruments, InstrumentsOf, ActiveDemanded, ServedBefore,
             CacheCurrent
<1>2. TypeOK /\ TypeOK' /\ LinkInv /\ RecordsInv /\ CacheInv /\ [Next]_vars => CacheInv'
  <2>1. CacheInv /\ UNCHANGED vars => CacheInv'
    BY DEF vars, CacheInv, SameInstruments, ActiveDemanded, ActiveBasics, ServedBefore, CacheCurrent,
       recorder, lifecycle, session, reconnect, task
  <2> QED BY <2>1, CacheStep
<1> QED BY <1>1, <1>2, RecordsInvariant, PTL DEF Spec, CacheInv
=============================================================================
