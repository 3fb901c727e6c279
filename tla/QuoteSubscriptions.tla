------------------------- MODULE QuoteSubscriptions -------------------------
(***************************************************************************)
(* The Futu OpenD quote runtime: the recorder that the market data router  *)
(* shares with the runtime, the subscription lifecycle with its            *)
(* reconciler, the session coordinator and the task that drives it.  One   *)
(* task thread ("jftrade-opend-runtime") runs against one OpenD gateway;   *)
(* every other thread of the product changes the demand through the router *)
(* at any moment, and with it the recorder's generation, without the       *)
(* coordinator's lock.                                                     *)
(***************************************************************************)
EXTENDS Integers, FiniteSets

CONSTANTS
  Refs,            \* what a consumer may ask for (InstrumentRef)
  Keys,            \* the physical subscriptions at OpenD
  Instruments,
  InstrumentOf,    \* [Refs -> Instruments]: InstrumentRef::instrument_id
  Physical,        \* [Refs -> SUBSET Keys]: the keys that serve a reference
  BasicOf,         \* [Instruments -> Keys]: the BASIC key of an instrument
  MaxChanges,      \* bound: changes of the demand
  MaxFaults        \* bound: refused or timed out calls, lost connections

ASSUME QuoteAssumption ==
  /\ InstrumentOf \in [Refs -> Instruments]
  /\ Physical \in [Refs -> SUBSET Keys]
  /\ BasicOf \in [Instruments -> Keys]
  \* A physical key names its security: the BASIC key of an instrument serves
  \* references to that instrument only.
  /\ \A r \in Refs, i \in Instruments :
       BasicOf[i] \in Physical[r] => InstrumentOf[r] = i
  /\ MaxChanges \in Nat
  /\ MaxFaults \in Nat

VARIABLES
  demand,        \* router.demand().active
  recGen, recInsts, recConnected, recClosed,  \* MarketDataRuntimeRecorder
  desired,       \* what the coordinator last planned for
  gen,           \* the lifecycle's generation
  recoGen,       \* the generation of its last reconnect
  records,       \* the reconciler's records, one per physical key
  link, linkGen, \* the managed session and the generation it was opened with
  held,          \* what OpenD holds subscribed on that session
  pending, plan, planGen,  \* the reconnect to be attempted
  pc, snap,      \* the task: its next step, the demand it read
  subs, unsubs,  \* the actions still to be executed
  seen,          \* recorder.connected as sync_provider_health read it
  served,        \* generation of the newest cached tick of an instrument
  torn,          \* history: the last generation that a reconnect took over
                 \* after the demand had changed between its two locks
  changes, faults

recorder == <<recGen, recInsts, recConnected, recClosed>>
lifecycle == <<desired, gen, recoGen, records>>
session == <<link, linkGen, held>>
reconnect == <<pending, plan, planGen>>
task == <<snap, subs, unsubs, seen>>
vars == <<demand, recorder, lifecycle, session, reconnect, pc, task, served,
          torn, changes, faults>>

Steps == {"down", "idle", "reconcile", "apply", "poll", "reconfigure",
          "connect", "replay", "quota", "snapshot", "quotes", "end", "health",
          "panicked", "stopped"}

\* ActiveRecord.  "ripe": held for minimum_age_ms; "failed": failures > 0;
\* "due": its retry window is over.
Records == [known : BOOLEAN, active : BOOLEAN, gen : Nat, ripe : BOOLEAN,
            failed : BOOLEAN, due : BOOLEAN]

NoRecord == [known |-> FALSE, active |-> FALSE, gen |-> 0, ripe |-> FALSE,
             failed |-> FALSE, due |-> FALSE]

InstrumentsOf(refs) == {InstrumentOf[r] : r \in refs}
PhysicalOf(refs) == UNION {Physical[r] : r \in refs}

TypeOK ==
  /\ demand \in SUBSET Refs
  /\ recGen \in Nat /\ recInsts \in SUBSET Instruments
  /\ recConnected \in BOOLEAN /\ recClosed \in BOOLEAN
  /\ desired \in SUBSET Refs
  /\ gen \in Nat /\ recoGen \in Nat
  /\ records \in [Keys -> Records]
  /\ link \in {"none", "up", "lost"} /\ linkGen \in Nat
  /\ held \in SUBSET Keys
  /\ pending \in BOOLEAN /\ plan \in SUBSET Keys /\ planGen \in Nat
  /\ pc \in Steps /\ snap \in SUBSET Refs
  /\ subs \in SUBSET Keys /\ unsubs \in SUBSET Keys
  /\ seen \in BOOLEAN
  /\ served \in [Instruments -> Nat] /\ torn \in Nat
  /\ changes \in 0..MaxChanges /\ faults \in 0..MaxFaults

Init ==
  /\ demand = {}
  /\ recGen = 0 /\ recInsts = {} /\ recConnected = FALSE /\ recClosed = FALSE
  /\ desired = {} /\ gen = 0 /\ recoGen = 0
  /\ records = [k \in Keys |-> NoRecord]
  /\ link = "none" /\ linkGen = 0 /\ held = {}
  /\ pending = FALSE /\ plan = {} /\ planGen = 0
  /\ pc = "down" /\ snap = {} /\ subs = {} /\ unsubs = {} /\ seen = FALSE
  /\ served = [i \in Instruments |-> 0] /\ torn = 0
  /\ changes = 0 /\ faults = 0

---------------------------------------------------------------------------
(* The recorder *)

\* Mutant: new instruments under the old generation.
ReconciledSame(refs) == recGen

\* Mutant: the generation is counted down.
ReconciledBack(refs) ==
  IF recClosed \/ recInsts = InstrumentsOf(refs) THEN recGen ELSE recGen - 1

\* reconcile: a new generation only when the instruments change.
Reconciled(refs) ==
  IF recClosed \/ recInsts = InstrumentsOf(refs) THEN recGen ELSE recGen + 1

RecorderReconcile(refs) ==
  /\ recGen' = Reconciled(refs)
  /\ recInsts' = IF recClosed THEN recInsts ELSE InstrumentsOf(refs)
  /\ recConnected' = (recConnected /\ recGen' = recGen)
  /\ UNCHANGED recClosed

\* Another thread changes the demand book: acquire, replace, release or clear
\* of a consumer, then sync_runtime_demand.  Both are methods of the router and
\* run under its mutex, and the book is read under that mutex only.
DemandChanges(refs) ==
  /\ changes < MaxChanges /\ refs # demand
  /\ changes' = changes + 1
  /\ demand' = refs
  /\ RecorderReconcile(refs)
  /\ UNCHANGED <<lifecycle, session, reconnect, pc, task, served, torn,
                 faults>>

---------------------------------------------------------------------------
(* OpenD and time *)

\* OpenD or the network closes the connection; OpenD forgets what it held.
ConnectionLost ==
  /\ link = "up" /\ faults < MaxFaults
  /\ faults' = faults + 1
  /\ link' = "lost" /\ held' = {}
  /\ UNCHANGED <<demand, recorder, lifecycle, linkGen, reconnect, pc, task,
                 served, torn, changes>>

\* A retry window ends; a subscription reaches its minimum age.
RetryDue(k) ==
  /\ records[k].failed /\ ~records[k].due
  /\ records' = [records EXCEPT ![k].due = TRUE]
  /\ UNCHANGED <<demand, recorder, desired, gen, recoGen, session, reconnect,
                 pc, task, served, torn, changes, faults>>

MinimumAge(k) ==
  /\ records[k].active /\ ~records[k].ripe
  /\ records' = [records EXCEPT ![k].ripe = TRUE]
  /\ UNCHANGED <<demand, recorder, desired, gen, recoGen, session, reconnect,
                 pc, task, served, torn, changes, faults>>

---------------------------------------------------------------------------
(* OpenDProviderRuntime::start and shutdown *)

\* configure_provider activates the provider (a new recorder generation), and
\* connect plans for the empty demand that the production composition passes.
StartRecorder ==
  /\ recGen' = (IF recClosed THEN recGen
                ELSE IF recInsts = {} THEN recGen + 1 ELSE recGen + 2)
  /\ recInsts' = (IF recClosed THEN recInsts ELSE {})
  /\ recConnected' = FALSE

Start ==
  /\ pc = "down" /\ pc' = "idle"
  /\ StartRecorder /\ UNCHANGED recClosed
  /\ desired' = {} /\ gen' = recGen' /\ recoGen' = 0
  /\ records' = [k \in Keys |-> NoRecord]
  /\ link' = "up" /\ linkGen' = gen' /\ held' = {}
  /\ UNCHANGED <<demand, reconnect, task, served, torn, changes, faults>>

\* The handshake fails: lifecycle.close closes the recorder that the router
\* keeps, and deactivate clears the router's cache.
StartFails ==
  /\ pc = "down" /\ faults < MaxFaults
  /\ faults' = faults + 1
  /\ recGen' = (IF recClosed THEN recGen
                ELSE IF recInsts = {} THEN recGen + 2 ELSE recGen + 3)
  /\ recInsts' = (IF recClosed THEN recInsts ELSE {})
  /\ recConnected' = FALSE /\ recClosed' = TRUE
  /\ served' = [i \in Instruments |-> 0]
  /\ UNCHANGED <<demand, lifecycle, session, reconnect, pc, task, torn,
                 changes>>

\* shutdown: the task is joined between two iterations, the coordinator
\* closes, and the provider is released and deactivated.  After a panic the
\* coordinator is closed only when the runtime is dropped, after deactivate has
\* moved the generation on.  deactivate is refused, and keeps the cache, while
\* a managed consumer still asks for something.
Shutdown ==
  /\ pc \in {"idle", "panicked"} /\ pc' = "stopped"
  /\ \E cleared \in BOOLEAN :
       /\ cleared \/ demand # {}
       /\ served' = IF cleared THEN [i \in Instruments |-> 0] ELSE served
       /\ recGen' = IF recClosed THEN recGen
                    ELSE IF cleared /\ pc = "panicked" THEN recGen + 2
                    ELSE recGen + 1
  /\ recConnected' = FALSE /\ recClosed' = TRUE /\ UNCHANGED recInsts
  /\ pending' = FALSE /\ plan' = {} /\ planGen' = 0
  /\ link' = "none" /\ linkGen' = 0 /\ held' = {}
  /\ subs' = {} /\ unsubs' = {}
  /\ UNCHANGED <<demand, lifecycle, snap, seen, torn, changes, faults>>

---------------------------------------------------------------------------
(* One iteration of run_task: the demand and its plan *)

TickStart ==
  /\ pc = "idle" /\ pc' = "reconcile"
  /\ snap' = demand
  /\ UNCHANGED <<demand, recorder, lifecycle, session, reconnect, subs,
                 unsubs, seen, served, torn, changes, faults>>

\* SubscriptionReconciler::actions
ToSubscribe(refs, g) ==
  {k \in PhysicalOf(refs) :
     /\ ~(records[k].known /\ records[k].gen = g /\ records[k].active)
     /\ ~(records[k].known /\ records[k].gen = g /\ records[k].failed
          /\ ~records[k].due)}

ToUnsubscribe(refs) ==
  {k \in Keys \ PhysicalOf(refs) :
     /\ records[k].active /\ records[k].ripe
     /\ records[k].failed => records[k].due}

\* SubscriptionReconciler::replay_actions
Replayed(refs, g) ==
  [k \in Keys |->
     IF records[k].known /\ k \in PhysicalOf(refs)
     THEN [known |-> TRUE, active |-> FALSE, gen |-> g,
           ripe |-> records[k].ripe, failed |-> FALSE, due |-> FALSE]
     ELSE NoRecord]

\* The demand has not changed since it was last planned for.
SameDemand ==
  /\ pc = "reconcile" /\ desired = snap
  /\ pc' = "poll"
  /\ UNCHANGED <<demand, recorder, lifecycle, session, reconnect, task,
                 served, torn, changes, faults>>

\* reconcile_topology with a session: plan, then execute.
Replan ==
  /\ pc = "reconcile" /\ desired # snap /\ ~pending
  /\ pc' = "apply"
  /\ desired' = snap
  /\ RecorderReconcile(snap)
  /\ gen' = recGen'
  /\ subs' = ToSubscribe(snap, recGen') /\ unsubs' = ToUnsubscribe(snap)
  /\ UNCHANGED <<demand, recoGen, records, session, reconnect, snap, seen,
                 served, torn, changes, faults>>

\* What reconfigure_for_reconnect is called with: the new demand while a
\* reconnect is pending, else the planned one again.  The coordinator is locked
\* until the end of the iteration: nobody sees its fields between two steps.
ReconnectRefs == IF pending THEN snap ELSE desired

\* The end of reconfigure_for_reconnect, in the generation it was given.
ReplayIn(g) ==
  /\ desired' = ReconnectRefs
  /\ gen' = g /\ recoGen' = g
  /\ records' = Replayed(ReconnectRefs, g)
  /\ plan' = PhysicalOf(ReconnectRefs) /\ planGen' = g

\* lifecycle.reconfigure_for_reconnect takes the recorder's lock to reconcile
\* and, when the generation is still the lifecycle's, once more to move it on.
SameGeneration == Reconciled(ReconnectRefs) = gen /\ ~recClosed

ReconfigureForReconnect ==
  /\ ~SameGeneration
  /\ RecorderReconcile(ReconnectRefs)
  /\ ReplayIn(recGen')
  /\ UNCHANGED torn

\* Mutant: the new demand is stored, but the pending replay is not replaced.
ReplaceReplayKeepsPlan ==
  /\ pc = "reconcile" /\ desired # snap /\ pending
  /\ pc' = "poll"
  /\ desired' = snap
  /\ UNCHANGED <<demand, recorder, gen, recoGen, records, session, reconnect,
                 task, served, torn, changes, faults>>

\* reconcile_topology while a reconnect is pending: only the replay changes.
ReplaceReplay ==
  /\ pc = "reconcile" /\ desired # snap /\ pending
  /\ pc' = "poll"
  /\ ReconfigureForReconnect
  /\ UNCHANGED <<demand, session, pending, task, served, changes, faults>>

\* The first lock, when its answer is the lifecycle's own generation: the
\* recorder had the instruments already.  The close event of a lost session
\* has marked its stream failed.
ReconfigureNeeded ==
  /\ \/ pc = "reconcile" /\ desired # snap /\ pending /\ UNCHANGED recConnected
     \/ /\ pc = "poll" /\ ~pending /\ link = "lost"
        /\ recConnected' = (recConnected /\ linkGen # gen)
  /\ SameGeneration
  /\ pc' = "reconfigure"
  /\ UNCHANGED <<demand, recGen, recInsts, recClosed, lifecycle, session,
                 reconnect, task, served, torn, changes, faults>>

\* The second lock: the generation moves on, with the instruments that the
\* recorder has by now.
Reconfigure ==
  /\ pc = "reconfigure" /\ pc' = IF pending THEN "poll" ELSE "connect"
  /\ recGen' = recGen + 1 /\ recConnected' = FALSE
  /\ UNCHANGED <<recInsts, recClosed>>
  /\ ReplayIn(recGen')
  /\ torn' = IF recInsts = InstrumentsOf(ReconnectRefs) THEN torn ELSE recGen'
  /\ pending' = TRUE
  /\ link' = "none" /\ UNCHANGED <<linkGen, held>>
  /\ UNCHANGED <<demand, task, served, changes, faults>>

---------------------------------------------------------------------------
(* execute_actions: one Qot_Sub call at a time, stopping at the first error *)

\* The fence of execute_action: this session belongs to this generation or to
\* one since the last reconnect; any other work is ignored without touching
\* OpenD.
InFence == recoGen <= linkGen /\ linkGen <= gen

\* SubscriptionReconciler::record_success and record_failure
Subscribed(k) ==
  [records EXCEPT ![k] = [known |-> TRUE, active |-> TRUE, gen |-> gen,
                          ripe |-> FALSE, failed |-> FALSE, due |-> FALSE]]

SubscribeRefused(k) ==
  [records EXCEPT ![k] = [known |-> TRUE, active |-> FALSE, gen |-> gen,
                          ripe |-> records[k].ripe \/ ~records[k].known,
                          failed |-> TRUE, due |-> FALSE]]

\* Mutant: a refused unsubscription is forgotten.
UnsubscribeForgotten(k) == [records EXCEPT ![k] = NoRecord]

\* record_unsubscribe_failure: the record stays active, in its retry window.
UnsubscribeRefused(k) ==
  IF records[k].gen # gen THEN records
  ELSE [records EXCEPT ![k] = [known |-> records[k].known,
                               active |-> records[k].active, gen |-> gen,
                               ripe |-> records[k].ripe,
                               failed |-> TRUE, due |-> FALSE]]

Subscribe(k) ==
  /\ pc \in {"apply", "replay"} /\ k \in subs
  /\ link = "up"
  /\ subs' = subs \ {k}
  /\ held' = IF InFence THEN held \cup {k} ELSE held
  /\ records' = IF InFence THEN Subscribed(k) ELSE records
  /\ UNCHANGED <<demand, recorder, desired, gen, recoGen, link, linkGen,
                 reconnect, pc, snap, unsubs, seen, served, torn, changes,
                 faults>>

Unsubscribe(k) ==
  /\ pc = "apply" /\ subs = {} /\ k \in unsubs
  /\ link = "up"
  /\ unsubs' = unsubs \ {k}
  /\ held' = IF InFence THEN held \ {k} ELSE held
  /\ records' = IF InFence THEN [records EXCEPT ![k] = NoRecord] ELSE records
  /\ UNCHANGED <<demand, recorder, desired, gen, recoGen, link, linkGen,
                 reconnect, pc, snap, subs, seen, served, torn, changes,
                 faults>>

\* A call is refused, or times out and OpenD may have done it all the same, or
\* the connection is gone.  In a replay the new session is given up.
CallFailed(applied) ==
  \/ /\ link = "lost" /\ UNCHANGED faults /\ applied = held
  \/ /\ link = "up" /\ faults < MaxFaults /\ faults' = faults + 1

EndWithError ==
  /\ pc' = "end" /\ subs' = {} /\ unsubs' = {}
  /\ UNCHANGED <<demand, recorder, desired, gen, recoGen, linkGen, reconnect,
                 snap, seen, served, torn, changes>>

\* Mutant: the failed replay keeps the half subscribed session.
SubscribeFailsKeepsSession(k) ==
  /\ pc \in {"apply", "replay"} /\ k \in subs /\ InFence
  /\ \E after \in {held, held \cup {k}} : CallFailed(after) /\ held' = after
  /\ UNCHANGED link
  /\ records' = Subscribed(k)
  /\ EndWithError

SubscribeFails(k) ==
  /\ pc \in {"apply", "replay"} /\ k \in subs /\ InFence
  /\ \E after \in {held, held \cup {k}} :
       /\ CallFailed(after)
       /\ held' = IF pc = "replay" THEN {} ELSE after
  /\ link' = IF pc = "replay" THEN "none" ELSE link
  /\ records' = SubscribeRefused(k)
  /\ EndWithError

UnsubscribeFails(k) ==
  /\ pc = "apply" /\ subs = {} /\ k \in unsubs /\ InFence
  /\ \E after \in {held, held \ {k}} : CallFailed(after) /\ held' = after
  /\ records' = UnsubscribeRefused(k)
  /\ UNCHANGED link
  /\ EndWithError

Applied ==
  /\ pc = "apply" /\ subs = {} /\ unsubs = {}
  /\ pc' = "poll"
  /\ UNCHANGED <<demand, recorder, lifecycle, session, reconnect, task,
                 served, torn, changes, faults>>

---------------------------------------------------------------------------
(* poll_once: session events and the reconnect *)

\* Mutant: is_closed is not asked, and the close event of a session older than
\* the lifecycle's generation is dropped like any other.
PollEventsUnchecked ==
  /\ pc = "poll" /\ ~pending /\ pc' = "quota"
  /\ UNCHANGED <<demand, recorder, lifecycle, session, reconnect, task,
                 served, torn, changes, faults>>

\* A live session: one event or none.  A push of another generation than the
\* lifecycle's is dropped; none of them changes the state.  (A session closed
\* for the reason Local is never polled: the coordinator takes a session away
\* before it closes it, and nothing else closes one.)
PollEvents ==
  /\ pc = "poll" /\ ~pending /\ link = "up"
  /\ pc' = "quota"
  /\ UNCHANGED <<demand, recorder, lifecycle, session, reconnect, task,
                 served, torn, changes, faults>>

\* begin_reconnect
BeginReconnect ==
  /\ pc = "poll" /\ ~pending /\ link = "lost"
  /\ pc' = "connect"
  /\ ReconfigureForReconnect
  /\ pending' = TRUE
  /\ link' = "none" /\ UNCHANGED <<linkGen, held>>
  /\ UNCHANGED <<demand, task, served, changes, faults>>

PollPending ==
  /\ pc = "poll" /\ pending
  /\ pc' = "connect"
  /\ UNCHANGED <<demand, recorder, lifecycle, session, reconnect, task,
                 served, torn, changes, faults>>

\* attempt_reconnect
Connect ==
  /\ pc = "connect" /\ pc' = "replay"
  /\ link' = "up" /\ linkGen' = planGen /\ held' = {}
  /\ subs' = plan
  /\ UNCHANGED <<demand, recorder, lifecycle, reconnect, snap, unsubs, seen,
                 served, torn, changes, faults>>

ConnectFails ==
  /\ pc = "connect" /\ pc' = "end"
  /\ faults < MaxFaults /\ faults' = faults + 1
  /\ UNCHANGED <<demand, recorder, lifecycle, session, reconnect, task,
                 served, torn, changes>>

\* assert!(lifecycle.stream_connected(pending.generation)): the recorder takes
\* the report only in that generation.
StreamAccepted == planGen = gen /\ recGen = planGen /\ ~recClosed

\* Mutant: the pending reconnect is dropped before its replay is executed.
ReconnectedEarly ==
  /\ pc = "replay"
  /\ plan = {} \/ StreamAccepted
  /\ pc' = "quota" /\ subs' = {}
  /\ recConnected' = (recConnected \/ plan # {})
  /\ pending' = FALSE /\ UNCHANGED <<plan, planGen>>
  /\ UNCHANGED <<demand, recGen, recInsts, recClosed, lifecycle, session,
                 snap, unsubs, seen, served, torn, changes, faults>>

Reconnected ==
  /\ pc = "replay" /\ subs = {}
  /\ plan = {} \/ StreamAccepted
  /\ pc' = "quota"
  /\ recConnected' = (recConnected \/ plan # {})
  /\ pending' = FALSE /\ UNCHANGED <<plan, planGen>>
  /\ UNCHANGED <<demand, recGen, recInsts, recClosed, lifecycle, session,
                 task, served, torn, changes, faults>>

ReconnectPanics ==
  /\ pc = "replay" /\ subs = {}
  /\ plan # {} /\ ~StreamAccepted
  /\ pc' = "panicked"
  /\ UNCHANGED <<demand, recorder, lifecycle, session, reconnect, task,
                 served, torn, changes, faults>>

---------------------------------------------------------------------------
(* refresh_quota, poll_snapshot and sync_provider_health *)

QuotaDone ==
  /\ pc = "quota" /\ pc' = "snapshot"
  /\ UNCHANGED <<demand, recorder, lifecycle, session, reconnect, task,
                 served, torn, changes, faults>>

QuotaFails ==
  /\ pc = "quota" /\ pc' = "end"
  /\ \/ link = "lost" /\ UNCHANGED faults
     \/ link = "up" /\ faults < MaxFaults /\ faults' = faults + 1
  /\ UNCHANGED <<demand, recorder, lifecycle, session, reconnect, task,
                 served, torn, changes>>

\* active_basic_instruments
ActiveBasics == {i \in Instruments : LET r == records[BasicOf[i]] IN
                                       r.known /\ r.active /\ r.gen = gen}

\* The poll passes the recorder's fence and the query passes the session's.
SnapshotQuery ==
  /\ pc = "snapshot"
  /\ ActiveBasics # {} /\ ~recClosed /\ recGen = gen
  /\ link = "up" /\ linkGen = gen
  /\ pc' = "quotes"
  /\ UNCHANGED <<demand, recorder, lifecycle, session, reconnect, task,
                 served, torn, changes, faults>>

\* Nothing to poll, not due yet, another generation, or a failed query.
SnapshotSkipped ==
  /\ pc = "snapshot" /\ pc' = "end"
  /\ UNCHANGED <<demand, recorder, lifecycle, session, reconnect, task,
                 served, torn, changes, faults>>

\* apply_success: the ticks are kept only if the generation is still the same.
StillCurrent == recGen = gen /\ ~recClosed

SnapshotStored ==
  /\ pc = "quotes" /\ pc' = "end"
  /\ served' = IF StillCurrent
               THEN [i \in Instruments |-> IF i \in ActiveBasics
                                           THEN gen ELSE served[i]]
               ELSE served
  /\ UNCHANGED <<demand, recorder, lifecycle, session, reconnect, task, torn,
                 changes, faults>>

\* sync_provider_health reads the recorder, then writes the health through the
\* router into whatever generation the recorder has by then.
HealthSkipped ==
  /\ pc = "end" /\ recInsts = {} /\ ~recClosed
  /\ pc' = "idle"
  /\ UNCHANGED <<demand, recorder, lifecycle, session, reconnect, task,
                 served, torn, changes, faults>>

HealthRead ==
  /\ pc = "end" /\ (recInsts # {} \/ recClosed)
  /\ pc' = "health"
  /\ seen' = (recConnected /\ ~recClosed)
  /\ UNCHANGED <<demand, recorder, lifecycle, session, reconnect, snap, subs,
                 unsubs, served, torn, changes, faults>>

HealthWrite ==
  /\ pc = "health" /\ pc' = "idle"
  /\ recConnected' = IF recClosed THEN recConnected
                     ELSE seen /\ recInsts # {}
  /\ UNCHANGED <<demand, recGen, recInsts, recClosed, lifecycle, session,
                 reconnect, task, served, torn, changes, faults>>

---------------------------------------------------------------------------

Perform ==
  \/ TickStart \/ SameDemand \/ Replan \/ ReplaceReplay \/ Applied
  \/ ReconfigureNeeded \/ Reconfigure
  \/ \E k \in Keys : Subscribe(k) \/ Unsubscribe(k)
  \/ PollEvents \/ BeginReconnect \/ PollPending \/ Connect
  \/ Reconnected \/ ReconnectPanics
  \/ QuotaDone \/ SnapshotQuery \/ SnapshotSkipped \/ SnapshotStored
  \/ HealthSkipped \/ HealthRead \/ HealthWrite

Fails ==
  \/ \E k \in Keys : SubscribeFails(k) \/ UnsubscribeFails(k)
  \/ ConnectFails \/ QuotaFails

Time == \E k \in Keys : RetryDue(k) \/ MinimumAge(k)

Next ==
  \/ \E refs \in SUBSET Refs : DemandChanges(refs)
  \/ Start \/ StartFails \/ Shutdown
  \/ ConnectionLost \/ Time
  \/ Perform \/ Fails

Spec == Init /\ [][Next]_vars

\* The thread loops for ever, a poll that is skipped for its cadence or its
\* retry window is due some iterations later, and time passes.
Fairness ==
  /\ WF_vars(Start) /\ WF_vars(Perform \/ Fails)
  /\ SF_vars(SnapshotQuery)
  /\ \A k \in Keys : WF_vars(RetryDue(k)) /\ WF_vars(MinimumAge(k))

FairSpec == Spec /\ Fairness

---------------------------------------------------------------------------
(* Properties *)

\* A session never belongs to a generation from before the last reconnect or
\* from the future, the lifecycle never runs ahead of the recorder, and a
\* pending replay is always the one of the lifecycle's generation, so the
\* fence of execute_action never silently skips what was planned.
Fence ==
  /\ recoGen <= gen
  /\ gen <= recGen
  /\ link # "none" => recoGen <= linkGen /\ linkGen <= gen
  /\ pending => planGen = gen /\ recoGen = gen /\ plan = PhysicalOf(desired)
  /\ (link = "none" /\ pc \notin {"down", "stopped"}) => pending

\* What the reconciler believes active in the current generation, with no
\* failed unsubscription since, OpenD does hold on the live session.  While a
\* reconnect is pending a failed replay may have left records of a session
\* that is gone; the reconnect that ends the wait subscribes them all again.
RecordsTrue ==
  \A k \in Keys :
    (/\ link = "up" /\ ~pending
     /\ records[k].active /\ records[k].gen = gen /\ ~records[k].failed)
    => k \in held

\* OpenD holds nothing for this session that the reconciler has forgotten:
\* a subscription it may still have to pay for has a record.
HeldKnown == \A k \in held : records[k].known

\* A tick that the cache shows for the recorder's generation is of an
\* instrument demanded in that generation.  The exception is a generation that
\* a reconnect took over after the demand had changed between the two locks of
\* reconfigure_for_reconnect: it replays the demand of the first lock under the
\* instruments of the second, and what it polls of the difference is shown as
\* current until it is unsubscribed or the generation moves on.
CacheCurrent ==
  \A i \in Instruments :
    (served[i] # 0 /\ served[i] = recGen /\ recGen # torn) => i \in recInsts

\* A reconnect ends only when every subscription of the demand it was last
\* given is held by the new session and recorded active in its generation.
ReplayComplete ==
  [][(pending /\ ~pending' /\ pc' # "stopped") =>
       \A k \in PhysicalOf(desired) :
         /\ records[k].active /\ records[k].gen = linkGen
         /\ link = "up" => k \in held]_vars

\* With a finite number of faults a lost session is replaced, unless the task
\* panicked or is shut down meanwhile.
LostReplaced ==
  (link = "lost") ~> (link = "up" \/ pc \in {"panicked", "stopped"})

\* The assertion of attempt_reconnect: the recorder accepts stream_connected
\* for the pending generation.
ReconnectAsserted == pc # "panicked"

\* "Unsubscriptions are sent once a subscription has been held for a minute,
\* and failed ones are retried with the backoff": a subscription that no one
\* wants any more is released, or wanted again.
ReleasedEventually ==
  \A k \in Keys :
    (k \in held /\ k \notin PhysicalOf(demand))
      ~> (k \notin held \/ k \in PhysicalOf(demand))

\* A demanded instrument with a BASIC subscription is served by the snapshot
\* poll of the generation its demand is in, unless the demand, the connection
\* or the task goes away.
DemandServed ==
  \A i \in Instruments :
    (i \in InstrumentsOf(demand) /\ BasicOf[i] \in held)
      ~> (\/ served[i] = recGen
          \/ i \notin InstrumentsOf(demand) \/ BasicOf[i] \notin held
          \/ pc \in {"panicked", "stopped"})

\* The recorder calls the stream connected only in the generation of the
\* session that connected it.
ConnectedCurrent == recConnected => recGen = linkGen
=============================================================================
