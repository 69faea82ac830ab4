---------------------------- MODULE Observation ----------------------------
(***************************************************************************)
(* What a host sees of the runtime (gateway/src/runtime.cpp): the events   *)
(* its observer receives and the snapshots upstream_states() returns, in   *)
(* persistent session mode.  Every status change is made under             *)
(* upstream_state_mutex and reported after it is released, by the thread   *)
(* that made it; a snapshot reads the record under that mutex and then     *)
(* each pool under the pool's own.                                         *)
(*                                                                         *)
(* The observer is called by any thread; delivery is one step.             *)
(***************************************************************************)
EXTENDS Integers, FiniteSets

CONSTANTS
  Calls,          \* threads that run upstream operations
  Stoppers,       \* threads that call stop()
  Inspectors,     \* threads that call upstream_states()
  UpstreamCount,  \* how many enabled upstreams the configuration lists
  PoolSize,       \* persistent_session_pool_size
  MaxCalls,       \* bound: operations begun in a run
  DrainBounded    \* active_call_drain_timeout > 0

ASSUME ThreadsAssumption == IsFiniteSet(Calls)
ASSUME ObservationAssumption == /\ UpstreamCount \in Nat \ {0}
                                /\ PoolSize \in Nat \ {0}
                                /\ MaxCalls \in Nat
                                /\ DrainBounded \in BOOLEAN

Upstreams == 1 .. UpstreamCount       \* in configuration order
Slots     == 1 .. PoolSize
NoSlot    == 0

Statuses == {"configured", "connecting", "initialized", "healthy",
             "degraded", "stopping", "stopped"}
Nothing  == "nothing"                 \* no event to deliver, or none delivered

VARIABLES
  stopping, stopped, status,   \* under upstream_state_mutex
  inUse,         \* slots with in_use set, under the pool's mutex
  initialized,   \* slots with initialized set, an atomic
  begun,         \* operations begun so far
  pc, target, slot,  \* the operation each call thread runs
  unsaid,        \* the status it has set and not reported yet, or Nothing
  spc, at,       \* where each stopper stands, the upstream it reports next
  ipc, seen,     \* where each inspector stands, and what it has read
  lastEvent,     \* the last status reported of each upstream
  lifecycle,     \* the last lifecycle event
  finished,      \* history: a runtime_stopped event has been delivered
  crossed        \* history: the last change of an upstream's status was made
                 \* while another thread had yet to report one

recordVars == <<stopping, stopped, status, crossed>>
poolVars   == <<inUse, initialized>>
callVars   == <<begun, pc, target, slot, unsaid>>
stopVars   == <<spc, at>>
inspectVars == <<ipc, seen>>
eventVars  == <<lastEvent, lifecycle, finished>>
observedVars == <<recordVars, poolVars, callVars, stopVars, inspectVars, eventVars>>

\* What upstream_states() says of one upstream, as far as it matters: that it is
\* stopped, and that nothing is counted, busy or initialized.
Reports == [stopped: BOOLEAN, atRest: BOOLEAN]
Unread  == [stopped |-> FALSE, atRest |-> FALSE]

ObservedTypeOK ==
  /\ stopping \in BOOLEAN /\ stopped \in BOOLEAN
  /\ status \in [Upstreams -> Statuses]
  /\ inUse \in [Upstreams -> SUBSET Slots]
  /\ initialized \in [Upstreams -> SUBSET Slots]
  /\ begun \in 0 .. MaxCalls
  /\ pc \in [Calls -> {"idle", "acquire", "ensure", "connect", "open", "use",
                       "discard", "release", "finish"}]
  /\ target \in [Calls -> Upstreams]
  /\ slot \in [Calls -> Slots \cup {NoSlot}]
  /\ unsaid \in [Calls -> Statuses \cup {Nothing}]
  /\ spc \in [Stoppers -> {"idle", "announce", "sayStopping", "drain", "close",
                           "finalize", "sayStopped", "conclude"}]
  /\ at \in [Stoppers -> Upstreams]
  /\ ipc \in [Inspectors -> 0 .. UpstreamCount]
  /\ seen \in [Inspectors -> [Upstreams -> Reports]]
  /\ lastEvent \in [Upstreams -> Statuses \cup {Nothing}]
  /\ lifecycle \in {Nothing, "runtime_stopping", "runtime_stopped"}
  /\ finished \in BOOLEAN
  /\ crossed \in [Upstreams -> BOOLEAN]

ObservedInit ==
  /\ stopping = FALSE /\ stopped = FALSE
  /\ status = [u \in Upstreams |-> "configured"]
  /\ inUse = [u \in Upstreams |-> {}]
  /\ initialized = [u \in Upstreams |-> {}]
  /\ begun = 0
  /\ pc = [t \in Calls |-> "idle"]
  /\ target = [t \in Calls |-> 1]
  /\ slot = [t \in Calls |-> NoSlot]
  /\ unsaid = [t \in Calls |-> Nothing]
  /\ spc = [p \in Stoppers |-> "idle"]
  /\ at = [p \in Stoppers |-> 1]
  /\ ipc = [i \in Inspectors |-> 0]
  /\ seen = [i \in Inspectors |-> [u \in Upstreams |-> Unread]]
  /\ lastEvent = [u \in Upstreams |-> Nothing]
  /\ lifecycle = Nothing
  /\ finished = FALSE
  /\ crossed = [u \in Upstreams |-> FALSE]

-----------------------------------------------------------------------------
(* Changes and reports.                                                    *)

\* A stop() has yet to report u's status if it stands before u in its loop.
Reporting(p, u) ==
  \/ spc[p] = "announce"
  \/ spc[p] \in {"sayStopping", "sayStopped"} /\ at[p] <= u

Unreported(u) == \/ \E t \in Calls : target[t] = u /\ unsaid[t] # Nothing
                 \/ \E p \in Stoppers : Reporting(p, u)

Goto(t, there) == pc' = [pc EXCEPT ![t] = there]

\* Mutant of SetStatus: the status is set by the variant that does not report.
SetStatusLocked(t, s, there) ==
  /\ status' = [status EXCEPT ![target[t]] = s]
  /\ crossed' = [crossed EXCEPT ![target[t]] = Unreported(target[t])]
  /\ UNCHANGED unsaid
  /\ Goto(t, there)

\* set_upstream_status, mark_upstream_healthy, mark_upstream_degraded: the
\* change, with its report left to the thread's next step.
SetStatus(t, s, there) ==
  /\ status' = [status EXCEPT ![target[t]] = s]
  /\ crossed' = [crossed EXCEPT ![target[t]] = Unreported(target[t])]
  /\ unsaid' = [unsaid EXCEPT ![t] = s]
  /\ Goto(t, there)

\* notify_upstream_status: the observer, whatever it throws.
Report(t) ==
  /\ unsaid[t] # Nothing
  /\ lastEvent' = [lastEvent EXCEPT ![target[t]] = unsaid[t]]
  /\ unsaid' = [unsaid EXCEPT ![t] = Nothing]
  /\ UNCHANGED <<recordVars, poolVars, begun, pc, target, slot, stopVars,
                 inspectVars, lifecycle, finished>>

-----------------------------------------------------------------------------
(* An operation in persistent mode.                                        *)

Ready(t, point) == pc[t] = point /\ unsaid[t] = Nothing

Begin(t) ==
  /\ Ready(t, "idle")
  /\ begun < MaxCalls
  /\ ~stopping /\ ~stopped
  /\ begun' = begun + 1
  /\ \E u \in Upstreams : target' = [target EXCEPT ![t] = u]
  /\ Goto(t, "acquire")
  /\ UNCHANGED <<recordVars, poolVars, slot, unsaid, stopVars, inspectVars, eventVars>>

\* A free slot, or a refusal; waiting is GatewayRuntime's subject.
Acquire(t) ==
  LET u == target[t] IN
  /\ Ready(t, "acquire")
  /\ \/ /\ ~stopping /\ ~stopped
        /\ \E s \in Slots \ inUse[u] :
             /\ \A r \in Slots \ inUse[u] : s <= r
             /\ slot' = [slot EXCEPT ![t] = s]
             /\ inUse' = [inUse EXCEPT ![u] = @ \cup {s}]
        /\ Goto(t, "ensure")
     \/ /\ stopping \/ stopped
        /\ Goto(t, "finish")
        /\ UNCHANGED <<slot, inUse>>
  /\ UNCHANGED <<recordVars, initialized, begun, target, unsaid, stopVars,
                 inspectVars, eventVars>>

KeepSession(t) ==
  /\ Ready(t, "ensure")
  /\ slot[t] \in initialized[target[t]]
  /\ Goto(t, "use")
  /\ UNCHANGED <<recordVars, poolVars, begun, target, slot, unsaid, stopVars,
                 inspectVars, eventVars>>

\* There is no session in the slot, or it no longer runs.
Connect(t) ==
  /\ Ready(t, "ensure")
  /\ initialized' = [initialized EXCEPT ![target[t]] = @ \ {slot[t]}]
  /\ SetStatus(t, "connecting", "connect")
  /\ UNCHANGED <<stopping, stopped, inUse, begun, target, slot, stopVars,
                 inspectVars, eventVars>>

Initialize(t) ==
  /\ Ready(t, "connect")
  /\ SetStatus(t, "initialized", "open")
  /\ UNCHANGED <<stopping, stopped, poolVars, begun, target, slot, stopVars,
                 inspectVars, eventVars>>

Install(t) ==
  /\ Ready(t, "open")
  /\ initialized' = [initialized EXCEPT ![target[t]] = @ \cup {slot[t]}]
  /\ SetStatus(t, "healthy", "use")
  /\ UNCHANGED <<stopping, stopped, inUse, begun, target, slot, stopVars,
                 inspectVars, eventVars>>

Answer(t) ==
  /\ Ready(t, "use")
  /\ SetStatus(t, "healthy", "release")
  /\ UNCHANGED <<stopping, stopped, poolVars, begun, target, slot, stopVars,
                 inspectVars, eventVars>>

Fail(t) ==
  /\ Ready(t, "connect") \/ Ready(t, "open") \/ Ready(t, "use")
  /\ SetStatus(t, "degraded", "discard")
  /\ UNCHANGED <<stopping, stopped, poolVars, begun, target, slot, stopVars,
                 inspectVars, eventVars>>

Discard(t) ==
  /\ Ready(t, "discard")
  /\ initialized' = [initialized EXCEPT ![target[t]] = @ \ {slot[t]}]
  /\ Goto(t, "release")
  /\ UNCHANGED <<recordVars, inUse, begun, target, slot, unsaid, stopVars,
                 inspectVars, eventVars>>

Release(t) ==
  /\ Ready(t, "release")
  /\ inUse' = [inUse EXCEPT ![target[t]] = @ \ {slot[t]}]
  /\ slot' = [slot EXCEPT ![t] = NoSlot]
  /\ Goto(t, "finish")
  /\ UNCHANGED <<recordVars, initialized, begun, target, unsaid, stopVars,
                 inspectVars, eventVars>>

Finish(t) ==
  /\ Ready(t, "finish")
  /\ Goto(t, "idle")
  /\ UNCHANGED <<recordVars, poolVars, begun, target, slot, unsaid, stopVars,
                 inspectVars, eventVars>>

\* active_calls of u.
Active(u) == Cardinality({t \in Calls : pc[t] # "idle" /\ target[t] = u})

-----------------------------------------------------------------------------
(* stop().                                                                 *)

Turn(p, there) == spc' = [spc EXCEPT ![p] = there]

SetAll(s) == /\ status' = [u \in Upstreams |-> s]
             /\ crossed' = [u \in Upstreams |-> Unreported(u)]

\* Mutant of StopBegin: a stop() that finds the runtime stopped goes on.
StopBeginAgain(p) ==
  /\ spc[p] = "idle"
  /\ stopping' = TRUE
  /\ SetAll("stopping")
  /\ Turn(p, "announce")
  /\ UNCHANGED <<stopped, poolVars, callVars, at, inspectVars, eventVars>>

StopBegin(p) ==
  /\ spc[p] = "idle"
  /\ ~stopped
  /\ stopping' = TRUE
  /\ SetAll("stopping")
  /\ Turn(p, "announce")
  /\ UNCHANGED <<stopped, poolVars, callVars, at, inspectVars, eventVars>>

Announce(p) ==
  /\ spc[p] = "announce"
  /\ lifecycle' = "runtime_stopping"
  /\ Turn(p, "sayStopping")
  /\ UNCHANGED <<recordVars, poolVars, callVars, at, inspectVars, lastEvent, finished>>

\* notify_all_upstream_statuses, one upstream after the other.
SayNext(p, s, after) ==
  /\ lastEvent' = [lastEvent EXCEPT ![at[p]] = s]
  /\ IF at[p] < UpstreamCount
     THEN at' = [at EXCEPT ![p] = @ + 1] /\ UNCHANGED spc
     ELSE at' = [at EXCEPT ![p] = 1] /\ Turn(p, after)
  /\ UNCHANGED <<recordVars, poolVars, callVars, inspectVars, lifecycle, finished>>

SayStopping(p) == spc[p] = "sayStopping" /\ SayNext(p, "stopping", "drain")

Drained == \A u \in Upstreams : Active(u) = 0

\* Mutant of Drain: the retained sessions are not closed.
DrainKeepingSessions(p) ==
  /\ spc[p] = "drain"
  /\ Drained
  /\ Turn(p, "finalize")
  /\ UNCHANGED <<recordVars, poolVars, callVars, at, inspectVars, eventVars>>

Drain(p) ==
  /\ spc[p] = "drain"
  /\ Drained
  /\ Turn(p, "close")
  /\ UNCHANGED <<recordVars, poolVars, callVars, at, inspectVars, eventVars>>

DrainTimesOut(p) ==
  /\ spc[p] = "drain"
  /\ DrainBounded /\ ~Drained
  /\ Turn(p, "idle")
  /\ UNCHANGED <<recordVars, poolVars, callVars, at, inspectVars, eventVars>>

Close(p) ==
  /\ spc[p] = "close"
  /\ initialized' = [u \in Upstreams |-> {}]
  /\ Turn(p, "finalize")
  /\ UNCHANGED <<recordVars, inUse, callVars, at, inspectVars, eventVars>>

\* Mutant of Finalize: the upstreams are not reported stopped.
FinalizeBriefly(p) ==
  /\ spc[p] = "finalize"
  /\ stopping' = FALSE
  /\ stopped' = TRUE
  /\ SetAll("stopped")
  /\ Turn(p, "conclude")
  /\ UNCHANGED <<poolVars, callVars, at, inspectVars, eventVars>>

Finalize(p) ==
  /\ spc[p] = "finalize"
  /\ stopping' = FALSE
  /\ stopped' = TRUE
  /\ SetAll("stopped")
  /\ Turn(p, "sayStopped")
  /\ UNCHANGED <<poolVars, callVars, at, inspectVars, eventVars>>

SayStopped(p) == spc[p] = "sayStopped" /\ SayNext(p, "stopped", "conclude")

Conclude(p) ==
  /\ spc[p] = "conclude"
  /\ lifecycle' = "runtime_stopped"
  /\ finished' = TRUE
  /\ Turn(p, "idle")
  /\ UNCHANGED <<recordVars, poolVars, callVars, at, inspectVars, lastEvent>>

-----------------------------------------------------------------------------
(* upstream_states().                                                      *)

RecordAtRest(u) == Active(u) = 0
PoolAtRest(u)   == inUse[u] = {} /\ initialized[u] = {}

ReadRecord(i) ==
  /\ ipc[i] = 0
  /\ ipc' = [ipc EXCEPT ![i] = 1]
  /\ seen' = [seen EXCEPT ![i] = [u \in Upstreams |->
                [stopped |-> status[u] = "stopped", atRest |-> RecordAtRest(u)]]]
  /\ UNCHANGED <<recordVars, poolVars, callVars, stopVars, eventVars>>

\* The pools, one after the other.
ReadPool(i) ==
  /\ ipc[i] # 0
  /\ seen' = [seen EXCEPT ![i][ipc[i]].atRest = @ /\ PoolAtRest(ipc[i])]
  /\ ipc' = [ipc EXCEPT ![i] = IF @ < UpstreamCount THEN @ + 1 ELSE 0]
  /\ UNCHANGED <<recordVars, poolVars, callVars, stopVars, eventVars>>

-----------------------------------------------------------------------------
CallStep(t) ==
  \/ Report(t) \/ Acquire(t) \/ KeepSession(t) \/ Connect(t) \/ Initialize(t)
  \/ Install(t) \/ Answer(t) \/ Fail(t) \/ Discard(t) \/ Release(t) \/ Finish(t)

StopStep(p) ==
  \/ Announce(p) \/ SayStopping(p) \/ Drain(p) \/ Close(p) \/ Finalize(p)
  \/ SayStopped(p) \/ Conclude(p)

ObservedNext ==
  \/ \E t \in Calls : Begin(t) \/ CallStep(t)
  \/ \E p \in Stoppers : StopBegin(p) \/ StopStep(p) \/ DrainTimesOut(p)
  \/ \E i \in Inspectors : ReadRecord(i) \/ ReadPool(i)

ObservedSpec == ObservedInit /\ [][ObservedNext]_observedVars

\* Threads are scheduled, exchanges end and the observer returns.
FairObservedSpec ==
  /\ ObservedSpec
  /\ \A t \in Calls : WF_observedVars(CallStep(t))
  /\ \A p \in Stoppers : WF_observedVars(StopStep(p))

-----------------------------------------------------------------------------
\* Once an event has said that the runtime, or an upstream, is stopped, it is:
\* every upstream is marked and has been reported stopped before, or will be
\* again by another stop(), and no operation is left that could report after.
StoppedEventIsTrue ==
  /\ finished => \A u \in Upstreams :
       /\ status[u] = "stopped" /\ Active(u) = 0
       /\ \/ lastEvent[u] = "stopped"
          \/ \E p \in Stoppers : spc[p] \in {"sayStopping", "drain", "close",
                                             "finalize", "sayStopped"}
  /\ \A u \in Upstreams : lastEvent[u] = "stopped" =>
       status[u] = "stopped" /\ Active(u) = 0

\* An observer's last report of an upstream agrees with the record when nobody
\* has yet to report, unless the last two changes crossed (the record is
\* unlocked before the observer is called: runtime.cpp:318-324).
UncrossedReportsAgree ==
  \A u \in Upstreams :
    ~crossed[u] /\ ~Unreported(u) /\ lastEvent[u] # Nothing => lastEvent[u] = status[u]

\* A snapshot that says stopped is a snapshot of a runtime at rest, although its
\* two halves are read one after the other: no call, busy slot or session.
StoppedSnapshotIsAtRest ==
  \A i \in Inspectors : ipc[i] = 0 =>
    \A u \in Upstreams : seen[i][u].stopped => seen[i][u].atRest

\* The last word on a stopped runtime is that it is stopped: the events of
\* overlapping stop() calls cross (one may announce a stop after another has
\* concluded it), but each of them concludes.
StoppedIsTheLastWord ==
  stopped ~> [](/\ lifecycle = "runtime_stopped"
                /\ \A u \in Upstreams : lastEvent[u] = "stopped")
=============================================================================
