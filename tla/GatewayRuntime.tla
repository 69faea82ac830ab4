--------------------------- MODULE GatewayRuntime ---------------------------
(***************************************************************************)
(* The concurrent core of gateway/src/runtime.cpp: the threads that run    *)
(* upstream operations (routed calls, the per-upstream tasks of a catalog  *)
(* listing, the per-upstream steps of refresh_upstream_capabilities), the  *)
(* pool of persistent sessions they share, the per-upstream state record,  *)
(* the hosted endpoint and GatewayRuntime::stop().                         *)
(*                                                                         *)
(* A step is one critical section of the code, one notification of a       *)
(* condition variable, or one exchange with an upstream.  The two          *)
(* condition variables are modelled by the threads that sleep on them: a   *)
(* notification moves sleepers back to the point where they re-evaluate    *)
(* the predicate.                                                          *)
(***************************************************************************)
EXTENDS Integers, FiniteSets

CONSTANTS
  Calls,          \* threads that enter the runtime with an operation
  Stoppers,       \* threads that call stop()
  NoThread,       \* nobody: the value of a free mutex
  UpstreamCount,  \* how many enabled upstreams the configuration lists
  PoolSize,       \* persistent_session_pool_size (at least 1, runtime.cpp:222)
  SessionMode,    \* upstream_session_mode, after normalize_session_mode
  Offers,         \* what an upstream may answer about the family called
  AcquireBounded, \* persistent_session_acquire_timeout > 0
  DrainBounded,   \* active_call_drain_timeout > 0
  Hosting         \* whether the host calls start_http

Modes        == {"per_call", "persistent"}
Capabilities == {"unknown", "supported", "unsupported"}

ASSUME ThreadsAssumption == NoThread \notin Calls /\ IsFiniteSet(Calls)
ASSUME SizesAssumption   == UpstreamCount \in Nat \ {0} /\ PoolSize \in Nat \ {0}
ASSUME OptionsAssumption == /\ SessionMode \in Modes
                            /\ Offers \in SUBSET {"supported", "unsupported"}
                            /\ Offers # {}
                            /\ AcquireBounded \in BOOLEAN
                            /\ DrainBounded \in BOOLEAN
                            /\ Hosting \in BOOLEAN

Upstreams  == 1 .. UpstreamCount      \* in configuration order
Slots      == 1 .. PoolSize
Persistent == SessionMode = "persistent"

Statuses == {"configured", "connecting", "initialized", "healthy",
             "degraded", "stopping", "stopped"}

\* Where an upstream operation stands.
CallPoints == {"idle", "begin", "acquire", "window", "blocked", "ensure",
               "connect", "initialized", "opened", "use", "discard",
               "release", "signal", "finish", "notifyIdle", "leave"}

\* Where a call of stop() stands; the last two are what it returned.
StopPoints == {"idle", "notify", "endpoint", "drain", "drainWait", "close",
               "finalize", "done", "timedOut"}

VARIABLES
  \* guarded by upstream_state_mutex
  stopping, stopped,
  status,        \* UpstreamRuntimeState::status
  activeCalls,   \* UpstreamRuntimeState::active_calls
  recorded,      \* UpstreamRuntimeState::capabilities, for the family called
  \* the persistent pool of each upstream
  inUse,         \* the slots with in_use set
  session,       \* Slot::service: "none", "live" or "dead" (not running())
  slotCaps,      \* Slot::capabilities
  poolMutex,     \* PersistentUpstreamSession::mutex, when held across steps
  \* guarded by service_mutex
  service,       \* the hosted endpoint: "none", "running" or "exited"
  \* the operation each call thread runs
  pc, op, target, held, cur, offer, ok,
  \* the call of stop() each stopper runs, and whether it took a reference
  \* to the hosted endpoint
  spc, captured

flags       == <<stopping, stopped>>
upstreamVars == <<status, activeCalls, recorded>>
poolVars    == <<inUse, session, slotCaps>>
callVars    == <<pc, op, target, held, cur, offer, ok>>
stopVars    == <<spc, captured>>
vars == <<flags, upstreamVars, poolVars, poolMutex, service, callVars, stopVars>>

TypeOK ==
  /\ stopping \in BOOLEAN /\ stopped \in BOOLEAN
  /\ status \in [Upstreams -> Statuses]
  /\ activeCalls \in [Upstreams -> Nat]
  /\ recorded \in [Upstreams -> Capabilities]
  /\ inUse \in [Upstreams -> SUBSET Slots]
  /\ session \in [Upstreams -> [Slots -> {"none", "live", "dead"}]]
  /\ slotCaps \in [Upstreams -> [Slots -> Capabilities]]
  /\ poolMutex \in [Upstreams -> Calls \cup {NoThread}]
  /\ service \in {"none", "running", "exited"}
  /\ pc \in [Calls -> CallPoints]
  /\ op \in [Calls -> {"call", "refresh"}]
  /\ target \in [Calls -> Upstreams]
  /\ held \in [Calls -> SUBSET Slots]
  /\ cur \in [Calls -> Slots]
  /\ offer \in [Calls -> Capabilities]
  /\ ok \in [Calls -> BOOLEAN]
  /\ spc \in [Stoppers -> StopPoints]
  /\ captured \in [Stoppers -> BOOLEAN]

Init ==
  /\ stopping = FALSE /\ stopped = FALSE
  /\ status = [u \in Upstreams |-> "configured"]
  /\ activeCalls = [u \in Upstreams |-> 0]
  /\ recorded = [u \in Upstreams |-> "unknown"]
  /\ inUse = [u \in Upstreams |-> {}]
  /\ session = [u \in Upstreams |-> [s \in Slots |-> "none"]]
  /\ slotCaps = [u \in Upstreams |-> [s \in Slots |-> "unknown"]]
  /\ poolMutex = [u \in Upstreams |-> NoThread]
  /\ service = "none"
  /\ pc = [t \in Calls |-> "idle"]
  /\ op = [t \in Calls |-> "call"]
  /\ target = [t \in Calls |-> 1]
  /\ held = [t \in Calls |-> {}]
  /\ cur = [t \in Calls |-> 1]
  /\ offer = [t \in Calls |-> "unknown"]
  /\ ok = [t \in Calls |-> TRUE]
  /\ spc = [p \in Stoppers |-> "idle"]
  /\ captured = [p \in Stoppers |-> FALSE]

-----------------------------------------------------------------------------
(* The runtime refuses work from the moment stop() is called, for good.    *)

Halting == stopping \/ stopped

Goto(t, point) == pc' = [pc EXCEPT ![t] = point]
SetStatus(u, s) == status' = [status EXCEPT ![u] = s]

\* Mutants of MarkDegraded: the recorded capabilities are overwritten with
\* nothing, nothing is marked.
MarkDegradedForgetful(u, c) == /\ SetStatus(u, "degraded")
                               /\ recorded' = [recorded EXCEPT ![u] = c]
MarkDegradedUnreported(u, c) == UNCHANGED <<status, recorded>>

MarkHealthy(u, c) == /\ SetStatus(u, "healthy")
                     /\ recorded' = [recorded EXCEPT ![u] = c]

\* A degraded mark without capabilities keeps the recorded ones.
MarkDegraded(u, c) == /\ SetStatus(u, "degraded")
                      /\ recorded' = [recorded EXCEPT ![u] =
                                        IF c = "unknown" THEN @ ELSE c]

-----------------------------------------------------------------------------
(* Entering an operation.                                                  *)

\* A routed call is refused when the upstream is known not to support the
\* family; a listing skips the upstream only once every upstream is known.
Eligible(u) == \/ recorded[u] # "unsupported"
               \/ \E v \in Upstreams : recorded[v] = "unknown"

Enter(t, kind, u) ==
  /\ pc[t] = "idle"
  /\ ~Halting
  /\ Goto(t, "begin")
  /\ op' = [op EXCEPT ![t] = kind]
  /\ target' = [target EXCEPT ![t] = u]
  /\ UNCHANGED <<flags, upstreamVars, poolVars, poolMutex, service, held, cur,
                 offer, ok, stopVars>>

StartCall(t) == \E u \in Upstreams : Eligible(u) /\ Enter(t, "call", u)

StartRefresh(t) == Enter(t, "refresh", 1)

\* Mutant of BeginCall: the check made on entry is relied upon.
BeginCallUnchecked(t) ==
  /\ pc[t] = "begin"
  /\ Goto(t, IF Persistent THEN "acquire" ELSE "ensure")
  /\ activeCalls' = [activeCalls EXCEPT ![target[t]] = @ + 1]
  /\ UNCHANGED <<flags, status, recorded, poolVars, poolMutex, service, op,
                 target, held, cur, offer, ok, stopVars>>

\* begin_upstream_call: the flags are read again, under the mutex that guards
\* them, in the critical section that counts the call.
BeginCall(t) ==
  LET u == target[t] IN
  /\ pc[t] = "begin"
  /\ IF Halting
     THEN /\ Goto(t, "leave")
          /\ ok' = [ok EXCEPT ![t] = FALSE]
          /\ UNCHANGED activeCalls
     ELSE /\ Goto(t, IF Persistent THEN "acquire" ELSE "ensure")
          /\ activeCalls' = [activeCalls EXCEPT ![u] = @ + 1]
          /\ UNCHANGED ok
  /\ UNCHANGED <<flags, status, recorded, poolVars, poolMutex, service, op,
                 target, held, cur, offer, stopVars>>

-----------------------------------------------------------------------------
(* The session pool.  The predicate of the wait reads the flags under      *)
(* upstream_state_mutex while session.mutex is held; stop() sets them and  *)
(* notifies without session.mutex, so it can fall into the window between  *)
(* the predicate and the block.                                            *)

SlotsAvailable(t) ==
  IF op[t] = "call" THEN inUse[target[t]] # Slots ELSE inUse[target[t]] = {}

AtPool(t) == pc[t] = "acquire" /\ poolMutex[target[t]] = NoThread

\* Mutant of RefuseSlot: the refused operation is never uncounted.
RefuseSlotUncounted(t) ==
  /\ AtPool(t)
  /\ Halting
  /\ Goto(t, "leave")
  /\ ok' = [ok EXCEPT ![t] = FALSE]
  /\ UNCHANGED <<flags, upstreamVars, poolVars, poolMutex, service, op, target,
                 held, cur, offer, stopVars>>

RefuseSlot(t) ==
  /\ AtPool(t)
  /\ Halting
  /\ Goto(t, "finish")
  /\ ok' = [ok EXCEPT ![t] = FALSE]
  /\ UNCHANGED <<flags, upstreamVars, poolVars, poolMutex, service, op, target,
                 held, cur, offer, stopVars>>

\* A call takes the first free slot, a refresh takes the whole pool.  The code
\* reads the flags and then marks the slots: the step stands for the reading,
\* because in_use is read and written under session.mutex only, which is held
\* from one to the other.
TakeSlots(t) ==
  LET u == target[t]
      free == Slots \ inUse[u] IN
  /\ AtPool(t)
  /\ ~Halting
  /\ SlotsAvailable(t)
  /\ \E s \in free :
       /\ \A r \in free : s <= r
       /\ cur' = [cur EXCEPT ![t] = s]
       /\ LET taken == IF op[t] = "call" THEN {s} ELSE Slots IN
            /\ held' = [held EXCEPT ![t] = taken]
            /\ inUse' = [inUse EXCEPT ![u] = @ \cup taken]
  /\ Goto(t, "ensure")
  /\ UNCHANGED <<flags, upstreamVars, session, slotCaps, poolMutex, service, op,
                 target, offer, ok, stopVars>>

FindPoolBusy(t) ==
  /\ AtPool(t)
  /\ ~Halting
  /\ ~SlotsAvailable(t)
  /\ Goto(t, "window")
  /\ poolMutex' = [poolMutex EXCEPT ![target[t]] = t]
  /\ UNCHANGED <<flags, upstreamVars, poolVars, service, op, target, held, cur,
                 offer, ok, stopVars>>

Block(t) ==
  /\ pc[t] = "window"
  /\ Goto(t, "blocked")
  /\ poolMutex' = [poolMutex EXCEPT ![target[t]] = NoThread]
  /\ UNCHANGED <<flags, upstreamVars, poolVars, service, op, target, held, cur,
                 offer, ok, stopVars>>

\* The wait ends with an error only if its predicate is still false then.
AcquireTimesOut(t) ==
  /\ AcquireBounded
  /\ pc[t] = "blocked"
  /\ poolMutex[target[t]] = NoThread
  /\ ~Halting /\ ~SlotsAvailable(t)
  /\ Goto(t, "finish")
  /\ ok' = [ok EXCEPT ![t] = FALSE]
  /\ UNCHANGED <<flags, upstreamVars, poolVars, poolMutex, service, op, target,
                 held, cur, offer, stopVars>>

WakeUnasked(t) ==
  /\ pc[t] = "blocked"
  /\ Goto(t, "acquire")
  /\ UNCHANGED <<flags, upstreamVars, poolVars, poolMutex, service, op, target,
                 held, cur, offer, ok, stopVars>>

-----------------------------------------------------------------------------
(* Connecting: ensure_persistent_session_initialized, or the first part of *)
(* with_initialized_upstream_per_call.                                     *)

SetSession(u, s, state, c) ==
  /\ session' = [session EXCEPT ![u][s] = state]
  /\ slotCaps' = [slotCaps EXCEPT ![u][s] = c]

\* Mutant of Proceed: the prewarm loop runs one slot too far.
ProceedPastLast(t) ==
  IF op[t] = "call" \/ cur[t] > PoolSize
  THEN Goto(t, "use") /\ UNCHANGED cur
  ELSE Goto(t, "ensure") /\ cur' = [cur EXCEPT ![t] = @ + 1]

\* With a session for slot cur: a call uses it, a prewarm goes on to the next
\* slot and releases the pool after the last.
Proceed(t) ==
  IF op[t] = "call"
  THEN Goto(t, "use") /\ UNCHANGED cur
  ELSE IF cur[t] < PoolSize
       THEN Goto(t, "ensure") /\ cur' = [cur EXCEPT ![t] = @ + 1]
       ELSE Goto(t, "release") /\ UNCHANGED cur

\* A session that still runs is kept, without touching the upstream's state.
KeepSession(t) ==
  LET u == target[t] IN
  /\ pc[t] = "ensure"
  /\ Persistent /\ session[u][cur[t]] = "live"
  /\ offer' = [offer EXCEPT ![t] = slotCaps[u][cur[t]]]
  /\ Proceed(t)
  /\ UNCHANGED <<flags, upstreamVars, poolVars, poolMutex, service, op, target,
                 held, ok, stopVars>>

Connect(t) ==
  LET u == target[t] IN
  /\ pc[t] = "ensure"
  /\ IF Persistent
     THEN /\ session[u][cur[t]] # "live"
          /\ SetSession(u, cur[t], "none", "unknown")
     ELSE UNCHANGED <<session, slotCaps>>
  /\ SetStatus(u, "connecting")
  /\ Goto(t, "connect")
  /\ UNCHANGED <<flags, activeCalls, recorded, inUse, poolMutex, service, op,
                 target, held, cur, offer, ok, stopVars>>

\* Mutants of AfterFailure: the failed session stays in its slot; the slot is
\* not released.
AfterFailureKeeping(t) == Goto(t, IF Persistent THEN "release" ELSE "finish")
AfterFailureLeaking(t) == Goto(t, "finish")

\* A failed pooled session is discarded before its slot is released; a
\* per-call session was stopped before the failure was recorded.
AfterFailure(t) == Goto(t, IF Persistent THEN "discard" ELSE "finish")

\* The client cannot be built or served, initialize fails, or the
\* initialized notification fails: four error returns with one effect.
ConnectFails(t) ==
  /\ pc[t] \in {"connect", "initialized"}
  /\ MarkDegraded(target[t], "unknown")
  /\ ok' = [ok EXCEPT ![t] = FALSE]
  /\ AfterFailure(t)
  /\ UNCHANGED <<flags, activeCalls, poolVars, poolMutex, service, op, target,
                 held, cur, offer, stopVars>>

Initialize(t) ==
  /\ pc[t] = "connect"
  /\ \E c \in Offers : offer' = [offer EXCEPT ![t] = c]
  /\ SetStatus(target[t], "initialized")
  /\ Goto(t, "initialized")
  /\ UNCHANGED <<flags, activeCalls, recorded, poolVars, poolMutex, service, op,
                 target, held, cur, ok, stopVars>>

\* A pooled session is installed in its slot, which only its holder uses.  A
\* per-call session is private to its call: the upstream is not healthy before
\* the call succeeds.
OpenSession(t) ==
  /\ pc[t] = "initialized"
  /\ IF Persistent
     THEN /\ SetSession(target[t], cur[t], "live", offer[t])
          /\ Goto(t, "opened")
     ELSE /\ Goto(t, "use")
          /\ UNCHANGED <<session, slotCaps>>
  /\ UNCHANGED <<flags, upstreamVars, inUse, poolMutex, service, op, target, held,
                 cur, offer, ok, stopVars>>

\* Only then is the upstream recorded as healthy, with what it offers.
RecordSession(t) ==
  /\ pc[t] = "opened"
  /\ MarkHealthy(target[t], offer[t])
  /\ Proceed(t)
  /\ UNCHANGED <<flags, activeCalls, poolVars, poolMutex, service, op, target, held,
                 offer, ok, stopVars>>

-----------------------------------------------------------------------------
(* Using the session and leaving the operation.                            *)

\* The upstream answered, or the gateway itself refused the request
\* (gateway_owned_error): the upstream is healthy either way.
Answer(t) ==
  /\ pc[t] = "use"
  /\ MarkHealthy(target[t], offer[t])
  /\ Goto(t, IF Persistent THEN "release" ELSE "finish")
  /\ UNCHANGED <<flags, activeCalls, poolVars, poolMutex, service, op, target,
                 held, cur, offer, ok, stopVars>>

\* The per-call refresh makes no request once the session is initialized.
UpstreamFails(t) ==
  /\ pc[t] = "use"
  /\ op[t] = "call"
  /\ MarkDegraded(target[t], offer[t])
  /\ ok' = [ok EXCEPT ![t] = FALSE]
  /\ AfterFailure(t)
  /\ UNCHANGED <<flags, activeCalls, poolVars, poolMutex, service, op, target,
                 held, cur, offer, stopVars>>

Discard(t) ==
  /\ pc[t] = "discard"
  /\ SetSession(target[t], cur[t], "none", "unknown")
  /\ Goto(t, "release")
  /\ UNCHANGED <<flags, upstreamVars, inUse, poolMutex, service, op, target,
                 held, cur, offer, ok, stopVars>>

\* Mutant of StillUsed: a prewarm releases only the slot it worked on last.
StillUsedByOne(t) == inUse[target[t]] \ {cur[t]}

\* The slots in use once t has released its own.
StillUsed(t) == inUse[target[t]] \ held[t]

\* The slot guard is destroyed before the active-call guard.
Release(t) ==
  LET u == target[t] IN
  /\ pc[t] = "release"
  /\ poolMutex[u] = NoThread
  /\ inUse' = [inUse EXCEPT ![u] = StillUsed(t)]
  /\ held' = [held EXCEPT ![t] = {}]
  /\ Goto(t, "signal")
  /\ UNCHANGED <<flags, upstreamVars, session, slotCaps, poolMutex, service, op,
                 target, cur, offer, ok, stopVars>>

Sleepers(u) == {w \in Calls : pc[w] = "blocked" /\ target[w] = u}

\* notify_one after a call, notify_all after a refresh, outside the mutex.
\* The sleeper that notify_one wakes need not be one that can go on.
Signal(t) ==
  LET sleepers == Sleepers(target[t]) IN
  /\ pc[t] = "signal"
  /\ \E woken \in SUBSET sleepers :
       /\ IF op[t] = "refresh" THEN woken = sleepers
          ELSE Cardinality(woken) = IF sleepers = {} THEN 0 ELSE 1
       /\ pc' = [w \in Calls |-> IF w \in woken THEN "acquire"
                                 ELSE IF w = t THEN "finish" ELSE pc[w]]
  /\ UNCHANGED <<flags, upstreamVars, poolVars, poolMutex, service, op, target,
                 held, cur, offer, ok, stopVars>>

\* Mutant of Drained: one idle upstream is taken for all.
DrainedSomewhere == \E u \in Upstreams : activeCalls[u] = 0

Drained == \A u \in Upstreams : activeCalls[u] = 0

\* Mutant of Finish: the zero test is made before the decrement.
FinishTestingFirst(t) ==
  LET u == target[t] IN
  /\ pc[t] = "finish"
  /\ activeCalls' = [activeCalls EXCEPT ![u] = IF @ > 0 THEN @ - 1 ELSE @]
  /\ Goto(t, IF Drained THEN "notifyIdle" ELSE "leave")
  /\ UNCHANGED <<flags, status, recorded, poolVars, poolMutex, service, op,
                 target, held, cur, offer, ok, stopVars>>

\* finish_upstream_call decides under the mutex whether to notify stop().
Finish(t) ==
  LET u == target[t]
      left == [activeCalls EXCEPT ![u] = IF @ > 0 THEN @ - 1 ELSE @] IN
  /\ pc[t] = "finish"
  /\ activeCalls' = left
  /\ Goto(t, IF \A v \in Upstreams : left[v] = 0 THEN "notifyIdle" ELSE "leave")
  /\ UNCHANGED <<flags, status, recorded, poolVars, poolMutex, service, op,
                 target, held, cur, offer, ok, stopVars>>

\* Mutant of NotifyIdle: notify_one instead of notify_all.
NotifyIdleOne(t) ==
  LET waiting == {p \in Stoppers : spc[p] = "drainWait"} IN
  /\ pc[t] = "notifyIdle"
  /\ IF waiting = {} THEN UNCHANGED spc
     ELSE \E p \in waiting : spc' = [spc EXCEPT ![p] = "drain"]
  /\ Goto(t, "leave")
  /\ UNCHANGED <<flags, upstreamVars, poolVars, poolMutex, service, op, target,
                 held, cur, offer, ok, captured>>

NotifyIdle(t) ==
  /\ pc[t] = "notifyIdle"
  /\ spc' = [p \in Stoppers |-> IF spc[p] = "drainWait" THEN "drain" ELSE spc[p]]
  /\ Goto(t, "leave")
  /\ UNCHANGED <<flags, upstreamVars, poolVars, poolMutex, service, op, target,
                 held, cur, offer, ok, captured>>

\* A refresh goes on to the next upstream unless this one failed.
Leave(t) ==
  LET next == op[t] = "refresh" /\ ok[t] /\ target[t] < UpstreamCount IN
  /\ pc[t] = "leave"
  /\ Goto(t, IF next THEN "begin" ELSE "idle")
  /\ target' = [target EXCEPT ![t] = IF next THEN @ + 1 ELSE 1]
  /\ op' = [op EXCEPT ![t] = IF next THEN @ ELSE "call"]
  /\ cur' = [cur EXCEPT ![t] = 1]
  /\ offer' = [offer EXCEPT ![t] = "unknown"]
  /\ ok' = [ok EXCEPT ![t] = TRUE]
  /\ UNCHANGED <<flags, upstreamVars, poolVars, poolMutex, service, held,
                 stopVars>>

-----------------------------------------------------------------------------
(* The environment: sessions and the hosted endpoint end by themselves.    *)

SessionDies(u, s) ==
  /\ session[u][s] = "live"
  /\ session' = [session EXCEPT ![u][s] = "dead"]
  /\ UNCHANGED <<flags, upstreamVars, inUse, slotCaps, poolMutex, service,
                 callVars, stopVars>>

\* Mutant of StartHttp: the endpoint starts whatever the runtime's state.
StartHttpUnchecked ==
  /\ Hosting
  /\ service # "running"
  /\ service' = "running"
  /\ UNCHANGED <<flags, upstreamVars, poolVars, poolMutex, callVars, stopVars>>

\* start_http holds service_mutex throughout, and so does the first critical
\* section of stop(): the flags cannot change while the endpoint starts.
StartHttp ==
  /\ Hosting
  /\ ~Halting
  /\ service # "running"
  /\ service' = "running"
  /\ UNCHANGED <<flags, upstreamVars, poolVars, poolMutex, callVars, stopVars>>

EndpointExits ==
  /\ service = "running"
  /\ service' = "exited"
  /\ UNCHANGED <<flags, upstreamVars, poolVars, poolMutex, callVars, stopVars>>

-----------------------------------------------------------------------------
(* GatewayRuntime::stop(), by any number of threads.                       *)

GotoStop(p, point) == spc' = [spc EXCEPT ![p] = point]

StopBegin(p) ==
  /\ spc[p] \in {"idle", "done", "timedOut"}
  /\ IF stopped
     THEN /\ GotoStop(p, "done")
          /\ UNCHANGED <<stopping, status, captured>>
     ELSE /\ stopping' = TRUE
          /\ status' = [u \in Upstreams |-> "stopping"]
          /\ captured' = [captured EXCEPT ![p] = service # "none"]
          /\ GotoStop(p, "notify")
  /\ UNCHANGED <<stopped, activeCalls, recorded, poolVars, poolMutex, service,
                 callVars>>

NotifyWaiters(p) ==
  /\ spc[p] = "notify"
  /\ pc' = [w \in Calls |-> IF pc[w] = "blocked" THEN "acquire" ELSE pc[w]]
  /\ GotoStop(p, "endpoint")
  /\ UNCHANGED <<flags, upstreamVars, poolVars, poolMutex, service, op, target,
                 held, cur, offer, ok, captured>>

\* A stop() that found an endpoint stops it, before it waits for the drain.
StopEndpoint(p) ==
  /\ spc[p] = "endpoint"
  /\ service' = IF captured[p] THEN "none" ELSE service
  /\ captured' = [captured EXCEPT ![p] = FALSE]
  /\ GotoStop(p, "drain")
  /\ UNCHANGED <<flags, upstreamVars, poolVars, poolMutex, callVars>>

CheckDrained(p) ==
  /\ spc[p] = "drain"
  /\ GotoStop(p, IF Drained THEN "close" ELSE "drainWait")
  /\ UNCHANGED <<flags, upstreamVars, poolVars, poolMutex, service, callVars,
                 captured>>

WakeStopUnasked(p) ==
  /\ spc[p] = "drainWait"
  /\ GotoStop(p, "drain")
  /\ UNCHANGED <<flags, upstreamVars, poolVars, poolMutex, service, callVars,
                 captured>>

DrainTimesOut(p) ==
  /\ DrainBounded
  /\ spc[p] = "drainWait"
  /\ ~Drained
  /\ GotoStop(p, "timedOut")
  /\ UNCHANGED <<flags, upstreamVars, poolVars, poolMutex, service, callVars,
                 captured>>

\* stop_persistent_sessions closes every slot, whoever uses it.
CloseSessions(p) ==
  /\ spc[p] = "close"
  /\ \A u \in Upstreams : poolMutex[u] = NoThread
  /\ session' = [u \in Upstreams |-> [s \in Slots |-> "none"]]
  /\ slotCaps' = [u \in Upstreams |-> [s \in Slots |-> "unknown"]]
  /\ GotoStop(p, "finalize")
  /\ UNCHANGED <<flags, upstreamVars, inUse, poolMutex, service, callVars,
                 captured>>

Finalize(p) ==
  /\ spc[p] = "finalize"
  /\ stopping' = FALSE
  /\ stopped' = TRUE
  /\ status' = [u \in Upstreams |-> "stopped"]
  /\ GotoStop(p, "done")
  /\ UNCHANGED <<activeCalls, recorded, poolVars, poolMutex, service, callVars,
                 captured>>

-----------------------------------------------------------------------------
\* What a thread inside an operation does next.
CallStep(t) ==
  \/ BeginCall(t) \/ RefuseSlot(t) \/ TakeSlots(t) \/ FindPoolBusy(t)
  \/ Block(t) \/ KeepSession(t) \/ Connect(t) \/ ConnectFails(t)
  \/ Initialize(t) \/ OpenSession(t) \/ RecordSession(t) \/ Answer(t)
  \/ UpstreamFails(t) \/ Discard(t) \/ Release(t) \/ Signal(t) \/ Finish(t) \/ NotifyIdle(t)
  \/ Leave(t)

\* What a thread inside stop() does next.
StopStep(p) ==
  \/ NotifyWaiters(p) \/ StopEndpoint(p) \/ CheckDrained(p)
  \/ CloseSessions(p) \/ Finalize(p)

Start(t) == StartCall(t) \/ StartRefresh(t)

Next ==
  \/ \E t \in Calls : \/ Start(t) \/ CallStep(t)
                      \/ AcquireTimesOut(t) \/ WakeUnasked(t)
  \/ \E u \in Upstreams, s \in Slots : SessionDies(u, s)
  \/ StartHttp \/ EndpointExits
  \/ \E p \in Stoppers : \/ StopBegin(p) \/ StopStep(p)
                         \/ DrainTimesOut(p) \/ WakeStopUnasked(p)

Spec == Init /\ [][Next]_vars

\* Threads are scheduled, exchanges with an upstream end (every transport has a
\* positive timeout) and a positive wait bound runs out.  Nobody has to start
\* an operation, call stop(), be woken for no reason or lose a session.
Fairness ==
  /\ \A t \in Calls : WF_vars(CallStep(t)) /\ WF_vars(AcquireTimesOut(t))
  /\ \A p \in Stoppers : WF_vars(StopStep(p)) /\ WF_vars(DrainTimesOut(p))

FairSpec == Spec /\ Fairness

-----------------------------------------------------------------------------
(* Properties.                                                             *)

\* Inside the scope of an ActiveCallGuard.
CountedPoints == {"acquire", "window", "blocked", "ensure", "connect",
                  "initialized", "opened", "use", "discard", "release",
                  "signal", "finish"}
Counted(t) == pc[t] \in CountedPoints
CountedOn(u) == {t \in Calls : Counted(t) /\ target[t] = u}

\* Inside the scope of a slot guard.
HoldPoints == {"ensure", "connect", "initialized", "opened", "use", "discard",
               "release"}

\* active_calls is exactly the number of operations between
\* begin_upstream_call and finish_upstream_call, waiters for a slot included,
\* on every path out (docs/api_contract.md:155-156): stop() drains on it.
ActiveCallsExact == \A u \in Upstreams : activeCalls[u] = Cardinality(CountedOn(u))

\* A slot marked in_use has exactly one owner and no slot is owned unmarked,
\* whatever mix of calls and whole-pool prewarms competes for the pool.
SlotOwnership ==
  /\ \A u \in Upstreams, s \in Slots :
       s \in inUse[u] <=> \E t \in Calls : target[t] = u /\ s \in held[t]
  /\ \A t, w \in Calls :
       t # w /\ target[t] = target[w] => held[t] \cap held[w] = {}

\* stop_persistent_sessions does not look at in_use: when it runs, and until
\* the runtime is marked stopped, nobody may be using a slot or be about to.
CloseFindsPoolIdle ==
  \A p \in Stoppers : spc[p] \in {"close", "finalize"} =>
    \A u \in Upstreams : inUse[u] = {} /\ CountedOn(u) = {}

\* A stopped runtime is at rest: nothing in flight, no session, no endpoint,
\* every upstream reported stopped, whichever of several stop() calls ended it.
StoppedIsQuiescent ==
  stopped =>
    /\ ~stopping
    /\ service = "none"
    /\ \A u \in Upstreams :
         /\ CountedOn(u) = {}
         /\ inUse[u] = {}
         /\ status[u] = "stopped"
         /\ \A s \in Slots : session[u][s] = "none"

\* A transient status has an author: while an upstream is reported connecting
\* (initialized), some operation is connecting to it (has initialized it and
\* has yet to record the session or, in per-call mode, is using it), so no failure path leaves the record in
\* a status nothing will move it out of.
TransientStatusHasAuthor ==
  \A u \in Upstreams :
    /\ status[u] = "connecting" => \E t \in CountedOn(u) : pc[t] = "connect"
    /\ status[u] = "initialized" =>
         \E t \in CountedOn(u) : \/ pc[t] \in {"initialized", "opened"}
                                 \/ ~Persistent /\ pc[t] = "use"

\* A pooled upstream reported degraded has a slot without a session, or a
\* holder about to discard one: the next use of that slot reconnects, so
\* degraded is repaired and never sticks to a pool of good sessions.
DegradedPoolHasBrokenSlot ==
  Persistent =>
    \A u \in Upstreams : status[u] = "degraded" =>
      \/ \E s \in Slots : session[u][s] = "none"
      \/ \E t \in CountedOn(u) : pc[t] = "discard"

\* While the pool retains a session, the upstream's recorded capabilities are
\* known, whatever failures on other slots were recorded since: the gate
\* require_*_capability never forgets an upstream it is connected to.  Only a
\* session that its holder is about to record may be ahead of the record.
RetainedSessionIsRecorded ==
  \A u \in Upstreams : \A s \in Slots : session[u][s] # "none" =>
    \/ recorded[u] # "unknown"
    \/ \E t \in CountedOn(u) : pc[t] = "opened" /\ cur[t] = s

\* Once stop() has begun no operation is admitted and no waiter is given a
\* slot, and that never ends (docs/api_contract.md:165-166).
NoWorkOnceHalting ==
  [][stopping \/ stopped =>
                /\ stopping' \/ stopped'
                /\ \A u \in Upstreams : /\ CountedOn(u)' \subseteq CountedOn(u)
                                        /\ inUse'[u] \subseteq inUse[u]]_vars

\* Every call of stop() returns, however many there are: the operations it
\* waits for end, and the last of them to end wakes every stop() that sleeps.
StopReturns ==
  \A p \in Stoppers : spc[p] = "notify" ~> spc[p] \in {"done", "timedOut"}

-----------------------------------------------------------------------------
(* What the repository says of stop() and the code does not do.            *)

\* tests/runtime_integration_tests.cpp:4918-4919: a stop() that returns a drain
\* timeout leaves the upstreams reported stopping.
DrainTimeoutLeavesStopping ==
  [][\A p \in Stoppers : spc[p] = "drainWait" /\ spc'[p] = "timedOut" =>
       \A u \in Upstreams : status[u] = "stopping"]_vars

-----------------------------------------------------------------------------
(* The runtime implements the abstract lifecycle.                          *)

phaseBar == IF stopped THEN "stopped" ELSE IF stopping THEN "stopping" ELSE "accepting"

inflightBar == {t \in Calls : Counted(t)}

Abstract == INSTANCE Lifecycle WITH phase <- phaseBar, inflight <- inflightBar

\* The runtime's steps are the abstract lifecycle's steps, or change nothing
\* the host can see of it.
ImplementsLifecycle == Abstract!LifecycleSpec

\* With an unbounded drain, a requested stop also ends.
ImplementsFairLifecycle == Abstract!FairLifecycle
=============================================================================
