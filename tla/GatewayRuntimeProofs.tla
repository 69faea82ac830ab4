------------------------ MODULE GatewayRuntimeProofs ------------------------
(***************************************************************************)
(* Theorems about GatewayRuntime, for every number of threads, stoppers,   *)
(* upstreams and slots and every combination of options: what holds of its *)
(* operations, what holds once stop() has begun and once the runtime is    *)
(* stopped, that the runtime implements Lifecycle, and that the pool of    *)
(* each upstream of a persistent runtime implements SessionPool.           *)
(***************************************************************************)
EXTENDS PoolRefinement, FiniteSetTheorems, TLAPS

(***************************************************************************)
(* Operations and their slots.                                             *)
(***************************************************************************)

-----------------------------------------------------------------------------
(* Type correctness.                                                       *)

LEMMA FirstUpstreamAndSlot == 1 \in Upstreams /\ 1 \in Slots
  BY SizesAssumption DEF Upstreams, Slots

LEMMA NextSlot ==
  ASSUME NEW s \in Slots, s < PoolSize PROVE s + 1 \in Slots
  BY SizesAssumption DEF Slots

LEMMA NextUpstream ==
  ASSUME NEW u \in Upstreams, u < UpstreamCount PROVE u + 1 \in Upstreams
  BY SizesAssumption DEF Upstreams

LEMMA InitTypeOK == Init => TypeOK
<1> SUFFICES ASSUME Init PROVE TypeOK
  OBVIOUS
<1>1. /\ status \in [Upstreams -> Statuses]
      /\ activeCalls \in [Upstreams -> Nat]
      /\ recorded \in [Upstreams -> Capabilities]
      /\ inUse \in [Upstreams -> SUBSET Slots]
      /\ poolMutex \in [Upstreams -> Calls \cup {NoThread}]
  BY DEF Init, Statuses, Capabilities
<1>2. /\ session \in [Upstreams -> [Slots -> {"none", "live", "dead"}]]
      /\ slotCaps \in [Upstreams -> [Slots -> Capabilities]]
  BY DEF Init, Capabilities
<1>3. /\ pc \in [Calls -> CallPoints]
      /\ op \in [Calls -> {"call", "refresh"}]
      /\ target \in [Calls -> Upstreams]
      /\ held \in [Calls -> SUBSET Slots]
      /\ cur \in [Calls -> Slots]
      /\ offer \in [Calls -> Capabilities]
      /\ ok \in [Calls -> BOOLEAN]
  BY FirstUpstreamAndSlot DEF Init, CallPoints, Capabilities
<1>4. spc \in [Stoppers -> StopPoints] /\ captured \in [Stoppers -> BOOLEAN]
  BY DEF Init, StopPoints
<1> QED
  BY <1>1, <1>2, <1>3, <1>4 DEF Init, TypeOK

LEMMA SetSessionType ==
  ASSUME TypeOK, NEW u \in Upstreams, NEW s \in Slots,
         NEW state \in {"none", "live"}, NEW c \in Capabilities,
         SetSession(u, s, state, c)
  PROVE  /\ session' \in [Upstreams -> [Slots -> {"none", "live", "dead"}]]
         /\ slotCaps' \in [Upstreams -> [Slots -> Capabilities]]
  BY DEF TypeOK, SetSession

LEMMA ProceedType ==
  ASSUME TypeOK, NEW t \in Calls, Proceed(t)
  PROVE  pc' \in [Calls -> CallPoints] /\ cur' \in [Calls -> Slots]
<1>1. pc \in [Calls -> CallPoints] /\ cur \in [Calls -> Slots]
  BY DEF TypeOK
<1>2. \E there \in CallPoints : pc' = [pc EXCEPT ![t] = there]
  BY DEF Proceed, CallPoints, Goto
<1>3. pc' \in [Calls -> CallPoints]
  BY <1>1, <1>2
<1>4. CASE cur' = cur
  BY <1>1, <1>3, <1>4
<1>5. CASE cur[t] < PoolSize /\ cur' = [cur EXCEPT ![t] = cur[t] + 1]
  <2>1. cur[t] + 1 \in Slots
    BY <1>1, <1>5, NextSlot
  <2> QED
    BY <1>1, <1>3, <1>5, <2>1
<1> QED
  BY <1>4, <1>5 DEF Proceed

LEMMA BeginCallType ==
  ASSUME TypeOK, NEW t \in Calls, BeginCall(t)
  PROVE  TypeOK'
<1>1. /\ UNCHANGED <<stopping, stopped, status, recorded, inUse, session, slotCaps,
                      poolMutex, service, op, target, held, cur, offer, spc,
                      captured>>
      /\ \/ /\ pc' = [pc EXCEPT ![t] = "leave"]
            /\ ok' = [ok EXCEPT ![t] = FALSE]
            /\ activeCalls' = activeCalls
         \/ /\ pc' = [pc EXCEPT ![t] = IF Persistent THEN "acquire" ELSE "ensure"]
            /\ ok' = ok
            /\ activeCalls' = [activeCalls EXCEPT ![target[t]] = @ + 1]
  BY DEF BeginCall, Goto, flags, poolVars, stopVars
<1>2. pc' \in [Calls -> CallPoints]
  <2>1. \E there \in CallPoints : pc' = [pc EXCEPT ![t] = there]
    BY <1>1 DEF CallPoints
  <2> QED
    BY <2>1 DEF TypeOK
<1>3. ok' \in [Calls -> BOOLEAN]
  BY <1>1 DEF TypeOK
<1>4. activeCalls' \in [Upstreams -> Nat]
  <2>1. activeCalls \in [Upstreams -> Nat] /\ target[t] \in Upstreams
    BY DEF TypeOK
  <2>2. activeCalls[target[t]] + 1 \in Nat
    BY <2>1
  <2> QED
    BY <1>1, <2>1, <2>2
<1> QED
  BY <1>1, <1>2, <1>3, <1>4 DEF TypeOK

\* A step of a call thread keeps the types.
LEMMA CallTypeOK ==
  ASSUME TypeOK, NEW t \in Calls,
         Start(t) \/ CallStep(t) \/ AcquireTimesOut(t) \/ WakeUnasked(t)
  PROVE  TypeOK'
<1> USE OptionsAssumption DEF TypeOK, flags, upstreamVars,
        poolVars, stopVars, Statuses, Capabilities, CallPoints, StopPoints, Goto
<1>1. CASE Start(t)
  <2>1. PICK kind \in {"call", "refresh"}, u \in Upstreams : Enter(t, kind, u)
    BY <1>1, FirstUpstreamAndSlot DEF Start, StartCall, StartRefresh
  <2> QED
    BY <2>1 DEF Enter
<1>2. CASE BeginCall(t)
  BY <1>2, BeginCallType
<1>3. CASE RefuseSlot(t)
  BY <1>3 DEF RefuseSlot
<1>4. CASE TakeSlots(t)
  BY <1>4 DEF TakeSlots
<1>5. CASE FindPoolBusy(t)
  BY <1>5 DEF FindPoolBusy
<1>6. CASE Block(t)
  BY <1>6 DEF Block
<1>7. CASE KeepSession(t)
  <2>1. slotCaps[target[t]][cur[t]] \in Capabilities
    OBVIOUS
  <2>2. offer' \in [Calls -> Capabilities]
    BY <1>7, <2>1 DEF KeepSession
  <2> QED
    BY <1>7, <2>2, ProceedType DEF KeepSession
<1>8. CASE Connect(t)
  <2>1. /\ session' \in [Upstreams -> [Slots -> {"none", "live", "dead"}]]
        /\ slotCaps' \in [Upstreams -> [Slots -> Capabilities]]
    <3>1. CASE Persistent
      <4>1. SetSession(target[t], cur[t], "none", "unknown")
        BY <1>8, <3>1 DEF Connect
      <4> QED
        BY <4>1, SetSessionType
    <3>2. CASE ~Persistent
      BY <1>8, <3>2 DEF Connect
    <3> QED
      BY <3>1, <3>2
  <2> QED
    BY <1>8, <2>1 DEF Connect, SetStatus
<1>9. CASE ConnectFails(t)
  BY <1>9 DEF ConnectFails, MarkDegraded, SetStatus, AfterFailure
<1>10. CASE Initialize(t)
  BY <1>10 DEF Initialize, SetStatus
<1>11. CASE OpenSession(t)
  <2>1. /\ session' \in [Upstreams -> [Slots -> {"none", "live", "dead"}]]
        /\ slotCaps' \in [Upstreams -> [Slots -> Capabilities]]
    <3>1. CASE Persistent
      <4>1. SetSession(target[t], cur[t], "live", offer[t])
        BY <1>11, <3>1 DEF OpenSession
      <4>2. offer[t] \in Capabilities /\ target[t] \in Upstreams /\ cur[t] \in Slots
        OBVIOUS
      <4> QED
        BY <4>1, <4>2, SetSessionType
    <3>2. CASE ~Persistent
      BY <1>11, <3>2 DEF OpenSession
    <3> QED
      BY <3>1, <3>2
  <2>2. pc' = [pc EXCEPT ![t] = "opened"] \/ pc' = [pc EXCEPT ![t] = "use"]
    BY <1>11 DEF OpenSession
  <2>3. pc' \in [Calls -> CallPoints]
    BY <2>2
  <2>4. UNCHANGED <<flags, upstreamVars, inUse, poolMutex, service, op, target, held,
                    cur, offer, ok, stopVars>>
    BY <1>11 DEF OpenSession
  <2> QED
    BY <2>1, <2>3, <2>4
<1>22. CASE RecordSession(t)
  <2>1. /\ status' \in [Upstreams -> Statuses]
        /\ recorded' \in [Upstreams -> Capabilities]
    BY <1>22 DEF RecordSession, MarkHealthy, SetStatus
  <2>2. pc' \in [Calls -> CallPoints] /\ cur' \in [Calls -> Slots]
    BY <1>22, ProceedType DEF RecordSession
  <2>3. UNCHANGED <<flags, activeCalls, poolVars, poolMutex, service, op, target,
                    held, offer, ok, stopVars>>
    BY <1>22 DEF RecordSession
  <2> QED
    BY <2>1, <2>2, <2>3
<1>12. CASE Answer(t)
  BY <1>12 DEF Answer, MarkHealthy, SetStatus
<1>13. CASE UpstreamFails(t)
  BY <1>13 DEF UpstreamFails, MarkDegraded, SetStatus, AfterFailure
<1>14. CASE Discard(t)
  BY <1>14, SetSessionType DEF Discard
<1>15. CASE Release(t)
  BY <1>15 DEF Release, StillUsed
<1>16. CASE Signal(t)
  BY <1>16 DEF Signal
<1>17. CASE Finish(t)
  BY <1>17 DEF Finish
<1>18. CASE NotifyIdle(t)
  BY <1>18 DEF NotifyIdle
<1>19. CASE Leave(t)
  BY <1>19, FirstUpstreamAndSlot, NextUpstream DEF Leave
<1>20. CASE AcquireTimesOut(t)
  BY <1>20 DEF AcquireTimesOut
<1>21. CASE WakeUnasked(t)
  BY <1>21 DEF WakeUnasked
<1> QED
  BY <1>1, <1>2, <1>3, <1>4, <1>5, <1>6, <1>7, <1>8, <1>9, <1>10, <1>11, <1>12,
     <1>13, <1>14, <1>15, <1>16, <1>17, <1>18, <1>19, <1>20, <1>21, <1>22
  DEF CallStep

\* So does a step of stop().
LEMMA StopTypeOK ==
  ASSUME TypeOK, NEW p \in Stoppers,
         StopBegin(p) \/ StopStep(p) \/ DrainTimesOut(p) \/ WakeStopUnasked(p)
  PROVE  TypeOK'
<1> USE DEF TypeOK, flags, upstreamVars, poolVars, callVars, Statuses,
        Capabilities, CallPoints, StopPoints, GotoStop
<1>1. CASE StopBegin(p)
  <2>1. UNCHANGED <<stopped, activeCalls, recorded, poolVars, poolMutex, service,
                    callVars>>
    BY <1>1 DEF StopBegin
  <2>2. CASE stopped
    <3>1. spc' = [spc EXCEPT ![p] = "done"] /\ UNCHANGED <<stopping, status, captured>>
      BY <1>1, <2>2 DEF StopBegin
    <3>2. spc' \in [Stoppers -> StopPoints]
      BY <3>1
    <3> QED
      BY <2>1, <3>1, <3>2
  <2>3. CASE ~stopped
    <3>1. /\ stopping' \in BOOLEAN
          /\ status' \in [Upstreams -> Statuses]
          /\ captured' = [captured EXCEPT ![p] = service # "none"]
          /\ spc' = [spc EXCEPT ![p] = "notify"]
      BY <1>1, <2>3 DEF StopBegin
    <3>2. /\ spc' \in [Stoppers -> StopPoints]
          /\ captured' \in [Stoppers -> BOOLEAN]
      BY <3>1
    <3> QED
      BY <2>1, <3>1, <3>2
  <2> QED
    BY <2>2, <2>3
<1>2. CASE NotifyWaiters(p)
  <2>1. /\ pc' \in [Calls -> CallPoints]
        /\ spc' \in [Stoppers -> StopPoints]
    BY <1>2 DEF NotifyWaiters
  <2>2. UNCHANGED <<flags, upstreamVars, poolVars, poolMutex, service, op, target,
                    held, cur, offer, ok, captured>>
    BY <1>2 DEF NotifyWaiters
  <2> QED
    BY <2>1, <2>2
<1>3. CASE StopEndpoint(p)
  BY <1>3 DEF StopEndpoint
<1>4. CASE CheckDrained(p)
  BY <1>4 DEF CheckDrained
<1>5. CASE CloseSessions(p)
  BY <1>5 DEF CloseSessions
<1>6. CASE Finalize(p)
  BY <1>6 DEF Finalize
<1>7. CASE DrainTimesOut(p)
  BY <1>7 DEF DrainTimesOut
<1>8. CASE WakeStopUnasked(p)
  BY <1>8 DEF WakeStopUnasked
<1> QED
  BY <1>1, <1>2, <1>3, <1>4, <1>5, <1>6, <1>7, <1>8 DEF StopStep

LEMMA StepTypeOK == ASSUME TypeOK, [Next]_vars PROVE TypeOK'
<1>1. CASE UNCHANGED vars
  BY <1>1 DEF TypeOK, vars, flags, upstreamVars, poolVars, callVars, stopVars
<1>2. ASSUME NEW u \in Upstreams, NEW s \in Slots, SessionDies(u, s)
      PROVE  TypeOK'
  BY <1>2 DEF TypeOK, SessionDies, flags, upstreamVars, callVars, stopVars
<1>3. CASE StartHttp \/ EndpointExits
  BY <1>3 DEF TypeOK, StartHttp, EndpointExits, flags, upstreamVars, poolVars,
     callVars, stopVars
<1> QED
  BY <1>1, <1>2, <1>3, CallTypeOK, StopTypeOK DEF Next

\* Every reachable state is of the declared type: in particular a prewarm
\* never walks past the last slot and a refresh never past the last upstream.
THEOREM TypeCorrect == Spec => []TypeOK
  BY InitTypeOK, StepTypeOK, PTL DEF Spec

-----------------------------------------------------------------------------
(* Slots, mutexes and the count of active calls.                           *)

\* Only a thread between the predicate and the block holds a pool's mutex
\* across steps, and it holds the one of its own upstream.
MutexHeld ==
  \A t \in Calls, u \in Upstreams :
    poolMutex[u] = t <=> pc[t] = "window" /\ target[t] = u

PoolPoints == {"acquire", "window", "blocked", "opened", "discard", "release",
               "signal"}

PoolOnlyIfPersistent ==
  \A t \in Calls : pc[t] \in PoolPoints => Persistent

\* Slots are owned only inside the scope of a slot guard.
HoldersOnly ==
  \A t \in Calls : held[t] # {} => Persistent /\ pc[t] \in HoldPoints

ThreadInv == /\ TypeOK
             /\ MutexHeld
             /\ PoolOnlyIfPersistent
             /\ HoldersOnly
             /\ SlotOwnership
             /\ ActiveCallsExact

\* What all steps but six have in common: slots, mutexes and counts are left
\* alone, and no thread crosses a border that ThreadInv watches.
PoolFrame ==
  /\ UNCHANGED <<inUse, held, poolMutex, activeCalls>>
  /\ \A w \in Calls :
       /\ pc[w] = "window" <=> pc'[w] = "window"
       /\ Persistent /\ pc[w] \in HoldPoints => pc'[w] \in HoldPoints
       /\ pc[w] \in CountedPoints <=> pc'[w] \in CountedPoints
       /\ target'[w] # target[w] => pc[w] \notin CountedPoints
       /\ ~Persistent /\ pc'[w] \in PoolPoints => pc[w] \in PoolPoints

\* The six steps.
CrossingStep(t) ==
  \/ ~Halting /\ BeginCall(t)
  \/ TakeSlots(t) \/ FindPoolBusy(t) \/ Block(t) \/ Release(t) \/ Finish(t)

LEMMA CallFrame ==
  ASSUME TypeOK, PoolOnlyIfPersistent, NEW t \in Calls,
         Start(t) \/ CallStep(t) \/ AcquireTimesOut(t) \/ WakeUnasked(t)
  PROVE  PoolFrame \/ CrossingStep(t)
<1> USE DEF TypeOK, PoolFrame, CrossingStep, HoldPoints, CountedPoints,
        PoolPoints, flags, upstreamVars, poolVars, stopVars, Goto
<1>1. CASE Start(t)
  BY <1>1 DEF Start, StartCall, StartRefresh, Enter
<1>2. CASE Halting /\ BeginCall(t)
  BY <1>2 DEF BeginCall
<1>3. CASE RefuseSlot(t)
  BY <1>3 DEF RefuseSlot, AtPool
<1>4. CASE KeepSession(t)
  BY <1>4 DEF KeepSession, Proceed
<1>5. CASE Connect(t)
  BY <1>5 DEF Connect
<1>6. CASE ConnectFails(t)
  BY <1>6 DEF ConnectFails, AfterFailure
<1>7. CASE Initialize(t)
  BY <1>7 DEF Initialize
<1>8. CASE OpenSession(t)
  BY <1>8 DEF OpenSession
<1>17. CASE RecordSession(t)
  <2>1. \E there \in {"use", "ensure", "release"} : pc' = [pc EXCEPT ![t] = there]
    BY <1>17 DEF RecordSession, Proceed
  <2>2. pc[t] = "opened" /\ UNCHANGED <<inUse, held, poolMutex, activeCalls, target>>
    BY <1>17 DEF RecordSession
  <2>3. \A w \in Calls : w # t => pc'[w] = pc[w]
    BY <2>1
  <2>4. pc'[t] \in {"use", "ensure", "release"}
    BY <2>1
  <2>5. Persistent
    BY <2>2 DEF PoolOnlyIfPersistent
  <2> QED
    BY <2>2, <2>3, <2>4, <2>5
<1>9. CASE Answer(t)
  BY <1>9 DEF Answer
<1>10. CASE UpstreamFails(t)
  BY <1>10 DEF UpstreamFails, AfterFailure
<1>11. CASE Discard(t)
  BY <1>11 DEF Discard
<1>12. CASE Signal(t)
  BY <1>12 DEF Signal, Sleepers
<1>13. CASE NotifyIdle(t)
  BY <1>13 DEF NotifyIdle
<1>14. CASE Leave(t)
  BY <1>14 DEF Leave
<1>15. CASE AcquireTimesOut(t)
  BY <1>15 DEF AcquireTimesOut
<1>16. CASE WakeUnasked(t)
  BY <1>16 DEF WakeUnasked
<1> QED
  BY <1>1, <1>2, <1>3, <1>4, <1>5, <1>6, <1>7, <1>8, <1>9, <1>10, <1>11, <1>12,
     <1>13, <1>14, <1>15, <1>16, <1>17
  DEF CallStep

LEMMA StopFrame ==
  ASSUME TypeOK, NEW p \in Stoppers,
         StopBegin(p) \/ StopStep(p) \/ DrainTimesOut(p) \/ WakeStopUnasked(p)
  PROVE  PoolFrame
<1> USE DEF TypeOK, PoolFrame, HoldPoints, CountedPoints, PoolPoints, flags,
        upstreamVars, poolVars, callVars
<1>1. CASE NotifyWaiters(p)
  <2>1. \A w \in Calls :
          pc'[w] = pc[w] \/ (pc[w] = "blocked" /\ pc'[w] = "acquire")
    BY <1>1 DEF NotifyWaiters
  <2> QED
    BY <1>1, <2>1 DEF NotifyWaiters
<1>2. CASE StopBegin(p) \/ DrainTimesOut(p) \/ WakeStopUnasked(p)
  BY <1>2 DEF StopBegin, DrainTimesOut, WakeStopUnasked
<1>3. CASE StopEndpoint(p) \/ CheckDrained(p) \/ CloseSessions(p) \/ Finalize(p)
  BY <1>3 DEF StopEndpoint, CheckDrained, CloseSessions, Finalize
<1> QED
  BY <1>1, <1>2, <1>3 DEF StopStep

LEMMA StepFrame ==
  ASSUME TypeOK, PoolOnlyIfPersistent, [Next]_vars
  PROVE  PoolFrame \/ \E t \in Calls : CrossingStep(t)
<1>1. CASE UNCHANGED vars
  BY <1>1 DEF PoolFrame, vars, upstreamVars, poolVars, callVars
<1>2. ASSUME NEW u \in Upstreams, NEW s \in Slots, SessionDies(u, s)
      PROVE  PoolFrame
  BY <1>2 DEF SessionDies, PoolFrame, upstreamVars, callVars
<1>3. CASE StartHttp \/ EndpointExits
  BY <1>3 DEF StartHttp, EndpointExits, PoolFrame, upstreamVars, poolVars, callVars
<1> QED
  BY <1>1, <1>2, <1>3, CallFrame, StopFrame DEF Next

\* The count of active calls follows the set of counted threads.
LEMMA CountedFinite ==
  ASSUME NEW u \in Upstreams PROVE IsFiniteSet(CountedOn(u))
  BY ThreadsAssumption, FS_Subset DEF CountedOn

LEMMA FrameKeepsCounted ==
  ASSUME PoolFrame, NEW u \in Upstreams
  PROVE  CountedOn(u)' = CountedOn(u)
  BY DEF PoolFrame, CountedOn, Counted, CountedPoints

LEMMA FrameKeepsThreadInv ==
  ASSUME ThreadInv, TypeOK', PoolFrame
  PROVE  ThreadInv'
<1>1. MutexHeld'
  BY DEF ThreadInv, MutexHeld, PoolFrame, CountedPoints
<1>2. PoolOnlyIfPersistent'
  BY DEF ThreadInv, PoolOnlyIfPersistent, PoolFrame
<1>3. HoldersOnly'
  BY DEF ThreadInv, HoldersOnly, PoolFrame
<1>4. \A w \in Calls : held[w] # {} => target'[w] = target[w]
  BY DEF ThreadInv, HoldersOnly, HoldPoints, PoolFrame, CountedPoints
<1>5. SlotOwnership'
  <2>1. ASSUME NEW u \in Upstreams, NEW s \in Slots
        PROVE  (s \in inUse[u] <=> \E t \in Calls : target[t] = u /\ s \in held[t])'
    BY <1>4 DEF ThreadInv, SlotOwnership, PoolFrame
  <2>2. ASSUME NEW t \in Calls, NEW w \in Calls, t # w, target'[t] = target'[w]
        PROVE  held'[t] \cap held'[w] = {}
    BY <1>4, <2>2 DEF ThreadInv, SlotOwnership, PoolFrame
  <2> QED
    BY <2>1, <2>2 DEF SlotOwnership
<1>6. ActiveCallsExact'
  BY FrameKeepsCounted DEF ThreadInv, ActiveCallsExact, PoolFrame
<1> QED
  BY <1>1, <1>2, <1>3, <1>5, <1>6 DEF ThreadInv

LEMMA BeginKeepsThreadInv ==
  ASSUME ThreadInv, TypeOK', NEW t \in Calls, ~Halting, BeginCall(t)
  PROVE  ThreadInv'
<1> DEFINE u == target[t]
<1>1. /\ UNCHANGED <<inUse, held, poolMutex, target>>
      /\ activeCalls' = [activeCalls EXCEPT ![u] = @ + 1]
      /\ pc[t] = "begin"
      /\ pc' = [pc EXCEPT ![t] = IF Persistent THEN "acquire" ELSE "ensure"]
  BY DEF BeginCall, Goto, poolVars
<1>2. pc'[t] \in {"acquire", "ensure"} /\ (pc'[t] = "acquire" => Persistent)
  BY <1>1 DEF ThreadInv, TypeOK
<1>3. \A w \in Calls : w # t => pc'[w] = pc[w]
  BY <1>1 DEF ThreadInv, TypeOK
<1>4. MutexHeld' /\ PoolOnlyIfPersistent'
  BY <1>1, <1>2, <1>3 DEF ThreadInv, MutexHeld, PoolOnlyIfPersistent, PoolPoints
<1>5. HoldersOnly'
  BY <1>1, <1>3 DEF ThreadInv, HoldersOnly, HoldPoints
<1>6. SlotOwnership'
  BY <1>1 DEF ThreadInv, SlotOwnership
<1>7. ActiveCallsExact'
  <2> SUFFICES ASSUME NEW v \in Upstreams
               PROVE  activeCalls'[v] = Cardinality(CountedOn(v)')
    BY DEF ActiveCallsExact
  <2>1. CASE v = u
    <3>1. CountedOn(v)' = CountedOn(v) \cup {t} /\ t \notin CountedOn(v)
      BY <1>1, <1>2, <1>3, <2>1 DEF CountedOn, Counted, CountedPoints
    <3>2. Cardinality(CountedOn(v)') = Cardinality(CountedOn(v)) + 1
      BY <3>1, CountedFinite, FS_AddElement
    <3> QED
      BY <1>1, <2>1, <3>2 DEF ThreadInv, ActiveCallsExact, TypeOK
  <2>2. CASE v # u
    <3>1. CountedOn(v)' = CountedOn(v)
      BY <1>1, <1>3, <2>2 DEF CountedOn, Counted
    <3> QED
      BY <1>1, <2>2, <3>1 DEF ThreadInv, ActiveCallsExact, TypeOK
  <2> QED
    BY <2>1, <2>2
<1> QED
  BY <1>4, <1>5, <1>6, <1>7 DEF ThreadInv

LEMMA FinishKeepsThreadInv ==
  ASSUME ThreadInv, TypeOK', NEW t \in Calls, Finish(t)
  PROVE  ThreadInv'
<1> DEFINE u == target[t]
<1>1. /\ UNCHANGED <<inUse, held, poolMutex, target>>
      /\ activeCalls' = [activeCalls EXCEPT ![u] = IF @ > 0 THEN @ - 1 ELSE @]
      /\ pc[t] = "finish"
      /\ \E there \in {"notifyIdle", "leave"} : pc' = [pc EXCEPT ![t] = there]
  BY DEF Finish, Goto, poolVars
<1>2. pc'[t] \in {"notifyIdle", "leave"}
  BY <1>1 DEF ThreadInv, TypeOK
<1>3. \A w \in Calls : w # t => pc'[w] = pc[w]
  BY <1>1 DEF ThreadInv, TypeOK
<1>4. MutexHeld' /\ PoolOnlyIfPersistent'
  BY <1>1, <1>2, <1>3 DEF ThreadInv, MutexHeld, PoolOnlyIfPersistent, PoolPoints
<1>5. HoldersOnly'
  BY <1>1, <1>3 DEF ThreadInv, HoldersOnly, HoldPoints
<1>6. SlotOwnership'
  BY <1>1 DEF ThreadInv, SlotOwnership
<1>7. ActiveCallsExact'
  <2> SUFFICES ASSUME NEW v \in Upstreams
               PROVE  activeCalls'[v] = Cardinality(CountedOn(v)')
    BY DEF ActiveCallsExact
  <2>1. CASE v = u
    <3>1. CountedOn(v)' = CountedOn(v) \ {t} /\ t \in CountedOn(v)
      BY <1>1, <1>2, <1>3, <2>1 DEF CountedOn, Counted, CountedPoints
    <3>2. /\ Cardinality(CountedOn(v)') = Cardinality(CountedOn(v)) - 1
          /\ Cardinality(CountedOn(v)) \in Nat
      BY <3>1, CountedFinite, FS_RemoveElement, FS_CardinalityType
    <3>3. Cardinality(CountedOn(v)) # 0
      BY <3>1, CountedFinite, FS_EmptySet
    <3> QED
      BY <1>1, <2>1, <3>2, <3>3 DEF ThreadInv, ActiveCallsExact, TypeOK
  <2>2. CASE v # u
    <3>1. CountedOn(v)' = CountedOn(v)
      BY <1>1, <1>3, <2>2 DEF CountedOn, Counted
    <3> QED
      BY <1>1, <2>2, <3>1 DEF ThreadInv, ActiveCallsExact, TypeOK
  <2> QED
    BY <2>1, <2>2
<1> QED
  BY <1>4, <1>5, <1>6, <1>7 DEF ThreadInv

\* Entering and leaving the window changes no slot and no count.
LEMMA WindowKeepsThreadInv ==
  ASSUME ThreadInv, TypeOK', NEW t \in Calls, FindPoolBusy(t) \/ Block(t)
  PROVE  ThreadInv'
<1> USE DEF ThreadInv, TypeOK, Goto, poolVars, upstreamVars
<1>1. UNCHANGED <<inUse, held, target, activeCalls>>
  BY DEF FindPoolBusy, Block
<1>2. \A w \in Calls : w # t => pc'[w] = pc[w]
  BY DEF FindPoolBusy, Block
<1>3. MutexHeld'
  <2>1. CASE FindPoolBusy(t)
    <3>1. /\ poolMutex[target[t]] = NoThread
          /\ poolMutex' = [poolMutex EXCEPT ![target[t]] = t]
          /\ pc'[t] = "window"
      BY <2>1 DEF FindPoolBusy, AtPool
    <3> QED
      BY <1>1, <1>2, <3>1, ThreadsAssumption DEF MutexHeld
  <2>2. CASE Block(t)
    <3>1. /\ pc[t] = "window"
          /\ poolMutex' = [poolMutex EXCEPT ![target[t]] = NoThread]
          /\ pc'[t] = "blocked"
      BY <2>2 DEF Block
    <3> QED
      BY <1>1, <1>2, <3>1, ThreadsAssumption DEF MutexHeld
  <2> QED
    BY <2>1, <2>2
<1>4. /\ pc[t] \in PoolPoints \cap CountedPoints /\ pc[t] \notin HoldPoints
      /\ pc'[t] \in PoolPoints \cap CountedPoints
  BY DEF FindPoolBusy, Block, AtPool, PoolPoints, CountedPoints, HoldPoints
<1>5. PoolOnlyIfPersistent' /\ HoldersOnly'
  BY <1>1, <1>2, <1>4 DEF PoolOnlyIfPersistent, HoldersOnly
<1>6. SlotOwnership'
  BY <1>1 DEF SlotOwnership
<1>7. \A u \in Upstreams : CountedOn(u)' = CountedOn(u)
  BY <1>1, <1>2, <1>4 DEF CountedOn, Counted
<1>8. ActiveCallsExact'
  BY <1>1, <1>7 DEF ActiveCallsExact
<1> QED
  BY <1>3, <1>5, <1>6, <1>8

LEMMA TakeKeepsThreadInv ==
  ASSUME ThreadInv, TypeOK', NEW t \in Calls, TakeSlots(t)
  PROVE  ThreadInv'
<1> DEFINE u == target[t]
<1> USE DEF ThreadInv, TypeOK
<1>1. /\ UNCHANGED <<poolMutex, target, activeCalls>>
      /\ pc[t] = "acquire"
      /\ pc' = [pc EXCEPT ![t] = "ensure"]
  BY DEF TakeSlots, AtPool, Goto, upstreamVars
<1>2. PICK taken \in SUBSET Slots :
        /\ held' = [held EXCEPT ![t] = taken]
        /\ inUse' = [inUse EXCEPT ![u] = @ \cup taken]
        /\ taken \cap inUse[u] = {}
  <2>1. PICK s \in Slots \ inUse[u] :
          LET taken == IF op[t] = "call" THEN {s} ELSE Slots IN
            /\ held' = [held EXCEPT ![t] = taken]
            /\ inUse' = [inUse EXCEPT ![u] = @ \cup taken]
    BY DEF TakeSlots
  <2>2. op[t] # "call" => inUse[u] = {}
    BY DEF TakeSlots, SlotsAvailable
  <2>3. CASE op[t] = "call"
    <3>1. /\ held' = [held EXCEPT ![t] = {s}]
          /\ inUse' = [inUse EXCEPT ![u] = @ \cup {s}]
      BY <2>1, <2>3
    <3>2. {s} \in SUBSET Slots /\ {s} \cap inUse[u] = {}
      OBVIOUS
    <3> QED
      BY <3>1, <3>2
  <2>4. CASE op[t] # "call"
    <3>1. /\ held' = [held EXCEPT ![t] = Slots]
          /\ inUse' = [inUse EXCEPT ![u] = @ \cup Slots]
      BY <2>1, <2>4
    <3>2. Slots \cap inUse[u] = {}
      BY <2>2, <2>4
    <3> QED
      BY <3>1, <3>2
  <2> QED
    BY <2>3, <2>4
<1>3. held[t] = {} /\ Persistent
  BY <1>1 DEF HoldersOnly, HoldPoints, PoolOnlyIfPersistent, PoolPoints
<1>4. MutexHeld' /\ PoolOnlyIfPersistent'
  BY <1>1 DEF MutexHeld, PoolOnlyIfPersistent, PoolPoints
<1>5. HoldersOnly'
  BY <1>1, <1>2, <1>3 DEF HoldersOnly, HoldPoints
<1>6. SlotOwnership'
  <2>1. ASSUME NEW v \in Upstreams, NEW s \in Slots
        PROVE  (s \in inUse[v] <=> \E w \in Calls : target[w] = v /\ s \in held[w])'
    BY <1>1, <1>2, <1>3 DEF SlotOwnership
  <2>2. ASSUME NEW x \in Calls, NEW w \in Calls, x # w, target'[x] = target'[w]
        PROVE  held'[x] \cap held'[w] = {}
    <3>1. \A y \in Calls : y # t /\ target[y] = u => held[y] \cap taken = {}
      BY <1>2 DEF SlotOwnership
    <3> QED
      BY <1>1, <1>2, <2>2, <3>1 DEF SlotOwnership
  <2> QED
    BY <2>1, <2>2 DEF SlotOwnership
<1>7. \A v \in Upstreams : CountedOn(v)' = CountedOn(v)
  BY <1>1 DEF CountedOn, Counted, CountedPoints
<1>8. ActiveCallsExact'
  BY <1>1, <1>7 DEF ActiveCallsExact
<1> QED
  BY <1>4, <1>5, <1>6, <1>8

LEMMA ReleaseKeepsThreadInv ==
  ASSUME ThreadInv, TypeOK', NEW t \in Calls, Release(t)
  PROVE  ThreadInv'
<1> DEFINE u == target[t]
<1> USE DEF ThreadInv, TypeOK
<1>1. /\ UNCHANGED <<poolMutex, target, activeCalls>>
      /\ pc[t] = "release"
      /\ pc' = [pc EXCEPT ![t] = "signal"]
      /\ held' = [held EXCEPT ![t] = {}]
      /\ inUse' = [inUse EXCEPT ![u] = inUse[u] \ held[t]]
  BY DEF Release, StillUsed, Goto, upstreamVars
<1>2. MutexHeld' /\ PoolOnlyIfPersistent' /\ HoldersOnly'
  BY <1>1 DEF MutexHeld, PoolOnlyIfPersistent, PoolPoints, HoldersOnly
<1>3. SlotOwnership'
  <2>1. ASSUME NEW v \in Upstreams, NEW s \in Slots
        PROVE  (s \in inUse[v] <=> \E w \in Calls : target[w] = v /\ s \in held[w])'
    <3>1. \A w \in Calls : w # t /\ target[w] = u => held[w] \cap held[t] = {}
      BY DEF SlotOwnership
    <3> QED
      BY <1>1, <3>1 DEF SlotOwnership
  <2>2. ASSUME NEW x \in Calls, NEW w \in Calls, x # w, target'[x] = target'[w]
        PROVE  held'[x] \cap held'[w] = {}
    BY <1>1, <2>2 DEF SlotOwnership
  <2> QED
    BY <2>1, <2>2 DEF SlotOwnership
<1>4. \A v \in Upstreams : CountedOn(v)' = CountedOn(v)
  BY <1>1 DEF CountedOn, Counted, CountedPoints
<1>5. ActiveCallsExact'
  BY <1>1, <1>4 DEF ActiveCallsExact
<1> QED
  BY <1>2, <1>3, <1>5

LEMMA InitThreadInv == Init => ThreadInv
<1> SUFFICES ASSUME Init PROVE ThreadInv
  OBVIOUS
<1>1. TypeOK
  BY InitTypeOK
<1>2. MutexHeld /\ PoolOnlyIfPersistent /\ HoldersOnly /\ SlotOwnership
  BY ThreadsAssumption DEF Init, MutexHeld, PoolOnlyIfPersistent, PoolPoints,
     HoldersOnly, SlotOwnership
<1>3. \A u \in Upstreams : CountedOn(u) = {}
  BY DEF Init, CountedOn, Counted, CountedPoints
<1>4. ActiveCallsExact
  BY <1>3, FS_EmptySet DEF Init, ActiveCallsExact
<1> QED
  BY <1>1, <1>2, <1>4 DEF ThreadInv

LEMMA StepThreadInv == ASSUME ThreadInv, [Next]_vars PROVE ThreadInv'
<1>1. TypeOK'
  BY StepTypeOK DEF ThreadInv
<1>2. PoolFrame \/ \E t \in Calls : CrossingStep(t)
  BY StepFrame DEF ThreadInv
<1>3. ASSUME NEW t \in Calls, CrossingStep(t) PROVE ThreadInv'
  BY <1>1, <1>3, BeginKeepsThreadInv, FinishKeepsThreadInv, WindowKeepsThreadInv,
     TakeKeepsThreadInv, ReleaseKeepsThreadInv DEF CrossingStep
<1> QED
  BY <1>1, <1>2, <1>3, FrameKeepsThreadInv

\* Each slot marked in_use has exactly one owner (runtime.cpp:603-684).
THEOREM SlotsOwned == Spec => []SlotOwnership
<1>1. ThreadInv => SlotOwnership
  BY DEF ThreadInv
<1> QED
  BY <1>1, InitThreadInv, StepThreadInv, PTL DEF Spec

\* active_calls counts exactly the operations in flight (runtime.cpp:326-357).
THEOREM CallsCounted == Spec => []ActiveCallsExact
<1>1. ThreadInv => ActiveCallsExact
  BY DEF ThreadInv
<1> QED
  BY <1>1, InitThreadInv, StepThreadInv, PTL DEF Spec

(***************************************************************************)
(* stop(): what holds once it has begun and once the runtime is stopped.   *)
(***************************************************************************)

-----------------------------------------------------------------------------
(* The inductive invariant.                                                *)

\* A thread inside stop(), or back from it, finds the runtime halting.
HaltingWhileInStop ==
  /\ ~(stopping /\ stopped)
  /\ \A p \in Stoppers : spc[p] # "idle" => Halting

\* An endpoint is either known to every stop() that has still to stop it, or
\* gone; it cannot come back, since start_http is refused.
EndpointGone ==
  /\ \A p \in Stoppers :
       /\ spc[p] \in {"notify", "endpoint"} => service = "none" \/ captured[p]
       /\ spc[p] \in {"drain", "drainWait", "close", "finalize"} => service = "none"
  /\ stopped => service = "none"

\* Past the drain nobody is inside an operation: none was admitted since.
NobodyLeft ==
  stopped \/ (\E p \in Stoppers : spc[p] \in {"close", "finalize"})
    => \A u \in Upstreams : CountedOn(u) = {}

SessionsClosed ==
  stopped \/ (\E p \in Stoppers : spc[p] = "finalize")
    => \A u \in Upstreams, s \in Slots : session[u][s] = "none"

StatusFinal == stopped => \A u \in Upstreams : status[u] = "stopped"

StopInv == /\ HaltingWhileInStop
           /\ EndpointGone
           /\ NobodyLeft
           /\ SessionsClosed
           /\ StatusFinal

LEMMA InitStopInv == Init => StopInv
  BY DEF Init, StopInv, HaltingWhileInStop, EndpointGone, NobodyLeft,
     SessionsClosed, StatusFinal

-----------------------------------------------------------------------------
(* What the call threads leave alone.                                      *)

StopSideKept ==
  /\ UNCHANGED <<stopping, stopped, service, captured>>
  /\ \A p \in Stoppers : spc'[p] = spc[p] \/ (spc[p] = "drainWait" /\ spc'[p] = "drain")

\* A call thread does not touch what belongs to stop(), except to wake a
\* stop() that sleeps; outside an operation it touches no upstream's state.
LEMMA CallKeepsStopSide ==
  ASSUME TypeOK, NEW t \in Calls,
         Start(t) \/ CallStep(t) \/ AcquireTimesOut(t) \/ WakeUnasked(t)
  PROVE  /\ StopSideKept
         /\ pc[t] \notin CountedPoints => UNCHANGED <<status, session>>
<1> USE DEF TypeOK, StopSideKept, CountedPoints, flags, upstreamVars, poolVars,
        stopVars
<1>1. CASE Start(t)
  BY <1>1 DEF Start, StartCall, StartRefresh, Enter
<1>2. CASE BeginCall(t)
  BY <1>2 DEF BeginCall
<1>3. CASE RefuseSlot(t)
  BY <1>3 DEF RefuseSlot
<1>4. CASE TakeSlots(t)
  BY <1>4 DEF TakeSlots
<1>5. CASE FindPoolBusy(t)
  BY <1>5 DEF FindPoolBusy
<1>6. CASE Block(t)
  BY <1>6 DEF Block
<1>7. CASE KeepSession(t)
  BY <1>7 DEF KeepSession
<1>8. CASE Connect(t)
  BY <1>8 DEF Connect
<1>9. CASE ConnectFails(t)
  BY <1>9 DEF ConnectFails
<1>10. CASE Initialize(t)
  BY <1>10 DEF Initialize
<1>11. CASE OpenSession(t)
  BY <1>11 DEF OpenSession
<1>22. CASE RecordSession(t)
  BY <1>22 DEF RecordSession
<1>12. CASE Answer(t)
  BY <1>12 DEF Answer
<1>13. CASE UpstreamFails(t)
  BY <1>13 DEF UpstreamFails
<1>14. CASE Discard(t)
  BY <1>14 DEF Discard
<1>15. CASE Release(t)
  BY <1>15 DEF Release
<1>16. CASE Signal(t)
  BY <1>16 DEF Signal
<1>17. CASE Finish(t)
  BY <1>17 DEF Finish
<1>18. CASE NotifyIdle(t)
  BY <1>18 DEF NotifyIdle
<1>19. CASE Leave(t)
  BY <1>19 DEF Leave
<1>20. CASE AcquireTimesOut(t)
  BY <1>20 DEF AcquireTimesOut
<1>21. CASE WakeUnasked(t)
  BY <1>21 DEF WakeUnasked
<1> QED
  BY <1>1, <1>2, <1>3, <1>4, <1>5, <1>6, <1>7, <1>8, <1>9, <1>10, <1>11, <1>12,
     <1>13, <1>14, <1>15, <1>16, <1>17, <1>18, <1>19, <1>20, <1>21, <1>22
  DEF CallStep

\* Once the runtime halts the operations in flight only become fewer, and so
\* do the slots in use.
LEMMA HaltingAdmitsNobody ==
  ASSUME TypeOK, PoolOnlyIfPersistent, Halting, [Next]_vars, NEW u \in Upstreams
  PROVE  CountedOn(u)' \subseteq CountedOn(u) /\ inUse'[u] \subseteq inUse[u]
<1>1. CASE PoolFrame
  BY <1>1, FrameKeepsCounted DEF PoolFrame
<1>2. ASSUME NEW t \in Calls, FindPoolBusy(t) \/ Block(t)
      PROVE  CountedOn(u)' \subseteq CountedOn(u) /\ inUse'[u] \subseteq inUse[u]
  BY <1>2 DEF FindPoolBusy, Block, AtPool, Goto, CountedOn, Counted,
     CountedPoints, TypeOK, poolVars
<1>3. ASSUME NEW t \in Calls, Release(t)
      PROVE  CountedOn(u)' \subseteq CountedOn(u) /\ inUse'[u] \subseteq inUse[u]
  BY <1>3 DEF Release, StillUsed, Goto, CountedOn, Counted, CountedPoints, TypeOK
<1>4. ASSUME NEW t \in Calls, Finish(t)
      PROVE  CountedOn(u)' \subseteq CountedOn(u) /\ inUse'[u] \subseteq inUse[u]
  BY <1>4 DEF Finish, Goto, CountedOn, Counted, CountedPoints, TypeOK, poolVars
<1>5. \A t \in Calls : ~TakeSlots(t)
  BY DEF TakeSlots
<1> QED
  BY <1>1, <1>2, <1>3, <1>4, <1>5, StepFrame DEF CrossingStep

-----------------------------------------------------------------------------
(* Preservation.                                                           *)

LEMMA CallKeepsStopInv ==
  ASSUME ThreadInv, StopInv, NEW t \in Calls,
         Start(t) \/ CallStep(t) \/ AcquireTimesOut(t) \/ WakeUnasked(t)
  PROVE  StopInv'
<1>1. StopSideKept /\ (pc[t] \notin CountedPoints => UNCHANGED <<status, session>>)
  BY CallKeepsStopSide DEF ThreadInv
<1>2. HaltingWhileInStop' /\ EndpointGone'
  BY <1>1 DEF StopInv, HaltingWhileInStop, EndpointGone, StopSideKept, Halting
<1>3. [Next]_vars
  BY DEF Next
<1>4. Halting => \A u \in Upstreams : CountedOn(u)' \subseteq CountedOn(u)
  BY <1>3, HaltingAdmitsNobody DEF ThreadInv
<1>5. stopped \/ (\E p \in Stoppers : spc[p] \in {"close", "finalize"}) => Halting
  BY DEF StopInv, HaltingWhileInStop, Halting
<1>6. NobodyLeft'
  BY <1>1, <1>4, <1>5 DEF StopInv, NobodyLeft, StopSideKept
<1>7. (\A u \in Upstreams : CountedOn(u) = {}) => UNCHANGED <<status, session>>
  BY <1>1 DEF ThreadInv, TypeOK, CountedOn, Counted
<1>8. SessionsClosed' /\ StatusFinal'
  BY <1>1, <1>7 DEF StopInv, NobodyLeft, SessionsClosed, StatusFinal, StopSideKept
<1> QED
  BY <1>2, <1>6, <1>8 DEF StopInv

\* The drain is over exactly when nobody is counted.
LEMMA DrainedMeansNobody ==
  ASSUME ThreadInv, Drained, NEW u \in Upstreams
  PROVE  CountedOn(u) = {}
<1>1. Cardinality(CountedOn(u)) = 0
  BY DEF ThreadInv, ActiveCallsExact, Drained
<1> QED
  BY <1>1, CountedFinite, FS_EmptySet

LEMMA StopKeepsStopInv ==
  ASSUME ThreadInv, StopInv, NEW p \in Stoppers,
         StopBegin(p) \/ StopStep(p) \/ DrainTimesOut(p) \/ WakeStopUnasked(p)
  PROVE  StopInv'
<1>1. \A u \in Upstreams : CountedOn(u)' = CountedOn(u)
  BY StopFrame, FrameKeepsCounted DEF ThreadInv
<1> USE <1>1 DEF StopInv, HaltingWhileInStop, EndpointGone, NobodyLeft,
        SessionsClosed, StatusFinal, Halting, ThreadInv, TypeOK, GotoStop, flags,
        upstreamVars, poolVars
<1>2. CASE StopBegin(p)
  <2>1. CASE stopped
    BY <1>2, <2>1 DEF StopBegin
  <2>2. CASE ~stopped
    <3>1. stopping' /\ UNCHANGED <<stopped, session, service>>
      BY <1>2, <2>2 DEF StopBegin
    <3>2. /\ captured' = [captured EXCEPT ![p] = service # "none"]
          /\ spc' = [spc EXCEPT ![p] = "notify"]
      BY <1>2, <2>2 DEF StopBegin
    <3>3. HaltingWhileInStop' /\ EndpointGone'
      BY <2>2, <3>1, <3>2
    <3>4. NobodyLeft' /\ SessionsClosed' /\ StatusFinal'
      BY <2>2, <3>1, <3>2
    <3> QED
      BY <3>3, <3>4
  <2> QED
    BY <2>1, <2>2
<1>3. CASE NotifyWaiters(p)
  BY <1>3 DEF NotifyWaiters
<1>4. CASE StopEndpoint(p)
  BY <1>4 DEF StopEndpoint
<1>5. CASE CheckDrained(p)
  BY <1>5, DrainedMeansNobody DEF CheckDrained
<1>6. CASE CloseSessions(p)
  BY <1>6 DEF CloseSessions
<1>7. CASE Finalize(p)
  BY <1>7 DEF Finalize
<1>8. CASE DrainTimesOut(p) \/ WakeStopUnasked(p)
  BY <1>8 DEF DrainTimesOut, WakeStopUnasked
<1> QED
  BY <1>2, <1>3, <1>4, <1>5, <1>6, <1>7, <1>8 DEF StopStep

LEMMA StepStopInv == ASSUME ThreadInv, StopInv, [Next]_vars PROVE StopInv'
<1> USE DEF StopInv, HaltingWhileInStop, EndpointGone, NobodyLeft,
        SessionsClosed, StatusFinal, Halting
<1>1. CASE UNCHANGED vars
  <2>1. \A u \in Upstreams : CountedOn(u)' = CountedOn(u)
    BY <1>1 DEF vars, callVars, CountedOn, Counted
  <2> QED
    BY <1>1, <2>1 DEF vars, flags, upstreamVars, poolVars, stopVars
<1>2. ASSUME NEW u \in Upstreams, NEW s \in Slots, SessionDies(u, s)
      PROVE  StopInv'
  <2>1. \A v \in Upstreams : CountedOn(v)' = CountedOn(v)
    BY <1>2 DEF SessionDies, callVars, CountedOn, Counted
  <2> QED
    BY <1>2, <2>1 DEF SessionDies, flags, upstreamVars, stopVars
<1>3. CASE StartHttp \/ EndpointExits
  <2>1. \A v \in Upstreams : CountedOn(v)' = CountedOn(v)
    BY <1>3 DEF StartHttp, EndpointExits, callVars, CountedOn, Counted
  <2> QED
    BY <1>3, <2>1 DEF StartHttp, EndpointExits, flags, upstreamVars, poolVars,
       stopVars
<1> QED
  BY <1>1, <1>2, <1>3, CallKeepsStopInv, StopKeepsStopInv DEF Next

LEMMA ShutdownInvariant == Spec => [](ThreadInv /\ StopInv)
  BY InitThreadInv, InitStopInv, StepThreadInv, StepStopInv, PTL DEF Spec

-----------------------------------------------------------------------------
(* The theorems.                                                           *)

LEMMA NobodyHolds ==
  ASSUME ThreadInv, NEW u \in Upstreams, CountedOn(u) = {}
  PROVE  inUse[u] = {}
<1>1. \A t \in Calls : target[t] = u => held[t] = {}
  BY DEF ThreadInv, HoldersOnly, HoldPoints, CountedOn, Counted, CountedPoints
<1> QED
  BY <1>1 DEF ThreadInv, SlotOwnership, TypeOK

\* stop() closes the pooled sessions when no slot is in use and no operation
\* is in flight, though it does not look at in_use (runtime.cpp:746-753).
THEOREM CloseIsSafe == Spec => []CloseFindsPoolIdle
<1>1. ThreadInv /\ StopInv => CloseFindsPoolIdle
  BY NobodyHolds DEF StopInv, NobodyLeft, CloseFindsPoolIdle
<1> QED
  BY <1>1, ShutdownInvariant, PTL

\* A stopped runtime is at rest, whichever stop() ended it
\* (runtime.cpp:1726-1735).
THEOREM StopIsQuiescent == Spec => []StoppedIsQuiescent
<1>1. ThreadInv /\ StopInv => StoppedIsQuiescent
  BY NobodyHolds DEF StopInv, HaltingWhileInStop, EndpointGone, NobodyLeft,
     SessionsClosed, StatusFinal, StoppedIsQuiescent
<1> QED
  BY <1>1, ShutdownInvariant, PTL

\* The flags are never cleared together.
LEMMA HaltingForGood == ASSUME TypeOK, Halting, [Next]_vars PROVE Halting'
<1> USE DEF Halting, flags
<1>1. ASSUME NEW t \in Calls,
             Start(t) \/ CallStep(t) \/ AcquireTimesOut(t) \/ WakeUnasked(t)
      PROVE  Halting'
  BY <1>1, CallKeepsStopSide DEF StopSideKept
<1>2. ASSUME NEW p \in Stoppers,
             StopBegin(p) \/ StopStep(p) \/ DrainTimesOut(p) \/ WakeStopUnasked(p)
      PROVE  Halting'
  BY <1>2 DEF StopStep, StopBegin, NotifyWaiters, StopEndpoint, CheckDrained,
     CloseSessions, Finalize, DrainTimesOut, WakeStopUnasked
<1> QED
  BY <1>1, <1>2 DEF Next, SessionDies, StartHttp, EndpointExits, vars

\* Once stop() has begun nothing is admitted and nobody is given a slot, for
\* good (docs/api_contract.md:165-166).
THEOREM HaltingIsFinal == Spec => NoWorkOnceHalting
<1>1. ASSUME ThreadInv, [Next]_vars
      PROVE  [stopping \/ stopped =>
                /\ stopping' \/ stopped'
                /\ \A u \in Upstreams : /\ CountedOn(u)' \subseteq CountedOn(u)
                                        /\ inUse'[u] \subseteq inUse[u]]_vars
  BY <1>1, HaltingForGood, HaltingAdmitsNobody DEF ThreadInv, Halting
<1> QED
  BY <1>1, InitThreadInv, StepThreadInv, PTL DEF Spec, NoWorkOnceHalting

(***************************************************************************)
(* What the record says of sessions.                                       *)
(***************************************************************************)

-----------------------------------------------------------------------------
(* The inductive invariant.                                                *)

\* Capabilities are known from initialize on, by the operation and in the slot.
OffersKnown ==
  /\ \A t \in Calls : pc[t] \in {"initialized", "opened", "use"} => offer[t] # "unknown"
  /\ \A u \in Upstreams, s \in Slots :
       session[u][s] # "none" => slotCaps[u][s] # "unknown"

\* The slot an operation works on is its own; a prewarm has the whole pool.
CurrentIsHeld ==
  \A t \in Calls : Persistent /\ pc[t] \in HoldPoints =>
    /\ cur[t] \in held[t]
    /\ op[t] = "refresh" => held[t] = Slots

\* A slot has no session and nobody is about to install one in it, or somebody
\* is about to discard one.
Broken(u) ==
  \/ \E s \in Slots :
       /\ session[u][s] = "none"
       /\ \A t \in Calls : target[t] = u /\ pc[t] \in {"connect", "initialized"} => cur[t] # s
  \/ \E t \in CountedOn(u) : pc[t] = "discard"

DegradedIsBroken ==
  Persistent => \A u \in Upstreams : status[u] = "degraded" => Broken(u)

RecordInv == /\ TransientStatusHasAuthor
             /\ DegradedIsBroken
             /\ OffersKnown
             /\ RetainedSessionIsRecorded

\* Two holders of one pool work on different slots.
LEMMA OwnSlot ==
  ASSUME ThreadInv, CurrentIsHeld, Persistent, NEW t \in Calls, NEW w \in Calls,
         t # w, target[t] = target[w], pc[t] \in HoldPoints, pc[w] \in HoldPoints
  PROVE  cur[t] # cur[w]
<1>1. cur[t] \in held[t] /\ cur[w] \in held[w]
  BY DEF CurrentIsHeld
<1>2. held[t] \cap held[w] = {}
  BY DEF ThreadInv, SlotOwnership
<1> QED
  BY <1>1, <1>2

-----------------------------------------------------------------------------
(* The slot an operation works on.                                         *)

\* A holder that a step leaves where it is still has its slot.
HoldersKept ==
  \A w \in Calls : pc'[w] \in HoldPoints =>
    /\ pc[w] \in HoldPoints
    /\ op'[w] = op[w] /\ cur'[w] = cur[w] /\ held'[w] = held[w]

LEMMA CallKeepsCurrent ==
  ASSUME TypeOK, CurrentIsHeld, Persistent, NEW t \in Calls,
         Start(t) \/ CallStep(t) \/ AcquireTimesOut(t) \/ WakeUnasked(t)
  PROVE  CurrentIsHeld'
<1>1. CASE HoldersKept
  BY <1>1 DEF HoldersKept, CurrentIsHeld, Persistent
<1>2. CASE TakeSlots(t)
  <2>1. PICK s \in Slots : LET taken == IF op[t] = "call" THEN {s} ELSE Slots IN
          cur' = [cur EXCEPT ![t] = s] /\ held' = [held EXCEPT ![t] = taken]
    BY <1>2 DEF TakeSlots
  <2>2. op' = op /\ \A w \in Calls : w # t => pc'[w] = pc[w]
    BY <1>2 DEF TakeSlots, Goto, TypeOK
  <2>3. /\ cur'[t] = s /\ held'[t] = IF op[t] = "call" THEN {s} ELSE Slots
        /\ \A w \in Calls : w # t => cur'[w] = cur[w] /\ held'[w] = held[w]
    BY <2>1 DEF TypeOK
  <2> QED
    BY <2>2, <2>3 DEF CurrentIsHeld, Persistent
<1>3. CASE KeepSession(t) \/ RecordSession(t)
  <2>1. Proceed(t) /\ UNCHANGED <<op, held>> /\ pc[t] \in HoldPoints
    BY <1>3 DEF KeepSession, RecordSession, HoldPoints
  <2>2. \A w \in Calls : w # t => pc'[w] = pc[w] /\ cur'[w] = cur[w]
    BY <2>1 DEF Proceed, Goto, TypeOK
  <2>3. cur[t] \in held[t] /\ op[t] \in {"call", "refresh"}
        /\ (op[t] = "refresh" => held[t] = Slots)
    BY <2>1 DEF CurrentIsHeld, TypeOK
  <2>4. cur'[t] \in held[t]
    <3>1. CASE cur' = cur
      BY <2>3, <3>1
    <3>2. CASE op[t] # "call" /\ cur[t] < PoolSize /\ cur' = [cur EXCEPT ![t] = cur[t] + 1]
      <4>1. cur'[t] = cur[t] + 1 /\ cur[t] \in Slots
        BY <3>2 DEF TypeOK
      <4> QED
        BY <2>3, <3>2, <4>1, NextSlot
    <3> QED
      BY <2>1, <3>1, <3>2 DEF Proceed
  <2> QED
    BY <2>1, <2>2, <2>3, <2>4 DEF CurrentIsHeld, Persistent
<1> USE DEF TypeOK, HoldersKept, HoldPoints, Goto, poolVars
<1>4. CASE Start(t) \/ BeginCall(t) \/ RefuseSlot(t) \/ FindPoolBusy(t) \/ Block(t)
  BY <1>1, <1>4 DEF Start, StartCall, StartRefresh, Enter, BeginCall, RefuseSlot, AtPool,
     FindPoolBusy, Block
<1>5. CASE Connect(t) \/ ConnectFails(t) \/ Initialize(t) \/ OpenSession(t)
  BY <1>1, <1>5 DEF Connect, ConnectFails, AfterFailure, Initialize, OpenSession
<1>6. CASE Answer(t) \/ UpstreamFails(t) \/ Discard(t) \/ Release(t)
  BY <1>1, <1>6 DEF Answer, UpstreamFails, AfterFailure, Discard, Release
<1>7. CASE Signal(t)
  BY <1>1, <1>7 DEF Signal, Sleepers
<1>8. CASE Finish(t) \/ NotifyIdle(t) \/ AcquireTimesOut(t) \/ WakeUnasked(t)
  BY <1>1, <1>8 DEF Finish, NotifyIdle, AcquireTimesOut, WakeUnasked
<1>9. CASE Leave(t)
  BY <1>1, <1>9 DEF Leave
<1> QED
  BY <1>2, <1>3, <1>4, <1>5, <1>6, <1>7, <1>8, <1>9 DEF CallStep

LEMMA StepKeepsCurrent ==
  ASSUME TypeOK, CurrentIsHeld, [Next]_vars PROVE CurrentIsHeld'
<1> SUFFICES ASSUME Persistent PROVE CurrentIsHeld'
  BY DEF CurrentIsHeld, Persistent
<1>1. CASE HoldersKept
  BY <1>1 DEF HoldersKept, CurrentIsHeld, Persistent
<1> USE DEF HoldersKept, HoldPoints, callVars
<1>2. ASSUME NEW p \in Stoppers, NotifyWaiters(p) PROVE CurrentIsHeld'
  BY <1>1, <1>2 DEF NotifyWaiters, TypeOK
<1>3. ASSUME NEW p \in Stoppers, \/ StopBegin(p) \/ StopEndpoint(p) \/ CheckDrained(p)
                                 \/ CloseSessions(p) \/ Finalize(p) \/ DrainTimesOut(p)
                                 \/ WakeStopUnasked(p)
      PROVE  CurrentIsHeld'
  BY <1>1, <1>3 DEF StopBegin, StopEndpoint, CheckDrained, CloseSessions, Finalize,
     DrainTimesOut, WakeStopUnasked
<1>4. CASE \/ \E u \in Upstreams, s \in Slots : SessionDies(u, s)
           \/ StartHttp \/ EndpointExits \/ UNCHANGED vars
  BY <1>1, <1>4 DEF SessionDies, StartHttp, EndpointExits, vars
<1> QED
  BY <1>2, <1>3, <1>4, CallKeepsCurrent DEF Next, StopStep

-----------------------------------------------------------------------------
(* The record.                                                             *)

\* The points at which an operation answers for a status.
AuthorPoints == {"connect", "initialized", "opened", "use", "discard"}

\* What steps have in common that touch neither the record nor a session.
RecordFrame ==
  /\ UNCHANGED <<status, recorded, session, slotCaps>>
  /\ \A w \in Calls :
       /\ pc[w] \in AuthorPoints => /\ pc'[w] = pc[w] /\ target'[w] = target[w]
                                   /\ cur'[w] = cur[w]
       /\ pc'[w] \in AuthorPoints => pc'[w] = pc[w] /\ offer'[w] = offer[w]

\* Such steps keep the invariant.
LEMMA FrameKeepsRecord ==
  ASSUME RecordInv, RecordFrame PROVE RecordInv'
<1> USE DEF RecordInv, RecordFrame, AuthorPoints, CountedOn, Counted, CountedPoints
<1>1. TransientStatusHasAuthor'
  BY DEF TransientStatusHasAuthor
<1>2. DegradedIsBroken'
  BY DEF DegradedIsBroken, Broken, Persistent
<1>3. OffersKnown' /\ RetainedSessionIsRecorded'
  BY DEF OffersKnown, RetainedSessionIsRecorded
<1> QED
  BY <1>1, <1>2, <1>3

\* The steps of an operation outside its session.
LEMMA CallRecordFrame ==
  ASSUME TypeOK, NEW t \in Calls,
         \/ Start(t) \/ BeginCall(t) \/ RefuseSlot(t) \/ TakeSlots(t) \/ FindPoolBusy(t)
         \/ Block(t) \/ Release(t) \/ Signal(t) \/ Finish(t) \/ NotifyIdle(t) \/ Leave(t)
         \/ AcquireTimesOut(t) \/ WakeUnasked(t)
  PROVE  RecordFrame
<1> USE DEF TypeOK, RecordFrame, AuthorPoints, upstreamVars, poolVars, Goto
<1>1. CASE Start(t)
  BY <1>1 DEF Start, StartCall, StartRefresh, Enter
<1>2. CASE BeginCall(t)
  BY <1>2 DEF BeginCall
<1>3. CASE RefuseSlot(t)
  BY <1>3 DEF RefuseSlot, AtPool
<1>4. CASE TakeSlots(t)
  BY <1>4 DEF TakeSlots, AtPool
<1>5. CASE FindPoolBusy(t)
  BY <1>5 DEF FindPoolBusy, AtPool
<1>6. CASE Block(t)
  BY <1>6 DEF Block
<1>7. CASE Release(t)
  BY <1>7 DEF Release
<1>8. CASE Signal(t)
  BY <1>8 DEF Signal, Sleepers
<1>9. CASE Finish(t)
  BY <1>9 DEF Finish
<1>10. CASE NotifyIdle(t)
  BY <1>10 DEF NotifyIdle
<1>11. CASE Leave(t)
  BY <1>11 DEF Leave
<1>12. CASE AcquireTimesOut(t) \/ WakeUnasked(t)
  BY <1>12 DEF AcquireTimesOut, WakeUnasked
<1> QED
  BY <1>1, <1>2, <1>3, <1>4, <1>5, <1>6, <1>7, <1>8, <1>9, <1>10, <1>11, <1>12

\* The steps of stop() that mark nothing and close nothing, and the endpoint's.
LEMMA OtherRecordFrame ==
  ASSUME TypeOK,
         \/ \E p \in Stoppers : \/ NotifyWaiters(p) \/ StopEndpoint(p) \/ CheckDrained(p)
                                \/ DrainTimesOut(p) \/ WakeStopUnasked(p)
         \/ StartHttp \/ EndpointExits \/ UNCHANGED vars
  PROVE  RecordFrame
<1> USE DEF TypeOK, RecordFrame, AuthorPoints, upstreamVars, poolVars, callVars
<1>1. ASSUME NEW p \in Stoppers, NotifyWaiters(p) PROVE RecordFrame
  BY <1>1 DEF NotifyWaiters
<1>2. ASSUME NEW p \in Stoppers, \/ StopEndpoint(p) \/ CheckDrained(p)
                                 \/ DrainTimesOut(p) \/ WakeStopUnasked(p)
      PROVE  RecordFrame
  BY <1>2 DEF StopEndpoint, CheckDrained, DrainTimesOut, WakeStopUnasked
<1>3. CASE StartHttp \/ EndpointExits \/ UNCHANGED vars
  BY <1>3 DEF StartHttp, EndpointExits, vars
<1> QED
  BY <1>1, <1>2, <1>3

\* An operation in its session touches one upstream's record and one slot.
OneSession(t) ==
  LET u == target[t] IN
  /\ pc[t] \in HoldPoints /\ pc'[t] \in CountedPoints /\ target' = target
  /\ \A w \in Calls : w # t => pc'[w] = pc[w] /\ offer'[w] = offer[w] /\ cur'[w] = cur[w]
  /\ \A v \in Upstreams : v # u => /\ status'[v] = status[v] /\ recorded'[v] = recorded[v]
                                   /\ session'[v] = session[v] /\ slotCaps'[v] = slotCaps[v]
  /\ \A s \in Slots : s # cur[t] => /\ session'[u][s] = session[u][s]
                                    /\ slotCaps'[u][s] = slotCaps[u][s]

\* What it must see to, there.
Answerable(t) ==
  LET u == target[t]
      s == cur[t] IN
  /\ status'[u] = "connecting" =>
       pc'[t] = "connect" \/ (status[u] = "connecting" /\ pc[t] # "connect")
  /\ status'[u] = "initialized" =>
       \/ pc'[t] \in {"initialized", "opened"}
       \/ ~Persistent /\ pc'[t] = "use"
       \/ status[u] = "initialized" /\ pc[t] \notin {"initialized", "opened", "use"}
  /\ Persistent /\ status'[u] = "degraded" =>
       \/ pc'[t] = "discard"
       \/ pc[t] = "discard" /\ pc'[t] = "release" /\ session'[u][s] = "none"
       \/ /\ status[u] = "degraded" /\ pc[t] # "discard"
          /\ pc'[t] \notin {"connect", "initialized"}
          /\ session'[u][s] = session[u][s] \/ pc[t] = "initialized"
  /\ pc'[t] \in {"initialized", "opened", "use"} => offer'[t] # "unknown"
  /\ session'[u][s] # "none" => slotCaps'[u][s] # "unknown"
  /\ session'[u][s] # "none" => \/ recorded'[u] # "unknown"
                                \/ pc'[t] = "opened" /\ cur'[t] = s
                                \/ session[u][s] # "none"
  /\ pc[t] = "opened" => recorded'[u] # "unknown"
  /\ recorded'[u] = "unknown" => recorded[u] = "unknown"

\* If it does, the invariant is kept: no other operation, upstream or slot is
\* concerned.
LEMMA AnswerableKeepsRecord ==
  ASSUME ThreadInv, CurrentIsHeld, RecordInv, NEW t \in Calls, OneSession(t), Answerable(t)
  PROVE  RecordInv'
<1> DEFINE u == target[t]
<1>1. u \in Upstreams /\ cur[t] \in Slots
  BY DEF ThreadInv, TypeOK
<1>2. /\ \A v \in Upstreams : \A w \in CountedOn(v) : w # t => w \in CountedOn(v)'
      /\ t \in CountedOn(u) /\ t \in CountedOn(u)'
      /\ \A v \in Upstreams : v # u => t \notin CountedOn(v)
      /\ \A v \in Upstreams : CountedOn(v) \subseteq Calls
  BY DEF OneSession, CountedOn, Counted, HoldPoints, CountedPoints
<1>3. TransientStatusHasAuthor'
  <2> SUFFICES ASSUME NEW v \in Upstreams
               PROVE  /\ status'[v] = "connecting" => \E w \in CountedOn(v)' : pc'[w] = "connect"
                      /\ status'[v] = "initialized" => \E w \in CountedOn(v)' :
                           \/ pc'[w] \in {"initialized", "opened"}
                           \/ ~Persistent /\ pc'[w] = "use"
    BY DEF TransientStatusHasAuthor, Persistent
  <2>1. CASE v # u
    BY <1>2, <2>1 DEF OneSession, RecordInv, TransientStatusHasAuthor
  <2>2. CASE v = u
    BY <1>1, <1>2, <2>2 DEF OneSession, Answerable, RecordInv, TransientStatusHasAuthor
  <2> QED
    BY <2>1, <2>2
<1>4. DegradedIsBroken'
  <2> SUFFICES ASSUME Persistent, NEW v \in Upstreams, status'[v] = "degraded"
               PROVE  Broken(v)'
    BY DEF DegradedIsBroken, Persistent
  <2>1. CASE v # u
    <3>1. Broken(v) /\ session'[v] = session[v]
      BY <2>1 DEF OneSession, RecordInv, DegradedIsBroken
    <3>2. \A w \in Calls : target'[w] = v => /\ w # t /\ target[w] = v
                                           /\ pc'[w] = pc[w] /\ cur'[w] = cur[w]
      BY <2>1 DEF OneSession
    <3>3. \A w \in CountedOn(v) : w \in CountedOn(v)' /\ pc'[w] = pc[w]
      BY <1>2, <2>1 DEF OneSession
    <3> QED
      BY <3>1, <3>2, <3>3 DEF Broken
  <2>2. CASE v = u /\ pc'[t] = "discard"
    BY <2>2 DEF Broken, OneSession, CountedOn, Counted
  <2>3. CASE v = u /\ pc[t] = "discard" /\ pc'[t] = "release" /\ session'[u][cur[t]] = "none"
    <3>1. ASSUME NEW w \in Calls, target'[w] = u, pc'[w] \in {"connect", "initialized"}
          PROVE  cur'[w] # cur[t]
      <4>1. /\ w # t /\ target[w] = u /\ pc[w] \in HoldPoints /\ pc[t] \in HoldPoints
            /\ cur'[w] = cur[w]
        BY <2>3, <3>1 DEF OneSession, HoldPoints
      <4> QED
        BY <4>1, OwnSlot
    <3> QED
      BY <1>1, <2>3, <3>1 DEF Broken
  <2>4. CASE /\ v = u /\ status[u] = "degraded" /\ pc[t] # "discard"
             /\ pc'[t] \notin {"connect", "initialized"}
             /\ session'[u][cur[t]] = session[u][cur[t]] \/ pc[t] = "initialized"
    <3>1. Broken(u)
      BY <1>1, <2>4 DEF RecordInv, DegradedIsBroken
    <3>2. CASE \E w \in CountedOn(u) : pc[w] = "discard"
      <4>1. PICK w \in CountedOn(v) : pc[w] = "discard"
        BY <2>4, <3>2
      <4>2. w # t /\ w \in CountedOn(v)' /\ pc'[w] = "discard"
        BY <1>1, <1>2, <2>4, <4>1 DEF OneSession
      <4> QED
        BY <4>2 DEF Broken
    <3>3. ASSUME NEW s \in Slots, session[u][s] = "none",
                 \A w \in Calls : target[w] = u /\ pc[w] \in {"connect", "initialized"} => cur[w] # s
          PROVE  Broken(u)'
      <4>1. session'[u][s] = "none"
        BY <2>4, <3>3 DEF OneSession
      <4>2. \A w \in Calls : target'[w] = u /\ pc'[w] \in {"connect", "initialized"} => cur'[w] # s
        BY <2>4, <3>3 DEF OneSession
      <4>3. u' = u
        BY DEF OneSession
      <4> QED
        BY <4>1, <4>2, <4>3 DEF Broken
    <3>4. u' = u
      BY DEF OneSession
    <3> QED
      BY <2>4, <3>1, <3>2, <3>3, <3>4 DEF Broken
  <2> QED
    BY <2>1, <2>2, <2>3, <2>4 DEF Answerable
<1>5. OffersKnown'
  BY <1>1 DEF OneSession, Answerable, RecordInv, OffersKnown
<1>6. RetainedSessionIsRecorded'
  <2> SUFFICES ASSUME NEW v \in Upstreams, NEW s \in Slots, session'[v][s] # "none",
                      recorded'[v] = "unknown"
               PROVE  \E w \in CountedOn(v)' : pc'[w] = "opened" /\ cur'[w] = s
    BY DEF RetainedSessionIsRecorded
  <2>1. CASE v = u /\ s = cur[t] /\ pc'[t] = "opened" /\ cur'[t] = s
    BY <2>1 DEF OneSession, CountedOn, Counted
  <2>2. CASE ~(v = u /\ s = cur[t] /\ pc'[t] = "opened" /\ cur'[t] = s)
    <3>1. session[v][s] # "none" /\ recorded[v] = "unknown"
      BY <1>1, <2>2 DEF OneSession, Answerable
    <3>2. PICK w \in CountedOn(v) : pc[w] = "opened" /\ cur[w] = s
      BY <3>1 DEF RecordInv, RetainedSessionIsRecorded
    <3>3. w # t
      BY <1>2, <3>2 DEF Answerable
    <3> QED
      BY <1>2, <3>2, <3>3 DEF OneSession
  <2> QED
    BY <2>1, <2>2
<1> QED
  BY <1>3, <1>4, <1>5, <1>6 DEF RecordInv

\* The steps of an operation in its session.
LEMMA SessionKeepsRecord ==
  ASSUME ThreadInv, CurrentIsHeld, RecordInv, NEW t \in Calls,
         \/ KeepSession(t) \/ Connect(t) \/ ConnectFails(t) \/ Initialize(t)
         \/ OpenSession(t) \/ RecordSession(t) \/ Answer(t) \/ UpstreamFails(t) \/ Discard(t)
  PROVE  RecordInv'
<1> SUFFICES OneSession(t) /\ Answerable(t)
  BY AnswerableKeepsRecord
<1>0. TypeOK /\ target[t] \in Upstreams /\ cur[t] \in Slots
  BY DEF ThreadInv, TypeOK
<1> USE <1>0
    DEF TypeOK, OneSession, Answerable, HoldPoints, CountedPoints, Goto, SetStatus,
        SetSession, MarkHealthy, MarkDegraded, AfterFailure, flags, upstreamVars,
        poolVars, stopVars
<1>1. CASE KeepSession(t)
  BY <1>1 DEF KeepSession, Proceed, RecordInv, OffersKnown, RetainedSessionIsRecorded
<1>2. CASE Connect(t)
  BY <1>2 DEF Connect, RecordInv, OffersKnown, RetainedSessionIsRecorded
<1>3. CASE ConnectFails(t)
  BY <1>3 DEF ConnectFails, RecordInv, OffersKnown, RetainedSessionIsRecorded
<1>4. CASE Initialize(t)
  BY <1>4, OptionsAssumption
  DEF Initialize, RecordInv, OffersKnown, RetainedSessionIsRecorded
<1>5. CASE OpenSession(t)
  BY <1>5 DEF OpenSession, RecordInv, OffersKnown, RetainedSessionIsRecorded
<1>9. CASE RecordSession(t)
  BY <1>9 DEF RecordSession, Proceed, RecordInv, OffersKnown, RetainedSessionIsRecorded
<1>6. CASE Answer(t)
  BY <1>6 DEF Answer, RecordInv, OffersKnown, RetainedSessionIsRecorded
<1>7. CASE UpstreamFails(t)
  BY <1>7 DEF UpstreamFails, RecordInv, OffersKnown, RetainedSessionIsRecorded
<1>8. CASE Discard(t)
  BY <1>8 DEF Discard, RecordInv, OffersKnown, RetainedSessionIsRecorded
<1> QED
  BY <1>1, <1>2, <1>3, <1>4, <1>5, <1>6, <1>7, <1>8, <1>9

\* stop() replaces every status and closes every session, and sessions may end.
LEMMA EndsKeepRecord ==
  ASSUME TypeOK, NobodyLeft, RecordInv,
         \/ \E p \in Stoppers : StopBegin(p) \/ CloseSessions(p) \/ Finalize(p)
         \/ \E u \in Upstreams, s \in Slots : SessionDies(u, s)
  PROVE  RecordInv'
<1> USE DEF TypeOK, RecordInv, TransientStatusHasAuthor, DegradedIsBroken, Broken,
        OffersKnown, RetainedSessionIsRecorded, CountedOn, Counted, upstreamVars, poolVars,
        callVars
<1>1. ASSUME NEW p \in Stoppers, StopBegin(p) PROVE RecordInv'
  <2>1. \/ status' = status
        \/ \A u \in Upstreams : status'[u] \notin {"connecting", "initialized", "degraded"}
    BY <1>1 DEF StopBegin
  <2>2. UNCHANGED <<recorded, session, slotCaps, pc, target, offer, cur>>
    BY <1>1 DEF StopBegin
  <2>3. TransientStatusHasAuthor' /\ DegradedIsBroken'
    BY <2>1, <2>2
  <2>4. OffersKnown' /\ RetainedSessionIsRecorded'
    BY <2>2
  <2> QED
    BY <2>3, <2>4
<1>2. ASSUME NEW p \in Stoppers, CloseSessions(p) PROVE RecordInv'
  <2>1. \A u \in Upstreams : CountedOn(u) = {}
    BY <1>2 DEF CloseSessions, NobodyLeft
  <2>2. \A u \in Upstreams, s \in Slots : session'[u][s] = "none"
    BY <1>2 DEF CloseSessions
  <2>3. UNCHANGED <<status, recorded, pc, target, offer, cur>>
    BY <1>2 DEF CloseSessions
  <2>4. \A t \in Calls : pc[t] \notin {"connect", "initialized"}
    BY <2>1 DEF CountedPoints
  <2>5. DegradedIsBroken'
    BY <2>2, <2>3, <2>4, FirstUpstreamAndSlot
  <2>6. TransientStatusHasAuthor'
    BY <2>3
  <2>7. OffersKnown' /\ RetainedSessionIsRecorded'
    BY <2>2, <2>3
  <2> QED
    BY <2>5, <2>6, <2>7
<1>3. ASSUME NEW p \in Stoppers, Finalize(p) PROVE RecordInv'
  <2>1. \A u \in Upstreams : status'[u] = "stopped"
    BY <1>3 DEF Finalize
  <2>2. UNCHANGED <<recorded, session, slotCaps, pc, target, offer, cur>>
    BY <1>3 DEF Finalize
  <2> QED
    BY <2>1, <2>2
<1>4. ASSUME NEW u \in Upstreams, NEW s \in Slots, SessionDies(u, s) PROVE RecordInv'
  <2>1. /\ UNCHANGED <<status, recorded, slotCaps, pc, target, offer, cur>>
        /\ session[u][s] = "live"
    BY <1>4 DEF SessionDies
  <2>2. \A v \in Upstreams, r \in Slots :
          session'[v][r] = IF v = u /\ r = s THEN "dead" ELSE session[v][r]
    BY <1>4 DEF SessionDies
  <2>3. ASSUME NEW v \in Upstreams, NEW r \in Slots
        PROVE  session'[v][r] = "none" <=> session[v][r] = "none"
    <3>1. CASE v = u /\ r = s
      BY <2>1, <2>2, <3>1
    <3>2. CASE ~(v = u /\ r = s)
      BY <2>2, <3>2
    <3> QED
      BY <3>1, <3>2
  <2>4. TransientStatusHasAuthor' /\ DegradedIsBroken'
    BY <2>1, <2>3
  <2>5. OffersKnown' /\ RetainedSessionIsRecorded'
    BY <2>1, <2>3
  <2> QED
    BY <2>4, <2>5
<1> QED
  BY <1>1, <1>2, <1>3, <1>4

LEMMA StepRecordInv ==
  ASSUME ThreadInv, StopInv, CurrentIsHeld, RecordInv, [Next]_vars PROVE RecordInv'
<1>0. TypeOK /\ NobodyLeft
  BY DEF ThreadInv, StopInv
<1>1. ASSUME NEW t \in Calls,
             Start(t) \/ CallStep(t) \/ AcquireTimesOut(t) \/ WakeUnasked(t)
      PROVE  RecordInv'
  BY <1>0, <1>1, CallRecordFrame, FrameKeepsRecord, SessionKeepsRecord DEF CallStep
<1>2. ASSUME NEW p \in Stoppers,
             StopBegin(p) \/ StopStep(p) \/ DrainTimesOut(p) \/ WakeStopUnasked(p)
      PROVE  RecordInv'
  BY <1>0, <1>2, OtherRecordFrame, FrameKeepsRecord, EndsKeepRecord DEF StopStep
<1>3. ASSUME \/ \E u \in Upstreams, s \in Slots : SessionDies(u, s)
             \/ StartHttp \/ EndpointExits \/ UNCHANGED vars
      PROVE  RecordInv'
  BY <1>0, <1>3, OtherRecordFrame, FrameKeepsRecord, EndsKeepRecord
<1> QED
  BY <1>1, <1>2, <1>3 DEF Next

\* The invariant holds in every reachable state.
LEMMA RecordInvariant == Spec => []RecordInv
<1>1. Init => CurrentIsHeld /\ RecordInv
  BY DEF Init, CurrentIsHeld, HoldPoints, RecordInv, TransientStatusHasAuthor,
     DegradedIsBroken, OffersKnown, RetainedSessionIsRecorded
<1>2. ThreadInv /\ StopInv /\ CurrentIsHeld /\ RecordInv /\ [Next]_vars
        => CurrentIsHeld' /\ RecordInv'
  BY StepKeepsCurrent, StepRecordInv DEF ThreadInv
<1> QED
  BY <1>1, <1>2, ShutdownInvariant, PTL DEF Spec

\* No failure path leaves an upstream connecting or initialized, since each of
\* them marks it degraded and stop() replaces the status (runtime.cpp:695-831).
THEOREM TransientHasAuthor == Spec => []TransientStatusHasAuthor
<1>1. RecordInv => TransientStatusHasAuthor
  BY DEF RecordInv
<1> QED
  BY <1>1, RecordInvariant, PTL

\* Degraded never sticks to a pool of good sessions: the holder that marked it
\* discards the session before it releases the slot (runtime.cpp:866-900, 938-944).
THEOREM DegradedHasBrokenSlot == Spec => []DegradedPoolHasBrokenSlot
<1>1. RecordInv => DegradedPoolHasBrokenSlot
  BY DEF RecordInv, DegradedIsBroken, Broken, DegradedPoolHasBrokenSlot
<1> QED
  BY <1>1, RecordInvariant, PTL

\* The pool never retains a session to an upstream whose capabilities are not on
\* record, except one whose holder records them next: failures keep what was
\* recorded (runtime.cpp:359-392, 730-733).
THEOREM RetainedIsRecorded == Spec => []RetainedSessionIsRecorded
<1>1. RecordInv => RetainedSessionIsRecorded
  BY DEF RecordInv
<1> QED
  BY <1>1, RecordInvariant, PTL

(***************************************************************************)
(* The runtime implements the abstract lifecycle.                          *)
(***************************************************************************)

-----------------------------------------------------------------------------
(* The refinement.                                                         *)

\* The set of operations in flight moves with the counted threads: a frame
\* step keeps it, a crossing step admits t, retires t or keeps it.
LEMMA FrameKeepsInflight == ASSUME PoolFrame PROVE inflightBar' = inflightBar
  BY DEF PoolFrame, inflightBar, Counted

LEMMA CrossingMovesInflight ==
  ASSUME TypeOK, NEW t \in Calls, CrossingStep(t)
  PROVE  /\ UNCHANGED <<stopping, stopped>>
         /\ \/ inflightBar' = inflightBar
            \/ ~Halting /\ t \notin inflightBar /\ inflightBar' = inflightBar \cup {t}
            \/ t \in inflightBar /\ inflightBar' = inflightBar \ {t}
<1> USE DEF TypeOK, inflightBar, Counted, CountedPoints, Goto, flags
<1>1. CASE ~Halting /\ BeginCall(t)
  <2>1. /\ UNCHANGED <<stopping, stopped>>
        /\ pc[t] = "begin"
        /\ \E there \in {"acquire", "ensure"} : pc' = [pc EXCEPT ![t] = there]
    BY <1>1 DEF BeginCall
  <2> QED
    BY <1>1, <2>1
<1>2. CASE TakeSlots(t)
  BY <1>2 DEF TakeSlots, AtPool
<1>3. CASE FindPoolBusy(t) \/ Block(t)
  BY <1>3 DEF FindPoolBusy, Block, AtPool
<1>4. CASE Release(t)
  BY <1>4 DEF Release
<1>5. CASE Finish(t)
  <2>1. /\ UNCHANGED <<stopping, stopped>>
        /\ pc[t] = "finish"
        /\ \E there \in {"notifyIdle", "leave"} : pc' = [pc EXCEPT ![t] = there]
    BY <1>5 DEF Finish
  <2> QED
    BY <2>1
<1> QED
  BY <1>1, <1>2, <1>3, <1>4, <1>5 DEF CrossingStep

\* Only stop() moves the phase, from accepting to stopping when it begins and
\* from stopping to stopped when nobody is in flight.
LEMMA StopMovesPhase ==
  ASSUME ThreadInv, StopInv, NEW p \in Stoppers,
         StopBegin(p) \/ StopStep(p) \/ DrainTimesOut(p) \/ WakeStopUnasked(p)
  PROVE  \/ phaseBar' = phaseBar
         \/ phaseBar = "accepting" /\ phaseBar' = "stopping"
         \/ phaseBar = "stopping" /\ inflightBar = {} /\ phaseBar' = "stopped"
<1> USE DEF phaseBar, flags
<1>1. CASE StopBegin(p)
  BY <1>1 DEF StopBegin
<1>2. CASE Finalize(p)
  <2>1. \A u \in Upstreams : CountedOn(u) = {}
    BY <1>2 DEF Finalize, StopInv, NobodyLeft
  <2>2. inflightBar = {}
    BY <2>1 DEF inflightBar, CountedOn, ThreadInv, TypeOK
  <2>3. stopping \/ stopped
    BY <1>2 DEF Finalize, StopInv, HaltingWhileInStop, Halting
  <2> QED
    BY <1>2, <2>2, <2>3 DEF Finalize
<1>3. CASE NotifyWaiters(p) \/ StopEndpoint(p) \/ CheckDrained(p) \/ CloseSessions(p)
  BY <1>3 DEF NotifyWaiters, StopEndpoint, CheckDrained, CloseSessions
<1>4. CASE DrainTimesOut(p) \/ WakeStopUnasked(p)
  BY <1>4 DEF DrainTimesOut, WakeStopUnasked
<1> QED
  BY <1>1, <1>2, <1>3, <1>4 DEF StopStep

LEMMA StepRefines ==
  ASSUME ThreadInv, StopInv, [Next]_vars
  PROVE  [Abstract!LifecycleNext]_<<phaseBar, inflightBar>>
<1> USE DEF Abstract!LifecycleNext, Abstract!Admit, Abstract!Retire,
        Abstract!RequestStop, Abstract!EndStop
<1>1. ASSUME NEW t \in Calls,
             Start(t) \/ CallStep(t) \/ AcquireTimesOut(t) \/ WakeUnasked(t)
      PROVE  [Abstract!LifecycleNext]_<<phaseBar, inflightBar>>
  <2>1. phaseBar' = phaseBar
    BY <1>1, CallKeepsStopSide DEF ThreadInv, StopSideKept, phaseBar
  <2>2. PoolFrame \/ CrossingStep(t)
    BY <1>1, CallFrame DEF ThreadInv
  <2>3. \/ inflightBar' = inflightBar
        \/ ~Halting /\ t \notin inflightBar /\ inflightBar' = inflightBar \cup {t}
        \/ t \in inflightBar /\ inflightBar' = inflightBar \ {t}
    BY <2>2, FrameKeepsInflight, CrossingMovesInflight DEF ThreadInv
  <2> QED
    BY <2>1, <2>3 DEF phaseBar, Halting
<1>2. ASSUME NEW p \in Stoppers,
             StopBegin(p) \/ StopStep(p) \/ DrainTimesOut(p) \/ WakeStopUnasked(p)
      PROVE  [Abstract!LifecycleNext]_<<phaseBar, inflightBar>>
  <2>1. inflightBar' = inflightBar
    BY <1>2, StopFrame, FrameKeepsInflight DEF ThreadInv
  <2> QED
    BY <1>2, <2>1, StopMovesPhase
<1>3. ASSUME \/ \E u \in Upstreams, s \in Slots : SessionDies(u, s)
             \/ StartHttp \/ EndpointExits \/ UNCHANGED vars
      PROVE  UNCHANGED <<phaseBar, inflightBar>>
  BY <1>3 DEF SessionDies, StartHttp, EndpointExits, vars, flags, callVars,
     phaseBar, inflightBar, Counted
<1> QED
  BY <1>1, <1>2, <1>3 DEF Next

\* Every execution of the runtime is one of the abstract lifecycle: admitted
\* only while accepting, stopped only when nothing is in flight
\* (docs/gateway_scope.md:537-550).
THEOREM RuntimeImplementsLifecycle == Spec => ImplementsLifecycle
<1>1. Init => Abstract!LifecycleInit
  BY DEF Init, Abstract!LifecycleInit, phaseBar, inflightBar, Counted, CountedPoints
<1>2. ThreadInv /\ StopInv /\ [Next]_vars
        => [Abstract!LifecycleNext]_<<phaseBar, inflightBar>>
  BY StepRefines
<1> QED
  BY <1>1, <1>2, ShutdownInvariant, PTL
  DEF Spec, ImplementsLifecycle, Abstract!LifecycleSpec, Abstract!lifecycleVars

(***************************************************************************)
(* The pool of each upstream implements SessionPool.                       *)
(***************************************************************************)

-----------------------------------------------------------------------------
(* What the observed pool sees of a step.                                  *)

\* Nobody but t moves.
OthersStay(t) ==
  \A w \in Calls : w # t => /\ pc'[w] = pc[w] /\ op'[w] = op[w]
                            /\ target'[w] = target[w] /\ held'[w] = held[w]

\* What belongs to stop(), as the pool sees it.
StopsideStays == UNCHANGED <<stopping, stopped, spc>>

\* What a thread is seen to do changes for t only.
LEMMA OneMoves ==
  ASSUME NEW t \in Calls, OthersStay(t)
  PROVE  /\ pointBar' = [pointBar EXCEPT ![t] = pointBar'[t]]
         /\ kindBar'  = [kindBar  EXCEPT ![t] = kindBar'[t]]
         /\ heldBar'  = [heldBar  EXCEPT ![t] = heldBar'[t]]
<1>1. \A w \in Calls : w # t => /\ pointBar'[w] = pointBar[w]
                                /\ kindBar'[w] = kindBar[w]
                                /\ heldBar'[w] = heldBar[w]
  BY DEF OthersStay, pointBar, kindBar, heldBar
<1>2. /\ pointBar = [w \in Calls |-> pointBar[w]] /\ pointBar' = [w \in Calls |-> pointBar'[w]]
      /\ kindBar = [w \in Calls |-> kindBar[w]] /\ kindBar' = [w \in Calls |-> kindBar'[w]]
      /\ heldBar = [w \in Calls |-> heldBar[w]] /\ heldBar' = [w \in Calls |-> heldBar'[w]]
  BY DEF pointBar, kindBar, heldBar
<1> QED
  BY <1>1, <1>2

\* A thread that owns no slot and stays outside the pool is not seen.
LEMMA Unseen ==
  ASSUME ThreadInv, NEW t \in Calls, OthersStay(t), StopsideStays,
         inUse'[Observed] = inUse[Observed], poolMutex'[Observed] = poolMutex[Observed],
         pointBar'[t] = pointBar[t], kindBar'[t] = kindBar[t], heldBar'[t] = heldBar[t]
  PROVE  UNCHANGED Pool!poolVars
<1>1. pointBar' = pointBar /\ kindBar' = kindBar /\ heldBar' = heldBar
  <2>1. \A w \in Calls : /\ pointBar'[w] = pointBar[w]
                         /\ kindBar'[w] = kindBar[w]
                         /\ heldBar'[w] = heldBar[w]
    BY DEF OthersStay, pointBar, kindBar, heldBar
  <2> QED
    BY <2>1 DEF pointBar, kindBar, heldBar
<1> QED
  BY <1>1 DEF StopsideStays, Halting, Pool!poolVars, Pool!stopSide

\* What is seen of one thread.
LEMMA Seen ==
  ASSUME NEW t \in Calls
  PROVE  /\ target[t] # Observed \/ pc[t] \notin HoldPoints \cup
                                      {"acquire", "window", "blocked", "signal"}
              => pointBar[t] = "out" /\ kindBar[t] = "call"
         /\ target[t] = Observed =>
              /\ pc[t] \in {"acquire", "window", "blocked", "signal"} =>
                   pointBar[t] = pc[t] /\ kindBar[t] = op[t]
              /\ pc[t] \in HoldPoints => pointBar[t] = "hold" /\ kindBar[t] = op[t]
         /\ heldBar[t] = IF target[t] = Observed THEN held[t] ELSE {}
  BY DEF pointBar, kindBar, heldBar, HoldPoints


\* Where the pool sees a thread outside.
OutPoints == {"idle", "begin", "finish", "notifyIdle", "leave"}

\* A thread that owns slots is seen to hold, or its slots are of another pool.
LEMMA OutOwnsNothing ==
  ASSUME ThreadInv, NEW t \in Calls, pc[t] \notin HoldPoints
  PROVE  held[t] = {} /\ heldBar[t] = {}
  BY Seen DEF ThreadInv, HoldersOnly

-----------------------------------------------------------------------------
(* The steps that the observed pool does not see.                          *)

\* A thread enters an operation, is refused one, ends one or goes on to the
\* next upstream: it is outside the pool before and after.
LEMMA OutsideStutters ==
  ASSUME ThreadInv, Persistent, NEW t \in Calls,
         Start(t) \/ (Halting /\ BeginCall(t)) \/ Finish(t) \/ Leave(t)
  PROVE  UNCHANGED Pool!poolVars
<1> USE DEF flags, upstreamVars, poolVars, stopVars, Goto
<1>1. /\ OthersStay(t) /\ StopsideStays
      /\ UNCHANGED <<inUse, poolMutex, held>>
      /\ pc[t] \in OutPoints /\ pc'[t] \in OutPoints
  <2> USE DEF ThreadInv, TypeOK, OthersStay, StopsideStays, OutPoints
  <2>1. CASE Start(t)
    BY <2>1 DEF Start, StartCall, StartRefresh, Enter
  <2>2. CASE Halting /\ BeginCall(t)
    BY <2>2 DEF BeginCall
  <2>3. CASE Finish(t)
    BY <2>3 DEF Finish
  <2>4. CASE Leave(t)
    BY <2>4 DEF Leave
  <2> QED
    BY <2>1, <2>2, <2>3, <2>4
<1>2. /\ pointBar[t] = "out" /\ kindBar[t] = "call"
      /\ pointBar'[t] = "out" /\ kindBar'[t] = "call"
  BY <1>1 DEF OutPoints, HoldPoints, pointBar, kindBar
<1>3. held[t] = {}
  BY <1>1, OutOwnsNothing DEF OutPoints, HoldPoints
<1>4. heldBar'[t] = heldBar[t]
  BY <1>1, <1>3 DEF heldBar
<1> QED
  BY <1>1, <1>2, <1>4, Unseen

\* A holder connects, uses and discards sessions: it goes on to hold.
LEMMA HoldingStutters ==
  ASSUME ThreadInv, Persistent, NEW t \in Calls,
         \/ KeepSession(t) \/ Connect(t) \/ ConnectFails(t) \/ Initialize(t)
         \/ OpenSession(t) \/ RecordSession(t) \/ Answer(t) \/ UpstreamFails(t)
         \/ Discard(t)
  PROVE  UNCHANGED Pool!poolVars
<1> USE DEF flags, upstreamVars, poolVars, stopVars, Goto
<1>1. /\ OthersStay(t) /\ StopsideStays
      /\ UNCHANGED <<inUse, poolMutex, held, target, op>>
      /\ pc[t] \in HoldPoints /\ pc'[t] \in HoldPoints
  <2> USE DEF ThreadInv, TypeOK, OthersStay, StopsideStays, HoldPoints
  <2>1. CASE KeepSession(t)
    BY <2>1 DEF KeepSession, Proceed
  <2>2. CASE Connect(t)
    BY <2>2 DEF Connect
  <2>3. CASE ConnectFails(t)
    BY <2>3 DEF ConnectFails, AfterFailure
  <2>4. CASE Initialize(t)
    BY <2>4 DEF Initialize
  <2>5. CASE OpenSession(t)
    BY <2>5 DEF OpenSession
  <2>9. CASE RecordSession(t)
    BY <2>9 DEF RecordSession, Proceed
  <2>6. CASE Answer(t)
    BY <2>6 DEF Answer
  <2>7. CASE UpstreamFails(t)
    BY <2>7 DEF UpstreamFails, AfterFailure
  <2>8. CASE Discard(t)
    BY <2>8 DEF Discard
  <2> QED
    BY <2>1, <2>2, <2>3, <2>4, <2>5, <2>6, <2>7, <2>8, <2>9
<1>2. pointBar'[t] = pointBar[t] /\ kindBar'[t] = kindBar[t] /\ heldBar'[t] = heldBar[t]
  BY <1>1 DEF HoldPoints, pointBar, kindBar, heldBar
<1> QED
  BY <1>1, <1>2, Unseen

\* Whatever a thread does at another upstream's pool, except notifying.
LEMMA ElsewhereStutters ==
  ASSUME ThreadInv, NEW t \in Calls, target[t] # Observed,
         \/ BeginCall(t) \/ RefuseSlot(t) \/ TakeSlots(t) \/ FindPoolBusy(t) \/ Block(t)
         \/ Release(t) \/ AcquireTimesOut(t) \/ WakeUnasked(t)
  PROVE  UNCHANGED Pool!poolVars
<1> USE DEF flags, upstreamVars, poolVars, stopVars, Goto
<1>1. /\ OthersStay(t) /\ StopsideStays /\ target'[t] = target[t]
      /\ inUse'[Observed] = inUse[Observed]
      /\ poolMutex'[Observed] = poolMutex[Observed]
  <2> USE DEF ThreadInv, TypeOK, OthersStay, StopsideStays
  <2>1. CASE BeginCall(t) \/ RefuseSlot(t)
    BY <2>1 DEF BeginCall, RefuseSlot
  <2>2. CASE TakeSlots(t)
    BY <2>2 DEF TakeSlots
  <2>3. CASE FindPoolBusy(t)
    BY <2>3 DEF FindPoolBusy
  <2>6. CASE Block(t)
    BY <2>6 DEF Block
  <2>4. CASE Release(t)
    BY <2>4 DEF Release
  <2>5. CASE AcquireTimesOut(t) \/ WakeUnasked(t)
    BY <2>5 DEF AcquireTimesOut, WakeUnasked
  <2> QED
    BY <2>1, <2>2, <2>3, <2>4, <2>5, <2>6
<1>2. pointBar'[t] = pointBar[t] /\ kindBar'[t] = kindBar[t] /\ heldBar'[t] = heldBar[t]
  BY <1>1 DEF pointBar, kindBar, heldBar
<1> QED
  BY <1>1, <1>2, Unseen


\* The end of the last operation wakes stop(), not the pool.
LEMMA IdleStutters ==
  ASSUME ThreadInv, NEW t \in Calls, NotifyIdle(t)
  PROVE  UNCHANGED Pool!poolVars
<1>1. /\ UNCHANGED <<stopping, stopped, inUse, poolMutex, held, target, op>>
      /\ \A p \in Stoppers : spc'[p] = "notify" <=> spc[p] = "notify"
      /\ pc[t] = "notifyIdle" /\ pc'[t] = "leave"
      /\ \A w \in Calls : w # t => pc'[w] = pc[w]
  BY DEF NotifyIdle, Goto, flags, poolVars, ThreadInv, TypeOK
<1>2. \A w \in Calls : pointBar'[w] = pointBar[w]
  BY <1>1 DEF pointBar, HoldPoints
<1>3. pointBar' = pointBar /\ kindBar' = kindBar /\ heldBar' = heldBar
  BY <1>1, <1>2 DEF pointBar, kindBar, heldBar
<1> QED
  BY <1>1, <1>3 DEF Halting, Pool!poolVars, Pool!stopSide

\* Sessions and endpoints that end, endpoints that start, and nothing at all.
LEMMA EnvironmentStutters ==
  ASSUME \/ \E u \in Upstreams, s \in Slots : SessionDies(u, s)
         \/ StartHttp \/ EndpointExits \/ UNCHANGED vars
  PROVE  UNCHANGED Pool!poolVars
<1>1. UNCHANGED <<stopping, stopped, spc, inUse, poolMutex, held, target, op, pc>>
  BY DEF SessionDies, StartHttp, EndpointExits, vars, flags, poolVars, callVars, stopVars
<1>2. pointBar' = pointBar
  BY <1>1 DEF pointBar
<1>3. kindBar' = kindBar /\ heldBar' = heldBar
  BY <1>1, <1>2 DEF kindBar, heldBar
<1> QED
  BY <1>1, <1>2, <1>3 DEF Halting, Pool!poolVars, Pool!stopSide

-----------------------------------------------------------------------------
(* The steps that it sees.                                                 *)

\* An operation that is admitted comes to the pool.
LEMMA BeginArrives ==
  ASSUME ThreadInv, Persistent, NEW t \in Calls, target[t] = Observed,
         ~Halting, BeginCall(t)
  PROVE  Pool!Arrive(t)
<1>1. /\ OthersStay(t) /\ StopsideStays
      /\ UNCHANGED <<inUse, poolMutex, held, target, op>>
      /\ pc[t] = "begin" /\ pc'[t] = "acquire"
  BY DEF BeginCall, Goto, flags, poolVars, stopVars, ThreadInv, TypeOK, OthersStay,
         StopsideStays
<1>2. /\ pointBar[t] = "out" /\ pointBar'[t] = "acquire" /\ kindBar'[t] = op[t]
      /\ heldBar' = heldBar
  BY <1>1 DEF pointBar, kindBar, heldBar, HoldPoints
<1>3. op[t] \in {"call", "refresh"}
  BY DEF ThreadInv, TypeOK
<1> QED
  BY <1>1, <1>2, <1>3, OneMoves
  DEF Pool!Arrive, Pool!Move, Pool!stopSide, StopsideStays, Halting

\* A waiter that finds the runtime halting, or waits too long, goes away.
LEMMA WaiterLeaves ==
  ASSUME ThreadInv, NEW t \in Calls, target[t] = Observed
  PROVE  /\ RefuseSlot(t) => Pool!Refuse(t)
         /\ AcquireTimesOut(t) => Pool!GiveUp(t)
<1> SUFFICES ASSUME RefuseSlot(t) \/ AcquireTimesOut(t)
             PROVE  /\ RefuseSlot(t) => Pool!Refuse(t)
                    /\ AcquireTimesOut(t) => Pool!GiveUp(t)
  OBVIOUS
<1>1. /\ OthersStay(t) /\ StopsideStays
      /\ UNCHANGED <<inUse, poolMutex, held, target, op>>
      /\ pc[t] \in {"acquire", "blocked"} /\ pc'[t] = "finish"
      /\ poolMutex[Observed] = NoThread
  BY DEF RefuseSlot, AcquireTimesOut, AtPool, Goto, flags, poolVars, stopVars,
         ThreadInv, TypeOK, OthersStay, StopsideStays
<1>2. /\ pointBar[t] = pc[t] /\ kindBar[t] = op[t]
      /\ pointBar'[t] = "out" /\ kindBar'[t] = "call"
      /\ heldBar' = heldBar
  BY <1>1 DEF pointBar, kindBar, heldBar, HoldPoints
<1>3. /\ Pool!Leaving(t)
      /\ UNCHANGED <<Pool!stopSide, inUse[Observed], poolMutex[Observed], heldBar>>
  BY <1>1, <1>2, OneMoves
  DEF Pool!Leaving, Pool!Move, Pool!stopSide, StopsideStays, Halting
<1>4. RefuseSlot(t) => Pool!Refuse(t)
  BY <1>1, <1>2, <1>3 DEF RefuseSlot, AtPool, Pool!Refuse
<1>5. ASSUME AcquireTimesOut(t) PROVE Pool!GiveUp(t)
  <2>1. AcquireBounded /\ pc[t] = "blocked" /\ ~Halting /\ ~SlotsAvailable(t)
    BY <1>5 DEF AcquireTimesOut
  <2>2. ~Pool!Available(t)
    BY <1>2, <2>1 DEF SlotsAvailable, Pool!Available, Pool!Slots, Slots
  <2> QED
    BY <1>1, <1>2, <1>3, <2>1, <2>2 DEF Pool!GiveUp
<1> QED
  BY <1>4, <1>5

\* A waiter that wakes without a reason looks again.
LEMMA WaiterWakes ==
  ASSUME ThreadInv, NEW t \in Calls, target[t] = Observed, WakeUnasked(t)
  PROVE  Pool!WakeUnasked(t)
<1>1. /\ OthersStay(t) /\ StopsideStays
      /\ UNCHANGED <<inUse, poolMutex, held, target, op>>
      /\ pc[t] = "blocked" /\ pc'[t] = "acquire"
  BY DEF WakeUnasked, Goto, flags, poolVars, stopVars, ThreadInv, TypeOK, OthersStay,
         StopsideStays
<1>2. /\ pointBar[t] = "blocked" /\ pointBar'[t] = "acquire" /\ kindBar'[t] = kindBar[t]
      /\ heldBar' = heldBar
  BY <1>1 DEF pointBar, kindBar, heldBar, HoldPoints
<1>3. kindBar' = kindBar
  BY <1>1, <1>2 DEF OthersStay, kindBar, pointBar
<1> QED
  BY <1>1, <1>2, <1>3, OneMoves
  DEF Pool!WakeUnasked, Pool!Move, Pool!stopSide, StopsideStays, Halting


\* A call takes the first free slot and a prewarm all of them.
LEMMA SlotsAreTaken ==
  ASSUME ThreadInv, NEW t \in Calls, target[t] = Observed, TakeSlots(t)
  PROVE  Pool!Take(t)
<1>1. PICK s \in Slots \ inUse[Observed] :
        /\ \A r \in Slots \ inUse[Observed] : s <= r
        /\ held' = [held EXCEPT ![t] = IF op[t] = "call" THEN {s} ELSE Slots]
        /\ inUse' = [inUse EXCEPT ![Observed] =
                       @ \cup (IF op[t] = "call" THEN {s} ELSE Slots)]
  BY DEF TakeSlots
<1> DEFINE taken == IF op[t] = "call" THEN {s} ELSE Slots
<1>2. /\ UNCHANGED <<stopping, stopped, spc, poolMutex, target, op>>
      /\ pc[t] = "acquire" /\ pc' = [pc EXCEPT ![t] = "ensure"]
      /\ poolMutex[Observed] = NoThread /\ ~Halting /\ SlotsAvailable(t)
  BY DEF TakeSlots, AtPool, Goto, flags, stopVars
<1>3. /\ held'[t] = taken /\ inUse'[Observed] = inUse[Observed] \cup taken
      /\ pc'[t] = "ensure" /\ OthersStay(t) /\ StopsideStays
  BY <1>1, <1>2, ObservedAssumption DEF ThreadInv, TypeOK, OthersStay, StopsideStays
<1>4. /\ pointBar[t] = "acquire" /\ kindBar[t] = op[t] /\ pointBar'[t] = "hold"
      /\ kindBar'[t] = op[t] /\ heldBar'[t] = taken
  BY <1>2, <1>3 DEF pointBar, kindBar, heldBar, HoldPoints
<1>5. kindBar' = kindBar
  BY <1>3, <1>4 DEF OthersStay, kindBar, pointBar
<1>6. /\ pointBar' = [pointBar EXCEPT ![t] = "hold"]
      /\ heldBar' = [heldBar EXCEPT ![t] = taken]
  BY <1>3, <1>4, OneMoves
<1>7. Pool!Available(t)
  BY <1>2, <1>4 DEF SlotsAvailable, Pool!Available, Pool!Slots, Slots
<1>8. \E r \in Pool!Slots \ inUse[Observed] :
        /\ \A q \in Pool!Slots \ inUse[Observed] : r <= q
        /\ heldBar' = [heldBar EXCEPT ![t] = IF kindBar[t] = "call" THEN {r} ELSE Pool!Slots]
  BY <1>1, <1>4, <1>6 DEF Pool!Slots, Slots
<1>9. inUse'[Observed] = inUse[Observed] \cup heldBar'[t]
  BY <1>3, <1>4
<1> HIDE DEF taken
<1>10. UNCHANGED Pool!stopSide
  BY <1>3 DEF Pool!stopSide, StopsideStays, Halting
<1> QED
  BY <1>2, <1>4, <1>5, <1>6, <1>7, <1>8, <1>9, <1>10 DEF Pool!Take, Pool!Move

\* A waiter that finds no slots keeps the mutex until it sleeps.
LEMMA WaiterSleeps ==
  ASSUME ThreadInv, NEW t \in Calls, target[t] = Observed
  PROVE  /\ FindPoolBusy(t) => Pool!FindBusy(t)
         /\ Block(t) => Pool!Sleep(t)
<1> USE DEF flags, poolVars, stopVars, Goto, ThreadInv, TypeOK
<1>1. ASSUME FindPoolBusy(t) PROVE Pool!FindBusy(t)
  <2>1. /\ OthersStay(t) /\ StopsideStays
        /\ UNCHANGED <<inUse, held, target, op>>
        /\ pc[t] = "acquire" /\ pc'[t] = "window" /\ ~Halting /\ ~SlotsAvailable(t)
        /\ poolMutex[Observed] = NoThread /\ poolMutex'[Observed] = t
    BY <1>1, ObservedAssumption DEF FindPoolBusy, AtPool, OthersStay, StopsideStays
  <2>2. /\ pointBar[t] = "acquire" /\ pointBar'[t] = "window"
        /\ kindBar[t] = op[t] /\ kindBar'[t] = op[t] /\ heldBar' = heldBar
    BY <2>1 DEF pointBar, kindBar, heldBar
  <2>3. kindBar' = kindBar
    BY <2>1, <2>2 DEF OthersStay, kindBar, pointBar
  <2>4. ~Pool!Available(t)
    BY <2>1, <2>2 DEF SlotsAvailable, Pool!Available, Pool!Slots, Slots
  <2> QED
    BY <2>1, <2>2, <2>3, <2>4, OneMoves
    DEF Pool!FindBusy, Pool!Move, Pool!stopSide, StopsideStays, Halting
<1>2. ASSUME Block(t) PROVE Pool!Sleep(t)
  <2>1. /\ OthersStay(t) /\ StopsideStays
        /\ UNCHANGED <<inUse, held, target, op>>
        /\ pc[t] = "window" /\ pc'[t] = "blocked" /\ poolMutex'[Observed] = NoThread
    BY <1>2, ObservedAssumption DEF Block, OthersStay, StopsideStays
  <2>2. /\ pointBar[t] = "window" /\ pointBar'[t] = "blocked"
        /\ kindBar[t] = op[t] /\ kindBar'[t] = op[t] /\ heldBar' = heldBar
    BY <2>1 DEF pointBar, kindBar, heldBar
  <2>3. kindBar' = kindBar
    BY <2>1, <2>2 DEF OthersStay, kindBar, pointBar
  <2> QED
    BY <2>1, <2>2, <2>3, OneMoves
    DEF Pool!Sleep, Pool!Move, Pool!stopSide, StopsideStays, Halting
<1> QED
  BY <1>1, <1>2

\* A holder gives back what it owns.
LEMMA SlotsAreReturned ==
  ASSUME ThreadInv, NEW t \in Calls, target[t] = Observed, Release(t)
  PROVE  Pool!PutBack(t)
<1>1. /\ UNCHANGED <<stopping, stopped, spc, poolMutex, target, op>>
      /\ poolMutex[Observed] = NoThread
      /\ pc[t] = "release" /\ pc' = [pc EXCEPT ![t] = "signal"]
      /\ held' = [held EXCEPT ![t] = {}]
      /\ inUse' = [inUse EXCEPT ![Observed] = inUse[Observed] \ held[t]]
  BY DEF Release, StillUsed, Goto, flags, stopVars
<1>2. /\ pc'[t] = "signal" /\ held'[t] = {} /\ OthersStay(t) /\ StopsideStays
      /\ inUse'[Observed] = inUse[Observed] \ held[t]
  BY <1>1, ObservedAssumption DEF ThreadInv, TypeOK, OthersStay, StopsideStays
<1>3. /\ pointBar[t] = "hold" /\ pointBar'[t] = "signal"
      /\ kindBar[t] = op[t] /\ kindBar'[t] = op[t]
      /\ heldBar[t] = held[t] /\ heldBar'[t] = {}
  BY <1>1, <1>2 DEF pointBar, kindBar, heldBar, HoldPoints
<1>4. kindBar' = kindBar
  BY <1>2, <1>3 DEF OthersStay, kindBar, pointBar
<1> QED
  BY <1>1, <1>2, <1>3, <1>4, OneMoves
  DEF Pool!PutBack, Pool!Move, Pool!stopSide, StopsideStays, Halting

\* The sleepers of the observed pool are those that it sees sleep.
LEMMA SleepersSeen == Sleepers(Observed) = Pool!Sleeping
  BY DEF Sleepers, Pool!Sleeping, pointBar, HoldPoints

\* A thread that has given its slots back notifies the pool it gave them to.
LEMMA SignalNotifies ==
  ASSUME ThreadInv, NEW t \in Calls, Signal(t)
  PROVE  Pool!Notify(t) \/ UNCHANGED Pool!poolVars
<1>1. PICK woken \in SUBSET Sleepers(target[t]) :
        /\ IF op[t] = "refresh" THEN woken = Sleepers(target[t])
           ELSE Cardinality(woken) = IF Sleepers(target[t]) = {} THEN 0 ELSE 1
        /\ pc' = [w \in Calls |-> IF w \in woken THEN "acquire"
                                  ELSE IF w = t THEN "finish" ELSE pc[w]]
  BY DEF Signal
<1>2. /\ UNCHANGED <<stopping, stopped, spc, inUse, poolMutex, held, target, op>>
      /\ pc[t] = "signal"
  BY DEF Signal, flags, poolVars, stopVars
<1>3. heldBar' = heldBar /\ UNCHANGED Pool!stopSide
  BY <1>2 DEF heldBar, Pool!stopSide, Halting
<1>4. \A w \in woken : pc[w] = "blocked" /\ target[w] = target[t] /\ w # t
  BY <1>1, <1>2 DEF Sleepers
<1>5. CASE target[t] = Observed
  <2>1. pointBar' = [w \in Calls |-> IF w \in woken THEN "acquire"
                                     ELSE IF w = t THEN "out" ELSE pointBar[w]]
    <3>1. \A w \in Calls : pointBar'[w] = IF w \in woken THEN "acquire"
                                          ELSE IF w = t THEN "out" ELSE pointBar[w]
      BY <1>1, <1>2, <1>4, <1>5 DEF pointBar, HoldPoints
    <3> QED
      BY <3>1 DEF pointBar
  <2>2. kindBar' = [kindBar EXCEPT ![t] = "call"]
    <3>1. \A w \in Calls : kindBar'[w] = IF w = t THEN "call" ELSE kindBar[w]
      BY <1>1, <1>2, <1>4, <1>5, <2>1 DEF kindBar, pointBar, HoldPoints
    <3> QED
      BY <3>1 DEF kindBar
  <2>3. pointBar[t] = "signal" /\ kindBar[t] = op[t]
    BY <1>2, <1>5 DEF pointBar, kindBar
  <2>4. IF kindBar[t] = "refresh" \/ Pool!Sleeping = {} THEN woken = Pool!Sleeping
        ELSE \E w \in Pool!Sleeping : woken = {w}
    <3>1. IsFiniteSet(woken)
      BY <1>1, ThreadsAssumption, FS_Subset DEF Sleepers
    <3>2. woken \subseteq Pool!Sleeping
      BY <1>1, <1>5, SleepersSeen
    <3>3. CASE op[t] = "refresh"
      BY <1>1, <1>5, <2>3, <3>3, SleepersSeen
    <3>4. CASE op[t] # "refresh" /\ Pool!Sleeping = {}
      BY <3>2, <3>4
    <3>5. CASE op[t] # "refresh" /\ Pool!Sleeping # {}
      <4>1. Cardinality(woken) = 1
        BY <1>1, <1>5, <3>5, SleepersSeen
      <4>2. \E w : woken = {w}
        BY <3>1, <4>1, FS_Singleton
      <4> QED
        BY <2>3, <3>2, <3>5, <4>2
    <3> QED
      BY <3>3, <3>4, <3>5
  <2>5. woken \in SUBSET Pool!Sleeping
    BY <1>1, <1>5, SleepersSeen
  <2> QED
    BY <1>2, <1>3, <2>1, <2>2, <2>3, <2>4, <2>5 DEF Pool!Notify
<1>6. CASE target[t] # Observed
  <2>1. pointBar' = pointBar
    <3>1. \A w \in Calls : pointBar'[w] = pointBar[w]
      BY <1>1, <1>2, <1>4, <1>6 DEF pointBar
    <3> QED
      BY <3>1 DEF pointBar
  <2>2. kindBar' = kindBar
    BY <1>2, <2>1 DEF kindBar
  <2> QED
    BY <1>2, <1>3, <2>1, <2>2 DEF Pool!poolVars
<1> QED
  BY <1>5, <1>6


\* stop() sets the flag for every pool, and notifies them.
LEMMA StopHaltsPool ==
  ASSUME ThreadInv, StopInv, NEW p \in Stoppers,
         StopBegin(p) \/ StopStep(p) \/ DrainTimesOut(p) \/ WakeStopUnasked(p)
  PROVE  Pool!Halt(p) \/ Pool!NotifyAll(p) \/ UNCHANGED Pool!poolVars
<1> USE DEF flags, poolVars, callVars, GotoStop, ThreadInv, TypeOK
<1>1. CASE NotifyWaiters(p)
  <2>1. /\ UNCHANGED <<stopping, stopped, inUse, poolMutex, held, target, op>>
        /\ spc[p] = "notify" /\ spc'[p] = "endpoint"
        /\ \A q \in Stoppers : q # p => spc'[q] = spc[q]
        /\ pc' = [w \in Calls |-> IF pc[w] = "blocked" THEN "acquire" ELSE pc[w]]
    BY <1>1 DEF NotifyWaiters
  <2>2. {q \in Stoppers : spc'[q] = "notify"} = {q \in Stoppers : spc[q] = "notify"} \ {p}
    BY <2>1
  <2>3. \A w \in Calls : pointBar'[w] = IF w \in Pool!Sleeping THEN "acquire" ELSE pointBar[w]
    BY <2>1 DEF Pool!Sleeping, pointBar, HoldPoints
  <2>4. pointBar' = [w \in Calls |-> IF w \in Pool!Sleeping THEN "acquire" ELSE pointBar[w]]
    BY <2>3 DEF pointBar
  <2>5. \A w \in Calls : kindBar'[w] = kindBar[w]
    BY <2>1, <2>3 DEF kindBar, Pool!Sleeping
  <2>6. kindBar' = kindBar /\ heldBar' = heldBar
    BY <2>1, <2>5 DEF kindBar, heldBar
  <2> QED
    BY <2>1, <2>2, <2>4, <2>6 DEF Pool!NotifyAll, Halting
<1>2. CASE ~NotifyWaiters(p)
  <2>1. UNCHANGED <<inUse, poolMutex, held, target, op, pc>>
    BY <1>2 DEF StopBegin, StopStep, StopEndpoint, CheckDrained, CloseSessions, Finalize,
                DrainTimesOut, WakeStopUnasked
  <2>2. pointBar' = pointBar
    BY <2>1 DEF pointBar
  <2>3. kindBar' = kindBar /\ heldBar' = heldBar
    BY <2>1, <2>2 DEF kindBar, heldBar
  <2>4. \A q \in Stoppers : q # p => spc'[q] = spc[q]
    BY <1>2 DEF StopBegin, StopStep, StopEndpoint, CheckDrained, CloseSessions, Finalize,
                DrainTimesOut, WakeStopUnasked
  <2>5. CASE StopBegin(p) /\ ~stopped
    <3>1. spc[p] # "notify" /\ spc'[p] = "notify" /\ stopping'
      BY <2>5 DEF StopBegin
    <3>2. {q \in Stoppers : spc'[q] = "notify"} = {q \in Stoppers : spc[q] = "notify"} \cup {p}
      BY <2>4, <3>1
    <3> QED
      BY <2>1, <2>2, <2>3, <3>1, <3>2 DEF Pool!Halt, Halting
  <2>6. CASE ~(StopBegin(p) /\ ~stopped)
    <3>1. spc[p] # "notify" /\ spc'[p] # "notify" /\ Halting' = Halting
      <4>1. CASE StopBegin(p)
        BY <2>6, <4>1 DEF StopBegin, Halting
      <4>2. CASE Finalize(p)
        <5>1. Halting
          BY <4>2 DEF Finalize, StopInv, HaltingWhileInStop
        <5> QED
          BY <4>2, <5>1 DEF Finalize, Halting
      <4>3. CASE StopEndpoint(p) \/ CheckDrained(p) \/ CloseSessions(p)
        BY <4>3 DEF StopEndpoint, CheckDrained, CloseSessions, Halting
      <4>4. CASE DrainTimesOut(p) \/ WakeStopUnasked(p)
        BY <4>4 DEF DrainTimesOut, WakeStopUnasked, Halting
      <4> QED
        BY <1>2, <4>1, <4>2, <4>3, <4>4 DEF StopStep
    <3>2. {q \in Stoppers : spc'[q] = "notify"} = {q \in Stoppers : spc[q] = "notify"}
      BY <2>4, <3>1
    <3> QED
      BY <2>1, <2>2, <2>3, <3>1, <3>2 DEF Pool!poolVars, Pool!stopSide
  <2> QED
    BY <2>5, <2>6
<1> QED
  BY <1>1, <1>2

-----------------------------------------------------------------------------
(* The refinement.                                                         *)

\* Every step of a thread is a step of the observed pool, or not seen.
LEMMA CallRefinesPool ==
  ASSUME ThreadInv, Persistent, NEW t \in Calls,
         Start(t) \/ CallStep(t) \/ AcquireTimesOut(t) \/ WakeUnasked(t)
  PROVE  [Pool!PoolNext]_(Pool!poolVars)
<1>1. CASE Start(t) \/ (Halting /\ BeginCall(t)) \/ Finish(t) \/ Leave(t)
  BY <1>1, OutsideStutters
<1>2. CASE \/ KeepSession(t) \/ Connect(t) \/ ConnectFails(t) \/ Initialize(t)
           \/ OpenSession(t) \/ RecordSession(t) \/ Answer(t) \/ UpstreamFails(t)
           \/ Discard(t)
  BY <1>2, HoldingStutters
<1>3. CASE NotifyIdle(t)
  BY <1>3, IdleStutters
<1>4. CASE Signal(t)
  BY <1>4, SignalNotifies DEF Pool!PoolNext, Pool!PoolStep
<1>5. CASE \/ (~Halting /\ BeginCall(t)) \/ RefuseSlot(t) \/ TakeSlots(t) \/ FindPoolBusy(t)
           \/ Block(t) \/ Release(t) \/ AcquireTimesOut(t) \/ WakeUnasked(t)
  <2>1. CASE target[t] # Observed
    BY <1>5, <2>1, ElsewhereStutters
  <2>2. CASE target[t] = Observed
    BY <1>5, <2>2, BeginArrives, WaiterLeaves, WaiterWakes, SlotsAreTaken, WaiterSleeps,
       SlotsAreReturned
    DEF Pool!PoolNext, Pool!PoolStep
  <2> QED
    BY <2>1, <2>2
<1> QED
  BY <1>1, <1>2, <1>3, <1>4, <1>5 DEF CallStep

\* The pool of every upstream of a persistent runtime is a SessionPool: no path
\* of an operation takes a slot after stop() has begun, waits for one without the
\* mutex, gives one back without notifying or notifies another upstream's pool
\* (runtime.cpp:603-684, 1674-1699).
THEOREM RuntimeImplementsPool ==
  ASSUME Persistent PROVE Spec => ImplementsPool
<1>1. Init => Pool!PoolInit
  <2> SUFFICES ASSUME Init PROVE Pool!PoolInit
    OBVIOUS
  <2>1. /\ pointBar = [t \in Calls |-> "out"]
        /\ kindBar = [t \in Calls |-> "call"]
        /\ heldBar = [t \in Calls |-> {}]
    BY DEF Init, pointBar, kindBar, heldBar, HoldPoints
  <2>2. {p \in Stoppers : spc[p] = "notify"} = {}
    BY DEF Init
  <2> QED
    BY <2>1, <2>2, ObservedAssumption DEF Init, Pool!PoolInit, Halting
<1>2. ThreadInv /\ StopInv /\ [Next]_vars => [Pool!PoolNext]_(Pool!poolVars)
  <2> SUFFICES ASSUME ThreadInv, StopInv, [Next]_vars
               PROVE  [Pool!PoolNext]_(Pool!poolVars)
    OBVIOUS
  <2>1. ASSUME NEW t \in Calls,
               Start(t) \/ CallStep(t) \/ AcquireTimesOut(t) \/ WakeUnasked(t)
        PROVE  [Pool!PoolNext]_(Pool!poolVars)
    BY <2>1, CallRefinesPool
  <2>2. ASSUME NEW p \in Stoppers,
               StopBegin(p) \/ StopStep(p) \/ DrainTimesOut(p) \/ WakeStopUnasked(p)
        PROVE  [Pool!PoolNext]_(Pool!poolVars)
    BY <2>2, StopHaltsPool DEF Pool!PoolNext
  <2>3. ASSUME \/ \E u \in Upstreams, s \in Slots : SessionDies(u, s)
               \/ StartHttp \/ EndpointExits \/ UNCHANGED vars
        PROVE  [Pool!PoolNext]_(Pool!poolVars)
    BY <2>3, EnvironmentStutters
  <2> QED
    BY <2>1, <2>2, <2>3 DEF Next
<1> QED
  BY <1>1, <1>2, ShutdownInvariant, PTL DEF Spec, ImplementsPool, Pool!PoolSpec
=============================================================================
