-------------------------- MODULE ObservationProofs --------------------------
(***************************************************************************)
(* Theorems about Observation, for any finite number of operations and any *)
(* number of stoppers, inspectors, upstreams and slots.                    *)
(***************************************************************************)
EXTENDS Observation, FiniteSetTheorems, TLAPS

-----------------------------------------------------------------------------
(* The invariant.                                                          *)

Halting    == stopping \/ stopped
NobodyLeft == \A t \in Calls : pc[t] = "idle"

\* A thread between operations has nothing to report, no operation reports
\* stopped, and a slot that is in use is that of an operation on its upstream.
Holding ==
  /\ \A t \in Calls :
       /\ pc[t] = "idle" => unsaid[t] = Nothing
       /\ pc[t] \notin {"idle", "acquire", "finish"} => slot[t] # NoSlot
       /\ unsaid[t] # "stopped"
  /\ \A u \in Upstreams, s \in Slots : s \in inUse[u] =>
       \E t \in Calls : /\ target[t] = u /\ slot[t] = s
                        /\ pc[t] \notin {"idle", "acquire", "finish"}

\* What a stop() has achieved where it stands, and for good.
Halted ==
  /\ \A p \in Stoppers :
       /\ spc[p] # "idle" => Halting
       /\ spc[p] \in {"close", "finalize"} => NobodyLeft
       /\ spc[p] = "finalize" => \A u \in Upstreams : initialized[u] = {}
       /\ spc[p] \in {"sayStopped", "conclude"} => stopped
       /\ spc[p] \notin {"sayStopping", "sayStopped"} => at[p] = 1
  /\ stopped => NobodyLeft /\ \A u \in Upstreams : initialized[u] = {}
  /\ finished => stopped
  /\ \A u \in Upstreams :
       /\ status[u] = "stopped" <=> stopped
       /\ lastEvent[u] = "stopped" => stopped

\* A stopped upstream is reported stopped, or a stop() will report it.
ToldStopped ==
  \A u \in Upstreams : stopped =>
    \/ lastEvent[u] = "stopped"
    \/ \E p \in Stoppers :
         \/ spc[p] \in {"sayStopping", "drain", "close", "finalize"}
         \/ spc[p] = "sayStopped" /\ at[p] <= u

\* A change that met no other is reported as it is, or has been.
Uncrossed ==
  \A u \in Upstreams : ~crossed[u] =>
    /\ \A t \in Calls : target[t] = u /\ unsaid[t] # Nothing => unsaid[t] = status[u]
    /\ \A p \in Stoppers : Reporting(p, u) =>
         status[u] = IF spc[p] = "sayStopped" THEN "stopped" ELSE "stopping"
    /\ ~Unreported(u) => lastEvent[u] \in {Nothing, status[u]}

\* What an inspector has read as stopped was stopped, and at rest.
SeenAtRest ==
  \A i \in Inspectors, u \in Upstreams :
    seen[i][u].stopped => stopped /\ seen[i][u].atRest

Observing == Holding /\ Halted /\ ToldStopped /\ SeenAtRest

\* The inductive invariant.
Observed == ObservedTypeOK /\ Observing /\ Uncrossed

-----------------------------------------------------------------------------
(* Counting.                                                               *)

\* active_calls is zero exactly when no operation is on the upstream.
LEMMA ActiveIsZero ==
  ASSUME NEW u \in Upstreams
  PROVE  Active(u) = 0 <=> \A t \in Calls : pc[t] # "idle" => target[t] # u
<1> DEFINE X == {t \in Calls : pc[t] # "idle" /\ target[t] = u}
<1>1. IsFiniteSet(X)
  BY ThreadsAssumption, FS_Subset
<1>2. Cardinality(X) = 0 <=> X = {}
  BY <1>1, FS_EmptySet
<1> QED
  BY <1>2 DEF Active

\* The drain finds nobody.
LEMMA DrainedIsEmpty ==
  ASSUME Observed, Drained PROVE NobodyLeft
<1>1. \A t \in Calls : target[t] \in Upstreams
  BY DEF Observed, ObservedTypeOK
<1> QED
  BY <1>1, ActiveIsZero DEF Drained, NobodyLeft

\* And if nobody is left the drain succeeds, and a snapshot counts nothing.
LEMMA EmptyIsDrained ==
  ASSUME NobodyLeft PROVE \A u \in Upstreams : Active(u) = 0
  BY ActiveIsZero DEF NobodyLeft

-----------------------------------------------------------------------------
(* Types.                                                                  *)

\* The initial states are well typed.
LEMMA InitTypes == ObservedInit => ObservedTypeOK
<1> SUFFICES ASSUME ObservedInit PROVE ObservedTypeOK
  OBVIOUS
<1> USE ObservationAssumption DEF ObservedInit
<1>1. 1 \in Upstreams /\ 0 \in 0 .. UpstreamCount /\ 0 \in 0 .. MaxCalls
  BY DEF Upstreams
<1>2. Unread \in Reports
  BY DEF Unread, Reports
<1>3. seen \in [Inspectors -> [Upstreams -> Reports]]
  BY <1>2
<1> QED
  BY <1>1, <1>3 DEF ObservedTypeOK, NoSlot, Statuses, Nothing

\* A change of status keeps the types of what it changes.
LEMMA SetStatusTypes ==
  ASSUME Observed, NEW t \in Calls, NEW s \in Statuses,
         NEW there \in {"connect", "open", "use", "discard", "release"},
         SetStatus(t, s, there)
  PROVE  /\ status' \in [Upstreams -> Statuses]
         /\ crossed' \in [Upstreams -> BOOLEAN]
         /\ unsaid' \in [Calls -> Statuses \cup {Nothing}]
         /\ pc' \in [Calls -> {"idle", "acquire", "ensure", "connect", "open", "use",
                               "discard", "release", "finish"}]
<1>1. Unreported(target[t]) \in BOOLEAN
  BY DEF Unreported
<1> QED
  BY <1>1 DEF Observed, ObservedTypeOK, SetStatus, Goto

\* So does the change of every status that stop() makes.
LEMMA SetAllTypes ==
  ASSUME NEW s \in Statuses, SetAll(s)
  PROVE  /\ status' \in [Upstreams -> Statuses]
         /\ crossed' \in [Upstreams -> BOOLEAN]
<1>1. \A u \in Upstreams : Unreported(u) \in BOOLEAN
  BY DEF Unreported
<1> QED
  BY <1>1 DEF SetAll

\* The steps of operations keep the types.
LEMMA CallTypes ==
  ASSUME Observed, NEW t \in Calls, Begin(t) \/ CallStep(t)
  PROVE  ObservedTypeOK'
<1> USE DEF Observed, ObservedTypeOK, Goto, Ready, Statuses, Nothing,
        recordVars, poolVars, stopVars, inspectVars, eventVars
<1>1. CASE Report(t)
  BY <1>1 DEF Report
<1>2. CASE Begin(t)
  BY <1>2, ObservationAssumption DEF Begin
<1>3. CASE Acquire(t)
  <2>1. target[t] \in Upstreams
    OBVIOUS
  <2>2. CASE stopping \/ stopped
    BY <1>3, <2>2 DEF Acquire
  <2>3. CASE ~stopping /\ ~stopped
    <3>1. PICK s \in Slots : /\ slot' = [slot EXCEPT ![t] = s]
                             /\ inUse' = [inUse EXCEPT ![target[t]] = @ \cup {s}]
      BY <1>3, <2>3 DEF Acquire
    <3>2. inUse' \in [Upstreams -> SUBSET Slots]
      BY <2>1, <3>1
    <3> QED
      BY <1>3, <2>3, <3>1, <3>2 DEF Acquire
  <2> QED
    BY <2>2, <2>3
<1>4. CASE KeepSession(t)
  BY <1>4 DEF KeepSession
<1>5. CASE Connect(t)
  <2>1. SetStatus(t, "connecting", "connect")
    BY <1>5 DEF Connect
  <2>2. initialized' \in [Upstreams -> SUBSET Slots]
    BY <1>5 DEF Connect
  <2> QED
    BY <1>5, <2>1, <2>2, SetStatusTypes DEF Connect
<1>6. CASE Initialize(t)
  <2>1. SetStatus(t, "initialized", "open")
    BY <1>6 DEF Initialize
  <2> QED
    BY <1>6, <2>1, SetStatusTypes DEF Initialize
<1>7. CASE Install(t)
  <2>1. SetStatus(t, "healthy", "use")
    BY <1>7 DEF Install
  <2>2. slot[t] \in Slots
    BY <1>7 DEF Install, Observing, Holding
  <2>3. initialized' \in [Upstreams -> SUBSET Slots]
    BY <1>7, <2>2 DEF Install
  <2> QED
    BY <1>7, <2>1, <2>2, <2>3, SetStatusTypes DEF Install
<1>8. CASE Answer(t)
  <2>1. SetStatus(t, "healthy", "release")
    BY <1>8 DEF Answer
  <2> QED
    BY <1>8, <2>1, SetStatusTypes DEF Answer
<1>9. CASE Fail(t)
  <2>1. SetStatus(t, "degraded", "discard")
    BY <1>9 DEF Fail
  <2> QED
    BY <1>9, <2>1, SetStatusTypes DEF Fail
<1>10. CASE Discard(t)
  BY <1>10 DEF Discard
<1>11. CASE Release(t)
  BY <1>11 DEF Release
<1>12. CASE Finish(t)
  BY <1>12 DEF Finish
<1> QED
  BY <1>1, <1>2, <1>3, <1>4, <1>5, <1>6, <1>7, <1>8, <1>9, <1>10,
     <1>11, <1>12
  DEF CallStep

\* So do those of stop(),
LEMMA StopTypes ==
  ASSUME Observed, NEW p \in Stoppers, StopBegin(p) \/ StopStep(p) \/ DrainTimesOut(p)
  PROVE  ObservedTypeOK'
<1> USE DEF Observed, ObservedTypeOK, Turn, Statuses, Nothing, recordVars,
        poolVars, callVars, inspectVars, eventVars
<1>1. CASE StopBegin(p)
  <2>1. SetAll("stopping")
    BY <1>1 DEF StopBegin
  <2> QED
    BY <1>1, <2>1, SetAllTypes DEF StopBegin
<1>2. CASE Announce(p)
  BY <1>2 DEF Announce
<1>3. CASE SayStopping(p)
  <2>1. /\ lastEvent' \in [Upstreams -> Statuses \cup {Nothing}]
        /\ spc' \in [Stoppers -> {"idle", "announce", "sayStopping", "drain", "close",
                                 "finalize", "sayStopped", "conclude"}]
    BY <1>3 DEF SayStopping, SayNext
  <2>2. at' \in [Stoppers -> Upstreams]
    <3>1. CASE at[p] < UpstreamCount
      <4>1. at[p] + 1 \in Upstreams
        BY <3>1, ObservationAssumption DEF Upstreams
      <4> QED
        BY <1>3, <3>1, <4>1 DEF SayStopping, SayNext
    <3>2. CASE ~(at[p] < UpstreamCount)
      <4>1. 1 \in Upstreams
        BY ObservationAssumption DEF Upstreams
      <4> QED
        BY <1>3, <3>2, <4>1 DEF SayStopping, SayNext
    <3> QED
      BY <3>1, <3>2
  <2> QED
    BY <1>3, <2>1, <2>2 DEF SayStopping, SayNext
<1>4. CASE Drain(p)
  BY <1>4 DEF Drain
<1>5. CASE DrainTimesOut(p)
  BY <1>5 DEF DrainTimesOut
<1>6. CASE Close(p)
  BY <1>6 DEF Close
<1>7. CASE Finalize(p)
  <2>1. SetAll("stopped")
    BY <1>7 DEF Finalize
  <2> QED
    BY <1>7, <2>1, SetAllTypes DEF Finalize
<1>8. CASE SayStopped(p)
  <2>1. /\ lastEvent' \in [Upstreams -> Statuses \cup {Nothing}]
        /\ spc' \in [Stoppers -> {"idle", "announce", "sayStopping", "drain", "close",
                                 "finalize", "sayStopped", "conclude"}]
    BY <1>8 DEF SayStopped, SayNext
  <2>2. at' \in [Stoppers -> Upstreams]
    <3>1. CASE at[p] < UpstreamCount
      <4>1. at[p] + 1 \in Upstreams
        BY <3>1, ObservationAssumption DEF Upstreams
      <4> QED
        BY <1>8, <3>1, <4>1 DEF SayStopped, SayNext
    <3>2. CASE ~(at[p] < UpstreamCount)
      <4>1. 1 \in Upstreams
        BY ObservationAssumption DEF Upstreams
      <4> QED
        BY <1>8, <3>2, <4>1 DEF SayStopped, SayNext
    <3> QED
      BY <3>1, <3>2
  <2> QED
    BY <1>8, <2>1, <2>2 DEF SayStopped, SayNext
<1>9. CASE Conclude(p)
  BY <1>9 DEF Conclude
<1> QED
  BY <1>1, <1>2, <1>3, <1>4, <1>5, <1>6, <1>7, <1>8, <1>9
  DEF StopStep

\* and those of a snapshot.
LEMMA InspectTypes ==
  ASSUME Observed, NEW i \in Inspectors, ReadRecord(i) \/ ReadPool(i)
  PROVE  ObservedTypeOK'
<1> USE ObservationAssumption
    DEF Observed, ObservedTypeOK, recordVars, poolVars, callVars, stopVars, eventVars
<1>1. CASE ReadRecord(i)
  BY <1>1 DEF ReadRecord, RecordAtRest, Reports
<1>2. CASE ReadPool(i)
  <2>1. ipc[i] \in Upstreams
    BY <1>2 DEF ReadPool, Upstreams
  <2>2. ipc' \in [Inspectors -> 0 .. UpstreamCount]
    BY <1>2, <2>1 DEF ReadPool, Upstreams
  <2>3. seen' = [seen EXCEPT ![i] = [seen[i] EXCEPT ![ipc[i]] =
                   [seen[i][ipc[i]] EXCEPT !.atRest = @ /\ PoolAtRest(ipc[i])]]]
    BY <1>2 DEF ReadPool
  <2>4. seen[i] \in [Upstreams -> Reports] /\ seen[i][ipc[i]] \in Reports
    BY <2>1
  <2>5. [seen[i][ipc[i]] EXCEPT !.atRest = @ /\ PoolAtRest(ipc[i])] \in Reports
    BY <2>4 DEF Reports, PoolAtRest
  <2>6. seen' \in [Inspectors -> [Upstreams -> Reports]]
    BY <2>1, <2>3, <2>4, <2>5
  <2> QED
    BY <1>2, <2>2, <2>6 DEF ReadPool
<1> QED
  BY <1>1, <1>2

-----------------------------------------------------------------------------
(* What is stopped stays stopped and at rest, and is reported.             *)

\* Nothing is held, stopped or seen at first.
LEMMA InitObserving == ObservedInit => Observing
  BY DEF ObservedInit, Observing, Holding, Halted, ToldStopped, SeenAtRest, Halting,
         NobodyLeft, Nothing, Unread, NoSlot

\* The steps of operations: there are none once the runtime is stopped.
LEMMA CallObserving ==
  ASSUME Observed, NEW t \in Calls, Begin(t) \/ CallStep(t)
  PROVE  Observing'
<1> USE DEF Observed, ObservedTypeOK, Observing, Holding, Halted, ToldStopped,
        SeenAtRest, Halting, NobodyLeft, Goto, Ready, SetStatus, Statuses, Nothing,
        NoSlot, recordVars, poolVars, stopVars, inspectVars, eventVars
<1>1. CASE Report(t)
  BY <1>1 DEF Report
<1>2. CASE Begin(t)
  BY <1>2 DEF Begin
<1>3. CASE Acquire(t)
  <2>1. Halted' /\ ToldStopped' /\ SeenAtRest'
    BY <1>3 DEF Acquire
  <2>2. CASE stopping \/ stopped
    <3>1. pc' = [pc EXCEPT ![t] = "finish"] /\ UNCHANGED <<slot, inUse, target, unsaid>>
      BY <1>3, <2>2 DEF Acquire
    <3> QED
      BY <1>3, <2>1, <3>1 DEF Acquire
  <2>3. CASE ~stopping /\ ~stopped
    <3>1. PICK s \in Slots \ inUse[target[t]] :
             /\ slot' = [slot EXCEPT ![t] = s]
             /\ inUse' = [inUse EXCEPT ![target[t]] = @ \cup {s}]
      BY <1>3, <2>3 DEF Acquire
    <3>2. pc' = [pc EXCEPT ![t] = "ensure"] /\ UNCHANGED <<target, unsaid>>
      BY <1>3, <2>3 DEF Acquire
    <3>3. s # NoSlot /\ pc[t] = "acquire"
      BY <1>3, <3>1 DEF Acquire, Slots
    <3>4. \A w \in Calls : /\ pc'[w] = "idle" => unsaid'[w] = Nothing
                           /\ pc'[w] \notin {"idle", "acquire", "finish"} => slot'[w] # NoSlot
                           /\ unsaid'[w] # "stopped"
      BY <3>1, <3>2, <3>3
    <3>5. ASSUME NEW u \in Upstreams, NEW r \in Slots, r \in inUse'[u]
          PROVE  \E w \in Calls : /\ target'[w] = u /\ slot'[w] = r
                                  /\ pc'[w] \notin {"idle", "acquire", "finish"}
      <4>1. CASE u = target[t] /\ r = s
        BY <3>1, <3>2, <4>1
      <4>2. CASE ~(u = target[t] /\ r = s)
        <5>1. r \in inUse[u]
          BY <3>1, <3>5, <4>2
        <5>2. PICK w \in Calls : /\ target[w] = u /\ slot[w] = r
                                 /\ pc[w] \notin {"idle", "acquire", "finish"}
          BY <5>1
        <5>3. w # t
          BY <3>3, <5>2
        <5> QED
          BY <3>1, <3>2, <5>2, <5>3
      <4> QED
        BY <4>1, <4>2
    <3> QED
      BY <2>1, <3>4, <3>5
  <2> QED
    BY <2>2, <2>3
<1>4. CASE KeepSession(t)
  BY <1>4 DEF KeepSession
<1>5. CASE Connect(t)
  BY <1>5 DEF Connect
<1>6. CASE Initialize(t)
  BY <1>6 DEF Initialize
<1>7. CASE Install(t)
  <2>1. /\ ~stopped /\ stopped' = stopped /\ pc[t] = "open" /\ pc'[t] = "use"
        /\ \A p \in Stoppers : spc[p] # "finalize"
    BY <1>7 DEF Install
  <2>2. /\ \A w \in Calls : w # t => pc'[w] = pc[w] /\ unsaid'[w] = unsaid[w]
        /\ unsaid'[t] = "healthy" /\ UNCHANGED <<target, slot, inUse>>
    BY <1>7 DEF Install
  <2>3. Holding'
    <3>1. \A w \in Calls : /\ pc'[w] = "idle" => unsaid'[w] = Nothing
                           /\ pc'[w] \notin {"idle", "acquire", "finish"} => slot'[w] # NoSlot
                           /\ unsaid'[w] # "stopped"
      BY <2>1, <2>2
    <3>2. ASSUME NEW u \in Upstreams, NEW s \in Slots, s \in inUse'[u]
          PROVE  \E w \in Calls : /\ target'[w] = u /\ slot'[w] = s
                                  /\ pc'[w] \notin {"idle", "acquire", "finish"}
      <4>1. PICK w \in Calls : /\ target[w] = u /\ slot[w] = s
                               /\ pc[w] \notin {"idle", "acquire", "finish"}
        BY <2>2, <3>2
      <4>2. pc'[w] \notin {"idle", "acquire", "finish"}
        BY <2>1, <2>2, <4>1
      <4> QED
        BY <2>2, <4>1, <4>2
    <3> QED
      BY <3>1, <3>2
  <2>4. Halted'
    BY <1>7, <2>1 DEF Install
  <2> QED
    BY <1>7, <2>1, <2>3, <2>4 DEF Install
<1>8. CASE Answer(t)
  BY <1>8 DEF Answer
<1>9. CASE Fail(t)
  <2>1. /\ ~stopped /\ stopped' = stopped
        /\ pc[t] \in {"connect", "open", "use"} /\ pc'[t] = "discard"
    BY <1>9 DEF Fail
  <2>2. /\ \A w \in Calls : w # t => pc'[w] = pc[w] /\ unsaid'[w] = unsaid[w]
        /\ unsaid'[t] = "degraded" /\ UNCHANGED <<target, slot, inUse>>
    BY <1>9 DEF Fail
  <2>3. Holding'
    <3>1. \A w \in Calls : /\ pc'[w] = "idle" => unsaid'[w] = Nothing
                           /\ pc'[w] \notin {"idle", "acquire", "finish"} => slot'[w] # NoSlot
                           /\ unsaid'[w] # "stopped"
      BY <2>1, <2>2
    <3>2. ASSUME NEW u \in Upstreams, NEW s \in Slots, s \in inUse'[u]
          PROVE  \E w \in Calls : /\ target'[w] = u /\ slot'[w] = s
                                  /\ pc'[w] \notin {"idle", "acquire", "finish"}
      <4>1. PICK w \in Calls : /\ target[w] = u /\ slot[w] = s
                               /\ pc[w] \notin {"idle", "acquire", "finish"}
        BY <2>2, <3>2
      <4>2. pc'[w] \notin {"idle", "acquire", "finish"}
        BY <2>1, <2>2, <4>1
      <4> QED
        BY <2>2, <4>1, <4>2
    <3> QED
      BY <3>1, <3>2
  <2>4. Halted'
    BY <1>9, <2>1 DEF Fail
  <2> QED
    BY <1>9, <2>1, <2>3, <2>4 DEF Fail
<1>10. CASE Discard(t)
  BY <1>10 DEF Discard
<1>11. CASE Release(t)
  BY <1>11 DEF Release
<1>12. CASE Finish(t)
  BY <1>12 DEF Finish
<1> QED
  BY <1>1, <1>2, <1>3, <1>4, <1>5, <1>6, <1>7, <1>8, <1>9, <1>10,
     <1>11, <1>12
  DEF CallStep

\* The steps of stop().
LEMMA StopObserving ==
  ASSUME Observed, NEW p \in Stoppers, StopBegin(p) \/ StopStep(p) \/ DrainTimesOut(p)
  PROVE  Observing'
<1> USE ObservationAssumption
    DEF Observed, ObservedTypeOK, Observing, Holding, Halted, ToldStopped, SeenAtRest,
        Halting, NobodyLeft, Turn, SetAll, Nothing, Upstreams, recordVars, poolVars,
        callVars, inspectVars, eventVars
<1>1. CASE StopBegin(p)
  BY <1>1 DEF StopBegin
<1>2. CASE Announce(p)
  BY <1>2 DEF Announce
<1>3. CASE SayStopping(p)
  <2>1. /\ lastEvent' = [lastEvent EXCEPT ![at[p]] = "stopping"]
        /\ \A q \in Stoppers : q # p => spc'[q] = spc[q] /\ at'[q] = at[q]
        /\ \/ spc'[p] = "sayStopping"
           \/ spc'[p] = "drain" /\ at'[p] = 1
        /\ spc[p] = "sayStopping"
    BY <1>3 DEF SayStopping, SayNext
  <2>2. Holding' /\ SeenAtRest'
    BY <1>3 DEF SayStopping, SayNext
  <2>3. Halted'
    <3>1. UNCHANGED <<stopping, stopped, status, finished, pc, initialized>>
      BY <1>3 DEF SayStopping, SayNext
    <3>2. \A q \in Stoppers :
            /\ spc'[q] # "idle" => Halting
            /\ spc'[q] \in {"close", "finalize"} => NobodyLeft
            /\ spc'[q] = "finalize" => \A u \in Upstreams : initialized[u] = {}
            /\ spc'[q] \in {"sayStopped", "conclude"} => stopped
            /\ spc'[q] \notin {"sayStopping", "sayStopped"} => at'[q] = 1
      BY <2>1
    <3>3. \A u \in Upstreams : lastEvent'[u] = "stopped" => stopped
      BY <2>1
    <3> QED
      BY <3>1, <3>2, <3>3
  <2>4. ToldStopped'
    BY <2>1
  <2> QED
    BY <2>2, <2>3, <2>4
<1>4. CASE Drain(p)
  <2>1. NobodyLeft
    BY <1>4, DrainedIsEmpty DEF Drain
  <2> QED
    BY <1>4, <2>1 DEF Drain
<1>5. CASE DrainTimesOut(p)
  <2>1. ~stopped
    BY <1>5, EmptyIsDrained DEF DrainTimesOut, Drained
  <2> QED
    BY <1>5, <2>1 DEF DrainTimesOut
<1>6. CASE Close(p)
  BY <1>6 DEF Close
<1>7. CASE Finalize(p)
  <2>1. Holding' /\ Halted' /\ SeenAtRest'
    BY <1>7 DEF Finalize
  <2>2. at'[p] = 1 /\ spc'[p] = "sayStopped"
    BY <1>7 DEF Finalize
  <2>3. ToldStopped'
    BY <2>2
  <2> QED
    BY <2>1, <2>3
<1>8. CASE SayStopped(p)
  <2>1. stopped /\ stopped' /\ lastEvent' = [lastEvent EXCEPT ![at[p]] = "stopped"]
    BY <1>8 DEF SayStopped, SayNext
  <2>2. \A q \in Stoppers : q # p => spc'[q] = spc[q] /\ at'[q] = at[q]
    BY <1>8 DEF SayStopped, SayNext
  <2>3. \/ at[p] < UpstreamCount /\ spc'[p] = "sayStopped" /\ at'[p] = at[p] + 1
        \/ at[p] = UpstreamCount /\ spc'[p] = "conclude" /\ at'[p] = 1
    BY <1>8 DEF SayStopped, SayNext
  <2>4. Holding' /\ SeenAtRest'
    BY <1>8 DEF SayStopped, SayNext
  <2>5. Halted'
    BY <1>8, <2>1, <2>2, <2>3 DEF SayStopped, SayNext
  <2>6. ASSUME NEW u \in Upstreams, lastEvent'[u] # "stopped"
        PROVE  \E q \in Stoppers :
                 \/ spc'[q] \in {"sayStopping", "drain", "close", "finalize"}
                 \/ spc'[q] = "sayStopped" /\ at'[q] <= u
    <3>1. u # at[p] /\ lastEvent[u] # "stopped"
      BY <2>1, <2>6
    <3>2. PICK q \in Stoppers :
             \/ spc[q] \in {"sayStopping", "drain", "close", "finalize"}
             \/ spc[q] = "sayStopped" /\ at[q] <= u
      BY <2>1, <3>1
    <3>3. CASE q = p
      BY <1>8, <2>3, <3>1, <3>2, <3>3 DEF SayStopped
    <3>4. CASE q # p
      <4>1. spc'[q] = spc[q] /\ at'[q] = at[q]
        BY <2>2, <3>4
      <4> QED
        BY <3>2, <4>1
    <3> QED
      BY <3>3, <3>4
  <2> QED
    BY <2>4, <2>5, <2>6
<1>9. CASE Conclude(p)
  BY <1>9 DEF Conclude
<1> QED
  BY <1>1, <1>2, <1>3, <1>4, <1>5, <1>6, <1>7, <1>8, <1>9
  DEF StopStep

\* A snapshot that finds an upstream stopped finds it at rest, in both halves.
LEMMA InspectObserving ==
  ASSUME Observed, NEW i \in Inspectors, ReadRecord(i) \/ ReadPool(i)
  PROVE  Observing'
<1> USE DEF recordVars, poolVars, callVars, stopVars, eventVars, Halting, NobodyLeft
<1>1. UNCHANGED <<recordVars, poolVars, callVars, stopVars, eventVars>>
  BY DEF ReadRecord, ReadPool
<1>2. Holding' /\ Halted' /\ ToldStopped'
  BY <1>1 DEF Observed, Observing, Holding, Halted, ToldStopped
<1>3. /\ seen \in [Inspectors -> [Upstreams -> Reports]]
      /\ ipc \in [Inspectors -> 0 .. UpstreamCount]
  BY DEF Observed, ObservedTypeOK
<1>4. ASSUME stopped, NEW u \in Upstreams PROVE RecordAtRest(u) /\ PoolAtRest(u)
  <2>1. NobodyLeft
    BY <1>4 DEF Observed, Observing, Halted
  <2>2. inUse[u] \subseteq Slots
    BY DEF Observed, ObservedTypeOK
  <2>3. inUse[u] = {}
    BY <2>1, <2>2 DEF Observed, Observing, Holding
  <2> QED
    BY <1>4, <2>1, <2>3, EmptyIsDrained DEF Observed, Observing, Halted, RecordAtRest, PoolAtRest
<1>5. SeenAtRest'
  <2>1. CASE ReadRecord(i)
    <3>1. ASSUME NEW j \in Inspectors, NEW u \in Upstreams
          PROVE  seen'[j][u] = IF j = i THEN [stopped |-> status[u] = "stopped",
                                              atRest  |-> RecordAtRest(u)]
                                        ELSE seen[j][u]
      BY <1>3, <2>1 DEF ReadRecord
    <3>2. \A u \in Upstreams : status[u] = "stopped" => stopped
      BY DEF Observed, Observing, Halted
    <3>3. ASSUME NEW j \in Inspectors, NEW u \in Upstreams, seen'[j][u].stopped
          PROVE  stopped /\ seen'[j][u].atRest
      <4>1. CASE j = i
        <5> DEFINE a == status[u] = "stopped"
                   b == RecordAtRest(u)
        <5>1. seen'[j][u] = [stopped |-> a, atRest |-> b]
          BY <3>1, <4>1
        <5> HIDE DEF a, b
        <5>2. seen'[j][u].stopped = a /\ seen'[j][u].atRest = b
          BY <5>1
        <5>3. stopped
          BY <3>2, <3>3, <5>2 DEF a
        <5> QED
          BY <1>4, <5>2, <5>3 DEF b
      <4>2. CASE j # i
        BY <3>1, <3>3, <4>2 DEF Observed, Observing, SeenAtRest
      <4> QED
        BY <4>1, <4>2
    <3> QED
      BY <1>1, <3>3 DEF SeenAtRest
  <2>2. CASE ReadPool(i)
    <3>1. ipc[i] \in Upstreams
      BY <1>3, <2>2, ObservationAssumption DEF ReadPool, Upstreams
    <3>2. ASSUME NEW j \in Inspectors, NEW u \in Upstreams
          PROVE  /\ seen'[j][u].stopped = seen[j][u].stopped
                 /\ \/ seen'[j][u].atRest = seen[j][u].atRest
                    \/ seen'[j][u].atRest = (seen[j][u].atRest /\ PoolAtRest(u))
      BY <1>3, <2>2, <3>1 DEF ReadPool, Reports
    <3> QED
      BY <1>1, <1>4, <3>2 DEF Observed, Observing, SeenAtRest
  <2> QED
    BY <2>1, <2>2
<1> QED
  BY <1>2, <1>5 DEF Observing

-----------------------------------------------------------------------------
(* Reports that crossed no other.                                          *)

\* At first nothing has been reported.
LEMMA InitUncrossed == ObservedInit => Uncrossed
  BY DEF ObservedInit, Uncrossed, Nothing, Reporting

\* A step that neither changes a status nor reports one.
LEMMA UncrossedFrame ==
  ASSUME Uncrossed, UNCHANGED <<status, crossed, unsaid, lastEvent>>,
         \A t \in Calls : unsaid[t] # Nothing => target'[t] = target[t],
         \A p \in Stoppers, u \in Upstreams :
           /\ Reporting(p, u)' <=> Reporting(p, u)
           /\ spc'[p] = "sayStopped" <=> spc[p] = "sayStopped"
  PROVE  Uncrossed'
  BY DEF Uncrossed, Unreported

\* An operation changes a status and has it to report.
LEMMA ChangeUncrossed ==
  ASSUME Observed, NEW t \in Calls, NEW s \in Statuses, NEW there,
         SetStatus(t, s, there), UNCHANGED <<target, lastEvent, spc, at>>
  PROVE  Uncrossed'
<1>1. /\ target \in [Calls -> Upstreams]
      /\ unsaid \in [Calls -> Statuses \cup {Nothing}]
      /\ status \in [Upstreams -> Statuses]
      /\ crossed \in [Upstreams -> BOOLEAN]
  BY DEF Observed, ObservedTypeOK
<1>2. \A p \in Stoppers, u \in Upstreams : Reporting(p, u)' <=> Reporting(p, u)
  BY DEF Reporting
<1> SUFFICES ASSUME NEW u \in Upstreams, ~crossed'[u]
             PROVE  /\ \A w \in Calls : target'[w] = u /\ unsaid'[w] # Nothing
                                          => unsaid'[w] = status'[u]
                    /\ \A p \in Stoppers : Reporting(p, u)' => status'[u] =
                         IF spc'[p] = "sayStopped" THEN "stopped" ELSE "stopping"
                    /\ ~Unreported(u)' => lastEvent'[u] \in {Nothing, status'[u]}
  BY DEF Uncrossed
<1>3. CASE u = target[t]
  <2>1. ~Unreported(u) /\ status'[u] = s /\ unsaid'[t] = s
    BY <1>1, <1>3 DEF SetStatus
  <2>2. \A w \in Calls : w # t => unsaid'[w] = unsaid[w]
    BY <1>1 DEF SetStatus
  <2>3. s # Nothing
    BY DEF Statuses, Nothing
  <2>4. Unreported(u)'
    BY <1>3, <2>1, <2>3 DEF Unreported
  <2> QED
    BY <1>2, <2>1, <2>2, <2>4 DEF Unreported
<1>4. CASE u # target[t]
  <2>1. ~crossed[u] /\ status'[u] = status[u]
    BY <1>1, <1>4 DEF SetStatus
  <2>2. \A w \in Calls : target[w] = u => unsaid'[w] = unsaid[w]
    BY <1>1, <1>4 DEF SetStatus
  <2>3. Unreported(u)' <=> Unreported(u)
    BY <1>2, <2>2 DEF Unreported
  <2> QED
    BY <1>2, <2>1, <2>2, <2>3 DEF Observed, Uncrossed
<1> QED
  BY <1>3, <1>4

\* It reports what it has changed.
LEMMA ReportUncrossed ==
  ASSUME Observed, NEW t \in Calls, Report(t) PROVE Uncrossed'
<1>1. /\ target \in [Calls -> Upstreams]
      /\ unsaid \in [Calls -> Statuses \cup {Nothing}]
      /\ lastEvent \in [Upstreams -> Statuses \cup {Nothing}]
  BY DEF Observed, ObservedTypeOK
<1>2. /\ UNCHANGED <<status, crossed, target, spc, at>>
      /\ unsaid[t] # Nothing
      /\ lastEvent' = [lastEvent EXCEPT ![target[t]] = unsaid[t]]
      /\ unsaid' = [unsaid EXCEPT ![t] = Nothing]
  BY DEF Report, recordVars, stopVars
<1>3. \A p \in Stoppers, u \in Upstreams : Reporting(p, u)' <=> Reporting(p, u)
  BY <1>2 DEF Reporting
<1>4. ASSUME NEW u \in Upstreams, ~crossed[u]
      PROVE  ~Unreported(u)' => lastEvent'[u] \in {Nothing, status'[u]}
  <2>1. CASE u = target[t]
    BY <1>1, <1>2, <1>4, <2>1 DEF Observed, Uncrossed
  <2>2. CASE u # target[t]
    <3>1. Unreported(u)' <=> Unreported(u)
      BY <1>1, <1>2, <1>3, <2>2 DEF Unreported
    <3> QED
      BY <1>1, <1>2, <1>4, <2>2, <3>1 DEF Observed, Uncrossed
  <2> QED
    BY <2>1, <2>2
<1>5. ASSUME NEW w \in Calls PROVE unsaid'[w] # Nothing => unsaid'[w] = unsaid[w]
  BY <1>1, <1>2
<1> QED
  BY <1>2, <1>3, <1>4, <1>5 DEF Observed, Uncrossed

\* The other steps of operations leave reports alone.
LEMMA CallUncrossed ==
  ASSUME Observed, NEW t \in Calls, Begin(t) \/ CallStep(t)
  PROVE  Uncrossed'
<1> USE DEF Goto, Ready, recordVars, poolVars, stopVars, inspectVars, eventVars
<1>a. Uncrossed /\ target \in [Calls -> Upstreams]
  BY DEF Observed, ObservedTypeOK
<1>1. CASE Report(t)
  BY <1>1, ReportUncrossed
<1>2. CASE Begin(t)
  BY <1>2, <1>a, UncrossedFrame DEF Begin, Reporting
<1>3. CASE Acquire(t)
  BY <1>3, <1>a, UncrossedFrame DEF Acquire, Reporting
<1>4. CASE KeepSession(t)
  BY <1>4, <1>a, UncrossedFrame DEF KeepSession, Reporting
<1>5. CASE Connect(t)
  <2>1. SetStatus(t, "connecting", "connect") /\ "connecting" \in Statuses
    BY <1>5 DEF Connect, Statuses
  <2> QED
    BY <1>5, <2>1, ChangeUncrossed DEF Connect
<1>6. CASE Initialize(t)
  <2>1. SetStatus(t, "initialized", "open") /\ "initialized" \in Statuses
    BY <1>6 DEF Initialize, Statuses
  <2> QED
    BY <1>6, <2>1, ChangeUncrossed DEF Initialize
<1>7. CASE Install(t)
  <2>1. SetStatus(t, "healthy", "use") /\ "healthy" \in Statuses
    BY <1>7 DEF Install, Statuses
  <2> QED
    BY <1>7, <2>1, ChangeUncrossed DEF Install
<1>8. CASE Answer(t)
  <2>1. SetStatus(t, "healthy", "release") /\ "healthy" \in Statuses
    BY <1>8 DEF Answer, Statuses
  <2> QED
    BY <1>8, <2>1, ChangeUncrossed DEF Answer
<1>9. CASE Fail(t)
  <2>1. SetStatus(t, "degraded", "discard") /\ "degraded" \in Statuses
    BY <1>9 DEF Fail, Statuses
  <2> QED
    BY <1>9, <2>1, ChangeUncrossed DEF Fail
<1>10. CASE Discard(t)
  BY <1>10, <1>a, UncrossedFrame DEF Discard, Reporting
<1>11. CASE Release(t)
  BY <1>11, <1>a, UncrossedFrame DEF Release, Reporting
<1>12. CASE Finish(t)
  BY <1>12, <1>a, UncrossedFrame DEF Finish, Reporting
<1> QED
  BY <1>1, <1>2, <1>3, <1>4, <1>5, <1>6, <1>7, <1>8, <1>9, <1>10,
     <1>11, <1>12
  DEF CallStep

\* stop() changes every status, and has them all to report.
LEMMA StopChangeUncrossed ==
  ASSUME Observed, NEW p \in Stoppers, StopBegin(p) \/ Finalize(p) PROVE Uncrossed'
<1>1. /\ spc \in [Stoppers -> {"idle", "announce", "sayStopping", "drain", "close",
                               "finalize", "sayStopped", "conclude"}]
      /\ at \in [Stoppers -> Upstreams] /\ at[p] = 1
  BY DEF Observed, ObservedTypeOK, Observing, Halted, StopBegin, Finalize
<1>2. PICK s \in {"stopping", "stopped"} :
        /\ SetAll(s)
        /\ spc' = [spc EXCEPT ![p] = IF s = "stopped" THEN "sayStopped" ELSE "announce"]
        /\ UNCHANGED <<unsaid, target, at, lastEvent>>
  BY DEF StopBegin, Finalize, Turn, callVars, stopVars, eventVars
<1>3. ASSUME NEW u \in Upstreams, ~crossed'[u]
      PROVE  ~Unreported(u) /\ status'[u] = s /\ Reporting(p, u)'
  BY <1>1, <1>2, <1>3, ObservationAssumption DEF SetAll, Reporting, Upstreams
<1>4. \A q \in Stoppers, u \in Upstreams :
        q # p => spc'[q] = spc[q] /\ (Reporting(q, u)' <=> Reporting(q, u))
  BY <1>1, <1>2 DEF Reporting
<1>5. spc'[p] = "sayStopped" <=> s = "stopped"
  BY <1>1, <1>2
<1> QED
  BY <1>2, <1>3, <1>4, <1>5 DEF Uncrossed, Unreported

\* It reports one upstream after the other.
LEMMA StopReportUncrossed ==
  ASSUME Observed, NEW p \in Stoppers, SayStopping(p) \/ SayStopped(p) PROVE Uncrossed'
<1>1. /\ spc \in [Stoppers -> {"idle", "announce", "sayStopping", "drain", "close",
                               "finalize", "sayStopped", "conclude"}]
      /\ at \in [Stoppers -> Upstreams]
      /\ lastEvent \in [Upstreams -> Statuses \cup {Nothing}]
  BY DEF Observed, ObservedTypeOK
<1>2. PICK s \in {"stopping", "stopped"} :
        /\ lastEvent' = [lastEvent EXCEPT ![at[p]] = s]
        /\ spc[p] = (IF s = "stopped" THEN "sayStopped" ELSE "sayStopping")
        /\ \/ at[p] < UpstreamCount /\ at' = [at EXCEPT ![p] = @ + 1] /\ spc' = spc
           \/ /\ ~(at[p] < UpstreamCount)
              /\ at' = [at EXCEPT ![p] = 1]
              /\ spc' = [spc EXCEPT ![p] = IF s = "stopped" THEN "conclude" ELSE "drain"]
        /\ UNCHANGED <<unsaid, target, status, crossed>>
  BY DEF SayStopping, SayStopped, SayNext, Turn, callVars, recordVars
<1>3. \A q \in Stoppers, u \in Upstreams :
        q # p => spc'[q] = spc[q] /\ (Reporting(q, u)' <=> Reporting(q, u))
  BY <1>1, <1>2 DEF Reporting
<1>4. \A u \in Upstreams : Reporting(p, u) <=> at[p] <= u
  BY <1>2 DEF Reporting
<1>5. \A u \in Upstreams : Reporting(p, u)' => spc'[p] = spc[p]
  BY <1>1, <1>2 DEF Reporting
<1>6. \A u \in Upstreams : Reporting(p, u)' <=> at[p] <= u /\ u # at[p]
  <2>1. \A u \in Upstreams : u \in Int /\ u <= UpstreamCount
    BY ObservationAssumption DEF Upstreams
  <2>2. CASE at[p] < UpstreamCount
    <3>1. at'[p] = at[p] + 1 /\ spc'[p] = spc[p] /\ at[p] \in Int
      BY <1>1, <1>2, <2>1, <2>2
    <3> QED
      BY <1>2, <2>1, <3>1 DEF Reporting
  <2>3. CASE ~(at[p] < UpstreamCount)
    <3>1. at[p] = UpstreamCount /\ spc'[p] \in {"conclude", "drain"}
      BY <1>1, <1>2, <2>1, <2>3, ObservationAssumption
    <3> QED
      BY <2>1, <3>1, ObservationAssumption DEF Reporting
  <2> QED
    BY <2>2, <2>3
<1> SUFFICES ASSUME NEW u \in Upstreams, ~crossed[u]
             PROVE  /\ \A w \in Calls : target'[w] = u /\ unsaid'[w] # Nothing
                                          => unsaid'[w] = status'[u]
                    /\ \A q \in Stoppers : Reporting(q, u)' => status'[u] =
                         IF spc'[q] = "sayStopped" THEN "stopped" ELSE "stopping"
                    /\ ~Unreported(u)' => lastEvent'[u] \in {Nothing, status'[u]}
  BY <1>2 DEF Uncrossed
<1>7. CASE u = at[p]
  <2>1. status[u] = s /\ lastEvent'[u] = s
    <3>1. Reporting(p, u)
      BY <1>1, <1>4, <1>7, ObservationAssumption DEF Upstreams
    <3> QED
      BY <1>1, <1>2, <1>7, <3>1 DEF Observed, Uncrossed
  <2>2. ~Reporting(p, u)'
    BY <1>6, <1>7
  <2> QED
    BY <1>2, <1>3, <2>1, <2>2 DEF Observed, Uncrossed
<1>8. CASE u # at[p]
  <2>1. \A q \in Stoppers : Reporting(q, u)' <=> Reporting(q, u)
    BY <1>3, <1>4, <1>6, <1>8
  <2>2. Unreported(u)' <=> Unreported(u)
    BY <1>2, <2>1 DEF Unreported
  <2>3. lastEvent'[u] = lastEvent[u]
    BY <1>1, <1>2, <1>8
  <2> QED
    BY <1>2, <1>3, <1>5, <2>1, <2>2, <2>3 DEF Observed, Uncrossed
<1> QED
  BY <1>7, <1>8

\* The other steps of stop() leave reports alone.
LEMMA StopUncrossed ==
  ASSUME Observed, NEW p \in Stoppers, StopBegin(p) \/ StopStep(p) \/ DrainTimesOut(p)
  PROVE  Uncrossed'
<1> USE DEF Turn, recordVars, poolVars, callVars, inspectVars, eventVars
<1>a. /\ Uncrossed
      /\ spc \in [Stoppers -> {"idle", "announce", "sayStopping", "drain", "close",
                               "finalize", "sayStopped", "conclude"}]
      /\ at \in [Stoppers -> Upstreams]
  BY DEF Observed, ObservedTypeOK
<1>1. CASE StopBegin(p)
  BY <1>1, StopChangeUncrossed
<1>2. CASE Announce(p)
  <2>1. at[p] = 1 /\ \A u \in Upstreams : at[p] <= u
    BY <1>2, ObservationAssumption DEF Announce, Observed, Observing, Halted, Upstreams
  <2> QED
    BY <1>2, <1>a, <2>1, UncrossedFrame DEF Announce, Reporting
<1>3. CASE SayStopping(p)
  BY <1>3, StopReportUncrossed
<1>4. CASE Drain(p)
  BY <1>4, <1>a, UncrossedFrame DEF Drain, Reporting
<1>5. CASE DrainTimesOut(p)
  BY <1>5, <1>a, UncrossedFrame DEF DrainTimesOut, Reporting
<1>6. CASE Close(p)
  BY <1>6, <1>a, UncrossedFrame DEF Close, Reporting
<1>7. CASE Finalize(p)
  BY <1>7, StopChangeUncrossed
<1>8. CASE SayStopped(p)
  BY <1>8, StopReportUncrossed
<1>9. CASE Conclude(p)
  BY <1>9, <1>a, UncrossedFrame DEF Conclude, Reporting
<1> QED
  BY <1>1, <1>2, <1>3, <1>4, <1>5, <1>6, <1>7, <1>8, <1>9
  DEF StopStep

-----------------------------------------------------------------------------
(* The theorems.                                                           *)

\* The invariant holds in every reachable state.
LEMMA AlwaysObserved == ObservedSpec => []Observed
<1>1. ObservedInit => Observed
  BY InitTypes, InitObserving, InitUncrossed DEF Observed
<1>2. Observed /\ [ObservedNext]_observedVars => Observed'
  <2> SUFFICES ASSUME Observed, [ObservedNext]_observedVars PROVE Observed'
    OBVIOUS
  <2>1. ASSUME NEW t \in Calls, Begin(t) \/ CallStep(t) PROVE Observed'
    BY <2>1, CallTypes, CallObserving, CallUncrossed DEF Observed
  <2>2. ASSUME NEW p \in Stoppers, StopBegin(p) \/ StopStep(p) \/ DrainTimesOut(p)
        PROVE  Observed'
    BY <2>2, StopTypes, StopObserving, StopUncrossed DEF Observed
  <2>3. ASSUME NEW i \in Inspectors, ReadRecord(i) \/ ReadPool(i) PROVE Observed'
    <3>1. Uncrossed'
      BY <2>3, UncrossedFrame
      DEF ReadRecord, ReadPool, Observed, Reporting, recordVars, callVars, stopVars, eventVars
    <3> QED
      BY <2>3, <3>1, InspectTypes, InspectObserving DEF Observed
  <2>4. CASE UNCHANGED observedVars
    <3> USE <2>4 DEF observedVars, recordVars, poolVars, callVars, stopVars, inspectVars,
                 eventVars, Observed
    <3>1. ObservedTypeOK'
      BY DEF ObservedTypeOK
    <3>2. Observing'
      BY DEF Observing, Holding, Halted, ToldStopped, SeenAtRest, Halting, NobodyLeft
    <3>3. Uncrossed'
      BY UncrossedFrame DEF Reporting
    <3> QED
      BY <3>1, <3>2, <3>3
  <2> QED
    BY <2>1, <2>2, <2>3, <2>4 DEF ObservedNext
<1> QED
  BY <1>1, <1>2, PTL DEF ObservedSpec

\* Every reachable state is well typed: no step of a call, of stop() or of a
\* snapshot leaves the record or a report with a value outside its range.
THEOREM ObservedTypes == ObservedSpec => []ObservedTypeOK
<1>1. Observed => ObservedTypeOK
  BY DEF Observed
<1> QED
  BY <1>1, AlwaysObserved, PTL

\* Once an observer has heard runtime_stopped, or of an upstream that it is
\* stopped, the record says so too, no operation is counted, and what another
\* thread reported since a stop() will correct: stop() finalizes only after its
\* drain found nobody, and nothing begins once it has (runtime.cpp:1711-1739).
THEOREM StoppedEvents == ObservedSpec => []StoppedEventIsTrue
<1>1. ASSUME Observed, stopped, NEW u \in Upstreams
      PROVE  /\ status[u] = "stopped" /\ Active(u) = 0
             /\ \/ lastEvent[u] = "stopped"
                \/ \E p \in Stoppers : spc[p] \in {"sayStopping", "drain", "close",
                                                   "finalize", "sayStopped"}
  BY <1>1, EmptyIsDrained DEF Observed, Observing, Halted, ToldStopped
<1>2. ASSUME Observed
      PROVE  finished \/ (\E u \in Upstreams : lastEvent[u] = "stopped") => stopped
  BY <1>2 DEF Observed, Observing, Halted
<1>3. Observed => StoppedEventIsTrue
  BY <1>1, <1>2 DEF StoppedEventIsTrue
<1> QED
  BY <1>3, AlwaysObserved, PTL

\* The last report of an upstream agrees with the record once nobody has a
\* report to make, unless the changes crossed: the observer is called after the
\* mutex is released, by the thread that made the change (runtime.cpp:318-324).
THEOREM ReportsAgree == ObservedSpec => []UncrossedReportsAgree
<1>1. Observed => UncrossedReportsAgree
  BY DEF Observed, Uncrossed, UncrossedReportsAgree
<1> QED
  BY <1>1, AlwaysObserved, PTL

\* A snapshot that says stopped counts no call, busy slot or session, although
\* upstream_states() reads the record and the pools under different mutexes.
THEOREM SnapshotsAtRest == ObservedSpec => []StoppedSnapshotIsAtRest
<1>1. Observed => StoppedSnapshotIsAtRest
  BY DEF Observed, Observing, SeenAtRest, StoppedSnapshotIsAtRest
<1> QED
  BY <1>1, AlwaysObserved, PTL
=============================================================================
