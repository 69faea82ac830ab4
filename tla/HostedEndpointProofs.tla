------------------------ MODULE HostedEndpointProofs ------------------------
(***************************************************************************)
(* Theorems about HostedEndpoint, for any number of host threads, request  *)
(* threads, endpoints and upstreams: its type invariant, its safety        *)
(* properties, and the invariant they rest on.                             *)
(***************************************************************************)
EXTENDS HostedEndpoint, TLAPS

-----------------------------------------------------------------------------
(* The invariant.                                                          *)

Live == {"serving", "closing"}

\* service_mutex is held across steps by start_http only, which runs while the
\* runtime accepts and refers to no endpoint that serves.
Locked ==
  /\ \A h \in Hosts : mutex = h <=> hpc[h] \in {"capture", "serve", "ready"}
  /\ mutex # NoThread => Accepting /\ ~Running

\* Endpoints are numbered as they are built, and the one that is being built is
\* not the one the runtime refers to.
Numbered ==
  /\ service <= starts
  /\ \A h \in Hosts :
       /\ hpc[h] = "capture" => starts < MaxStarts
       /\ hpc[h] \in {"serve", "ready"} => service # ref[h] /\ ref[h] <= starts
       /\ hpc[h] \in {"serve", "ready", "waiting", "endpoint", "joining", "reset"}
            => ref[h] # None

\* The runtime refers to every live endpoint, or start_http is about to make it.
Reached ==
  /\ \A e \in Endpoints : endpoint[e] \in Live =>
       \/ service = e
       \/ Accepting /\ \E h \in Hosts : hpc[h] = "ready" /\ ref[h] = e
  /\ Accepting => \A e \in Endpoints : endpoint[e] # "closing"

\* A stop() that has to stop an endpoint has the one the runtime refers to, or
\* it is closed already; one that drains has none to stop.
StopsReach ==
  \A h \in Hosts :
    /\ hpc[h] \in {"endpoint", "joining", "reset", "drain", "finalize"} => ~Accepting
    /\ hpc[h] \in {"endpoint", "joining", "reset"} =>
         /\ service \in {ref[h], None}
         /\ service = ref[h] \/ endpoint[ref[h]] = "closed"
    /\ hpc[h] = "joining" => endpoint[ref[h]] \in {"closing", "closed"}
    /\ hpc[h] = "reset" => endpoint[ref[h]] = "closed"
    /\ hpc[h] \in {"drain", "finalize"} => service = None

\* The runtime has let go of its endpoint when it is stopped or destroyed, and
\* when the destructor's stop() is over, however that ended.
LetGo ==
  /\ phase \in {"stopped", "destroyed"} => service = None
  /\ \A h \in Hosts : dying = h =>
       /\ hpc[h] \in {"callStop", "endpoint", "joining", "reset", "drain",
                      "finalize", "idle"}
       /\ hpc[h] = "idle" => ~Accepting /\ service = None

\* A request is under way only at a live endpoint.
Attended ==
  \A q \in Requests :
    /\ req[q] # "none" => on[q] # None
    /\ on[q] # None => endpoint[on[q]] \in Live

Hosting == Locked /\ Numbered /\ Reached /\ StopsReach /\ LetGo /\ Attended

\* The inductive invariant.
Hosted == HostedTypeOK /\ Hosting

-----------------------------------------------------------------------------
(* Types.                                                                  *)

\* The initial states are well typed.
LEMMA InitTypes == HostedInit => HostedTypeOK
<1> SUFFICES ASSUME HostedInit PROVE HostedTypeOK
  OBVIOUS
<1>1. /\ at \in [Hosts -> Upstreams]
      /\ starts \in 0 .. MaxStarts
      /\ endpoint \in [Endpoints -> {"unused", "serving", "exited", "closing", "closed"}]
  BY CountsAssumption DEF HostedInit, Upstreams
<1>2. /\ hpc \in [Hosts -> HostPoints]
      /\ req \in [Requests -> RequestPoints]
  BY DEF HostedInit, HostPoints, RequestPoints
<1> QED
  BY <1>1, <1>2 DEF HostedInit, HostedTypeOK

\* The steps of host threads keep the types.
LEMMA HostTypes ==
  ASSUME Hosted, NEW h \in Hosts, HostCalls(h) \/ HostStep(h) \/ DrainTimesOut(h)
  PROVE  HostedTypeOK'
<1> USE HostsAssumption, CountsAssumption
    DEF Go, Free, hostVars, requestVars, serviceVars, HostedTypeOK, HostPoints,
        Endpoints, Upstreams, None
<1>1. CASE StartHttp(h)
  BY <1>1 DEF StartHttp, Hosted
<1>2. CASE Wait(h)
  BY <1>2 DEF Wait, Hosted
<1>3. CASE Refresh(h)
  BY <1>3 DEF Refresh, Hosted
<1>4. CASE CallStop(h)
  BY <1>4 DEF CallStop, Hosted
<1>5. CASE Destroy(h)
  BY <1>5 DEF Destroy, Hosted
<1>6. CASE Capture(h)
  <2>1. starts < MaxStarts
    BY <1>6 DEF Capture, Hosted, Hosting, Numbered
  <2>2. starts' \in 1 .. MaxStarts /\ starts' = starts + 1
    BY <1>6, <2>1 DEF Capture, Hosted
  <2>3. Advertisement \in SUBSET Families
    BY DEF Advertisement, Families, Hosted
  <2> QED
    BY <1>6, <2>2, <2>3 DEF Capture, Hosted
<1>7. CASE ServeFails(h)
  BY <1>7 DEF ServeFails, Hosted
<1>8. CASE Serve(h)
  BY <1>8 DEF Serve, Hosted
<1>9. CASE Install(h)
  BY <1>9 DEF Install, Hosted
<1>10. CASE WaitReturns(h)
  BY <1>10 DEF WaitReturns, Hosted
<1>11. CASE RefreshBegin(h)
  <2>1. at' \in [Hosts -> Upstreams] /\ hpc' \in [Hosts -> HostPoints]
    <3>1. CASE Accepting
      BY <1>11, <3>1 DEF RefreshBegin, Hosted
    <3>2. CASE ~Accepting
      <4>1. at' = [at EXCEPT ![h] = 1] /\ hpc' = [hpc EXCEPT ![h] = "idle"]
        BY <1>11, <3>2 DEF RefreshBegin, RefreshEnds
      <4> QED
        BY <4>1 DEF Hosted
    <3> QED
      BY <3>1, <3>2
  <2> QED
    BY <1>11, <2>1 DEF RefreshBegin, Hosted
<1>12. CASE RefreshFails(h)
  BY <1>12 DEF RefreshFails, Hosted, RefreshEnds
<1>13. CASE RefreshOne(h)
  <2>1. /\ at' \in [Hosts -> Upstreams] /\ hpc' \in [Hosts -> HostPoints]
        /\ refreshed' \in BOOLEAN
    <3>1. CASE at[h] = UpstreamCount
      <4>1. /\ at' = [at EXCEPT ![h] = 1] /\ hpc' = [hpc EXCEPT ![h] = "idle"]
            /\ refreshed' = TRUE
        BY <1>13, <3>1 DEF RefreshOne, RefreshEnds
      <4> QED
        BY <4>1 DEF Hosted
    <3>2. CASE at[h] # UpstreamCount
      <4>1. at[h] + 1 \in Upstreams
        BY <3>2 DEF Hosted
      <4> QED
        BY <1>13, <3>2, <4>1 DEF RefreshOne, Hosted
    <3> QED
      BY <3>1, <3>2
  <2>2. known' \in SUBSET Upstreams
    BY <1>13 DEF RefreshOne, Hosted
  <2> QED
    BY <1>13, <2>1, <2>2 DEF RefreshOne, Hosted
<1>14. CASE StopBegin(h)
  <2>1. CASE phase = "stopped"
    BY <1>14, <2>1 DEF StopBegin, Hosted
  <2>2. CASE phase # "stopped"
    <3>1. hpc' \in [Hosts -> HostPoints]
      <4>1. CASE service = None
        BY <1>14, <2>2, <4>1 DEF StopBegin, Hosted
      <4>2. CASE service # None
        BY <1>14, <2>2, <4>2 DEF StopBegin, Hosted
      <4> QED
        BY <4>1, <4>2
    <3>2. ref' \in [Hosts -> Endpoints \cup {None}]
      BY <1>14, <2>2 DEF StopBegin, Hosted
    <3> QED
      BY <1>14, <2>2, <3>1, <3>2 DEF StopBegin, Hosted
  <2> QED
    BY <2>1, <2>2
<1>15. CASE StopEndpoint(h)
  BY <1>15 DEF StopEndpoint, Hosted
<1>16. CASE Join(h)
  BY <1>16 DEF Join, Hosted
<1>17. CASE ResetService(h)
  BY <1>17 DEF ResetService, Hosted
<1>18. CASE Drain(h)
  BY <1>18 DEF Drain, Hosted
<1>19. CASE Finalize(h)
  BY <1>19 DEF Finalize, Hosted
<1>20. CASE Destroyed(h)
  BY <1>20 DEF Destroyed, Hosted
<1>21. CASE DrainTimesOut(h)
  BY <1>21 DEF DrainTimesOut, Hosted
<1> QED
  BY <1>1, <1>2, <1>3, <1>4, <1>5, <1>6, <1>7, <1>8, <1>9, <1>10,
     <1>11, <1>12, <1>13, <1>14, <1>15, <1>16, <1>17, <1>18, <1>19,
     <1>20, <1>21
  DEF HostCalls, HostStep

\* So do those of request threads,
LEMMA RequestTypes ==
  ASSUME Hosted, NEW q \in Requests, Receive(q) \/ RequestStep(q)
  PROVE  HostedTypeOK'
<1> USE DEF Handle, hostVars, serviceVars, Hosted, HostedTypeOK, RequestPoints
<1>1. CASE Receive(q)
  BY <1>1 DEF Receive
<1>2. CASE Dispatch(q)
  BY <1>2 DEF Dispatch
<1>3. CASE Consult(q)
  BY <1>3 DEF Consult
<1>4. CASE Begin(q)
  BY <1>4 DEF Begin
<1>5. CASE Finish(q)
  BY <1>5 DEF Finish
<1>6. CASE Reply(q)
  BY <1>6 DEF Reply
<1> QED
  BY <1>1, <1>2, <1>3, <1>4, <1>5, <1>6
  DEF RequestStep

\* and an endpoint's own end.
LEMMA ExitTypes ==
  ASSUME Hosted, NEW e \in Endpoints, EndpointExits(e) PROVE HostedTypeOK'
  BY DEF EndpointExits, hostVars, requestVars, Hosted, HostedTypeOK

-----------------------------------------------------------------------------
(* Endpoints.                                                              *)

\* Nothing is started, served or stopped in the initial states.
LEMMA InitHosting == HostedInit => Hosting
  BY HostsAssumption, CountsAssumption
  DEF HostedInit, Hosting, Locked, Numbered, Reached, StopsReach, LetGo, Attended,
      Live, Accepting, Running, None, Endpoints

\* The steps of host threads keep the facts about endpoints.
LEMMA HostHosting ==
  ASSUME Hosted, NEW h \in Hosts, HostCalls(h) \/ HostStep(h) \/ DrainTimesOut(h)
  PROVE  Hosting'
<1> USE HostsAssumption, CountsAssumption
    DEF Go, Free, hostVars, requestVars, serviceVars, Hosted, HostedTypeOK, Hosting,
        Locked, Numbered, Reached, StopsReach, LetGo, Attended, Live, Accepting,
        Running, Idle, Endpoints, Upstreams, None
<1>1. CASE StartHttp(h)
  BY <1>1 DEF StartHttp
<1>2. CASE Wait(h)
  BY <1>2 DEF Wait
<1>3. CASE Refresh(h)
  BY <1>3 DEF Refresh
<1>4. CASE CallStop(h)
  <2>1. /\ hpc' = [hpc EXCEPT ![h] = "callStop"] /\ hpc[h] = "idle"
        /\ UNCHANGED <<phase, mutex, service, endpoint, starts, ref, dying, req, on>>
    BY <1>4 DEF CallStop
  <2>2. dying = NoThread
    BY <1>4 DEF CallStop
  <2>3. Locked' /\ Numbered' /\ Attended'
    BY <2>1
  <2>4. Reached' /\ StopsReach'
    BY <2>1
  <2>5. LetGo'
    BY <2>1, <2>2
  <2> QED
    BY <2>3, <2>4, <2>5
<1>5. CASE Destroy(h)
  BY <1>5 DEF Destroy
<1>6. CASE Capture(h)
  BY <1>6 DEF Capture
<1>7. CASE ServeFails(h)
  BY <1>7 DEF ServeFails
<1>8. CASE Serve(h)
  BY <1>8 DEF Serve
<1>9. CASE Install(h)
  BY <1>9 DEF Install
<1>10. CASE WaitReturns(h)
  BY <1>10 DEF WaitReturns
<1>11. CASE RefreshBegin(h)
  BY <1>11 DEF RefreshBegin, RefreshEnds
<1>12. CASE RefreshFails(h)
  BY <1>12 DEF RefreshFails, RefreshEnds
<1>13. CASE RefreshOne(h)
  BY <1>13 DEF RefreshOne, RefreshEnds
<1>14. CASE StopBegin(h)
  BY <1>14 DEF StopBegin
<1>15. CASE StopEndpoint(h)
  BY <1>15 DEF StopEndpoint
<1>16. CASE Join(h)
  BY <1>16 DEF Join
<1>17. CASE ResetService(h)
  BY <1>17 DEF ResetService
<1>18. CASE Drain(h)
  BY <1>18 DEF Drain
<1>19. CASE Finalize(h)
  BY <1>19 DEF Finalize
<1>20. CASE Destroyed(h)
  BY <1>20 DEF Destroyed
<1>21. CASE DrainTimesOut(h)
  BY <1>21 DEF DrainTimesOut
<1> QED
  BY <1>1, <1>2, <1>3, <1>4, <1>5, <1>6, <1>7, <1>8, <1>9, <1>10,
     <1>11, <1>12, <1>13, <1>14, <1>15, <1>16, <1>17, <1>18, <1>19,
     <1>20, <1>21
  DEF HostCalls, HostStep

\* So do those of request threads,
LEMMA RequestHosting ==
  ASSUME Hosted, NEW q \in Requests, Receive(q) \/ RequestStep(q)
  PROVE  Hosting'
<1> USE CountsAssumption
    DEF Handle, hostVars, serviceVars, Hosted, HostedTypeOK, Hosting, Locked, Numbered,
        Reached, StopsReach, LetGo, Attended, Live, Accepting, Running, Endpoints, None
<1>1. CASE Receive(q)
  BY <1>1 DEF Receive
<1>2. CASE Dispatch(q)
  BY <1>2 DEF Dispatch
<1>3. CASE Consult(q)
  BY <1>3 DEF Consult
<1>4. CASE Begin(q)
  BY <1>4 DEF Begin
<1>5. CASE Finish(q)
  BY <1>5 DEF Finish
<1>6. CASE Reply(q)
  BY <1>6 DEF Reply
<1> QED
  BY <1>1, <1>2, <1>3, <1>4, <1>5, <1>6
  DEF RequestStep

\* and an endpoint's own end.
LEMMA ExitHosting ==
  ASSUME Hosted, NEW e \in Endpoints, EndpointExits(e) PROVE Hosting'
  BY CountsAssumption
  DEF EndpointExits, hostVars, requestVars, Hosted, HostedTypeOK, Hosting, Locked,
      Numbered, Reached, StopsReach, LetGo, Attended, Live, Accepting, Running, Idle,
      Endpoints, None

\* A step that changes nothing.
LEMMA StutterHosted == Hosted /\ UNCHANGED hostedVars => Hosted'
  BY DEF hostedVars, hostVars, requestVars, serviceVars, Hosted, HostedTypeOK, Hosting,
         Locked, Numbered, Reached, StopsReach, LetGo, Attended, Live, Accepting, Running

\* The invariant holds in every reachable state.
LEMMA AlwaysHosted == HostedSpec => []Hosted
<1>1. HostedInit => Hosted
  BY InitTypes, InitHosting DEF Hosted
<1>2. Hosted /\ [HostedNext]_hostedVars => Hosted'
  <2> SUFFICES ASSUME Hosted, [HostedNext]_hostedVars PROVE Hosted'
    OBVIOUS
  <2>1. ASSUME NEW h \in Hosts, HostCalls(h) \/ HostStep(h) \/ DrainTimesOut(h)
        PROVE  Hosted'
    BY <2>1, HostTypes, HostHosting DEF Hosted
  <2>2. ASSUME NEW q \in Requests, Receive(q) \/ RequestStep(q) PROVE Hosted'
    BY <2>2, RequestTypes, RequestHosting DEF Hosted
  <2>3. ASSUME NEW e \in Endpoints, EndpointExits(e) PROVE Hosted'
    BY <2>3, ExitTypes, ExitHosting DEF Hosted
  <2>4. CASE UNCHANGED hostedVars
    BY <2>4, StutterHosted
  <2> QED
    BY <2>1, <2>2, <2>3, <2>4 DEF HostedNext
<1> QED
  BY <1>1, <1>2, PTL DEF HostedSpec

\* Every reachable state is well typed.
THEOREM HostedTypes == HostedSpec => []HostedTypeOK
<1>1. Hosted => HostedTypeOK
  BY DEF Hosted
<1> QED
  BY <1>1, AlwaysHosted, PTL

\* At most one endpoint is live, and stop() reaches one that serves.
THEOREM ReachesServing == HostedSpec => []ServingIsReachable
<1>1. ASSUME Hosted, NEW e \in Endpoints, NEW f \in Endpoints,
             {endpoint[e], endpoint[f]} \subseteq {"serving", "closing"}
      PROVE  e = f
  <2>1. endpoint[e] \in Live /\ endpoint[f] \in Live
    BY <1>1 DEF Live
  <2>2. CASE mutex = NoThread
    BY <1>1, <2>1, <2>2, HostsAssumption DEF Hosted, Hosting, Reached, Locked
  <2>3. CASE mutex # NoThread
    BY <1>1, <2>1, <2>3
    DEF Hosted, Hosting, Reached, Locked, Running, None, Live, Endpoints, Accepting
  <2> QED
    BY <2>2, <2>3
<1>2. ASSUME Hosted, NEW e \in Endpoints, endpoint[e] = "serving"
      PROVE  service = e \/ \E h \in Hosts : ref[h] = e /\ hpc[h] \in {"ready", "endpoint"}
  BY <1>2 DEF Hosted, Hosting, Reached, Live
<1>3. Hosted => ServingIsReachable
  BY <1>1, <1>2 DEF ServingIsReachable
<1> QED
  BY <1>3, AlwaysHosted, PTL

\* Without an endpoint of the runtime's, once it no longer accepts, nothing is
\* live and no request is under way.
LEMMA NothingLive ==
  ASSUME Hosted, service = None, ~Accepting
  PROVE  /\ \A e \in Endpoints : endpoint[e] \notin {"serving", "closing"}
         /\ \A q \in Requests : req[q] = "none"
<1>1. \A e \in Endpoints : endpoint[e] \notin Live
  BY CountsAssumption DEF Hosted, Hosting, Reached, Endpoints, None
<1>2. \A q \in Requests : on[q] \in Endpoints \cup {None}
  BY DEF Hosted, HostedTypeOK
<1> QED
  BY <1>1, <1>2 DEF Hosted, Hosting, Attended, Live

\* A stopped runtime serves nothing and has no request under way.
THEOREM StoppedServes == HostedSpec => []StoppedServesNothing
<1>1. ASSUME Hosted, phase = "stopped"
      PROVE  service = None /\ ~Accepting
  BY <1>1 DEF Hosted, Hosting, LetGo, Accepting
<1>2. Hosted => StoppedServesNothing
  BY <1>1, NothingLive DEF StoppedServesNothing
<1> QED
  BY <1>2, AlwaysHosted, PTL

\* No request is under way in a runtime that has been destroyed, even if the
\* destructor's stop() timed out.
THEOREM OutlivesRequests == HostedSpec => []RuntimeOutlivesRequests
<1>1. ASSUME Hosted, phase = "destroyed"
      PROVE  service = None /\ ~Accepting
  BY <1>1 DEF Hosted, Hosting, LetGo, Accepting
<1>2. Hosted => RuntimeOutlivesRequests
  BY <1>1, NothingLive DEF RuntimeOutlivesRequests
<1> QED
  BY <1>2, AlwaysHosted, PTL

-----------------------------------------------------------------------------
(* What endpoints advertise.                                               *)

Offered == UNION {offers[u] : u \in Upstreams}

Faithful(e) ==
  /\ Offered \subseteq advertised[e] \cup {"completions"}
  /\ "completions" \in advertised[e] => "completions" \in Offered
  /\ prewarmed[e] => advertised[e] = Offered

Refreshing(h) == hpc[h] \in {"refresh", "connect"}

\* A refresh has recorded every upstream before the one it has reached, and one
\* that has succeeded has recorded them all; so what an endpoint was built with
\* is faithful.
Advertising ==
  /\ refreshed => known = Upstreams
  /\ \A h \in Hosts : IF Refreshing(h) THEN \A u \in Upstreams : u < at[h] => u \in known
                      ELSE at[h] = 1
  /\ \A e \in Endpoints : endpoint[e] = "serving" => e <= starts
  /\ \A e \in Endpoints : e <= starts => Faithful(e)

\* At first nothing is advertised.
LEMMA InitAdvertising == HostedInit => Advertising
<1> SUFFICES ASSUME HostedInit PROVE Advertising
  OBVIOUS
<1>1. \A e \in Endpoints : ~(e <= starts)
  BY DEF HostedInit, Endpoints
<1> QED
  BY <1>1 DEF HostedInit, Advertising, Refreshing

\* What a step that builds no endpoint and forgets nothing leaves as it is.
LEMMA AdvertisingFrame ==
  ASSUME Hosted, Advertising, offers' = offers, advertised' = advertised,
         prewarmed' = prewarmed, starts' = starts, refreshed' = refreshed,
         known \subseteq known', known' \subseteq Upstreams,
         \A e \in Endpoints : endpoint'[e] = "serving" => endpoint[e] = "serving",
         \A h \in Hosts : at'[h] = at[h] /\ (Refreshing(h)' <=> Refreshing(h))
  PROVE  Advertising'
<1>1. \A e \in Endpoints : Faithful(e) => Faithful(e)'
  BY DEF Faithful, Offered
<1> QED
  BY <1>1 DEF Advertising

\* A refresh that is given up leaves what it has recorded.
LEMMA EndedRefresh ==
  ASSUME Hosted, Advertising, NEW h \in Hosts, RefreshEnds(h),
         UNCHANGED <<offers, known, serviceVars, refreshed>>
  PROVE  Advertising'
<1> USE DEF Go, serviceVars
<1>1. hpc \in [Hosts -> HostPoints] /\ at \in [Hosts -> Upstreams]
  BY DEF Hosted, HostedTypeOK
<1>2. ASSUME NEW g \in Hosts
      PROVE  IF Refreshing(g)' THEN \A u \in Upstreams : u < at'[g] => u \in known'
             ELSE at'[g] = 1
  BY <1>1 DEF RefreshEnds, Refreshing, Advertising
<1>3. \A e \in Endpoints : Faithful(e) => Faithful(e)'
  BY DEF Faithful, Offered
<1> QED
  BY <1>2, <1>3 DEF Advertising

\* The steps of host threads keep what is advertised faithful.
LEMMA HostAdvertising ==
  ASSUME Hosted, Advertising, NEW h \in Hosts,
         HostCalls(h) \/ HostStep(h) \/ DrainTimesOut(h)
  PROVE  Advertising'
<1> USE DEF Go, Free, hostVars, requestVars, serviceVars
<1>a. known \subseteq Upstreams /\ hpc \in [Hosts -> HostPoints]
  BY DEF Hosted, HostedTypeOK
<1>b. at \in [Hosts -> Upstreams] /\ endpoint \in [Endpoints ->
        {"unused", "serving", "exited", "closing", "closed"}]
  BY DEF Hosted, HostedTypeOK
<1>1. CASE StartHttp(h)
  <2>1. \A g \in Hosts : at'[g] = at[g] /\ (Refreshing(g)' <=> Refreshing(g))
    BY <1>1, <1>a DEF StartHttp, Refreshing
  <2> QED
    BY <1>1, <1>a, <1>b, <2>1, AdvertisingFrame DEF StartHttp
<1>2. CASE Wait(h)
  <2>1. \A g \in Hosts : at'[g] = at[g] /\ (Refreshing(g)' <=> Refreshing(g))
    BY <1>2, <1>a DEF Wait, Refreshing
  <2> QED
    BY <1>2, <1>a, <1>b, <2>1, AdvertisingFrame DEF Wait
<1>3. CASE Refresh(h)
  <2>1. at[h] = 1
    BY <1>3 DEF Refresh, Advertising, Refreshing
  <2>2. \A g \in Hosts : g # h => (Refreshing(g)' <=> Refreshing(g))
    BY <1>3, <1>a DEF Refresh, Refreshing
  <2>3. Refreshing(h)' /\ at' = at /\ known' = known
    BY <1>3, <1>a DEF Refresh, Refreshing
  <2>4. \A g \in Hosts : IF Refreshing(g)' THEN \A u \in Upstreams : u < at'[g] => u \in known'
                         ELSE at'[g] = 1
    BY <2>1, <2>2, <2>3 DEF Advertising, Upstreams
  <2>5. \A e \in Endpoints : Faithful(e) => Faithful(e)'
    BY <1>3 DEF Refresh, Faithful, Offered
  <2> QED
    BY <1>3, <2>4, <2>5 DEF Refresh, Advertising
<1>4. CASE CallStop(h)
  <2>1. \A g \in Hosts : at'[g] = at[g] /\ (Refreshing(g)' <=> Refreshing(g))
    BY <1>4, <1>a DEF CallStop, Refreshing
  <2> QED
    BY <1>4, <1>a, <1>b, <2>1, AdvertisingFrame DEF CallStop
<1>5. CASE Destroy(h)
  <2>1. \A g \in Hosts : at'[g] = at[g] /\ (Refreshing(g)' <=> Refreshing(g))
    BY <1>5, <1>a DEF Destroy, Refreshing
  <2> QED
    BY <1>5, <1>a, <1>b, <2>1, AdvertisingFrame DEF Destroy
<1>6. CASE Capture(h)
  <2>1. /\ starts' = starts + 1 /\ starts' \in Endpoints
        /\ advertised' = [advertised EXCEPT ![starts'] = Advertisement]
        /\ prewarmed' = [prewarmed EXCEPT ![starts'] = refreshed]
    <3>1. starts \in Nat /\ starts < MaxStarts
      BY <1>6, CountsAssumption DEF Capture, Hosted, Hosting, Numbered, HostedTypeOK
    <3>2. starts' = starts + 1
      BY <1>6 DEF Capture
    <3> QED
      BY <1>6, <3>1, <3>2, CountsAssumption DEF Capture, Endpoints
  <2>2. UNCHANGED <<offers, known, endpoint, at, refreshed>>
    BY <1>6 DEF Capture
  <2>3. /\ advertised \in [Endpoints -> SUBSET Families]
        /\ prewarmed \in [Endpoints -> BOOLEAN]
        /\ starts \in Nat
    BY DEF Hosted, HostedTypeOK
  <2>4. Offered' = Offered
    BY <2>2 DEF Offered
  <2>5. ASSUME NEW e \in Endpoints, e <= starts' PROVE Faithful(e)'
    <3>1. CASE e = starts'
      <4>1. advertised'[e] = Advertisement /\ prewarmed'[e] = refreshed
        BY <2>1, <2>3, <3>1
      <4>2. Offered \subseteq {"catalogs", "completions"}
        BY DEF Offered, Families, Hosted, HostedTypeOK
      <4>3. CASE known = Upstreams
        BY <2>4, <4>1, <4>3 DEF Advertisement, Faithful, Offered
      <4>4. CASE known # Upstreams
        BY <2>4, <4>1, <4>2, <4>4 DEF Advertisement, Faithful, Advertising
      <4> QED
        BY <4>3, <4>4
    <3>2. CASE e # starts'
      <4>1. advertised'[e] = advertised[e] /\ prewarmed'[e] = prewarmed[e]
        BY <2>1, <2>3, <3>2
      <4>2. e <= starts
        BY <2>1, <2>3, <2>5, <3>2 DEF Endpoints
      <4> QED
        BY <2>4, <4>1, <4>2 DEF Faithful, Advertising
    <3> QED
      BY <3>1, <3>2
  <2>6. \A g \in Hosts : Refreshing(g)' <=> Refreshing(g)
    BY <1>6, <1>a DEF Capture, Refreshing
  <2>7. \A e \in Endpoints : endpoint'[e] = "serving" => e <= starts'
    BY <2>1, <2>2, <2>3 DEF Advertising, Endpoints
  <2> QED
    BY <2>2, <2>5, <2>6, <2>7 DEF Advertising
<1>7. CASE ServeFails(h)
  <2>1. \A g \in Hosts : at'[g] = at[g] /\ (Refreshing(g)' <=> Refreshing(g))
    BY <1>7, <1>a DEF ServeFails, Refreshing
  <2> QED
    BY <1>7, <1>a, <1>b, <2>1, AdvertisingFrame DEF ServeFails
<1>8. CASE Serve(h)
  <2>1. \A e \in Endpoints : endpoint'[e] = "serving" => e <= starts'
    BY <1>8, <1>b DEF Serve, Hosted, Hosting, Numbered, Advertising
  <2>2. \A g \in Hosts : Refreshing(g)' <=> Refreshing(g)
    BY <1>8, <1>a DEF Serve, Refreshing
  <2>3. \A e \in Endpoints : Faithful(e) => Faithful(e)'
    BY <1>8 DEF Serve, Faithful, Offered
  <2> QED
    BY <1>8, <2>1, <2>2, <2>3 DEF Serve, Advertising
<1>9. CASE Install(h)
  <2>1. \A g \in Hosts : at'[g] = at[g] /\ (Refreshing(g)' <=> Refreshing(g))
    BY <1>9, <1>a DEF Install, Refreshing
  <2> QED
    BY <1>9, <1>a, <1>b, <2>1, AdvertisingFrame DEF Install
<1>10. CASE WaitReturns(h)
  <2>1. \A g \in Hosts : at'[g] = at[g] /\ (Refreshing(g)' <=> Refreshing(g))
    BY <1>10, <1>a DEF WaitReturns, Refreshing
  <2> QED
    BY <1>10, <1>a, <1>b, <2>1, AdvertisingFrame DEF WaitReturns
<1>11. CASE RefreshBegin(h)
  <2>1. CASE Accepting
    <3>1. \A g \in Hosts : at'[g] = at[g] /\ (Refreshing(g)' <=> Refreshing(g))
      BY <1>11, <1>a, <2>1 DEF RefreshBegin, Refreshing
    <3> QED
      BY <1>11, <1>a, <3>1, AdvertisingFrame DEF RefreshBegin
  <2>2. CASE ~Accepting
    BY <1>11, <2>2, EndedRefresh DEF RefreshBegin
  <2> QED
    BY <2>1, <2>2
<1>12. CASE RefreshFails(h)
  BY <1>12, EndedRefresh DEF RefreshFails
<1>13. CASE RefreshOne(h)
  <2>1. known' = known \cup {at[h]} /\ at[h] \in Upstreams /\ Refreshing(h)
    BY <1>13, <1>b DEF RefreshOne, Refreshing
  <2>2. \A u \in Upstreams : u < at[h] + 1 => u \in known'
    BY <2>1 DEF Advertising, Upstreams
  <2>3. CASE at[h] = UpstreamCount
    <3>1. known' = Upstreams
      <4>1. \A u \in Upstreams : u < UpstreamCount + 1
        BY CountsAssumption DEF Upstreams
      <4>2. Upstreams \subseteq known'
        BY <2>2, <2>3, <4>1
      <4> QED
        BY <1>a, <2>1, <4>2
    <3>2. RefreshEnds(h)
      BY <1>13, <2>3 DEF RefreshOne
    <3>3. \A g \in Hosts : IF Refreshing(g)' THEN at'[g] = at[g] ELSE at'[g] = 1
      BY <1>a, <1>b, <3>2 DEF RefreshEnds, Refreshing, Advertising
    <3>4. \A e \in Endpoints : Faithful(e) => Faithful(e)'
      BY <1>13 DEF RefreshOne, Faithful, Offered
    <3> QED
      BY <1>13, <3>1, <3>3, <3>4 DEF RefreshOne, Advertising
  <2>4. CASE at[h] # UpstreamCount
    <3>1. /\ at' = [at EXCEPT ![h] = @ + 1] /\ hpc' = [hpc EXCEPT ![h] = "refresh"]
          /\ refreshed' = refreshed
      BY <1>13, <2>4 DEF RefreshOne
    <3>2. ASSUME NEW g \in Hosts
          PROVE  IF Refreshing(g)' THEN \A u \in Upstreams : u < at'[g] => u \in known'
                 ELSE at'[g] = 1
      <4>1. CASE g = h
        BY <1>a, <1>b, <2>2, <3>1, <4>1 DEF Refreshing
      <4>2. CASE g # h
        BY <1>a, <1>b, <2>1, <3>1, <4>2 DEF Refreshing, Advertising
      <4> QED
        BY <4>1, <4>2
    <3>3. refreshed' => known' = Upstreams
      BY <1>a, <2>1, <3>1 DEF Advertising
    <3>4. \A e \in Endpoints : Faithful(e) => Faithful(e)'
      BY <1>13 DEF RefreshOne, Faithful, Offered
    <3> QED
      BY <1>13, <3>2, <3>3, <3>4 DEF RefreshOne, Advertising
  <2> QED
    BY <2>3, <2>4
<1>14. CASE StopBegin(h)
  <2>1. \A g \in Hosts : at'[g] = at[g] /\ (Refreshing(g)' <=> Refreshing(g))
    BY <1>14, <1>a DEF StopBegin, Refreshing
  <2> QED
    BY <1>14, <1>a, <1>b, <2>1, AdvertisingFrame DEF StopBegin
<1>15. CASE StopEndpoint(h)
  <2>1. \A g \in Hosts : at'[g] = at[g] /\ (Refreshing(g)' <=> Refreshing(g))
    BY <1>15, <1>a DEF StopEndpoint, Refreshing
  <2> QED
    BY <1>15, <1>a, <1>b, <2>1, AdvertisingFrame DEF StopEndpoint
<1>16. CASE Join(h)
  <2>1. \A g \in Hosts : at'[g] = at[g] /\ (Refreshing(g)' <=> Refreshing(g))
    BY <1>16, <1>a DEF Join, Refreshing
  <2> QED
    BY <1>16, <1>a, <1>b, <2>1, AdvertisingFrame DEF Join
<1>17. CASE ResetService(h)
  <2>1. \A g \in Hosts : at'[g] = at[g] /\ (Refreshing(g)' <=> Refreshing(g))
    BY <1>17, <1>a DEF ResetService, Refreshing
  <2> QED
    BY <1>17, <1>a, <1>b, <2>1, AdvertisingFrame DEF ResetService
<1>18. CASE Drain(h)
  <2>1. \A g \in Hosts : at'[g] = at[g] /\ (Refreshing(g)' <=> Refreshing(g))
    BY <1>18, <1>a DEF Drain, Refreshing
  <2> QED
    BY <1>18, <1>a, <1>b, <2>1, AdvertisingFrame DEF Drain
<1>19. CASE Finalize(h)
  <2>1. \A g \in Hosts : at'[g] = at[g] /\ (Refreshing(g)' <=> Refreshing(g))
    BY <1>19, <1>a DEF Finalize, Refreshing
  <2> QED
    BY <1>19, <1>a, <1>b, <2>1, AdvertisingFrame DEF Finalize
<1>20. CASE Destroyed(h)
  <2>1. \A g \in Hosts : at'[g] = at[g] /\ (Refreshing(g)' <=> Refreshing(g))
    BY <1>20, <1>a DEF Destroyed, Refreshing
  <2> QED
    BY <1>20, <1>a, <1>b, <2>1, AdvertisingFrame DEF Destroyed
<1>21. CASE DrainTimesOut(h)
  <2>1. \A g \in Hosts : at'[g] = at[g] /\ (Refreshing(g)' <=> Refreshing(g))
    BY <1>21, <1>a DEF DrainTimesOut, Refreshing
  <2> QED
    BY <1>21, <1>a, <1>b, <2>1, AdvertisingFrame DEF DrainTimesOut
<1> QED
  BY <1>1, <1>2, <1>3, <1>4, <1>5, <1>6, <1>7, <1>8, <1>9, <1>10,
     <1>11, <1>12, <1>13, <1>14, <1>15, <1>16, <1>17, <1>18, <1>19,
     <1>20, <1>21
  DEF HostCalls, HostStep

\* A request only adds to the record,
LEMMA RequestAdvertising ==
  ASSUME Hosted, Advertising, NEW q \in Requests, Receive(q) \/ RequestStep(q)
  PROVE  Advertising'
<1>1. /\ UNCHANGED <<offers, advertised, prewarmed, starts, refreshed, endpoint, at, hpc>>
      /\ known \subseteq known' /\ known' \subseteq Upstreams
  BY DEF Receive, RequestStep, Dispatch, Consult, Begin, Finish, Reply, hostVars,
         serviceVars, Hosted, HostedTypeOK
<1> QED
  BY <1>1, AdvertisingFrame DEF Refreshing

\* and an endpoint's own end leaves the record alone.
LEMMA ExitAdvertising ==
  ASSUME Hosted, Advertising, NEW e \in Endpoints, EndpointExits(e)
  PROVE  Advertising'
<1>1. /\ UNCHANGED <<offers, advertised, prewarmed, starts, refreshed, known, at, hpc>>
      /\ \A f \in Endpoints : endpoint'[f] = "serving" => endpoint[f] = "serving"
  BY DEF EndpointExits, hostVars, Hosted, HostedTypeOK
<1>2. known \subseteq Upstreams
  BY DEF Hosted, HostedTypeOK
<1> QED
  BY <1>1, <1>2, AdvertisingFrame DEF Refreshing

\* What an endpoint advertises holds for as long as it serves.
THEOREM AdvertisementHolds == HostedSpec => []ServedAdvertisementHolds
<1>1. HostedInit => Advertising
  BY InitAdvertising
<1>2. Hosted /\ Advertising /\ [HostedNext]_hostedVars => Advertising'
  <2> SUFFICES ASSUME Hosted, Advertising, [HostedNext]_hostedVars PROVE Advertising'
    OBVIOUS
  <2>1. CASE UNCHANGED hostedVars
    BY <2>1 DEF hostedVars, hostVars, serviceVars, Advertising, Refreshing, Faithful, Offered
  <2> QED
    BY <2>1, HostAdvertising, RequestAdvertising, ExitAdvertising DEF HostedNext
<1>3. Advertising => ServedAdvertisementHolds
  BY DEF Advertising, Faithful, Offered, ServedAdvertisementHolds
<1> QED
  BY <1>1, <1>2, <1>3, AlwaysHosted, PTL DEF HostedSpec
=============================================================================
