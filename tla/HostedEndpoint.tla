--------------------------- MODULE HostedEndpoint ---------------------------
(***************************************************************************)
(* The host's side of gateway/src/runtime.cpp: the threads of an embedding *)
(* program (or of the command line program) that call start_http, wait,    *)
(* stop and refresh_upstream_capabilities, and that end the runtime's life *)
(* by its destructor or a move assignment; the endpoints they start; and   *)
(* the request threads of those endpoints, which hold a plain pointer to   *)
(* the runtime.                                                            *)
(*                                                                         *)
(* Pools, sessions and statuses are GatewayRuntime's subject: here an      *)
(* upstream operation is counted while it lasts, and ends.                 *)
(***************************************************************************)
EXTENDS Integers, FiniteSets

CONSTANTS
  Hosts,          \* threads of the host
  Requests,       \* request threads of the endpoints
  NoThread,       \* nobody: the value of a free mutex
  UpstreamCount,  \* how many enabled upstreams the configuration lists
  MaxStarts,      \* bound: endpoints started in a run
  DrainBounded    \* active_call_drain_timeout > 0

ASSUME HostsAssumption == NoThread \notin Hosts
ASSUME CountsAssumption == /\ UpstreamCount \in Nat \ {0}
                           /\ MaxStarts \in Nat
                           /\ DrainBounded \in BOOLEAN

Upstreams == 1 .. UpstreamCount       \* in configuration order
Endpoints == 1 .. MaxStarts
None      == 0                        \* a null reference to an endpoint

\* The catalog families, as one, and completions, which are advertised by
\* different rules.
Families == {"catalogs", "completions"}

VARIABLES
  offers,       \* what each upstream advertises; a server's program fixes it
  known,        \* the upstreams whose capabilities are recorded
  phase,        \* "accepting", "stopping", "stopped" or "destroyed"
  mutex,        \* service_mutex, when held across steps
  service,      \* the endpoint the runtime refers to
  endpoint,     \* what each endpoint does
  advertised,   \* the capabilities each endpoint was built with
  starts,       \* endpoints built so far
  hpc, ref,     \* where each host thread stands, the endpoint it refers to
  at,           \* the upstream its refresh has reached
  prewarmed,    \* history: a refresh had succeeded when the endpoint was built
  refreshed,    \* history: a refresh has succeeded
  dying,        \* the thread that destroys the runtime
  req, on       \* where each request thread stands, and its endpoint

hostVars == <<hpc, ref, at>>
requestVars == <<req, on>>
serviceVars == <<mutex, service, endpoint, advertised, starts, prewarmed>>
hostedVars == <<offers, known, phase, serviceVars, hostVars, refreshed, dying,
                requestVars>>

HostPoints == {"idle", "capture", "serve", "ready", "waiting", "callStop",
               "endpoint", "joining", "reset", "drain", "finalize", "refresh",
               "connect"}
RequestPoints == {"none", "received", "consult", "begin", "counted", "reply"}

HostedTypeOK ==
  /\ offers \in [Upstreams -> SUBSET Families]
  /\ known \in SUBSET Upstreams
  /\ phase \in {"accepting", "stopping", "stopped", "destroyed"}
  /\ mutex \in Hosts \cup {NoThread}
  /\ service \in Endpoints \cup {None}
  /\ endpoint \in [Endpoints -> {"unused", "serving", "exited", "closing", "closed"}]
  /\ advertised \in [Endpoints -> SUBSET Families]
  /\ starts \in 0 .. MaxStarts
  /\ hpc \in [Hosts -> HostPoints]
  /\ ref \in [Hosts -> Endpoints \cup {None}]
  /\ at \in [Hosts -> Upstreams]
  /\ prewarmed \in [Endpoints -> BOOLEAN]
  /\ refreshed \in BOOLEAN
  /\ dying \in Hosts \cup {NoThread}
  /\ req \in [Requests -> RequestPoints]
  /\ on \in [Requests -> Endpoints \cup {None}]

HostedInit ==
  /\ offers \in [Upstreams -> SUBSET Families]
  /\ known = {}
  /\ phase = "accepting"
  /\ mutex = NoThread
  /\ service = None
  /\ endpoint = [e \in Endpoints |-> "unused"]
  /\ advertised = [e \in Endpoints |-> {}]
  /\ starts = 0
  /\ hpc = [h \in Hosts |-> "idle"]
  /\ ref = [h \in Hosts |-> None]
  /\ at = [h \in Hosts |-> 1]
  /\ prewarmed = [e \in Endpoints |-> FALSE]
  /\ refreshed = FALSE
  /\ dying = NoThread
  /\ req = [q \in Requests |-> "none"]
  /\ on = [q \in Requests |-> None]

Go(h, there) == hpc' = [hpc EXCEPT ![h] = there]

Accepting == phase = "accepting"

\* A thread calls the runtime only while nobody destroys it.
Free(h) == hpc[h] = "idle" /\ dying = NoThread

-----------------------------------------------------------------------------
(* start_http, which holds service_mutex from its first check to its end.  *)

Running == service # None /\ endpoint[service] = "serving"

\* Mutants of StartHttp: the flags are not read, a running endpoint is not.
StartHttpWhenever(h) ==
  /\ Free(h) /\ mutex = NoThread
  /\ ~Running
  /\ starts < MaxStarts
  /\ phase # "destroyed"
  /\ mutex' = h
  /\ Go(h, "capture")
  /\ UNCHANGED <<offers, known, phase, service, endpoint, advertised, starts,
                 prewarmed, ref, at, refreshed, dying, requestVars>>

StartHttpTwice(h) ==
  /\ Free(h) /\ mutex = NoThread
  /\ Accepting
  /\ starts < MaxStarts
  /\ mutex' = h
  /\ Go(h, "capture")
  /\ UNCHANGED <<offers, known, phase, service, endpoint, advertised, starts,
                 prewarmed, ref, at, refreshed, dying, requestVars>>

\* Refusals, those of a bad endpoint or configuration included, change nothing.
StartHttp(h) ==
  /\ Free(h) /\ mutex = NoThread
  /\ Accepting
  /\ ~Running
  /\ starts < MaxStarts
  /\ mutex' = h
  /\ Go(h, "capture")
  /\ UNCHANGED <<offers, known, phase, service, endpoint, advertised, starts,
                 prewarmed, ref, at, refreshed, dying, requestVars>>

\* gateway_server_capabilities: every catalog and no completions until every
\* upstream is known, then what some upstream offers.
Advertisement ==
  IF known = Upstreams THEN UNION {offers[u] : u \in Upstreams} ELSE {"catalogs"}

Capture(h) ==
  /\ hpc[h] = "capture"
  /\ starts' = starts + 1
  /\ ref' = [ref EXCEPT ![h] = starts']
  /\ advertised' = [advertised EXCEPT ![starts'] = Advertisement]
  /\ prewarmed' = [prewarmed EXCEPT ![starts'] = refreshed]
  /\ Go(h, "serve")
  /\ UNCHANGED <<offers, known, phase, mutex, service, endpoint, at, refreshed,
                 dying, requestVars>>

\* The endpoint cannot be built or bound.
ServeFails(h) ==
  /\ hpc[h] = "serve"
  /\ mutex' = NoThread
  /\ ref' = [ref EXCEPT ![h] = None]
  /\ Go(h, "idle")
  /\ UNCHANGED <<offers, known, phase, service, endpoint, advertised, starts,
                 prewarmed, at, refreshed, dying, requestVars>>

\* From here on the endpoint takes requests, before the runtime refers to it.
Serve(h) ==
  /\ hpc[h] = "serve"
  /\ endpoint' = [endpoint EXCEPT ![ref[h]] = "serving"]
  /\ Go(h, "ready")
  /\ UNCHANGED <<offers, known, phase, mutex, service, advertised, starts,
                 prewarmed, ref, at, refreshed, dying, requestVars>>

Install(h) ==
  /\ hpc[h] = "ready"
  /\ service' = ref[h]
  /\ ref' = [ref EXCEPT ![h] = None]
  /\ mutex' = NoThread
  /\ Go(h, "idle")
  /\ UNCHANGED <<offers, known, phase, endpoint, advertised, starts, prewarmed,
                 at, refreshed, dying, requestVars>>

-----------------------------------------------------------------------------
(* wait, which keeps the endpoint alive and holds no mutex while it waits. *)

\* Mutant of Wait: the mutex is not unlocked before waiting.
WaitLocked(h) ==
  /\ Free(h) /\ mutex = NoThread
  /\ phase # "destroyed"
  /\ service # None
  /\ ref' = [ref EXCEPT ![h] = service]
  /\ mutex' = h
  /\ Go(h, "waiting")
  /\ UNCHANGED <<offers, known, phase, service, endpoint, advertised, starts,
                 prewarmed, at, refreshed, dying, requestVars>>

Wait(h) ==
  /\ Free(h) /\ mutex = NoThread
  /\ phase # "destroyed"
  /\ service # None
  /\ ref' = [ref EXCEPT ![h] = service]
  /\ Go(h, "waiting")
  /\ UNCHANGED <<offers, known, phase, serviceVars, at, refreshed, dying, requestVars>>

WaitReturns(h) ==
  /\ hpc[h] = "waiting"
  /\ endpoint[ref[h]] \in {"exited", "closed"}
  /\ ref' = [ref EXCEPT ![h] = None]
  /\ Go(h, "idle")
  /\ UNCHANGED <<offers, known, phase, serviceVars, at, refreshed, dying, requestVars>>

-----------------------------------------------------------------------------
(* refresh_upstream_capabilities: one counted operation per upstream.      *)

Refresh(h) ==
  /\ Free(h)
  /\ Accepting
  /\ Go(h, "refresh")
  /\ UNCHANGED <<offers, known, phase, serviceVars, ref, at, refreshed, dying, requestVars>>

RefreshEnds(h) == Go(h, "idle") /\ at' = [at EXCEPT ![h] = 1]

\* begin_upstream_call for the upstream whose turn it is.
RefreshBegin(h) ==
  /\ hpc[h] = "refresh"
  /\ IF Accepting THEN Go(h, "connect") /\ UNCHANGED at ELSE RefreshEnds(h)
  /\ UNCHANGED <<offers, known, phase, serviceVars, ref, refreshed, dying, requestVars>>

RefreshFails(h) ==
  /\ hpc[h] = "connect"
  /\ RefreshEnds(h)
  /\ UNCHANGED <<offers, known, phase, serviceVars, ref, refreshed, dying, requestVars>>

\* Mutant of RefreshOne: the loop stops early.
RefreshOneOnly(h) ==
  /\ hpc[h] = "connect"
  /\ known' = known \cup {at[h]}
  /\ RefreshEnds(h)
  /\ refreshed' = TRUE
  /\ UNCHANGED <<offers, phase, serviceVars, ref, dying, requestVars>>

RefreshOne(h) ==
  /\ hpc[h] = "connect"
  /\ known' = known \cup {at[h]}
  /\ IF at[h] = UpstreamCount
     THEN RefreshEnds(h) /\ refreshed' = TRUE
     ELSE /\ Go(h, "refresh")
          /\ at' = [at EXCEPT ![h] = @ + 1]
          /\ UNCHANGED refreshed
  /\ UNCHANGED <<offers, phase, serviceVars, ref, dying, requestVars>>

-----------------------------------------------------------------------------
(* The requests of an endpoint's clients.                                  *)

\* What stop() drains: operations between begin and finish_upstream_call.
Drained == /\ \A h \in Hosts : hpc[h] # "connect"
           /\ \A q \in Requests : req[q] # "counted"

Handle(q, there) == req' = [req EXCEPT ![q] = there]

Receive(q) ==
  /\ req[q] = "none"
  /\ \E e \in Endpoints :
       /\ endpoint[e] = "serving"
       /\ on' = [on EXCEPT ![q] = e]
  /\ Handle(q, "received")
  /\ UNCHANGED <<offers, known, phase, serviceVars, hostVars, refreshed, dying>>

\* handle_request: methods the SDK owns, unknown methods and parameters that
\* cannot be decoded are answered whatever the runtime's state; the others
\* enter an operation, which first checks it.
Dispatch(q) ==
  /\ req[q] = "received"
  /\ \/ Handle(q, "reply")
     \/ Accepting /\ Handle(q, "consult")
  /\ UNCHANGED <<offers, known, phase, serviceVars, hostVars, refreshed, dying, on>>

\* A cached catalog, a routing error or a gate that the record closes answers
\* without an upstream.
Consult(q) ==
  /\ req[q] = "consult"
  /\ Handle(q, "reply") \/ Handle(q, "begin")
  /\ UNCHANGED <<offers, known, phase, serviceVars, hostVars, refreshed, dying, on>>

\* begin_upstream_call.
Begin(q) ==
  /\ req[q] = "begin"
  /\ Handle(q, IF Accepting THEN "counted" ELSE "reply")
  /\ UNCHANGED <<offers, known, phase, serviceVars, hostVars, refreshed, dying, on>>

\* The exchange ends, and leaves the upstream's capabilities recorded if the
\* upstream could be initialized.
Finish(q) ==
  /\ req[q] = "counted"
  /\ \/ \E u \in Upstreams : known' = known \cup {u}
     \/ UNCHANGED known
  /\ Handle(q, "reply")
  /\ UNCHANGED <<offers, phase, serviceVars, hostVars, refreshed, dying, on>>

Reply(q) ==
  /\ req[q] = "reply"
  /\ Handle(q, "none")
  /\ on' = [on EXCEPT ![q] = None]
  /\ UNCHANGED <<offers, known, phase, serviceVars, hostVars, refreshed, dying>>

\* The SDK ends an endpoint, by itself or when it is stopped, when the
\* endpoint's request threads have returned.
Idle(e) == \A q \in Requests : on[q] # e

EndpointExits(e) ==
  /\ endpoint[e] = "serving" /\ Idle(e)
  /\ endpoint' = [endpoint EXCEPT ![e] = "exited"]
  /\ UNCHANGED <<offers, known, phase, mutex, service, advertised, starts,
                 prewarmed, hostVars, refreshed, dying, requestVars>>

-----------------------------------------------------------------------------
(* stop, by any thread, and the end of the runtime.                        *)

CallStop(h) ==
  /\ Free(h)
  /\ phase # "destroyed"
  /\ Go(h, "callStop")
  /\ UNCHANGED <<offers, known, phase, serviceVars, ref, at, refreshed, dying, requestVars>>

StopBegin(h) ==
  /\ hpc[h] = "callStop" /\ mutex = NoThread
  /\ IF phase = "stopped"
     THEN Go(h, "idle") /\ UNCHANGED <<phase, ref>>
     ELSE /\ phase' = "stopping"
          /\ ref' = [ref EXCEPT ![h] = service]
          /\ Go(h, IF service = None THEN "drain" ELSE "endpoint")
  /\ UNCHANGED <<offers, known, serviceVars, at, refreshed, dying, requestVars>>

\* Mutant of StopEndpoint: the drain comes first, and may time out.
StopEndpointAfterDrain(h) ==
  /\ hpc[h] = "endpoint"
  /\ IF Drained
     THEN /\ endpoint' = [endpoint EXCEPT ![ref[h]] =
                             IF @ = "closed" THEN "closed" ELSE "closing"]
          /\ Go(h, "joining")
          /\ UNCHANGED ref
     ELSE /\ DrainBounded
          /\ Go(h, "idle")
          /\ ref' = [ref EXCEPT ![h] = None]
          /\ UNCHANGED endpoint
  /\ UNCHANGED <<offers, known, phase, mutex, service, advertised, starts,
                 prewarmed, at, refreshed, dying, requestVars>>

\* RunningService::stop: no request is taken any more, those under way end.
StopEndpoint(h) ==
  /\ hpc[h] = "endpoint"
  /\ endpoint' = [endpoint EXCEPT ![ref[h]] =
                    IF @ = "closed" THEN "closed" ELSE "closing"]
  /\ Go(h, "joining")
  /\ UNCHANGED <<offers, known, phase, mutex, service, advertised, starts,
                 prewarmed, ref, at, refreshed, dying, requestVars>>

Join(h) ==
  /\ hpc[h] = "joining"
  /\ Idle(ref[h])
  /\ endpoint' = [endpoint EXCEPT ![ref[h]] = "closed"]
  /\ Go(h, "reset")
  /\ UNCHANGED <<offers, known, phase, mutex, service, advertised, starts,
                 prewarmed, ref, at, refreshed, dying, requestVars>>

ResetService(h) ==
  /\ hpc[h] = "reset" /\ mutex = NoThread
  /\ service' = IF service = ref[h] THEN None ELSE service
  /\ ref' = [ref EXCEPT ![h] = None]
  /\ Go(h, "drain")
  /\ UNCHANGED <<offers, known, phase, mutex, endpoint, advertised, starts,
                 prewarmed, at, refreshed, dying, requestVars>>

Drain(h) ==
  /\ hpc[h] = "drain"
  /\ Drained
  /\ Go(h, "finalize")
  /\ UNCHANGED <<offers, known, phase, serviceVars, ref, at, refreshed, dying, requestVars>>

\* stop() returns an error, which the destructor ignores.
DrainTimesOut(h) ==
  /\ hpc[h] = "drain"
  /\ DrainBounded /\ ~Drained
  /\ Go(h, "idle")
  /\ UNCHANGED <<offers, known, phase, serviceVars, ref, at, refreshed, dying, requestVars>>

Finalize(h) ==
  /\ hpc[h] = "finalize"
  /\ phase' = "stopped"
  /\ Go(h, "idle")
  /\ UNCHANGED <<offers, known, serviceVars, ref, at, refreshed, dying, requestVars>>

\* The host destroys the runtime, or assigns another to it, when none of its
\* own threads is in a call: its request threads may be.
Destroy(h) ==
  /\ \A g \in Hosts : hpc[g] = "idle"
  /\ dying = NoThread
  /\ phase # "destroyed"
  /\ dying' = h
  /\ Go(h, "callStop")
  /\ UNCHANGED <<offers, known, phase, serviceVars, ref, at, refreshed, requestVars>>

Destroyed(h) ==
  /\ dying = h /\ hpc[h] = "idle"
  /\ phase # "destroyed"
  /\ phase' = "destroyed"
  /\ UNCHANGED <<offers, known, serviceVars, hostVars, refreshed, dying, requestVars>>

-----------------------------------------------------------------------------
HostStep(h) ==
  \/ Capture(h) \/ ServeFails(h) \/ Serve(h) \/ Install(h)
  \/ WaitReturns(h)
  \/ RefreshBegin(h) \/ RefreshFails(h) \/ RefreshOne(h)
  \/ StopBegin(h) \/ StopEndpoint(h) \/ Join(h) \/ ResetService(h)
  \/ Drain(h) \/ Finalize(h) \/ Destroyed(h)

HostCalls(h) == \/ StartHttp(h) \/ Wait(h) \/ Refresh(h)
                \/ CallStop(h) \/ Destroy(h)

RequestStep(q) == Dispatch(q) \/ Consult(q) \/ Begin(q) \/ Finish(q) \/ Reply(q)

HostedNext ==
  \/ \E h \in Hosts : HostCalls(h) \/ HostStep(h) \/ DrainTimesOut(h)
  \/ \E q \in Requests : Receive(q) \/ RequestStep(q)
  \/ \E e \in Endpoints : EndpointExits(e)

HostedSpec == HostedInit /\ [][HostedNext]_hostedVars

\* Threads are scheduled, service_mutex is granted, and exchanges end.
FairHostedSpec ==
  /\ HostedSpec
  /\ \A h \in Hosts : WF_hostedVars(HostStep(h))
  /\ \A q \in Requests : WF_hostedVars(RequestStep(q))

-----------------------------------------------------------------------------
\* At most one endpoint is live, and one that takes requests can be reached by
\* stop(): the runtime refers to it, or is about to, or a stop() does.
ServingIsReachable ==
  /\ \A e, f \in Endpoints :
       {endpoint[e], endpoint[f]} \subseteq {"serving", "closing"} => e = f
  /\ \A e \in Endpoints : endpoint[e] = "serving" =>
       service = e \/ \E h \in Hosts : ref[h] = e /\ hpc[h] \in {"ready", "endpoint"}

\* A stopped runtime serves nothing and no request is under way, whichever of
\* several stop() calls ended it and whatever start_http calls overlapped it
\* (docs/gateway_scope.md:537-550).
StoppedServesNothing ==
  phase = "stopped" =>
    /\ service = None
    /\ \A e \in Endpoints : endpoint[e] \notin {"serving", "closing"}
    /\ \A q \in Requests : req[q] = "none"

\* No request thread uses the runtime's memory after the destructor or a move
\* assignment, even if their stop() timed out in its drain and its error was
\* ignored (runtime.cpp:1531-1543): the endpoint is stopped before the drain.
RuntimeOutlivesRequests ==
  phase = "destroyed" => \A q \in Requests : req[q] = "none"

\* What an endpoint advertises is fixed when it starts.  For as long as it
\* serves it hides no catalog an upstream offers and advertises no completions
\* nobody offers, and if a refresh had succeeded before it is exact
\* (docs/api_contract.md:96-98).
ServedAdvertisementHolds ==
  LET offered == UNION {offers[u] : u \in Upstreams} IN
  \A e \in Endpoints : endpoint[e] = "serving" =>
    /\ offered \subseteq advertised[e] \cup {"completions"}
    /\ "completions" \in advertised[e] => "completions" \in offered
    /\ prewarmed[e] => advertised[e] = offered

\* Every call of the host returns: stop() gets service_mutex although start_http
\* and wait() use it, and what it waits for ends; and wait() returns once stop()
\* has begun, whichever endpoint it waits for (docs/api_contract.md:177-178).
HostCallsReturn ==
  \A h \in Hosts :
    hpc[h] # "idle" /\ (hpc[h] = "waiting" => ~Accepting) ~> hpc[h] = "idle"
=============================================================================
