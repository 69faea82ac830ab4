# A TLA+ model of cxxmcp-gateway

cxxmcp-gateway is a C++ library and a command line program that presents several upstream
MCP servers to a client as one server. It lists their tools, resources, resource templates
and prompts as one catalog under names of its own, routes what a client sends back to the
right upstream, keeps per-upstream sessions and state, and can host the result as an HTTP
endpoint. Everything runs in `gateway::GatewayRuntime` (`gateway/src/runtime.cpp`), on
threads of the host, of `std::async` and of the HTTP endpoint.

This directory holds TLA+ modules translated from that source, TLC configurations that check
them on small instances, and proofs, checked by TLAPS, that hold for every instance. Paths
below are relative to the repository's root; where a directory is missing, `router.cpp`,
`runtime.cpp` and `catalog.cpp` are those of `gateway/src/`.

## 1. The system

| Component | State it keeps | Operations | Where |
|---|---|---|---|
| Upstream operations | per upstream: `status`, `active_calls`, `capabilities` (under `upstream_state_mutex`) | begin, connect, initialize, use, mark, finish, and the way out of each error return | `runtime.cpp:304-391`, `755-958` |
| Persistent session pool | per upstream: slots with `in_use`, `service`, `capabilities`; a mutex and a condition variable | acquire one slot, acquire all, release and notify, ensure a session, discard it | `runtime.cpp:203-243`, `597-753` |
| Shutdown | `stopping`, `stopped` (under `upstream_state_mutex`) | `stop()`: flag, notify, stop the endpoint, drain, close sessions, mark | `runtime.cpp:1675-1738` |
| Hosted endpoint | `service`, a shared reference to a running service (under `service_mutex`) | `start_http`, `wait`, `stop`, its own exit; a request thread per client request | `runtime.cpp:1606-1673` |
| Catalog listings | one cached aggregate per family (under `catalog_cache_mutex`) | four list operations (a task per upstream, gather, merge, store), `clear_cached_catalogs` | `runtime.cpp:517-571`, `960-1290` |
| Capability record | the capabilities in the upstream state | skip or refuse an upstream, `refresh_upstream_capabilities`, what the gateway advertises | `runtime.cpp:62-143`, `393-472`, `1292-1322` |
| Router | none | expose and resolve names, URIs and templates; find the upstream | `router.cpp` |
| Configuration | none | validate, merge, read JSON, expand environment variables | `router.cpp`, `config_io.cpp` |
| Catalog merge | none | expose, annotate, detect duplicates, sort | `catalog.cpp` |
| JSON-RPC dispatch | none | decode, call one operation, encode | `runtime.cpp:1418-1530` |
| Observer, snapshot | none | call back after a status change; read the record and the pools | `runtime.cpp:260-323`, `474-510` |
| Program, example host | none | read the command line, load, merge, override, construct, prewarm, start, wait | `cli/main.cpp`, `examples/embedded_runtime_host.cpp` |

How they interact. A *routed call* resolves its identifier, checks the capability record of
its upstream, and runs one upstream operation. A *listing* runs one upstream operation per
eligible upstream, each in its own thread, and merges the answers. A *refresh* (also used as
prewarm) runs one upstream operation per upstream, one after the other, which makes no
request. An *upstream operation* counts itself in `active_calls`, obtains a session, of its
own or from the pool, reports its progress in the upstream's `status`, and uncounts itself.
`stop()` meets all of them: it raises a flag they read, wakes those that wait for a slot,
waits on a second condition variable for the counts to be zero, and closes the pools without
asking whether anybody uses them. The *hosted endpoint* turns client requests into all of the
above on threads of its own, which hold a plain pointer to the runtime; the host starts it,
waits for it, stops it and destroys the runtime. A *status change* is made under a mutex and
reported to the observer after the mutex is released, by the thread that made it.

What is hard in this code, and hard to test:

- `stop()` sets its flag under one mutex and notifies a condition variable that belongs to
  another: a waiter that has read the flag and not yet gone to sleep misses the notification.
- closing the sessions is safe only because of an order kept elsewhere: the slot is released
  before the operation is uncounted, and the close comes after the drain.
- one condition variable serves calls that need one slot and refreshes that need them all,
  and a call releases with `notify_one`.
- every error return must undo what the operation has done so far, in the right order:
  discard the session, release the slot, notify, uncount, notify, and leave a status that is
  not transient.
- several threads may call `stop()`, one of them again after a timeout.
- a fan-out consults the capability record while the tasks it has started write to it.
- names and URIs are parsed by the first dot or slash, and encoded by two functions that
  treat braces differently.
- an endpoint takes requests before the runtime refers to it, and the destructor and the move
  assignment ignore the error of a `stop()` that timed out.
- events are delivered after the mutex is released, so they may cross; a snapshot reads the
  record and the pools at different moments.
- a gateway behind a gateway attaches metadata under the same keys.
- a setting may come from the defaults, the file, the environment, the command line or a host,
  and only some of these ways validate it.

What makes each component correct:

- operations: the count is exact on every path; nothing is admitted once `stop()` has begun,
  although the check on entry and the admission are two critical sections; a transient status
  always has somebody who will replace it.
- pool: a slot has one owner and no slot is lost; a prewarm is alone; nobody sleeps with
  nobody left to wake him; a degraded pool is repaired by use; sessions are closed by their
  owner, or by `stop()` when there is none.
- shutdown: a stopped runtime is at rest, whichever of the `stop()` calls ended it; every
  `stop()` returns when its wait is unbounded; halting is final.
- catalog: an aggregate is complete or not cached; after an invalidation nothing older is
  served; polling succeeds in the end; a listing that reached everyone it asked
  leaves the capability record complete, although listings and calls record side by side.
- router: what is exposed is accepted and reaches its publisher unchanged.
- endpoint: nothing is served that a `stop()` cannot reach, no request outlives the runtime,
  every `wait()` returns, and what was advertised is true for as long as it is served.
- observer: an event that says stopped is true and final; events are wrong only where two
  changes crossed.
- merge: the order of upstreams and items does not show, and metadata names the route.
- launch: what the runtime works with is what the right writer wrote, and nothing is contacted
  under an invalid configuration.

## 2. The modules

| Module | What it is | Extends or instantiates |
|---|---|---|
| `Lifecycle` | abstract: what the runtime promises about shutdown | |
| `SessionPool` | the pool of one upstream: mutex, condition variable, calls, refreshes, `stop()` | |
| `GatewayRuntime` | upstream operations, pools, status record, endpoint, `stop()`, together | INSTANCE `Lifecycle` |
| `PoolRefinement` | each pool of `GatewayRuntime` implements `SessionPool` | EXTENDS `GatewayRuntime`, INSTANCE `SessionPool` |
| `CatalogCache` | listings, cache, capability record, invalidation | |
| `Routing` | identifiers, the percent codec, routes | |
| `HostedEndpoint` | host threads, endpoints and their requests, destruction | |
| `Observation` | status changes, observer events, snapshots | |
| `CatalogMerge` | the contents of catalogs through a chain of gateways | |
| `Configuration` | reading, expanding, validating and merging configurations | |
| `Launch` | from the command line, a file or a host to a serving runtime | EXTENDS `Configuration` |
| `Foundations` | lemmas on numbers, induction, recursive functions and sequences | |
| `GatewayRuntimeProofs` | theorems on operations, slots, shutdown and both refinements | EXTENDS `PoolRefinement` |
| `SessionPoolProofs` | theorems on owning, sleeping and waking | EXTENDS `SessionPool` |
| `CatalogProofs` | theorems on the cache, the capability record and the merge | EXTENDS `CatalogCache`, `CatalogMerge`, `Foundations` |
| `RoutingProofs` | theorems on the codec and on routes | EXTENDS `Routing`, `Foundations` |
| `LaunchProofs` | theorems on configurations, what is contacted, and expansion | EXTENDS `Launch`, `Foundations` |
| `HostedEndpointProofs` | theorems on endpoints, requests and advertisements | EXTENDS `HostedEndpoint` |
| `ObservationProofs` | theorems on events and snapshots | EXTENDS `Observation` |
| `MC...` | inputs, model values and symmetry for TLC | |

The modules meet at the operation. `GatewayRuntime` has all of it; `SessionPool` is one pool of
it, linked by `PoolRefinement`; `Lifecycle` is what it promises, linked by refinement too.
`CatalogCache`, `HostedEndpoint` and `Observation` are other views of the same program with the
operation cut down to what their own questions depend on: in `CatalogCache` it ends with an
answer or without, in `HostedEndpoint` it is counted while it lasts, in `Observation` every
status change of it is two steps. Each view was kept small enough to check several actors whole.

Definitions named after a "Mutant of" some other definition are wrong on purpose. They
are not part of a specification. Putting one in the place of the definition it names makes
TLC find the property that it is paired with in `PROJECT.json` violated, which shows that
the property depends on that line of the code.

### GatewayRuntime

A thread of `Calls` runs one operation at a time: `"call"` stands for a routed call or one
task of a listing (`with_initialized_upstream`), `"refresh"` for
`refresh_upstream_capabilities`, which goes from upstream to upstream. Its program counter
walks through the code:

| `pc` | Where the thread is | Steps from there |
|---|---|---|
| `begin` | before `begin_upstream_call` (326-340) | `BeginCall` |
| `acquire` | wants `session.mutex` and will evaluate the predicate | `RefuseSlot`, `TakeSlots`, `FindPoolBusy` |
| `window` | predicate false, mutex held, not yet asleep | `Block` |
| `blocked` | asleep | woken by `Signal`, `NotifyWaiters`, `WakeUnasked`; `AcquireTimesOut` |
| `ensure` | has a slot, or needs none | `KeepSession`, `Connect` |
| `connect`, `initialized` | building, serving, initializing; notifying | `Initialize`, `OpenSession`, `ConnectFails` |
| `opened` | the session is in its slot (730-732), the upstream not yet marked healthy (733) | `RecordSession` |
| `use` | the request is at the upstream | `Answer`, `UpstreamFails` |
| `discard`, `release`, `signal` | on the way out of the pool | `Discard`, `Release`, `Signal` |
| `finish`, `notifyIdle` | `finish_upstream_call` (342-357) and its notification | `Finish`, `NotifyIdle` |
| `leave` | the operation returned | `Leave` (a refresh goes on if it succeeded) |

A thread of `Stoppers` calls `stop()`: `StopBegin`, `NotifyWaiters`, `StopEndpoint`,
`CheckDrained` (with `drainWait`, `DrainTimesOut`, `WakeStopUnasked`), `CloseSessions`,
`Finalize`. It may call again after it returned, with or without an error.

A step is a critical section, a notification, or an exchange with an upstream. Where the
model takes two such steps as one, the reason is:

- `TakeSlots` reads the flags and marks the slots. The flags are under another mutex, so
  `stop()` may begin in between; but nobody can see `in_use` in between, because it is
  only touched under `session.mutex`, and the step is placed where the flags are read.
- `NotifyWaiters` notifies one pool after the other; a notification reads nothing.
- `StartHttp` is one step because `service_mutex` is held throughout, and `stop()` begins
  under the same mutex.
- `Leave` joins the return of an operation to the loop of the refresh; nothing shared is
  read there.

What is abstracted: requests and answers (an exchange succeeds, fails, or is refused by the
gateway itself, which counts as success for the status, `runtime.cpp:888-900`); the
capabilities are those for one family; `last_error`; disabled upstreams, which no operation
reaches; `std::async` running out of threads. Reporting to the observer is `Observation`'s.

### SessionPool and PoolRefinement

`SessionPool` keeps only what the pool's condition variable depends on: who owns what, who
sleeps, and which `stop()` has still to notify. Without sessions and statuses, five threads
and three slots fit. `PoolRefinement` maps a pool of `GatewayRuntime` to it, so that the
properties of sleeping and waking are properties of the runtime.

### CatalogCache

Per lister: the cache lookup, one step per turn of the fan-out loop, the gather, the store,
as separate steps (`runtime.cpp:960-1023` and its three siblings). Per upstream task:
admission, the read, the record. `known` is the set of upstreams whose capabilities are
recorded, `offers` what they really offer, constant because a server's program fixes it. An
aggregate is represented by the set of upstreams it was merged from. `fresh` and `quiet` are
history variables: they observe whether data was read before the last invalidation and
influence no step. How a task gets its session is `GatewayRuntime`'s subject: here a task
either gets one or ends `unreached` (`TaskUnconnected`), as it does when it is refused
admission: nothing was learnt of the upstream. A task that the upstream itself refused is
`failed`, but what the upstream offers was recorded on the way. A routed call and a refresh may record
capabilities even after the runtime has halted, because they may have been admitted before.
`clear_cached_catalogs` reads the flag and clears the cache in two critical sections; that
`stop()` may fall between them makes no difference to the cache, and the two are one step.

### HostedEndpoint

A host thread runs one call at a time; `hpc` names the statement it has reached.
`start_http` holds `service_mutex` from its first check to its end (`StartHttp`, `Capture`,
`Serve` or `ServeFails`, `Install`; `runtime.cpp:1606-1661`), `wait` takes a reference under
it and lets it go (`Wait`, `WaitReturns`), `stop` takes it twice (`StopBegin`,
`ResetService`) and between them stops and joins the endpoint it found. `Destroy` is the
destructor and the move assignment: a `stop()` whose error is ignored, and then the end of
the runtime. A request goes through `handle_request` (`Dispatch`), the record or the cache
(`Consult`), and an operation that is counted (`Begin`, `Finish`). `prewarmed` and
`refreshed` are history variables.

Two assumptions are about code outside `gateway/`, and both are conjuncts of the model: the SDK
reports an endpoint's end only once its request threads have returned (`Idle` in
`EndpointExits` and `Join`), and a host destroys a runtime only when none of its own threads is
in a call (`Destroy`). What upstreams offer is fixed, as in `CatalogCache`.

### Observation

Persistent mode, where there is more to see. `unsaid` is the event a thread has still to
deliver; it does nothing else before it has. `stop()` reports upstream by upstream.
`crossed` is a history variable: the last change of an upstream's status was made while some
thread had yet to report one. A snapshot is `ReadRecord` and a `ReadPool` per upstream, and
keeps whether an upstream was reported stopped, and whether anything was reported counted,
busy or initialized. How a call waits for a slot is left out: it takes a slot, is refused,
or stands where it is.

### CatalogMerge

One merge stands for the four, which differ in the names of things. A name is a sequence of
numbers, an exposed one begins with the upstream's id. Metadata is its `gateway` entry,
which may be missing, an object or something else, and its `gatewayUpstreamOriginal` entry.
`Sorted` puts every item at its rank, the number of items before it (`Before`); the position
that breaks a tie there never does in a merge, which refuses two items of one name.
A behaviour is a chain: `MergeCatalogs` merges, `NextGateway` makes the result an upstream
of the next gateway, alone or beside a second upstream, under the same id or another.

### Configuration and Launch

`Configuration` holds pure operators, one per function of `config_io.cpp` and the validation
part of `router.cpp`, under the functions' own names. Each returns the set of its results,
empty when it refuses; a record of such sets is the set of the records that can be read, and
`Each` does the same for a list. `expand_environment_placeholders` is a recursive function
over offsets, as its loop is, and `expand_from` is a turn of the loop. JSON values are told apart by what a reader of theirs takes; the
optional transport strings are one field (`texts`), command and URI are one (`target`), a
version is checked as a name is, and the id grammar keeps one forbidden character of each
sort.

`Launch` is the program's `main`, the example's, and a library host that loads a document with
an environment or constructs a runtime from whatever it likes. `Known`, `OverrideOf` and
`Refuse` say where they differ: which options they have, and that only the program exits with
a code. Things one would not guess, and that are in the model because the code does them: the
program loads its file without an environment, so placeholders there stay text; without
`config_io` compiled in `--config` exits with 2, as an unreadable file does; a JSON number of
2^63 or more wraps to a negative one and is then refused by its lower bound, one of 2^64 or
more is a floating point number; the program's own `--pool-size` goes up to 2^64-1;
`make_gateway_runtime_options` may refuse a host but never the program, whose values were
checked when they were read. A library host may call the runtime's operations itself, before it
starts an endpoint, beside one or without one (`Operate`); each validates the configuration first
(`runtime.cpp:1025-1053` and its siblings), and so does `refresh_upstream_capabilities`. `--path` is read as `--host` is, and is not kept apart.

The two properties on contents are stated without the operations they are about.
`ConstructedAsWritten` looks up in the command line, by position, which option of a kind is the
last one and which place an upstream's option gives it. `ExpansionIsSinglePass` says what a
*reading* of a text is: a sequence of the positions at which its pieces end, each piece a
placeholder closed by its first brace or a run in which none opens, no two runs side by side.

### Routing

Strings are sequences of bytes; only the prefix `cxxmcp-gateway-resource://` is one symbol.
A behaviour follows one identifier: published by an upstream, exposed, used by a client as it
is or with its variables expanded, resolved, and, for reads, exposed again in the reply.
Another starts from an identifier the client made up. `Scan` is the loop that
`percent_encode`, `percent_encode_resource_template` and `percent_decode` have in common
(`router.cpp:58-115`): at each position they append something and say where to go on.
`value` is empty for an identifier that was not expanded. Disabled and unknown upstreams are those outside `Enabled`.

## 3. The runs

Every run explores the whole state space of its instance. Symmetry over threads is used
where only invariants and step properties are checked.

| Run | Instance | What it shows |
|---|---|---|
| `pool_safety` | 3 threads, 1 upstream, 2 slots, 1 stopper, both waits bounded | `TypeOK`; `ActiveCallsExact`, `SlotOwnership`; `TransientStatusHasAuthor`, `DegradedPoolHasBrokenSlot`, `RetainedSessionIsRecorded`: the reported state is related to what threads and slots are doing; `ImplementsLifecycle` |
| `percall_stops` | 2 threads, 2 upstreams, per-call sessions, endpoint, 2 stoppers | `StoppedIsQuiescent` with an endpoint and overlapping, timed-out and repeated `stop()` calls |
| `two_pools` | 2 threads, 2 pools of 1 slot, 2 stoppers, both waits bounded | `CloseFindsPoolIdle`; `ImplementsPool` |
| `stop_liveness` | 2 threads, 1 slot, 2 stoppers, waits unbounded, fairness | `StopReturns`, `ImplementsFairLifecycle` |
| `session_pool` | 4 threads, 2 slots, 2 stoppers, bounded wait, fairness | `PrewarmIsAlone`; `SleeperHasWaker`, `OneMissedWakeup`; `SleepersWake` |
| `catalog` | 1 lister, 2 upstreams, 2 families of which one cannot be merged, 1 invalidation, 1 fault, fairness | `CachedIsExact`, `QuietInvalidationIsFresh`, `AskedCompletesRecord`; `PollingFillsCache` |
| `routing_round_trip` | identifiers of up to 4 bytes over 8 bytes, 2 upstreams, 4 values | `RoutedToPublisher`, `ExposedIsAccepted`, `ExpandedReachesPublisher` |
| `hosted_endpoint` | 2 host threads, 1 request thread, 2 upstreams, 2 endpoints one after the other, bounded drain, fairness | `ServingIsReachable`, `StoppedServesNothing`, `RuntimeOutlivesRequests`, `ServedAdvertisementHolds`; `HostCallsReturn` |
| `observation` | 2 threads, 3 operations, 1 upstream, 2 slots, 2 stoppers, 1 snapshot at a time, fairness | `StoppedEventIsTrue`, `UncrossedReportsAgree`, `StoppedSnapshotIsAtRest`; `StoppedIsTheLastWord` |
| `catalog_merge` | 2 catalogs of up to 2 items over 4 names, or 1 item with any of 20 metadata, 2 ids, 4 gateways | `MergeTypeOK` (sorted, unique, named), `OrderIsIrrelevant`, `MetadataNamesTheRoute`, `OriginalSurvives` |
| `launch` | command lines of up to 3 of 22 options, files, documents, environments, and values handed over by a host | `OnlyValidIsContacted`, `ConstructedAsWritten`, `ExpansionIsSinglePass`; `LaunchTypeOK` |
| `drain_timeout_status` | as `percall_stops` | a violation, see Findings |

Why the bounds are enough to be interesting:

- Two slots and three threads are the least at which a call and a refresh compete, a
  `notify_one` has a choice, and a refresh has a loop with a middle; the pool-only run goes to
  four threads. The proofs need no such bound.
- Two upstreams are the least at which a refresh moves on, "all drained" differs from "one
  drained", and a capability record can be incomplete.
- Two stoppers are the least at which one `stop()` overlaps another; each may call again.
- One invalidation and one fault: every property speaks of the last invalidation or of the
  presence of a failure, and a listing that fails starts from the beginning. One lister, whose
  tasks, the routed calls and the refresh already interleave; that several listers share the
  cache is covered by the theorems, which hold for any number.
- The alphabet of `routing_round_trip` holds every byte that some line of the codec treats
  specially, and three that may follow a percent sign. Four bytes hold a whole escape with a byte
  beside it, or a variable with a byte beside it; an upstream is called `{%2`, which the
  grammar of upstream ids allows. One of the values is empty, after which nothing may be left of
  a template.
- Two host threads are the least at which one call overlaps another (`stop()` with `start_http`,
  `wait()`, `refresh`, `stop()` or destruction); two endpoints the least at which one is replaced.
  One request thread suffices, since requests share nothing but the counts and the record.
- Three operations on two threads let the second change of a status cross the first, and a later
  one not; one upstream, because events of different upstreams never need to agree.
- Four gateways are two more than the least at which an original could be lost that was kept once.
- `IntMax` is 7, `MaxIdLength` 4 and `DefaultTimeout` 5 in `launch`: the numbers in its inputs
  are those at and beside the boundaries (-1, 0, `IntMax`, one more, twice as much and one
  more). `PortMax` is the code's. Texts of up to 5 characters over `$ { } a 1` hold a placeholder with a
  character beside it, two openings, or one inside another.

`routing_round_trip`, `catalog_merge`, `launch` and `hosted_endpoint` do not check deadlock,
because the life of an identifier, a chain, a program or a runtime ends; all other runs do: the
runtime always lets somebody call `stop()`, or somebody look at it.

### Fairness

Weak fairness, only on what a thread does inside an operation, a `stop()` or a list task
(`CallStep`, `StopStep`, `ListStep`, `TaskStep`, `PoolStep`), and on the end of a bounded
wait. In `HostedEndpoint` it covers what a host call does once begun (`HostStep`) and a
request once received (`RequestStep`): `service_mutex` is granted in the end, because
whoever holds it lets it go. In `Observation` it covers `CallStep` and `StopStep`, so the
observer is taken to return. Everywhere it stands for the operating system scheduling
threads and for every exchange with an upstream ending, which it does because every
transport has a positive timeout (`config.hpp`, `router.cpp`). Nobody is obliged to start an
operation, to call `stop()`, to wake for no reason, to lose a session, to end an endpoint by
itself, or to destroy the runtime. Strong fairness is not needed: a mutex is held across
steps only by a thread in `window`, which always goes on.

`SleepersWake` is stated for executions in which, eventually, no new operation arrives: with
an endless stream of calls a refresh may wait for the whole pool for ever, since nothing
in the code queues. Neither is the pool work-conserving: `notify_one` may wake a refresh
that goes back to sleep while a call that could use the slot stays asleep
(`runtime.cpp:671`), so "no call sleeps while a slot is free" is false of the code. No document
promises it; `SleepersWake` shows that the delay ends.

### Findings

One statement about the program does not hold of the code, and a run finds the counterexample:
`tests/runtime_integration_tests.cpp:4918-4919` asserts that a drain timeout leaves the
upstream reported `stopping` (`drain_timeout_status`). An operation in flight
that makes progress overwrites that status (`runtime.cpp:310-324`, `359-391`), so it may
read `connecting`, `healthy` or `degraded`.

Two more remarks, which no run is needed for:

- `docs/api_contract.md:162-164` says `stop()` drains and then stops the endpoint. The code stops
  the endpoint first (`runtime.cpp:1701-1708`). The code's order is the safe one: with the other,
  `RuntimeOutlivesRequests` fails, as its mutant shows.
- `docs/gateway_scope.md:449-452` says that a completion's template is rewritten to the upstream's.
  Template variables are copied verbatim by the encoder (`router.cpp:62-69`) and decoded by the
  decoder, so a variable with percent signs in it comes back changed. `Routing`'s properties therefore
  speak of templates whose variables have none.

## 4. The proofs

Every invariant and every step property that a run checks is proved, and both refinements
without fairness are; what is only model-checked is at the end of this section.

`GatewayRuntimeProofs`, for every finite set of threads, any number of `stop()` callers,
upstreams and slots, both session modes, and any setting of the timeouts and the endpoint:

| Theorem | States |
|---|---|
| `TypeCorrect` | `[]TypeOK` |
| `SlotsOwned` | `[]SlotOwnership`: a slot in use has exactly one owner |
| `CallsCounted` | `[]ActiveCallsExact`: `active_calls` is the number of operations in flight |
| `TransientHasAuthor` | `[]TransientStatusHasAuthor` |
| `DegradedHasBrokenSlot` | `[]DegradedPoolHasBrokenSlot` |
| `RetainedIsRecorded` | `[]RetainedSessionIsRecorded` |
| `CloseIsSafe` | `[]CloseFindsPoolIdle`: sessions are closed when nobody uses them |
| `StopIsQuiescent` | `[]StoppedIsQuiescent` |
| `HaltingIsFinal` | `NoWorkOnceHalting` |
| `RuntimeImplementsLifecycle` | `Spec => Abstract!LifecycleSpec`, under the mapping at the end of `GatewayRuntime` |
| `RuntimeImplementsPool` | `Spec => ImplementsPool` in persistent mode, for each upstream |

`SessionPoolProofs`, for any threads, stoppers and number of slots:

| Theorem | States |
|---|---|
| `PoolTypes`, `PoolOwners`, `PrewarmAlone` | `[]PoolTypeOK`, `[]PoolOwnership`, `[]PrewarmIsAlone` |
| `SleepersHaveWakers` | `[]SleeperHasWaker`: no thread sleeps without one that will still notify |
| `AtMostOneMissed` | `[]OneMissedWakeup` |

`CatalogProofs`, for any number of listers, upstreams, families, invalidations and faults, and
for catalogs of any size through any number of gateways:

| Theorem | States |
|---|---|
| `CatalogTypes` | `[]CatalogTypeOK` |
| `CachedExact` | `[]CachedIsExact`: an aggregate is all or nothing |
| `QuietFresh` | `[]QuietInvalidationIsFresh` |
| `RecordCompleted` | `[]AskedCompletesRecord`: a listing that reached everyone it asked leaves the record complete |
| `MergeTypes` | `[]MergeTypeOK`: a merge is strictly sorted, and every name in it is an upstream's id and a name |
| `OrderDoesNotShow` | `[]OrderIsIrrelevant` |
| `RouteNamed`, `OriginalKept` | `[]MetadataNamesTheRoute`, `[]OriginalSurvives` |

`RoutingProofs`, for identifiers of any length over any bytes, any upstreams with valid ids and
any values:

| Theorem | States |
|---|---|
| `CodecRoundTrip` | `percent_decode` undoes `percent_encode` |
| `TemplateRoundTrip` | it undoes `percent_encode_resource_template` where no variable has a percent sign |
| `ExpansionRoundTrip` | an encoded template with encoded values in it decodes to the template with the values in it |
| `RouteOfExposed`, `RouteOfExpansion` | what `resolve_*_route` makes of what was exposed, as it is and expanded |
| `RoutingInvariant` | types, and what the client holds is what was exposed or made of it |
| `Routed`, `Accepted`, `Expanded` | `[]RoutedToPublisher`, `[]ExposedIsAccepted`, `[]ExpandedReachesPublisher` |

`LaunchProofs`, for every set of command lines, files, environments and values, whatever their
sizes and lengths:

| Theorem | States |
|---|---|
| `LaunchTypes` | `[]LaunchTypeOK`: whatever was given, the runtime works with a mode, a positive pool size and timeouts that are not negative |
| `OnlyValidContacted` | `[]OnlyValidIsContacted` |
| `AsWritten` | `[]ConstructedAsWritten` |
| `ExpandedOnce` | `[]ExpansionIsSinglePass` |

`HostedEndpointProofs`, for any numbers of host threads, request threads, endpoints and
upstreams:

| Theorem | States |
|---|---|
| `HostedTypes` | `[]HostedTypeOK` |
| `ReachesServing` | `[]ServingIsReachable`: no endpoint is left that no `stop()` would reach |
| `StoppedServes`, `OutlivesRequests` | `[]StoppedServesNothing`, `[]RuntimeOutlivesRequests` |
| `AdvertisementHolds` | `[]ServedAdvertisementHolds` |

`ObservationProofs`, for every finite set of operations and any number of stoppers, inspectors,
upstreams and slots:

| Theorem | States |
|---|---|
| `ObservedTypes` | `[]ObservedTypeOK` |
| `StoppedEvents` | `[]StoppedEventIsTrue` |
| `ReportsAgree` | `[]UncrossedReportsAgree` |
| `SnapshotsAtRest` | `[]StoppedSnapshotIsAtRest` |

Assumptions: `ThreadsAssumption` (the call threads are finitely many, and none is the value
of a free mutex; without finiteness a count says nothing), `SizesAssumption` (at least one
upstream and one slot) and `OptionsAssumption` (the options have the types the source gives
them), and those of the other modules, which say as little: counts are natural numbers, ids
and names are sequences, upstream ids keep to the grammar that `validate_upstream_id` enforces
(`EnabledAssumption`), and what a host hands over has the types of its fields: a list is a
sequence, and what is there is not of the kind that means absent (`GivenAssumption`). TLC
evaluates them in every run.

*Foundations.* The library's induction theorems take a predicate as a parameter, which no
installed prover can be given. `Foundations` has induction for the *set* of the numbers of which
something holds: the library proves the proper subset relation on finite sets well-founded, the
intervals `0..n` are finite sets, and so every set of numbers has a least one
(`LeastNatural`), from which `Induction` and `StrongInduction` follow. `RecursiveFunction`
gives the function that a recursion with a falling rank defines, so that the recursive functions
of the models, which TLA+ defines by CHOOSE, do what their equations say. No module uses a
RECURSIVE operator.

The argument for `GatewayRuntime` has two layers.

*Threads.* Neither property is inductive alone. `ThreadInv` adds three facts. A thread in
`window`, and nobody else, holds the mutex of its pool (`MutexHeld`). Only a persistent
runtime has threads at the pool's points (`PoolOnlyIfPersistent`). Slots are held only
between acquire and release, and only in a persistent runtime (`HoldersOnly`: without it
an operation could be uncounted, or move to another upstream, with slots still in its
hands). Most steps leave slots, mutexes and counts alone and cross no border that the
invariant watches: they are `PoolFrame` steps and one lemma treats them all.
`CrossingStep` names the other six, with a lemma for each or for two together.

*Stop.* `StopInv` follows `stop()` along its points: whoever is inside `stop()` knows that
the runtime halts (`HaltingWhileInStop`); an endpoint is either known to every `stop()` that
has still to stop it or gone (`EndpointGone`), since none starts while the runtime halts;
past the drain nobody is in flight (`NobodyLeft`), which holds for good because nobody is
admitted; past the close there is no session (`SessionsClosed`); and in a stopped runtime
every status is final (`StatusFinal`). The link between the layers is `DrainedMeansNobody`:
the drain reads counters, and `ActiveCallsExact` turns zero counters into no threads;
`NobodyHolds` turns no threads into no slots.

*Record.* `RecordInv` strengthens the three properties in two places. A degraded upstream
is `Broken` (`DegradedIsBroken`): it has a slot without a session into which no thread is
about to put one, or a thread that is about to discard one. And from initialize on, an operation knows the capabilities, and a retained
session has them in its slot (`OffersKnown`). Between installing a session and recording it
an operation owns the slot it works on (`CurrentIsHeld`), so that with `SlotOwnership` nobody
else is in it (`OwnSlot`); and when `stop()` closes the sessions nobody is in between
(`NobodyLeft`), which is why this part rests on *Stop*. All steps but those an operation makes
in its session, the marks of `stop()`, its closing of sessions and a session's end leave the
record alone (`RecordFrame`). Those an operation makes touch one upstream's record and one
slot (`OneSession`); one lemma says what they must see to there (`Answerable`), and each of
the nine is seen to.

*Refinement of the pool.* `PoolRefinement` shows each thread to the observed pool as being
out, at the pool's points or holding. Nine steps go from holding to holding, five stay
outside, and those of threads at other upstreams are not seen; the other nine are the steps
of `SessionPool`, with `SlotOwnership` behind the frame conditions (a thread that holds
nothing may move to another upstream unseen). It needs `ThreadInv`, and of `StopInv` that
the runtime halts until it is stopped. What is proved of `SessionPool` carries over to the
runtime by this theorem; the prover cannot instantiate the temporal theorems of another
module, so they are not restated.

*Pool.* `Owned` adds to `PoolOwnership` what it depends on: a holder owns slots, and a
prewarm all of them (`HoldersOwn`); the mutex is held in the window and only there
(`WindowHasMutex`); and the window is entered only when a slot is taken, so it has somebody
to wait for (`WindowIsBusy`). `PrewarmIsAlone` follows at once. `Woken` adds `OneDozes`:
once the pool halts and every `stop()` has notified it, at most one thread is asleep or in
the window, for none enters it any more. That the notification comes without the mutex is
why it is "at most one" and not "none", and `SleeperHasWaker` needs `WindowIsBusy` because
the one that is missed must have an owner behind it.

*Catalog.* `Exact` has one fact per lister and upstream (`Tracked`): an upstream that offers
the family and that the fan-out has passed has a task; a task that ended well brought a
reading; nothing else did; and nobody stores with a task that failed or reached nobody. So what is stored was
merged from exactly the upstreams that offer the family, whatever tasks of other listings
recorded meanwhile. While `quiet` holds, nothing stale is cached and no lister holds a stale
reading. `Learnt` follows the record: a task that reached its upstream recorded it, and an
upstream without a task was skipped when everything was known; the record only grows, so both
stay true whatever other listings, calls and refreshes do (`AllLearnt`).

*Merge.* `Less` is a strict total order on sequences of numbers. When the names differ, the rank
of an item is injective, hence, the ranks being as many as the items, onto: `Sorted` is a
permutation in strictly rising order, and there is one such permutation only (a shuffle of the
items sorts to the same). The positions of the flattened catalogs correspond to pairs of a catalog
and an item in it (`IsPlaced`, by induction over the catalogs), so that reversing either order
gives a shuffle; what is refused does not depend on the order either. `MergeInv` says of the
items, when the first gateway had a single upstream, that each of them, on its way through the
chain, has kept what that upstream's item published under the name `gateway`, unless it also
published under the name that keeps the original (`KeptOf`): in place while nothing collided with
it, and as the original ever after.

*Routing.* A scan's rest from a position exists by `RecursiveFunction`, and a scan is its first
chunk and the scan of the remainder (`ScanShift`). The round trips are inductions over the length
of the text, by what it begins with: a byte, whose escape decodes to it, or a variable, which is
copied, and in which no escape begins. An upstream's id has neither dot nor slash and its encoding
has no slash, so the first separator is the one the gateway put there. `RoutingInv` then has only
to say where the identifier the client holds comes from.

*Launch.* `LaunchTypes` needs that every reader returns values in range, by cases over where
the value came from. `ContactIsLate` says that connections are made only after construction,
from which on `config` does not change, and past a validation of it; a lemma turns what
`validate_gateway_config` computes into `Sound`.

`AsRead` is what makes `ConstructedAsWritten` inductive. While options are being read, `args` is
what is left of the command line; every override is the last option of its kind among those read,
so is the file, and the upstreams are those of the options read, each at the place that the count
of such options before it gives (`StillReading`). Loading puts the file's upstreams in front
and takes its settings (`ReadyToOverride`): a number that wrapped is negative and refused by its
lower bound, so the number taken is the one written. Overriding prefers what the command line says
(`ReadyToConstruct`), and what the constructor gets is usable, so it clamps nothing. The example
host knows no `--config`, which is why it needs no case for one.

`ExpansionIsSinglePass` is an induction from the end of the text: whatever was read before an
offset, if it ends with a placeholder, every result of the loop from there completes it to a whole
reading of which it appends the meaning (`AllComplete`). The text before the next placeholder, if
any, is one plain piece, the placeholder is another, and the loop goes on behind it. The ends of
the pieces rise, and a rising sequence is the only one `InOrder` makes of its numbers. Of the
state the proof needs only that a library host has no command line, so that its configuration
changes when it loads and at no other time (`LibraryHost`).

*Hosting.* `Hosted` says who may refer to an endpoint. Across steps `service_mutex` is held
by a `start_http` that is building one, while the runtime accepts and none runs (`Locked`);
endpoints are numbered as they are built (`Numbered`). Hence the runtime refers to every
live endpoint, or `start_http` is about to make it (`Reached`), a `stop()` past its first
section has the same one or finds it closed (`StopsReach`), and the runtime has let go of it
when it is stopped or destroyed, however the destructor's `stop()` ended (`LetGo`). Requests
live at live endpoints only (`Attended`), which gives the two theorems on requests.
`Advertising` follows a prewarm upstream by upstream (those before the one it has reached
are known, and all are once it is over) and says of every endpoint built so far that its
copy of the record was a faithful one.

*Observation.* `Halted` follows `stop()` as `StopInv` does, in the smaller model. `ToldStopped`
is stronger than the property it is for: in a stopped runtime an upstream is reported stopped,
or a `stop()` stands before that report in its loop. `Uncrossed` says of each upstream whose
last change met no unreported one that every report still to come, or the last one made, is
that change. `SeenAtRest` rests on `stopped` being final: what the first half of a snapshot
saw stopped is at rest when the second half is read.

Only model-checked: all liveness (`StopReturns`, `ImplementsFairLifecycle`,
`SleepersWake`, `PollingFillsCache`, `HostCallsReturn`, `StoppedIsTheLastWord`), which
the prover does not treat: it has no rule for fairness and none for ENABLED.

## 5. Not modelled

- the decoding of JSON-RPC parameters and the encoding of results (`runtime.cpp:1418-1530` calls one
  operation per method; which methods reach the runtime's state is in `HostedEndpoint`);
- errors' wording and annotation (`error.cpp`): only whether an error is the gateway's own matters;
- transports, JSON parsing and the MCP SDK, which are outside the repository and appear as
  exchanges that end in one of the ways the gateway distinguishes, and as values of some kind;
- an observer that calls `wait()` or `stop()` on the runtime it observes, and so may wait for itself:
  `docs/api_contract.md:194-196` leaves this to the host;
- the size of numbers beyond their acceptance: memory for very many slots, and what the clock
  does with timeouts near the largest;
- `std::async` refusing a thread, which leaves by an exception;
- the performance tool, which only measures, the umbrella header, build files and tests.

## 6. Plan

What could be added, in order of what it adds:

1. Completions' two capability checks, one before and one inside the session, with dispatch on
   top of `CatalogCache`.
2. The decoding of JSON-RPC parameters, as far as it decides which requests reach an operation.
