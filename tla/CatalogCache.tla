---------------------------- MODULE CatalogCache ----------------------------
(***************************************************************************)
(* The catalog side of gateway/src/runtime.cpp: the four list operations,  *)
(* each of which answers from a cached aggregate or asks every eligible    *)
(* upstream in a task of its own and stores the merged answers; what       *)
(* decides which upstreams are eligible (the recorded capabilities); and   *)
(* the invalidations by clear_cached_catalogs and by                       *)
(* refresh_upstream_capabilities.                                          *)
(*                                                                         *)
(* How a task obtains a session is GatewayRuntime's subject; here a task   *)
(* is admitted, answered or refused by the upstream, and recorded.         *)
(***************************************************************************)
EXTENDS Integers, FiniteSets

CONSTANTS
  Listers,        \* threads that call a list operation
  UpstreamCount,  \* how many enabled upstreams the configuration lists
  Families,       \* the list operations called
  Unmergeable,    \* families of which the merge refuses the upstreams' data
  MaxClears,      \* bound: invalidations by the host
  MaxFaults       \* bound: sessions that cannot be opened, requests that fail

CatalogFamilies    == {"tools", "resources", "templates", "prompts"}
CatalogCapabilities == {"tools", "resources", "prompts"}

ASSUME CatalogAssumption == /\ UpstreamCount \in Nat \ {0}
                            /\ Families \subseteq CatalogFamilies /\ Families # {}
                            /\ Unmergeable \subseteq Families
                            /\ MaxClears \in Nat /\ MaxFaults \in Nat

Upstreams == 1 .. UpstreamCount       \* in configuration order

\* Templates are listed under the resources capability.
CapabilityOf(f) == IF f = "templates" THEN "resources" ELSE f

VARIABLES
  offers,     \* what each upstream advertises; a server's program fixes it
  known,      \* the upstreams whose capabilities are recorded
  halted,     \* stopping || stopped
  cache,      \* per family: the cached aggregate, if any
  \* per lister: where it stands, for which family, which upstream comes next,
  \* and the task it has started for each upstream with what that has read
  point, family, next, task, got,
  refreshing, \* the upstream refresh_upstream_capabilities is at, or 0
  quiet,      \* history: no listing was under way at the last invalidation
  clears, faults

listVars == <<point, family, next, task, got>>
catalogVars == <<offers, known, halted, cache, listVars, refreshing, quiet,
                 clears, faults>>

\* An aggregate is what it was merged from; fresh is history: every part of it
\* was read from its upstream after the last invalidation.
Aggregates == [filled: BOOLEAN, from: SUBSET Upstreams, fresh: BOOLEAN]
Miss == [filled |-> FALSE, from |-> {}, fresh |-> TRUE]

\* A failed task has learnt what its upstream offers; an unreached one has not.
Tasks == {"none", "spawned", "running", "answered", "refused",
          "done", "failed", "unreached"}

\* What has been read of an upstream: nothing, its catalog, or its catalog as
\* it was before the last invalidation.
Readings == {"nothing", "fresh", "stale"}

CatalogTypeOK ==
  /\ offers \in [Upstreams -> SUBSET CatalogCapabilities]
  /\ known \in SUBSET Upstreams
  /\ halted \in BOOLEAN
  /\ cache \in [Families -> Aggregates]
  /\ point \in [Listers -> {"idle", "lookup", "fanout", "gather", "store"}]
  /\ family \in [Listers -> Families]
  /\ next \in [Listers -> 1 .. UpstreamCount + 1]
  /\ task \in [Listers -> [Upstreams -> Tasks]]
  /\ got \in [Listers -> [Upstreams -> Readings]]
  /\ refreshing \in 0 .. UpstreamCount
  /\ quiet \in BOOLEAN
  /\ clears \in 0 .. MaxClears
  /\ faults \in 0 .. MaxFaults

CatalogInit ==
  /\ offers \in [Upstreams -> SUBSET {CapabilityOf(f) : f \in Families}]
  /\ known = {}
  /\ halted = FALSE
  /\ cache = [f \in Families |-> Miss]
  /\ point = [l \in Listers |-> "idle"]
  /\ family = [l \in Listers |-> CHOOSE f \in Families : TRUE]
  /\ next = [l \in Listers |-> 1]
  /\ task = [l \in Listers |-> [u \in Upstreams |-> "none"]]
  /\ got = [l \in Listers |-> [u \in Upstreams |-> "nothing"]]
  /\ refreshing = 0
  /\ quiet = TRUE
  /\ clears = 0
  /\ faults = 0

-----------------------------------------------------------------------------
(* The recorded capabilities.                                              *)

Complete == known = Upstreams         \* has_complete_capability_cache

Supports(u, f) == CapabilityOf(f) \in offers[u]

\* Mutant of ShouldList: the record is taken as complete once it holds anything.
ShouldListOnceSomeKnown(u, f) == known # {} => u \in known /\ Supports(u, f)

\* should_list_*_for: nobody is skipped before everybody is known.
ShouldList(u, f) == Complete => Supports(u, f)

-----------------------------------------------------------------------------
(* A list operation.                                                       *)

Reach(l, there) == point' = [point EXCEPT ![l] = there]

Return(l) == /\ Reach(l, "idle")
             /\ next' = [next EXCEPT ![l] = 1]
             /\ task' = [task EXCEPT ![l] = [u \in Upstreams |-> "none"]]
             /\ got' = [got EXCEPT ![l] = [u \in Upstreams |-> "nothing"]]

StartList(l, f) ==
  /\ point[l] = "idle"
  /\ ~halted
  /\ Reach(l, "lookup")
  /\ family' = [family EXCEPT ![l] = f]
  /\ UNCHANGED <<offers, known, halted, cache, next, task, got, refreshing,
                 quiet, clears, faults>>

LookUp(l) ==
  /\ point[l] = "lookup"
  /\ Reach(l, IF cache[family[l]].filled THEN "idle" ELSE "fanout")
  /\ UNCHANGED <<offers, known, halted, cache, family, next, task, got,
                 refreshing, quiet, clears, faults>>

\* One turn of the fan-out loop.  Tasks started by earlier turns already run,
\* and may complete the record that this turn consults.
Decide(l) ==
  /\ point[l] = "fanout"
  /\ IF next[l] > UpstreamCount
     THEN Reach(l, "gather") /\ UNCHANGED <<next, task>>
     ELSE /\ next' = [next EXCEPT ![l] = @ + 1]
          /\ task' = IF ShouldList(next[l], family[l])
                     THEN [task EXCEPT ![l][next[l]] = "spawned"] ELSE task
          /\ UNCHANGED point
  /\ UNCHANGED <<offers, known, halted, cache, family, got, refreshing, quiet,
                 clears, faults>>

TaskGoes(l, u, there) == task' = [task EXCEPT ![l][u] = there]

\* begin_upstream_call.
Admit(l, u) ==
  /\ task[l][u] = "spawned"
  /\ TaskGoes(l, u, IF halted THEN "unreached" ELSE "running")
  /\ UNCHANGED <<offers, known, halted, cache, point, family, next, got,
                 refreshing, quiet, clears, faults>>

\* No session could be opened, or there was no slot: nothing is learnt.
TaskUnconnected(l, u) ==
  /\ task[l][u] = "running"
  /\ faults < MaxFaults
  /\ faults' = faults + 1
  /\ TaskGoes(l, u, "unreached")
  /\ UNCHANGED <<offers, known, halted, cache, point, family, next, got,
                 refreshing, quiet, clears>>

\* The upstream answers.  One that does not offer the family refuses, or
\* answers with an empty list.
Read(l, u) ==
  /\ task[l][u] = "running"
  /\ \/ /\ TaskGoes(l, u, "answered")
        /\ got' = [got EXCEPT ![l][u] =
                     IF Supports(u, family[l]) THEN "fresh" ELSE "nothing"]
        /\ UNCHANGED faults
     \/ /\ TaskGoes(l, u, "refused")
        /\ IF Supports(u, family[l])
           THEN faults < MaxFaults /\ faults' = faults + 1
           ELSE UNCHANGED faults
        /\ UNCHANGED got
  /\ UNCHANGED <<offers, known, halted, cache, point, family, next, refreshing,
                 quiet, clears>>

\* Mutant of Record: a failure records no capabilities.
RecordAnswered(l, u) ==
  /\ task[l][u] \in {"answered", "refused"}
  /\ TaskGoes(l, u, IF task[l][u] = "answered" THEN "done" ELSE "failed")
  /\ known' = IF task[l][u] = "answered" THEN known \cup {u} ELSE known
  /\ UNCHANGED <<offers, halted, cache, point, family, next, got, refreshing,
                 quiet, clears, faults>>

\* mark_upstream_healthy, or mark_upstream_degraded with the capabilities.
Record(l, u) ==
  /\ task[l][u] \in {"answered", "refused"}
  /\ TaskGoes(l, u, IF task[l][u] = "answered" THEN "done" ELSE "failed")
  /\ known' = known \cup {u}
  /\ UNCHANGED <<offers, halted, cache, point, family, next, got, refreshing,
                 quiet, clears, faults>>

Ended == {"none", "done", "failed", "unreached"}

\* Mutant of Gather: a failed upstream is left out of the aggregate.
GatherLenient(l) ==
  /\ point[l] = "gather"
  /\ \A u \in Upstreams : task[l][u] \in Ended
  /\ IF family[l] \in Unmergeable
     THEN Return(l)
     ELSE Reach(l, "store") /\ UNCHANGED <<next, task, got>>
  /\ UNCHANGED <<offers, known, halted, cache, family, refreshing, quiet,
                 clears, faults>>

\* Every future is waited for; the first error, or the merge's, is returned.
Gather(l) ==
  /\ point[l] = "gather"
  /\ \A u \in Upstreams : task[l][u] \in Ended
  /\ IF \/ \E u \in Upstreams : task[l][u] \in {"failed", "unreached"}
        \/ family[l] \in Unmergeable
     THEN Return(l)
     ELSE Reach(l, "store") /\ UNCHANGED <<next, task, got>>
  /\ UNCHANGED <<offers, known, halted, cache, family, refreshing, quiet,
                 clears, faults>>

Store(l) ==
  /\ point[l] = "store"
  /\ cache' = [cache EXCEPT ![family[l]] =
                 [filled |-> TRUE,
                  from   |-> {u \in Upstreams : got[l][u] # "nothing"},
                  fresh  |-> \A u \in Upstreams : got[l][u] # "stale"]]
  /\ Return(l)
  /\ UNCHANGED <<offers, known, halted, family, refreshing, quiet, clears, faults>>

-----------------------------------------------------------------------------
(* Invalidation, refresh, and what else records capabilities.              *)

\* Mutant of Cleared: the aggregate of resource templates is kept.
ClearedButTemplates ==
  [f \in Families |-> IF f = "templates" /\ cache[f].filled
                      THEN [cache[f] EXCEPT !.fresh = FALSE] ELSE Miss]

Cleared == [f \in Families |-> Miss]

\* The effect of an invalidation on the cache, and on the history variables.
Invalidate ==
  /\ clears < MaxClears
  /\ clears' = clears + 1
  /\ cache' = Cleared
  /\ got' = [l \in Listers |-> [u \in Upstreams |->
               IF got[l][u] = "fresh" THEN "stale" ELSE got[l][u]]]
  /\ quiet' = \A l \in Listers : point[l] = "idle"

ClearCachedCatalogs ==
  /\ ~halted
  /\ Invalidate
  /\ UNCHANGED <<offers, known, halted, point, family, next, task, refreshing, faults>>

\* refresh_upstream_capabilities clears the cache, then opens a session to each
\* upstream in turn, and gives up at the first that fails.
StartRefresh ==
  /\ refreshing = 0
  /\ ~halted
  /\ Invalidate
  /\ refreshing' = 1
  /\ UNCHANGED <<offers, known, halted, point, family, next, task, faults>>

\* A session under way when the runtime halts still ends; the next is refused.
RefreshOne ==
  /\ refreshing # 0
  /\ known' = known \cup {refreshing}
  /\ refreshing' = IF halted \/ refreshing = UpstreamCount THEN 0 ELSE refreshing + 1
  /\ UNCHANGED <<offers, halted, cache, listVars, quiet, clears, faults>>

RefreshFails ==
  /\ refreshing # 0
  /\ IF halted THEN UNCHANGED faults
     ELSE faults < MaxFaults /\ faults' = faults + 1
  /\ refreshing' = 0
  /\ UNCHANGED <<offers, known, halted, cache, listVars, quiet, clears>>

\* A routed call that reaches its upstream records its capabilities, even when
\* the runtime has halted since the call was admitted.
RoutedCall(u) ==
  /\ known' = known \cup {u}
  /\ UNCHANGED <<offers, halted, cache, listVars, refreshing, quiet, clears, faults>>

Halt ==
  /\ halted' = TRUE
  /\ UNCHANGED <<offers, known, cache, listVars, refreshing, quiet, clears, faults>>

-----------------------------------------------------------------------------
TaskStep(l, u) == Admit(l, u) \/ Read(l, u) \/ Record(l, u)

ListStep(l) == LookUp(l) \/ Decide(l) \/ Gather(l) \/ Store(l)

CatalogNext ==
  \/ \E l \in Listers :
       \/ \E f \in Families : StartList(l, f)
       \/ ListStep(l)
       \/ \E u \in Upstreams : TaskStep(l, u) \/ TaskUnconnected(l, u)
  \/ ClearCachedCatalogs \/ StartRefresh \/ RefreshOne \/ RefreshFails
  \/ \E u \in Upstreams : RoutedCall(u)
  \/ Halt

CatalogSpec == CatalogInit /\ [][CatalogNext]_catalogVars

\* A list operation under way goes on and its tasks end.
FairCatalogSpec ==
  /\ CatalogSpec
  /\ \A l \in Listers :
       /\ WF_catalogVars(ListStep(l))
       /\ \A u \in Upstreams : WF_catalogVars(TaskStep(l, u))

-----------------------------------------------------------------------------
\* A cached aggregate is all or nothing (docs/api_contract.md:86-87): it was
\* merged from exactly the upstreams that offer the family, whatever failed,
\* whoever was skipped, and whatever was recorded while the fan-out ran.
CachedIsExact ==
  \A f \in Families : cache[f].filled =>
    cache[f].from = {u \in Upstreams : Supports(u, f)}

\* When no listing was under way at the last invalidation, nothing that was
\* read before it is served after it.  (A listing under way stores what it read
\* before: runtime.cpp:1018-1021 does not look back at the invalidation.)
QuietInvalidationIsFresh ==
  quiet => \A f \in Families : cache[f].fresh

\* A listing that reached every upstream it asked has a complete record behind
\* it: it skipped nobody before everybody was known, whatever other tasks and
\* routed calls recorded while its fan-out loop ran (has_complete_capability_cache
\* is asked anew for each upstream, runtime.cpp:403-415), and an upstream that
\* refused was recorded too, so that no later listing asks one in vain.
AskedCompletesRecord ==
  \A l \in Listers :
    /\ point[l] \in {"gather", "store"}
    /\ \A u \in Upstreams : task[l][u] \in Ended \ {"unreached"}
    => Complete

\* A host that keeps asking for a family ends up with a cached aggregate even
\* if some upstreams refuse it: a failed listing records what the upstreams
\* offer, so a later one skips them.
PollingFillsCache ==
  \A f \in Families \ Unmergeable :
    []<><<\E l \in Listers : StartList(l, f)>>_catalogVars
      => <>[](cache[f].filled)
=============================================================================
