--------------------------- MODULE CatalogProofs ---------------------------
(***************************************************************************)
(* Theorems about CatalogCache, for every number of listers and upstreams, *)
(* every set of families and every number of invalidations and faults, and *)
(* about CatalogMerge, for all ids, names and metadata, catalogs of any    *)
(* size and chains of any length.                                          *)
(***************************************************************************)
EXTENDS CatalogCache, CatalogMerge, Foundations

-----------------------------------------------------------------------------
(* Type correctness.                                                       *)

LEMMA InitCatalogTypeOK == CatalogInit => CatalogTypeOK
<1> SUFFICES ASSUME CatalogInit PROVE CatalogTypeOK
  OBVIOUS
<1>1. offers \in [Upstreams -> SUBSET CatalogCapabilities]
  <2>1. {CapabilityOf(f) : f \in Families} \subseteq CatalogCapabilities
    BY CatalogAssumption DEF CapabilityOf, CatalogCapabilities, CatalogFamilies
  <2> QED
    BY <2>1 DEF CatalogInit
<1>2. /\ known \in SUBSET Upstreams /\ halted \in BOOLEAN /\ quiet \in BOOLEAN
      /\ cache \in [Families -> Aggregates]
  BY DEF CatalogInit, Miss, Aggregates
<1>5. /\ refreshing \in 0 .. UpstreamCount
      /\ clears \in 0 .. MaxClears /\ faults \in 0 .. MaxFaults
  BY CatalogAssumption DEF CatalogInit
<1>3. family \in [Listers -> Families]
  <2>1. (CHOOSE f \in Families : TRUE) \in Families
    BY CatalogAssumption
  <2> QED
    BY <2>1 DEF CatalogInit
<1>4. /\ point \in [Listers -> {"idle", "lookup", "fanout", "gather", "store"}]
      /\ next \in [Listers -> 1 .. UpstreamCount + 1]
      /\ task \in [Listers -> [Upstreams -> Tasks]]
      /\ got \in [Listers -> [Upstreams -> Readings]]
  BY CatalogAssumption DEF CatalogInit, Tasks, Readings
<1> QED
  BY <1>1, <1>2, <1>3, <1>4, <1>5 DEF CatalogTypeOK

\* What a lister that returns looks like.
LEMMA ReturnType ==
  ASSUME CatalogTypeOK, NEW l \in Listers, Return(l)
  PROVE  /\ point' \in [Listers -> {"idle", "lookup", "fanout", "gather", "store"}]
         /\ next' \in [Listers -> 1 .. UpstreamCount + 1]
         /\ task' \in [Listers -> [Upstreams -> Tasks]]
         /\ got' \in [Listers -> [Upstreams -> Readings]]
<1>1. 1 \in 1 .. UpstreamCount + 1
  BY CatalogAssumption
<1>2. /\ [u \in Upstreams |-> "none"] \in [Upstreams -> Tasks]
      /\ [u \in Upstreams |-> "nothing"] \in [Upstreams -> Readings]
  BY DEF Tasks, Readings
<1> QED
  BY <1>1, <1>2 DEF CatalogTypeOK, Return, Reach

\* One entry of a lister's table changes.
LEMMA EntryType ==
  ASSUME NEW S, NEW table \in [Listers -> [Upstreams -> S]],
         NEW l \in Listers, NEW u \in Upstreams, NEW there \in S
  PROVE  [table EXCEPT ![l][u] = there] \in [Listers -> [Upstreams -> S]]
OBVIOUS

LEMMA ListTypeOK ==
  ASSUME CatalogTypeOK, NEW l \in Listers,
         ListStep(l) \/ \E f \in Families : StartList(l, f)
  PROVE  CatalogTypeOK'
<1> USE DEF CatalogTypeOK, Reach
<1>1. ASSUME NEW f \in Families, StartList(l, f) PROVE CatalogTypeOK'
  BY <1>1 DEF StartList
<1>2. CASE LookUp(l)
  BY <1>2 DEF LookUp
<1>3. CASE Decide(l)
  <2>1. next' \in [Listers -> 1 .. UpstreamCount + 1]
    BY <1>3, CatalogAssumption DEF Decide
  <2>2. task' \in [Listers -> [Upstreams -> Tasks]]
    <3>1. \/ task' = task
          \/ next[l] \in Upstreams /\ task' = [task EXCEPT ![l][next[l]] = "spawned"]
      BY <1>3, CatalogAssumption DEF Decide, Upstreams
    <3>2. task \in [Listers -> [Upstreams -> Tasks]] /\ "spawned" \in Tasks
      BY DEF Tasks
    <3>3. ASSUME next[l] \in Upstreams
          PROVE  [task EXCEPT ![l][next[l]] = "spawned"] \in [Listers -> [Upstreams -> Tasks]]
      <4> HIDE DEF CatalogTypeOK
      <4> QED
        BY <3>2, <3>3, EntryType
    <3> HIDE DEF CatalogTypeOK
    <3> QED
      BY <3>1, <3>2, <3>3
  <2>3. point' \in [Listers -> {"idle", "lookup", "fanout", "gather", "store"}]
    BY <1>3 DEF Decide
  <2> QED
    BY <1>3, <2>1, <2>2, <2>3 DEF Decide
<1>4. CASE Gather(l)
  <2>1. CASE Return(l)
    <3>1. UNCHANGED <<offers, known, halted, cache, family, refreshing, quiet, clears,
                      faults>>
      BY <1>4 DEF Gather
    <3> QED
      BY <2>1, <3>1, ReturnType
  <2>2. CASE Reach(l, "store") /\ UNCHANGED <<next, task, got>>
    BY <1>4, <2>2 DEF Gather
  <2> QED
    BY <1>4, <2>1, <2>2 DEF Gather
<1>5. CASE Store(l)
  <2>1. [filled |-> TRUE, from |-> {u \in Upstreams : got[l][u] # "nothing"},
         fresh |-> \A u \in Upstreams : got[l][u] # "stale"] \in Aggregates
    BY DEF Aggregates
  <2>2. cache' \in [Families -> Aggregates]
    BY <1>5, <2>1 DEF Store
  <2> QED
    BY <1>5, <2>2, ReturnType DEF Store
<1> QED
  BY <1>1, <1>2, <1>3, <1>4, <1>5 DEF ListStep

LEMMA TaskTypeOK ==
  ASSUME CatalogTypeOK, NEW l \in Listers, NEW u \in Upstreams,
         TaskStep(l, u) \/ TaskUnconnected(l, u)
  PROVE  CatalogTypeOK'
<1> USE CatalogAssumption DEF CatalogTypeOK, TaskGoes, Tasks
<1>1. CASE Admit(l, u)
  BY <1>1 DEF Admit
<1>2. CASE Read(l, u)
  <2>1. task' \in [Listers -> [Upstreams -> Tasks]]
    <3>1. \E there \in Tasks : task' = [task EXCEPT ![l][u] = there]
      BY <1>2 DEF Read
    <3> QED
      BY <3>1, EntryType
  <2>3. got' \in [Listers -> [Upstreams -> Readings]]
    <3>1. got' = got \/ \E r \in Readings : got' = [got EXCEPT ![l][u] = r]
      BY <1>2 DEF Read, Readings
    <3>2. got \in [Listers -> [Upstreams -> Readings]]
      OBVIOUS
    <3>3. \A r \in Readings :
            [got EXCEPT ![l][u] = r] \in [Listers -> [Upstreams -> Readings]]
      <4> HIDE DEF CatalogTypeOK
      <4> QED
        BY <3>2, EntryType
    <3> HIDE DEF CatalogTypeOK
    <3> QED
      BY <3>1, <3>2, <3>3
  <2>2. faults' \in 0 .. MaxFaults
    BY <1>2 DEF Read
  <2> QED
    BY <1>2, <2>1, <2>2, <2>3 DEF Read
<1>3. CASE Record(l, u)
  BY <1>3 DEF Record
<1>4. CASE TaskUnconnected(l, u)
  <2>1. faults' \in 0 .. MaxFaults
    BY <1>4 DEF TaskUnconnected
  <2> QED
    BY <1>4, <2>1 DEF TaskUnconnected
<1> QED
  BY <1>1, <1>2, <1>3, <1>4 DEF TaskStep

LEMMA InvalidateType ==
  ASSUME CatalogTypeOK, Invalidate
  PROVE  /\ cache' \in [Families -> Aggregates] /\ quiet' \in BOOLEAN
         /\ clears' \in 0 .. MaxClears
         /\ got' \in [Listers -> [Upstreams -> Readings]]
<1>1. cache' \in [Families -> Aggregates]
  BY DEF Invalidate, Cleared, Miss, Aggregates
<1>2. clears' \in 0 .. MaxClears
  BY CatalogAssumption DEF Invalidate, CatalogTypeOK
<1>3. got' \in [Listers -> [Upstreams -> Readings]]
  BY DEF Invalidate, CatalogTypeOK, Readings
<1> QED
  BY <1>1, <1>2, <1>3 DEF Invalidate

LEMMA HostTypeOK ==
  ASSUME CatalogTypeOK,
         \/ ClearCachedCatalogs \/ StartRefresh \/ RefreshOne \/ RefreshFails \/ Halt
         \/ \E u \in Upstreams : RoutedCall(u)
  PROVE  CatalogTypeOK'
<1> USE CatalogAssumption DEF CatalogTypeOK, listVars
<1>1. CASE ClearCachedCatalogs
  BY <1>1, InvalidateType DEF ClearCachedCatalogs
<1>2. CASE StartRefresh
  <2>1. refreshing' \in 0 .. UpstreamCount
    BY <1>2 DEF StartRefresh
  <2> QED
    BY <1>2, <2>1, InvalidateType DEF StartRefresh
<1>3. CASE RefreshOne
  <2>1. refreshing' \in 0 .. UpstreamCount /\ known' \in SUBSET Upstreams
    BY <1>3 DEF RefreshOne, Upstreams
  <2> QED
    BY <1>3, <2>1 DEF RefreshOne
<1>4. CASE RefreshFails
  <2>1. refreshing' \in 0 .. UpstreamCount /\ faults' \in 0 .. MaxFaults
    BY <1>4 DEF RefreshFails
  <2> QED
    BY <1>4, <2>1 DEF RefreshFails
<1>5. CASE Halt
  BY <1>5 DEF Halt
<1>6. ASSUME NEW u \in Upstreams, RoutedCall(u) PROVE CatalogTypeOK'
  BY <1>6 DEF RoutedCall
<1> QED
  BY <1>1, <1>2, <1>3, <1>4, <1>5, <1>6

LEMMA StepCatalogTypeOK ==
  CatalogTypeOK /\ [CatalogNext]_catalogVars => CatalogTypeOK'
<1> SUFFICES ASSUME CatalogTypeOK, [CatalogNext]_catalogVars PROVE CatalogTypeOK'
  OBVIOUS
<1>1. CASE UNCHANGED catalogVars
  BY <1>1 DEF catalogVars, listVars, CatalogTypeOK
<1> QED
  BY <1>1, ListTypeOK, TaskTypeOK, HostTypeOK DEF CatalogNext

THEOREM CatalogTypes == CatalogSpec => []CatalogTypeOK
<1>1. CatalogInit => CatalogTypeOK
  BY InitCatalogTypeOK
<1>2. CatalogTypeOK /\ [CatalogNext]_catalogVars => CatalogTypeOK'
  BY StepCatalogTypeOK
<1> QED
  BY <1>1, <1>2, PTL DEF CatalogSpec

-----------------------------------------------------------------------------
(* The cached aggregates.                                                  *)

\* What a lister knows of an upstream: it holds a reading only of one that
\* offers the family, a task that was answered by such a one brought a reading,
\* the loop has started a task for each such one it has passed, and when the
\* answers are stored no task has failed or is still under way.
Tracked(l, u) ==
  /\ got[l][u] # "nothing" => Supports(u, family[l])
  /\ task[l][u] \in {"answered", "done"} /\ Supports(u, family[l])
       => got[l][u] # "nothing"
  /\ point[l] \notin {"idle", "lookup"} /\ u < next[l] /\ Supports(u, family[l])
       => task[l][u] # "none"
  /\ point[l] = "store" => task[l][u] \in {"none", "done"}

Unused(l) ==
  next[l] = 1 /\ \A u \in Upstreams : task[l][u] = "none" /\ got[l][u] = "nothing"

ListerExact(l) ==
  /\ point[l] \in {"idle", "lookup"} => Unused(l)
  /\ point[l] \in {"gather", "store"} => next[l] = UpstreamCount + 1
  /\ \A u \in Upstreams : Tracked(l, u)

\* The inductive invariant: every lister is as above, what is cached is exact,
\* and after a quiet invalidation nothing stale is cached or on its way.
Exact ==
  /\ CatalogTypeOK
  /\ \A l \in Listers : ListerExact(l)
  /\ CachedIsExact
  /\ quiet => /\ \A f \in Families : cache[f].fresh
              /\ \A l \in Listers, u \in Upstreams : got[l][u] # "stale"

LEMMA InitExact == CatalogInit => Exact
<1> SUFFICES ASSUME CatalogInit PROVE Exact
  OBVIOUS
<1>1. CatalogTypeOK
  BY InitCatalogTypeOK
<1>2. ASSUME NEW l \in Listers PROVE ListerExact(l)
  BY CatalogAssumption DEF CatalogInit, ListerExact, Unused, Tracked, Upstreams
<1> QED
  BY <1>1, <1>2 DEF CatalogInit, Exact, CachedIsExact, Miss

\* A lister that a step leaves alone is as it was.
LEMMA ListingFrame ==
  ASSUME NEW l \in Listers, ListerExact(l), offers' = offers, point'[l] = point[l],
         family'[l] = family[l], next'[l] = next[l], task'[l] = task[l],
         got'[l] = got[l]
  PROVE  ListerExact(l)'
<1>1. Unused(l) => Unused(l)'
  BY DEF Unused
<1>2. ASSUME NEW u \in Upstreams PROVE Tracked(l, u)'
  BY DEF ListerExact, Tracked, Supports
<1> QED
  BY <1>1, <1>2 DEF ListerExact

\* A lister that has returned is unused.
LEMMA ReturnListing ==
  ASSUME CatalogTypeOK, NEW l \in Listers, Return(l)
  PROVE  ListerExact(l)' /\ \A u \in Upstreams : got'[l][u] = "nothing"
<1>1. /\ point'[l] = "idle" /\ next'[l] = 1
      /\ \A u \in Upstreams : task'[l][u] = "none" /\ got'[l][u] = "nothing"
  BY DEF CatalogTypeOK, Return, Reach
<1> QED
  BY <1>1 DEF ListerExact, Unused, Tracked

\* A step of a list operation keeps its own lister as it must be.
LEMMA OwnListing ==
  ASSUME CatalogTypeOK, NEW l \in Listers, ListerExact(l),
         ListStep(l) \/ \E f \in Families : StartList(l, f)
  PROVE  ListerExact(l)'
<1> USE DEF CatalogTypeOK, Reach
<1>1. ASSUME NEW f \in Families, StartList(l, f) PROVE ListerExact(l)'
  <2>1. point'[l] = "lookup" /\ UNCHANGED <<next, task, got>> /\ Unused(l)
    BY <1>1 DEF StartList, ListerExact
  <2> QED
    BY <2>1 DEF ListerExact, Unused, Tracked
<1>2. CASE LookUp(l)
  <2>1. /\ point'[l] \in {"idle", "fanout"} /\ UNCHANGED <<next, task, got>>
        /\ Unused(l)
    BY <1>2 DEF LookUp, ListerExact
  <2> QED
    BY <2>1 DEF ListerExact, Unused, Tracked, Upstreams
<1>3. CASE Decide(l)
  <2>1. CASE next[l] > UpstreamCount
    <3>1. /\ point[l] = "fanout" /\ point'[l] = "gather" /\ next[l] = UpstreamCount + 1
          /\ UNCHANGED <<offers, family, next, task, got>>
      BY <1>3, <2>1, CatalogAssumption DEF Decide
    <3>2. ASSUME NEW u \in Upstreams PROVE Tracked(l, u)'
      BY <3>1 DEF ListerExact, Tracked, Supports
    <3> QED
      BY <3>1, <3>2 DEF ListerExact
  <2>2. CASE ~(next[l] > UpstreamCount)
    <3>1. /\ point[l] = "fanout" /\ point' = point /\ next'[l] = next[l] + 1
          /\ next[l] \in Upstreams
          /\ UNCHANGED <<offers, family, got>>
      BY <1>3, <2>2, CatalogAssumption DEF Decide, Upstreams
    <3>2. ASSUME NEW u \in Upstreams, u # next[l] PROVE task'[l][u] = task[l][u]
      BY <1>3, <2>2, <3>2 DEF Decide
    <3>3. \/ task'[l][next[l]] = "spawned"
          \/ ~Supports(next[l], family[l]) /\ task'[l] = task[l]
      BY <1>3, <2>2, <3>1 DEF Decide, ShouldList
    <3>4. ASSUME NEW u \in Upstreams PROVE Tracked(l, u)'
      <4>1. CASE u = next[l]
        BY <3>1, <3>3, <4>1 DEF ListerExact, Tracked, Supports
      <4>2. CASE u # next[l]
        <5>1. u < next[l] + 1 => u < next[l]
          BY <3>1, <4>2 DEF Upstreams
        <5> QED
          BY <3>1, <3>2, <4>2, <5>1 DEF ListerExact, Tracked, Supports
      <4> QED
        BY <4>1, <4>2
    <3> QED
      BY <3>1, <3>4 DEF ListerExact
  <2> QED
    BY <2>1, <2>2
<1>4. CASE Gather(l)
  <2>1. CASE Return(l)
    BY <2>1, ReturnListing
  <2>2. CASE /\ Reach(l, "store") /\ UNCHANGED <<next, task, got>>
             /\ \A u \in Upstreams : task[l][u] \notin {"failed", "unreached"}
    <3>1. /\ point[l] = "gather" /\ point'[l] = "store"
          /\ UNCHANGED <<offers, family, next, task, got>>
          /\ \A u \in Upstreams : task[l][u] \in {"none", "done"}
      BY <1>4, <2>2 DEF Gather, Ended
    <3>2. ASSUME NEW u \in Upstreams PROVE Tracked(l, u)'
      BY <3>1 DEF ListerExact, Tracked, Supports
    <3> QED
      BY <3>1, <3>2 DEF ListerExact
  <2> QED
    BY <1>4, <2>1, <2>2 DEF Gather
<1>5. CASE Store(l)
  BY <1>5, ReturnListing DEF Store
<1> QED
  BY <1>1, <1>2, <1>3, <1>4, <1>5 DEF ListStep

\* A step of a list operation leaves the other listers alone.
LEMMA OtherListing ==
  ASSUME CatalogTypeOK, NEW l \in Listers, NEW k \in Listers, k # l, ListerExact(k),
         ListStep(l) \/ \E f \in Families : StartList(l, f)
  PROVE  ListerExact(k)'
<1>1. /\ offers' = offers /\ point'[k] = point[k] /\ family'[k] = family[k]
      /\ next'[k] = next[k] /\ task'[k] = task[k] /\ got'[k] = got[k]
  BY DEF ListStep, StartList, LookUp, Decide, Gather, Store, Return, Reach,
         CatalogTypeOK
<1> QED
  BY <1>1, ListingFrame

\* What is stored was merged from exactly the upstreams that offer the family.
LEMMA StoredIsExact ==
  ASSUME Exact, NEW l \in Listers, Store(l)
  PROVE  CachedIsExact'
<1>1. point[l] = "store" /\ next[l] = UpstreamCount + 1 /\ family[l] \in Families
  BY DEF Store, Exact, ListerExact, CatalogTypeOK
<1>2. ASSUME NEW u \in Upstreams
      PROVE  got[l][u] # "nothing" <=> Supports(u, family[l])
  <2>1. Tracked(l, u) /\ u < next[l]
    BY <1>1, CatalogAssumption DEF Exact, ListerExact, Upstreams
  <2> QED
    BY <1>1, <2>1 DEF Tracked
<1>3. ASSUME NEW f \in Families, f # family[l] PROVE cache'[f] = cache[f]
  BY <1>3 DEF Store, Exact, CatalogTypeOK
<1>4. cache'[family[l]].from = {u \in Upstreams : got[l][u] # "nothing"}
  BY <1>1 DEF Store, Exact, CatalogTypeOK
<1>5. cache'[family[l]].from = {u \in Upstreams : Supports(u, family[l])}
  BY <1>2, <1>4
<1>6. offers' = offers
  BY DEF Store
<1> QED
  BY <1>3, <1>5, <1>6 DEF Exact, CachedIsExact, Supports

LEMMA ListExact ==
  ASSUME Exact, NEW l \in Listers,
         ListStep(l) \/ \E f \in Families : StartList(l, f)
  PROVE  Exact'
<1>1. CatalogTypeOK'
  BY ListTypeOK DEF Exact
<1>2. ASSUME NEW k \in Listers PROVE ListerExact(k)'
  BY OwnListing, OtherListing DEF Exact
<1>3. CachedIsExact'
  <2>1. CASE Store(l)
    BY <2>1, StoredIsExact
  <2>2. CASE UNCHANGED <<cache, offers>>
    BY <2>2 DEF Exact, CachedIsExact, Supports
  <2> QED
    BY <2>1, <2>2 DEF ListStep, StartList, LookUp, Decide, Gather
<1>4. ASSUME quiet'
      PROVE  /\ \A f \in Families : cache'[f].fresh
             /\ \A k \in Listers, u \in Upstreams : got'[k][u] # "stale"
  <2>1. quiet
    BY <1>4 DEF ListStep, StartList, LookUp, Decide, Gather, Store
  <2>2. \/ got' = got
        \/ got' = [got EXCEPT ![l] = [u \in Upstreams |-> "nothing"]]
    BY DEF ListStep, StartList, LookUp, Decide, Gather, Store, Return
  <2>3. \A k \in Listers, u \in Upstreams : got'[k][u] # "stale"
    BY <2>1, <2>2 DEF Exact, CatalogTypeOK
  <2>4. CASE Store(l)
    <3>1. \A u \in Upstreams : got[l][u] # "stale"
      BY <2>1 DEF Exact
    <3>2. \A f \in Families : cache'[f] = cache[f] \/ cache'[f].fresh
      BY <2>4, <3>1 DEF Store, Exact, CatalogTypeOK
    <3> QED
      BY <2>1, <2>3, <3>2 DEF Exact
  <2>5. CASE cache' = cache
    BY <2>1, <2>3, <2>5 DEF Exact
  <2> QED
    BY <2>4, <2>5 DEF ListStep, StartList, LookUp, Decide, Gather
<1> QED
  BY <1>1, <1>2, <1>3, <1>4 DEF Exact

LEMMA TaskExact ==
  ASSUME Exact, NEW l \in Listers, NEW u \in Upstreams,
         TaskStep(l, u) \/ TaskUnconnected(l, u)
  PROVE  Exact'
<1> USE DEF TaskStep, Admit, Read, Record, TaskUnconnected, TaskGoes
<1>1. CatalogTypeOK /\ CatalogTypeOK'
  BY TaskTypeOK DEF Exact
<1>2. UNCHANGED <<offers, cache, point, family, next, quiet>>
  OBVIOUS
<1>3. /\ task[l][u] \in {"spawned", "running", "answered", "refused"}
      /\ \E there \in Tasks \ {"none", "spawned"} : task' = [task EXCEPT ![l][u] = there]
  BY DEF Tasks
<1>4. \/ got' = got
      \/ got' = [got EXCEPT ![l][u] = IF Supports(u, family[l]) THEN "fresh" ELSE "nothing"]
  OBVIOUS
<1>5. ASSUME NEW k \in Listers PROVE ListerExact(k)'
  <2>1. CASE k # l
    <3>1. task'[k] = task[k] /\ got'[k] = got[k]
      BY <1>1, <1>3, <1>4, <2>1 DEF CatalogTypeOK
    <3>2. ListerExact(k)
      BY DEF Exact
    <3> QED
      BY <1>2, <3>1, <3>2, ListingFrame
  <2>2. CASE k = l
    <3>1. point[l] \notin {"idle", "lookup", "store"}
      BY <1>3 DEF Exact, ListerExact, Unused, Tracked
    <3>2. ASSUME NEW v \in Upstreams, v # u PROVE Tracked(l, v)'
      <4>1. task'[l][v] = task[l][v] /\ got'[l][v] = got[l][v]
        BY <1>1, <1>3, <1>4, <3>2 DEF CatalogTypeOK
      <4> QED
        BY <1>2, <4>1 DEF Exact, ListerExact, Tracked, Supports
    <3>3. Tracked(l, u)'
      <4>1. task'[l][u] # "none"
        BY <1>1, <1>3 DEF CatalogTypeOK
      <4>2. got'[l][u] # "nothing" => Supports(u, family[l])
        BY <1>1, <1>4 DEF CatalogTypeOK, Exact, ListerExact, Tracked
      <4>3. ASSUME task'[l][u] \in {"answered", "done"}, Supports(u, family[l])
            PROVE  got'[l][u] # "nothing"
        <5>1. CASE Read(l, u)
          <6>1. got' = [got EXCEPT ![l][u] = "fresh"]
            BY <1>1, <4>3, <5>1 DEF CatalogTypeOK
          <6> QED
            BY <1>1, <6>1 DEF CatalogTypeOK
        <5>2. CASE got' = got /\ task[l][u] = "answered"
          BY <4>3, <5>2 DEF Exact, ListerExact, Tracked
        <5>3. CASE task'[l][u] \notin {"answered", "done"}
          BY <4>3, <5>3
        <5> QED
          BY <1>1, <5>1, <5>2, <5>3 DEF CatalogTypeOK
      <4> QED
        BY <1>2, <3>1, <4>1, <4>2, <4>3 DEF Tracked, Supports
    <3>4. point[l] \in {"gather", "store"} => next[l] = UpstreamCount + 1
      BY DEF Exact, ListerExact
    <3> QED
      BY <1>2, <2>2, <3>1, <3>2, <3>3, <3>4 DEF ListerExact
  <2> QED
    BY <2>1, <2>2
<1>6. CachedIsExact'
  BY <1>2 DEF Exact, CachedIsExact, Supports
<1>7. ASSUME quiet, NEW k \in Listers, NEW v \in Upstreams PROVE got'[k][v] # "stale"
  <2>1. got[k][v] # "stale" /\ got \in [Listers -> [Upstreams -> Readings]]
    BY <1>1, <1>7 DEF Exact, CatalogTypeOK
  <2>2. CASE got' = got
    BY <2>1, <2>2
  <2>3. CASE got' = [got EXCEPT ![l][u] = IF Supports(u, family[l]) THEN "fresh"
                                          ELSE "nothing"]
    BY <2>1, <2>3
  <2> QED
    BY <1>4, <2>2, <2>3
<1> QED
  BY <1>1, <1>2, <1>5, <1>6, <1>7 DEF Exact

LEMMA InvalidateExact ==
  ASSUME Exact, Invalidate,
         UNCHANGED <<offers, point, family, next, task>>, CatalogTypeOK'
  PROVE  Exact'
<1>1. ASSUME NEW l \in Listers, NEW u \in Upstreams
      PROVE  /\ got'[l][u] = "nothing" <=> got[l][u] = "nothing"
             /\ got[l][u] = "nothing" => got'[l][u] = "nothing"
  BY DEF Invalidate
<1>2. ASSUME NEW l \in Listers PROVE ListerExact(l)'
  <2>1. ListerExact(l)
    BY DEF Exact
  <2>2. Unused(l) => Unused(l)'
    BY <1>1 DEF Unused
  <2>3. ASSUME NEW u \in Upstreams PROVE Tracked(l, u)'
    BY <1>1, <2>1 DEF ListerExact, Tracked, Supports
  <2> QED
    BY <2>1, <2>2, <2>3 DEF ListerExact
<1>3. \A f \in Families : cache'[f] = Miss
  BY DEF Invalidate, Cleared
<1>4. ASSUME quiet', NEW l \in Listers, NEW u \in Upstreams PROVE got'[l][u] # "stale"
  <2>1. point[l] = "idle"
    BY <1>4 DEF Invalidate
  <2>2. got[l][u] = "nothing"
    BY <2>1 DEF Exact, ListerExact, Unused
  <2> QED
    BY <1>1, <2>2
<1> QED
  BY <1>2, <1>3, <1>4 DEF Exact, CachedIsExact, Miss

LEMMA HostExact ==
  ASSUME Exact,
         \/ ClearCachedCatalogs \/ StartRefresh \/ RefreshOne \/ RefreshFails \/ Halt
         \/ \E u \in Upstreams : RoutedCall(u)
  PROVE  Exact'
<1>1. CatalogTypeOK'
  BY HostTypeOK DEF Exact
<1>2. CASE ClearCachedCatalogs \/ StartRefresh
  BY <1>1, <1>2, InvalidateExact DEF ClearCachedCatalogs, StartRefresh
<1>3. CASE UNCHANGED <<offers, cache, listVars, quiet>>
  <2>1. ASSUME NEW l \in Listers PROVE ListerExact(l)'
    BY <1>3, ListingFrame DEF Exact, listVars
  <2>2. CachedIsExact'
    BY <1>3 DEF Exact, CachedIsExact, Supports
  <2> QED
    BY <1>1, <1>3, <2>1, <2>2 DEF Exact, listVars
<1> QED
  BY <1>2, <1>3 DEF RefreshOne, RefreshFails, Halt, RoutedCall

LEMMA StepExact == Exact /\ [CatalogNext]_catalogVars => Exact'
<1> SUFFICES ASSUME Exact, [CatalogNext]_catalogVars PROVE Exact'
  OBVIOUS
<1>1. CASE UNCHANGED catalogVars
  BY <1>1 DEF catalogVars, listVars, Exact, CatalogTypeOK, CachedIsExact, ListerExact,
              Unused, Tracked, Supports
<1> QED
  BY <1>1, ListExact, TaskExact, HostExact DEF CatalogNext

LEMMA AlwaysExact == CatalogSpec => []Exact
<1> QED
  BY InitExact, StepExact, PTL DEF CatalogSpec

\* A cached aggregate is merged from exactly the upstreams that offer its
\* family, however many listings fill it at once.
THEOREM CachedExact == CatalogSpec => []CachedIsExact
<1>1. Exact => CachedIsExact
  BY DEF Exact
<1> QED
  BY <1>1, AlwaysExact, PTL

\* An invalidation that meets no listing is not undone by a later one.
THEOREM QuietFresh == CatalogSpec => []QuietInvalidationIsFresh
<1>1. Exact => QuietInvalidationIsFresh
  BY DEF Exact, QuietInvalidationIsFresh
<1> QED
  BY <1>1, AlwaysExact, PTL

-----------------------------------------------------------------------------
(* What a listing leaves on record.                                        *)

\* A task that has ended with an answer or a refusal has recorded its upstream,
\* and an upstream that the loop has skipped was skipped after everyone was known.
Learnt(l, u) ==
  /\ task[l][u] \in {"done", "failed"} => u \in known
  /\ point[l] \notin {"idle", "lookup"} /\ u < next[l] /\ task[l][u] = "none"
       => Complete

AllLearnt == \A l \in Listers, u \in Upstreams : Learnt(l, u)

\* The record only grows, so what a lister has learnt stays learnt.
LEMMA LearntFrame ==
  ASSUME CatalogTypeOK, CatalogTypeOK', known \subseteq known',
         NEW l \in Listers, NEW u \in Upstreams, Learnt(l, u),
         point'[l] = point[l], next'[l] = next[l], task'[l][u] = task[l][u]
  PROVE  Learnt(l, u)'
BY DEF Learnt, Complete, CatalogTypeOK

\* A lister that has returned has started nothing.
LEMMA LearntReturn ==
  ASSUME CatalogTypeOK, NEW l \in Listers, NEW u \in Upstreams, Return(l)
  PROVE  Learnt(l, u)'
<1>1. point'[l] = "idle" /\ task'[l][u] = "none"
  BY DEF Return, Reach, CatalogTypeOK
<1> QED
  BY <1>1 DEF Learnt

LEMMA ListLearnt ==
  ASSUME Exact, AllLearnt, CatalogTypeOK', NEW l \in Listers,
         ListStep(l) \/ \E f \in Families : StartList(l, f)
  PROVE  AllLearnt'
<1> SUFFICES ASSUME NEW k \in Listers, NEW u \in Upstreams PROVE Learnt(k, u)'
  BY DEF AllLearnt
<1>1. CatalogTypeOK /\ Learnt(k, u) /\ ListerExact(k)
  BY DEF Exact, AllLearnt
<1>2. known' = known
  BY DEF ListStep, StartList, LookUp, Decide, Gather, Store
<1>3. CASE k # l
  <2>1. point'[k] = point[k] /\ next'[k] = next[k] /\ task'[k] = task[k]
    BY <1>1, <1>3 DEF ListStep, StartList, LookUp, Decide, Gather, Store, Return, Reach,
                      CatalogTypeOK
  <2> QED
    BY <1>1, <1>2, <2>1, LearntFrame
<1>4. CASE k = l
  <2>1. CASE LookUp(l) \/ \E f \in Families : StartList(l, f)
    <3>1. UNCHANGED <<next, task>> /\ point[l] \in {"idle", "lookup"}
      BY <2>1 DEF LookUp, StartList
    <3>2. next[l] = 1 /\ task[l][u] = "none"
      BY <1>1, <1>4, <3>1 DEF ListerExact, Unused
    <3> QED
      BY <1>4, <3>1, <3>2 DEF Learnt, Upstreams
  <2>2. CASE Decide(l)
    <3>1. point[l] = "fanout"
      BY <2>2 DEF Decide
    <3>2. CASE next[l] > UpstreamCount
      <4>1. UNCHANGED <<next, task>>
        BY <2>2, <3>2 DEF Decide
      <4> QED
        BY <1>1, <1>2, <1>4, <3>1, <4>1 DEF Learnt, Complete
    <3>3. CASE ~(next[l] > UpstreamCount)
      <4>1. /\ next'[l] = next[l] + 1 /\ UNCHANGED point
            /\ task' = IF ShouldList(next[l], family[l])
                       THEN [task EXCEPT ![l][next[l]] = "spawned"] ELSE task
        BY <1>1, <2>2, <3>3 DEF Decide, CatalogTypeOK
      <4>2. CASE u = next[l] /\ ShouldList(next[l], family[l])
        <5>1. task'[l][u] = "spawned"
          BY <1>1, <4>1, <4>2 DEF CatalogTypeOK
        <5> QED
          BY <1>4, <5>1 DEF Learnt
      <4>3. CASE ~ShouldList(next[l], family[l])
        <5>1. Complete /\ task' = task
          BY <4>1, <4>3 DEF ShouldList
        <5> QED
          BY <1>1, <1>2, <1>4, <5>1 DEF Learnt, Complete
      <4>4. CASE u # next[l]
        <5>1. task'[l][u] = task[l][u]
          BY <1>1, <4>1, <4>4 DEF CatalogTypeOK
        <5>2. u < next[l] + 1 => u < next[l]
          BY <1>1, <4>4 DEF CatalogTypeOK, Upstreams
        <5> QED
          BY <1>1, <1>2, <1>4, <3>1, <4>1, <5>1, <5>2 DEF Learnt, Complete
      <4> QED
        BY <4>2, <4>3, <4>4
    <3> QED
      BY <3>2, <3>3
  <2>3. CASE Return(l)
    BY <1>1, <1>4, <2>3, LearntReturn
  <2>4. CASE Gather(l) /\ ~Return(l)
    <3>1. UNCHANGED <<next, task>> /\ point[l] = "gather"
      BY <2>4 DEF Gather
    <3> QED
      BY <1>1, <1>2, <1>4, <3>1 DEF Learnt, Complete
  <2> QED
    BY <2>1, <2>2, <2>3, <2>4 DEF ListStep, Store
<1> QED
  BY <1>3, <1>4

LEMMA TaskLearnt ==
  ASSUME Exact, AllLearnt, CatalogTypeOK', NEW l \in Listers, NEW u \in Upstreams,
         TaskStep(l, u) \/ TaskUnconnected(l, u)
  PROVE  AllLearnt'
<1> USE DEF TaskStep, Admit, Read, Record, TaskUnconnected, TaskGoes
<1> SUFFICES ASSUME NEW k \in Listers, NEW v \in Upstreams PROVE Learnt(k, v)'
  BY DEF AllLearnt
<1>1. CatalogTypeOK /\ Learnt(k, v)
  BY DEF Exact, AllLearnt
<1>2. UNCHANGED <<point, next>> /\ known \subseteq known'
  OBVIOUS
<1>3. \E there \in Tasks \ {"none", "spawned"} :
        /\ task' = [task EXCEPT ![l][u] = there]
        /\ there \in {"done", "failed"} => u \in known'
  BY DEF Tasks
<1>4. CASE k = l /\ v = u
  <2>1. task'[k][v] # "none" /\ (task'[k][v] \in {"done", "failed"} => v \in known')
    BY <1>1, <1>3, <1>4 DEF CatalogTypeOK
  <2> QED
    BY <2>1 DEF Learnt
<1>5. CASE ~(k = l /\ v = u)
  <2>1. task'[k][v] = task[k][v]
    BY <1>1, <1>3, <1>5 DEF CatalogTypeOK
  <2> QED
    BY <1>1, <1>2, <2>1, LearntFrame
<1> QED
  BY <1>4, <1>5

LEMMA HostLearnt ==
  ASSUME Exact, AllLearnt, CatalogTypeOK',
         \/ ClearCachedCatalogs \/ StartRefresh \/ RefreshOne \/ RefreshFails \/ Halt
         \/ \E u \in Upstreams : RoutedCall(u)
  PROVE  AllLearnt'
<1>1. UNCHANGED <<point, next, task>> /\ known \subseteq known'
  BY DEF ClearCachedCatalogs, StartRefresh, RefreshOne, RefreshFails, Halt, RoutedCall,
         listVars
<1> QED
  BY <1>1, LearntFrame DEF AllLearnt, Exact

\* A listing that reached every upstream it asked leaves the record complete,
\* whatever was recorded while its fan-out loop ran.
THEOREM RecordCompleted == CatalogSpec => []AskedCompletesRecord
<1>1. CatalogInit => AllLearnt
  BY CatalogAssumption DEF CatalogInit, AllLearnt, Learnt
<1>2. Exact /\ Exact' /\ AllLearnt /\ [CatalogNext]_catalogVars => AllLearnt'
  <2> SUFFICES ASSUME Exact, Exact', AllLearnt, [CatalogNext]_catalogVars
               PROVE  AllLearnt'
    OBVIOUS
  <2>1. CatalogTypeOK'
    BY DEF Exact
  <2>2. CASE UNCHANGED catalogVars
    BY <2>2 DEF catalogVars, listVars, AllLearnt, Learnt, Complete
  <2> QED
    BY <2>1, <2>2, ListLearnt, TaskLearnt, HostLearnt DEF CatalogNext
<1>3. Exact /\ AllLearnt => AskedCompletesRecord
  <2> SUFFICES ASSUME Exact, AllLearnt, NEW l \in Listers,
                      point[l] \in {"gather", "store"},
                      \A u \in Upstreams : task[l][u] \in Ended \ {"unreached"}
               PROVE  Complete
    BY DEF AskedCompletesRecord
  <2>1. \A u \in Upstreams : u < next[l]
    BY CatalogAssumption DEF Exact, ListerExact, Upstreams
  <2>2. \A u \in Upstreams : u \in known \/ Complete
    BY <2>1 DEF AllLearnt, Learnt, Ended
  <2>3. known \subseteq Upstreams
    BY DEF Exact, CatalogTypeOK
  <2> QED
    BY <2>2, <2>3 DEF Complete
<1> QED
  BY <1>1, <1>2, <1>3, AlwaysExact, PTL DEF CatalogSpec

-----------------------------------------------------------------------------
(* The order of names.                                                     *)

LEMMA LessIrreflexive ==
  ASSUME NEW a \in Seq(Nat) PROVE ~Less(a, a)
<1> SUFFICES ASSUME NEW n \in 0 .. Len(a), n < Len(a), a[n + 1] < a[n + 1] PROVE FALSE
  BY DEF Less
<1>1. a[n + 1] \in Nat
  OBVIOUS
<1> QED
  BY <1>1

LEMMA LessTransitive ==
  ASSUME NEW a \in Seq(Nat), NEW b \in Seq(Nat), NEW c \in Seq(Nat), Less(a, b), Less(b, c)
  PROVE  Less(a, c)
<1>1. PICK n \in 0 .. Len(a) : /\ n < Len(b)
                               /\ \A i \in 1 .. n : a[i] = b[i]
                               /\ n = Len(a) \/ a[n + 1] < b[n + 1]
  BY DEF Less
<1>2. PICK m \in 0 .. Len(b) : /\ m < Len(c)
                               /\ \A i \in 1 .. m : b[i] = c[i]
                               /\ m = Len(b) \/ b[m + 1] < c[m + 1]
  BY DEF Less
<1>3. /\ \A i \in 1 .. Len(a) : a[i] \in Nat
      /\ \A i \in 1 .. Len(b) : b[i] \in Nat
      /\ \A i \in 1 .. Len(c) : c[i] \in Nat
  OBVIOUS
<1>4. Len(a) \in Nat /\ Len(b) \in Nat /\ Len(c) \in Nat
  OBVIOUS
<1>5. CASE n <= m
  <2>1. \A i \in 1 .. n : a[i] = c[i]
    BY <1>1, <1>2, <1>5
  <2>2. n = Len(a) \/ a[n + 1] < c[n + 1]
    <3>1. CASE n = m
      <4> SUFFICES ASSUME n # Len(a) PROVE a[n + 1] < c[n + 1]
        OBVIOUS
      <4>1. a[n + 1] < b[n + 1]
        BY <1>1
      <4>2. b[n + 1] < c[n + 1]
        <5>1. m # Len(b)
          BY <1>1, <1>4, <3>1
        <5> QED
          BY <1>2, <3>1, <5>1
      <4>3. a[n + 1] \in Nat /\ b[n + 1] \in Nat /\ c[n + 1] \in Nat
        <5>1. n < Len(a) /\ n < Len(b) /\ n < Len(c) /\ n \in Nat
          BY <1>1, <1>2, <1>4, <3>1
        <5>2. n + 1 \in 1 .. Len(a) /\ n + 1 \in 1 .. Len(b) /\ n + 1 \in 1 .. Len(c)
          BY <1>4, <5>1
        <5> QED
          BY <1>3, <5>2
      <4> QED
        BY <4>1, <4>2, <4>3
    <3>2. CASE n < m
      <4>1. b[n + 1] = c[n + 1]
        BY <1>2, <3>2
      <4> QED
        BY <1>1, <4>1
    <3> QED
      BY <1>5, <3>1, <3>2
  <2>3. n < Len(c) /\ n \in 0 .. Len(a)
    BY <1>2, <1>4, <1>5
  <2> QED
    BY <2>1, <2>2, <2>3 DEF Less
<1>6. CASE m < n
  <2>1. m \in 0 .. Len(a)
    BY <1>1, <1>2, <1>4, <1>6
  <2>4. \A i \in 1 .. m : a[i] = c[i]
    BY <1>1, <1>2, <1>6
  <2>2. a[m + 1] = b[m + 1]
    BY <1>1, <1>6
  <2>3. a[m + 1] < c[m + 1]
    <3>1. m # Len(b)
      BY <1>1, <1>4, <1>6
    <3> QED
      BY <1>2, <2>2, <3>1
  <2> QED
    BY <1>2, <2>1, <2>3, <2>4 DEF Less
<1> QED
  BY <1>5, <1>6

LEMMA LessTotal ==
  ASSUME NEW a \in Seq(Nat), NEW b \in Seq(Nat), a # b
  PROVE  Less(a, b) \/ Less(b, a)
<1> DEFINE Differ == {i \in Nat \ {0} : \/ i > Len(a) \/ i > Len(b) \/ a[i] # b[i]}
<1>1. Len(a) \in Nat /\ Len(b) \in Nat
  OBVIOUS
<1>2. Differ \subseteq Nat /\ Len(a) + 1 \in Differ
  BY <1>1
<1>3. PICK d \in Differ : \A i \in Differ : d <= i
  <2> HIDE DEF Differ
  <2> QED
    BY <1>2, LeastNatural
<1>4. \A i \in 1 .. (d - 1) : i <= Len(a) /\ i <= Len(b) /\ a[i] = b[i]
  BY <1>1, <1>3
<1>5. d - 1 \in 0 .. Len(a) /\ d - 1 \in 0 .. Len(b)
  <2>1. d = 1 \/ d - 1 \in 1 .. (d - 1)
    OBVIOUS
  <2> QED
    BY <1>1, <1>4, <2>1
<1>6. ~(d > Len(a) /\ d > Len(b))
  <2> SUFFICES ASSUME d > Len(a), d > Len(b) PROVE FALSE
    OBVIOUS
  <2>1. Len(a) = Len(b)
    BY <1>1, <1>5
  <2>2. \A i \in 1 .. Len(a) : a[i] = b[i]
    BY <1>1, <1>4
  <2> QED
    BY <2>1, <2>2, SeqEqual
<1> DEFINE n == d - 1
<1>7. \A i \in 1 .. n : a[i] = b[i]
  BY <1>4
<1>8. CASE d > Len(a)
  <2>1. n = Len(a) /\ n < Len(b) /\ n \in 0 .. Len(a)
    BY <1>1, <1>5, <1>6, <1>8
  <2> QED
    BY <1>7, <2>1 DEF Less
<1>9. CASE d > Len(b)
  <2>1. n = Len(b) /\ n < Len(a) /\ n \in 0 .. Len(b)
    BY <1>1, <1>5, <1>6, <1>9
  <2> QED
    BY <1>7, <2>1 DEF Less
<1>10. CASE d <= Len(a) /\ d <= Len(b)
  <2>1. a[d] \in Nat /\ b[d] \in Nat /\ a[d] # b[d]
    BY <1>10
  <2>2. n < Len(a) /\ n < Len(b) /\ n + 1 = d
    BY <1>1, <1>10
  <2>3. a[n + 1] < b[n + 1] \/ b[n + 1] < a[n + 1]
    BY <2>1, <2>2
  <2> HIDE DEF n
  <2>4. n \in 0 .. Len(a) /\ n \in 0 .. Len(b)
    BY <1>5 DEF n
  <2> QED
    BY <1>7, <2>2, <2>3, <2>4 DEF Less
<1> QED
  BY <1>1, <1>8, <1>9, <1>10

-----------------------------------------------------------------------------
(* Sorting.                                                                *)

\* A sequence of items that have names.
AreNamed(items) ==
  /\ items \in Seq(ToSet(items))
  /\ \A i \in DOMAIN items : items[i].name \in Seq(Nat)

LEMMA NamedDomain ==
  ASSUME NEW items, AreNamed(items)
  PROVE  Len(items) \in Nat /\ DOMAIN items = 1 .. Len(items) /\ IsFiniteSet(DOMAIN items)
<1>1. items \in Seq(ToSet(items))
  BY DEF AreNamed
<1>2. Len(items) \in Nat /\ DOMAIN items = 1 .. Len(items)
  BY <1>1
<1> QED
  BY <1>2, FS_Interval

\* What goes before an item is a total order of the positions.
LEMMA BeforeOrder ==
  ASSUME NEW items, AreNamed(items), NEW i \in DOMAIN items, NEW j \in DOMAIN items
  PROVE  /\ i \notin Before(items, i)
         /\ i # j => i \in Before(items, j) \/ j \in Before(items, i)
         /\ i \in Before(items, j) => Before(items, i) \subseteq Before(items, j)
<1>1. i \in Nat /\ j \in Nat
  BY NamedDomain
<1>2. \A k \in DOMAIN items : items[k].name \in Seq(Nat) /\ k \in Nat
  BY NamedDomain DEF AreNamed
<1>3. i \notin Before(items, i)
  BY <1>1, <1>2, LessIrreflexive DEF Before
<1>4. i # j => i \in Before(items, j) \/ j \in Before(items, i)
  BY <1>1, <1>2, LessTotal DEF Before
<1>5. ASSUME i \in Before(items, j), NEW k \in Before(items, i) PROVE k \in Before(items, j)
  <2>1. k \in DOMAIN items /\ k \in Nat
    BY <1>2, <1>5 DEF Before
  <2>2. Less(items[k].name, items[i].name) \/ (items[k].name = items[i].name /\ k < i)
    BY <1>5 DEF Before
  <2>3. Less(items[i].name, items[j].name) \/ (items[i].name = items[j].name /\ i < j)
    BY <1>5 DEF Before
  <2>4. Less(items[k].name, items[j].name) \/ (items[k].name = items[j].name /\ k < j)
    BY <1>1, <1>2, <2>1, <2>2, <2>3, LessTransitive
  <2> QED
    BY <2>1, <2>4 DEF Before
<1> QED
  BY <1>3, <1>4, <1>5

Rank(items, i) == Cardinality(Before(items, i))

LEMMA RankType ==
  ASSUME NEW items, AreNamed(items), NEW i \in DOMAIN items
  PROVE  /\ IsFiniteSet(Before(items, i))
         /\ Rank(items, i) \in 0 .. (Len(items) - 1)
<1> DEFINE D == DOMAIN items
<1>1. Len(items) \in Nat /\ D = 1 .. Len(items) /\ IsFiniteSet(D)
  BY NamedDomain
<1>2. Cardinality(D) = Len(items)
  BY <1>1, PositionCount
<1>3. Before(items, i) \subseteq D /\ i \in D /\ i \notin Before(items, i)
  BY BeforeOrder DEF Before
<1> HIDE DEF D
<1>4. /\ IsFiniteSet(Before(items, i))
      /\ Cardinality(Before(items, i)) <= Cardinality(D)
      /\ Cardinality(D) = Cardinality(Before(items, i)) => D = Before(items, i)
  BY <1>1, <1>3, FS_Subset
<1>5. Cardinality(Before(items, i)) \in Nat
  BY <1>4, FS_CardinalityType
<1> QED
  BY <1>1, <1>2, <1>3, <1>4, <1>5 DEF Rank

LEMMA RankMonotone ==
  ASSUME NEW items, AreNamed(items), NEW i \in DOMAIN items, NEW j \in DOMAIN items,
         i \in Before(items, j)
  PROVE  Rank(items, i) < Rank(items, j)
<1>1. /\ Before(items, i) \subseteq Before(items, j) /\ i \notin Before(items, i)
  BY BeforeOrder
<1>2. IsFiniteSet(Before(items, j))
  BY RankType
<1>3. /\ Cardinality(Before(items, i)) <= Cardinality(Before(items, j))
      /\ Cardinality(Before(items, j)) = Cardinality(Before(items, i))
           => Before(items, j) = Before(items, i)
  BY <1>1, <1>2, FS_Subset
<1>4. Rank(items, i) \in Nat /\ Rank(items, j) \in Nat
  <2>1. /\ Rank(items, i) \in 0 .. (Len(items) - 1)
        /\ Rank(items, j) \in 0 .. (Len(items) - 1)
    BY RankType
  <2> QED
    BY <2>1
<1> QED
  BY <1>1, <1>3, <1>4 DEF Rank

LEMMA RankInjective ==
  ASSUME NEW items, AreNamed(items), NEW i \in DOMAIN items, NEW j \in DOMAIN items,
         Rank(items, i) = Rank(items, j)
  PROVE  i = j
<1>1. Rank(items, i) \in 0 .. (Len(items) - 1)
  BY RankType
<1>2. i \notin Before(items, j) /\ j \notin Before(items, i)
  <2>1. ~(Rank(items, i) < Rank(items, j)) /\ ~(Rank(items, j) < Rank(items, i))
    BY <1>1
  <2> QED
    BY <2>1, RankMonotone
<1> QED
  BY <1>2, BeforeOrder

\* Every place in the sorted sequence is taken.
LEMMA RankOnto ==
  ASSUME NEW items, AreNamed(items), NEW n \in DOMAIN items
  PROVE  \E i \in DOMAIN items : Rank(items, i) = n - 1
<1> DEFINE D == DOMAIN items
           f == [i \in D |-> Rank(items, i) + 1]
<1>1. Len(items) \in Nat /\ D = 1 .. Len(items) /\ IsFiniteSet(D)
  BY NamedDomain
<1>2. f \in [D -> D]
  <2>1. ASSUME NEW i \in D PROVE Rank(items, i) + 1 \in D
    <3>1. Rank(items, i) \in 0 .. (Len(items) - 1)
      BY RankType
    <3> QED
      BY <1>1, <3>1
  <2> QED
    BY <2>1
<1>3. ASSUME NEW i \in D, NEW j \in D, f[i] = f[j] PROVE i = j
  <2>1. /\ Rank(items, i) \in 0 .. (Len(items) - 1)
        /\ Rank(items, j) \in 0 .. (Len(items) - 1)
    BY RankType
  <2>2. Rank(items, i) = Rank(items, j)
    BY <1>1, <1>3, <2>1
  <2> QED
    BY <2>2, RankInjective
<1>4. f \in Injection(D, D)
  <2> HIDE DEF D, f
  <2> QED
    BY <1>2, <1>3 DEF Injection, IsInjective
<1>5. f \in Surjection(D, D)
  <2> HIDE DEF D, f
  <2> QED
    BY <1>1, <1>4, FS_Injection
<1>6. PICK i \in D : f[i] = n
  <2> HIDE DEF f
  <2> QED
    BY <1>5 DEF Surjection
<1>7. Rank(items, i) \in 0 .. (Len(items) - 1) /\ Rank(items, i) + 1 = n
  BY <1>6, RankType
<1> QED
  BY <1>1, <1>6, <1>7

\* The position that an item of the sorted sequence had.
Origin(items, n) == CHOOSE i \in DOMAIN items : Rank(items, i) = n - 1

LEMMA SortedOrigin ==
  ASSUME NEW items, AreNamed(items)
  PROVE  /\ Sorted(items) = [n \in DOMAIN items |-> items[Origin(items, n)]]
         /\ \A n \in DOMAIN items :
              Origin(items, n) \in DOMAIN items /\ Rank(items, Origin(items, n)) = n - 1
<1>1. Sorted(items) = [n \in DOMAIN items |-> items[Origin(items, n)]]
  BY DEF Sorted, Origin, Rank
<1>2. ASSUME NEW n \in DOMAIN items
      PROVE  Origin(items, n) \in DOMAIN items /\ Rank(items, Origin(items, n)) = n - 1
  BY RankOnto DEF Origin
<1> QED
  BY <1>1, <1>2

\* Items of which no two have one name are sorted strictly, none is lost and
\* none is added.
Distinct(items) ==
  \A i, j \in DOMAIN items : items[i].name = items[j].name => i = j

LEMMA SortedStrictly ==
  ASSUME NEW items, AreNamed(items), Distinct(items)
  PROVE  /\ Sorted(items) \in Seq(ToSet(items))
         /\ Len(Sorted(items)) = Len(items)
         /\ \A n \in 1 .. Len(items) - 1 :
              Less(Sorted(items)[n].name, Sorted(items)[n + 1].name)
<1>1. Len(items) \in Nat /\ DOMAIN items = 1 .. Len(items)
  BY NamedDomain
<1>2. /\ Sorted(items) = [n \in DOMAIN items |-> items[Origin(items, n)]]
      /\ \A n \in DOMAIN items :
           Origin(items, n) \in DOMAIN items /\ Rank(items, Origin(items, n)) = n - 1
  BY SortedOrigin
<1>3. Sorted(items) \in [1 .. Len(items) -> ToSet(items)]
  BY <1>1, <1>2 DEF ToSet
<1>4. Sorted(items) \in Seq(ToSet(items)) /\ Len(Sorted(items)) = Len(items)
  BY <1>1, <1>3
<1>5. ASSUME NEW n \in 1 .. Len(items) - 1
      PROVE  Less(Sorted(items)[n].name, Sorted(items)[n + 1].name)
  <2> DEFINE i == Origin(items, n)
             j == Origin(items, n + 1)
  <2>1. n \in DOMAIN items /\ n + 1 \in DOMAIN items /\ n \in Nat
    BY <1>1
  <2>2. /\ i \in DOMAIN items /\ j \in DOMAIN items
        /\ Rank(items, i) = n - 1 /\ Rank(items, j) = (n + 1) - 1
        /\ Sorted(items)[n] = items[i] /\ Sorted(items)[n + 1] = items[j]
    BY <1>2, <2>1
  <2> HIDE DEF i, j
  <2>3. i # j /\ ~(Rank(items, j) < Rank(items, i))
    BY <2>1, <2>2
  <2>4. i \in Before(items, j)
    BY <2>2, <2>3, BeforeOrder, RankMonotone
  <2>5. items[i].name # items[j].name
    BY <2>2, <2>3 DEF Distinct
  <2> QED
    BY <2>2, <2>4, <2>5 DEF Before
<1> QED
  BY <1>4, <1>5

\* One sequence holds the items of another at other positions.
IsShuffle(items, others, g) ==
  /\ AreNamed(items) /\ AreNamed(others)
  /\ g \in Bijection(DOMAIN items, DOMAIN others)
  /\ \A i \in DOMAIN items : others[g[i]] = items[i]

LEMMA ShuffleMap ==
  ASSUME NEW items, NEW others, NEW g, IsShuffle(items, others, g)
  PROVE  /\ g \in [DOMAIN items -> DOMAIN others]
         /\ \A i, j \in DOMAIN items : g[i] = g[j] => i = j
         /\ \A k \in DOMAIN others : \E i \in DOMAIN items : g[i] = k
         /\ Len(items) = Len(others) /\ DOMAIN items = DOMAIN others
<1>1. g \in Bijection(DOMAIN items, DOMAIN others)
  BY DEF IsShuffle
<1>2. /\ g \in [DOMAIN items -> DOMAIN others]
      /\ \A i, j \in DOMAIN items : g[i] = g[j] => i = j
      /\ \A k \in DOMAIN others : \E i \in DOMAIN items : g[i] = k
  BY <1>1 DEF Bijection, Injection, IsInjective, Surjection
<1>3. /\ Len(items) \in Nat /\ DOMAIN items = 1 .. Len(items) /\ IsFiniteSet(DOMAIN items)
      /\ Len(others) \in Nat /\ DOMAIN others = 1 .. Len(others)
  BY NamedDomain DEF IsShuffle
<1>4. Cardinality(DOMAIN items) = Cardinality(DOMAIN others)
  <2>1. ExistsBijection(DOMAIN items, DOMAIN others)
    BY <1>1 DEF ExistsBijection
  <2> QED
    BY <1>3, <2>1, FS_Bijection
<1>5. Cardinality(1 .. Len(items)) = Len(items) /\ Cardinality(1 .. Len(others)) = Len(others)
  BY <1>3, PositionCount
<1>6. Len(items) = Len(others)
  BY <1>3, <1>4, <1>5
<1> QED
  BY <1>2, <1>3, <1>6

LEMMA ShuffleDistinct ==
  ASSUME NEW items, NEW others, NEW g, IsShuffle(items, others, g)
  PROVE  Distinct(items) <=> Distinct(others)
<1>1. /\ g \in [DOMAIN items -> DOMAIN others]
      /\ \A i, j \in DOMAIN items : g[i] = g[j] => i = j
      /\ \A k \in DOMAIN others : \E i \in DOMAIN items : g[i] = k
  BY ShuffleMap
<1>2. \A i \in DOMAIN items : others[g[i]] = items[i]
  BY DEF IsShuffle
<1> QED
  BY <1>1, <1>2 DEF Distinct

\* As many items go before an item in one as in the other.
LEMMA ShuffleRank ==
  ASSUME NEW items, NEW others, NEW g, IsShuffle(items, others, g), Distinct(items),
         NEW i \in DOMAIN items
  PROVE  Rank(others, g[i]) = Rank(items, i)
<1>1. /\ g \in [DOMAIN items -> DOMAIN others]
      /\ \A j, k \in DOMAIN items : g[j] = g[k] => j = k
      /\ \A k \in DOMAIN others : \E j \in DOMAIN items : g[j] = k
  BY ShuffleMap
<1>2. \A j \in DOMAIN items : others[g[j]] = items[j]
  BY DEF IsShuffle
<1> DEFINE S == Before(items, i)
           T == Before(others, g[i])
           h == [j \in S |-> g[j]]
<1>3. IsFiniteSet(S)
  BY RankType DEF IsShuffle
<1>4. ASSUME NEW j \in DOMAIN items PROVE j \in S <=> g[j] \in T
  <2>1. g[j] \in DOMAIN others /\ others[g[j]].name = items[j].name
        /\ others[g[i]].name = items[i].name
    BY <1>1, <1>2
  <2>2. i \in Nat /\ g[i] \in Nat
    BY <1>1, NamedDomain DEF IsShuffle
  <2>3. items[j].name = items[i].name => j = i
    BY DEF Distinct
  <2> QED
    BY <2>1, <2>2, <2>3 DEF Before
<1>5. S \subseteq DOMAIN items /\ T \subseteq DOMAIN others
  BY DEF Before
<1> HIDE DEF S, T
<1>6. /\ h \in [S -> T]
      /\ \A j, k \in S : h[j] = h[k] => j = k
      /\ \A k \in T : \E j \in S : h[j] = k
  <2>1. \A j \in S : g[j] \in T
    BY <1>4, <1>5
  <2>2. \A j, k \in S : g[j] = g[k] => j = k
    BY <1>1, <1>5
  <2>3. \A k \in T : \E j \in S : g[j] = k
    BY <1>1, <1>4, <1>5
  <2> QED
    BY <2>1, <2>2, <2>3
<1>7. ExistsBijection(S, T)
  <2> HIDE DEF h
  <2>1. h \in Bijection(S, T)
    BY <1>6 DEF Bijection, Injection, IsInjective, Surjection
  <2> QED
    BY <2>1 DEF ExistsBijection
<1>8. Cardinality(T) = Cardinality(S)
  BY <1>3, <1>7, FS_Bijection
<1> QED
  BY <1>8 DEF Rank, S, T

\* The order in which distinct items come to be sorted does not show.
LEMMA ShuffleSorted ==
  ASSUME NEW items, NEW others, NEW g, IsShuffle(items, others, g), Distinct(items)
  PROVE  Sorted(items) = Sorted(others)
<1>1. /\ g \in [DOMAIN items -> DOMAIN others] /\ DOMAIN items = DOMAIN others
  BY ShuffleMap
<1>2. AreNamed(items) /\ AreNamed(others) /\ \A i \in DOMAIN items : others[g[i]] = items[i]
  BY DEF IsShuffle
<1>3. ASSUME NEW n \in DOMAIN items
      PROVE  items[Origin(items, n)] = others[Origin(others, n)]
  <2> DEFINE i == Origin(items, n)
             k == Origin(others, n)
  <2>1. /\ i \in DOMAIN items /\ Rank(items, i) = n - 1
        /\ k \in DOMAIN others /\ Rank(others, k) = n - 1
    BY <1>1, <1>2, SortedOrigin
  <2> HIDE DEF i, k
  <2>2. Rank(others, g[i]) = Rank(items, i)
    BY <2>1, ShuffleRank
  <2>3. g[i] = k
    BY <1>1, <1>2, <2>1, <2>2, RankInjective
  <2> QED
    BY <1>2, <2>1, <2>3 DEF i, k
<1>4. /\ Sorted(items) = [n \in DOMAIN items |-> items[Origin(items, n)]]
      /\ Sorted(others) = [n \in DOMAIN others |-> others[Origin(others, n)]]
  BY <1>2, SortedOrigin
<1>5. Sorted(others) = [n \in DOMAIN items |-> others[Origin(others, n)]]
  BY <1>1, <1>4
<1>6. Sorted(items) = [n \in DOMAIN items |-> items[Origin(items, n)]]
  BY <1>4
<1> DEFINE there(n) == items[Origin(items, n)]
           here(n) == others[Origin(others, n)]
<1>7. \A n \in DOMAIN items : there(n) = here(n)
  BY <1>3
<1>8. Sorted(items) = [n \in DOMAIN items |-> there(n)]
      /\ Sorted(others) = [n \in DOMAIN items |-> here(n)]
  BY <1>5, <1>6
<1> HIDE DEF there, here
<1> QED
  BY <1>7, <1>8

-----------------------------------------------------------------------------
(* Flattening.                                                             *)

\* Where the items of the first m catalogs are.
Places(ss, m) == {p \in (1 .. m) \X Nat : p[2] \in DOMAIN ss[p[1]]}

\* s holds the elements of the first m sequences, p's element at at[p].
IsPlaced(E, ss, m, s, at) ==
  /\ s \in Seq(E)
  /\ at \in [Places(ss, m) -> DOMAIN s]
  /\ \A p, q \in Places(ss, m) : at[p] = at[q] => p = q
  /\ \A k \in DOMAIN s : \E p \in Places(ss, m) : at[p] = k
  /\ \A p \in Places(ss, m) : s[at[p]] = ss[p[1]][p[2]]

LEMMA PlaceNext ==
  ASSUME NEW E, NEW ss \in Seq(Seq(E)), NEW m \in Nat, m + 1 \in 1 .. Len(ss),
         NEW s, NEW at, IsPlaced(E, ss, m, s, at)
  PROVE  \E also : IsPlaced(E, ss, m + 1, s \o ss[m + 1], also)
<1> DEFINE t == ss[m + 1]
           P == Places(ss, m)
           Q == Places(ss, m + 1)
           also == [p \in Q |-> IF p[1] = m + 1 THEN Len(s) + p[2] ELSE at[p]]
<1>1. t \in Seq(E) /\ Len(t) \in Nat /\ DOMAIN t = 1 .. Len(t)
  OBVIOUS
<1>2. /\ s \in Seq(E) /\ Len(s) \in Nat /\ DOMAIN s = 1 .. Len(s)
      /\ at \in [P -> 1 .. Len(s)]
      /\ \A p, q \in P : at[p] = at[q] => p = q
      /\ \A k \in 1 .. Len(s) : \E p \in P : at[p] = k
      /\ \A p \in P : s[at[p]] = ss[p[1]][p[2]]
  <2>1. s \in Seq(E)
    BY DEF IsPlaced
  <2>2. Len(s) \in Nat /\ DOMAIN s = 1 .. Len(s)
    BY <2>1
  <2> HIDE DEF P
  <2> QED
    BY <2>1, <2>2 DEF IsPlaced, P
<1>3. ASSUME NEW p \in Q
      PROVE  \/ p[1] = m + 1 /\ p[2] \in 1 .. Len(t) /\ p = <<m + 1, p[2]>>
             \/ p[1] # m + 1 /\ p \in P
  <2>1. /\ p \in (1 .. m + 1) \X Nat /\ p[2] \in DOMAIN ss[p[1]]
        /\ p = <<p[1], p[2]>> /\ p[1] \in 1 .. m + 1 /\ p[2] \in Nat
    BY DEF Places
  <2>2. CASE p[1] = m + 1
    BY <1>1, <2>1, <2>2
  <2>3. CASE p[1] # m + 1
    <3>1. p[1] \in 1 .. m
      BY <2>1, <2>3
    <3>2. p \in (1 .. m) \X Nat
      BY <2>1, <3>1
    <3> QED
      BY <2>1, <2>3, <3>2 DEF Places
  <2> QED
    BY <2>2, <2>3
<1>4. P \subseteq Q /\ \A p \in P : p[1] # m + 1
  BY DEF Places
<1>5. \A i \in 1 .. Len(t) : <<m + 1, i>> \in Q
  BY <1>1 DEF Places
<1> DEFINE u == s \o t
<1>6. /\ u \in Seq(E) /\ DOMAIN u = 1 .. Len(s) + Len(t)
      /\ \A k \in 1 .. Len(s) : u[k] = s[k]
      /\ \A i \in 1 .. Len(t) : u[Len(s) + i] = t[i]
  <2>1. /\ u \in Seq(E) /\ Len(u) = Len(s) + Len(t)
        /\ \A k \in 1 .. Len(s) + Len(t) : u[k] = IF k <= Len(s) THEN s[k] ELSE t[k - Len(s)]
    BY <1>1, <1>2, ConcatProperties
  <2> HIDE DEF u, t
  <2>2. DOMAIN u = 1 .. Len(s) + Len(t)
    BY <1>1, <1>2, <2>1
  <2>3. \A k \in 1 .. Len(s) : u[k] = s[k]
    BY <1>1, <1>2, <2>1
  <2>4. ASSUME NEW i \in 1 .. Len(t) PROVE u[Len(s) + i] = t[i]
    <3>1. Len(s) + i \in 1 .. Len(s) + Len(t) /\ ~(Len(s) + i <= Len(s)) /\ (Len(s) + i) - Len(s) = i
      BY <1>1, <1>2
    <3> QED
      BY <2>1, <3>1
  <2> QED
    BY <2>1, <2>2, <2>3, <2>4
<1> HIDE DEF t, P, Q, u
<1>7. ASSUME NEW p \in Q
      PROVE  /\ p \in P => also[p] = at[p] /\ also[p] \in 1 .. Len(s)
             /\ p \notin P => /\ p = <<m + 1, p[2]>> /\ p[2] \in 1 .. Len(t)
                              /\ also[p] = Len(s) + p[2]
  BY <1>2, <1>3, <1>4
<1>8. also = [p \in Q |-> also[p]]
  OBVIOUS
<1> HIDE DEF also
<1>9. also \in [Q -> DOMAIN u]
  <2>1. ASSUME NEW p \in Q PROVE also[p] \in 1 .. Len(s) + Len(t)
    BY <1>1, <1>2, <1>7
  <2> QED
    BY <1>6, <1>8, <2>1
<1>10. ASSUME NEW p \in Q, NEW q \in Q, also[p] = also[q] PROVE p = q
  <2>1. CASE p \in P /\ q \in P
    BY <1>2, <1>7, <1>10, <2>1
  <2>2. CASE p \notin P /\ q \notin P
    <3>1. /\ p = <<m + 1, p[2]>> /\ p[2] \in 1 .. Len(t) /\ also[p] = Len(s) + p[2]
          /\ q = <<m + 1, q[2]>> /\ q[2] \in 1 .. Len(t) /\ also[q] = Len(s) + q[2]
      BY <1>7, <2>2
    <3>2. p[2] = q[2]
      <4>1. Len(s) + p[2] = Len(s) + q[2]
        BY <1>10, <3>1, Zenon
      <4>2. Len(s) \in Nat /\ p[2] \in Int /\ q[2] \in Int
        BY <1>2, <3>1
      <4> QED
        BY <4>1, <4>2
    <3>3. <<m + 1, p[2]>> = <<m + 1, q[2]>>
      BY <3>2
    <3> QED
      BY <3>1, <3>3, Zenon
  <2>3. ASSUME NEW x \in Q, NEW y \in Q, x \in P, y \notin P PROVE also[x] # also[y]
    <3>1. also[x] \in 1 .. Len(s) /\ also[y] = Len(s) + y[2] /\ y[2] \in 1 .. Len(t)
      BY <1>7, <2>3
    <3> QED
      BY <1>1, <1>2, <3>1
  <2> QED
    BY <1>10, <2>1, <2>2, <2>3
<1>11. ASSUME NEW k \in DOMAIN u PROVE \E p \in Q : also[p] = k
  <2>1. CASE k \in 1 .. Len(s)
    <3>1. PICK p \in P : at[p] = k
      BY <1>2, <2>1
    <3> QED
      BY <1>4, <1>7, <3>1
  <2>2. CASE k \notin 1 .. Len(s)
    <3>1. PICK i \in 1 .. Len(t) : k = Len(s) + i
      <4>1. k - Len(s) \in 1 .. Len(t) /\ k = Len(s) + (k - Len(s))
        BY <1>1, <1>2, <1>6, <2>2
      <4> QED
        BY <4>1
    <3>2. <<m + 1, i>> \in Q /\ <<m + 1, i>> \notin P
      BY <1>4, <1>5
    <3>3. also[<<m + 1, i>>] = Len(s) + i
      BY <1>7, <3>2
    <3> QED
      BY <3>1, <3>2, <3>3
  <2> QED
    BY <2>1, <2>2
<1>12. ASSUME NEW p \in Q PROVE u[also[p]] = ss[p[1]][p[2]]
  <2>1. CASE p \in P
    BY <1>2, <1>6, <1>7, <2>1
  <2>2. CASE p \notin P
    <3>1. p[1] = m + 1 /\ u[also[p]] = t[p[2]]
      <4>1. p = <<m + 1, p[2]>> /\ p[2] \in 1 .. Len(t) /\ also[p] = Len(s) + p[2]
        BY <1>7, <2>2
      <4> QED
        BY <1>6, <4>1
    <3> QED
      BY <3>1 DEF t
  <2> QED
    BY <2>1, <2>2
<1>13. IsPlaced(E, ss, m + 1, u, also)
  BY <1>6, <1>9, <1>10, <1>11, <1>12 DEF IsPlaced, Q
<1> QED
  BY <1>13 DEF u, t

LEMMA FlattenedIsPlaced ==
  ASSUME NEW E, NEW ss \in Seq(Seq(E))
  PROVE  \E at : IsPlaced(E, ss, Len(ss), FlattenSeq(ss), at)
<1>1. Len(ss) \in Nat
  OBVIOUS
<1>2. \E at : IsPlaced(E, ss, 0, <<>>, at)
  <2>1. Places(ss, 0) = {}
    BY DEF Places
  <2> DEFINE at == [p \in {} |-> p]
  <2>2. IsPlaced(E, ss, 0, <<>>, at)
    BY <2>1 DEF IsPlaced
  <2> QED
    BY <2>2
<1>3. CASE Len(ss) = 0
  <2>1. FlattenSeq(ss) = <<>>
    BY <1>3 DEF FlattenSeq
  <2> QED
    BY <1>2, <1>3, <2>1
<1>4. CASE Len(ss) # 0
  <2> DEFINE f == CHOOSE f : Flattens(ss, f)
             M == {m \in Nat : m + 1 \in 1 .. Len(ss) => \E at : IsPlaced(E, ss, m + 1, f[m + 1], at)}
  <2>1. FlattenSeq(ss) = f[Len(ss)]
    BY <1>4 DEF FlattenSeq, Flattens
  <2>2. Flattens(ss, f)
    BY FlattensExists
  <2> HIDE DEF f
  <2>3. \A i \in 1 .. Len(ss) : f[i] = IF i = 1 THEN ss[i] ELSE f[i - 1] \o ss[i]
    BY <2>2 DEF Flattens
  <2>4. 0 \in M
    <3>1. 1 \in 1 .. Len(ss) /\ ss[1] \in Seq(E)
      BY <1>1, <1>4
    <3>2. f[1] = <<>> \o ss[1]
      <4>1. <<>> \o ss[1] = ss[1]
        BY <3>1, ConcatEmptySeq
      <4> QED
        BY <2>3, <3>1, <4>1
    <3>3. PICK at : IsPlaced(E, ss, 0, <<>>, at)
      BY <1>2
    <3>4. 0 + 1 = 1 /\ 0 + 1 \in 1 .. Len(ss)
      BY <3>1
    <3>5. \E also : IsPlaced(E, ss, 0 + 1, <<>> \o ss[0 + 1], also)
      BY <3>3, <3>4, PlaceNext
    <3> QED
      BY <3>2, <3>4, <3>5
  <2>5. ASSUME NEW m \in Nat, m \in M PROVE m + 1 \in M
    <3> DEFINE k == m + 1
    <3> SUFFICES ASSUME k + 1 \in 1 .. Len(ss) PROVE \E at : IsPlaced(E, ss, k + 1, f[k + 1], at)
      OBVIOUS
    <3>1. k \in Nat /\ k \in 1 .. Len(ss) /\ k + 1 # 1 /\ (k + 1) - 1 = k
      BY <1>1
    <3>2. PICK at : IsPlaced(E, ss, k, f[k], at)
      BY <2>5, <3>1
    <3> HIDE DEF k, M
    <3> DEFINE a == f[k]
    <3>3. \E also : IsPlaced(E, ss, k + 1, f[k] \o ss[k + 1], also)
      BY <3>1, <3>2, PlaceNext
    <3>4. f[k + 1] = f[k] \o ss[k + 1]
      BY <2>3, <3>1
    <3> QED
      BY <3>3, <3>4
  <2>6. Nat \subseteq M
    <3> HIDE DEF M
    <3> QED
      BY <2>4, <2>5, Induction
  <2>7. Len(ss) - 1 \in M /\ (Len(ss) - 1) + 1 = Len(ss) /\ Len(ss) \in 1 .. Len(ss)
    <3> HIDE DEF M
    <3> QED
      BY <1>1, <1>4, <2>6
  <2> QED
    BY <2>1, <2>7
<1> QED
  BY <1>3, <1>4

-----------------------------------------------------------------------------
(* The metadata.                                                           *)

LEMMA RouteEntries ==
  ASSUME NEW id, NEW name
  PROVE  /\ DOMAIN Route(id, name) = {"upstreamId", "upstreamName"}
         /\ Route(id, name)["upstreamId"] = id /\ Route(id, name)["upstreamName"] = name
BY DEF Route

\* What attaching leads to, entry by entry.
LEMMA AttachCases ==
  ASSUME NEW meta, IsMeta(meta), NEW entries
  PROVE  /\ Attach(meta, entries) = [gateway  |-> Attach(meta, entries).gateway,
                                     original |-> Attach(meta, entries).original]
         /\ meta.gateway.kind \in {"absent", "scalar"} =>
              Attach(meta, entries).gateway = Object(entries)
         /\ meta.gateway.kind = "object" =>
              Attach(meta, entries).gateway = Object(Overlay(entries, meta.gateway.entries))
         /\ Attach(meta, entries).original =
              CASE meta.gateway.kind = "absent" -> meta.original
                [] meta.gateway.kind = "scalar" -> meta.gateway
                [] meta.gateway.kind = "object" ->
                     IF Keys(meta.gateway) \cap DOMAIN entries # {} /\ meta.original = Absent
                     THEN meta.gateway ELSE meta.original
<1>1. /\ meta = [gateway |-> meta.gateway, original |-> meta.original]
      /\ meta.gateway = Absent \/ meta.gateway = Scalar
                               \/ meta.gateway = Object(meta.gateway.entries)
  BY DEF IsMeta, IsEntry
<1>2. CASE meta.gateway = Absent
  <2>1. meta.gateway.kind = "absent"
    BY <1>2 DEF Absent
  <2>2. Attach(meta, entries) = [meta EXCEPT !.gateway = Object(entries)]
    BY <2>1 DEF Attach
  <2>3. Attach(meta, entries) = [gateway |-> Object(entries), original |-> meta.original]
    BY <1>1, <2>2
  <2> QED
    BY <2>1, <2>3
<1>3. CASE meta.gateway = Scalar
  <2>1. meta.gateway.kind = "scalar"
    BY <1>3 DEF Scalar
  <2>2. Attach(meta, entries) = [gateway |-> Object(entries), original |-> meta.gateway]
    BY <2>1 DEF Attach
  <2> QED
    BY <2>1, <2>2
<1>4. CASE meta.gateway = Object(meta.gateway.entries)
  <2>1. meta.gateway.kind = "object"
    BY <1>4 DEF Object
  <2>2. Attach(meta, entries) =
          [gateway  |-> Object(Overlay(entries, meta.gateway.entries)),
           original |-> IF Keys(meta.gateway) \cap DOMAIN entries # {} /\ meta.original = Absent
                        THEN meta.gateway ELSE meta.original]
    BY <2>1 DEF Attach
  <2> QED
    BY <2>1, <2>2
<1> QED
  BY <1>1, <1>2, <1>3, <1>4

LEMMA EntryKinds ==
  ASSUME NEW e, IsEntry(e)
  PROVE  /\ e.kind \in {"absent", "scalar", "object"}
         /\ e.kind = "absent" <=> e = Absent
         /\ e.kind = "scalar" <=> e = Scalar
         /\ e.kind = "object" <=> e = Object(e.entries)
<1>1. /\ Absent.kind = "absent" /\ Scalar.kind = "scalar"
      /\ Object(e.entries).kind = "object"
  BY DEF Absent, Scalar, Object
<1>2. e = Absent \/ e = Scalar \/ e = Object(e.entries)
  BY DEF IsEntry
<1>3. e.kind = "absent" => e = Absent
  BY <1>1, <1>2
<1>4. e.kind = "scalar" => e = Scalar
  BY <1>1, <1>2
<1>5. e.kind = "object" => e = Object(e.entries)
  BY <1>1, <1>2
<1> QED
  BY <1>1, <1>2, <1>3, <1>4, <1>5

\* Attaching leaves metadata, in which the attached entries are.
LEMMA AttachType ==
  ASSUME NEW meta, IsMeta(meta), NEW entries
  PROVE  /\ IsMeta(Attach(meta, entries))
         /\ Attach(meta, entries).gateway.kind = "object"
         /\ \A k \in DOMAIN entries :
              Attach(meta, entries).gateway.entries[k] = entries[k]
<1> DEFINE new == Attach(meta, entries)
<1>1. IsEntry(meta.gateway) /\ IsEntry(meta.original)
  BY DEF IsMeta
<1>2. meta.gateway.kind \in {"absent", "scalar", "object"}
  BY <1>1, EntryKinds
<1>3. IsEntry(new.original)
  BY <1>1, <1>2, AttachCases
<1>4. /\ new = [gateway |-> new.gateway, original |-> new.original]
      /\ \/ new.gateway = Object(entries)
         \/ new.gateway = Object(Overlay(entries, meta.gateway.entries))
  BY <1>2, AttachCases
<1>5. \A x : Object(x).kind = "object" /\ Object(x).entries = x
  BY DEF Object
<1>6. \A k \in DOMAIN entries : Overlay(entries, meta.gateway.entries)[k] = entries[k]
  BY DEF Overlay
<1> HIDE DEF new
<1>7. /\ new.gateway.kind = "object" /\ new.gateway = Object(new.gateway.entries)
      /\ \A k \in DOMAIN entries : new.gateway.entries[k] = entries[k]
  BY <1>4, <1>5, <1>6
<1>8. IsMeta(new)
  BY <1>3, <1>4, <1>7 DEF IsMeta, IsEntry
<1> QED
  BY <1>7, <1>8 DEF new

\* An entry has all that an earlier one has.
Holds(e, earlier) ==
  IF earlier.kind = "scalar" THEN e = Scalar
  ELSE /\ e.kind = "object"
       /\ \A k \in Keys(earlier) : k \in Keys(e) /\ e.entries[k] = earlier.entries[k]

\* Where what was published is kept: under "gateway" as long as nothing collides
\* with it, and with the original from then on.
Kept(meta, published) ==
  \/ published.kind = "absent"
  \/ meta.original = Absent /\ Holds(meta.gateway, published)
  \/ meta.gateway.kind = "object" /\ Holds(meta.original, published)

LEMMA AttachKeeps ==
  ASSUME NEW meta, IsMeta(meta), NEW entries, DOMAIN entries # {},
         NEW published, IsEntry(published), Kept(meta, published)
  PROVE  Kept(Attach(meta, entries), published)
<1> DEFINE new == Attach(meta, entries)
<1>1. IsEntry(meta.gateway) /\ IsEntry(meta.original)
  BY DEF IsMeta
<1>2. new.gateway.kind = "object"
  BY AttachType
<1>3. CASE published.kind = "absent"
  BY <1>3 DEF Kept
<1>4. CASE published.kind # "absent" /\ meta.gateway.kind = "object" /\ Holds(meta.original, published)
  <2>1. meta.original # Absent
    BY <1>4 DEF Holds, Absent, Scalar
  <2>2. new.original = meta.original
    BY <1>4, <2>1, AttachCases
  <2> QED
    BY <1>2, <1>4, <2>2 DEF Kept
<1>5. CASE /\ published.kind # "absent"
           /\ meta.original = Absent /\ Holds(meta.gateway, published)
  <2>1. meta.gateway.kind \in {"scalar", "object"}
    BY <1>5 DEF Holds, Scalar
  <2>2. CASE meta.gateway.kind = "scalar"
    <3>1. new.original = meta.gateway
      BY <2>2, AttachCases
    <3> QED
      BY <1>2, <1>5, <3>1 DEF Kept
  <2>3. CASE meta.gateway.kind = "object" /\ Keys(meta.gateway) \cap DOMAIN entries # {}
    <3>1. new.original = meta.gateway
      BY <1>5, <2>3, AttachCases
    <3> QED
      BY <1>2, <1>5, <3>1 DEF Kept
  <2>4. CASE meta.gateway.kind = "object" /\ Keys(meta.gateway) \cap DOMAIN entries = {}
    <3>1. new.original = Absent
      BY <1>5, <2>4, AttachCases
    <3>2. new.gateway = Object(Overlay(entries, meta.gateway.entries))
      BY <2>4, AttachCases
    <3>3. published.kind # "scalar"
      BY <1>5, <2>4 DEF Holds, Scalar
    <3>4. \A k \in Keys(published) :
            k \in Keys(meta.gateway) /\ meta.gateway.entries[k] = published.entries[k]
      BY <1>5, <3>3 DEF Holds
    <3>5. \A k \in Keys(meta.gateway) :
            k \in Keys(new.gateway) /\ new.gateway.entries[k] = meta.gateway.entries[k]
      <4> SUFFICES ASSUME NEW k \in DOMAIN meta.gateway.entries
                   PROVE  /\ k \in DOMAIN new.gateway.entries
                          /\ new.gateway.entries[k] = meta.gateway.entries[k]
        BY DEF Keys
      <4>1. k \notin DOMAIN entries
        BY <2>4 DEF Keys
      <4>2. new.gateway.entries = Overlay(entries, meta.gateway.entries)
        BY <3>2 DEF Object
      <4> HIDE DEF new
      <4> QED
        BY <4>1, <4>2 DEF Overlay
    <3>6. Holds(new.gateway, published)
      BY <1>2, <3>3, <3>4, <3>5 DEF Holds
    <3> QED
      BY <3>1, <3>6 DEF Kept
  <2> QED
    BY <2>1, <2>2, <2>3, <2>4
<1> QED
  BY <1>3, <1>4, <1>5 DEF Kept

-----------------------------------------------------------------------------
(* Merging.                                                                *)

IsItem(item) == item.name \in Seq(Nat) /\ IsMeta(item.meta)

IsCatalog(c) == /\ c = [id |-> c.id, items |-> c.items]
                /\ c.id \in Ids
                /\ c.items \in Seq(ToSet(c.items))
                /\ \A i \in DOMAIN c.items : IsItem(c.items[i])

AreCatalogs(cs) == /\ cs \in Seq(ToSet(cs))
                   /\ \A c \in DOMAIN cs : IsCatalog(cs[c])

\* Where an upstream's item is, and what it is exposed as.
Pairs(cs) == {p \in (DOMAIN cs) \X Nat : p[2] \in DOMAIN cs[p[1]].items}

ExposedAs(cs, p) == Expose(cs[p[1]].id, cs[p[1]].items[p[2]])

Parts(cs) ==
  [c \in DOMAIN cs |-> [i \in DOMAIN cs[c].items |-> Expose(cs[c].id, cs[c].items[i])]]

LEMMA PartsType ==
  ASSUME NEW cs, AreCatalogs(cs)
  PROVE  /\ Parts(cs) \in Seq(Seq({ExposedAs(cs, p) : p \in Pairs(cs)}))
         /\ Len(Parts(cs)) = Len(cs) /\ Len(cs) \in Nat /\ DOMAIN cs = 1 .. Len(cs)
         /\ Places(Parts(cs), Len(cs)) = Pairs(cs)
         /\ \A p \in Pairs(cs) : Parts(cs)[p[1]][p[2]] = ExposedAs(cs, p)
<1> DEFINE E == {ExposedAs(cs, p) : p \in Pairs(cs)}
           part(c) == [i \in DOMAIN cs[c].items |-> Expose(cs[c].id, cs[c].items[i])]
<1>1. Len(cs) \in Nat /\ DOMAIN cs = 1 .. Len(cs)
  BY DEF AreCatalogs
<1>2. ASSUME NEW c \in DOMAIN cs
      PROVE  /\ part(c) \in Seq(E) /\ DOMAIN part(c) = DOMAIN cs[c].items
             /\ \A i \in DOMAIN cs[c].items : i \in Nat /\ part(c)[i] = Expose(cs[c].id, cs[c].items[i])
  <2>1. cs[c].items \in Seq(ToSet(cs[c].items))
    BY DEF AreCatalogs, IsCatalog
  <2>2. Len(cs[c].items) \in Nat /\ DOMAIN cs[c].items = 1 .. Len(cs[c].items)
    BY <2>1
  <2>3. ASSUME NEW i \in DOMAIN cs[c].items PROVE Expose(cs[c].id, cs[c].items[i]) \in E
    <3> DEFINE p == <<c, i>>
    <3>1. p \in Pairs(cs) /\ p[1] = c /\ p[2] = i
      BY <2>2 DEF Pairs
    <3> HIDE DEF p
    <3>2. ExposedAs(cs, p) = Expose(cs[c].id, cs[c].items[i])
      BY <3>1 DEF ExposedAs
    <3> QED
      BY <3>1, <3>2
  <2> HIDE DEF E
  <2> QED
    BY <2>2, <2>3
<1>3. DOMAIN Parts(cs) = 1 .. Len(cs) /\ \A c \in DOMAIN cs : Parts(cs)[c] = part(c)
  BY <1>1 DEF Parts
<1> HIDE DEF part
<1>4. Parts(cs) \in Seq(Seq(E)) /\ Len(Parts(cs)) = Len(cs)
  <2> HIDE DEF E
  <2>1. Parts(cs) = [c \in 1 .. Len(cs) |-> Parts(cs)[c]]
    BY <1>1 DEF Parts
  <2>2. \A c \in 1 .. Len(cs) : Parts(cs)[c] \in Seq(E)
    BY <1>1, <1>2, <1>3
  <2>3. Parts(cs) \in [1 .. Len(cs) -> Seq(E)]
    BY <2>1, <2>2
  <2> QED
    BY <1>1, <2>3
<1>5. Places(Parts(cs), Len(cs)) = Pairs(cs)
  <2>1. ASSUME NEW p \in (1 .. Len(cs)) \X Nat
        PROVE  p[2] \in DOMAIN Parts(cs)[p[1]] <=> p[2] \in DOMAIN cs[p[1]].items
    <3>1. p[1] \in DOMAIN cs
      BY <1>1
    <3> QED
      BY <1>2, <1>3, <3>1
  <2> QED
    BY <1>1, <2>1 DEF Places, Pairs
<1>6. \A p \in Pairs(cs) : Parts(cs)[p[1]][p[2]] = ExposedAs(cs, p)
  <2> SUFFICES ASSUME NEW p \in Pairs(cs) PROVE Parts(cs)[p[1]][p[2]] = ExposedAs(cs, p)
    OBVIOUS
  <2>1. p[1] \in DOMAIN cs /\ p[2] \in DOMAIN cs[p[1]].items
    BY DEF Pairs
  <2> QED
    BY <1>2, <1>3, <2>1 DEF ExposedAs
<1> QED
  BY <1>1, <1>4, <1>5, <1>6

\* Every upstream's item is exposed once.
IsLaidOut(cs, at) ==
  /\ at \in [Pairs(cs) -> DOMAIN Exposed(cs)]
  /\ \A p, q \in Pairs(cs) : at[p] = at[q] => p = q
  /\ \A k \in DOMAIN Exposed(cs) : \E p \in Pairs(cs) : at[p] = k
  /\ \A p \in Pairs(cs) : Exposed(cs)[at[p]] = ExposedAs(cs, p)

LEMMA ExposedLaidOut ==
  ASSUME NEW cs, AreCatalogs(cs)
  PROVE  /\ \E at : IsLaidOut(cs, at)
         /\ Exposed(cs) \in Seq({ExposedAs(cs, p) : p \in Pairs(cs)})
<1> DEFINE E == {ExposedAs(cs, p) : p \in Pairs(cs)}
<1>1. /\ Parts(cs) \in Seq(Seq(E))
      /\ Len(Parts(cs)) = Len(cs)
      /\ Places(Parts(cs), Len(cs)) = Pairs(cs)
      /\ \A p \in Pairs(cs) : Parts(cs)[p[1]][p[2]] = ExposedAs(cs, p)
  BY PartsType
<1> HIDE DEF E
<1>2. PICK at : IsPlaced(E, Parts(cs), Len(cs), Exposed(cs), at)
  <2>1. Exposed(cs) = FlattenSeq(Parts(cs))
    BY DEF Exposed, Parts
  <2> QED
    BY <1>1, <2>1, FlattenedIsPlaced
<1>3. IsLaidOut(cs, at) /\ Exposed(cs) \in Seq(E)
  BY <1>1, <1>2 DEF IsPlaced, IsLaidOut
<1> QED
  BY <1>3 DEF E

LEMMA ExposedNamed ==
  ASSUME NEW cs, AreCatalogs(cs)
  PROVE  /\ AreNamed(Exposed(cs))
         /\ \A k \in DOMAIN Exposed(cs) : \E p \in Pairs(cs) : Exposed(cs)[k] = ExposedAs(cs, p)
<1>1. PICK at : IsLaidOut(cs, at)
  BY ExposedLaidOut
<1>2. \A k \in DOMAIN Exposed(cs) : \E p \in Pairs(cs) : Exposed(cs)[k] = ExposedAs(cs, p)
  <2> SUFFICES ASSUME NEW k \in DOMAIN Exposed(cs)
               PROVE  \E p \in Pairs(cs) : Exposed(cs)[k] = ExposedAs(cs, p)
    OBVIOUS
  <2>1. PICK p \in Pairs(cs) : at[p] = k
    BY <1>1 DEF IsLaidOut
  <2>2. Exposed(cs)[at[p]] = ExposedAs(cs, p)
    BY <1>1 DEF IsLaidOut
  <2> QED
    BY <2>1, <2>2
<1>3. ASSUME NEW p \in Pairs(cs) PROVE ExposedAs(cs, p).name \in Seq(Nat)
  <2>1. p[1] \in DOMAIN cs /\ p[2] \in DOMAIN cs[p[1]].items
    BY DEF Pairs
  <2>2. cs[p[1]].id \in Nat /\ cs[p[1]].items[p[2]].name \in Seq(Nat)
    BY <2>1, MergeAssumption DEF AreCatalogs, IsCatalog, IsItem
  <2> DEFINE id == cs[p[1]].id
             name == cs[p[1]].items[p[2]].name
             prefix == <<id>>
  <2>3. prefix \in Seq(Nat) /\ name \in Seq(Nat)
    BY <2>2
  <2>4. ExposedAs(cs, p).name = prefix \o name
    BY DEF ExposedAs, Expose, ExposedName
  <2> HIDE DEF prefix, name
  <2>5. prefix \o name \in Seq(Nat)
    BY <2>3, ConcatProperties
  <2> QED
    BY <2>4, <2>5
<1>4. Exposed(cs) \in Seq(ToSet(Exposed(cs)))
  <2> DEFINE E == {ExposedAs(cs, p) : p \in Pairs(cs)}
             s == Exposed(cs)
  <2>1. s \in Seq(E)
    BY ExposedLaidOut
  <2> HIDE DEF E, s
  <2>2. s \in [1 .. Len(s) -> ToSet(s)] /\ Len(s) \in Nat
    BY <2>1 DEF ToSet
  <2>3. s \in Seq(ToSet(s))
    BY <2>2
  <2> QED
    BY <2>3 DEF s
<1> QED
  BY <1>2, <1>3, <1>4 DEF AreNamed

\* The catalogs hold the same items in another order.
IsRearranged(cs, ds, h) ==
  /\ AreCatalogs(cs) /\ AreCatalogs(ds)
  /\ h \in [Pairs(cs) -> Pairs(ds)]
  /\ \A p, q \in Pairs(cs) : h[p] = h[q] => p = q
  /\ \A q \in Pairs(ds) : \E p \in Pairs(cs) : h[p] = q
  /\ \A p \in Pairs(cs) : /\ ds[h[p][1]].id = cs[p[1]].id
                          /\ ds[h[p][1]].items[h[p][2]] = cs[p[1]].items[p[2]]

LEMMA RearrangedIsShuffle ==
  ASSUME NEW cs, NEW ds, NEW h, IsRearranged(cs, ds, h)
  PROVE  \E g : IsShuffle(Exposed(cs), Exposed(ds), g)
<1>1. /\ AreCatalogs(cs) /\ AreCatalogs(ds)
      /\ h \in [Pairs(cs) -> Pairs(ds)]
      /\ \A p, q \in Pairs(cs) : h[p] = h[q] => p = q
      /\ \A q \in Pairs(ds) : \E p \in Pairs(cs) : h[p] = q
  BY DEF IsRearranged
<1>2. \A p \in Pairs(cs) : ExposedAs(ds, h[p]) = ExposedAs(cs, p)
  BY DEF IsRearranged, ExposedAs
<1>3. PICK here : IsLaidOut(cs, here)
  BY <1>1, ExposedLaidOut
<1>4. PICK there : IsLaidOut(ds, there)
  BY <1>1, ExposedLaidOut
<1> DEFINE D == DOMAIN Exposed(cs)
           G == DOMAIN Exposed(ds)
           P == Pairs(cs)
           Q == Pairs(ds)
           back == [k \in D |-> CHOOSE p \in P : here[p] = k]
           g == [k \in D |-> there[h[back[k]]]]
<1>5. /\ here \in [P -> D] /\ (\A p, q \in P : here[p] = here[q] => p = q)
      /\ (\A k \in D : \E p \in P : here[p] = k)
      /\ \A p \in P : Exposed(cs)[here[p]] = ExposedAs(cs, p)
  BY <1>3 DEF IsLaidOut
<1>6. /\ there \in [Q -> G] /\ (\A p, q \in Q : there[p] = there[q] => p = q)
      /\ (\A k \in G : \E p \in Q : there[p] = k)
      /\ \A p \in Q : Exposed(ds)[there[p]] = ExposedAs(ds, p)
  BY <1>4 DEF IsLaidOut
<1>7. AreNamed(Exposed(cs)) /\ AreNamed(Exposed(ds))
  BY <1>1, ExposedNamed
<1> HIDE DEF D, G, P, Q
<1>8. \A k \in D : back[k] \in P /\ here[back[k]] = k
  BY <1>5
<1>9. h \in [P -> Q]
  BY <1>1 DEF P, Q
<1> HIDE DEF back
<1>10. g \in [D -> G]
  BY <1>6, <1>8, <1>9
<1>11. ASSUME NEW i \in D, NEW j \in D, g[i] = g[j] PROVE i = j
  <2>1. back[i] \in P /\ back[j] \in P /\ there[h[back[i]]] = there[h[back[j]]]
    BY <1>8, <1>11
  <2>2. h[back[i]] = h[back[j]]
    BY <1>6, <1>9, <2>1
  <2>3. back[i] = back[j]
    BY <1>1, <2>1, <2>2 DEF P
  <2> QED
    BY <1>8, <2>3
<1>12. ASSUME NEW k \in G PROVE \E i \in D : g[i] = k
  <2>1. PICK q \in Q : there[q] = k
    BY <1>6
  <2>2. PICK p \in P : h[p] = q
    BY <1>1 DEF P, Q
  <2>3. here[p] \in D /\ back[here[p]] = p
    BY <1>5, <1>8
  <2> QED
    BY <2>1, <2>2, <2>3
<1>13. ASSUME NEW i \in D PROVE Exposed(ds)[g[i]] = Exposed(cs)[i]
  <2>1. back[i] \in P /\ here[back[i]] = i /\ h[back[i]] \in Q
    BY <1>8, <1>9
  <2>2. Exposed(ds)[g[i]] = ExposedAs(ds, h[back[i]])
    BY <1>6, <2>1
  <2>3. Exposed(cs)[i] = ExposedAs(cs, back[i])
    BY <1>5, <2>1
  <2>4. ExposedAs(ds, h[back[i]]) = ExposedAs(cs, back[i])
    BY <1>2, <2>1 DEF P
  <2> QED
    BY <2>2, <2>3, <2>4
<1> HIDE DEF g
<1>14. g \in Bijection(D, G)
  BY <1>10, <1>11, <1>12 DEF Bijection, Injection, IsInjective, Surjection
<1>15. IsShuffle(Exposed(cs), Exposed(ds), g)
  BY <1>7, <1>13, <1>14 DEF IsShuffle, D, G
<1> QED
  BY <1>15

LEMMA UnnamedPairs ==
  ASSUME NEW cs, AreCatalogs(cs)
  PROVE  Unnamed(cs) <=> \E p \in Pairs(cs) : cs[p[1]].items[p[2]].name = <<>>
<1>1. ASSUME NEW c \in DOMAIN cs, NEW i \in DOMAIN cs[c].items
      PROVE  <<c, i>> \in Pairs(cs)
  <2>1. cs[c].items \in Seq(ToSet(cs[c].items))
    BY DEF AreCatalogs, IsCatalog
  <2>2. i \in Nat
    BY <2>1
  <2> QED
    BY <2>2 DEF Pairs
<1>2. ASSUME Unnamed(cs) PROVE \E p \in Pairs(cs) : cs[p[1]].items[p[2]].name = <<>>
  <2>1. PICK c \in DOMAIN cs : \E i \in DOMAIN cs[c].items : cs[c].items[i].name = <<>>
    BY <1>2 DEF Unnamed
  <2>2. PICK i \in DOMAIN cs[c].items : cs[c].items[i].name = <<>>
    BY <2>1
  <2> DEFINE p == <<c, i>>
  <2>3. p \in Pairs(cs) /\ p[1] = c /\ p[2] = i
    BY <1>1
  <2> HIDE DEF p
  <2> QED
    BY <2>2, <2>3
<1>3. ASSUME NEW p \in Pairs(cs), cs[p[1]].items[p[2]].name = <<>> PROVE Unnamed(cs)
  <2>1. p[1] \in DOMAIN cs /\ p[2] \in DOMAIN cs[p[1]].items
    BY DEF Pairs
  <2> QED
    BY <1>3, <2>1 DEF Unnamed
<1> QED
  BY <1>2, <1>3

LEMMA MergeOutcome ==
  ASSUME NEW cs
  PROVE  /\ Duplicates(cs) <=> ~Distinct(Exposed(cs))
         /\ Merge(cs) = IF Unnamed(cs) \/ ~Distinct(Exposed(cs)) THEN Refused
                        ELSE Listing(Sorted(Exposed(cs)))
<1>1. Duplicates(cs) <=> ~Distinct(Exposed(cs))
  BY DEF Duplicates, Distinct
<1> QED
  BY <1>1 DEF Merge

\* What is merged does not depend on where it comes from.
LEMMA RearrangedMerge ==
  ASSUME NEW cs, NEW ds, NEW h, IsRearranged(cs, ds, h)
  PROVE  Merge(cs) = Merge(ds)
<1>1. PICK g : IsShuffle(Exposed(cs), Exposed(ds), g)
  BY RearrangedIsShuffle
<1>2. Distinct(Exposed(cs)) <=> Distinct(Exposed(ds))
  BY <1>1, ShuffleDistinct
<1>3. Distinct(Exposed(cs)) => Sorted(Exposed(cs)) = Sorted(Exposed(ds))
  BY <1>1, ShuffleSorted
<1>4. Unnamed(cs) <=> Unnamed(ds)
  <2>1. AreCatalogs(cs) /\ AreCatalogs(ds)
    BY DEF IsRearranged
  <2>2. /\ h \in [Pairs(cs) -> Pairs(ds)]
        /\ \A q \in Pairs(ds) : \E p \in Pairs(cs) : h[p] = q
        /\ \A p \in Pairs(cs) : ds[h[p][1]].items[h[p][2]] = cs[p[1]].items[p[2]]
    BY DEF IsRearranged
  <2>3. (\E p \in Pairs(cs) : cs[p[1]].items[p[2]].name = <<>>)
          <=> \E q \in Pairs(ds) : ds[q[1]].items[q[2]].name = <<>>
    BY <2>2
  <2> QED
    BY <2>1, <2>3, UnnamedPairs
<1> QED
  BY <1>2, <1>3, <1>4, MergeOutcome

-----------------------------------------------------------------------------
(* The order of the upstreams and of their items.                          *)

LEMMA CatalogFacts ==
  ASSUME NEW cs, AreCatalogs(cs)
  PROVE  /\ Len(cs) \in Nat /\ DOMAIN cs = 1 .. Len(cs)
         /\ \A c \in DOMAIN cs :
              /\ IsCatalog(cs[c])
              /\ Len(cs[c].items) \in Nat /\ DOMAIN cs[c].items = 1 .. Len(cs[c].items)
         /\ \A p \in Pairs(cs) : /\ p = <<p[1], p[2]>>
                                 /\ p[1] \in DOMAIN cs /\ p[2] \in DOMAIN cs[p[1]].items
         /\ \A c \in DOMAIN cs : \A i \in DOMAIN cs[c].items : <<c, i>> \in Pairs(cs)
<1>1. Len(cs) \in Nat /\ DOMAIN cs = 1 .. Len(cs)
  BY DEF AreCatalogs
<1>2. ASSUME NEW c \in DOMAIN cs
      PROVE  /\ IsCatalog(cs[c])
             /\ Len(cs[c].items) \in Nat /\ DOMAIN cs[c].items = 1 .. Len(cs[c].items)
  <2>1. cs[c].items \in Seq(ToSet(cs[c].items))
    BY DEF AreCatalogs, IsCatalog
  <2> QED
    BY <2>1 DEF AreCatalogs
<1>3. \A p \in Pairs(cs) : /\ p = <<p[1], p[2]>>
                           /\ p[1] \in DOMAIN cs /\ p[2] \in DOMAIN cs[p[1]].items
  BY DEF Pairs
<1>4. \A c \in DOMAIN cs : \A i \in DOMAIN cs[c].items : <<c, i>> \in Pairs(cs)
  BY <1>2 DEF Pairs
<1> QED
  BY <1>1, <1>2, <1>3, <1>4

LEMMA ReverseFacts ==
  ASSUME NEW S, NEW s \in Seq(S)
  PROVE  /\ Reverse(s) \in Seq(ToSet(Reverse(s))) /\ DOMAIN Reverse(s) = DOMAIN s
         /\ \A i \in DOMAIN s : /\ (Len(s) - i) + 1 \in DOMAIN s
                                /\ (Len(s) - ((Len(s) - i) + 1)) + 1 = i
                                /\ Reverse(s)[i] = s[(Len(s) - i) + 1]
<1>1. Len(s) \in Nat /\ DOMAIN s = 1 .. Len(s)
  OBVIOUS
<1>2. \A i \in DOMAIN s : (Len(s) - i) + 1 \in DOMAIN s /\ (Len(s) - ((Len(s) - i) + 1)) + 1 = i
  BY <1>1
<1>3. DOMAIN Reverse(s) = DOMAIN s /\ \A i \in DOMAIN s : Reverse(s)[i] = s[(Len(s) - i) + 1]
  BY <1>1 DEF Reverse
<1>4. Reverse(s) \in [1 .. Len(s) -> ToSet(Reverse(s))]
  BY <1>1 DEF Reverse, ToSet
<1>5. Reverse(s) \in Seq(ToSet(Reverse(s)))
  BY <1>1, <1>4
<1> QED
  BY <1>2, <1>3, <1>5

\* The upstreams may come in the reverse order.
LEMMA ReverseUpstreams ==
  ASSUME NEW cs, AreCatalogs(cs)
  PROVE  Merge(Reverse(cs)) = Merge(cs)
<1> DEFINE n == Len(cs)
           ds == Reverse(cs)
           h == [p \in Pairs(cs) |-> <<(n - p[1]) + 1, p[2]>>]
<1>1. cs \in Seq(ToSet(cs))
  BY DEF AreCatalogs
<1>2. /\ ds \in Seq(ToSet(ds)) /\ DOMAIN ds = DOMAIN cs
      /\ \A c \in DOMAIN cs : /\ (n - c) + 1 \in DOMAIN cs
                              /\ (n - ((n - c) + 1)) + 1 = c
                              /\ ds[c] = cs[(n - c) + 1]
  BY <1>1, ReverseFacts
<1>3. AreCatalogs(ds)
  BY <1>2 DEF AreCatalogs
<1> HIDE DEF n, ds
<1>4. \A c \in DOMAIN cs : ds[(n - c) + 1] = cs[c]
  BY <1>2
<1>5. ASSUME NEW p \in Pairs(cs)
      PROVE  /\ h[p] \in Pairs(ds) /\ h[p][1] = (n - p[1]) + 1 /\ h[p][2] = p[2]
             /\ ds[h[p][1]] = cs[p[1]]
  <2>1. p[1] \in DOMAIN cs /\ p[2] \in DOMAIN cs[p[1]].items
    BY CatalogFacts
  <2>2. (n - p[1]) + 1 \in DOMAIN ds /\ ds[(n - p[1]) + 1] = cs[p[1]]
    BY <1>2, <1>4, <2>1
  <2>3. <<(n - p[1]) + 1, p[2]>> \in Pairs(ds)
    BY <1>3, <2>1, <2>2, CatalogFacts
  <2> QED
    BY <2>2, <2>3
<1>6. ASSUME NEW p \in Pairs(cs), NEW q \in Pairs(cs), h[p] = h[q] PROVE p = q
  <2>1. /\ p = <<p[1], p[2]>> /\ q = <<q[1], q[2]>>
        /\ p[1] \in DOMAIN cs /\ q[1] \in DOMAIN cs
    BY CatalogFacts
  <2>2. (n - p[1]) + 1 = (n - q[1]) + 1 /\ p[2] = q[2]
    BY <1>5, <1>6
  <2>3. p[1] = q[1]
    BY <1>2, <2>1, <2>2
  <2> QED
    BY <2>1, <2>2, <2>3
<1>7. ASSUME NEW q \in Pairs(ds) PROVE \E p \in Pairs(cs) : h[p] = q
  <2>1. /\ q = <<q[1], q[2]>>
        /\ q[1] \in DOMAIN cs /\ q[2] \in DOMAIN ds[q[1]].items
    BY <1>2, <1>3, CatalogFacts
  <2> DEFINE c == (n - q[1]) + 1
             p == <<c, q[2]>>
  <2>2. c \in DOMAIN cs /\ (n - c) + 1 = q[1] /\ ds[q[1]] = cs[c]
    BY <1>2, <2>1
  <2> HIDE DEF c
  <2>3. p \in Pairs(cs) /\ p[1] = c /\ p[2] = q[2]
    BY <2>1, <2>2, CatalogFacts
  <2>4. h[p] = <<(n - c) + 1, q[2]>>
    BY <2>3
  <2>5. h[p] = q
    BY <2>1, <2>2, <2>4
  <2> QED
    BY <2>3, <2>5
<1>8. h \in [Pairs(cs) -> Pairs(ds)]
  BY <1>5
<1> HIDE DEF h
<1>9. IsRearranged(cs, ds, h)
  BY <1>3, <1>5, <1>6, <1>7, <1>8 DEF IsRearranged
<1> QED
  BY <1>9, RearrangedMerge DEF ds

\* Each upstream may list its items in the reverse order.
LEMMA ReverseItems ==
  ASSUME NEW cs, AreCatalogs(cs)
  PROVE  Merge([c \in DOMAIN cs |-> [cs[c] EXCEPT !.items = Reverse(@)]]) = Merge(cs)
<1> DEFINE ds == [c \in DOMAIN cs |-> [cs[c] EXCEPT !.items = Reverse(@)]]
           h == [p \in Pairs(cs) |-> <<p[1], (Len(cs[p[1]].items) - p[2]) + 1>>]
<1>1. /\ Len(cs) \in Nat /\ DOMAIN cs = 1 .. Len(cs) /\ DOMAIN ds = DOMAIN cs
  BY CatalogFacts
<1>2. ASSUME NEW c \in DOMAIN cs
      PROVE  ds[c] = [id |-> cs[c].id, items |-> Reverse(cs[c].items)]
  <2>1. cs[c] = [id |-> cs[c].id, items |-> cs[c].items]
    BY CatalogFacts DEF IsCatalog
  <2> QED
    BY <2>1
<1>3. ASSUME NEW c \in DOMAIN cs
      PROVE  /\ ds[c].items \in Seq(ToSet(ds[c].items)) /\ DOMAIN ds[c].items = DOMAIN cs[c].items
             /\ \A i \in DOMAIN cs[c].items :
                  /\ (Len(cs[c].items) - i) + 1 \in DOMAIN cs[c].items
                  /\ (Len(cs[c].items) - ((Len(cs[c].items) - i) + 1)) + 1 = i
                  /\ ds[c].items[i] = cs[c].items[(Len(cs[c].items) - i) + 1]
  <2>1. cs[c].items \in Seq(ToSet(cs[c].items))
    BY CatalogFacts DEF IsCatalog
  <2>2. ds[c].items = Reverse(cs[c].items)
    BY <1>2
  <2> HIDE DEF ds
  <2> QED
    BY <2>1, <2>2, ReverseFacts
<1>4. AreCatalogs(ds)
  <2>1. ds \in Seq(ToSet(ds))
    <3>1. ds \in [1 .. Len(cs) -> ToSet(ds)]
      BY <1>1 DEF ToSet
    <3> HIDE DEF ds
    <3> QED
      BY <1>1, <3>1
  <2>2. ASSUME NEW c \in DOMAIN cs PROVE IsCatalog(ds[c])
    <3>1. ds[c] = [id |-> ds[c].id, items |-> ds[c].items] /\ ds[c].id = cs[c].id
      <4> DEFINE d == ds[c]
      <4>1. d = [id |-> cs[c].id, items |-> Reverse(cs[c].items)]
        BY <1>2
      <4> HIDE DEF d
      <4>2. d = [id |-> d.id, items |-> d.items] /\ d.id = cs[c].id
        BY <4>1
      <4> QED
        BY <4>2 DEF d
    <3> HIDE DEF ds
    <3>2. cs[c].id \in Ids /\ \A i \in DOMAIN cs[c].items : IsItem(cs[c].items[i])
      BY CatalogFacts DEF IsCatalog
    <3>3. \A i \in DOMAIN ds[c].items : IsItem(ds[c].items[i])
      BY <1>3, <3>2
    <3> QED
      BY <1>3, <3>1, <3>2, <3>3 DEF IsCatalog
  <2> HIDE DEF ds
  <2> QED
    BY <1>1, <2>1, <2>2 DEF AreCatalogs
<1>5. \A c \in DOMAIN cs : ds[c].id = cs[c].id
  BY <1>2
<1> HIDE DEF ds
<1>6. ASSUME NEW p \in Pairs(cs)
      PROVE  /\ h[p] \in Pairs(ds) /\ h[p][1] = p[1]
             /\ h[p][2] = (Len(cs[p[1]].items) - p[2]) + 1
             /\ ds[p[1]].items[h[p][2]] = cs[p[1]].items[p[2]]
  <2>1. p[1] \in DOMAIN cs /\ p[2] \in DOMAIN cs[p[1]].items
    BY CatalogFacts
  <2> DEFINE i == (Len(cs[p[1]].items) - p[2]) + 1
  <2>2. i \in DOMAIN ds[p[1]].items /\ ds[p[1]].items[i] = cs[p[1]].items[p[2]]
    BY <1>3, <2>1
  <2> HIDE DEF i
  <2>3. <<p[1], i>> \in Pairs(ds)
    BY <1>1, <1>4, <2>1, <2>2, CatalogFacts
  <2>4. h[p] = <<p[1], i>>
    BY DEF i
  <2> HIDE DEF h
  <2> QED
    BY <2>2, <2>3, <2>4 DEF i
<1>7. ASSUME NEW p \in Pairs(cs), NEW q \in Pairs(cs), h[p] = h[q] PROVE p = q
  <2>1. /\ p = <<p[1], p[2]>> /\ q = <<q[1], q[2]>>
        /\ p[1] \in DOMAIN cs /\ p[2] \in DOMAIN cs[p[1]].items
        /\ q[1] \in DOMAIN cs /\ q[2] \in DOMAIN cs[q[1]].items
    BY CatalogFacts
  <2> HIDE DEF h
  <2>2. p[1] = q[1]
    BY <1>6, <1>7
  <2> DEFINE n == Len(cs[p[1]].items)
  <2>3. (n - p[2]) + 1 = (n - q[2]) + 1
    BY <1>6, <1>7, <2>2
  <2>4. (n - ((n - p[2]) + 1)) + 1 = p[2] /\ (n - ((n - q[2]) + 1)) + 1 = q[2]
    BY <1>3, <2>1, <2>2
  <2>5. p[2] = q[2]
    BY <2>3, <2>4
  <2> QED
    BY <2>1, <2>2, <2>5
<1>8. ASSUME NEW q \in Pairs(ds) PROVE \E p \in Pairs(cs) : h[p] = q
  <2>1. /\ q = <<q[1], q[2]>>
        /\ q[1] \in DOMAIN cs /\ q[2] \in DOMAIN cs[q[1]].items
    BY <1>1, <1>3, <1>4, CatalogFacts
  <2> DEFINE i == (Len(cs[q[1]].items) - q[2]) + 1
             p == <<q[1], i>>
  <2>2. i \in DOMAIN cs[q[1]].items /\ (Len(cs[q[1]].items) - i) + 1 = q[2]
    BY <1>3, <2>1
  <2> HIDE DEF i
  <2>3. p \in Pairs(cs) /\ p[1] = q[1] /\ p[2] = i
    BY <2>1, <2>2, CatalogFacts
  <2>4. h[p] = <<q[1], (Len(cs[q[1]].items) - i) + 1>>
    BY <2>3
  <2>5. h[p] = q
    BY <2>1, <2>2, <2>4
  <2> QED
    BY <2>3, <2>5
<1>9. h \in [Pairs(cs) -> Pairs(ds)]
  BY <1>6
<1> HIDE DEF h
<1>10. ASSUME NEW p \in Pairs(cs)
       PROVE  /\ ds[h[p][1]].id = cs[p[1]].id
              /\ ds[h[p][1]].items[h[p][2]] = cs[p[1]].items[p[2]]
  <2>1. p[1] \in DOMAIN cs
    BY CatalogFacts
  <2> QED
    BY <1>5, <1>6, <2>1
<1>11. IsRearranged(cs, ds, h)
  BY <1>4, <1>7, <1>8, <1>9, <1>10 DEF IsRearranged
<1>12. Merge(cs) = Merge(ds)
  BY <1>11, RearrangedMerge
<1> QED
  BY <1>12 DEF ds

-----------------------------------------------------------------------------
(* What a merge lists.                                                     *)

\* An item as a gateway exposes it.
IsExposed(item) ==
  /\ IsItem(item)
  /\ Head(item.name) \in Ids /\ Len(item.name) > 1
  /\ item.name = ExposedName(item.meta.gateway.entries.upstreamId,
                             item.meta.gateway.entries.upstreamName)

IsListing(l) ==
  /\ l.ok \in BOOLEAN
  /\ l.items \in Seq(ToSet(l.items))
  /\ \A item \in ToSet(l.items) : IsExposed(item)
  /\ \A i \in 1 .. Len(l.items) - 1 : Less(l.items[i].name, l.items[i + 1].name)

\* An item of an upstream's, exposed, is as it must be.
LEMMA ExposedIsExposed ==
  ASSUME NEW id \in Ids, NEW item, IsItem(item), item.name # <<>>
  PROVE  IsExposed(Expose(id, item))
<1> DEFINE new == Expose(id, item)
           name == item.name
           prefix == <<id>>
<1>1. /\ new.name = prefix \o name
      /\ new.meta = Attach(item.meta, Route(id, name))
  BY DEF Expose, ExposedName
<1>2. /\ id \in Nat /\ name \in Seq(Nat) /\ name # <<>> /\ IsMeta(item.meta)
  BY MergeAssumption DEF IsItem
<1>3. prefix \in Seq(Nat) /\ Len(prefix) = 1 /\ prefix[1] = id
  BY <1>2
<1>4. new.name \in Seq(Nat) /\ Len(new.name) > 1 /\ new.name[1] = id
  <2> HIDE DEF prefix, name, new
  <2>1. /\ prefix \o name \in Seq(Nat)
        /\ Len(prefix \o name) = Len(prefix) + Len(name)
        /\ \A i \in 1 .. Len(prefix) + Len(name) :
             (prefix \o name)[i] = IF i <= Len(prefix) THEN prefix[i] ELSE name[i - Len(prefix)]
    BY <1>2, <1>3, ConcatProperties
  <2>2. Len(name) \in Nat /\ Len(name) # 0
    BY <1>2
  <2> QED
    BY <1>1, <1>3, <2>1, <2>2
<1>5. Head(new.name) = id
  <2> HIDE DEF new
  <2> QED
    BY <1>4
<1>6. IsMeta(new.meta)
  BY <1>1, <1>2, AttachType
<1>7. /\ new.meta.gateway.entries["upstreamId"] = id
      /\ new.meta.gateway.entries["upstreamName"] = name
  <2> DEFINE route == Route(id, name)
  <2>1. \A k \in DOMAIN route : new.meta.gateway.entries[k] = route[k]
    <3> HIDE DEF new, route
    <3> QED
      BY <1>1, <1>2, AttachType DEF route
  <2>2. /\ DOMAIN route = {"upstreamId", "upstreamName"}
        /\ route["upstreamId"] = id /\ route["upstreamName"] = name
    BY RouteEntries
  <2> HIDE DEF new, route
  <2> QED
    BY <2>1, <2>2
<1>8. new.name = ExposedName(new.meta.gateway.entries.upstreamId,
                             new.meta.gateway.entries.upstreamName)
  <2>1. new.name = ExposedName(id, name)
    BY DEF Expose
  <2> HIDE DEF new, name
  <2> QED
    BY <1>7, <2>1
<1> HIDE DEF new
<1>9. IsExposed(new)
  BY <1>4, <1>5, <1>6, <1>8 DEF IsExposed, IsItem
<1> QED
  BY <1>9 DEF new

LEMMA EmptyListing ==
  ASSUME NEW l, l.ok \in BOOLEAN, l.items = <<>>
  PROVE  IsListing(l) /\ ToSet(l.items) = {}
<1>1. ToSet(<<>>) = {} /\ <<>> \in Seq({}) /\ Len(<<>>) = 0
  BY DEF ToSet
<1>2. \A i : i \notin 1 .. Len(<<>>) - 1
  BY <1>1
<1> QED
  BY <1>1, <1>2 DEF IsListing

\* A merge lists items of its upstreams only, strictly sorted.
LEMMA MergedListing ==
  ASSUME NEW cs, AreCatalogs(cs)
  PROVE  /\ IsListing(Merge(cs))
         /\ \A item \in ToSet(Merge(cs).items) : \E p \in Pairs(cs) : item = ExposedAs(cs, p)
<1>1. CASE Unnamed(cs) \/ ~Distinct(Exposed(cs))
  <2>1. Merge(cs) = Refused
    BY <1>1, MergeOutcome
  <2>2. Refused.ok \in BOOLEAN /\ Refused.items = <<>>
    BY DEF Refused
  <2> QED
    BY <2>1, <2>2, EmptyListing
<1>2. CASE ~Unnamed(cs) /\ Distinct(Exposed(cs))
  <2> DEFINE s == Exposed(cs)
             t == Sorted(s)
  <2>1. Merge(cs).ok = TRUE /\ Merge(cs).items = t
    BY <1>2, MergeOutcome DEF Listing
  <2>2. /\ AreNamed(s)
        /\ \A k \in DOMAIN s : \E p \in Pairs(cs) : s[k] = ExposedAs(cs, p)
    BY ExposedNamed
  <2>3. /\ t \in Seq(ToSet(s)) /\ Len(t) = Len(s)
        /\ \A n \in 1 .. Len(s) - 1 : Less(t[n].name, t[n + 1].name)
    <3> HIDE DEF s
    <3> QED
      BY <1>2, <2>2, SortedStrictly DEF s
  <2> HIDE DEF s, t
  <2>4. \A item \in ToSet(t) : \E p \in Pairs(cs) : item = ExposedAs(cs, p)
    <3>1. ToSet(t) \subseteq ToSet(s)
      BY <2>3 DEF ToSet
    <3>2. \A item \in ToSet(s) : \E p \in Pairs(cs) : item = ExposedAs(cs, p)
      BY <2>2 DEF ToSet
    <3> QED
      BY <3>1, <3>2
  <2>5. ASSUME NEW item \in ToSet(t) PROVE IsExposed(item)
    <3>1. PICK p \in Pairs(cs) : item = ExposedAs(cs, p)
      BY <2>4
    <3>2. cs[p[1]].id \in Ids /\ IsItem(cs[p[1]].items[p[2]])
      BY CatalogFacts DEF IsCatalog
    <3>3. cs[p[1]].items[p[2]].name # <<>>
      BY <1>2, UnnamedPairs
    <3> QED
      BY <3>1, <3>2, <3>3, ExposedIsExposed DEF ExposedAs
  <2>6. t \in Seq(ToSet(t))
    <3>1. t \in [1 .. Len(t) -> ToSet(t)] /\ Len(t) \in Nat
      BY <2>3 DEF ToSet
    <3> QED
      BY <3>1
  <2> QED
    BY <2>1, <2>3, <2>4, <2>5, <2>6 DEF IsListing
<1> QED
  BY <1>1, <1>2

-----------------------------------------------------------------------------
(* The chain of gateways.                                                  *)

\* What an item that one upstream alone published has kept.
KeptOf(cs, item) ==
  Len(cs) = 1 =>
    \A j \in DOMAIN cs[1].items :
      cs[1].items[j].meta.original = Absent =>
        Kept(item.meta, cs[1].items[j].meta.gateway)

\* The inductive invariant.
MergeInv ==
  /\ gateways \in 0 .. MaxGateways
  /\ AreCatalogs(catalogs)
  /\ AreCatalogs(first) /\ first # <<>>
  /\ Len(first) = 1 => \A i, j \in DOMAIN first[1].items : i = j
  /\ IsListing(listing)
  /\ \A c \in DOMAIN catalogs : \A i \in DOMAIN catalogs[c].items : KeptOf(first, catalogs[c].items[i])
  /\ \A item \in ToSet(listing.items) : KeptOf(first, item)

\* At the start what was published is where it was published.
LEMMA FirstKeeps ==
  ASSUME AreCatalogs(first), first # <<>>,
         Len(first) = 1 => \A i, j \in DOMAIN first[1].items : i = j
  PROVE  /\ 1 \in DOMAIN first
         /\ \A c \in DOMAIN first : \A i \in DOMAIN first[c].items : KeptOf(first, first[c].items[i])
<1>1. /\ Len(first) \in Nat /\ DOMAIN first = 1 .. Len(first)
      /\ \A c \in DOMAIN first : IsCatalog(first[c])
  BY CatalogFacts
<1>2. 1 \in DOMAIN first
  <2>1. first \in Seq(ToSet(first))
    BY DEF AreCatalogs
  <2>2. Len(first) # 0
    BY <2>1
  <2> QED
    BY <1>1, <2>2
<1>3. ASSUME NEW c \in DOMAIN first, NEW i \in DOMAIN first[c].items, Len(first) = 1,
             NEW j \in DOMAIN first[1].items, first[1].items[j].meta.original = Absent
      PROVE  Kept(first[c].items[i].meta, first[1].items[j].meta.gateway)
  <2>1. c = 1 /\ i = j
    BY <1>1, <1>3
  <2> DEFINE meta == first[1].items[j].meta
  <2>2. meta.original = Absent /\ IsEntry(meta.gateway)
    BY <1>1, <1>2, <1>3 DEF IsCatalog, IsItem, IsMeta
  <2> HIDE DEF meta
  <2>3. Kept(meta, meta.gateway)
    BY <2>2, EntryKinds DEF Kept, Holds
  <2> QED
    BY <2>1, <2>3 DEF meta
<1> QED
  BY <1>2, <1>3 DEF KeptOf

LEMMA OneCatalog ==
  ASSUME NEW a
  PROVE  /\ <<a>> \in Seq(ToSet(<<a>>)) /\ DOMAIN <<a>> = 1 .. 1 /\ Len(<<a>>) = 1
         /\ <<a>>[1] = a /\ <<a>> # <<>>
<1>1. <<a>> \in Seq({a})
  OBVIOUS
<1>2. ToSet(<<a>>) = {a}
  BY DEF ToSet
<1> QED
  BY <1>1, <1>2

LEMMA TwoCatalogs ==
  ASSUME NEW a, NEW b
  PROVE  /\ <<a, b>> \in Seq(ToSet(<<a, b>>)) /\ DOMAIN <<a, b>> = 1 .. 2 /\ Len(<<a, b>>) = 2
         /\ <<a, b>>[1] = a /\ <<a, b>>[2] = b /\ <<a, b>> # <<>>
<1>1. <<a, b>> \in Seq({a, b})
  OBVIOUS
<1>2. ToSet(<<a, b>>) = {a, b}
  BY DEF ToSet
<1> QED
  BY <1>1, <1>2

LEMMA MergeInitInv == MergeInit => MergeInv
<1> SUFFICES ASSUME MergeInit PROVE MergeInv
  OBVIOUS
<1>1. \A name \in Names : name \in Seq(Nat)
  BY MergeAssumption
<1>2. IsMeta(Plain) /\ \A meta \in Metas : IsMeta(meta)
  BY MergeAssumption DEF IsMeta, IsEntry, Plain
<1>3. ASSUME NEW names, \A name \in names : name \in Seq(Nat),
             NEW metas, \A meta \in metas : IsMeta(meta),
             NEW n \in Nat, NEW c \in Catalogs(Items(names, metas), n)
      PROVE  IsCatalog(c) /\ Len(c.items) <= n
  <2>1. /\ c = [id |-> c.id, items |-> c.items] /\ c.id \in Ids
        /\ c.items \in SeqOf(Items(names, metas), n)
    BY DEF Catalogs
  <2>2. PICK m \in 0 .. n : c.items \in [1 .. m -> Items(names, metas)]
    BY <2>1 DEF SeqOf
  <2>3. Len(c.items) = m /\ DOMAIN c.items = 1 .. m
    BY <2>2
  <2>4. c.items \in Seq(ToSet(c.items))
    <3>1. c.items \in [1 .. m -> ToSet(c.items)]
      BY <2>2 DEF ToSet
    <3> QED
      BY <3>1
  <2>5. ASSUME NEW i \in DOMAIN c.items PROVE IsItem(c.items[i])
    <3>1. c.items[i] \in Items(names, metas)
      BY <2>2, <2>3
    <3>2. c.items[i].name \in names /\ c.items[i].meta \in metas
      BY <3>1 DEF Items
    <3> QED
      BY <1>3, <3>2 DEF IsItem
  <2> QED
    BY <2>1, <2>3, <2>4, <2>5 DEF IsCatalog
<1>4. AreCatalogs(catalogs) /\ catalogs # <<>>
      /\ (Len(catalogs) = 1 => \A i, j \in DOMAIN catalogs[1].items : i = j)
  <2>1. CASE catalogs \in Catalogs(Items(Names, {Plain}), MaxItems)
                            \X Catalogs(Items(Names, {Plain}), MaxItems)
    <3> DEFINE C == Catalogs(Items(Names, {Plain}), MaxItems)
    <3>1. \A c \in C : IsCatalog(c)
      BY <1>1, <1>2, <1>3, MergeAssumption
    <3> HIDE DEF C
    <3>2. PICK a \in C, b \in C : catalogs = <<a, b>>
      BY <2>1 DEF C
    <3>3. /\ DOMAIN catalogs = 1 .. 2 /\ Len(catalogs) = 2 /\ catalogs # <<>>
          /\ catalogs[1] = a /\ catalogs[2] = b
      BY <3>2, TwoCatalogs
    <3>4. catalogs \in Seq(ToSet(catalogs))
      BY <3>2, TwoCatalogs
    <3>5. \A c \in DOMAIN catalogs : IsCatalog(catalogs[c])
      BY <3>1, <3>3
    <3> QED
      BY <3>3, <3>4, <3>5 DEF AreCatalogs
  <2>2. CASE \E name \in Names \ {<<>>} :
               catalogs \in {<<c>> : c \in Catalogs(Items({name}, Metas), 1)}
    <3>1. PICK name \in Names : \E c \in Catalogs(Items({name}, Metas), 1) : catalogs = <<c>>
      BY <2>2
    <3>2. PICK c \in Catalogs(Items({name}, Metas), 1) : catalogs = <<c>>
      BY <3>1
    <3>3. IsCatalog(c) /\ Len(c.items) <= 1
      BY <1>1, <1>2, <1>3
    <3>4. DOMAIN catalogs = 1 .. 1 /\ Len(catalogs) = 1 /\ catalogs[1] = c /\ catalogs # <<>>
      BY <3>2, OneCatalog
    <3>5. catalogs \in Seq(ToSet(catalogs))
      BY <3>2, OneCatalog
    <3>6. \A i, j \in DOMAIN c.items : i = j
      <4>1. c.items \in Seq(ToSet(c.items))
        BY <3>3 DEF IsCatalog
      <4> QED
        BY <3>3, <4>1
    <3> QED
      BY <3>3, <3>4, <3>5, <3>6 DEF AreCatalogs
  <2> QED
    BY <2>1, <2>2 DEF MergeInit
<1>5. first = catalogs /\ gateways = 0 /\ listing = Listing(<<>>)
  BY DEF MergeInit
<1>6. \A c \in DOMAIN catalogs : \A i \in DOMAIN catalogs[c].items : KeptOf(first, catalogs[c].items[i])
  BY <1>4, <1>5, FirstKeeps
<1>7. IsListing(listing) /\ ToSet(listing.items) = {}
  <2>1. listing.ok \in BOOLEAN /\ listing.items = <<>>
    BY <1>5 DEF Listing
  <2> QED
    BY <2>1, EmptyListing
<1> QED
  BY <1>4, <1>5, <1>6, <1>7, MergeAssumption DEF MergeInv

LEMMA MergeCatalogsInv ==
  ASSUME MergeInv, MergeCatalogs
  PROVE  MergeInv'
<1>1. /\ listing' = Merge(catalogs) /\ gateways' = gateways + 1 /\ gateways < MaxGateways
      /\ catalogs' = <<>> /\ first' = first
  BY DEF MergeCatalogs
<1>2. AreCatalogs(catalogs)
  BY DEF MergeInv
<1>3. IsListing(listing')
  BY <1>1, <1>2, MergedListing
<1>4. AreCatalogs(<<>>)
  BY DEF AreCatalogs
<1>5. ASSUME NEW item \in ToSet(listing'.items) PROVE KeptOf(first', item)
  <2>1. PICK p \in Pairs(catalogs) : item = ExposedAs(catalogs, p)
    BY <1>1, <1>2, MergedListing
  <2> DEFINE old == catalogs[p[1]].items[p[2]]
             entries == Route(catalogs[p[1]].id, old.name)
  <2>2. /\ p[1] \in DOMAIN catalogs /\ p[2] \in DOMAIN catalogs[p[1]].items
        /\ IsCatalog(catalogs[p[1]])
    BY <1>2, CatalogFacts
  <2>3. KeptOf(first, old) /\ IsMeta(old.meta)
    <3>1. IsMeta(old.meta)
      BY <2>2 DEF IsCatalog, IsItem
    <3>2. KeptOf(first, old)
      BY <2>2 DEF MergeInv
    <3> QED
      BY <3>1, <3>2
  <2>4. item.meta = Attach(old.meta, entries) /\ DOMAIN entries # {}
    BY <2>1, RouteEntries DEF ExposedAs, Expose
  <2> HIDE DEF old, entries
  <2>5. ASSUME Len(first) = 1, NEW j \in DOMAIN first[1].items,
               first[1].items[j].meta.original = Absent
        PROVE  Kept(item.meta, first[1].items[j].meta.gateway)
    <3>1. Kept(old.meta, first[1].items[j].meta.gateway)
      BY <2>3, <2>5 DEF KeptOf
    <3>2. IsEntry(first[1].items[j].meta.gateway)
      <4>1. AreCatalogs(first) /\ 1 \in DOMAIN first
        BY FirstKeeps DEF MergeInv
      <4>2. IsCatalog(first[1])
        BY <4>1, CatalogFacts
      <4> QED
        BY <2>5, <4>2 DEF IsCatalog, IsItem, IsMeta
    <3> QED
      BY <2>3, <2>4, <3>1, <3>2, AttachKeeps
  <2>6. KeptOf(first, item)
    BY <2>5 DEF KeptOf
  <2> QED
    BY <1>1, <2>6
<1>6. gateways' \in 0 .. MaxGateways
  BY <1>1, MergeAssumption DEF MergeInv
<1> QED
  BY <1>1, <1>3, <1>4, <1>5, <1>6 DEF MergeInv

LEMMA NextGatewayInv ==
  ASSUME MergeInv, NextGateway
  PROVE  MergeInv'
<1>1. first' = first /\ listing' = listing /\ gateways' = gateways
  BY DEF NextGateway
<1>2. PICK id \in Ids, other \in Ids :
        \/ catalogs' = <<[id |-> id, items |-> listing.items]>>
        \/ catalogs' = <<[id |-> id, items |-> listing.items], [first[1] EXCEPT !.id = other]>>
  BY DEF NextGateway
<1> DEFINE a == [id |-> id, items |-> listing.items]
           b == [first[1] EXCEPT !.id = other]
<1>3. 1 \in DOMAIN first /\ IsCatalog(first[1])
  BY FirstKeeps, CatalogFacts DEF MergeInv
<1>4. IsCatalog(a) /\ \A i \in DOMAIN a.items : KeptOf(first, a.items[i])
  <2>1. a.id = id /\ a.items = listing.items
    OBVIOUS
  <2>2. /\ listing.items \in Seq(ToSet(listing.items))
        /\ \A i \in DOMAIN listing.items : listing.items[i] \in ToSet(listing.items)
        /\ \A item \in ToSet(listing.items) : IsItem(item) /\ KeptOf(first, item)
    BY DEF MergeInv, IsListing, IsExposed, ToSet
  <2> QED
    BY <2>1, <2>2 DEF IsCatalog
<1>5. IsCatalog(b) /\ \A i \in DOMAIN b.items : KeptOf(first, b.items[i])
  <2>1. b = [id |-> other, items |-> first[1].items]
    BY <1>3 DEF IsCatalog
  <2>2. \A i \in DOMAIN first[1].items : KeptOf(first, first[1].items[i])
    BY <1>3, FirstKeeps DEF MergeInv
  <2> QED
    BY <1>3, <2>1, <2>2 DEF IsCatalog
<1>6. catalogs' = <<a>> \/ catalogs' = <<a, b>>
  BY <1>2
<1> HIDE DEF a, b
<1>7. /\ catalogs' \in Seq(ToSet(catalogs'))
      /\ \A c \in DOMAIN catalogs' : catalogs'[c] = a \/ catalogs'[c] = b
  <2>1. CASE catalogs' = <<a>>
    <3>1. DOMAIN catalogs' = 1 .. 1 /\ catalogs'[1] = a /\ catalogs' \in Seq(ToSet(catalogs'))
      BY <2>1, OneCatalog
    <3> QED
      BY <3>1
  <2>2. CASE catalogs' = <<a, b>>
    <3>1. /\ DOMAIN catalogs' = 1 .. 2 /\ catalogs'[1] = a /\ catalogs'[2] = b
          /\ catalogs' \in Seq(ToSet(catalogs'))
      BY <2>2, TwoCatalogs
    <3> QED
      BY <3>1
  <2> QED
    BY <1>6, <2>1, <2>2
<1>8. AreCatalogs(catalogs')
  BY <1>4, <1>5, <1>7 DEF AreCatalogs
<1>9. ASSUME NEW c \in DOMAIN catalogs', NEW i \in DOMAIN catalogs'[c].items
      PROVE  KeptOf(first', catalogs'[c].items[i])
  <2>1. KeptOf(first, catalogs'[c].items[i])
    BY <1>4, <1>5, <1>7
  <2> QED
    BY <1>1, <2>1
<1>10. ASSUME NEW item \in ToSet(listing'.items) PROVE KeptOf(first', item)
  <2>1. KeptOf(first, item)
    BY <1>1 DEF MergeInv
  <2> QED
    BY <1>1, <2>1
<1> QED
  BY <1>1, <1>8, <1>9, <1>10 DEF MergeInv

\* The invariant holds: a merge keeps it, and so does the next gateway.
LEMMA MergeInvariant == MergeSpec => []MergeInv
<1>1. MergeInv /\ [MergeNext]_mergeVars => MergeInv'
  <2> SUFFICES ASSUME MergeInv, [MergeNext]_mergeVars PROVE MergeInv'
    OBVIOUS
  <2>1. CASE UNCHANGED mergeVars
    BY <2>1 DEF mergeVars, MergeInv
  <2>2. CASE MergeCatalogs
    BY <2>2, MergeCatalogsInv
  <2>3. CASE NextGateway
    BY <2>3, NextGatewayInv
  <2> QED
    BY <2>1, <2>2, <2>3 DEF MergeNext
<1> QED
  BY <1>1, MergeInitInv, PTL DEF MergeSpec

\* Every merged catalog is refused or sorted strictly by name, and every item in
\* it is named by one of the upstreams' ids and a name that is not empty.
THEOREM MergeTypes == MergeSpec => []MergeTypeOK
<1>1. MergeInv => MergeTypeOK
  BY DEF MergeInv, IsListing, IsExposed, MergeTypeOK, Listed
<1> QED
  BY <1>1, MergeInvariant, PTL

\* Whether upstreams and items come in one order or in the reverse one, the merge
\* refuses the same catalogs and makes the same listing of the others.
THEOREM OrderDoesNotShow == MergeSpec => []OrderIsIrrelevant
<1>1. MergeInv => OrderIsIrrelevant
  BY ReverseUpstreams, ReverseItems DEF MergeInv, OrderIsIrrelevant
<1> QED
  BY <1>1, MergeInvariant, PTL

\* The metadata that attach_gateway_metadata leaves on an item names the upstream
\* and the upstream's name that the item's exposed name is made of, behind any
\* number of gateways.
THEOREM RouteNamed == MergeSpec => []MetadataNamesTheRoute
<1>1. MergeInv => MetadataNamesTheRoute
  <2> SUFFICES ASSUME MergeInv, NEW item \in ToSet(listing.items)
               PROVE  item.name = ExposedName(item.meta.gateway.entries.upstreamId,
                                              item.meta.gateway.entries.upstreamName)
    BY DEF MetadataNamesTheRoute, Listed
  <2>1. IsListing(listing)
    BY DEF MergeInv
  <2>2. \A i \in ToSet(listing.items) : IsExposed(i)
    BY <2>1, Zenon DEF IsListing
  <2> QED
    BY <2>2, Zenon DEF IsExposed
<1> QED
  BY <1>1, MergeInvariant, PTL

\* What an upstream published under "gateway" is in its item's metadata behind any
\* number of gateways, under "gateway" or with the original.
THEOREM OriginalKept == MergeSpec => []OriginalSurvives
<1>1. MergeInv => OriginalSurvives
  <2> DEFINE Survives(item, published) ==
               LET kept == {item.meta.gateway, item.meta.original} IN
               CASE published.meta.gateway.kind = "absent" -> TRUE
                 [] published.meta.gateway.kind = "scalar" -> Scalar \in kept
                 [] published.meta.gateway.kind = "object" ->
                      \A k \in Keys(published.meta.gateway) : \E object \in kept :
                        /\ object.kind = "object" /\ k \in Keys(object)
                        /\ object.entries[k] = published.meta.gateway.entries[k]
  <2>0. OriginalSurvives <=>
          \A item \in Listed : \A c \in DOMAIN first : \A i \in DOMAIN first[c].items :
            /\ Len(first) = 1
            /\ Len(item.name) = gateways + Len(first[c].items[i].name)
            /\ first[c].items[i].meta.original = Absent
            => Survives(item, first[c].items[i])
    BY DEF OriginalSurvives
  <2> SUFFICES ASSUME MergeInv, NEW item \in Listed,
                      NEW c \in DOMAIN first, NEW i \in DOMAIN first[c].items,
                      Len(first) = 1, first[c].items[i].meta.original = Absent
               PROVE  Survives(item, first[c].items[i])
    <3> HIDE DEF Survives
    <3> QED
      BY <2>0
  <2> DEFINE g == first[c].items[i].meta.gateway
             e == item.meta.gateway
             o == item.meta.original
  <2>1. c = 1 /\ IsCatalog(first[c])
    BY CatalogFacts DEF MergeInv
  <2>2. IsEntry(g)
    BY <2>1 DEF IsCatalog, IsItem, IsMeta
  <2>3. Kept(item.meta, g)
    BY <2>1 DEF MergeInv, KeptOf, Listed
  <2>4. g.kind \in {"absent", "scalar", "object"}
    BY <2>2, EntryKinds
  <2>5. g.kind = "scalar" => Scalar \in {e, o}
    BY <2>3 DEF Kept, Holds
  <2>6. ASSUME g.kind = "object", NEW k \in Keys(g)
        PROVE  \E object \in {e, o} : /\ object.kind = "object" /\ k \in Keys(object)
                                      /\ object.entries[k] = g.entries[k]
    <3>1. Holds(e, g) \/ Holds(o, g)
      BY <2>3, <2>6 DEF Kept
    <3> HIDE DEF g, e, o
    <3> QED
      BY <2>6, <3>1 DEF Holds
  <2> HIDE DEF g, e, o
  <2>7. CASE g.kind = "absent"
    BY <2>7 DEF g, e, o
  <2>8. CASE g.kind = "scalar"
    BY <2>5, <2>8 DEF g, e, o
  <2>9. CASE g.kind = "object"
    BY <2>6, <2>9 DEF g, e, o
  <2> QED
    BY <2>4, <2>7, <2>8, <2>9
<1> QED
  BY <1>1, MergeInvariant, PTL
=============================================================================
