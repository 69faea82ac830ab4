---------------------------- MODULE CatalogMerge ----------------------------
(***************************************************************************)
(* gateway/src/catalog.cpp: the four merges of the upstreams' catalogs,    *)
(* which differ in the names of things only.  A merge exposes every item   *)
(* under a name of the gateway's, attaches the gateway's metadata to it    *)
(* and sorts the items.  A gateway is an MCP server itself, so a behaviour *)
(* follows a catalog through a chain of gateways, each of which merges     *)
(* what the one behind it exposes.                                         *)
(***************************************************************************)
EXTENDS Integers, FiniteSets, SequencesExt

CONSTANTS
  Ids,          \* upstream ids, valid ones, as numbers in their order
  Names,        \* what upstreams name their items: sequences of numbers
  Metas,        \* the metadata upstreams attach to their items
  MaxItems,     \* bound: items of an upstream's catalog
  MaxGateways   \* bound: gateways in the chain

\* What is told apart of an item's _meta: its "gateway" entry, which is absent,
\* an object (the keys it has and their values) or something else, and its
\* "gatewayUpstreamOriginal" entry.
Absent == [kind |-> "absent"]
Scalar == [kind |-> "scalar"]
Object(entries) == [kind |-> "object", entries |-> entries]

IsEntry(e) == e = Absent \/ e = Scalar \/ e = Object(e.entries)

IsMeta(meta) == /\ meta = [gateway |-> meta.gateway, original |-> meta.original]
                /\ IsEntry(meta.gateway) /\ IsEntry(meta.original)

ASSUME MergeAssumption == /\ Ids \subseteq Nat
                          /\ \A name \in Names : name \in Seq(Nat)
                          /\ \A meta \in Metas : IsMeta(meta)
                          /\ MaxItems \in Nat /\ MaxGateways \in Nat

VARIABLES
  catalogs,     \* what the upstreams of the next gateway publish
  listing,      \* what the last gateway made of it: its items, or a refusal
  gateways,     \* gateways passed
  first         \* history: what the upstreams of the first gateway published

mergeVars == <<catalogs, listing, gateways, first>>

Listing(items) == [ok |-> TRUE, items |-> items]
Refused        == [ok |-> FALSE, items |-> <<>>]

-----------------------------------------------------------------------------
(* attach_gateway_metadata.                                                *)

Keys(object) == DOMAIN object.entries

\* The entries of over, and those of under that it does not have.
Overlay(over, under) ==
  [k \in DOMAIN over \cup DOMAIN under |-> IF k \in DOMAIN over THEN over[k] ELSE under[k]]

\* Mutants of Attach: the upstream's entries win; the original is replaced at
\* every gateway; an entry that is no object is dropped.
AttachUnder(meta, entries) ==
  IF meta.gateway.kind = "object"
  THEN [meta EXCEPT !.gateway = Object(Overlay(@.entries, entries))]
  ELSE [meta EXCEPT !.gateway = Object(entries)]

AttachReplacing(meta, entries) ==
  IF meta.gateway.kind = "absent" THEN [meta EXCEPT !.gateway = Object(entries)]
  ELSE [gateway  |-> IF meta.gateway.kind = "object"
                     THEN Object(Overlay(entries, meta.gateway.entries))
                     ELSE Object(entries),
        original |-> meta.gateway]

Attach(meta, entries) ==
  CASE meta.gateway.kind = "absent" -> [meta EXCEPT !.gateway = Object(entries)]
    [] meta.gateway.kind = "scalar" ->
         [gateway |-> Object(entries), original |-> meta.gateway]
    [] meta.gateway.kind = "object" ->
         [gateway  |-> Object(Overlay(entries, meta.gateway.entries)),
          original |-> IF /\ Keys(meta.gateway) \cap DOMAIN entries # {}
                          /\ meta.original = Absent
                       THEN meta.gateway ELSE meta.original]

-----------------------------------------------------------------------------
(* merge_*_catalogs.                                                       *)

\* The upstream's identifier, named upstreamToolName, upstreamResourceUri,
\* upstreamResourceTemplateUri or upstreamPromptName by the four merges.
Route(id, name) == [upstreamId |-> id, upstreamName |-> name]

ExposedName(id, name) == <<id>> \o name

Expose(id, item) == [name |-> ExposedName(id, item.name),
                     meta |-> Attach(item.meta, Route(id, item.name))]

Exposed(cs) ==
  FlattenSeq([c \in DOMAIN cs |->
    [i \in DOMAIN cs[c].items |-> Expose(cs[c].id, cs[c].items[i])]])

\* operator< of std::string.
Less(a, b) ==
  \E n \in 0 .. Len(a) :
    /\ n < Len(b)
    /\ \A i \in 1 .. n : a[i] = b[i]
    /\ n = Len(a) \/ a[n + 1] < b[n + 1]

Unnamed(cs) == \E c \in DOMAIN cs : \E i \in DOMAIN cs[c].items : cs[c].items[i].name = <<>>

\* Mutant of Duplicates: names are compared within each upstream only, which
\* suffices as long as no two catalogs have one id.
DuplicatesOfUpstream(cs) ==
  \E c \in DOMAIN cs : \E i, j \in DOMAIN cs[c].items :
    i # j /\ cs[c].items[i].name = cs[c].items[j].name

Duplicates(cs) ==
  LET items == Exposed(cs) IN
  \E i, j \in DOMAIN items : i # j /\ items[i].name = items[j].name

\* Mutant of Merge: the items are left in the upstreams' order.
MergeUnsorted(cs) ==
  IF Unnamed(cs) \/ Duplicates(cs) THEN Refused ELSE Listing(Exposed(cs))

\* The items that std::sort puts before the i-th.  Where names are equal the
\* order is the implementation's; a merge sorts items of different names.
Before(items, i) ==
  {j \in DOMAIN items : \/ Less(items[j].name, items[i].name)
                        \/ items[j].name = items[i].name /\ j < i}

Sorted(items) ==
  [n \in DOMAIN items |->
     items[CHOOSE i \in DOMAIN items : Cardinality(Before(items, i)) = n - 1]]

Merge(cs) ==
  IF Unnamed(cs) \/ Duplicates(cs) THEN Refused ELSE Listing(Sorted(Exposed(cs)))

-----------------------------------------------------------------------------
(* A catalog passes a chain of gateways.                                   *)

Plain == [gateway |-> Absent, original |-> Absent]

Items(names, metas) == [name: names, meta: metas]
Catalogs(items, n)  == [id: Ids, items: SeqOf(items, n)]

\* The names of two catalogs vary, or the metadata of one item.
MergeInit ==
  /\ \/ catalogs \in Catalogs(Items(Names, {Plain}), MaxItems)
                     \X Catalogs(Items(Names, {Plain}), MaxItems)
     \/ \E name \in Names \ {<<>>} :
          catalogs \in {<<c>> : c \in Catalogs(Items({name}, Metas), 1)}
  /\ listing = Listing(<<>>)
  /\ gateways = 0
  /\ first = catalogs

MergeCatalogs ==
  /\ gateways < MaxGateways
  /\ catalogs # <<>>
  /\ listing' = Merge(catalogs)
  /\ gateways' = gateways + 1
  /\ catalogs' = <<>>
  /\ UNCHANGED first

\* The gateway is an upstream of another one, which may have a second upstream
\* with the catalog of the first gateway's first.
NextGateway ==
  /\ catalogs = <<>>
  /\ listing.ok
  /\ gateways < MaxGateways
  /\ \E id, other \in Ids :
       catalogs' \in {<<[id |-> id, items |-> listing.items]>>,
                      <<[id |-> id, items |-> listing.items], [first[1] EXCEPT !.id = other]>>}
  /\ UNCHANGED <<listing, gateways, first>>

MergeNext == MergeCatalogs \/ NextGateway

MergeSpec == MergeInit /\ [][MergeNext]_mergeVars

-----------------------------------------------------------------------------
Listed == ToSet(listing.items)

\* A listing is refused, or strictly sorted by name: no name occurs twice, even
\* when two catalogs come under one id, and every item is named by its
\* upstream's id and a name that is not empty.
MergeTypeOK ==
  /\ gateways \in 0 .. MaxGateways
  /\ listing.ok \in BOOLEAN
  /\ \A item \in Listed : Head(item.name) \in Ids /\ Len(item.name) > 1
  /\ \A i \in 1 .. Len(listing.items) - 1 :
       Less(listing.items[i].name, listing.items[i + 1].name)

\* The order in which the upstreams are configured, and in which each lists its
\* items, does not matter, nor to whether the merge is refused.
OrderIsIrrelevant ==
  LET reversed == [c \in DOMAIN catalogs |->
                     [catalogs[c] EXCEPT !.items = Reverse(@)]] IN
  /\ Merge(Reverse(catalogs)) = Merge(catalogs)
  /\ Merge(reversed) = Merge(catalogs)

\* An item's metadata says where a call of it goes: to the upstream, and under
\* the upstream's name, that its exposed name resolves to, whatever metadata
\* came with it and however many gateways it has passed.
MetadataNamesTheRoute ==
  \A item \in Listed :
    LET entries == item.meta.gateway.entries IN
    item.name = ExposedName(entries.upstreamId, entries.upstreamName)

\* What the first upstream itself put under "gateway" is never lost, as long as
\* it did not use the name that keeps the original: it is in the item's
\* metadata, in one place or the other, behind any number of gateways
\* (tests/router_tests.cpp:405, 463).
OriginalSurvives ==
  \A item \in Listed : \A c \in DOMAIN first : \A i \in DOMAIN first[c].items :
    LET published == first[c].items[i]
        kept == {item.meta.gateway, item.meta.original} IN
    /\ Len(first) = 1
    /\ Len(item.name) = gateways + Len(published.name)
    /\ published.meta.original = Absent
    => CASE published.meta.gateway.kind = "absent" -> TRUE
         [] published.meta.gateway.kind = "scalar" -> Scalar \in kept
         [] published.meta.gateway.kind = "object" ->
              \A k \in Keys(published.meta.gateway) : \E object \in kept :
                /\ object.kind = "object" /\ k \in Keys(object)
                /\ object.entries[k] = published.meta.gateway.entries[k]
=============================================================================
