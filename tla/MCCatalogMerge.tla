--------------------------- MODULE MCCatalogMerge ---------------------------
(* Values for the TLC run of CatalogMerge.                                 *)
EXTENDS CatalogMerge

\* An empty name, two names one of which begins the other, and a third.
MCNames == {<<>>, <<1>>, <<1, 2>>, <<2>>}

\* Every object over the two keys the gateway writes and one it does not; the
\* value 9 is no id, and <<9>> no name, of anything else.
MCObjects ==
  {Object(entries) : entries \in UNION {
     {[k \in keys |-> IF k = "upstreamName" THEN <<9>> ELSE 9]} :
        keys \in SUBSET {"upstreamId", "upstreamName", "owner"}}}

MCMetas == [gateway: {Absent, Scalar} \cup MCObjects,
            original: {Absent, Scalar}]
=============================================================================
