---------------------------- MODULE MCCatalogCache ----------------------------
(* The graph caches and the label caches, one or the other in a behaviour:   *)
(* they have the same state and differ in what an invalidation removes.      *)
EXTENDS CatalogCache, TLC

CONSTANTS
    LabelNames,  \* names of labels, some of Names
    LabelOps     \* bound: MaxOps for the label caches

VARIABLE kind    \* which of the two; fixed

\* FlushAll, Names and MaxOps are those of the graph caches.
Label == INSTANCE CatalogCache
         WITH FlushAll <- FALSE, Names <- LabelNames, MaxOps <- LabelOps

MCInit ==
    \/ kind = "graph" /\ Init
    \/ kind = "label" /\ Label!Init
MCNext ==
    /\ \/ kind = "graph" /\ Next
       \/ kind = "label" /\ Label!Next
    /\ UNCHANGED kind
MCSpec == MCInit /\ [][MCNext]_<<vars, kind>>

\* NotFoundIsTrue, which is promised of the graph caches: a graph that the array
\* says is not in the catalog is not there, once the messages were received.
GraphNotFoundIsTrue == kind = "graph" => NotFoundIsTrue

Symmetry == Permutations(Backends) \cup Permutations(Oids) \cup Permutations(Addrs)
===============================================================================
