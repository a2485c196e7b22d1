---------------------------- MODULE MCAdjacency ----------------------------
(***************************************************************************)
(* Small instances of Adjacency.  With two entries per label, vertices 2   *)
(* and 3 have label 1 and vertex 4 has label 2.                            *)
(***************************************************************************)
EXTENDS Adjacency, TLC

Edge(k, n) == [key |-> k, next |-> n]

\* An index that was built over all of its rows, a run of two blocks on two pages
\* in front of another key's; one that was built before its only row came, whose
\* posting is on a delta page; and an empty one a crash has left a page in.
MCInitialLoads ==
    {[rows |-> <<Edge(2, 2), Edge(3, 2), Edge(2, 4)>>, built |-> 3, torn |-> FALSE],
     [rows |-> <<Edge(2, 2), Edge(2, 2), Edge(2, 2)>>, built |-> 0, torn |-> FALSE],
     [rows |-> <<>>, built |-> 0, torn |-> TRUE]}
MCNewEdges == {Edge(2, 2), Edge(4, 2)}
MCSymmetry == Permutations(Scanners)
MCPageItems == [main |-> 1, dir |-> 1, delta |-> 3]
=============================================================================
