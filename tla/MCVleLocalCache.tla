--------------------------- MODULE MCVleLocalCache ---------------------------
(* Values for the constants of VleLocalCache that a cfg cannot write.        *)
EXTENDS VleLocalCache, TLC

CONSTANT g1

MCScopes == {[graph |-> g1, load |-> l] : l \in {"whole", "labels"}}
Symmetry == Permutations(Nodes) \cup Permutations(Scans) \cup Permutations(VleAddrs) \cup Permutations(GraphAddrs)
    \cup Permutations(Snaps)
=============================================================================
