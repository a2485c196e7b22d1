---------------------------- MODULE MCGraphVersion ----------------------------
(* Instances of GraphVersion for TLC. *)
EXTENDS GraphVersion

\* Backends and graphs are interchangeable in the safety run.
Symmetry == Permutations(Backends) \cup Permutations(Graphs)
===============================================================================
