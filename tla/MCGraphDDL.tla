----------------------------- MODULE MCGraphDDL -----------------------------
(* An instance of GraphDDL.                                                  *)
EXTENDS GraphDDL, TLC

Symmetry == Permutations(Backends) \cup Permutations(LabelNames)
=============================================================================
