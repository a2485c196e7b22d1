---------------------------- MODULE MCGlobalGraph ----------------------------
(* Instances of GlobalGraph for TLC. *)
EXTENDS GlobalGraph, TLC

CONSTANTS l1

\* Three kinds of load: the whole graph, the edges of one label, and nothing
\* (a traversal of one label that reads the adjacency index).
Whole == [label |-> NoLabel, parts |-> Parts]
EdgesOfLabel == [label |-> l1, parts |-> {"edges"}]
IndexOfLabel == [label |-> l1, parts |-> {}]
MCRequests == {Whole, IndexOfLabel}
MCLabelRequests == {Whole, EdgesOfLabel}
MCParts == {"edges", "vertices"}

Symmetry == Permutations(Backends) \cup Permutations(Graphs)
===============================================================================
