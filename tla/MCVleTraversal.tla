-------------------------- MODULE MCVleTraversal --------------------------
(* Instances of VleTraversal: every graph of three edges over two vertices,  *)
(* up to the order of the edges, and queries of every shape.                 *)
EXTENDS VleTraversal

MCVertices == 1 .. 2
MCEdges == 1 .. 3

\* Where an edge leads, as one number, to take each set of edges once; the first
\* edge starts at vertex 1, as the two vertices can be exchanged.
Code(g, e) == 2 * g.from[e] + g.to[e]
Graphs ==
    {g \in [from : [MCEdges -> MCVertices], to : [MCEdges -> MCVertices]] :
        g.from[1] = 1 /\ \A e \in 1 .. 2 : Code(g, e) <= Code(g, e + 1)}

\* The bounds of [*0..2], [*2..], [*1..1], [*0..0] and the empty [*2..1].
Bounds == {<<0, 2>>, <<2, Unbounded>>, <<1, 1>>, <<0, 0>>, <<2, 1>>}

\* No index; one of the two; both, with candidates buffered.
NoSource == <<FALSE, FALSE, 0>>
OutSource == <<TRUE, FALSE, 1>>
InSource == <<FALSE, TRUE, 0>>
BothSources == <<TRUE, TRUE, 2>>

Query(g, b, d, m, p, s, ends) ==
    [from |-> g.from, to |-> g.to, lower |-> b[1], upper |-> b[2], dir |-> d, matches |-> m,
     policy |-> p, out_source |-> s[1], in_source |-> s[2], buffer |-> s[3],
     start |-> ends[1], end |-> ends[2]]

Ends == BOOLEAN \X BOOLEAN
Policies == {"lifo", "level"}

\* All paths from a vertex, with every source of candidates; every shape and
\* bound, with the index that serves one direction; edges that do not match, and a
\* property map that asks for other edges in another scan.
MCQueries ==
    {Query(g, <<1, Unbounded>>, d, {MCEdges}, p, s, <<TRUE, FALSE>>) :
        g \in Graphs, d \in {"right", "none"}, p \in Policies,
        s \in {NoSource, OutSource, InSource, BothSources}}
    \cup
    {Query(g, b, d, {MCEdges}, "level", OutSource, e) :
        g \in Graphs, b \in Bounds, d \in {"none", "left"}, e \in Ends}
    \cup
    {Query(g, <<0, Unbounded>>, d, {MCEdges \ {2}, {2, 3}}, "lifo", BothSources, e) :
        g \in Graphs, d \in {"left", "none"}, e \in Ends}
=============================================================================
