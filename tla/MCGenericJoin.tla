-------------------------- MODULE MCGenericJoin --------------------------
(* The generic join over small graphs: a triangle, one with a tail (planned, *)
(* and with the descriptor the executor makes locally), a path, a square,    *)
(* and two parallel edges with a third.                                     *)
EXTENDS GenericJoin

Edge(f, t) == [from |-> f, to |-> t]
Pattern(n, edges, groups, local, indexed, payload) ==
    [vars |-> n, edges |-> edges, groups |-> groups, local |-> local,
     indexed |-> indexed, payload |-> payload]

TailEdges == <<Edge(1, 2), Edge(2, 3), Edge(3, 1), Edge(4, 3)>>

MCPatterns ==
    [triangle |-> Pattern(3, <<Edge(1, 2), Edge(2, 3), Edge(1, 3)>>,
                          <<{1}, {2}, {3}>>, FALSE, {1, 2, 3}, {}),
     tail |-> Pattern(4, TailEdges, <<{1}, {1}, {1}, {1}>>, FALSE, {}, {}),
     local |-> Pattern(4, TailEdges, <<{1}, {2}, {1, 2}, {2}>>, TRUE, {2}, {1}),
     path |-> Pattern(4, <<Edge(1, 2), Edge(3, 2), Edge(3, 4)>>,
                      <<{1}, {1}, {1}>>, FALSE, {1, 2, 3}, {1}),
     square |-> Pattern(4, <<Edge(1, 2), Edge(2, 3), Edge(3, 4), Edge(4, 1)>>,
                        <<{1}, {2}, {3}, {4}>>, FALSE, {}, {1}),
     parallel |-> Pattern(3, <<Edge(1, 2), Edge(1, 2), Edge(2, 3)>>,
                          <<{1}, {1}, {1}>>, FALSE, {}, {1})]

\* Graph edges: source, target, edge id.
Ring == {<<1, 2, 101>>, <<2, 3, 102>>, <<3, 1, 103>>}
Pools ==
    [triangle |-> Ring \cup {<<1, 3, 104>>, <<2, 2, 105>>},
     tail |-> Ring \cup {<<2, 1, 104>>, <<1, 1, 105>>},
     local |-> Ring \cup {<<2, 1, 104>>, <<1, 2, 201>>},
     path |-> {<<1, 2, 101>>, <<2, 2, 102>>, <<1, 2, 103>>, <<2, 3, 104>>, <<3, 2, 105>>},
     square |-> Ring \cup {<<2, 1, 104>>, <<1, 2, 105>>},
     parallel |-> {<<1, 2, 101>>, <<1, 2, 102>>, <<1, 2, 201>>, <<2, 1, 103>>, <<2, 3, 202>>}]

\* The last edge of the parallel pattern reads the second label, its first two
\* the first, or both; other patterns read every edge.
Reads(n, e) ==
    IF n = "parallel" THEN <<{1}, {1, 2}, {1, 2}>>[e] ELSE {1, 2}

Vertices == 1 .. 3
Hidden == {0, 3}   \* no vertex, or one the predicate on the last variable rejects

Found(n, graph, hidden) ==
    LET pat == MCPatterns[n]
        row(e, g) == IF pat.edges[e].from < pat.edges[e].to THEN g ELSE <<g[2], g[1], g[3]>>
    IN  [p \in 1 .. (pat.vars + Len(pat.edges)) |->
            IF p <= pat.vars
            THEN {<<x, 0, 0>> : x \in IF p = pat.vars THEN Vertices \ {hidden} ELSE Vertices}
            ELSE LET e == p - pat.vars
                 IN  {row(e, g) : g \in {h \in graph : h[3] \div 100 \in Reads(n, e)}}]

MCInputs ==
    [n \in DOMAIN MCPatterns |->
        {Found(n, g, h) : g \in SUBSET Pools[n], h \in Hidden}]

\* Groups and keys are the first variable's; an aggregate takes the first edge.
Query(n, kind) ==
    [pat |-> n, kind |-> kind,
     key |-> IF kind \in {"distinct", "count_distinct"} THEN 2 ELSE 1,
     sum |-> MCPatterns[n].vars + 1,
     goal |-> IF kind = "limit" THEN 2 ELSE 0]
MCQueries ==
    {Query("parallel", k) : k \in Kinds}
    \cup {Query("tail", k) : k \in {"limit", "count", "group_sum"}}
    \cup {Query("triangle", k) : k \in {"rows", "group_count", "group_distinct"}}
    \cup {Query("local", k) : k \in {"rows", "count"}}
    \cup {Query("path", k) : k \in {"rows", "distinct", "group_sum"}}
    \cup {Query("square", k) : k \in {"rows", "sum"}}
=============================================================================
