---------------------------- MODULE GenericPlan ----------------------------
(***************************************************************************)
(* What the optimizer plans for the generic multiway join                  *)
(* (optimizer/cypher_paths.c): from the pattern's hypergraph the shape, the *)
(* leaf-peel order of an acyclic pattern, the 2-core of a cyclic one with   *)
(* its separators, the split of a four-cycle into two bags, and the        *)
(* semijoin steps.                                                         *)
(*                                                                         *)
(* A pattern names its variables 1 .. vars, in the order in which the join  *)
(* binds them, and lists its edges by the variables they lead from and to.  *)
(* Provider v reads the vertices of variable v; provider vars + e reads the *)
(* rows of edge e.                                                         *)
(***************************************************************************)
EXTENDS Integers, FiniteSets, SequencesExt

\* A pattern comes with its variables numbered as generic_variable_order returns
\* them.  How that orders them, by estimated rows and degree, is not computed: every
\* numbering is a pattern of its own.
Variables(pat) == 1 .. pat.vars
Hyperedges(pat) == DOMAIN pat.edges

\* key1 of an edge's rows belongs to the variable that is bound first.
Var1(pat, e) == IF pat.edges[e].from < pat.edges[e].to
                THEN pat.edges[e].from ELSE pat.edges[e].to
Var2(pat, e) == IF pat.edges[e].from < pat.edges[e].to
                THEN pat.edges[e].to ELSE pat.edges[e].from
Joined(pat, e) == {pat.edges[e].from, pat.edges[e].to}

Least(S) == CHOOSE x \in S : \A y \in S : x <= y

\* How many of the edges in S end at variable v.
Degree(pat, S, v) == Cardinality({e \in S : v \in Joined(pat, e)})

\* The 2-core: what is left when edges that end at a variable no other edge
\* reaches are taken away for as long as there are any.
CoreEdges(pat) ==
    UNION {S \in SUBSET Hyperedges(pat) :
              \A e \in S : \A v \in Joined(pat, e) : Degree(pat, S, v) > 1}

CoreVariables(pat) == {v \in Variables(pat) : Degree(pat, CoreEdges(pat), v) >= 2}

\* generic_component_is_cyclic: some edge joins two variables that the edges
\* before it already connect, that is, the edges are no forest.
Cyclic(pat) ==
    /\ Len(pat.edges) >= 3
    /\ pat.vars >= 3
    /\ CoreEdges(pat) # {}

\* An edge with one end in the core hangs a tail on it.
TailEdge(pat, e) == Cardinality(Joined(pat, e) \cap CoreVariables(pat)) = 1

LeafTail(pat, e) ==
    [provider |-> pat.vars + e,
     separator |-> CHOOSE v \in Joined(pat, e) : v \in CoreVariables(pat),
     tail |-> CHOOSE v \in Joined(pat, e) : v \notin CoreVariables(pat)]

\* make_generic_ghd_metadata: the separators between the core and its tails.
LeafTails(pat) == {LeafTail(pat, e) : e \in {f \in Hyperedges(pat) : TailEdge(pat, f)}}

\* try_make_generic_four_cycle_ghd: a core that is one cycle u - v - w - x - u
\* is split into the paths u - v - w (the parent bag) and u - x - w (the child
\* bag), which share the pair u, w.  No split is the empty sequence.
PairSeparators(pat) ==
    LET core == {e \in Hyperedges(pat) : Joined(pat, e) \subseteq CoreVariables(pat)}
        first == Least(core)
        u == Var1(pat, first)
        v == Var2(pat, first)
        seconds == {e \in core \ {first} : v \in Joined(pat, e) /\ u \notin Joined(pat, e)}
        second == Least(seconds)
        w == CHOOSE y \in Joined(pat, second) : y # v
        thirds == {e \in core \ {first, second} :
                      w \in Joined(pat, e) /\ v \notin Joined(pat, e)}
        third == Least(thirds)
        x == CHOOSE y \in Joined(pat, third) : y # w
        fourths == {e \in core \ {first, second, third} : Joined(pat, e) = {x, u}}
        bag(e, f) == <<pat.vars + e, pat.vars + f>>
    IN  IF /\ Cardinality(CoreVariables(pat)) = 4
           /\ Cardinality(core) = 4
           /\ \A y \in CoreVariables(pat) : Degree(pat, core, y) = 2
           /\ seconds # {} /\ thirds # {} /\ x # u /\ fourths # {}
        THEN <<[u |-> u, w |-> w, parent |-> bag(first, second),
                child |-> bag(Least(fourths), third),
                parent_via |-> v, child_via |-> x]>>
        ELSE <<>>

\* make_generic_leaf_peel_plan: take away the first edge that has an end no
\* other edge reaches, again and again; peel[n] is the order of the first n.
Peel(pat, order) ==
    LET alive == Hyperedges(pat) \ {order[i].edge : i \in DOMAIN order}
        lone(v) == Degree(pat, alive, v) = 1
        e == Least({f \in alive : \E v \in Joined(pat, f) : lone(v)})
        leaf == IF lone(Var1(pat, e)) THEN Var1(pat, e) ELSE Var2(pat, e)
    IN  Append(order, [edge |-> e, leaf |-> leaf,
                       sep |-> CHOOSE v \in Joined(pat, e) : v # leaf])

LeafPeel(pat) ==
    LET peel[n \in 0 .. Len(pat.edges)] == IF n = 0 THEN <<>> ELSE Peel(pat, peel[n - 1])
    IN  peel[Len(pat.edges)]

\* A set of numbers, in ascending order.
Ascending(S) ==
    CHOOSE f \in [1 .. Cardinality(S) -> S] : \A i, j \in DOMAIN f : i < j => f[i] < f[j]

\* A semijoin step: the keys of `to` that rows of the provider join with the
\* keys of `from` filter every provider of `to`.
Step(p, f, t) == [provider |-> p, from |-> f, to |-> t]

\* The steps of an acyclic pattern go through the peel order backwards, from
\* leaf to separator, and then forwards, from separator to leaf.  Those of a
\* cyclic pattern go from every tail to its separator and back.  A descriptor
\* that is made locally has none for a cyclic pattern.
SemijoinSteps(pat) ==
    LET peel == LeafPeel(pat)
        up == [i \in DOMAIN peel |->
                  Step(pat.vars + peel[i].edge, peel[i].leaf, peel[i].sep)]
        down == [i \in DOMAIN peel |->
                    Step(pat.vars + peel[i].edge, peel[i].sep, peel[i].leaf)]
        order == Ascending({e \in Hyperedges(pat) : TailEdge(pat, e)})
        tails == [i \in DOMAIN order |-> LeafTail(pat, order[i])]
    IN  CASE ~Cyclic(pat) -> Reverse(up) \o down
          [] pat.local /\ Cyclic(pat) -> <<>>
          [] OTHER ->
                 [i \in DOMAIN tails |->
                     Step(tails[i].provider, tails[i].tail, tails[i].separator)]
                 \o [i \in DOMAIN tails |->
                        Step(tails[i].provider, tails[i].separator, tails[i].tail)]

\* mark_generic_edge_physical_path_desc: an edge is read from its adjacency
\* index, key by key, when the index starts at the variable that is bound first
\* and nothing but keys is asked of the edge.
Physical(pat, e) ==
    /\ e \in pat.indexed
    /\ e \notin pat.payload
    /\ pat.edges[e].from < pat.edges[e].to

\* make_generic_reduction_desc and the provider descriptors, as the executor
\* reads them.
Plan(pat) ==
    [vars |-> pat.vars,
     providers |->
        [v \in Variables(pat) |->
            [edge |-> FALSE, var1 |-> v, var2 |-> 0, lazy |-> FALSE, groups |-> {}]]
        \o
        [e \in Hyperedges(pat) |->
            [edge |-> TRUE, var1 |-> Var1(pat, e), var2 |-> Var2(pat, e),
             lazy |-> Physical(pat, e), groups |-> pat.groups[e]]],
     acyclic |-> ~Cyclic(pat),
     core |-> CoreVariables(pat),
     steps |-> SemijoinSteps(pat),
     tails |-> IF pat.local \/ ~Cyclic(pat) THEN {} ELSE LeafTails(pat),
     pairs |-> IF pat.local \/ ~Cyclic(pat) THEN <<>> ELSE PairSeparators(pat)]
=============================================================================
