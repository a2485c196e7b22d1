---------------------------- MODULE VleLocalCache ----------------------------
(***************************************************************************)
(* The contexts of variable-length edges (VLE) that age_vle.c keeps between *)
(* executions, in one backend.  A VLE edge of a query gets an id when the    *)
(* query is parsed; a scan of it looks for a context with that id in the     *)
(* list global_vle_local_contexts, or builds one on a global graph context   *)
(* (module GlobalGraph), traverses it row by row, and leaves it in the list. *)
(*                                                                         *)
(* Contexts and global contexts are named by their address, because the     *)
(* code keeps pointers and memory that is freed is given out again.         *)
(***************************************************************************)
EXTENDS Integers, SequencesExt

CONSTANTS
    Nodes,       \* VLE edges of queries, parsed in this session
    Scans,       \* cursors and statements that scan them, several may be open
    Forms,       \* how they are parsed: "path", "terminal", "chain"
    Graphs,
    Scopes,      \* load requests, [graph, load] records
    Snaps,       \* the identifiers of snapshots: xmin, xmax and curcid
    VleAddrs,    \* addresses of VLE_local_contexts
    GraphAddrs,  \* addresses of GRAPH_global_contexts
    MaxCached,   \* MAXIMUM_NUMBER_OF_CACHED_LOCAL_CONTEXTS
    Free,        \* an address that holds nothing
    None,        \* no node, no iterator
    ParsedBefore, \* VLE edges parsed before in this session
    MaxMade,     \* bound: global contexts built
    MaxVersion,  \* bound: changes of a graph
    MaxOps       \* bound: scans opened

ASSUME SizeAssumption == MaxCached \in Nat \ {0}
ASSUME FormAssumption == Forms \subseteq {"path", "terminal", "chain"}
ASSUME BoundAssumption == ParsedBefore \in Nat /\ MaxMade \in Nat /\ MaxVersion \in Nat /\ MaxOps \in Nat
ASSUME ScopeAssumption == \A sc \in Scopes : sc.graph \in Graphs

\* What the variables hold: an edge that is parsed, a global context, a context
\* of an edge, and the iterator of an open scan.  "changed" and "since" are
\* history: what the global context is judged by has changed since it was given
\* out; the ids that were looked for since the scan was opened.
NodeType == [id : Int, form : Forms, scope : Scopes]
GraphType == [scope : Scopes, version : Nat, snap : Snaps, no : 1 .. MaxMade]
VleType == [id : Int, for : Nodes, by : Scans, ptr : GraphAddrs,
            made : 1 .. MaxMade, dirty : BOOLEAN, changed : BOOLEAN]
IterType == [node : Nodes, ctx : VleAddrs, since : SUBSET Int]

ASSUME FreeAssumption == Free \notin GraphType \cup VleType
ASSUME NoneAssumption == None \notin NodeType \cup IterType \cup (Scans \X Nodes)

VARIABLES
    unique_counter,  \* of get_a_unique_number
    next_id,         \* of next_clause_vle_grammar_node_id
    node,            \* the id and the load request of each edge parsed
    counting,        \* version_mode is DSM or SHMEM, not SNAPSHOT
    version,         \* the version counter of each graph, 0 if it has none
    now,             \* the identifiers of the active snapshot
    ggctx,           \* the linked GRAPH_global_contexts, by address
    made,            \* how many of them were built: each has its number
    vle,             \* the VLE_local_contexts, by address
    list,            \* global_vle_local_contexts, the head first
    iter,            \* the iterator of each open scan
    building,        \* <<scan, edge>> that looked in vain and builds a context
    ops              \* scans opened so far (bounded)

\* What a global context is judged by.
clock == <<counting, version, now>>

vars == <<unique_counter, next_id, node, clock, ggctx, made, vle, list, iter,
          building, ops>>

Init ==
    /\ unique_counter = ParsedBefore
    /\ next_id = 1
    /\ node = [n \in Nodes |-> None]
    /\ counting \in BOOLEAN
    /\ version = [g \in Graphs |-> 0]
    /\ now \in Snaps
    /\ ggctx = [g \in GraphAddrs |-> Free]
    /\ made = 0
    /\ vle = [a \in VleAddrs |-> Free]
    /\ list = <<>>
    /\ iter = [s \in Scans |-> None]
    /\ building = None
    /\ ops = 0

-----------------------------------------------------------------------------
(* Parsing: the ids.                                                         *)

\* Mutant: the counter of rewritten chains stands still.
chain_id_Again(form) == next_id

chain_id(form) == IF form = "chain" THEN next_id + 1 ELSE next_id

\* build_VLE_relation takes the next unique number, made negative if the query
\* wants only the end of the paths (mark_vle_terminal_only_result);
\* make_fixed_label_chain_vle_rel, which turns a chain of equal edges into a
\* VLE edge, takes the next number of a counter of its own.
Parse(n, form, sc) ==
    /\ node[n] = None /\ building = None
    /\ LET id == CASE form = "path" -> unique_counter
                   [] form = "terminal" -> -(unique_counter + 1)
                   [] form = "chain" -> next_id
       IN  node' = [node EXCEPT ![n] = [id |-> id, form |-> form, scope |-> sc]]
    /\ unique_counter' = IF form = "chain" THEN unique_counter ELSE unique_counter + 1
    /\ next_id' = chain_id(form)
    /\ UNCHANGED <<clock, ggctx, made, vle, list, iter, building, ops>>

-----------------------------------------------------------------------------
(* Opening a scan: age_vle_iterator_create.                                  *)

Opens(s, n) ==
    /\ building = None
    /\ node[n] # None /\ iter[s] = None
    /\ ops < MaxOps /\ ops' = ops + 1

\* History: the id was looked for while these scans were open.
Noted(n) ==
    [s \in Scans |-> IF iter[s] # None
                     THEN [iter[s] EXCEPT !.since = @ \cup {node[n].id}] ELSE None]

\* The first MaxCached contexts of the list are looked at.
Looked == 1 .. (IF Len(list) < MaxCached THEN Len(list) ELSE MaxCached)

Hits(n) == {i \in Looked : vle[list[i]].id = node[n].id}

\* The counter of the graph is at work, and decides whether contexts are valid.
Counted(g) == counting /\ version[g] > 0

\* is_ggctx_invalid, negated: the counter stands where it stood when the context
\* was built or, in SNAPSHOT mode and as long as the graph has no counter, the
\* active snapshot has the identifiers of the one it was built under.
Valid(c) ==
    IF Counted(c.scope.graph) THEN c.version = version[c.scope.graph] ELSE c.snap = now

\* is_GRAPH_global_context_current: the address is that of a linked context, and
\* what is there is valid.
Current(x) == ggctx[x] # Free /\ Valid(ggctx[x])

Reusable(c) == ~c.dirty /\ Current(c.ptr)

\* get_cached_VLE_local_context finds one that can be used again and moves it to
\* the head; apply_cached_vle_context_refresh marks it dirty, unless there is no
\* start vertex left: then the scan is empty and the context stays as it is.
Reuse(s, n, started) ==
    /\ Opens(s, n)
    /\ \E i \in Hits(n) :
           /\ Reusable(vle[list[i]])
           /\ list' = <<list[i]>> \o RemoveAt(list, i)
           /\ IF started
              THEN /\ vle' = [vle EXCEPT ![list[i]].dirty = TRUE, ![list[i]].by = s]
                   /\ iter' = [Noted(n) EXCEPT ![s] = [node |-> n, ctx |-> list[i], since |-> {}]]
              ELSE UNCHANGED vle /\ iter' = Noted(n)
    /\ UNCHANGED <<unique_counter, next_id, node, clock, ggctx, made, building>>

\* Mutant: the context is freed without being unlinked.
Unlinked_Not(i) == list

Unlinked(i) == RemoveAt(list, i)

\* It finds one that cannot, and frees it: its graph has changed, or its scan did
\* not end, which may mean that it was broken off or that it is still open.
Discard(s, n) ==
    /\ Opens(s, n)
    /\ \E i \in Hits(n) :
           /\ ~Reusable(vle[list[i]])
           /\ vle' = [vle EXCEPT ![list[i]] = Free]
           /\ list' = Unlinked(i)
    /\ building' = <<s, n>>
    /\ iter' = Noted(n)
    /\ UNCHANGED <<unique_counter, next_id, node, clock, ggctx, made>>

\* Mutant: the purge of a list that is too long keeps one context less.
KeptSize_Less == IF Len(list) < MaxCached THEN Len(list) ELSE MaxCached - 1

KeptSize == IF Len(list) < MaxCached THEN Len(list) ELSE MaxCached

\* It finds none, and frees the contexts beyond those it looked at.
Purge(s, n) ==
    /\ Opens(s, n)
    /\ Hits(n) = {}
    /\ LET beyond == {list[i] : i \in KeptSize + 1 .. Len(list)}
       IN  /\ vle' = [a \in VleAddrs |-> IF a \in beyond THEN Free ELSE vle[a]]
           /\ list' = SubSeq(list, 1, KeptSize)
    /\ building' = <<s, n>>
    /\ iter' = Noted(n)
    /\ UNCHANGED <<unique_counter, next_id, node, clock, ggctx, made>>

\* Mutant: the sweep compares nothing and takes every context of the graph.
Swept_All(sc) == {x \in GraphAddrs : ggctx[x] # Free /\ ggctx[x].scope.graph = sc.graph}

\* The contexts that the sweep of a request frees: the invalid ones, of any graph.
Swept(sc) == {x \in GraphAddrs : ggctx[x] # Free /\ ~Valid(ggctx[x])}

\* manage_GRAPH_global_contexts: the sweep, then the context for this request or
\* a new one, at any address that is free by then.
Manage(sc, g) ==
    LET kept == [x \in GraphAddrs |-> IF x \in Swept(sc) THEN Free ELSE ggctx[x]]
    IN  \/ /\ kept[g] # Free /\ kept[g].scope = sc
           /\ ggctx' = kept
           /\ UNCHANGED made
        \/ /\ \A x \in GraphAddrs : kept[x] # Free => kept[x].scope # sc
           /\ kept[g] = Free
           /\ made < MaxMade /\ made' = made + 1
           /\ ggctx' = [kept EXCEPT ![g] =
                  [scope |-> sc, version |-> version[sc.graph], snap |-> now, no |-> made + 1]]

\* build_vle_local_context_for_input: a new context, at the head of the list.
Build(s, n) ==
    /\ building = <<s, n>>
    /\ \E g \in GraphAddrs, a \in VleAddrs :
           /\ Manage(node[n].scope, g)
           /\ vle[a] = Free
           /\ vle' = [vle EXCEPT ![a] =
                  [id |-> node[n].id, for |-> n, by |-> s, ptr |-> g,
                   made |-> ggctx'[g].no, dirty |-> TRUE, changed |-> FALSE]]
           /\ list' = <<a>> \o list
           /\ iter' = [iter EXCEPT ![s] = [node |-> n, ctx |-> a, since |-> {}]]
    /\ building' = None
    /\ UNCHANGED <<unique_counter, next_id, node, clock, ops>>

-----------------------------------------------------------------------------
(* Closing it.                                                               *)

Open(s) == iter[s] # None
ContextOf(s) == vle[iter[s].ctx]
HasContext(s) == ContextOf(s) # Free /\ ContextOf(s).by = s

\* finish_vle_iterator: the paths are exhausted, and the context can be used
\* again; or the scan ends before that (age_vle_iterator_end), and it cannot.
\* (What it does through a pointer to freed memory is not modelled.)
Finish(s, mark_clean) ==
    /\ building = None
    /\ Open(s) /\ HasContext(s)
    /\ vle' = IF mark_clean THEN [vle EXCEPT ![iter[s].ctx].dirty = FALSE] ELSE vle
    /\ iter' = [iter EXCEPT ![s] = None]
    /\ UNCHANGED <<unique_counter, next_id, node, clock, ggctx, made, list, building, ops>>

\* An error ends the scans of the transaction or subtransaction; their contexts
\* stay in the list, dirty.  It may strike while one is being built.
Error(S) ==
    /\ \A s \in S : Open(s) \/ (building # None /\ building[1] = s)
    /\ S # {}
    /\ building # None => building[1] \in S
    /\ iter' = [s \in Scans |-> IF s \in S THEN None ELSE iter[s]]
    /\ building' = None
    /\ UNCHANGED <<unique_counter, next_id, node, clock, ggctx, made, vle, list, ops>>

-----------------------------------------------------------------------------
(* What else happens to the global contexts.                                 *)

\* History: what the contexts on these graphs are judged by has changed.
Marked(G) ==
    [a \in VleAddrs |-> IF vle[a] # Free /\ node[vle[a].for].scope.graph \in G
                        THEN [vle[a] EXCEPT !.changed = TRUE] ELSE vle[a]]

\* A statement of any backend changes the graph (increment_graph_version).
Change(g) ==
    /\ counting
    /\ version[g] < MaxVersion
    /\ version' = [version EXCEPT ![g] = @ + 1]
    /\ vle' = Marked({g})
    /\ UNCHANGED <<unique_counter, next_id, node, counting, now, ggctx, made, list, iter,
                   building, ops>>

\* drop_graph gives the counter of the graph up (remove_graph_version), which a
\* rollback does not undo: the graph is judged by snapshots again.
RemoveVersion(g) ==
    /\ Counted(g)
    /\ version' = [version EXCEPT ![g] = 0]
    /\ vle' = Marked({g})
    /\ UNCHANGED <<unique_counter, next_id, node, counting, now, ggctx, made, list, iter,
                   building, ops>>

\* The backend goes on under another snapshot: the next command or statement, or
\* an older cursor.  Only the graphs without a counter at work are judged by it.
TakeSnapshot(sn) ==
    /\ building = None
    /\ sn # now /\ now' = sn
    /\ vle' = Marked({g \in Graphs : ~Counted(g)})
    /\ UNCHANGED <<unique_counter, next_id, node, counting, version, ggctx, made, list, iter,
                   building, ops>>

\* Another function (vertex_stats) asks for a global context.
Other(sc) ==
    /\ building = None
    /\ \E g \in GraphAddrs : Manage(sc, g)
    /\ ggctx' # ggctx
    /\ UNCHANGED <<unique_counter, next_id, node, clock, vle, list, iter, building, ops>>

\* delete_global_graphs, or graph_stats before it loads the graph anew.
Delete(g) ==
    /\ building = None
    /\ \E x \in GraphAddrs :
           /\ ggctx[x] # Free /\ ggctx[x].scope.graph = g
           /\ ggctx' = [ggctx EXCEPT ![x] = Free]
    /\ vle' = Marked({g})
    /\ UNCHANGED <<unique_counter, next_id, node, clock, made, list, iter, building, ops>>

Quiesce ==
    /\ ops = MaxOps /\ building = None
    /\ \A s \in Scans : iter[s] = None
    /\ UNCHANGED vars

Next ==
    \/ \E n \in Nodes, form \in Forms, sc \in Scopes : Parse(n, form, sc)
    \/ \E s \in Scans, n \in Nodes :
           \/ \E started \in BOOLEAN : Reuse(s, n, started)
           \/ Discard(s, n) \/ Purge(s, n) \/ Build(s, n)
    \/ \E s \in Scans, clean \in BOOLEAN : Finish(s, clean)
    \/ \E S \in SUBSET Scans : Error(S)
    \/ \E g \in Graphs : Change(g) \/ RemoveVersion(g) \/ Delete(g)
    \/ \E sn \in Snaps : TakeSnapshot(sn)
    \/ \E sc \in Scopes : Other(sc)
    \/ Quiesce

Spec == Init /\ [][Next]_vars

-----------------------------------------------------------------------------

\* Every variable has its type.
TypeOK ==
    /\ unique_counter \in Nat /\ next_id \in Nat /\ made \in 0 .. MaxMade
    /\ node \in [Nodes -> NodeType \cup {None}]
    /\ counting \in BOOLEAN /\ version \in [Graphs -> Nat] /\ now \in Snaps
    /\ ggctx \in [GraphAddrs -> GraphType \cup {Free}]
    /\ vle \in [VleAddrs -> VleType \cup {Free}]
    /\ list \in Seq(VleAddrs)
    /\ iter \in [Scans -> IterType \cup {None}]
    /\ building \in (Scans \X Nodes) \cup {None}
    /\ ops \in 0 .. MaxOps

\* No scan with the same id was opened since s was, and the others were scans of
\* at most MaxCached ids.
Undisturbed(s) ==
    /\ node[iter[s].node].id \notin iter[s].since
    /\ Cardinality(iter[s].since) <= MaxCached

\* An open scan keeps its context between two rows ("set up traversal state and
\* then pull one output row at a time"): the context stays in memory, in the
\* list and dirty, so that no other scan takes it.  Neither the removal of a
\* stale context nor an error in another scan frees it.  What does is another
\* scan with the same id, as of a second cursor, and the purge once scans of
\* more than MaxCached other ids were opened.
ActiveIsProtected ==
    \A s \in Scans : Open(s) /\ Undisturbed(s) =>
        /\ HasContext(s) /\ ContextOf(s).dirty
        /\ \E i \in 1 .. Len(list) : list[i] = iter[s].ctx

\* The list holds contexts in memory only, each once and at most one for an id;
\* it never grows beyond one more than the maximum, however many queries run.
\* The state is well formed (TypeOK), and that holds in it.
ListIsSound ==
    /\ TypeOK
    /\ Len(list) <= MaxCached + 1
    /\ \A i \in 1 .. Len(list) : vle[list[i]] # Free
    /\ \A i, j \in 1 .. Len(list) : i # j =>
           list[i] # list[j] /\ vle[list[i]].id # vle[list[j]].id

\* An open scan works on the very global context it was given, however often
\* that was looked up, swept around and shared, and whatever became of other
\* graphs.  The exceptions are the steps after which the sweep or a function
\* frees it under an open scan: the counter of its own graph moved or was
\* given up, its graph's contexts were deleted, or, for a graph that no counter
\* decides about, the backend took another snapshot, without any change.  After
\* such a step the scan may be on memory that was given to another global
\* context: is_GRAPH_global_context_current compares addresses, and takes the VLE
\* context of a freed global context for one of that built in its place.
ExactGraphIfUnchanged ==
    \A s \in Scans : Open(s) /\ HasContext(s) /\ ~ContextOf(s).changed =>
        LET g == ggctx[ContextOf(s).ptr] IN g # Free /\ g.no = ContextOf(s).made

\* "get a unique number to identify this VLE node": a scan works on the context
\* of its own edge.  The one exception is the second counter: a rewritten chain
\* and a written edge may have the same number, and then one is given the
\* other's context, with its graph, labels and bounds.
ContextIsOwn ==
    \A s \in Scans : Open(s) /\ HasContext(s) =>
        LET built == ContextOf(s).for
            own == iter[s].node
        IN  built = own \/ (node[built].form = "chain") # (node[own].form = "chain")
=============================================================================
