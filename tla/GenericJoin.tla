---------------------------- MODULE GenericJoin ----------------------------
(***************************************************************************)
(* The executor of the generic multiway join                               *)
(* (executor/cypher_generic_join.c): the providers are read and sorted, or  *)
(* left in their adjacency index; the rows that cannot join are filtered    *)
(* out by semijoin steps, separators and passes; a search binds one         *)
(* variable after the other; the rows of a binding are combined under the   *)
(* pattern's edge uniqueness; and a consumer returns the combinations, or   *)
(* counts, groups or aggregates them without building them.                *)
(*                                                                         *)
(* A row is <<key1, key2, edge>>: a vertex has <<id, 0, 0>>, and edge 0 is   *)
(* the code's invalid edge id.  A sorted array is the set of its rows, a    *)
(* range of it the set of the rows it spans; "first" is the least.  What an *)
(* aggregate makes of its values is left out: it is the bag of the rows     *)
(* whose property it took.  When a filter leaves a provider no row the code *)
(* stops filtering the others; the rows are never read again, and the model *)
(* filters them all.                                                       *)
(***************************************************************************)
EXTENDS GenericPlan, FiniteSetsExt, Functions, Bags

CONSTANTS
    Patterns,    \* the patterns, by name: see GenericPlan
    Queries,     \* [pat, kind, key, sum, goal] : a pattern and its consumer
    Inputs,      \* for each pattern, what its providers may find
    CacheSize,   \* AGE_GENERIC_PREFIX_RANGE_CACHE_SIZE
    MinMisses,   \* AGE_GENERIC_PREFIX_RANGE_DIRECTORY_MIN_MISSES
    PairLimit,   \* AGE_GENERIC_UNIQUENESS_EXACT_PAIR_LIMIT
    BagLimit,    \* AGE_GENERIC_SMALL_BAG_ENUMERATOR_LIMIT
    EntrySpan    \* graph ids per label: GET_LABEL_ID divides by it

Kinds == {"rows", "limit", "exists", "count", "count_distinct", "distinct",
          "group_count", "group_distinct", "sum", "group_sum"}

ASSUME GenericJoinAssumption ==
    /\ Queries \subseteq [pat : DOMAIN Patterns, kind : Kinds, key : Nat, sum : Nat, goal : Nat]
    /\ {CacheSize, MinMisses, PairLimit, BagLimit, EntrySpan} \subseteq Nat \ {0}

\* A pattern: every edge joins two variables, and every variable has an edge.  For
\* two parallel edges alone, which are neither cyclic nor a forest, there is no plan.
ASSUME PatternAssumption ==
    \A n \in DOMAIN Patterns :
        LET pat == Patterns[n]
        IN  /\ pat.vars \in Nat
            /\ pat.edges \in Seq([from : Variables(pat), to : Variables(pat)])
            /\ \A e \in Hyperedges(pat) : pat.edges[e].from # pat.edges[e].to
            /\ UNION {Joined(pat, e) : e \in Hyperedges(pat)} = Variables(pat)
            /\ Cyclic(pat) \/ CoreEdges(pat) = {}

VARIABLES
    query,   \* the pattern, the plan of it, and the consumer
    input,   \* what the providers' plans, or their index, would return
    joins,   \* history: the joins of the pattern in it
    rows,    \* the rows of the materialised providers
    prefix,  \* for a physical provider, the rows of the key it loaded last
    cache,   \* the ranges each provider remembers: see NoRanges
    state,   \* materialized, exhausted, ready, combining
    pc,      \* what the executor is doing
    at,      \* how far the reduction is
    depth,   \* the variable the search is at
    level,   \* for each variable, whether its candidates are known, and which are left
    bind,    \* bindings
    bag,     \* the rows of each provider under the binding
    cdepth,  \* how many providers the combination under way covers
    last,    \* combination_indexes, as the edge of the row; None is -1
    cons,    \* the consumer: emitted, count, seen keys, group, aggregate
    out,     \* history: what this scan returned
    ended    \* history: a call returned no row

vars == <<query, input, joins, rows, prefix, cache, state, pc, at, depth, level, bind, bag,
          cdepth, last, cons, out, ended>>

None == -1

plan == query.plan
Vars == 1 .. plan.vars
P == DOMAIN plan.providers
EdgeProviders == {p \in P : plan.providers[p].edge}
Lazy(p) == plan.providers[p].lazy
Eager == {p \in P : ~Lazy(p)}
Has(p, v) ==
    \/ plan.providers[p].var1 = v
    \/ plan.providers[p].edge /\ plan.providers[p].var2 = v
Key(p, r, v) == IF plan.providers[p].var1 = v THEN r[1] ELSE r[2]
Label(edge) == edge \div EntrySpan

-----------------------------------------------------------------------------
(* Reduction.                                                              *)

\* build_generic_reduction_domains: the keys every materialised provider of a
\* variable has, as a set of pairs of a variable and a key.
Domains(R) ==
    LET has(p, v, k) == \E r \in R[p] : Key(p, r, v) = k
        first == UNION {{<<v, r[1]>> : r \in R[v]} : v \in Vars}
    IN  {d \in first : \A p \in Eager : Has(p, d[1]) => has(p, d[1], d[2])}
NoDomain(D) == {d[1] : d \in D} # Vars

\* filter_generic_provider: the rows of p whose keys are all in their domains.
Within(D, p, r) == \A v \in Vars : Has(p, v) => <<v, Key(p, r, v)>> \in D
Filtered(R, D, S) == [p \in P |-> {r \in R[p] : p \in S => Within(D, p, r)}]

\* filter_generic_provider_on_variable, every provider of v.
OnVariable(R, v, keys) == [p \in P |-> {r \in R[p] : Has(p, v) => Key(p, r, v) \in keys}]
Emptied(R) == \E p \in Eager : R[p] = {}

\* load_generic_physical_prefix: the rows the index has for a key.
Loaded(p, k) == [valid |-> TRUE, key |-> k, rows |-> {r \in input[p] : r[1] = k}]
NoPrefix == [valid |-> FALSE, key |-> None, rows |-> {}]

\* Nothing remembered: invalidate_generic_provider_prefix_ranges.
NoRanges == [child |-> <<>>, prefix |-> <<>>, misses |-> 0, built |-> FALSE,
             directory |-> {}, cursor |-> [key |-> None, range |-> {}]]

\* The end of materialize_generic_providers, back in next_generic_binding.
Reduced(exhausted) ==
    /\ state' = [state EXCEPT !.materialized = TRUE, !.exhausted = exhausted]
    /\ pc' = IF exhausted THEN "none" ELSE "search"
    /\ depth' = 1

searching == <<level, bind, bag, cdepth, last, cons, out, ended>>

\* materialize_generic_providers: every provider that is not physical is read,
\* up to the first that has no row.
Materialize ==
    /\ pc = "materialize"
    /\ rows' = [p \in P |->
                   IF Lazy(p) \/ \E q \in Eager : q < p /\ input[q] = {} THEN {} ELSE input[p]]
    /\ IF \E p \in Eager : input[p] = {}
       THEN Reduced(TRUE)
       ELSE pc' = "steps" /\ UNCHANGED <<state, depth>>
    /\ at' = 1
    /\ UNCHANGED <<query, input, joins, prefix, cache, searching>>

\* Mutant: a physical provider is read like a materialised one.
StepDomainOfRows(s, D) ==
    {Key(s.provider, r, s.to) :
        r \in {x \in rows[s.provider] : <<s.from, Key(s.provider, x, s.from)>> \in D}}

\* build_generic_semijoin_step_domain: the keys of s.to that a row joins with a
\* key of s.from.  A physical provider is asked for every key of its var1.
StepDomain(s, D) ==
    LET p == s.provider
        found == IF Lazy(p) THEN {r \in input[p] : <<plan.providers[p].var1, r[1]>> \in D}
                 ELSE rows[p]
    IN  {Key(p, r, s.to) : r \in {x \in found : <<s.from, Key(p, x, s.from)>> \in D}}

\* reduce_generic_semijoin_steps.
ReduceSemijoinSteps ==
    /\ pc = "steps"
    /\ IF at > Len(plan.steps)
       THEN pc' = "tail" /\ at' = 0 /\ UNCHANGED <<rows, prefix, state, depth>>
       ELSE LET s == plan.steps[at]
                D == Domains(rows)
                keys == StepDomain(s, D)
                next == OnVariable(rows, s.to, keys)
                from == {d[2] : d \in {x \in D : x[1] = plan.providers[s.provider].var1}}
                load == Lazy(s.provider) /\ ~NoDomain(D)
            IN  /\ rows' = IF NoDomain(D) THEN rows ELSE next
                /\ prefix' = IF load THEN [prefix EXCEPT ![s.provider] =
                                              Loaded(s.provider, Max(from))]
                             ELSE prefix
                /\ at' = at + 1
                /\ IF NoDomain(D) \/ keys = {} \/ Emptied(next)
                   THEN Reduced(TRUE)
                   ELSE UNCHANGED <<state, pc, depth>>
    /\ UNCHANGED <<query, input, joins, cache, searching>>

\* The separators between core and tails: the planned ones or, when the plan has
\* no separator, the edges the executor finds to have one end in the core.
Separators ==
    LET e(p) == plan.providers[p]
        here == {p \in EdgeProviders : (e(p).var1 \in plan.core) # (e(p).var2 \in plan.core)}
    IN  IF plan.tails # {} \/ plan.pairs # <<>> THEN plan.tails
        ELSE {[provider |-> p,
               separator |-> IF e(p).var1 \in plan.core THEN e(p).var1 ELSE e(p).var2,
               tail |-> IF e(p).var1 \in plan.core THEN e(p).var2 ELSE e(p).var1] :
                  p \in here \cap Eager}

InCore(p) == \A v \in Vars : Has(p, v) => v \in plan.core

\* reduce_generic_tail_domains: the providers outside of the core, at most once
\* for each variable.
ReduceTailDomains ==
    /\ pc = "tail"
    /\ LET D == Domains(rows)
           next == Filtered(rows, D, {p \in P : ~InCore(p)})
       IN  IF plan.core = {} \/ Separators = {}
           THEN pc' = "pair" /\ UNCHANGED <<rows, at, state, depth>>
           ELSE IF NoDomain(D)
           THEN Reduced(TRUE) /\ UNCHANGED <<rows, at>>
           ELSE IF at = plan.vars \/ next = rows
           THEN pc' = "separate" /\ UNCHANGED <<rows, at, state, depth>>
           ELSE /\ rows' = next
                /\ at' = at + 1
                /\ IF Emptied(next) THEN Reduced(TRUE) ELSE UNCHANGED <<pc, state, depth>>
    /\ UNCHANGED <<query, input, joins, prefix, cache, searching>>

\* reduce_generic_leaf_tail_separators: what the tails leave of their separator
\* filters every provider of it.
ReduceLeafTailSeparators ==
    /\ pc = "separate"
    /\ LET D == Domains(rows)
           seps == {s \in Separators : ~Lazy(s.provider)}
           keys(s) == {Key(s.provider, r, s.separator) :
                          r \in {x \in rows[s.provider] :
                                   <<s.tail, Key(s.provider, x, s.tail)>> \in D}}
           next == [p \in P |->
                       {r \in rows[p] : \A s \in seps : Has(p, s.separator) =>
                                            Key(p, r, s.separator) \in keys(s)}]
       IN  /\ rows' = next
           /\ state' = IF Emptied(next) THEN [state EXCEPT !.materialized = TRUE, !.exhausted = TRUE]
                       ELSE state
           /\ pc' = IF Emptied(next) THEN "none" ELSE "pair"
    /\ UNCHANGED <<query, input, joins, prefix, cache, at, depth, searching>>

\* build_generic_ghd_path_pair_domain: the ends u, w of the paths of a bag.
Ends(R, b, via, s) ==
    {rt \in R[b[1]] \X R[b[2]] : Key(b[1], rt[1], via) = Key(b[2], rt[2], via)}
PairOf(b, s, rt) ==
    LET end(v) == IF Has(b[1], v) THEN Key(b[1], rt[1], v) ELSE Key(b[2], rt[2], v)
    IN  <<end(s.u), end(s.w)>>
PairDomain(R, b, via, s) == {PairOf(b, s, rt) : rt \in Ends(R, b, via, s)}

\* filter_generic_ghd_path_bag_on_pair_domain.
OnPairs(R, b, via, s, pairs) ==
    LET kept == {rt \in Ends(R, b, via, s) : PairOf(b, s, rt) \in pairs}
    IN  [R EXCEPT ![b[1]] = {rt[1] : rt \in kept}, ![b[2]] = {rt[2] : rt \in kept}]

\* reduce_generic_pair_ghd_separators: the child's pairs filter the parent bag,
\* and what is left of it filters the child bag.
ReducePairSeparators ==
    /\ pc = "pair"
    /\ IF plan.pairs = <<>> \/ \E p \in P : Lazy(p) /\ p \in ToSet(plan.pairs[1].parent
                                                                     \o plan.pairs[1].child)
       THEN pc' = "pass" /\ UNCHANGED <<rows, state, depth>>
       ELSE LET s == plan.pairs[1]
                up == OnPairs(rows, s.parent, s.parent_via, s,
                              PairDomain(rows, s.child, s.child_via, s))
                down == OnPairs(up, s.child, s.child_via, s,
                                PairDomain(up, s.parent, s.parent_via, s))
            IN  /\ rows' = down
                /\ IF Emptied(down) THEN Reduced(TRUE)
                   ELSE pc' = "pass" /\ UNCHANGED <<state, depth>>
    /\ at' = 1
    /\ UNCHANGED <<query, input, joins, prefix, cache, searching>>

\* Mutant: the passes go on until one of them empties a provider.
PassForever ==
    /\ pc = "pass"
    /\ LET D == Domains(rows)
           next == Filtered(rows, D, P)
       IN  IF NoDomain(D) \/ plan.acyclic
           THEN Reduced(NoDomain(D)) /\ UNCHANGED rows
           ELSE /\ rows' = next
                /\ IF Emptied(next) THEN Reduced(TRUE) ELSE UNCHANGED <<state, pc, depth>>
    /\ UNCHANGED <<query, input, joins, prefix, cache, at, searching>>

\* The passes of reduce_generic_providers.  An acyclic pattern has had its steps
\* and is only looked at once more; another has at most two passes for each
\* variable.
ReduceProviders ==
    /\ pc = "pass"
    /\ LET D == Domains(rows)
           next == Filtered(rows, D, P)
       IN  IF NoDomain(D) \/ plan.acyclic
           THEN Reduced(NoDomain(D)) /\ UNCHANGED <<rows, at>>
           ELSE /\ rows' = next
                /\ at' = at + 1
                /\ IF Emptied(next) \/ next = rows \/ at = 2 * plan.vars
                   THEN Reduced(Emptied(next))
                   ELSE UNCHANGED <<state, pc, depth>>
    /\ UNCHANGED <<query, input, joins, prefix, cache, searching>>

-----------------------------------------------------------------------------
(* The range of a key in a sorted provider, and what is remembered of it.   *)

Of(R, k) == {r \in R : r[1] = k}
Entry(k, range) == [key |-> k, range |-> range]

\* A cache of CacheSize entries, the one used last first.
Hits(c, k) == {i \in DOMAIN c : c[i].key = k}
ToFront(c, k) == LET i == Least(Hits(c, k)) IN <<c[i]>> \o RemoveAt(c, i)
Stored(c, k, range) == SubSeq(<<Entry(k, range)>> \o c, 1,
                              IF Len(c) < CacheSize THEN Len(c) + 1 ELSE CacheSize)

\* generic_provider_prefix_directory_lookup.
FromDirectory(c, k) ==
    IF c.cursor.key = k THEN c ELSE [c EXCEPT !.cursor = Entry(k, Of(c.directory, k))]

\* sorted_array_provider_key1_range: the directory, the prefix cache or, after
\* MinMisses misses, a directory of all the rows; else a binary search.  The
\* result is what is remembered then, with the range.
Sought(c, R, k) ==
    LET misses == c.misses + 1
        fresh == [NoRanges EXCEPT !.built = TRUE, !.directory = R]
    IN  IF c.built
        THEN [c |-> FromDirectory(c, k), range |-> FromDirectory(c, k).cursor.range]
        ELSE IF Hits(c.prefix, k) # {}
        THEN [c |-> [c EXCEPT !.prefix = ToFront(@, k)], range |-> ToFront(c.prefix, k)[1].range]
        ELSE IF misses >= MinMisses /\ Cardinality(R) > CacheSize
        THEN [c |-> FromDirectory(fresh, k), range |-> FromDirectory(fresh, k).cursor.range]
        ELSE [c |-> [c EXCEPT !.misses = misses, !.prefix = Stored(@, k, Of(R, k))],
              range |-> Of(R, k)]

\* generic_provider_open_child_range.
Opened(c, R, k) ==
    IF Hits(c.child, k) # {}
    THEN [c |-> [c EXCEPT !.child = ToFront(@, k)], range |-> ToFront(c.child, k)[1].range]
    ELSE LET s == Sought(c, R, k)
         IN  [c |-> [s.c EXCEPT !.child = Stored(@, k, s.range)], range |-> s.range]

-----------------------------------------------------------------------------
(* The search for bindings: next_generic_binding.                          *)

NoLevel == [built |-> FALSE, left |-> {}]

\* load_generic_physical_prefix, for the search: a key that is loaded stays.
PrefixFor(p, k) == IF prefix[p].valid /\ prefix[p].key = k THEN prefix[p] ELSE Loaded(p, k)

\* What provider p has for the key its var1 is bound to by b, and what is
\* remembered after it was asked.
RowsFor(p, b) ==
    LET k == b[plan.providers[p].var1]
    IN  IF Lazy(p) THEN PrefixFor(p, k).rows ELSE Opened(cache[p], rows[p], k).range
Asked(S, b) ==
    /\ cache' = [p \in P |-> IF p \in S \ {q \in P : Lazy(q)}
                             THEN Opened(cache[p], rows[p], b[plan.providers[p].var1]).c
                             ELSE cache[p]]
    /\ prefix' = [p \in P |-> IF p \in S /\ Lazy(p)
                              THEN PrefixFor(p, b[plan.providers[p].var1]) ELSE prefix[p]]

\* The entry of next_generic_binding.
NextBinding ==
    /\ pc = "want"
    /\ pc' = IF state.exhausted THEN "none"
             ELSE IF state.materialized THEN "search" ELSE "materialize"
    /\ depth' = plan.vars
    /\ UNCHANGED <<query, input, joins, rows, prefix, cache, state, at, searching>>

\* build_generic_level: the keys all providers of the variable have for what is
\* bound; the providers after the one that leaves none are not asked.  A
\* physical provider says nothing of its var1.
BuildLevel ==
    /\ pc = "search"
    /\ ~level[depth].built
    /\ LET here == {p \in P : Has(p, depth) /\ ~(Lazy(p) /\ plan.providers[p].var1 = depth)}
           second(p) == plan.providers[p].edge /\ plan.providers[p].var2 = depth
           view(p) == IF second(p) THEN {r[2] : r \in RowsFor(p, bind)} ELSE {r[1] : r \in rows[p]}
           upto(p) == {k \in view(depth) : \A q \in here : q <= p => k \in view(q)}
           asked == {p \in here : \A q \in here : q < p => upto(q) # {}}
       IN  /\ level' = [level EXCEPT ![depth] = [built |-> TRUE, left |-> upto(Max(here))]]
           /\ Asked({p \in asked : second(p)}, bind)
    /\ UNCHANGED <<query, input, joins, rows, state, pc, at, depth, bind, bag, cdepth, last, cons,
                   out, ended>>

\* prepare_generic_bags: the rows of each provider under the binding b.
BagFor(p, b) ==
    {r \in RowsFor(p, b) : plan.providers[p].edge => r[2] = b[plan.providers[p].var2]}

\* The next candidate of the variable; with the last variable bound, the bags.
TakeCandidate ==
    /\ pc = "search"
    /\ level[depth].built
    /\ level[depth].left # {}
    /\ LET k == Min(level[depth].left)
           b == [bind EXCEPT ![depth] = k]
           taken == [level EXCEPT ![depth].left = @ \ {k}]
           asked == {p \in P : \A q \in P : q < p => BagFor(q, b) # {}}
           full == \A p \in P : BagFor(p, b) # {}
       IN  /\ bind' = b
           /\ IF depth < plan.vars
              THEN /\ depth' = depth + 1
                   /\ level' = [taken EXCEPT ![depth + 1] = NoLevel]
                   /\ UNCHANGED <<prefix, cache, state, pc, bag, last>>
              ELSE /\ level' = taken
                   /\ Asked(asked, b)
                   /\ bag' = [p \in P |-> IF p \in asked THEN BagFor(p, b) ELSE bag[p]]
                   /\ last' = [p \in P |-> None]
                   /\ state' = IF full THEN [state EXCEPT !.ready = TRUE, !.combining = FALSE]
                               ELSE state
                   /\ pc' = IF full THEN "use" ELSE pc
                   /\ UNCHANGED depth
    /\ UNCHANGED <<query, input, joins, rows, at, cdepth, cons, out, ended>>

\* No candidate is left: back to the variable before, or to the end.
Backtrack ==
    /\ pc = "search"
    /\ level[depth].built
    /\ level[depth].left = {}
    /\ level' = [level EXCEPT ![depth] = NoLevel]
    /\ IF depth > 1
       THEN depth' = depth - 1 /\ UNCHANGED <<state, pc>>
       ELSE state' = [state EXCEPT !.exhausted = TRUE] /\ pc' = "none" /\ UNCHANGED depth
    /\ UNCHANGED <<query, input, joins, rows, prefix, cache, at, bind, bag, cdepth, last, cons, out,
                   ended>>

-----------------------------------------------------------------------------
(* The combinations of a binding: next_generic_combination.                *)

Overlap(p, q) == plan.providers[p].groups \cap plan.providers[q].groups # {}

\* The providers in the order of their bags' sizes, equal ones in plan order.
Order == SortSeq([p \in P |-> p],
                 LAMBDA p, q : \/ Cardinality(bag[p]) < Cardinality(bag[q])
                               \/ Cardinality(bag[p]) = Cardinality(bag[q]) /\ p < q)

\* The row is an edge that a provider before it in the order has, in a group of
\* edges that must differ.
Conflict(p, r, d) ==
    r[3] # 0 /\ \E i \in 1 .. (d - 1) : Overlap(p, Order[i]) /\ last[Order[i]] = r[3]

\* One step: the next row of the provider at this depth that is in no conflict,
\* or back to the provider before.
Combine ==
    /\ pc = "combine"
    /\ LET p == Order[cdepth]
           next == {r \in bag[p] : r[3] > last[p] /\ ~Conflict(p, r, cdepth)}
           edge == Min({r[3] : r \in next})
       IN  IF next = {}
           THEN /\ last' = [last EXCEPT ![p] = None]
                /\ cdepth' = cdepth - 1
                /\ IF cdepth = 1
                   THEN /\ pc' = "want"
                        /\ state' = [state EXCEPT !.ready = FALSE, !.combining = FALSE]
                   ELSE UNCHANGED <<pc, state>>
           ELSE /\ IF cdepth = Cardinality(P)
                   THEN last' = [last EXCEPT ![p] = edge] /\ pc' = "found" /\ UNCHANGED cdepth
                   ELSE /\ last' = [last EXCEPT ![p] = edge, ![Order[cdepth + 1]] = None]
                        /\ cdepth' = cdepth + 1
                        /\ UNCHANGED pc
                /\ UNCHANGED state
    /\ UNCHANGED <<query, input, joins, rows, prefix, cache, at, depth, level, bind, bag, cons, out,
                   ended>>

\* The combination, by the rows of the pattern's edges.
Combination == [p \in EdgeProviders |-> CHOOSE r \in bag[p] : r[3] = last[p]]

\* age_binding_flat_enumerator_next: all combinations of the bags, at once.
Combinations(b) ==
    {c \in [EdgeProviders -> UNION {b[p] : p \in EdgeProviders}] :
        /\ \A p \in EdgeProviders : c[p] \in b[p]
        /\ \A p, q \in EdgeProviders : p # q /\ Overlap(p, q) => c[p][3] # c[q][3]}

-----------------------------------------------------------------------------
(* What the bags tell of a binding without combining them.                  *)

\* age_generic_uniqueness_may_reject.
Overlapping == {pq \in P \X P : pq[1] # pq[2] /\ Overlap(pq[1], pq[2])}
MayReject == Overlapping # {}

\* Mutant: edges of several labels are taken for edges of one.
MayShareUnlessMixed(p, q) ==
    LET labels(x) == {Label(r[3]) : r \in bag[x]}
        edges(x) == {r[3] : r \in bag[x]}
    IN  /\ labels(p) = labels(q)
        /\ edges(p) \cap edges(q) # {}

\* generic_provider_bags_may_share_edge_id.
MayShare(p, q) ==
    LET labels(x) == {Label(r[3]) : r \in bag[x]}
        edges(x) == {r[3] : r \in bag[x]}
    IN  /\ ~(Cardinality(labels(p)) = 1 /\ Cardinality(labels(q)) = 1 /\ labels(p) # labels(q))
        /\ \/ Cardinality(bag[p]) * Cardinality(bag[q]) > PairLimit
           \/ edges(p) \cap edges(q) # {}

\* age_generic_active_binding_uniqueness_may_reject.
BindingMayReject == {pq \in Overlapping : MayShare(pq[1], pq[2])} # {}

\* count_age_generic_binding_product, of the bags of S.
Product(S) == FoldFunction(LAMBDA x, y : x * y, 1, [p \in S |-> Cardinality(bag[p])])

-----------------------------------------------------------------------------
(* The consumers.                                                          *)

NoGroup == [key |-> None, count |-> 0]
NewConsumer == [emitted |-> FALSE, count |-> 0, seen |-> {}, group |-> NoGroup,
                values |-> EmptyBag]

Grouped == query.kind \in {"group_count", "group_distinct", "group_sum"}
Summing == query.kind \in {"sum", "group_sum"}
Counting == query.kind \in {"count", "group_count"}

Counted(c, n) == IF Grouped THEN [c EXCEPT !.group.count = @ + n] ELSE [c EXCEPT !.count = @ + n]
Valued(c, b) == [c EXCEPT !.values = @ (+) b]

fixed == <<query, input, joins, rows, prefix, cache, at, depth, level, bind, bag>>

Return(row) == out' = Append(out, row) /\ pc' = "idle" /\ UNCHANGED ended
ReturnNone == ended' = TRUE /\ pc' = "idle" /\ UNCHANGED out

\* The binding is used up.
Consumed == state' = [state EXCEPT !.ready = FALSE, !.combining = FALSE] /\ pc' = "want"

\* exec_age_generic_join, up to the first binding: a scan that has returned its
\* one row, or as many as its LIMIT asks for, is over.
Call ==
    /\ pc = "idle"
    /\ IF cons.emitted \/ (query.goal > 0 /\ Len(out) >= query.goal)
       THEN ReturnNone
       ELSE pc' = (IF state.ready THEN "use" ELSE "want") /\ UNCHANGED <<out, ended>>
    /\ UNCHANGED <<fixed, state, cdepth, last, cons>>

\* The bindings of one group follow each other; the first opens the group.
OpenGroup ==
    /\ pc = "use" /\ Grouped /\ cons.group.key = None
    /\ cons' = [cons EXCEPT !.group = [key |-> bind[query.key], count |-> 0],
                            !.values = EmptyBag]
    /\ UNCHANGED <<fixed, state, pc, cdepth, last, out, ended>>

\* The binding is the group's, or there are no groups.
InGroup == pc = "use" /\ (Grouped => cons.group.key = bind[query.key])

\* The product of the bags, when no combination of the binding can be rejected.
UseProduct ==
    /\ InGroup
    /\ \/ /\ Counting
          /\ ~(MayReject /\ BindingMayReject)
          /\ cons' = Counted(cons, Product(P))
       \/ /\ query.kind = "group_distinct"
          /\ ~MayReject
          /\ cons' = [cons EXCEPT !.group.count = 1]
       \/ /\ Summing
          /\ ~MayReject
          /\ cons' = Valued(cons, [r \in bag[query.sum] |-> Product(P \ {query.sum})])
    /\ Consumed
    /\ UNCHANGED <<fixed, cdepth, last, out, ended>>

\* The enumerator of small bags, when one may be.
UseSmallBags ==
    /\ InGroup
    /\ query.kind \in {"count", "group_count", "sum", "group_sum"}
    /\ MayReject /\ BindingMayReject
    /\ Product(P) <= BagLimit
    /\ LET all == Combinations(bag)
           times(r) == Cardinality({c \in all : c[query.sum] = r})
       IN  cons' = IF Counting THEN Counted(cons, Cardinality(all))
                   ELSE Valued(cons, [r \in {x \in bag[query.sum] : times(x) > 0} |-> times(r)])
    /\ Consumed
    /\ UNCHANGED <<fixed, cdepth, last, out, ended>>

\* One combination after the other.  A scan that returned one goes on after it.
UseCombinations ==
    /\ InGroup
    /\ Counting => MayReject /\ BindingMayReject /\ Product(P) > BagLimit
    /\ query.kind = "group_distinct" => MayReject
    /\ Summing => MayReject /\ (BindingMayReject => Product(P) > BagLimit)
    /\ pc' = "combine"
    /\ cdepth' = IF state.combining THEN Cardinality(P) ELSE 1
    /\ state' = [state EXCEPT !.combining = TRUE]
    /\ UNCHANGED <<fixed, last, cons, out, ended>>

\* A combination for a consumer that takes them all: a row, a count, a value.
TakeCombination ==
    /\ pc = "found"
    /\ \/ /\ query.kind \in {"rows", "limit"}
          /\ Return(Combination)
          /\ UNCHANGED cons
       \/ /\ query.kind = "exists"
          /\ Return(TRUE)
          /\ cons' = [cons EXCEPT !.emitted = TRUE]
       \/ /\ Counting
          /\ cons' = Counted(cons, 1)
          /\ pc' = "combine" /\ UNCHANGED <<out, ended>>
       \/ /\ Summing
          /\ cons' = Valued(cons, SetToBag({Combination[query.sum]}))
          /\ pc' = "combine" /\ UNCHANGED <<out, ended>>
    /\ UNCHANGED <<fixed, state, cdepth, last>>

\* A combination for a consumer that wants one for each binding.
TakeDistinct ==
    /\ pc = "found"
    /\ LET k == bind[query.key]
           new == k \notin cons.seen
       IN  \/ /\ query.kind = "distinct"
              /\ cons' = [cons EXCEPT !.seen = @ \cup {k}]
              /\ state' = [state EXCEPT !.ready = FALSE, !.combining = FALSE]
              /\ IF new THEN Return(k) ELSE pc' = "want" /\ UNCHANGED <<out, ended>>
           \/ /\ query.kind = "count_distinct"
              /\ cons' = [cons EXCEPT !.seen = @ \cup {k}, !.count = @ + (IF new THEN 1 ELSE 0)]
              /\ Consumed /\ UNCHANGED <<out, ended>>
           \/ /\ query.kind = "group_distinct"
              /\ cons' = [cons EXCEPT !.group.count = 1]
              /\ Consumed /\ UNCHANGED <<out, ended>>
    /\ UNCHANGED <<fixed, cdepth, last>>

\* The group is complete: a binding of another group, or none, follows it.  A
\* count of nothing returns no row; an aggregate always does.
CloseGroup ==
    /\ Grouped /\ cons.group.key # None
    /\ pc = "none" \/ (pc = "use" /\ cons.group.key # bind[query.key])
    /\ cons' = [cons EXCEPT !.group = NoGroup]
    /\ IF Summing THEN Return(<<cons.group.key, cons.values>>)
       ELSE IF cons.group.count > 0 THEN Return(<<cons.group.key, cons.group.count>>)
       ELSE UNCHANGED <<pc, out, ended>>
    /\ UNCHANGED <<fixed, state, cdepth, last>>

\* There is no further binding: the total, or the end of the scan.
Finish ==
    /\ pc = "none"
    /\ cons.group.key = None
    /\ IF query.kind \in {"count", "count_distinct", "sum"}
       THEN /\ Return(IF Summing THEN cons.values ELSE cons.count)
            /\ cons' = [cons EXCEPT !.emitted = TRUE]
       ELSE ReturnNone /\ UNCHANGED cons
    /\ UNCHANGED <<fixed, state, cdepth, last>>

-----------------------------------------------------------------------------
(* What the pattern means: the reference the executor is compared with.     *)

\* The key that row r of edge e has for variable v.
KeyAt(pat, e, r, v) == IF Var1(pat, e) = v THEN r[1] ELSE r[2]

\* A choice of a row for each edge such that the rows agree on every variable
\* two edges share, and each variable's vertex is one the vertex provider has.
IsJoin(pat, i, c) ==
    \A e \in Hyperedges(pat) :
        \A v \in Joined(pat, e) :
            /\ <<KeyAt(pat, e, c[pat.vars + e], v), 0, 0>> \in i[v]
            /\ \A f \in Hyperedges(pat) :
                   v \in Joined(pat, f) =>
                       KeyAt(pat, f, c[pat.vars + f], v) = KeyAt(pat, e, c[pat.vars + e], v)

\* Edges of one uniqueness group differ.
Unique(pat, c) ==
    \A e, f \in Hyperedges(pat) :
        e # f /\ pat.groups[e] \cap pat.groups[f] # {} => c[pat.vars + e][3] # c[pat.vars + f][3]

Joins(pat, i) ==
    LET edges == {pat.vars + e : e \in Hyperedges(pat)}
        all == {c \in [edges -> UNION {i[p] : p \in edges}] : \A p \in edges : c[p] \in i[p]}
    IN  {c \in all : IsJoin(pat, i, c)}

\* Every pattern over every input.
Worlds ==
    UNION {{[pat |-> n, input |-> i, joins |-> Joins(Patterns[n], i)] : i \in Inputs[n]} :
              n \in DOMAIN Patterns}

-----------------------------------------------------------------------------
\* The queries with their plans.
Planned ==
    {[pat |-> q.pat, plan |-> Plan(Patterns[q.pat]), kind |-> q.kind, key |-> q.key,
      sum |-> q.sum, goal |-> q.goal] : q \in Queries}

NewState == [materialized |-> FALSE, exhausted |-> FALSE, ready |-> FALSE,
             combining |-> FALSE]

Init ==
    /\ query \in Planned
    /\ \E w \in Worlds : w.pat = query.pat /\ input = w.input /\ joins = w.joins
    /\ rows = [p \in P |-> {}]
    /\ prefix = [p \in P |-> NoPrefix]
    /\ cache = [p \in P |-> NoRanges]
    /\ state = NewState
    /\ pc = "idle" /\ at = 0 /\ depth = 1 /\ cdepth = 1
    /\ level = [v \in Vars |-> NoLevel]
    /\ bind = [v \in Vars |-> 0]
    /\ bag = [p \in P |-> {}]
    /\ last = [p \in P |-> None]
    /\ cons = NewConsumer
    /\ out = <<>> /\ ended = FALSE

\* rescan_age_generic_join, between two calls: the providers may find other rows,
\* and everything that was made of the old ones is forgotten.
Rescan ==
    /\ pc = "idle"
    /\ \E w \in Worlds : w.pat = query.pat /\ input' = w.input /\ joins' = w.joins
    /\ rows' = [p \in P |-> {}]
    /\ prefix' = [p \in P |-> NoPrefix]
    /\ cache' = [p \in P |-> NoRanges]
    /\ state' = NewState
    /\ at' = 0 /\ depth' = 1 /\ cdepth' = 1
    /\ level' = [v \in Vars |-> NoLevel]
    /\ bind' = [v \in Vars |-> 0]
    /\ bag' = [p \in P |-> {}]
    /\ last' = [p \in P |-> None]
    /\ cons' = NewConsumer
    /\ out' = <<>> /\ ended' = FALSE
    /\ UNCHANGED <<query, pc>>

Execute ==
    \/ Materialize \/ ReduceSemijoinSteps \/ ReduceTailDomains \/ ReduceLeafTailSeparators
    \/ ReducePairSeparators \/ ReduceProviders
    \/ NextBinding \/ BuildLevel \/ TakeCandidate \/ Backtrack \/ Combine
    \/ OpenGroup \/ UseProduct \/ UseSmallBags \/ UseCombinations
    \/ TakeCombination \/ TakeDistinct \/ CloseGroup \/ Finish

Next == Call \/ Execute \/ Rescan

\* A call runs to its end in the backend that makes it.
Spec == Init /\ [][Next]_vars /\ WF_vars(Execute)

-----------------------------------------------------------------------------
(* Properties.                                                             *)

Matches == {c \in joins : Unique(Patterns[query.pat], c)}

KeyOf(c) == LET pat == Patterns[query.pat]
                e == CHOOSE f \in Hyperedges(pat) : query.key \in Joined(pat, f)
            IN  KeyAt(pat, e, c[pat.vars + e], query.key)
SumOf(S) == LET times(r) == Cardinality({c \in S : c[query.sum] = r})
            IN  [r \in {c[query.sum] : c \in S} |-> times(r)]

\* The rows the query returns of matches M.  No two are equal.
Answer(M) ==
    LET keys == {KeyOf(c) : c \in M}
        of(k) == {c \in M : KeyOf(c) = k}
    IN  CASE query.kind \in {"rows", "limit"} -> M
          [] query.kind = "exists" -> IF M = {} THEN {} ELSE {TRUE}
          [] query.kind = "count" -> {Cardinality(M)}
          [] query.kind = "count_distinct" -> {Cardinality(keys)}
          [] query.kind = "distinct" -> keys
          [] query.kind = "group_count" -> {<<k, Cardinality(of(k))>> : k \in keys}
          [] query.kind = "group_distinct" -> {<<k, 1>> : k \in keys}
          [] query.kind = "sum" -> {SumOf(M)}
          [] query.kind = "group_sum" -> {<<k, SumOf(of(k))>> : k \in keys}

\* A grouped aggregate also returns the groups all of whose combinations the
\* edge uniqueness rejected, with an aggregate of nothing.
EmptyGroups ==
    IF query.kind = "group_sum"
    THEN {<<k, EmptyBag>> : k \in {KeyOf(c) : c \in joins} \ {KeyOf(c) : c \in Matches}}
    ELSE {}

\* ResultExact: between two calls, what the scan has returned are rows of the
\* answer, each once, and a scan that has ended has returned all of them (or as
\* many as its LIMIT asks for), whatever was reduced, loaded, remembered,
\* counted by products or looked at in another order on the way, and whatever
\* an earlier scan of the same node had found.  The empty groups are the one
\* exception: access_age_generic_group_sum_property_scan returns all of them, which
\* access_age_generic_group_count_scan skips and binary joins do not have.
ResultExact ==
    LET answer == Answer(Matches) \cup EmptyGroups
    IN  pc = "idle" =>
            /\ IsInjective(out)
            /\ ToSet(out) \subseteq answer
            /\ ended => \/ Len(out) = Cardinality(answer)
                        \/ query.goal > 0 /\ Len(out) = query.goal

\* ReductionSafe: from the time the providers are read, no reduction takes a
\* vertex or an edge away that some join of the pattern needs: "stopping after
\* the budget affects only pruning strength, never result correctness", and so
\* does every step, separator and pass before it.
ReductionSafe ==
    LET pat == Patterns[query.pat]
    IN  state.materialized \/ pc \in {"steps", "tail", "separate", "pair", "pass"} =>
            \A c \in joins : \A e \in Hyperedges(pat) :
                LET p == pat.vars + e
                IN  /\ Lazy(p) \/ c[p] \in rows[p]
                    /\ \A v \in Joined(pat, e) : <<KeyAt(pat, e, c[p], v), 0, 0>> \in rows[v]

\* CallReturns: every call of the node comes back, with a row or without: the
\* passes end, the search visits no binding twice, and the combinations of a
\* binding run out.
CallReturns == pc # "idle" ~> pc = "idle"
=============================================================================
