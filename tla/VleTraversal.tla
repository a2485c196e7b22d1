--------------------------- MODULE VleTraversal ---------------------------
(***************************************************************************)
(* The search for variable-length paths: age_vle_traversal.c (frames, work *)
(* list, arena segments, compaction, active path), the candidates a vertex *)
(* gives (age_vle_candidate_source.c), the choice of the root              *)
(* (age_vle_root.c) and the iterator that drives them (age_vle.c).         *)
(*                                                                         *)
(* A frame is one edge appended to the path of its parent frame; a work    *)
(* item asks to visit a frame, or to leave it.  The frames one batch of    *)
(* candidates pushes are an arena segment; when all the work of a segment  *)
(* is done and no path under way goes through it, its frames are squeezed  *)
(* out of the array, and every index into the array is rewritten.          *)
(*                                                                         *)
(* Frames, work items and segments are numbered from 1, and 0 stands for   *)
(* the code's -1.  Vertices and edges are the numbers 1 .. n, in the order *)
(* the graph lists them.  Queries carry no label on the terminal vertex    *)
(* and no terminal property predicate.                                     *)
(***************************************************************************)
EXTENDS Integers, FiniteSets, SequencesExt

CONSTANTS
    Vertices,      \* the graph's vertices, 1 .. n
    Edges,         \* the graph's edges, 1 .. m
    Queries,       \* the queries, with their graph: see QueryType
    Unbounded,     \* the upper bound of [*n..]
    ProbeSegments, \* VLE_ARENA_REFERENCE_PROBE_SEGMENT_INTERVAL
    ProbeFrames,   \* VLE_ARENA_REFERENCE_PROBE_FRAME_INTERVAL
    CompactFrames, \* VLE_ARENA_COMPACTION_MIN_FRAME_COUNT
    MaxScans       \* bound: how often one context is scanned

Directions == {"right", "left", "none"}

\* The graph: where each edge starts and ends.  The query: the bounds, the
\* direction, the sets of edges its property map may ask for (a map that reads a
\* parameter or an earlier variable asks for others in another scan), the policy,
\* whether an index serves the outgoing and the incoming edges of a vertex and how
\* many candidates its scan buffers, and which of the two end vertices are given.
QueryType ==
    [from : [Edges -> Vertices], to : [Edges -> Vertices],
     lower : Nat, upper : Nat \cup {Unbounded}, dir : Directions,
     matches : SUBSET (SUBSET Edges), policy : {"lifo", "level"},
     out_source : BOOLEAN, in_source : BOOLEAN, buffer : Nat,
     start : BOOLEAN, end : BOOLEAN]

ASSUME VleAssumption ==
    /\ Vertices = 1 .. Cardinality(Vertices) /\ Vertices # {}
    /\ Edges = 1 .. Cardinality(Edges)
    /\ Unbounded \notin Nat
    /\ Queries \subseteq QueryType
    /\ ProbeSegments \in Nat /\ ProbeFrames \in Nat /\ CompactFrames \in Nat
    /\ MaxScans \in Nat

VARIABLES
    q,       \* the query; a context keeps it
    args,    \* the scan's arguments: the vertices given, [start, end], 0 for none,
             \* and the edges that satisfy its property map, [match]
    constraint, \* edge_property_constraint: the edges that satisfy the map the
                \* context was built with
    root,    \* VLETraversalRootDescriptor
    trav,    \* VLETraversalState
    pc,      \* "idle" between two calls of the iterator, "search", "done"
    zero,    \* zero_bound_pending
    scans,   \* how many scans began
    emitted  \* history: the paths this scan returned, as the query reads them
context == <<q, constraint>>
vars == <<context, args, root, trav, pc, zero, scans, emitted>>

-----------------------------------------------------------------------------
(* Frames and segments. *)

NoCounts == [closed |-> 0, unprobed |-> 0, unprobed_frames |-> 0, candidates |-> 0,
             candidate_frames |-> 0, compacted |-> 0, compacted_frames |-> 0]

EmptyTraversal ==
    [frames |-> <<>>, work |-> <<>>, segs |-> <<>>, cnt |-> NoCounts,
     edges |-> <<>>, vertices |-> <<>>, used |-> {}, matched |-> {}, checked |-> {},
     depth |-> 0, active |-> 0]

arena_segment(start, count, parent) ==
    [start |-> start, count |-> count, parent |-> parent, remaining |-> count,
     closed |-> FALSE, candidate |-> FALSE, compacted |-> FALSE]

\* A frame keeps, as history, the edges of the path it stands for.
frame(t, c, seg) ==
    [edge |-> c.edge, next |-> c.next, len |-> t.depth + 1, parent |-> t.active, seg |-> seg,
     trail |-> Append(t.edges, c.edge)]

work_item(kind, i, f, seg) == [kind |-> kind, frame |-> i, len |-> f.len, seg |-> seg]

\* One item of the segment's work less; with the last one the segment is closed.
record_work_consumed(t, s) ==
    LET left == t.segs[s].remaining - 1
        n == t.segs[s].count
        t1 == [t EXCEPT !.segs[s].remaining = left, !.segs[s].closed = left = 0]
    IN IF s = 0 THEN t
       ELSE IF left > 0 THEN t1
       ELSE [t1 EXCEPT !.cnt.closed = @ + 1, !.cnt.unprobed = @ + 1,
                       !.cnt.unprobed_frames = @ + n]

\* The walk up from frame i marks the segments it meets, and stops at one that
\* is marked: the frames of a segment have the same parent.
mark_referenced_chain(t, referenced, i) ==
    LET Mark[f \in 0 .. Len(t.frames)] ==
            IF f = 0 THEN {}
            ELSE IF t.frames[f].seg \in referenced THEN {}
            ELSE {t.frames[f].seg} \cup Mark[t.segs[t.frames[f].seg].parent]
    IN referenced \cup Mark[i]

\* Find the closed segments that neither the active path nor pending work needs.
probe_segments(t) ==
    LET referenced == FoldLeft(LAMBDA marked, w : mark_referenced_chain(t, marked, w.frame),
                               mark_referenced_chain(t, {}, t.active), t.work)
        new == {s \in DOMAIN t.segs : t.segs[s].closed /\ ~t.segs[s].candidate /\ s \notin referenced}
    IN [t EXCEPT
          !.segs = [s \in DOMAIN @ |-> [@[s] EXCEPT !.candidate = @ \/ s \in new]],
          !.cnt.candidates = @ + Cardinality(new),
          !.cnt.candidate_frames = @ + MapThenSumSet(LAMBDA s : t.segs[s].count, new),
          !.cnt.unprobed = 0, !.cnt.unprobed_frames = 0]

\* Runs of adjacent candidate segments, each a window of frames to drop.
collect_compaction_windows(t) ==
    LET Collect(windows, s) ==
            IF s.compacted \/ s.count = 0 \/ ~s.candidate THEN windows
            ELSE IF windows # <<>> /\ Last(windows).start + Last(windows).count = s.start
                 THEN Front(windows) \o
                      <<[Last(windows) EXCEPT !.count = @ + s.count]>>
            ELSE Append(windows, [start |-> s.start, count |-> s.count])
    IN FoldLeft(Collect, <<>>, t.segs)

\* Where a frame lies when the windows are gone; 0 if it goes with them.
frame_index_after_windows(i, windows) ==
    LET In(w) == w.start <= i /\ i < w.start + w.count
        Before(w) == w.start + w.count <= i
    IN IF i = 0 \/ (\E k \in DOMAIN windows : In(windows[k])) THEN 0
       ELSE i - FoldLeft(LAMBDA n, w : IF Before(w) THEN n + w.count ELSE n, 0, windows)

\* Mutant: the segments keep the old index of their parent frame.
rewrite_frame_indexes_StaleParent(t, windows) ==
    LET After(i) == frame_index_after_windows(i, windows)
        Gone(s) == ~s.compacted /\ After(s.start) = 0
        gone == {k \in DOMAIN t.segs : Gone(t.segs[k])}
    IN [t EXCEPT
          !.active = After(@),
          !.work = [k \in DOMAIN @ |-> [@[k] EXCEPT !.frame = After(@)]],
          !.frames = [k \in DOMAIN @ |->
                        IF After(k) = 0 THEN @[k] ELSE [@[k] EXCEPT !.parent = After(@)]],
          !.segs = [k \in DOMAIN @ |->
                      IF @[k].compacted THEN @[k]
                      ELSE IF k \in gone
                           THEN [@[k] EXCEPT !.start = 0, !.count = 0, !.compacted = TRUE]
                      ELSE [@[k] EXCEPT !.start = After(@)]],
          !.cnt.compacted = @ + Cardinality(gone),
          !.cnt.compacted_frames = @ + MapThenSumSet(LAMBDA k : t.segs[k].count, gone)]

\* Every index into the array of frames is rewritten: the active frame's, the
\* work items', the remaining frames' and segments' parents, the segments' starts.
rewrite_frame_indexes(t, windows) ==
    LET After(i) == frame_index_after_windows(i, windows)
        Gone(s) == ~s.compacted /\ After(s.start) = 0
        gone == {k \in DOMAIN t.segs : Gone(t.segs[k])}
    IN [t EXCEPT
          !.active = After(@),
          !.work = [k \in DOMAIN @ |-> [@[k] EXCEPT !.frame = After(@)]],
          !.frames = [k \in DOMAIN @ |->
                        IF After(k) = 0 THEN @[k] ELSE [@[k] EXCEPT !.parent = After(@)]],
          !.segs = [k \in DOMAIN @ |->
                      IF @[k].compacted THEN @[k]
                      ELSE IF k \in gone
                           THEN [@[k] EXCEPT !.parent = After(@), !.start = 0, !.count = 0,
                                             !.compacted = TRUE]
                      ELSE [@[k] EXCEPT !.parent = After(@), !.start = After(@)]],
          !.cnt.compacted = @ + Cardinality(gone),
          !.cnt.compacted_frames = @ + MapThenSumSet(LAMBDA k : t.segs[k].count, gone)]

move_frame_windows(frames, windows) ==
    LET live == SelectSeq([k \in DOMAIN frames |-> k],
                          LAMBDA k : frame_index_after_windows(k, windows) # 0)
    IN [k \in DOMAIN live |-> frames[live[k]]]

compact_windows(t) ==
    LET windows == collect_compaction_windows(t)
        t1 == rewrite_frame_indexes(t, windows)
    IN IF t.frames = <<>> \/ windows = <<>> THEN t
       ELSE [t1 EXCEPT !.frames = move_frame_windows(@, windows)]

refresh_compactable_candidates(t) ==
    LET due == /\ t.cnt.closed # t.cnt.candidates
               /\ \/ t.work = <<>>
                  \/ t.cnt.unprobed >= ProbeSegments
                  \/ t.cnt.unprobed_frames >= ProbeFrames
        t1 == IF due THEN probe_segments(t) ELSE t
        ready == /\ t1.cnt.candidates # t1.cnt.compacted
                 /\ \/ t1.cnt.candidate_frames - t1.cnt.compacted_frames >= CompactFrames
                    \/ t1.work = <<>>
    IN IF ready THEN compact_windows(t1) ELSE t1

-----------------------------------------------------------------------------
(* The active path. *)

clear_active_path(t) ==
    [t EXCEPT !.used = @ \ ToSet(t.edges), !.edges = <<>>,
              !.vertices = SubSeq(@, 1, Min({1, Len(@)})), !.depth = 0, !.active = 0]

\* Step onto frame i: age_vle_path_stacks_push and the bookkeeping around it.
path_push(t, i) ==
    LET f == t.frames[i]
    IN [t EXCEPT !.used = @ \cup {f.edge}, !.edges = Append(@, f.edge),
                 !.vertices = Append(@, f.next), !.depth = f.len, !.active = i]

\* The frames from the first of a path to frame i, by their parents.
frame_chain(t, i) ==
    LET Up[f \in 0 .. Len(t.frames)] ==
            IF f = 0 THEN <<>> ELSE Append(Up[t.frames[f].parent], f)
    IN Up[i]

\* The path is cleared and walked again, down the parents of the frame.
switch_active_path(t, i) ==
    IF t.active = i THEN t ELSE FoldLeft(path_push, clear_active_path(t), frame_chain(t, i))

reset(t, start) ==
    [EmptyTraversal EXCEPT !.used = clear_active_path(t).used,
                           !.matched = t.matched, !.checked = t.checked,
                           !.vertices = <<start>>]

-----------------------------------------------------------------------------
(* Candidates: what a vertex gives, and how they are pushed. *)

\* The edges of a set, in the order the graph lists them, each with the vertex
\* it leads to.
Candidates(es, next) ==
    LET order == SelectSeq([k \in 1 .. Cardinality(Edges) |-> k], LAMBDA e : e \in es)
    IN [k \in DOMAIN order |-> [edge |-> order[k], next |-> next[order[k]]]]

Outgoing(v) == {e \in Edges : q.from[e] = v}
Incoming(v) == {e \in Edges : q.to[e] = v}
Self(v) == Outgoing(v) \cap Incoming(v)

candidate_matches(t, c) ==
    IF c.edge \in t.used \cup t.checked THEN t
    ELSE [t EXCEPT !.checked = @ \cup {c.edge},
                   !.matched = IF c.edge \in constraint THEN @ \cup {c.edge} ELSE @ \ {c.edge}]

\* A segment for the candidates that are not on the path and match, if any.
push_candidate_batch_if_matched(t, cs) ==
    LET ok == SelectSeq(cs, LAMBDA c : c.edge \notin t.used /\ c.edge \in t.matched)
        seg == Len(t.segs) + 1
        new == [k \in DOMAIN ok |-> frame(t, ok[k], seg)]
        at == Len(t.frames)
    IN IF ok = <<>> THEN t
       ELSE [t EXCEPT
               !.segs = Append(@, arena_segment(at + 1, Len(ok), t.active)),
               !.frames = @ \o new,
               !.work = @ \o [k \in DOMAIN ok |-> work_item("visit", at + k, new[k], seg)]]

push_candidate_if_matched(t, c) == push_candidate_batch_if_matched(t, <<c>>)

\* The first candidate alone, then in one batch what the scan has buffered
\* behind it, and so on.
push_candidates_from_source(t, cs, buffer) ==
    LET lot == buffer + 1
        first(k) == (k - 1) * lot + 1
        behind(k) == SubSeq(cs, first(k) + 1, Min({first(k) + buffer, Len(cs)}))
        Push(s, k) ==
            LET s1 == FoldLeft(candidate_matches, s, <<cs[first(k)]>> \o behind(k))
            IN push_candidate_batch_if_matched(
                 push_candidate_if_matched(s1, cs[first(k)]), behind(k))
        lots == (Len(cs) + buffer) \div lot
    IN FoldLeft(Push, t, [k \in 1 .. lots |-> k])

\* An index on the edges of the query's label serves this direction.
uses_source(dir, outgoing) ==
    IF outgoing THEN q.out_source /\ dir # "left" ELSE q.in_source /\ dir # "right"

\* Mutant: the scan of the incoming edges repeats the self-loops.
source_candidates_SelfTwice(v, outgoing, used_out) ==
    IF outgoing THEN Candidates(Outgoing(v), q.to) ELSE Candidates(Incoming(v), q.from)

\* What the index gives: a self-loop both ways, unless the other scan gave it.
source_candidates(v, outgoing, used_out) ==
    IF outgoing THEN Candidates(Outgoing(v), q.to)
    ELSE Candidates(IF used_out THEN Incoming(v) \ Self(v) ELSE Incoming(v), q.from)

\* What the lists of the graph context give: a self-loop is in a list of its own,
\* and each list is left out if an index has given its edges.
packed_candidates(v, dir, used_out, used_in) ==
    (IF dir # "left" /\ ~used_out THEN Candidates(Outgoing(v) \ Self(v), q.to) ELSE <<>>)
    \o (IF dir # "right" /\ ~used_in THEN Candidates(Incoming(v) \ Self(v), q.from) ELSE <<>>)
    \o (IF ~used_out /\ ~used_in THEN Candidates(Self(v), q.to) ELSE <<>>)

push_candidates_from_vertex(t, v, dir) ==
    LET out == uses_source(dir, TRUE)
        in == uses_source(dir, FALSE)
        Scan(s, used, outgoing) ==
            IF ~used THEN s
            ELSE push_candidates_from_source(s, source_candidates(v, outgoing, out), q.buffer)
    IN push_candidates_from_source(Scan(Scan(t, out, TRUE), in, FALSE),
                                   packed_candidates(v, dir, out, in), 0)

-----------------------------------------------------------------------------
(* The root of the search. *)

path_function(a) ==
    IF a.start # 0 THEN IF a.end # 0 THEN "between" ELSE "from"
    ELSE IF a.end # 0 THEN "to" ELSE "all"

Reversed(dir) == CASE dir = "right" -> "left" [] dir = "left" -> "right" [] OTHER -> "none"

is_empty_length_range == q.upper # Unbounded /\ q.lower > q.upper
is_zero_length_only == q.lower = 0 /\ q.upper = 0
reached_upper_bound(len) == q.upper # Unbounded /\ len >= q.upper

get_vle_initial_edge_count(v, dir) ==
    Cardinality((IF dir # "left" THEN Outgoing(v) \ Self(v) ELSE {})
                \cup (IF dir # "right" THEN Incoming(v) \ Self(v) ELSE {}))
    + Cardinality(Self(v))

\* The search begins at the end vertex if only that one is given, or if it has
\* fewer edges; the path is then reversed when it is returned.  With neither
\* vertex given it begins at each vertex in turn.
init_root_from_setup(a) ==
    LET fn == path_function(a)
        swap == /\ fn = "between" /\ ~is_empty_length_range /\ ~is_zero_length_only
                /\ get_vle_initial_edge_count(a.end, Reversed(q.dir))
                     < get_vle_initial_edge_count(a.start, q.dir)
        reverse == fn = "to" \/ swap
        all == [k \in 1 .. Cardinality(Vertices) |-> k]
    IN [fn |-> fn, reverse |-> reverse,
        vs |-> IF fn = "all" THEN Head(all) ELSE IF reverse THEN a.end ELSE a.start,
        ve |-> IF swap THEN a.start ELSE a.end,
        dir |-> IF reverse THEN Reversed(q.dir) ELSE q.dir,
        next |-> CASE fn = "to" -> <<>> [] fn = "all" -> Tail(all) [] OTHER -> all]

\* A context that is used again keeps its direction, and whether it is reversed.
init_root_from_refresh(r, a) ==
    CASE r.fn = "all" -> [r EXCEPT !.vs = Head(r.next), !.next = Tail(r.next)]
      [] r.fn = "to" -> [r EXCEPT !.vs = a.end, !.ve = a.end]
      [] r.reverse /\ r.fn # "to" -> [r EXCEPT !.vs = a.end, !.ve = a.start]
      [] OTHER -> [r EXCEPT !.vs = a.start, !.ve = a.end]

load_initial_dfs_stacks(t, r) ==
    LET t1 == reset(t, r.vs)
    IN IF is_empty_length_range THEN t
       ELSE IF is_zero_length_only THEN t1
       ELSE push_candidates_from_vertex(t1, r.vs, r.dir)

has_zero_bound_start(r) ==
    /\ ~is_empty_length_range /\ q.lower = 0
    /\ r.fn = "between" => r.vs = r.ve

accepts_path(r, v, len) ==
    /\ r.fn = "between" => v = r.ve
    /\ len >= q.lower
    /\ q.upper = Unbounded \/ len <= q.upper

-----------------------------------------------------------------------------
(* The iterator. *)

\* The path that is returned is read off the frames, up from the active one; a
\* search from the far end is read the other way round.
build_container(t, r) ==
    LET chain == frame_chain(t, t.active)
        edges == [k \in DOMAIN chain |-> t.frames[chain[k]].edge]
        vertices == <<r.vs>> \o [k \in DOMAIN chain |-> t.frames[chain[k]].next]
    IN IF r.reverse THEN [vertices |-> Reverse(vertices), edges |-> Reverse(edges)]
       ELSE [vertices |-> vertices, edges |-> edges]

Emit(t, r) == emitted' = Append(emitted, build_container(t, r))

ArgsOf(query) ==
    [start : IF query.start THEN Vertices ELSE {0}, end : IF query.end THEN Vertices ELSE {0},
     match : query.matches]

Init ==
    /\ q \in Queries
    /\ args \in ArgsOf(q)
    /\ constraint = args.match
    /\ root = init_root_from_setup(args)
    /\ trav = load_initial_dfs_stacks(EmptyTraversal, root)
    /\ zero = has_zero_bound_start(root)
    /\ pc = "idle"
    /\ scans = 1
    /\ emitted = <<>>

\* age_vle_iterator_next is called: the path of length zero comes first.
NextEmpty ==
    /\ pc = "idle" /\ is_empty_length_range
    /\ pc' = "done"
    /\ UNCHANGED <<context, args, root, trav, zero, scans, emitted>>

NextZeroBound ==
    /\ pc = "idle" /\ zero
    /\ zero' = FALSE
    /\ Emit(trav, root)
    /\ UNCHANGED <<context, args, root, trav, pc, scans>>

NextSearch ==
    /\ pc = "idle" /\ ~zero /\ ~is_empty_length_range
    /\ pc' = "search"
    /\ UNCHANGED <<context, args, root, trav, zero, scans, emitted>>

select_next(t) == IF q.policy = "lifo" THEN Len(t.work) ELSE 1

Item == trav.work[select_next(trav)]
RemoveItem(t) == [t EXCEPT !.work = RemoveAt(@, select_next(t))]

\* Leave the frame: the path loses its last edge.
Backtrack ==
    /\ pc = "search" /\ trav.work # <<>> /\ Item.kind = "backtrack"
    /\ LET f == trav.frames[Item.frame]
           t == [RemoveItem(trav) EXCEPT
                   !.edges = Front(@), !.vertices = Front(@), !.depth = @ - 1,
                   !.active = f.parent, !.used = @ \ {f.edge}]
       IN trav' = refresh_compactable_candidates(t)
    /\ UNCHANGED <<context, args, root, pc, zero, scans, emitted>>

\* Visit the frame, extend the path unless it is as long as it may be, and
\* return it if it is one of those looked for.
Visit ==
    /\ pc = "search" /\ trav.work # <<>> /\ Item.kind = "visit"
    /\ LET f == trav.frames[Item.frame]
           at == IF q.policy = "level" THEN switch_active_path(trav, f.parent) ELSE trav
           t1 == record_work_consumed(RemoveItem(at), Item.seg)
           leave == IF q.policy = "level" THEN <<>>
                    ELSE <<work_item("backtrack", Item.frame, f, 0)>>
           t2 == path_push([t1 EXCEPT !.work = @ \o leave], Item.frame)
           t3 == refresh_compactable_candidates(t2)
           t4 == IF reached_upper_bound(f.len) THEN t3
                 ELSE push_candidates_from_vertex(t3, f.next, root.dir)
           seen == f.edge \in t1.used
           found == ~seen /\ accepts_path(root, f.next, f.len)
       IN /\ trav' = IF seen THEN refresh_compactable_candidates(t1) ELSE t4
          /\ pc' = IF found THEN "idle" ELSE pc
          /\ IF found THEN Emit(t4, root) ELSE UNCHANGED emitted
    /\ UNCHANGED <<context, args, root, zero, scans>>

\* The work is done: age_vle_consume_next_frame gives up.
Drained(t) ==
    refresh_compactable_candidates(IF q.policy = "level" THEN clear_active_path(t) ELSE t)

search_is_complete(r) == r.next = <<>> \/ r.fn \in {"between", "from"}

Finish ==
    /\ pc = "search" /\ trav.work = <<>> /\ search_is_complete(root)
    /\ trav' = Drained(trav)
    /\ pc' = "done"
    /\ UNCHANGED <<context, args, root, zero, scans, emitted>>

\* The next start vertex; its path of length zero is returned at once.
advance_vle_iterator_start ==
    /\ pc = "search" /\ trav.work = <<>> /\ ~search_is_complete(root)
    /\ root' = [root EXCEPT !.vs = Head(root.next), !.next = Tail(root.next)]
    /\ trav' = load_initial_dfs_stacks(Drained(trav), root')
    /\ zero' = FALSE
    /\ IF has_zero_bound_start(root')
       THEN pc' = "idle" /\ Emit(trav', root')
       ELSE UNCHANGED <<pc, emitted>>
    /\ UNCHANGED <<context, args, scans>>

\* The scan is repeated with other arguments, and the context is used again.  It
\* takes the vertices from them; the property map it was built with stays, and so
\* does what it knows of the edges it compared with it.  A context that has taken
\* the last vertex of the graph has nothing to begin with.
Rescan ==
    /\ pc = "done" /\ scans < MaxScans
    /\ scans' = scans + 1
    /\ emitted' = <<>>
    /\ args' \in ArgsOf(q)
    /\ IF root.fn = "all" /\ root.next = <<>>
       THEN UNCHANGED <<root, trav, zero, pc>>
       ELSE /\ root' = init_root_from_refresh(root, args')
            /\ trav' = load_initial_dfs_stacks(trav, root')
            /\ zero' = has_zero_bound_start(root')
            /\ pc' = "idle"
    /\ UNCHANGED context

Next ==
    \/ NextEmpty
    \/ NextZeroBound
    \/ NextSearch
    \/ Backtrack
    \/ Visit
    \/ Finish
    \/ advance_vle_iterator_start
    \/ Rescan

Spec == Init /\ [][Next]_vars

-----------------------------------------------------------------------------
(* Properties. *)

\* What the query asks for, by definition: the trails (no edge twice) that run
\* along its direction over edges that match.
Trails(match) ==
    LET Onward(p, es, next) ==
            {[vertices |-> Append(p.vertices, next[e]), edges |-> Append(p.edges, e)] :
                e \in (es \cap match) \ ToSet(p.edges)}
        Longer(p) ==
            (IF q.dir = "left" THEN {} ELSE Onward(p, Outgoing(Last(p.vertices)), q.to))
            \cup (IF q.dir = "right" THEN {} ELSE Onward(p, Incoming(Last(p.vertices)), q.from))
        OfLength[n \in 0 .. Cardinality(Edges)] ==
            IF n = 0 THEN {[vertices |-> <<v>>, edges |-> <<>>] : v \in Vertices}
            ELSE UNION {Longer(p) : p \in OfLength[n - 1]}
    IN UNION {OfLength[n] : n \in 0 .. Cardinality(Edges)}

Expected(a) ==
    {p \in Trails(a.match) :
        /\ a.start # 0 => Head(p.vertices) = a.start
        /\ a.end # 0 => Last(p.vertices) = a.end
        /\ Len(p.edges) >= q.lower
        /\ q.upper = Unbounded \/ Len(p.edges) <= q.upper}

\* The edges met on the way up from a frame, first edge first.
Chain(i) ==
    LET chain == frame_chain(trav, i) IN [k \in DOMAIN chain |-> trav.frames[chain[k]].edge]

\* Every variable has its type; indexes point at frames and segments there are.
TypeOK ==
    /\ args \in ArgsOf(q) /\ constraint \in q.matches
    /\ root \in [fn : {"between", "from", "to", "all"}, reverse : BOOLEAN, vs : Vertices,
                 ve : Vertices \cup {0}, dir : Directions, next : Seq(Vertices)]
    /\ trav.used \subseteq Edges /\ trav.matched \subseteq trav.checked
    /\ trav.checked \subseteq Edges
    /\ \A k \in DOMAIN trav.frames : /\ trav.frames[k].parent \in 0 .. k - 1
                                     /\ trav.frames[k].seg \in DOMAIN trav.segs
    /\ \A k \in DOMAIN trav.work : trav.work[k].frame \in DOMAIN trav.frames
    /\ trav.active \in 0 .. Len(trav.frames)
    /\ pc \in {"idle", "search", "done"}
    /\ zero \in BOOLEAN
    /\ scans \in 1 .. MaxScans

\* A scan returns exactly the trails it asks for, each of them once: whatever gives
\* the candidates (an index, the lists of the graph context, or one of each), at
\* whichever end the search begins, and although frames are dropped and renumbered
\* while it runs.  Two scans of a context that is used again are exceptions.  One
\* whose property map asks for other edges than the map the context was built with
\* returns the trails for that map, exactly: it is evaluated again and not read;
\* and one that is given neither vertex misses some: the first has used up the list
\* of vertices.  The level policy returns shorter paths before longer ones, as the
\* comment on age_vle_worklist_select_level_batch claims of the order of the queue.
ResultsExact ==
    pc # "search" =>
    LET want == Expected([args EXCEPT !.match = constraint])
    IN /\ ToSet(emitted) \subseteq want
       /\ Len(emitted) = Cardinality(ToSet(emitted))
       /\ pc = "done" /\ (root.fn = "all" => scans = 1) => ToSet(emitted) = want
       /\ q.policy = "level" =>
              \A i, j \in DOMAIN emitted :
                  i < j /\ (root.fn = "all" => Head(emitted[i].vertices) = Head(emitted[j].vertices))
                    => Len(emitted[i].edges) <= Len(emitted[j].edges)

\* The compaction of the frames changes no path that is still needed: up from the
\* frame of every work item, and from the active one, lie the edges that lay there
\* when the frame was pushed, in segments that are not up for reclaim.  And when a
\* search is over every frame has been given back, however far apart the probes are.
\* The state is well formed (TypeOK), and that holds in it.
IndexesSurvive ==
    /\ TypeOK
    /\ \A i \in {trav.active} \cup {trav.work[k].frame : k \in DOMAIN trav.work} :
          i # 0 => LET f == trav.frames[i]
                       s == trav.segs[f.seg]
                   IN /\ Chain(i) = f.trail
                      /\ f.len = Len(f.trail)
                      /\ ~s.candidate /\ i \in s.start .. s.start + s.count - 1
                      /\ s.parent = f.parent
    /\ pc = "done" => trav.frames = <<>> /\ \A k \in DOMAIN trav.segs : trav.segs[k].compacted
=============================================================================
