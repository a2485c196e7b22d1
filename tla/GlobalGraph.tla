----------------------------- MODULE GlobalGraph -----------------------------
(***************************************************************************)
(* The per-backend list of GRAPH_global_contexts of age_global_graph.c: the *)
(* in-memory copies of graphs that variable-length path queries traverse,   *)
(* and the test that decides whether a copy may still be used.  Backends    *)
(* run transactions under READ COMMITTED (a snapshot per statement); a      *)
(* statement changes rows of one graph, with or without telling the         *)
(* counter, or asks for the context of one.                                 *)
(*                                                                         *)
(* A context is linked at the head of its list when it is created, so the   *)
(* list is a set of contexts ordered by their stamp, the newest first.      *)
(* get/increment/remove_graph_version are atomic here: that they may be     *)
(* seen so is what GraphVersion shows.                                      *)
(***************************************************************************)
EXTENDS Integers, FiniteSets

CONSTANTS
    Backends,
    Graphs,      \* graph OIDs
    Labels,      \* edge label OIDs
    NoLabel,     \* InvalidOid: all edge labels
    Parts,       \* what a load can bring: edges, edge properties, vertices
    Requests,    \* the load requests of the callers, [label, parts] records
    Modes,       \* version modes: "counter" (DSM or SHMEM), "snapshot"
    ChangedBefore, \* the counter of every graph at the beginning
    MaxXid,      \* bound: transactions that write
    MaxStmts     \* bound: statements in one behaviour

ASSUME ModeAssumption == Modes \subseteq {"counter", "snapshot"}
ASSUME LabelAssumption == NoLabel \notin Labels
ASSUME GraphAssumption == Graphs # {}
ASSUME BoundAssumption == ChangedBefore \in Nat /\ MaxXid \in Nat /\ MaxStmts \in Nat
ASSUME RequestAssumption ==
    Requests \subseteq [label : Labels \cup {NoLabel}, parts : SUBSET Parts]

VARIABLES
    version_mode,  \* how the server detects changes
    xact,      \* state of each transaction id
    next_xid,  \* the next transaction id to assign
    latest,    \* latestCompletedXid
    changes,   \* every row change made: graph, label, transaction, command, kind
    drop,      \* drop[g]: the transaction that dropped g last, 0 for none
    removals,  \* history: how often drop_graph gave up the counter of g
    version,   \* the shared version counter of each graph, 0 = not tracked
    pc,        \* what each backend is doing
    xid,       \* its transaction id, 0 while it has written nothing
    cid,       \* its command counter
    snap,      \* the active snapshot of its statement
    target,    \* the graph its statement is about
    mutex,     \* global_graph_contexts_container.mutex_lock is held
    contexts,  \* global_graph_contexts_container.contexts
    ret,       \* the context last returned, and how it was asked for
    stmts      \* statements started so far (bounded)

db == <<version_mode, xact, next_xid, latest, changes, drop, removals>>
local == <<xid, cid, snap, target>>
vars == <<version_mode, xact, next_xid, latest, changes, drop, removals, version,
          pc, xid, cid, snap, target, mutex, contexts, ret, stmts>>

Counting == version_mode = "counter"

Xids == 1 .. MaxXid
Running == {x \in Xids : xact[x] = "running"}
Least(S) == CHOOSE x \in S : \A y \in S : x <= y

-----------------------------------------------------------------------------
(* PostgreSQL's transactions and snapshots, as the code uses them.           *)

\* GetSnapshotData: xmax is one past the last transaction completed, xmin the
\* oldest one still running (the backend's own included), xip the others below
\* xmax that are running.
Snapshot(b) ==
    [xmin |-> Least({x \in Running : x < latest + 1} \cup {latest + 1}),
     xmax |-> latest + 1,
     xip |-> {x \in Running : x < latest + 1 /\ x # xid[b]},
     curcid |-> cid[b]]

NoSnapshot == [xmin |-> 0, xmax |-> 0, xip |-> {}, curcid |-> 0]

\* A row change is visible to backend b under its snapshot.
Visible(b, ch) ==
    IF ch.xid = xid[b]
    THEN ch.cid < snap[b].curcid
    ELSE /\ ch.xid < snap[b].xmax
         /\ ch.xid \notin snap[b].xip
         /\ xact[ch.xid] = "committed"

Of(g, l, S) == {ch \in S : ch.graph = g /\ (l = NoLabel \/ ch.label = l)}

\* The changes increment_graph_version is called for: by a Cypher clause, the
\* statement trigger or TRUNCATE.  Bulk loading and drop_label never call it.
Counted(S) == {ch \in S : ch.kind = "clause"}

\* What a scan of the label tables of g shows to b.
Content(b, g, l) == {ch \in Of(g, l, changes) : Visible(b, ch)}

\* The graph exists, or its drop was rolled back.
Exists(g) == drop[g] # 0 => xact[drop[g]] = "aborted"

\* The drops of the labels of g that l stands for.
LabelDrops(g, l) == {ch \in Of(g, l, changes) : ch.kind = "drop_label"}

\* Label l of g can be written to: its table is not dropped or about to be.
LabelExists(g, l) == \A ch \in LabelDrops(g, l) : xact[ch.xid] = "aborted"

-----------------------------------------------------------------------------
(* The contexts.                                                             *)

\* Mutant: the snapshot test forgets xmax.
is_ggctx_invalid_NoXmax(b, c) ==
    IF Counting /\ version[c.graph] > 0
    THEN c.version # version[c.graph]
    ELSE c.xmin # snap[b].xmin \/ c.curcid # snap[b].curcid

\* is_ggctx_invalid_with_snapshot: the counter decides once it is above 0, the
\* identifiers of the snapshot decide otherwise.
is_ggctx_invalid(b, c) ==
    IF Counting /\ version[c.graph] > 0
    THEN c.version # version[c.graph]
    ELSE \/ c.xmin # snap[b].xmin
         \/ c.xmax # snap[b].xmax
         \/ c.curcid # snap[b].curcid

\* graph_context_satisfies_edge_load, with the test on vertex metadata that
\* goes before it.
Satisfies(c, r) ==
    /\ r.parts \subseteq c.parts
    /\ \/ c.label = NoLabel
       \/ r.label # NoLabel /\ c.label = r.label

Newest(S) == CHOOSE c \in S : \A d \in S : d.stamp <= c.stamp

\* The sweep that begins manage_GRAPH_global_contexts_internal keeps the valid
\* contexts; the first of them that is for g and satisfies r is found.
Kept(b, S) == {c \in S : ~is_ggctx_invalid(b, c)}

Found(b, S, g, r) == {c \in Kept(b, S) : c.graph = g /\ Satisfies(c, r)}

\* The context created otherwise: its version and snapshot identifiers are set
\* when it is linked, its label and parts only after it is loaded.  "quiet" is
\* history: every counted change made so far is over and visible; "epoch" is
\* history too: which life of the counter the version was read in.
NewContext(b, S, g) ==
    [graph |-> g, label |-> NoLabel, parts |-> {},
     version |-> IF Counting THEN version[g] ELSE 0,
     xmin |-> snap[b].xmin, xmax |-> snap[b].xmax, curcid |-> snap[b].curcid,
     content |-> {}, loaded |-> FALSE,
     stamp |-> IF S = {} THEN 1 ELSE Newest(S).stamp + 1,
     epoch |-> removals[g],
     quiet |-> \A ch \in Counted(Of(g, NoLabel, changes)) :
                   xact[ch.xid] = "aborted" \/ (Visible(b, ch) /\ ch.xid # xid[b])]

-----------------------------------------------------------------------------

\* detect_version_mode has found shared memory for the counters, or not; with
\* them, the graphs were changed so often before the first statement.
Init ==
    /\ version_mode \in Modes
    /\ xact = [x \in Xids |-> "unused"]
    /\ next_xid = 1
    /\ latest = 0
    /\ changes = {}
    /\ drop = [g \in Graphs |-> 0]
    /\ removals = [g \in Graphs |-> 0]
    /\ version = [g \in Graphs |-> IF Counting THEN ChangedBefore ELSE 0]
    /\ pc = [b \in Backends |-> "idle"]
    /\ xid = [b \in Backends |-> 0]
    /\ cid = [b \in Backends |-> 0]
    /\ snap = [b \in Backends |-> NoSnapshot]
    /\ target = [b \in Backends |-> CHOOSE g \in Graphs : TRUE]
    /\ mutex = [b \in Backends |-> FALSE]
    /\ contexts = [b \in Backends |-> {}]
    /\ ret = [b \in Backends |-> <<>>]
    /\ stmts = 0

Goto(b, l) == pc' = [pc EXCEPT ![b] = l]

\* The statement is over and its snapshot is popped.
EndsStatement(b) ==
    /\ Goto(b, "open")
    /\ snap' = [snap EXCEPT ![b] = NoSnapshot]

\* A statement about graph g starts, in a transaction of its own unless one is
\* open, and takes its snapshot.
StartStatement(b, g) ==
    /\ pc[b] \in {"idle", "open"}
    /\ stmts < MaxStmts
    /\ stmts' = stmts + 1
    /\ snap' = [snap EXCEPT ![b] = Snapshot(b)]
    /\ target' = [target EXCEPT ![b] = g]
    /\ Goto(b, "stmt")
    /\ UNCHANGED <<db, version, xid, cid, mutex, contexts, ret>>

\* The backend's transaction gets an id before its first write.
AssignXid(b) ==
    IF xid[b] # 0
    THEN UNCHANGED <<xact, next_xid, xid>>
    ELSE /\ next_xid <= MaxXid
         /\ xact' = [xact EXCEPT ![next_xid] = "running"]
         /\ next_xid' = next_xid + 1
         /\ xid' = [xid EXCEPT ![b] = next_xid]

\* The rows of a label change.
WriteRows(b, l, kind, next) ==
    /\ pc[b] = "stmt"
    /\ Exists(target[b]) /\ LabelExists(target[b], l)
    /\ AssignXid(b)
    /\ changes' = changes \cup
           {[graph |-> target[b], label |-> l, xid |-> xid'[b], cid |-> cid[b],
             kind |-> kind]}
    /\ Goto(b, next)
    /\ UNCHANGED <<version_mode, latest, drop, removals, version, cid, snap,
                   target, mutex, contexts, ret, stmts>>

\* CREATE, DELETE, SET, MERGE, or plain SQL with the statement trigger.
ChangeRows(b, l) == WriteRows(b, l, "clause", "bump")

\* load_labels_from_file or load_edges_from_file: heap_multi_insert fires no
\* trigger, and nothing raises the counter.
LoadRows(b, l) == WriteRows(b, l, "load", "end")

\* drop_label, which waits for the writers of the label and removes its table
\* with all rows.  Nothing raises the counter here either.
DropLabel(b, l) ==
    /\ \A ch \in Of(target[b], l, changes) :
           xact[ch.xid] = "running" => ch.xid = xid[b]
    /\ WriteRows(b, l, "drop_label", "end")

\* CommandCounterIncrement ends such a statement.
EndCommand(b) ==
    /\ pc[b] = "end"
    /\ cid' = [cid EXCEPT ![b] = @ + 1]
    /\ EndsStatement(b)
    /\ UNCHANGED <<db, version, xid, target, mutex, contexts, ret, stmts>>

\* increment_graph_version at the end of the clause or in the statement trigger,
\* while the transaction is still open; then the command counter.
BumpVersion(b) ==
    /\ pc[b] = "bump"
    /\ version' = [version EXCEPT ![target[b]] = IF Counting THEN @ + 1 ELSE @]
    /\ cid' = [cid EXCEPT ![b] = @ + 1]
    /\ EndsStatement(b)
    /\ UNCHANGED <<db, xid, target, mutex, contexts, ret, stmts>>

\* Mutant: the mutex is unlocked before the load, not after it.
Manage_UnlockEarly(b, S, r, kind) ==
    LET g == target[b]
        f == Found(b, S, g, r)
        n == NewContext(b, Kept(b, S), g)
    IN  /\ ~mutex[b]
        /\ \/ /\ f # {}
              /\ contexts' = [contexts EXCEPT ![b] = Kept(b, S)]
              /\ ret' = [ret EXCEPT ![b] = <<Newest(f), r, kind, "cached">>]
              /\ Goto(b, "returned")
           \/ /\ f = {} /\ Exists(g)
              /\ contexts' = [contexts EXCEPT ![b] = Kept(b, S) \cup {n}]
              /\ ret' = [ret EXCEPT ![b] = <<n, r, kind, "new">>]
              /\ Goto(b, "load")
        /\ UNCHANGED <<db, version, local, mutex, stmts>>

\* manage_GRAPH_global_contexts_internal on the list S: sweep, then return the
\* context found or link a new one, whose load keeps the mutex.
Manage(b, S, r, kind) ==
    LET g == target[b]
        f == Found(b, S, g, r)
        n == NewContext(b, Kept(b, S), g)
    IN  /\ ~mutex[b]
        /\ \/ /\ f # {}
              /\ contexts' = [contexts EXCEPT ![b] = Kept(b, S)]
              /\ ret' = [ret EXCEPT ![b] = <<Newest(f), r, kind, "cached">>]
              /\ Goto(b, "returned")
              /\ UNCHANGED mutex
           \/ /\ f = {} /\ Exists(g)
              /\ contexts' = [contexts EXCEPT ![b] = Kept(b, S) \cup {n}]
              /\ ret' = [ret EXCEPT ![b] = <<n, r, kind, "new">>]
              /\ mutex' = [mutex EXCEPT ![b] = TRUE]
              /\ Goto(b, "load")
        /\ UNCHANGED <<db, version, local, stmts>>

\* A query on a variable-length path asks for the graph.  An edge label it names
\* is one that b finds in the catalog.
Query(b, r) ==
    /\ pc[b] = "stmt"
    /\ r.label # NoLabel =>
           \A ch \in LabelDrops(target[b], r.label) :
               xact[ch.xid] # "committed" /\ ch.xid # xid[b]
    /\ Manage(b, contexts[b], r, "vle")

\* Mutant: the last context of the graph is deleted, not the first.
WithoutFirst_Last(S, g) ==
    {c \in S : c.graph # g \/ \E d \in S : d.graph = g /\ d.stamp < c.stamp}

\* The list without the first context of g (delete_specific_GRAPH_global_
\* context_by_oid returns after the first match).
WithoutFirst(S, g) ==
    LET T == {c \in S : c.graph = g}
    IN  IF T = {} THEN S ELSE S \ {Newest(T)}

\* age_graph_stats: delete, then ask for the whole graph.
GraphStats(b) ==
    /\ pc[b] = "stmt"
    /\ Manage(b, WithoutFirst(contexts[b], target[b]),
              [label |-> NoLabel, parts |-> Parts], "stats")

\* Mutant: the version is read after the load instead of before it.
Load_VersionAfter(b) ==
    /\ pc[b] = "load"
    /\ ret[b][2].parts # {} =>
           \A ch \in LabelDrops(target[b], ret[b][2].label) :
               xact[ch.xid] = "aborted" \/ Visible(b, ch)
    /\ LET n == ret[b][1]
           r == ret[b][2]
           seen == IF r.parts = {} THEN {} ELSE Content(b, n.graph, r.label)
           m == [n EXCEPT !.content = seen, !.loaded = TRUE,
                          !.label = r.label, !.parts = r.parts,
                          !.version = version[n.graph]]
       IN  /\ contexts' = [contexts EXCEPT ![b] = (@ \ {n}) \cup {m}]
           /\ ret' = [ret EXCEPT ![b] = <<m, @[2], @[3], @[4]>>]
    /\ mutex' = [mutex EXCEPT ![b] = FALSE]
    /\ Goto(b, "returned")
    /\ UNCHANGED <<db, version, local, stmts>>

\* load_GRAPH_global_hashtables and freeze, under the active snapshot; unlock.
\* A load of no part reads no table: its traversals read an index instead.  The
\* labels are listed under the snapshot: a table that is being dropped is waited
\* for, and one that is gone is an error (Abort).
Load(b) ==
    /\ pc[b] = "load"
    /\ ret[b][2].parts # {} =>
           \A ch \in LabelDrops(target[b], ret[b][2].label) :
               xact[ch.xid] = "aborted" \/ Visible(b, ch)
    /\ LET n == ret[b][1]
           r == ret[b][2]
           seen == IF r.parts = {} THEN {} ELSE Content(b, n.graph, r.label)
           m == [n EXCEPT !.content = seen, !.loaded = TRUE,
                          !.label = r.label, !.parts = r.parts]
       IN  /\ contexts' = [contexts EXCEPT ![b] = (@ \ {n}) \cup {m}]
           /\ ret' = [ret EXCEPT ![b] = <<m, @[2], @[3], @[4]>>]
    /\ mutex' = [mutex EXCEPT ![b] = FALSE]
    /\ Goto(b, "returned")
    /\ UNCHANGED <<db, version, local, stmts>>

\* The context was used; the statement ends.
EndStatement(b) ==
    /\ pc[b] = "returned"
    /\ ret' = [ret EXCEPT ![b] = <<>>]
    /\ EndsStatement(b)
    /\ UNCHANGED <<db, version, xid, cid, target, mutex, contexts, stmts>>

\* age_delete_global_graphs with a graph name, and without one.
DeleteGraphContext(b) ==
    /\ pc[b] = "stmt" /\ ~mutex[b]
    /\ contexts' = [contexts EXCEPT ![b] = WithoutFirst(@, target[b])]
    /\ EndsStatement(b)
    /\ UNCHANGED <<db, version, xid, cid, target, mutex, ret, stmts>>

DeleteAllContexts(b) ==
    /\ pc[b] = "stmt" /\ ~mutex[b]
    /\ contexts' = [contexts EXCEPT ![b] = {}]
    /\ EndsStatement(b)
    /\ UNCHANGED <<db, version, xid, cid, target, mutex, ret, stmts>>

\* drop_graph, which takes the tables' locks and so waits for their writers,
\* and gives up the counter at once.
DropGraph(b) ==
    /\ pc[b] = "stmt"
    /\ Exists(target[b])
    /\ \A ch \in Of(target[b], NoLabel, changes) :
           xact[ch.xid] = "running" => ch.xid = xid[b]
    /\ AssignXid(b)
    /\ drop' = [drop EXCEPT ![target[b]] = xid'[b]]
    /\ removals' = [removals EXCEPT ![target[b]] = @ + 1]
    /\ version' = [version EXCEPT ![target[b]] = 0]
    /\ cid' = [cid EXCEPT ![b] = @ + 1]
    /\ EndsStatement(b)
    /\ UNCHANGED <<version_mode, latest, changes, target, mutex, contexts, ret,
                   stmts>>

\* The transaction ends; a transaction without an id leaves no trace.
Finish(b, outcome) ==
    /\ xact' = IF xid[b] = 0 THEN xact ELSE [xact EXCEPT ![xid[b]] = outcome]
    /\ latest' = IF xid[b] > latest THEN xid[b] ELSE latest
    /\ xid' = [xid EXCEPT ![b] = 0]
    /\ ret' = [ret EXCEPT ![b] = <<>>]
    /\ cid' = [cid EXCEPT ![b] = 0]
    /\ snap' = [snap EXCEPT ![b] = NoSnapshot]
    /\ Goto(b, "idle")
    /\ UNCHANGED <<version_mode, next_xid, changes, drop, removals, version,
                   target, mutex, contexts, stmts>>

Commit(b) == pc[b] = "open" /\ Finish(b, "committed")

\* ROLLBACK, or an error anywhere in a statement; contexts, counters and a
\* mutex that is held stay as they are.
Abort(b) == pc[b] # "idle" /\ Finish(b, "aborted")

\* Statements are used up and no transaction is open.
Quiesce ==
    /\ stmts = MaxStmts
    /\ \A b \in Backends : pc[b] = "idle"
    /\ UNCHANGED vars

Step(b) ==
    \/ \E g \in Graphs : StartStatement(b, g)
    \/ \E l \in Labels : ChangeRows(b, l) \/ LoadRows(b, l) \/ DropLabel(b, l)
    \/ BumpVersion(b) \/ EndCommand(b)
    \/ \E r \in Requests : Query(b, r)
    \/ GraphStats(b) \/ Load(b) \/ EndStatement(b)
    \/ DeleteGraphContext(b) \/ DeleteAllContexts(b) \/ DropGraph(b)
    \/ Commit(b) \/ Abort(b)

Next == (\E b \in Backends : Step(b)) \/ Quiesce

Spec == Init /\ [][Next]_vars

-----------------------------------------------------------------------------

States == {"idle", "open", "stmt", "bump", "end", "load", "returned"}
Kinds == {"clause", "load", "drop_label"}
Changes ==
    [graph : Graphs, label : Labels, xid : Xids, cid : Nat, kind : Kinds]
Contexts ==
    [graph : Graphs, label : Labels \cup {NoLabel}, parts : SUBSET Parts,
     version : Nat, xmin : Nat, xmax : Nat, curcid : Nat,
     content : SUBSET Changes, loaded : BOOLEAN, stamp : Nat, epoch : Nat,
     quiet : BOOLEAN]

\* Every variable has its type.
TypeOK ==
    /\ version_mode \in Modes
    /\ xact \in [Xids -> {"unused", "running", "committed", "aborted"}]
    /\ next_xid \in 1 .. MaxXid + 1
    /\ latest \in 0 .. MaxXid
    /\ changes \in SUBSET Changes
    /\ drop \in [Graphs -> 0 .. MaxXid]
    /\ removals \in [Graphs -> Nat]
    /\ version \in [Graphs -> Nat]
    /\ pc \in [Backends -> States]
    /\ xid \in [Backends -> 0 .. MaxXid]
    /\ cid \in [Backends -> Nat]
    /\ snap \in [Backends -> [xmin : Nat, xmax : Nat, xip : SUBSET Xids,
                              curcid : Nat]]
    /\ target \in [Backends -> Graphs]
    /\ mutex \in [Backends -> BOOLEAN]
    /\ contexts \in [Backends -> SUBSET Contexts]
    /\ stmts \in Nat

Given(b) == ret[b][1]
AskedLabel(b) == ret[b][2].label

\* What the context given to b shows of the labels b asked for is what b's
\* snapshot shows.
Exact(b) == ret[b][2].parts # {} =>
    Of(target[b], AskedLabel(b), Given(b).content) =
        Content(b, target[b], AskedLabel(b))

\* The same of the changes the counter is told of.
ExactCounted(b) == ret[b][2].parts # {} =>
    Counted(Of(target[b], AskedLabel(b), Given(b).content)) =
        Counted(Content(b, target[b], AskedLabel(b)))

\* The counter of b's graph has not been given up since b's context was built.
SameEpoch(b) == Given(b).epoch = removals[target[b]]

\* The context a caller gets is for its graph, has what was asked for, is still
\* in the list, and is completely loaded: an error in the middle of a load must
\* not leave a half-built context to be found by a later query.
\* The state is well formed (TypeOK), and that holds in it.
ReturnedUsable ==
    /\ TypeOK
    /\ \A b \in Backends : pc[b] = "returned" =>
           /\ Given(b) \in contexts[b] /\ Given(b).loaded
           /\ Given(b).graph = target[b] /\ Satisfies(Given(b), ret[b][2])

\* With the counter, a context built while no transaction had uncommitted or
\* unseen counted changes in the graph is given out only while it shows exactly
\* the counted changes the caller's snapshot shows: one made later, by whichever
\* backend, committed, rolled back or its own, is noticed.  Two things are
\* excepted, because the counter does not tell them: what bulk loading and
\* drop_label change, since neither raises the counter (Counted), and contexts
\* from before the last drop_graph that gave up the counter, rolled back or not,
\* since it starts from 0 again and comes to the old number (SameEpoch).
ExactIfQuiet ==
    \A b \in Backends :
        Counting /\ pc[b] = "returned" /\ Given(b).quiet /\ SameEpoch(b) =>
            ExactCounted(b)

\* Without the counter, the identifiers of the snapshot are enough for a context
\* that was built while no transaction below xmax was running.
ExactIfNoneRunning ==
    \A b \in Backends :
        ~Counting /\ pc[b] = "returned" /\ Given(b).xmin = Given(b).xmax =>
            Exact(b)


\* graph_stats always loads the graph anew, although it deletes only the first
\* context of the graph and several may be in the list: a context that has the
\* whole graph is always the first one.
StatsReloads ==
    \A b \in Backends :
        pc[b] = "returned" /\ ret[b][3] = "stats" => ret[b][4] = "new"
=============================================================================
