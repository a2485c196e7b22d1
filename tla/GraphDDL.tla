------------------------------ MODULE GraphDDL ------------------------------
(***************************************************************************)
(* create_graph, drop_graph, create_label and drop_label                     *)
(* (graph_commands.c, label_commands.c) in concurrent transactions, with     *)
(* what they share outside of transactions: the sequence of label ids and    *)
(* the slots of the version counters.                                        *)
(*                                                                         *)
(* The schema of a graph is created, renamed and dropped with its ag_graph   *)
(* row and has the same OID, so one row stands for both.  The two default    *)
(* labels of a graph are left out.  A label's table and its ag_label row are *)
(* kept apart: they are written at different times by different code.        *)
(***************************************************************************)
EXTENDS Integers, FiniteSets, FiniteSetsExt

CONSTANTS
    Backends,
    GraphNames,
    LabelNames,
    None,
    LABEL_ID_MAX,  \* the sequence of label ids cycles here
    MaxOid,        \* bound: OIDs given out
    MaxCalls       \* bound: calls of one backend

ASSUME MaxAssumption == LABEL_ID_MAX \in Nat \ {0} /\ MaxOid \in Nat /\ MaxCalls \in Nat
ASSUME NoneAssumption == None \notin Backends

Oids == 1 .. MaxOid
LabelIds == 1 .. LABEL_ID_MAX

VARIABLES
    ag_graph,   \* rows [oid, name, xmin, xmax] of graphs and their schemas
    ag_label,   \* rows [graph, name, id, relation, xmin, xmax]
    pg_class,   \* rows [oid, graph, name, xmin, xmax]: the tables of labels
    seq,        \* last value of each graph's sequence of label ids
    slots,      \* graphs that have a version counter
    locks,      \* [by, oid, mode] records, held to the end of the transaction
    not_found,  \* label ids that each backend remembers not to have found
    next_oid,
    call,       \* the call each backend is in
    excused     \* history: graphs whose counter nobody gives up (see SlotReleased)

vars == <<ag_graph, ag_label, pg_class, seq, slots, locks, not_found, next_oid, call, excused>>

\* A transaction is named by its backend; a row's xmin becomes None when it
\* commits, and rows of a transaction that rolls back are removed.
LiveFor(b, r) == r.xmin \in {b, None} /\ r.xmax # b
Committed(r) == r.xmin = None
InDoubt(b, r) == r.xmin \notin {b, None} \/ r.xmax \notin {b, None}

\* The graph of that name, as catalog scans and the caches of b show it.
Named(b, n) == {g \in ag_graph : g.name = n /\ LiveFor(b, g)}

Idle ==
    [op |-> "none", pc |-> "idle", graph |-> None, name |-> None, label |-> None,
     relation |-> None, id |-> 0, tries |-> 0, count |-> 0, tested |-> {}, drawn |-> {}]

Init ==
    /\ ag_graph = {} /\ ag_label = {} /\ pg_class = {}
    /\ seq = [g \in Oids |-> 0]
    /\ slots = {} /\ locks = {}
    /\ not_found = [b \in Backends |-> {}]
    /\ next_oid = 1
    /\ call = [b \in Backends |-> Idle]
    /\ excused = {}

CanCall(b) == call[b].pc = "idle" /\ call[b].count < MaxCalls

Begin(b, c) ==
    call' = [call EXCEPT ![b] = [c EXCEPT !.count = call[b].count + 1]]
End(b) == call' = [call EXCEPT ![b] = [Idle EXCEPT !.count = call[b].count]]

\* Locks on a schema or a table: those who create in it or write to it hold
\* "share", those who drop it hold "exclusive".
Conflicting(b, o, mode) ==
    {k \in locks : k.by # b /\ k.oid = o /\ "exclusive" \in {k.mode, mode}}
Locked(b, O, mode) == locks \cup {[by |-> b, oid |-> o, mode |-> mode] : o \in O}

\* An error ends the transaction: its rows go, what is outside of it stays.
RolledBack(b, rows) == {[r EXCEPT !.xmax = IF @ = b THEN None ELSE @] : r \in {r \in rows : r.xmin # b}}
Abort(b) ==
    /\ ag_graph' = RolledBack(b, ag_graph)
    /\ ag_label' = RolledBack(b, ag_label)
    /\ pg_class' = RolledBack(b, pg_class)
    /\ locks' = {k \in locks : k.by # b}
    /\ excused' = excused \cup {g.oid : g \in {g \in ag_graph : g.xmin = b}}
    /\ End(b)
    /\ UNCHANGED <<seq, slots, not_found, next_oid>>

-----------------------------------------------------------------------------
(* create_graph.                                                             *)

\* The schema, its sequence and the ag_graph row.  A unique index makes a second
\* creator of the name wait for the first and fail if that one commits.
CreateGraph(b, n) ==
    /\ CanCall(b) /\ next_oid <= MaxOid
    /\ ~\E g \in ag_graph : g.name = n /\ InDoubt(b, g)
    /\ \/ /\ Named(b, n) # {}
          /\ Abort(b)
       \/ /\ Named(b, n) = {}
          /\ ag_graph' = ag_graph \cup {[oid |-> next_oid, name |-> n, xmin |-> b, xmax |-> None]}
          /\ next_oid' = next_oid + 1
          /\ locks' = Locked(b, {next_oid}, "share")
          /\ Begin(b, Idle)
          /\ UNCHANGED <<ag_label, pg_class, seq, slots, not_found, excused>>

-----------------------------------------------------------------------------
(* create_label.                                                             *)

\* create_vlabel, create_elabel and the implicit creation by CREATE and MERGE:
\* the graph is looked up and the label must not exist.
CreateLabel(b, n, l) ==
    /\ CanCall(b)
    /\ \E g \in Named(b, n) :
          /\ ~\E r \in ag_label : r.graph = g.oid /\ r.name = l /\ LiveFor(b, r)
          /\ Begin(b, [Idle EXCEPT !.op = "create_label", !.pc = "table",
                                   !.graph = g.oid, !.name = n, !.label = l])
    /\ UNCHANGED <<ag_graph, ag_label, pg_class, seq, slots, locks, not_found, next_oid, excused>>

\* create_sequence_for_label and create_table_for_label: the schema is locked
\* and must still be there; the name must be free in it.
CreateTable(b) ==
    LET c == call[b] IN
    /\ c.pc = "table"
    /\ Conflicting(b, c.graph, "share") = {}
    /\ ~\E t \in pg_class : t.graph = c.graph /\ t.name = c.label /\ InDoubt(b, t)
    /\ \/ /\ \/ ~\E g \in Named(b, c.name) : g.oid = c.graph
             \/ \E t \in pg_class : t.graph = c.graph /\ t.name = c.label /\ LiveFor(b, t)
          /\ Abort(b)
       \/ /\ \E g \in Named(b, c.name) : g.oid = c.graph
          /\ ~\E t \in pg_class : t.graph = c.graph /\ t.name = c.label /\ LiveFor(b, t)
          /\ next_oid <= MaxOid
          /\ pg_class' = pg_class \cup {[oid |-> next_oid, graph |-> c.graph, name |-> c.label,
                                         xmin |-> b, xmax |-> None]}
          /\ next_oid' = next_oid + 1
          /\ locks' = Locked(b, {c.graph, next_oid}, "share")
          /\ call' = [call EXCEPT ![b].pc = "id", ![b].relation = next_oid]
          /\ UNCHANGED <<ag_graph, ag_label, seq, slots, not_found, excused>>

\* label_id_exists: a search of the label cache, which keeps what it did not find.
LabelIdExists(b, g, id) ==
    /\ <<g, id>> \notin not_found[b]
    /\ \E r \in ag_label : r.graph = g /\ r.id = id /\ LiveFor(b, r)

\* Mutant: one try less than there are ids.
MaxTries_Less == LABEL_ID_MAX - 1

MaxTries == LABEL_ID_MAX

\* nextval of the graph's sequence: MAXVALUE LABEL_ID_MAX, CYCLE.
NextVal(g) == IF seq[g] = LABEL_ID_MAX THEN 1 ELSE seq[g] + 1

\* One round of get_new_label_id: nextval of the cycling sequence and the test.
GetNewLabelId(b) ==
    LET c == call[b]
        id == NextVal(c.graph)
    IN  /\ c.pc = "id"
        /\ \/ /\ c.tries = MaxTries
              /\ call' = [call EXCEPT ![b].pc = "full"]
              /\ UNCHANGED <<seq, not_found>>
           \/ /\ c.tries < MaxTries
              /\ seq' = [seq EXCEPT ![c.graph] = id]
              /\ LET others == [d \in Backends |->
                                   IF call[d].pc = "id" /\ call[d].graph = c.graph
                                   THEN [call[d] EXCEPT !.drawn = @ \cup {id}] ELSE call[d]]
                 IN  IF LabelIdExists(b, c.graph, id)
                     THEN /\ call' = [others EXCEPT ![b] = [c EXCEPT !.tries = @ + 1,
                                                                    !.tested = @ \cup {id}]]
                          /\ UNCHANGED not_found
                     ELSE /\ call' = [others EXCEPT ![b] = [c EXCEPT !.id = id, !.pc = "insert"]]
                          /\ not_found' = [not_found EXCEPT ![b] = @ \cup {<<c.graph, id>>}]
        /\ UNCHANGED <<ag_graph, ag_label, pg_class, slots, locks, next_oid, excused>>

\* "no more new labels are available".
LabelsFull(b) == call[b].pc = "full" /\ Abort(b)

\* insert_label: unique indexes on (graph, id) and (graph, name) make it wait for
\* a transaction in doubt and fail if that one has committed such a row.
InsertLabel(b) ==
    LET c == call[b]
        rivals == {r \in ag_label : r.graph = c.graph /\ (r.id = c.id \/ r.name = c.label)}
    IN  /\ c.pc = "insert"
        /\ ~\E r \in rivals : InDoubt(b, r)
        /\ \/ /\ \E r \in rivals : LiveFor(b, r)
              /\ Abort(b)
           \/ /\ ~\E r \in rivals : LiveFor(b, r)
              /\ ag_label' = ag_label \cup {[graph |-> c.graph, name |-> c.label, id |-> c.id,
                                             relation |-> c.relation, xmin |-> b, xmax |-> None]}
              /\ End(b)
              /\ UNCHANGED <<ag_graph, pg_class, seq, slots, locks, not_found, next_oid, excused>>

-----------------------------------------------------------------------------
(* drop_label and drop_graph.                                                *)

Ending(b, rows, S) == {IF r \in S THEN [r EXCEPT !.xmax = b] ELSE r : r \in rows}

\* Mutant: only rows that are committed are looked up.
RowsOf_Committed(b, T) ==
    {r \in ag_label : LiveFor(b, r) /\ Committed(r) /\ \E t \in T : t.oid = r.relation}

\* The object access hook: for every table that is dropped, the ag_label row that
\* the cache knows for it goes too.
RowsOf(b, T) == {r \in ag_label : LiveFor(b, r) /\ \E t \in T : t.oid = r.relation}

\* drop_label: the label is looked up, its table is locked by name and dropped.
DropLabel(b, n, l) ==
    /\ CanCall(b)
    /\ \E g \in Named(b, n) : \E t \in pg_class :
          /\ t.graph = g.oid /\ t.name = l /\ LiveFor(b, t)
          /\ ~InDoubt(b, t) /\ Conflicting(b, t.oid, "exclusive") = {}
          /\ pg_class' = Ending(b, pg_class, {t})
          /\ ag_label' = Ending(b, ag_label, RowsOf(b, {t}))
          /\ locks' = Locked(b, {t.oid}, "exclusive")
    /\ Begin(b, Idle)
    /\ UNCHANGED <<ag_graph, seq, slots, not_found, next_oid, excused>>

\* drop_graph_internal up to its first lock: the graph exists, its OID is read.
DropGraph(b, n) ==
    /\ CanCall(b)
    /\ \E g \in Named(b, n) :
          Begin(b, [Idle EXCEPT !.op = "drop_graph", !.pc = "schema", !.graph = g.oid, !.name = n])
    /\ UNCHANGED <<ag_graph, ag_label, pg_class, seq, slots, locks, not_found, next_oid, excused>>

\* The tables that go with a schema, and that nobody else may hold then.
TablesOf(b, g) == {t \in pg_class : t.graph = g.oid /\ LiveFor(b, t)}
CanDrop(b, g) ==
    /\ ~InDoubt(b, g)
    /\ \A t \in {t \in pg_class : t.graph = g.oid} : t.xmax \in {b, None} /\ t.xmin \in {b, None}
    /\ \A o \in {g.oid} \cup {t.oid : t \in TablesOf(b, g)} : Conflicting(b, o, "exclusive") = {}

\* Mutant: the counter is not given up.
Released_None(c) == slots

\* remove_graph_version, with the OID that drop_graph_internal read first.
Released(c) == slots \ {c.graph}

\* The rest of it: the sequence and the schema are locked and found by name,
\* again; tables, labels and the graph's row go; the counter is given up at once.
DropSchema(b) ==
    LET c == call[b] IN
    /\ c.pc = "schema"
    /\ ~\E g \in ag_graph : g.name = c.name /\ InDoubt(b, g)
    /\ \/ /\ Named(b, c.name) = {}
          /\ Abort(b)
       \/ \E g \in Named(b, c.name) :
             /\ CanDrop(b, g)
             /\ ag_graph' = Ending(b, ag_graph, {g})
             /\ pg_class' = Ending(b, pg_class, TablesOf(b, g))
             /\ ag_label' = Ending(b, ag_label, RowsOf(b, TablesOf(b, g)))
             /\ slots' = Released(c)
             /\ excused' = IF g.oid = c.graph THEN excused ELSE excused \cup {g.oid}
             /\ locks' = Locked(b, {g.oid} \cup {t.oid : t \in TablesOf(b, g)}, "exclusive")
             /\ End(b)
             /\ UNCHANGED <<seq, not_found, next_oid>>

-----------------------------------------------------------------------------

\* A write executor, or the trigger of a table that is changed by SQL: the table
\* is locked, the graph's counter is raised.
Write(b) ==
    /\ call[b].pc = "idle"
    /\ \E t \in pg_class :
          /\ LiveFor(b, t) /\ Conflicting(b, t.oid, "share") = {}
          /\ locks' = Locked(b, {t.oid}, "share")
          /\ slots' = slots \cup {t.graph}
    /\ UNCHANGED <<ag_graph, ag_label, pg_class, seq, not_found, next_oid, call, excused>>

Kept(b, rows) ==
    {[r EXCEPT !.xmin = IF @ = b THEN None ELSE @] : r \in {r \in rows : r.xmax # b}}

Commit(b) ==
    /\ call[b].pc = "idle"
    /\ ag_graph' = Kept(b, ag_graph) /\ ag_label' = Kept(b, ag_label) /\ pg_class' = Kept(b, pg_class)
    /\ locks' = {k \in locks : k.by # b}
    /\ UNCHANGED <<seq, slots, not_found, next_oid, call, excused>>

\* ROLLBACK, a cancelled call, or the victim of a deadlock.
Rollback(b) == Abort(b)

\* An invalidation message that removes an entry makes the cache start again.
Forget(b) ==
    /\ not_found[b] # {}
    /\ not_found' = [not_found EXCEPT ![b] = {}]
    /\ UNCHANGED <<ag_graph, ag_label, pg_class, seq, slots, locks, next_oid, call, excused>>

Next ==
    \E b \in Backends :
       \/ \E n \in GraphNames :
             \/ CreateGraph(b, n)
             \/ DropGraph(b, n)
             \/ \E l \in LabelNames : CreateLabel(b, n, l) \/ DropLabel(b, n, l)
       \/ CreateTable(b)
       \/ GetNewLabelId(b)
       \/ LabelsFull(b)
       \/ InsertLabel(b)
       \/ DropSchema(b)
       \/ Write(b)
       \/ Commit(b)
       \/ Rollback(b)
       \/ Forget(b)

Spec == Init /\ [][Next]_vars

-----------------------------------------------------------------------------
(* Properties.                                                               *)

\* The rows of the catalogs, the locks and the calls.
Xids == Backends \cup {None}
GraphRow == [oid : Oids, name : GraphNames, xmin : Xids, xmax : Xids]
LabelRow == [graph : Oids, name : LabelNames, id : LabelIds, relation : Oids, xmin : Xids, xmax : Xids]
TableRow == [oid : Oids, graph : Oids, name : LabelNames, xmin : Xids, xmax : Xids]
LockType == [by : Backends, oid : Oids, mode : {"share", "exclusive"}]
CallType ==
    [op : {"none", "create_label", "drop_graph"},
     pc : {"idle", "table", "id", "full", "insert", "schema"},
     graph : Oids \cup {None}, name : GraphNames \cup {None}, label : LabelNames \cup {None},
     relation : Oids \cup {None}, id : 0 .. LABEL_ID_MAX, tries : 0 .. LABEL_ID_MAX,
     count : 0 .. MaxCalls, tested : SUBSET LabelIds, drawn : SUBSET LabelIds]

\* Type invariant.
TypeOK ==
    /\ ag_graph \subseteq GraphRow /\ ag_label \subseteq LabelRow /\ pg_class \subseteq TableRow
    /\ next_oid \in 1 .. MaxOid + 1
    /\ \A g \in ag_graph : g.oid < next_oid
    /\ \A t \in pg_class : t.oid < next_oid
    /\ seq \in [Oids -> 0 .. LABEL_ID_MAX]
    /\ slots \subseteq 1 .. next_oid - 1
    /\ locks \subseteq LockType
    /\ not_found \in [Backends -> SUBSET (Oids \X LabelIds)]
    /\ call \in [Backends -> CallType]
    /\ excused \subseteq Oids

\* In the catalogs as any transaction sees them between its calls, the labels
\* are those whose table exists, and they belong to a graph that exists: neither
\* the hook that deletes ag_label rows nor a race of drop_graph with create_label
\* leaves one behind.
\* The state is well formed (TypeOK), and that holds in it.
LabelsMatchTables ==
    /\ TypeOK
    /\ \A b \in Backends : call[b].pc = "idle" =>
           /\ {r.relation : r \in {r \in ag_label : LiveFor(b, r)}}
                 = {t.oid : t \in {t \in pg_class : LiveFor(b, t)}}
           /\ \A r \in ag_label : LiveFor(b, r) =>
                  \E g \in ag_graph : g.oid = r.graph /\ LiveFor(b, g)

\* "no more new labels" is said only after every id was found in use, or was
\* drawn meanwhile by somebody else who is creating a label: the loop goes once
\* around the sequence, wherever that started and whoever else draws from it.
FullIsFull ==
    \A b \in Backends : call[b].pc = "full" =>
        call[b].tested \cup call[b].drawn = LabelIds

\* A graph that is gone has no version counter, but for two cases in which
\* nobody gives it up: its creation was rolled back, and drop_graph dropped
\* another graph of the name than the one whose OID it had read.
SlotReleased ==
    \A g \in slots : g \in excused \/ \E r \in ag_graph : r.oid = g

\* A graph that is gone has no version counter.
DropReleasesSlot == \A g \in slots : \E r \in ag_graph : r.oid = g
=============================================================================
