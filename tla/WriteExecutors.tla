--------------------------- MODULE WriteExecutors ---------------------------
(***************************************************************************)
(* The executors of CREATE, SET, MERGE and DELETE (cypher_create.c,          *)
(* cypher_set.c, cypher_merge.c, cypher_delete.c, cypher_utils.c) in          *)
(* concurrent READ COMMITTED transactions, over a heap of row versions.      *)
(*                                                                         *)
(* A statement is the rows its MATCH can bind and a sequence of writing      *)
(* clauses.  Rows are pulled through the clauses one at a time, but for a    *)
(* MERGE in the middle, which takes all of them first; when they are used up *)
(* the clauses are ended from the last to the first.  One step is one item   *)
(* of a SET or DELETE list, one path of a CREATE or MERGE, or one connected  *)
(* edge: what lies between two of them can wait for a row lock.              *)
(*                                                                         *)
(* MATCH binds its rows at once under the snapshot of the statement, as a    *)
(* plan that hashes or sorts does.  Properties of an entity are one value.   *)
(* A new path has one vertex, and an edge to it if it starts at a variable.  *)
(***************************************************************************)
EXTENDS Integers, Sequences, FiniteSets, FiniteSetsExt

CONSTANTS
    Txns,        \* transactions, one per session
    Boot,        \* the committed transaction that made the first rows
    None,        \* no transaction, no value
    Null,        \* a variable that is NULL in a row (OPTIONAL MATCH)
    Vars,        \* variables of a query
    Graph,       \* the rows at the beginning: [id, ends, val] records
    Protected,   \* ids that a row security policy hides from writes
    Scripts      \* bound: for each transaction, the queries that its first, second,
                 \* ... statement may be: [rows, clauses, match, terminal] records

ASSUME TxnAssumption ==
    Boot \notin Txns /\ None \notin Txns \cup {Boot} /\ DOMAIN Scripts = Txns

\* A query: its rows, one clause or more, and in a SET or DELETE one item or more.
\* A path of CREATE that ends at a variable is an edge and starts at one too.
List(s) == Len(s) \in Nat /\ DOMAIN s = 1 .. Len(s)
IsQuery(q) ==
    /\ List(q.rows) /\ List(q.clauses) /\ Len(q.clauses) > 0 /\ q.terminal \in BOOLEAN
    /\ \A k \in DOMAIN q.clauses :
          /\ q.clauses[k].op \in {"create", "set", "merge", "delete"}
          /\ q.clauses[k].op \in {"set", "delete"} =>
                 List(q.clauses[k].items) /\ Len(q.clauses[k].items) > 0
          /\ q.clauses[k].op = "create" /\ q.clauses[k].from = None => q.clauses[k].to = None

ASSUME GraphAssumption ==
    /\ List(Graph) /\ Len(Graph) > 0
    /\ \A n \in DOMAIN Graph : Graph[n].id \in Nat \ {0}
    /\ \A m, n \in DOMAIN Graph : Graph[m].id = Graph[n].id => m = n

\* The first rows are a graph: an edge is between vertices that are there.
ASSUME EdgeAssumption ==
    \A n \in DOMAIN Graph : \A e \in DOMAIN Graph[n].ends :
        \E m \in DOMAIN Graph : Graph[m].id = Graph[n].ends[e] /\ Graph[m].ends = <<>>

ASSUME ScriptAssumption ==
    \A t \in Txns : \A n \in DOMAIN Scripts[t] : \A q \in Scripts[t][n] : IsQuery(q)

\* A row binds every variable to an entity or to NULL; a query without MATCH before
\* its clauses has one row; a path of MERGE starts at a variable or is a vertex.
ASSUME RowAssumption ==
    /\ "m" \in Vars /\ Null \notin Nat /\ None \notin Nat \cup {Null}
    /\ \A t \in Txns : \A n \in DOMAIN Scripts[t] : \A q \in Scripts[t][n] :
          /\ \A r \in DOMAIN q.rows : q.rows[r] \in [Vars -> Nat \cup {Null}]
          /\ ~q.match => Len(q.rows) = 1
          /\ \A k \in DOMAIN q.clauses :
                q.clauses[k].op = "merge" => q.clauses[k].from \in Vars \cup {None}

VARIABLES
    heap,     \* row versions, in the order they were written
    next_id,  \* the sequence that entity ids come from
    version,  \* the version counter of the graph
    status,   \* of each transaction
    tx        \* where each transaction is in its statement

vars == <<heap, next_id, version, status, tx>>

\* The numbers of a set, from the least to the greatest.
InOrder(S) ==
    [n \in 1 .. Cardinality(S) |-> CHOOSE i \in S : Cardinality({j \in S : j <= i}) = n]

Committed(x) == x = Boot \/ (x \in Txns /\ status[x] = "committed")
IsVertex(v) == v.ends = <<>>

\* A row version.  "by", "see" and "pat" are history: who made the entity, which
\* transactions its statement saw, and the pattern if MERGE made it; "xsee" is
\* what the statement saw that ended the version.
Row(id, ends, val, x, c, see, pat) ==
    [id |-> id, ends |-> ends, val |-> val, xmin |-> x, cmin |-> c,
     xmax |-> None, cmax |-> 0, by |-> x, see |-> see, pat |-> pat, xsee |-> {}]

-----------------------------------------------------------------------------
(* PostgreSQL's visibility and row locks, as the executors use them.         *)

\* HeapTupleSatisfiesMVCC for the snapshot of t with command id c.
Sees(t, snap, c, v) ==
    /\ IF v.xmin = t THEN v.cmin < c ELSE v.xmin \in snap
    /\ ~(IF v.xmax = t THEN v.cmax < c ELSE v.xmax \in snap)
VisibleAt(t, c, v) == Sees(t, tx[t].snap, c, v)

Find(t, c, id) == {i \in DOMAIN heap : heap[i].id = id /\ VisibleAt(t, c, heap[i])}

\* HeapTupleSatisfiesUpdate, which decides what heap_lock_tuple returns.
LockResult(t, i) ==
    LET v == heap[i] IN
    CASE v.xmax = None -> "ok"
      [] v.xmax = t -> IF v.cmax >= tx[t].cid THEN "self_modified" ELSE "invisible"
      [] v.xmax \in Txns \ {t} /\ status[v.xmax] = "aborted" -> "ok"
      [] v.xmax \in Txns \ {t} /\ status[v.xmax] = "running" -> "wait"
      [] OTHER -> "updated"

\* Mutant: a version that another transaction replaced is written all the same.
Writable_Updated(t, i) == LockResult(t, i) \in {"ok", "updated"}

\* update_entity_tuple and delete_entity write a version they could lock.
Writable(t, i) == LockResult(t, i) = "ok"

\* CommandCounterIncrement: only a command id that was used is left behind.
CommandCounterIncrement(x) ==
    IF x.used THEN [x EXCEPT !.cid = @ + 1, !.used = FALSE] ELSE x

Ended(t, i, c) ==
    [heap EXCEPT ![i].xmax = t, ![i].cmax = c, ![i].xsee = tx[t].snap \cup {t}]

-----------------------------------------------------------------------------
(* The cursor of a statement.                                                *)

Clauses(x) == x.stmt.clauses
Clause(x) == x.stmt.clauses[x.k]
CurrentRow(x) == x.rows[x.r]

\* A MERGE that is neither the first nor the last clause takes all of its rows
\* before it gives one to the next clause ("we eagerly process ALL input rows").
Eager(x, k) ==
    Clauses(x)[k].op = "merge" /\ (x.stmt.match \/ k > 1) /\ k < Len(Clauses(x))
StageEnd(x) == Min({k \in x.k .. Len(Clauses(x)) : Eager(x, k) \/ k = Len(Clauses(x))})
StageStart(x) == Max({0} \cup {k \in 1 .. x.k - 1 : Eager(x, k)}) + 1

\* The clause that the next row begins with: the first of these or, if the row is
\* a further match of the same input row, the MERGE that found it.
NextStart(x) == IF x.r < x.upto THEN x.k ELSE StageStart(x)

IsTerminal(x) == x.k = Len(Clauses(x)) /\ x.stmt.terminal

\* A row goes on to the next clause, or the next row is pulled: every clause it
\* is pulled through decrements the snapshot's command id and increments it
\* when the row arrives (Decrement_ and Increment_Estate_CommandId).
AfterClause(x) ==
    LET s == NextStart(x) IN
    CASE x.k < StageEnd(x) ->
             [x EXCEPT !.k = @ + 1, !.i = 1, !.lidx = 0, !.pc = "row", !.curcid = @ + 1]
      [] x.k = StageEnd(x) /\ x.r < Len(x.rows) ->
             [x EXCEPT !.k = s, !.r = @ + 1, !.i = 1, !.lidx = 0, !.pc = "row",
                       !.curcid = @ - (x.k - s)]
      [] x.k = StageEnd(x) /\ x.r = Len(x.rows) /\ x.k < Len(Clauses(x)) ->
             [x EXCEPT !.k = @ + 1, !.r = 1, !.i = 1, !.lidx = 0, !.pc = "row",
                       !.curcid = @ + 1, !.upto = 0]
      [] OTHER -> [x EXCEPT !.pc = "last"]

Fail(t) ==
    /\ status' = [status EXCEPT ![t] = "aborted"]
    /\ tx' = [tx EXCEPT ![t].pc = "over"]
    /\ UNCHANGED <<heap, next_id, version>>

-----------------------------------------------------------------------------

NoStatement ==
    [pc |-> "ready", stmt |-> None, rows |-> <<>>, r |-> 1, upto |-> 0, k |-> 1, i |-> 1,
     lidx |-> 0, snap |-> {}, cid |-> 0, used |-> FALSE, curcid |-> 0, base |-> 0,
     onset |-> None, htab |-> {}, created |-> {}, mutated |-> {},
     doomed |-> {}, asked |-> {}, dirty |-> FALSE, count |-> 0]

Init ==
    /\ heap = [n \in DOMAIN Graph |->
                  Row(Graph[n].id, Graph[n].ends, Graph[n].val, Boot, 0, {Boot}, None)]
    /\ next_id = Max({Graph[n].id : n \in DOMAIN Graph}) + 1
    /\ version = 1
    /\ status = [t \in Txns |-> "running"]
    /\ tx = [t \in Txns |-> NoStatement]

\* ExecutorStart: a snapshot; the begin function of every clause increments the
\* snapshot's command id, begin_cypher_merge remembers the current one.  The
\* rows of MATCH are those whose entities are visible; the first is pulled.
Start(t, s) ==
    LET x == tx[t]
        snap == {Boot} \cup {u \in Txns : status[u] = "committed"}
        y == [NoStatement EXCEPT !.snap = snap, !.cid = x.cid, !.used = x.used,
                                 !.base = x.cid, !.count = x.count + 1,
                                 !.curcid = x.cid + 1, !.stmt = s]
        Bound(row) == \A w \in Vars : row[w] # Null =>
                          \E i \in DOMAIN heap :
                              heap[i].id = row[w] /\ Sees(t, snap, x.cid, heap[i])
        bound == InOrder({n \in DOMAIN s.rows : Bound(s.rows[n])})
        rows == [n \in DOMAIN bound |-> s.rows[bound[n]]]
    IN  /\ status[t] = "running" /\ x.pc = "ready" /\ x.count < Len(Scripts[t])
        /\ s \in Scripts[t][x.count + 1]
        /\ tx' = [tx EXCEPT ![t] =
                      IF rows = <<>>
                      THEN [y EXCEPT !.pc = "last", !.k = Len(s.clauses)]
                      ELSE [y EXCEPT !.pc = "row", !.rows = rows]]
        /\ UNCHANGED <<heap, next_id, version, status>>

\* A variable must be a vertex ("agtype must resolve to a vertex") that exists:
\* entity_exists scans with the larger of the two command ids.
EntityExists(t, id) ==
    \E i \in Find(t, Max({tx[t].curcid, tx[t].cid}), id) : IsVertex(heap[i])

\* What is written for a new edge, and for a new vertex with, if the path starts
\* at an entity, an edge to it.
NewEdge(t, id, from, to, c) ==
    Row(id, <<from, to>>, None, t, c, tx[t].snap \cup {t}, None)
NewPath(t, from, val, c, pat) ==
    LET m == <<Row(next_id, <<>>, val, t, c, tx[t].snap \cup {t}, pat)>>
    IN  IF from = None THEN m
        ELSE Append(m, NewEdge(t, next_id + 1, from, next_id, c))

\* process_pattern and exec_cypher_create for one row: an edge between two
\* variables, or a new path.  A variable's vertex must still exist.
\* CREATE in the middle of a query counts the row as a change at once.
ExecCreate(t) ==
    LET x == tx[t]
        c == Clause(x)
        row == CurrentRow(x)
        old == {row[w] : w \in {c.from, c.to} \ {None}}
        new == IF c.to # None
               THEN <<NewEdge(t, next_id, row[c.from], row[c.to], x.cid)>>
               ELSE NewPath(t, IF c.from = None THEN None ELSE row[c.from], c.val,
                            x.cid, None)
        y == [x EXCEPT !.used = TRUE, !.dirty = TRUE, !.mutated = @ \cup {x.k},
                       !.rows[x.r].m = IF c.to # None THEN @ ELSE next_id]
    IN  /\ x.pc = "row" /\ c.op = "create"
        /\ \/ /\ \E id \in old : ~EntityExists(t, id)
              /\ Fail(t)
           \/ /\ \A id \in old : EntityExists(t, id)
              /\ heap' = heap \o new
              /\ next_id' = next_id + Len(new)
              /\ IF IsTerminal(x)
                 THEN tx' = [tx EXCEPT ![t] = AfterClause(y)] /\ UNCHANGED version
                 ELSE /\ version' = version + 1
                      /\ tx' = [tx EXCEPT ![t] = AfterClause(CommandCounterIncrement(
                                   [y EXCEPT !.dirty = FALSE, !.mutated = @ \ {x.k}]))]
              /\ UNCHANGED status

-----------------------------------------------------------------------------
(* SET, and the ON CREATE SET and ON MATCH SET of MERGE.                     *)

Items(x) ==
    IF Clause(x).op = "set" THEN Clause(x).items ELSE <<[var |-> "m", val |-> x.onset]>>

\* Mutant: the first item for a variable.
LastUpdate_First(x, w) == Min({i \in DOMAIN Items(x) : Items(x)[i].var = w}) - 1

\* ensure_last_update_indexes: the last item, counted from 0, for a variable.
LastUpdate(x, w) == Max({i \in DOMAIN Items(x) : Items(x)[i].var = w}) - 1

\* Only the last item of a variable is written to the table.
IsWritten(x) == Len(Items(x)) = 1 \/ LastUpdate(x, Items(x)[x.i].var) = x.lidx

\* Mutant: SET in the middle of a query does not end its command.
EndsRow_Never(x) == FALSE

\* The next item, and after the last one the end of the row: SET in the middle
\* of a query counts the row as a change and begins a new command.
EndsRow(x) == x.i = Len(Items(x)) /\ Clause(x).op = "set" /\ ~IsTerminal(x)

FinishItem(t, x) ==
    /\ tx' = [tx EXCEPT ![t] =
                  CASE x.i < Len(Items(x)) -> [x EXCEPT !.i = @ + 1]
                    [] EndsRow(x) ->
                           AfterClause(CommandCounterIncrement(
                               [x EXCEPT !.mutated = @ \ {x.k},
                                         !.dirty = @ /\ x.k \notin x.mutated]))
                    [] OTHER -> AfterClause([x EXCEPT !.onset = None])]
    /\ version' = IF EndsRow(x) /\ x.k \in x.mutated THEN version + 1 ELSE version
    /\ UNCHANGED <<next_id, status>>

InSet(x) == x.pc = "set" \/ (x.pc = "row" /\ Clause(x).op = "set")
InDelete(x) == x.pc = "row" /\ Clause(x).op = "delete"
InDetach(x) == x.pc = "end" /\ Clause(x).op = "delete"

Target(x) ==
    CurrentRow(x)[IF Clause(x).op = "delete" THEN Clause(x).items[x.i] ELSE Items(x)[x.i].var]

\* Mutant: only the edges that start at the vertex.
Connected_Start(t) ==
    LET x == tx[t] IN
    {i \in DOMAIN heap :
        /\ heap[i].ends # <<>> /\ <<x.k, heap[i].ends[1]>> \in x.htab
        /\ VisibleAt(t, x.cid, heap[i])}

\* The edges check_for_connected_edges still has to look at: visible, with a
\* vertex that this clause deleted.
Connected(t) ==
    LET x == tx[t] IN
    {i \in DOMAIN heap :
        /\ \E n \in DOMAIN heap[i].ends : <<x.k, heap[i].ends[n]>> \in x.htab
        /\ VisibleAt(t, x.cid, heap[i])}

\* The row versions a transaction is about to lock: the versions that a scan
\* under the current command id finds of what it writes.
Wanted(t) ==
    LET x == tx[t] IN
    CASE InSet(x) /\ Target(x) \notin Protected \cup {Null} /\ IsWritten(x) ->
             Find(t, x.cid, Target(x))
      [] InDelete(x) /\ Target(x) \notin Protected \cup {Null} ->
             Find(t, x.cid, Target(x))
      [] InDetach(x) /\ Clause(x).detach -> Connected(t)
      [] OTHER -> {}

\* update_entity_tuple on a locked row: the old version ends, a new one follows.
Updated(t, i, val) ==
    LET c == tx[t].cid IN
    Append(Ended(t, i, c), [heap[i] EXCEPT !.val = val, !.xmin = t, !.cmin = c,
                                           !.xmax = None, !.cmax = 0, !.xsee = {}])

\* One item of apply_update_list: NULL is passed over without counting, the
\* row is looked up under the current command id, and update_entity_tuple
\* writes a new version if nobody else has ended the one found.
ApplyItem(t) ==
    LET x == tx[t]
        id == Target(x)
        y == [x EXCEPT !.lidx = @ + 1,
                       !.asked = IF id \in Protected \/ Find(t, x.cid, id) = {} THEN @
                                 ELSE {a \in @ : a.id # id}
                                      \cup {[id |-> id, val |-> Items(x)[x.i].val]}]
    IN  /\ InSet(x)
        /\ \/ /\ id = Null
              /\ FinishItem(t, x)
              /\ UNCHANGED heap
           \/ /\ id # Null /\ Wanted(t) = {}
              /\ FinishItem(t, y)
              /\ UNCHANGED heap
           \/ \E i \in Wanted(t) :
                 \/ /\ Writable(t, i)
                    /\ heap' = Updated(t, i, Items(x)[x.i].val)
                    /\ FinishItem(t, [y EXCEPT !.used = TRUE, !.dirty = TRUE,
                                               !.mutated = @ \cup {x.k}])
                 \/ /\ LockResult(t, i) = "self_modified" /\ heap[i].cmax = x.cid
                    /\ FinishItem(t, [y EXCEPT !.used = TRUE])
                    /\ UNCHANGED heap
                 \/ /\ \/ LockResult(t, i) \in {"updated", "invisible"}
                       \/ LockResult(t, i) = "self_modified" /\ heap[i].cmax # x.cid
                    /\ Fail(t)

-----------------------------------------------------------------------------
(* MERGE.                                                                    *)

\* The lateral join: the vertices that match the pattern under the command id
\* that the children of MERGE run with, in the order of the table.
Matches(t) ==
    LET x == tx[t]
        c == Clause(x)
        Seen(i) == VisibleAt(t, x.curcid - 1, heap[i])
        Hit(i) ==
            /\ IsVertex(heap[i]) /\ heap[i].val = c.val /\ Seen(i)
            /\ c.from # None =>
                   \E j \in DOMAIN heap :
                       heap[j].ends = <<CurrentRow(x)[c.from], heap[i].id>> /\ Seen(j)
    IN  InOrder({i \in DOMAIN heap : Hit(i)})

\* Mutant: the paths of different rows are never the same.
PathKey_Row(x) ==
    LET c == Clause(x) IN
    <<x.k, IF c.from = None THEN None ELSE CurrentRow(x)[c.from], c.val, x.r>>

\* What the pattern is compared by: the vertex it starts at and the properties.
PathKey(x) ==
    LET c == Clause(x) IN
    <<x.k, IF c.from = None THEN None ELSE CurrentRow(x)[c.from], c.val>>

Duplicates(x) == {p \in x.created : p.key = PathKey(x)}

\* To ON CREATE SET or ON MATCH SET, or past the clause if there is none.
ThenSet(x, value) ==
    IF value = None THEN AfterClause(x)
    ELSE [x EXCEPT !.pc = "set", !.onset = value, !.i = 1, !.lidx = 0]

\* The pattern was found by the join, or its variable is bound.  Every match is a
\* row of the join; a MERGE that is the whole query takes the first only.
MergeFound(t) ==
    LET x == tx[t]
        c == Clause(x)
        row == CurrentRow(x)
        only == ~x.stmt.match /\ Len(Clauses(x)) = 1
        found == IF row.m # Null THEN <<row>>
                 ELSE [n \in 1 .. (IF only THEN Min({1, Len(Matches(t))}) ELSE Len(Matches(t))) |->
                          [row EXCEPT !.m = heap[Matches(t)[n]].id]]
    IN  /\ x.pc = "row" /\ c.op = "merge"
        /\ found # <<>>
        /\ tx' = [tx EXCEPT ![t] =
                      ThenSet([x EXCEPT !.rows = SubSeq(@, 1, x.r - 1) \o found
                                                 \o SubSeq(@, x.r + 1, Len(@)),
                                         !.upto = IF row.m = Null /\ x.k = StageEnd(x)
                                                  THEN x.r + Len(found) - 1 ELSE @],
                              c.on_match)]
        /\ UNCHANGED <<heap, next_id, version, status>>

\* prebuild_path, find_duplicate_path and process_path.  The rows are written
\* with the command id of the beginning; if that is still the current one, a new
\* command begins.
MergeMissing(t) ==
    LET x == tx[t]
        c == Clause(x)
        row == CurrentRow(x)
        key == PathKey(x)
        new == NewPath(t, key[2], c.val, x.base, <<key[2], c.val>>)
        y == [x EXCEPT !.rows[x.r].m = next_id, !.dirty = TRUE,
                       !.mutated = @ \cup {x.k},
                       !.created = @ \cup {[key |-> key, id |-> next_id]}]
    IN  /\ x.pc = "row" /\ c.op = "merge"
        /\ row.m = Null /\ Matches(t) = <<>>
        /\ \/ /\ key[2] # None
              /\ key[2] = Null \/ ~EntityExists(t, key[2])
              /\ Fail(t)
           \/ /\ key[2] = None \/ (key[2] # Null /\ EntityExists(t, key[2]))
              /\ \/ \E p \in Duplicates(x) :
                       /\ tx' = [tx EXCEPT ![t] =
                                     ThenSet([x EXCEPT !.rows[x.r].m = p.id], c.on_match)]
                       /\ UNCHANGED <<heap, next_id>>
                 \/ /\ Duplicates(x) = {}
                    /\ heap' = heap \o new
                    /\ next_id' = next_id + Len(new)
                    /\ tx' = [tx EXCEPT ![t] =
                                  ThenSet(IF x.base = x.cid
                                          THEN CommandCounterIncrement(
                                                   [y EXCEPT !.used = TRUE])
                                          ELSE y,
                                          c.on_create)]
              /\ UNCHANGED <<version, status>>

-----------------------------------------------------------------------------
(* DELETE.                                                                   *)

\* delete_entity on a locked row: a new command begins, and the snapshot of the
\* statement follows it.
DeletedBy(x) ==
    LET y == CommandCounterIncrement([x EXCEPT !.used = TRUE, !.dirty = TRUE,
                                               !.mutated = @ \cup {x.k}])
    IN  [y EXCEPT !.curcid = y.cid]

\* The next item of the list, or the end of the clause for this row.
NextItem(x) ==
    IF x.i < Len(Clause(x).items) THEN [x EXCEPT !.i = @ + 1] ELSE AfterClause(x)

\* One item of process_delete_list.  Nothing to find, a row that a policy
\* protects and a row this transaction has already ended are passed over.
DeleteItem(t) ==
    LET x == tx[t]
        y == [x EXCEPT !.curcid = x.cid,
                       !.doomed = @ \cup (IF Wanted(t) = {} THEN {} ELSE {Target(x)})]
    IN  /\ InDelete(x)
        /\ \/ /\ \A i \in Wanted(t) : LockResult(t, i) \in {"self_modified", "invisible"}
              /\ tx' = [tx EXCEPT ![t] = NextItem(IF Target(x) = Null THEN x ELSE y)]
              /\ UNCHANGED <<heap, next_id, version, status>>
           \/ \E i \in Wanted(t) :
                 \/ /\ Writable(t, i)
                    /\ heap' = Ended(t, i, x.cid)
                    /\ tx' = [tx EXCEPT ![t] = NextItem(DeletedBy(
                                 [y EXCEPT !.htab = IF IsVertex(heap[i])
                                                    THEN @ \cup {<<x.k, Target(x)>>}
                                                    ELSE @]))]
                    /\ UNCHANGED <<next_id, version, status>>
                 \/ LockResult(t, i) = "updated" /\ Fail(t)

\* check_for_connected_edges for one edge: an error unless the clause detaches
\* and no policy protects the edge.  (Its vertex was deleted by an earlier command,
\* so the edge cannot be one that the current command has already ended.)
DeleteConnected(t) ==
    LET x == tx[t]
        y == [x EXCEPT !.curcid = x.cid]
    IN  /\ InDetach(x)
        /\ \E i \in Connected(t) :
              \/ (~Clause(x).detach \/ heap[i].id \in Protected) /\ Fail(t)
              \/ /\ Clause(x).detach /\ heap[i].id \notin Protected
                 /\ \/ /\ Writable(t, i)
                       /\ heap' = Ended(t, i, x.cid)
                       /\ tx' = [tx EXCEPT ![t] = DeletedBy(y)]
                       /\ UNCHANGED <<next_id, version, status>>
                    \/ LockResult(t, i) = "updated" /\ Fail(t)

-----------------------------------------------------------------------------
(* The end of a statement and of a transaction.                              *)

\* Mutant: the end of MERGE does not count.
Counts_NotMerge(x) ==
    /\ x.k \in x.mutated
    /\ IF x.pc = "last" THEN IsTerminal(x) /\ Clause(x).op \in {"create", "set"}
       ELSE Clause(x).op = "delete"

\* CREATE and SET count their changes when a query that ends with them has no
\* more rows, MERGE and DELETE when they are ended.
Counts(x) ==
    /\ x.k \in x.mutated
    /\ IF x.pc = "last" THEN IsTerminal(x) /\ Clause(x).op \in {"create", "set"}
       ELSE Clause(x).op \in {"merge", "delete"}

\* The child has no more rows: a CREATE or SET at the end of the query ends its
\* command and counts its changes.  Then the clauses are ended, last to first.
NoMoreRows(t) ==
    LET x == tx[t]
        y == [x EXCEPT !.pc = "end", !.dirty = @ /\ ~Counts(x)]
    IN  /\ x.pc = "last"
        /\ tx' = [tx EXCEPT ![t] =
                      IF IsTerminal(x) /\ Clause(x).op \in {"create", "set"}
                      THEN CommandCounterIncrement(y) ELSE y]
        /\ version' = IF Counts(x) THEN version + 1 ELSE version
        /\ UNCHANGED <<heap, next_id, status>>

\* end_cypher_create, _set, _merge, _delete; after the first clause PostgreSQL
\* ends the command.
EndClause(t) ==
    LET x == tx[t]
        op == Clause(x).op
        y == [x EXCEPT !.dirty = @ /\ ~Counts(x)]
        z == IF op \in {"create", "merge"} THEN CommandCounterIncrement(y) ELSE y
    IN  /\ x.pc = "end"
        /\ op = "delete" => Connected(t) = {}
        /\ version' = IF Counts(x) THEN version + 1 ELSE version
        /\ tx' = [tx EXCEPT ![t] =
                      IF x.k > 1 THEN [z EXCEPT !.k = @ - 1]
                      ELSE [CommandCounterIncrement(z) EXCEPT !.pc = "ready"]]
        /\ UNCHANGED <<heap, next_id, status>>

Commit(t) ==
    /\ status[t] = "running" /\ tx[t].pc = "ready"
    /\ status' = [status EXCEPT ![t] = "committed"]
    /\ tx' = [tx EXCEPT ![t].pc = "over"]
    /\ UNCHANGED <<heap, next_id, version>>

Rollback(t) == status[t] = "running" /\ tx[t].pc = "ready" /\ Fail(t)

\* PostgreSQL's deadlock detector ends one of those who wait for each other.
WaitsFor(t) ==
    {heap[i].xmax : i \in {i \in Wanted(t) : LockResult(t, i) = "wait"}}
DeadlockAbort(t) ==
    /\ \E D \in SUBSET Txns : t \in D /\ \A u \in D : WaitsFor(u) \cap D # {}
    /\ Fail(t)

Quiesce == (\A t \in Txns : status[t] # "running") /\ UNCHANGED vars

Step(t) ==
    \/ ExecCreate(t)
    \/ ApplyItem(t)
    \/ MergeFound(t)
    \/ MergeMissing(t)
    \/ DeleteItem(t)
    \/ DeleteConnected(t)
    \/ NoMoreRows(t)
    \/ EndClause(t)
    \/ DeadlockAbort(t)

Next ==
    \/ \E t \in Txns :
          \/ \E n \in DOMAIN Scripts[t] : \E s \in Scripts[t][n] : Start(t, s)
          \/ Step(t)
          \/ Commit(t)
          \/ Rollback(t)
    \/ Quiesce

Spec == Init /\ [][Next]_vars

-----------------------------------------------------------------------------
(* Properties.                                                               *)

\* What everybody sees once the running transactions are gone, and what a
\* transaction sees between two statements.
Live(v) == Committed(v.xmin) /\ ~Committed(v.xmax)
LiveFor(t, v) == (v.xmin = t \/ Committed(v.xmin)) /\ ~(v.xmax = t \/ Committed(v.xmax))

\* Type invariant: row versions, transactions and cursors are well formed.
TypeOK ==
    /\ \A i \in DOMAIN heap :
          /\ heap[i].id \in 1 .. next_id - 1
          /\ heap[i].xmin \in Txns \cup {Boot} /\ heap[i].xmax \in Txns \cup {None}
          /\ heap[i].cmin \in Nat /\ heap[i].cmax \in Nat
    /\ version \in Nat
    /\ status \in [Txns -> {"running", "committed", "aborted"}]
    /\ \A t \in Txns :
          /\ tx[t].pc \in {"ready", "row", "set", "last", "end", "over"}
          /\ tx[t].pc \in {"row", "set"} =>
                 tx[t].r \in DOMAIN tx[t].rows /\ tx[t].k \in DOMAIN Clauses(tx[t])
          /\ tx[t].cid \in Nat

\* An entity has one version at most, in the committed graph and for every
\* transaction between its statements: update_entity_tuple and delete_entity
\* write only a version that nobody else has ended while they waited for it.
\* The state is well formed (TypeOK), and that holds in it.
OneVersion ==
    /\ TypeOK
    /\ \A i, j \in DOMAIN heap : (heap[i].id = heap[j].id /\ i # j) =>
           /\ ~(Live(heap[i]) /\ Live(heap[j]))
           /\ \A t \in Txns : tx[t].pc = "ready" =>
                  ~(LiveFor(t, heap[i]) /\ LiveFor(t, heap[j]))

\* An edge outlives one of its vertices only if its CREATE or MERGE and the
\* DELETE of the vertex ran without seeing each other: entity_exists refuses a
\* vertex that is gone, check_for_connected_edges finds the edges that are there.
DanglingOnlyIfConcurrent ==
    \A e \in DOMAIN heap : Live(heap[e]) =>
        \A n \in DOMAIN heap[e].ends :
            LET versions == {i \in DOMAIN heap :
                                heap[i].id = heap[e].ends[n] /\ Committed(heap[i].xmin)}
            IN  \/ \E i \in versions : Live(heap[i])
                \/ /\ versions # {}
                   /\ heap[Max(versions)].xmax \notin heap[e].see
                   /\ heap[e].by \notin heap[Max(versions)].xsee

\* Every change of a statement is followed by an increment of the graph version
\* before the statement ends: increment_graph_version comes after the last row a
\* clause writes, also for rows that the end functions of MERGE and DELETE count.
ChangeIsCounted == \A t \in Txns : tx[t].pc = "ready" => ~tx[t].dirty

\* Two paths that MERGE made for the same pattern, of which nobody has changed or
\* deleted a vertex or an edge, were made by transactions that did not see each
\* other: a MERGE finds what its transaction or a committed one made, and what it
\* made itself for another row.  The edge of a path is written after its vertex.
MergeOnce ==
    LET Original(i) == \A j \in 1 .. i - 1 : heap[j].id # heap[i].id
        Path(i) == IF heap[i].pat[1] = None THEN {i} ELSE {i, i + 1}
    IN  \A i, j \in DOMAIN heap :
            (/\ heap[i].id # heap[j].id /\ heap[i].pat = heap[j].pat /\ heap[i].pat # None
             /\ Original(i) /\ Original(j)
             /\ \/ \A n \in Path(i) \cup Path(j) : Live(heap[n])
                \/ \E t \in Txns : /\ tx[t].pc = "ready"
                                   /\ \A n \in Path(i) \cup Path(j) : LiveFor(t, heap[n]))
            => heap[i].by \notin heap[j].see /\ heap[j].by \notin heap[i].see

\* A SET clause with an item for a variable that is NULL, among others:
\* apply_update_list leaves the loop body with "continue", so that its index
\* falls behind the positions ensure_last_update_indexes has counted and the
\* last item of another entity is not recognised.
SetsPastNull(q) ==
    \E k \in DOMAIN q.clauses, r \in DOMAIN q.rows :
        /\ q.clauses[k].op = "set" /\ Len(q.clauses[k].items) > 1
        /\ \E i \in DOMAIN q.clauses[k].items :
              q.rows[r][q.clauses[k].items[i].var] = Null

\* What a clause writes to entities it finds: the variable, and the value of SET.
WritesOf(c) ==
    CASE c.op = "set" -> {<<c.items[i].var, c.items[i].val>> : i \in DOMAIN c.items}
      [] c.op = "delete" -> {<<c.items[i], None>> : i \in DOMAIN c.items}
      [] c.op = "merge" -> {<<"m", v>> : v \in {c.on_create, c.on_match} \ {None}}
      [] OTHER -> {}

\* SET of MERGE, SET at the end of a query, and SET in the middle of a query
\* within a row write a new version and begin no command: what writes the entity
\* next finds the old version, which heap_lock_tuple reports as TM_SelfModified,
\* and passes it over.  The next write is that of a later clause or row, or of
\* another variable for the same entity ("m" may be bound to any).
SetsTwice(q) ==
    \E j, k \in DOMAIN q.clauses, r, s \in DOMAIN q.rows :
        /\ q.clauses[j].op \in {"set", "merge"} /\ (j <= k \/ r < s)
        /\ q.clauses[j].op = "set" =>
               (j = k /\ r = s) \/ (j = Len(q.clauses) /\ q.terminal)
        /\ \E w \in WritesOf(q.clauses[j]), v \in WritesOf(q.clauses[k]) :
              /\ (j = k /\ w[1] = v[1]) => q.clauses[j].op = "merge" /\ w # v
              /\ "m" \in {w[1], v[1]} \/ q.rows[r][w[1]] = q.rows[s][v[1]]

\* What SET was asked to give an entity last is what the transaction sees after
\* the statement: apply_update_list writes the last item of an entity ("If the
\* last update index for the entity is equal to the current loop index, then
\* update this tuple").  The two kinds of query above are the only ones that
\* can lose an update.
SetTakesEffect ==
    \A t \in Txns : tx[t].pc = "ready" =>
        \A a \in tx[t].asked : \A i \in DOMAIN heap :
            (heap[i].id = a.id /\ LiveFor(t, heap[i])) =>
                \/ heap[i].val = a.val
                \/ SetsPastNull(tx[t].stmt) \/ SetsTwice(tx[t].stmt)

\* What DELETE found and may delete is gone after the statement ("If the tuple
\* was already deleted by this DELETE clause, the result would be
\* TM_SelfModified"), unless SET of the same command has changed it.
DeleteTakesEffect ==
    \A t \in Txns : tx[t].pc = "ready" =>
        \A i \in DOMAIN heap : heap[i].id \in tx[t].doomed =>
            ~LiveFor(t, heap[i]) \/ SetsTwice(tx[t].stmt)
==============================================================================
