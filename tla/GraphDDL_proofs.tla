--------------------------- MODULE GraphDDL_proofs ---------------------------
(***************************************************************************)
(* The properties of GraphDDL, for any number of backends, names, OIDs and   *)
(* label ids.                                                                *)
(***************************************************************************)
EXTENDS GraphDDL, TLAPS

\* A create_label that has made its table and not yet its row.
Creating(b) == call[b].pc \in {"id", "full", "insert"}

\* A call has the graph it is for, and a table it has made is its own.
CallInv(b) ==
    /\ call[b].pc # "idle" => call[b].graph \in Oids
    /\ call[b].pc = "table" => call[b].label \in LabelNames /\ call[b].tries = 0
    /\ Creating(b) =>
           /\ call[b].label \in LabelNames
           /\ \E t \in pg_class : /\ t.oid = call[b].relation /\ t.graph = call[b].graph
                                  /\ t.xmin = b /\ t.xmax = None
    /\ call[b].pc = "insert" => call[b].id \in LabelIds

\* A graph that is being dropped is locked, and its counter is given up.
GraphInv(g) ==
    g.xmax # None =>
        /\ [by |-> g.xmax, oid |-> g.oid, mode |-> "exclusive"] \in locks
        /\ g.oid \in slots => g.oid \in excused

\* A table has a graph.  If that is new or being dropped, so is the table, by the
\* same transaction.  A table that is being dropped is locked.  It has a label,
\* or somebody is creating it.
TableInv(t) ==
    /\ \E g \in ag_graph : g.oid = t.graph
    /\ \A g \in ag_graph : g.oid = t.graph =>
           /\ g.xmin # None => t.xmin = g.xmin
           /\ g.xmax # None => t.xmax = g.xmax
    /\ t.xmax # None => [by |-> t.xmax, oid |-> t.oid, mode |-> "exclusive"] \in locks
    /\ \/ \E r \in ag_label : r.relation = t.oid
       \/ \E b \in Backends : Creating(b) /\ call[b].relation = t.oid

\* A label has a table, and both are visible to the same transactions.
LabelInv(r) ==
    \E t \in pg_class : /\ t.oid = r.relation /\ t.graph = r.graph
                        /\ t.xmin = r.xmin /\ t.xmax = r.xmax

\* An OID is that of one graph, and that of one table.
OidInv ==
    /\ \A g, h \in ag_graph : g.oid = h.oid => g = h
    /\ \A t, u \in pg_class : t.oid = u.oid => t = u

RowInv ==
    /\ TypeOK /\ OidInv
    /\ \A b \in Backends : CallInv(b)
    /\ \A g \in ag_graph : GraphInv(g)
    /\ \A t \in pg_class : TableInv(t)
    /\ \A r \in ag_label : LabelInv(r)
    /\ SlotReleased

\* The last k ids that a cycling sequence has given out, when it is at n.
Recent(n, k) ==
    {id \in LabelIds : IF id <= n THEN n - id < k ELSE n + LABEL_ID_MAX - id < k}

\* A backend in the loop of get_new_label_id has tested, or seen others draw, as
\* many of the last ids as it has tried.
DrawInv(b) ==
    call[b].pc = "id" =>
        Recent(seq[call[b].graph], call[b].tries) \subseteq call[b].tested \cup call[b].drawn

IInv == RowInv /\ (\A b \in Backends : DrawInv(b)) /\ FullIsFull

-----------------------------------------------------------------------------
(* Rows.                                                                     *)

\* None is no backend.
LEMMA XidFacts ==
    /\ None \in Xids /\ \A b \in Backends : b \in Xids /\ b # None
    /\ MaxOid \in Nat /\ LABEL_ID_MAX \in Nat /\ LABEL_ID_MAX > 0 /\ MaxCalls \in Nat
BY NoneAssumption, MaxAssumption DEF Xids

\* A row of ag_graph when its transaction ids are written.
LEMMA GraphRowIs ==
    ASSUME NEW r \in GraphRow, NEW x \in Xids
    PROVE  /\ r.oid \in Oids /\ r.xmin \in Xids /\ r.xmax \in Xids
           /\ [r EXCEPT !.xmin = x] \in GraphRow
           /\ [r EXCEPT !.xmin = x].oid = r.oid /\ [r EXCEPT !.xmin = x].name = r.name
           /\ [r EXCEPT !.xmin = x].xmin = x /\ [r EXCEPT !.xmin = x].xmax = r.xmax
           /\ [r EXCEPT !.xmax = x] \in GraphRow
           /\ [r EXCEPT !.xmax = x].oid = r.oid /\ [r EXCEPT !.xmax = x].name = r.name
           /\ [r EXCEPT !.xmax = x].xmin = r.xmin /\ [r EXCEPT !.xmax = x].xmax = x
BY DEF GraphRow

\* A row of pg_class when its transaction ids are written.
LEMMA TableRowIs ==
    ASSUME NEW r \in TableRow, NEW x \in Xids
    PROVE  /\ r.oid \in Oids /\ r.graph \in Oids /\ r.xmin \in Xids /\ r.xmax \in Xids
           /\ [r EXCEPT !.xmin = x] \in TableRow
           /\ [r EXCEPT !.xmin = x].oid = r.oid /\ [r EXCEPT !.xmin = x].graph = r.graph
           /\ [r EXCEPT !.xmin = x].name = r.name /\ [r EXCEPT !.xmax = x].name = r.name
           /\ [r EXCEPT !.xmin = x].xmin = x /\ [r EXCEPT !.xmin = x].xmax = r.xmax
           /\ [r EXCEPT !.xmax = x] \in TableRow
           /\ [r EXCEPT !.xmax = x].oid = r.oid /\ [r EXCEPT !.xmax = x].graph = r.graph
           /\ [r EXCEPT !.xmax = x].xmin = r.xmin /\ [r EXCEPT !.xmax = x].xmax = x
BY DEF TableRow

\* A row of ag_label when its transaction ids are written.
LEMMA LabelRowIs ==
    ASSUME NEW r \in LabelRow, NEW x \in Xids
    PROVE  /\ r.graph \in Oids /\ r.relation \in Oids /\ r.xmin \in Xids /\ r.xmax \in Xids
           /\ [r EXCEPT !.xmin = x] \in LabelRow
           /\ [r EXCEPT !.xmin = x].graph = r.graph /\ [r EXCEPT !.xmin = x].relation = r.relation
           /\ [r EXCEPT !.xmin = x].xmin = x /\ [r EXCEPT !.xmin = x].xmax = r.xmax
           /\ [r EXCEPT !.xmax = x] \in LabelRow
           /\ [r EXCEPT !.xmax = x].graph = r.graph /\ [r EXCEPT !.xmax = x].relation = r.relation
           /\ [r EXCEPT !.xmax = x].xmin = r.xmin /\ [r EXCEPT !.xmax = x].xmax = x
BY DEF LabelRow

\* A row of the same graph, table or label, in another state.
SameGraph(q, g) == q.oid = g.oid /\ q.name = g.name
SameTable(q, t) == q.oid = t.oid /\ q.graph = t.graph /\ q.name = t.name
SameLabel(q, r) == q.graph = r.graph /\ q.relation = r.relation

\* The fields of a row after a rollback of b, and after a commit.
Undone(b, q, r) == r.xmin # b /\ q.xmin = r.xmin /\ q.xmax = IF r.xmax = b THEN None ELSE r.xmax
Done(b, q, r) == r.xmax # b /\ q.xmax = r.xmax /\ q.xmin = IF r.xmin = b THEN None ELSE r.xmin

\* The fields of a row when b drops the rows of S.
Ended(b, S, q, r) == q.xmin = r.xmin /\ q.xmax = IF r \in S THEN b ELSE r.xmax

\* A row is its fields.
LEMMA GraphRowEq ==
    ASSUME NEW q \in GraphRow, NEW r \in GraphRow, SameGraph(q, r),
           q.xmin = r.xmin, q.xmax = r.xmax
    PROVE  q = r
BY DEF GraphRow, SameGraph

\* The same of a table.
LEMMA TableRowEq ==
    ASSUME NEW q \in TableRow, NEW r \in TableRow, SameTable(q, r),
           q.xmin = r.xmin, q.xmax = r.xmax
    PROVE  q = r
BY DEF TableRow, SameTable

\* What a rollback makes of the rows.
LEMMA RolledBackGraphs ==
    ASSUME NEW X \in SUBSET GraphRow, NEW b \in Backends
    PROVE  /\ RolledBack(b, X) \subseteq GraphRow
           /\ \A q \in RolledBack(b, X) : \E r \in X : SameGraph(q, r) /\ Undone(b, q, r)
           /\ \A r \in X : r.xmin # b => \E q \in RolledBack(b, X) : SameGraph(q, r) /\ Undone(b, q, r)
<1>1. ASSUME NEW r \in X, r.xmin # b,
             NEW q, q = [r EXCEPT !.xmax = IF @ = b THEN None ELSE @]
      PROVE  q \in GraphRow /\ SameGraph(q, r) /\ Undone(b, q, r)
  <2>1. PICK x \in Xids : x = IF r.xmax = b THEN None ELSE r.xmax
    BY XidFacts, GraphRowIs
  <2>2. q = [r EXCEPT !.xmax = x]
    BY <1>1, <2>1
  <2>3. q \in GraphRow /\ q.oid = r.oid /\ q.name = r.name /\ q.xmin = r.xmin /\ q.xmax = x
    BY <2>2, GraphRowIs, ZenonT(60)
  <2> QED
    BY <1>1, <2>1, <2>3 DEF SameGraph, Undone
<1> QED
  BY <1>1 DEF RolledBack

\* The same of the tables.
LEMMA RolledBackTables ==
    ASSUME NEW X \in SUBSET TableRow, NEW b \in Backends
    PROVE  /\ RolledBack(b, X) \subseteq TableRow
           /\ \A q \in RolledBack(b, X) : \E r \in X : SameTable(q, r) /\ Undone(b, q, r)
           /\ \A r \in X : r.xmin # b => \E q \in RolledBack(b, X) : SameTable(q, r) /\ Undone(b, q, r)
<1>1. ASSUME NEW r \in X, r.xmin # b,
             NEW q, q = [r EXCEPT !.xmax = IF @ = b THEN None ELSE @]
      PROVE  q \in TableRow /\ SameTable(q, r) /\ Undone(b, q, r)
  <2>1. PICK x \in Xids : x = IF r.xmax = b THEN None ELSE r.xmax
    BY XidFacts, TableRowIs
  <2>2. q = [r EXCEPT !.xmax = x]
    BY <1>1, <2>1
  <2>3. q \in TableRow /\ q.oid = r.oid /\ q.graph = r.graph /\ q.name = r.name /\ q.xmin = r.xmin /\ q.xmax = x
    BY <2>2, TableRowIs, ZenonT(60)
  <2> QED
    BY <1>1, <2>1, <2>3 DEF SameTable, Undone
<1> QED
  BY <1>1 DEF RolledBack

\* The same of the labels.
LEMMA RolledBackLabels ==
    ASSUME NEW X \in SUBSET LabelRow, NEW b \in Backends
    PROVE  /\ RolledBack(b, X) \subseteq LabelRow
           /\ \A q \in RolledBack(b, X) : \E r \in X : SameLabel(q, r) /\ Undone(b, q, r)
           /\ \A r \in X : r.xmin # b => \E q \in RolledBack(b, X) : SameLabel(q, r) /\ Undone(b, q, r)
<1>1. ASSUME NEW r \in X, r.xmin # b,
             NEW q, q = [r EXCEPT !.xmax = IF @ = b THEN None ELSE @]
      PROVE  q \in LabelRow /\ SameLabel(q, r) /\ Undone(b, q, r)
  <2>1. PICK x \in Xids : x = IF r.xmax = b THEN None ELSE r.xmax
    BY XidFacts, LabelRowIs
  <2>2. q = [r EXCEPT !.xmax = x]
    BY <1>1, <2>1
  <2>3. q \in LabelRow /\ q.graph = r.graph /\ q.relation = r.relation /\ q.xmin = r.xmin /\ q.xmax = x
    BY <2>2, LabelRowIs
  <2> QED
    BY <1>1, <2>1, <2>3 DEF SameLabel, Undone
<1> QED
  BY <1>1 DEF RolledBack

\* What a commit makes of the graphs.
LEMMA KeptGraphs ==
    ASSUME NEW X \in SUBSET GraphRow, NEW b \in Backends
    PROVE  /\ Kept(b, X) \subseteq GraphRow
           /\ \A q \in Kept(b, X) : \E r \in X : SameGraph(q, r) /\ Done(b, q, r)
           /\ \A r \in X : r.xmax # b => \E q \in Kept(b, X) : SameGraph(q, r) /\ Done(b, q, r)
<1>1. ASSUME NEW r \in X, r.xmax # b,
             NEW q, q = [r EXCEPT !.xmin = IF @ = b THEN None ELSE @]
      PROVE  q \in GraphRow /\ SameGraph(q, r) /\ Done(b, q, r)
  <2>1. PICK x \in Xids : x = IF r.xmin = b THEN None ELSE r.xmin
    BY XidFacts, GraphRowIs
  <2>2. q = [r EXCEPT !.xmin = x]
    BY <1>1, <2>1
  <2>3. q \in GraphRow /\ q.oid = r.oid /\ q.name = r.name /\ q.xmax = r.xmax /\ q.xmin = x
    BY <2>2, GraphRowIs, ZenonT(60)
  <2> QED
    BY <1>1, <2>1, <2>3 DEF SameGraph, Done
<1> QED
  BY <1>1 DEF Kept

\* What a drop of those in S makes of the graphs.
LEMMA EndingGraphs ==
    ASSUME NEW X \in SUBSET GraphRow, NEW b \in Backends, NEW S
    PROVE  /\ Ending(b, X, S) \subseteq GraphRow
           /\ \A q \in Ending(b, X, S) : \E r \in X : SameGraph(q, r) /\ Ended(b, S, q, r)
           /\ \A r \in X : \E q \in Ending(b, X, S) : SameGraph(q, r) /\ Ended(b, S, q, r)
<1>1. ASSUME NEW r \in X, NEW q, q = IF r \in S THEN [r EXCEPT !.xmax = b] ELSE r
      PROVE  q \in GraphRow /\ SameGraph(q, r) /\ Ended(b, S, q, r)
  <2>1. CASE r \in S
    <3>1. q = [r EXCEPT !.xmax = b]
      BY <1>1, <2>1
    <3>2. q \in GraphRow /\ q.oid = r.oid /\ q.name = r.name /\ q.xmin = r.xmin /\ q.xmax = b
      BY <3>1, XidFacts, GraphRowIs, ZenonT(60)
    <3> QED
      BY <2>1, <3>2 DEF SameGraph, Ended
  <2>2. CASE r \notin S
    <3>1. q = r
      BY <1>1, <2>2
    <3> QED
      BY <2>2, <3>1 DEF SameGraph, Ended
  <2> QED
    BY <2>1, <2>2
<1> QED
  BY <1>1 DEF Ending

\* What a commit makes of the tables.
LEMMA KeptTables ==
    ASSUME NEW X \in SUBSET TableRow, NEW b \in Backends
    PROVE  /\ Kept(b, X) \subseteq TableRow
           /\ \A q \in Kept(b, X) : \E r \in X : SameTable(q, r) /\ Done(b, q, r)
           /\ \A r \in X : r.xmax # b => \E q \in Kept(b, X) : SameTable(q, r) /\ Done(b, q, r)
<1>1. ASSUME NEW r \in X, r.xmax # b,
             NEW q, q = [r EXCEPT !.xmin = IF @ = b THEN None ELSE @]
      PROVE  q \in TableRow /\ SameTable(q, r) /\ Done(b, q, r)
  <2>1. PICK x \in Xids : x = IF r.xmin = b THEN None ELSE r.xmin
    BY XidFacts, TableRowIs
  <2>2. q = [r EXCEPT !.xmin = x]
    BY <1>1, <2>1
  <2>3. q \in TableRow /\ q.oid = r.oid /\ q.graph = r.graph /\ q.name = r.name /\ q.xmax = r.xmax /\ q.xmin = x
    BY <2>2, TableRowIs, ZenonT(60)
  <2> QED
    BY <1>1, <2>1, <2>3 DEF SameTable, Done
<1> QED
  BY <1>1 DEF Kept

\* What a drop of those in S makes of the tables.
LEMMA EndingTables ==
    ASSUME NEW X \in SUBSET TableRow, NEW b \in Backends, NEW S
    PROVE  /\ Ending(b, X, S) \subseteq TableRow
           /\ \A q \in Ending(b, X, S) : \E r \in X : SameTable(q, r) /\ Ended(b, S, q, r)
           /\ \A r \in X : \E q \in Ending(b, X, S) : SameTable(q, r) /\ Ended(b, S, q, r)
<1>1. ASSUME NEW r \in X, NEW q, q = IF r \in S THEN [r EXCEPT !.xmax = b] ELSE r
      PROVE  q \in TableRow /\ SameTable(q, r) /\ Ended(b, S, q, r)
  <2>1. CASE r \in S
    <3>1. q = [r EXCEPT !.xmax = b]
      BY <1>1, <2>1
    <3>2. q \in TableRow /\ q.oid = r.oid /\ q.graph = r.graph /\ q.name = r.name /\ q.xmin = r.xmin /\ q.xmax = b
      BY <3>1, XidFacts, TableRowIs, ZenonT(60)
    <3> QED
      BY <2>1, <3>2 DEF SameTable, Ended
  <2>2. CASE r \notin S
    <3>1. q = r
      BY <1>1, <2>2
    <3> QED
      BY <2>2, <3>1 DEF SameTable, Ended
  <2> QED
    BY <2>1, <2>2
<1> QED
  BY <1>1 DEF Ending

\* What a commit makes of the labels.
LEMMA KeptLabels ==
    ASSUME NEW X \in SUBSET LabelRow, NEW b \in Backends
    PROVE  /\ Kept(b, X) \subseteq LabelRow
           /\ \A q \in Kept(b, X) : \E r \in X : SameLabel(q, r) /\ Done(b, q, r)
           /\ \A r \in X : r.xmax # b => \E q \in Kept(b, X) : SameLabel(q, r) /\ Done(b, q, r)
<1>1. ASSUME NEW r \in X, r.xmax # b,
             NEW q, q = [r EXCEPT !.xmin = IF @ = b THEN None ELSE @]
      PROVE  q \in LabelRow /\ SameLabel(q, r) /\ Done(b, q, r)
  <2>1. PICK x \in Xids : x = IF r.xmin = b THEN None ELSE r.xmin
    BY XidFacts, LabelRowIs
  <2>2. q = [r EXCEPT !.xmin = x]
    BY <1>1, <2>1
  <2>3. q \in LabelRow /\ q.graph = r.graph /\ q.relation = r.relation /\ q.xmax = r.xmax /\ q.xmin = x
    BY <2>2, LabelRowIs, ZenonT(60)
  <2> QED
    BY <1>1, <2>1, <2>3 DEF SameLabel, Done
<1> QED
  BY <1>1 DEF Kept

\* What a drop of those in S makes of the labels.
LEMMA EndingLabels ==
    ASSUME NEW X \in SUBSET LabelRow, NEW b \in Backends, NEW S
    PROVE  /\ Ending(b, X, S) \subseteq LabelRow
           /\ \A q \in Ending(b, X, S) : \E r \in X : SameLabel(q, r) /\ Ended(b, S, q, r)
           /\ \A r \in X : \E q \in Ending(b, X, S) : SameLabel(q, r) /\ Ended(b, S, q, r)
<1>1. ASSUME NEW r \in X, NEW q, q = IF r \in S THEN [r EXCEPT !.xmax = b] ELSE r
      PROVE  q \in LabelRow /\ SameLabel(q, r) /\ Ended(b, S, q, r)
  <2>1. CASE r \in S
    <3>1. q = [r EXCEPT !.xmax = b]
      BY <1>1, <2>1
    <3>2. q \in LabelRow /\ q.graph = r.graph /\ q.relation = r.relation /\ q.xmin = r.xmin /\ q.xmax = b
      BY <3>1, XidFacts, LabelRowIs, ZenonT(60)
    <3> QED
      BY <2>1, <3>2 DEF SameLabel, Ended
  <2>2. CASE r \notin S
    <3>1. q = r
      BY <1>1, <2>2
    <3> QED
      BY <2>2, <3>1 DEF SameLabel, Ended
  <2> QED
    BY <2>1, <2>2
<1> QED
  BY <1>1 DEF Ending

-----------------------------------------------------------------------------
(* The end of a transaction, and what a step that leaves most alone keeps.   *)

\* The end of a call.
LEMMA EndCall ==
    ASSUME TypeOK, NEW b \in Backends, End(b)
    PROVE  /\ call' \in [Backends -> CallType]
           /\ call'[b].pc = "idle"
           /\ \A d \in Backends : d # b => call'[d] = call[d]
<1>1. call \in [Backends -> CallType] /\ call[b].count \in 0 .. MaxCalls
  BY DEF TypeOK, CallType
<1>2. PICK k : k = call[b].count
  OBVIOUS
<1>3. PICK c : c = [Idle EXCEPT !.count = k]
  OBVIOUS
<1>4. c \in CallType /\ c.pc = "idle"
  BY <1>1, <1>2, <1>3, XidFacts DEF CallType, Idle
<1>5. call' = [call EXCEPT ![b] = c]
  BY <1>2, <1>3 DEF End
<1> QED
  BY <1>1, <1>4, <1>5

\* A rollback keeps the invariant.
LEMMA AbortKeeps ==
    ASSUME IInv, NEW b \in Backends, Abort(b)
    PROVE  IInv'
<1> USE DEF IInv, RowInv
<1>1. /\ TypeOK /\ OidInv /\ SlotReleased /\ FullIsFull
      /\ \A d \in Backends : CallInv(d) /\ DrawInv(d)
      /\ \A g \in ag_graph : GraphInv(g)
      /\ \A t \in pg_class : TableInv(t)
      /\ \A r \in ag_label : LabelInv(r)
  OBVIOUS
<1>0. ag_graph \in SUBSET GraphRow /\ pg_class \in SUBSET TableRow /\ ag_label \in SUBSET LabelRow
  BY <1>1 DEF TypeOK
<1>2. /\ ag_graph' = RolledBack(b, ag_graph)
      /\ ag_label' = RolledBack(b, ag_label)
      /\ pg_class' = RolledBack(b, pg_class)
      /\ locks' = {k \in locks : k.by # b}
      /\ excused' = excused \cup {g.oid : g \in {g \in ag_graph : g.xmin = b}}
      /\ seq' = seq /\ slots' = slots /\ not_found' = not_found /\ next_oid' = next_oid
      /\ End(b)
  BY DEF Abort
<1>3. /\ ag_graph' \subseteq GraphRow
      /\ \A q \in ag_graph' : \E r \in ag_graph : SameGraph(q, r) /\ Undone(b, q, r)
      /\ \A r \in ag_graph : r.xmin # b => \E q \in ag_graph' : SameGraph(q, r) /\ Undone(b, q, r)
  BY <1>0, <1>2, RolledBackGraphs
<1>4. /\ pg_class' \subseteq TableRow
      /\ \A q \in pg_class' : \E r \in pg_class : SameTable(q, r) /\ Undone(b, q, r)
      /\ \A r \in pg_class : r.xmin # b => \E q \in pg_class' : SameTable(q, r) /\ Undone(b, q, r)
  BY <1>0, <1>2, RolledBackTables
<1>5. /\ ag_label' \subseteq LabelRow
      /\ \A q \in ag_label' : \E r \in ag_label : SameLabel(q, r) /\ Undone(b, q, r)
      /\ \A r \in ag_label : r.xmin # b => \E q \in ag_label' : SameLabel(q, r) /\ Undone(b, q, r)
  BY <1>0, <1>2, RolledBackLabels
<1>6. /\ call' \in [Backends -> CallType]
      /\ call'[b].pc = "idle"
      /\ \A d \in Backends : d # b => call'[d] = call[d]
  BY <1>1, <1>2, EndCall
<1>7. TypeOK'
  <2>1. locks' \subseteq LockType
    BY <1>1, <1>2 DEF TypeOK
  <2>2. excused' \subseteq Oids
    <3>1. \A g \in ag_graph : g.oid \in Oids
      BY <1>0 DEF GraphRow
    <3>2. excused \subseteq Oids
      BY <1>1 DEF TypeOK
    <3> QED
      BY <1>2, <3>1, <3>2
  <2>3. (\A g \in ag_graph' : g.oid < next_oid) /\ (\A t \in pg_class' : t.oid < next_oid)
    BY <1>1, <1>3, <1>4 DEF TypeOK, SameGraph, SameTable
  <2> QED
    BY <1>1, <1>2, <1>3, <1>4, <1>5, <1>6, <2>1, <2>2, <2>3 DEF TypeOK
<1>8. OidInv'
  <2>1. ASSUME NEW p \in ag_graph', NEW q \in ag_graph', p.oid = q.oid
        PROVE  p = q
    <3>1. PICK g \in ag_graph : SameGraph(p, g) /\ Undone(b, p, g)
      BY <1>3
    <3>2. PICK h \in ag_graph : SameGraph(q, h) /\ Undone(b, q, h)
      BY <1>3
    <3>3. g = h
      BY <1>1, <2>1, <3>1, <3>2 DEF OidInv, SameGraph
    <3>4. SameGraph(p, q) /\ p.xmin = q.xmin /\ p.xmax = q.xmax
      BY <3>1, <3>2, <3>3 DEF SameGraph, Undone
    <3> QED
      BY <1>3, <3>4, GraphRowEq
  <2>2. ASSUME NEW p \in pg_class', NEW q \in pg_class', p.oid = q.oid
        PROVE  p = q
    <3>1. PICK g \in pg_class : SameTable(p, g) /\ Undone(b, p, g)
      BY <1>4
    <3>2. PICK h \in pg_class : SameTable(q, h) /\ Undone(b, q, h)
      BY <1>4
    <3>3. g = h
      BY <1>1, <2>2, <3>1, <3>2 DEF OidInv, SameTable
    <3>4. SameTable(p, q) /\ p.xmin = q.xmin /\ p.xmax = q.xmax
      BY <3>1, <3>2, <3>3 DEF SameTable, Undone
    <3> QED
      BY <1>4, <3>4, TableRowEq
  <2> QED
    BY <2>1, <2>2 DEF OidInv
<1>9. ASSUME NEW d \in Backends
      PROVE  CallInv(d)' /\ DrawInv(d)'
  <2>1. CASE d = b
    BY <1>6, <2>1 DEF CallInv, DrawInv, Creating
  <2>2. CASE d # b
    <3>1. call'[d] = call[d] /\ CallInv(d) /\ DrawInv(d)
      BY <1>1, <1>6, <2>2
    <3>2. ASSUME NEW t \in pg_class, t.xmin = d, t.xmax = None
          PROVE  \E q \in pg_class' : q.oid = t.oid /\ q.graph = t.graph /\ q.xmin = d /\ q.xmax = None
      BY <1>4, <2>2, <3>2, XidFacts DEF SameTable, Undone
    <3>3. CallInv(d)'
      BY <3>1, <3>2 DEF CallInv, Creating
    <3>4. DrawInv(d)'
      BY <1>2, <3>1 DEF DrawInv
    <3> QED
      BY <3>3, <3>4
  <2> QED
    BY <2>1, <2>2
<1>10. ASSUME NEW q \in ag_graph'
       PROVE  GraphInv(q)'
  <2>1. PICK g \in ag_graph : SameGraph(q, g) /\ Undone(b, q, g)
    BY <1>3
  <2>2. GraphInv(g)
    BY <1>1
  <2> QED
    BY <1>2, <2>1, <2>2 DEF GraphInv, SameGraph, Undone
<1>11. ASSUME NEW q \in pg_class'
       PROVE  TableInv(q)'
  <2>1. PICK t \in pg_class : SameTable(q, t) /\ Undone(b, q, t)
    BY <1>4
  <2>2. TableInv(t)
    BY <1>1
  <2>3. \E p \in ag_graph' : p.oid = q.graph
    BY <1>3, <2>1, <2>2, XidFacts DEF TableInv, SameGraph, SameTable, Undone
  <2>4. ASSUME NEW p \in ag_graph', p.oid = q.graph
        PROVE  (p.xmin # None => q.xmin = p.xmin) /\ (p.xmax # None => q.xmax = p.xmax)
    BY <1>3, <2>1, <2>2, <2>4 DEF TableInv, SameGraph, SameTable, Undone
  <2>5. q.xmax # None => [by |-> q.xmax, oid |-> q.oid, mode |-> "exclusive"] \in locks'
    BY <1>2, <2>1, <2>2 DEF TableInv, SameTable, Undone
  <2>6. CASE \E r \in ag_label : r.relation = t.oid
    <3>1. PICK r \in ag_label : r.relation = t.oid
      BY <2>6
    <3>2. r.xmin = t.xmin
      BY <1>1, <3>1 DEF LabelInv, OidInv
    <3>3. \E p \in ag_label' : p.relation = q.oid
      BY <1>5, <2>1, <3>1, <3>2 DEF SameLabel, SameTable, Undone
    <3> QED
      BY <2>3, <2>4, <2>5, <3>3 DEF TableInv
  <2>7. CASE \E d \in Backends : Creating(d) /\ call[d].relation = t.oid
    <3>1. PICK d \in Backends : Creating(d) /\ call[d].relation = t.oid
      BY <2>7
    <3>2. t.xmin = d
      BY <1>1, <3>1 DEF CallInv, OidInv
    <3>3. Creating(d)' /\ call'[d].relation = q.oid
      BY <1>6, <2>1, <3>1, <3>2 DEF Creating, SameTable, Undone
    <3> QED
      BY <2>3, <2>4, <2>5, <3>3 DEF TableInv
  <2> QED
    BY <2>2, <2>6, <2>7 DEF TableInv
<1>12. ASSUME NEW q \in ag_label'
       PROVE  LabelInv(q)'
  <2>1. PICK r \in ag_label : SameLabel(q, r) /\ Undone(b, q, r)
    BY <1>5
  <2>2. PICK t \in pg_class : t.oid = r.relation /\ t.graph = r.graph /\ t.xmin = r.xmin /\ t.xmax = r.xmax
    BY <1>1 DEF LabelInv
  <2>3. PICK u \in pg_class' : SameTable(u, t) /\ Undone(b, u, t)
    BY <1>4, <2>1, <2>2 DEF Undone
  <2>4. u.oid = q.relation /\ u.graph = q.graph /\ u.xmin = q.xmin /\ u.xmax = q.xmax
    BY <2>1, <2>2, <2>3 DEF SameLabel, SameTable, Undone
  <2> QED
    BY <2>4 DEF LabelInv
<1>13. SlotReleased'
  BY <1>1, <1>2, <1>3 DEF SlotReleased, SameGraph
<1>14. FullIsFull'
  <2> SUFFICES ASSUME NEW d \in Backends, call'[d].pc = "full"
               PROVE  call'[d].tested \cup call'[d].drawn = LabelIds
    BY DEF FullIsFull
  <2> QED
    BY <1>1, <1>6 DEF FullIsFull
<1> QED
  BY <1>7, <1>8, <1>9, <1>10, <1>11, <1>12, <1>13, <1>14

\* A commit keeps the invariant.
LEMMA CommitKeeps ==
    ASSUME IInv, NEW b \in Backends, Commit(b)
    PROVE  IInv'
<1> USE DEF IInv, RowInv
<1>1. /\ TypeOK /\ OidInv /\ SlotReleased /\ FullIsFull
      /\ \A d \in Backends : CallInv(d) /\ DrawInv(d)
      /\ \A g \in ag_graph : GraphInv(g)
      /\ \A t \in pg_class : TableInv(t)
      /\ \A r \in ag_label : LabelInv(r)
  OBVIOUS
<1>0. ag_graph \in SUBSET GraphRow /\ pg_class \in SUBSET TableRow /\ ag_label \in SUBSET LabelRow
  BY <1>1 DEF TypeOK
<1>2. /\ ag_graph' = Kept(b, ag_graph)
      /\ ag_label' = Kept(b, ag_label)
      /\ pg_class' = Kept(b, pg_class)
      /\ locks' = {k \in locks : k.by # b}
      /\ UNCHANGED <<seq, slots, not_found, next_oid, call, excused>>
      /\ call[b].pc = "idle"
  BY DEF Commit
<1>3. /\ ag_graph' \subseteq GraphRow
      /\ \A q \in ag_graph' : \E r \in ag_graph : SameGraph(q, r) /\ Done(b, q, r)
      /\ \A r \in ag_graph : r.xmax # b => \E q \in ag_graph' : SameGraph(q, r) /\ Done(b, q, r)
  BY <1>0, <1>2, KeptGraphs
<1>4. /\ pg_class' \subseteq TableRow
      /\ \A q \in pg_class' : \E r \in pg_class : SameTable(q, r) /\ Done(b, q, r)
      /\ \A r \in pg_class : r.xmax # b => \E q \in pg_class' : SameTable(q, r) /\ Done(b, q, r)
  BY <1>0, <1>2, KeptTables
<1>5. /\ ag_label' \subseteq LabelRow
      /\ \A q \in ag_label' : \E r \in ag_label : SameLabel(q, r) /\ Done(b, q, r)
      /\ \A r \in ag_label : r.xmax # b => \E q \in ag_label' : SameLabel(q, r) /\ Done(b, q, r)
  BY <1>0, <1>2, KeptLabels
<1>7. TypeOK'
  <2>1. locks' \subseteq LockType
    BY <1>1, <1>2 DEF TypeOK
  <2>3. (\A g \in ag_graph' : g.oid < next_oid) /\ (\A t \in pg_class' : t.oid < next_oid)
    BY <1>1, <1>3, <1>4 DEF TypeOK, SameGraph, SameTable
  <2> QED
    BY <1>1, <1>2, <1>3, <1>4, <1>5, <2>1, <2>3 DEF TypeOK
<1>8. OidInv'
  <2>1. ASSUME NEW p \in ag_graph', NEW q \in ag_graph', p.oid = q.oid
        PROVE  p = q
    <3>1. PICK g \in ag_graph : SameGraph(p, g) /\ Done(b, p, g)
      BY <1>3
    <3>2. PICK h \in ag_graph : SameGraph(q, h) /\ Done(b, q, h)
      BY <1>3
    <3>3. g = h
      BY <1>1, <2>1, <3>1, <3>2 DEF OidInv, SameGraph
    <3>4. SameGraph(p, q) /\ p.xmin = q.xmin /\ p.xmax = q.xmax
      BY <3>1, <3>2, <3>3 DEF SameGraph, Done
    <3> QED
      BY <1>3, <3>4, GraphRowEq
  <2>2. ASSUME NEW p \in pg_class', NEW q \in pg_class', p.oid = q.oid
        PROVE  p = q
    <3>1. PICK g \in pg_class : SameTable(p, g) /\ Done(b, p, g)
      BY <1>4
    <3>2. PICK h \in pg_class : SameTable(q, h) /\ Done(b, q, h)
      BY <1>4
    <3>3. g = h
      BY <1>1, <2>2, <3>1, <3>2 DEF OidInv, SameTable
    <3>4. SameTable(p, q) /\ p.xmin = q.xmin /\ p.xmax = q.xmax
      BY <3>1, <3>2, <3>3 DEF SameTable, Done
    <3> QED
      BY <1>4, <3>4, TableRowEq
  <2> QED
    BY <2>1, <2>2 DEF OidInv
<1>9. ASSUME NEW d \in Backends
      PROVE  CallInv(d)' /\ DrawInv(d)'
  <2>1. CASE d = b
    BY <1>2, <2>1 DEF CallInv, DrawInv, Creating
  <2>2. CASE d # b
    <3>1. call'[d] = call[d] /\ CallInv(d) /\ DrawInv(d)
      BY <1>1, <1>2
    <3>2. ASSUME NEW t \in pg_class, t.xmin = d, t.xmax = None
          PROVE  \E q \in pg_class' : q.oid = t.oid /\ q.graph = t.graph /\ q.xmin = d /\ q.xmax = None
      BY <1>4, <2>2, <3>2, XidFacts DEF SameTable, Done
    <3>3. CallInv(d)'
      BY <3>1, <3>2 DEF CallInv, Creating
    <3>4. DrawInv(d)'
      BY <1>2, <3>1 DEF DrawInv
    <3> QED
      BY <3>3, <3>4
  <2> QED
    BY <2>1, <2>2
<1>10. ASSUME NEW q \in ag_graph'
       PROVE  GraphInv(q)'
  <2>1. PICK g \in ag_graph : SameGraph(q, g) /\ Done(b, q, g)
    BY <1>3
  <2>2. GraphInv(g)
    BY <1>1
  <2> QED
    BY <1>2, <2>1, <2>2 DEF GraphInv, SameGraph, Done
<1>11. ASSUME NEW q \in pg_class'
       PROVE  TableInv(q)'
  <2>1. PICK t \in pg_class : SameTable(q, t) /\ Done(b, q, t)
    BY <1>4
  <2>2. TableInv(t)
    BY <1>1
  <2>3. \E p \in ag_graph' : p.oid = q.graph
    BY <1>3, <2>1, <2>2, XidFacts DEF TableInv, SameGraph, SameTable, Done
  <2>4. ASSUME NEW p \in ag_graph', p.oid = q.graph
        PROVE  (p.xmin # None => q.xmin = p.xmin) /\ (p.xmax # None => q.xmax = p.xmax)
    BY <1>3, <2>1, <2>2, <2>4 DEF TableInv, SameGraph, SameTable, Done
  <2>5. q.xmax # None => [by |-> q.xmax, oid |-> q.oid, mode |-> "exclusive"] \in locks'
    BY <1>2, <2>1, <2>2 DEF TableInv, SameTable, Done
  <2>6. CASE \E r \in ag_label : r.relation = t.oid
    <3>1. PICK r \in ag_label : r.relation = t.oid
      BY <2>6
    <3>2. r.xmax = t.xmax
      BY <1>1, <3>1 DEF LabelInv, OidInv
    <3>3. \E p \in ag_label' : p.relation = q.oid
      BY <1>5, <2>1, <3>1, <3>2 DEF SameLabel, SameTable, Done
    <3> QED
      BY <2>3, <2>4, <2>5, <3>3 DEF TableInv
  <2>7. CASE \E d \in Backends : Creating(d) /\ call[d].relation = t.oid
    <3>1. PICK d \in Backends : Creating(d) /\ call[d].relation = t.oid
      BY <2>7
    <3>3. Creating(d)' /\ call'[d].relation = q.oid
      BY <1>2, <2>1, <3>1 DEF Creating, SameTable, Done
    <3> QED
      BY <2>3, <2>4, <2>5, <3>3 DEF TableInv
  <2> QED
    BY <2>2, <2>6, <2>7 DEF TableInv
<1>12. ASSUME NEW q \in ag_label'
       PROVE  LabelInv(q)'
  <2>1. PICK r \in ag_label : SameLabel(q, r) /\ Done(b, q, r)
    BY <1>5
  <2>2. PICK t \in pg_class : t.oid = r.relation /\ t.graph = r.graph /\ t.xmin = r.xmin /\ t.xmax = r.xmax
    BY <1>1 DEF LabelInv
  <2>3. PICK u \in pg_class' : SameTable(u, t) /\ Done(b, u, t)
    BY <1>4, <2>1, <2>2 DEF Done
  <2>4. u.oid = q.relation /\ u.graph = q.graph /\ u.xmin = q.xmin /\ u.xmax = q.xmax
    BY <2>1, <2>2, <2>3 DEF SameLabel, SameTable, Done
  <2> QED
    BY <2>4 DEF LabelInv
<1>13. SlotReleased'
  <2> SUFFICES ASSUME NEW o \in slots, o \notin excused
               PROVE  \E q \in ag_graph' : q.oid = o
    BY <1>2 DEF SlotReleased
  <2>1. PICK g \in ag_graph : g.oid = o
    BY <1>1 DEF SlotReleased
  <2>2. g.xmax # b
    BY <1>1, <2>1, XidFacts DEF GraphInv
  <2> QED
    BY <1>3, <2>1, <2>2 DEF SameGraph
<1>14. FullIsFull'
  BY <1>1, <1>2 DEF FullIsFull
<1> QED
  BY <1>7, <1>8, <1>9, <1>10, <1>11, <1>12, <1>13, <1>14

-----------------------------------------------------------------------------
(* create_graph, and the first steps of create_label and drop_graph.         *)

\* What taking locks adds.
LEMMA LockedIs ==
    ASSUME TypeOK, NEW b \in Backends, NEW O \in SUBSET Oids, NEW mode \in {"share", "exclusive"}
    PROVE  /\ Locked(b, O, mode) \subseteq LockType
           /\ locks \subseteq Locked(b, O, mode)
           /\ \A o \in O : [by |-> b, oid |-> o, mode |-> mode] \in Locked(b, O, mode)
<1>1. \A o \in O : [by |-> b, oid |-> o, mode |-> mode] \in LockType
  BY DEF LockType
<1>2. locks \subseteq LockType
  BY DEF TypeOK
<1> QED
  BY <1>1, <1>2 DEF Locked

\* The start of a call.
LEMMA BeginCall ==
    ASSUME TypeOK, NEW b \in Backends, CanCall(b), NEW c \in CallType, Begin(b, c)
    PROVE  /\ call' \in [Backends -> CallType]
           /\ call'[b].pc = c.pc /\ call'[b].graph = c.graph
           /\ call'[b].label = c.label /\ call'[b].tries = c.tries
           /\ \A d \in Backends : d # b => call'[d] = call[d]
<1>1. call \in [Backends -> CallType] /\ call[b].count \in 0 .. MaxCalls /\ MaxCalls \in Nat
  BY XidFacts DEF TypeOK, CallType
<1>2. PICK k : k = call[b].count + 1
  OBVIOUS
<1>3. k \in 0 .. MaxCalls
  BY <1>1, <1>2 DEF CanCall
<1>4. PICK n : n = [c EXCEPT !.count = k]
  OBVIOUS
<1>5. /\ n \in CallType /\ n.pc = c.pc /\ n.graph = c.graph
      /\ n.label = c.label /\ n.tries = c.tries
  BY <1>3, <1>4 DEF CallType
<1>6. call' = [call EXCEPT ![b] = n]
  BY <1>2, <1>4 DEF Begin
<1> QED
  BY <1>1, <1>5, <1>6

\* A call that starts has no table yet: what is said of calls stays true, and a
\* table that is being created stays so.
LEMMA BeginKeepsCalls ==
    ASSUME IInv, NEW b \in Backends, CanCall(b), NEW c \in CallType, Begin(b, c),
           c.pc \in {"idle", "table", "schema"}, c.pc # "idle" => c.graph \in Oids,
           c.pc = "table" => c.label \in LabelNames /\ c.tries = 0,
           \A t \in pg_class : t.xmin \notin {b, None} => t \in pg_class',
           seq' = seq
    PROVE  /\ \A d \in Backends : CallInv(d)' /\ DrawInv(d)'
           /\ FullIsFull'
           /\ \A d \in Backends : Creating(d) => Creating(d)' /\ call'[d].relation = call[d].relation
<1> USE DEF IInv, RowInv
<1>1. TypeOK /\ FullIsFull /\ \A d \in Backends : CallInv(d) /\ DrawInv(d)
  OBVIOUS
<1>2. /\ call'[b].pc = c.pc /\ call'[b].graph = c.graph
      /\ call'[b].label = c.label /\ call'[b].tries = c.tries
      /\ \A d \in Backends : d # b => call'[d] = call[d]
  BY <1>1, BeginCall
<1>3. call[b].pc = "idle"
  BY DEF CanCall
<1>4. ASSUME NEW d \in Backends
      PROVE  CallInv(d)' /\ DrawInv(d)'
  <2>1. CASE d = b
    BY <1>2, <2>1 DEF CallInv, DrawInv, Creating
  <2>2. CASE d # b
    BY <1>1, <1>2, <2>2, XidFacts DEF CallInv, DrawInv, Creating
  <2> QED
    BY <2>1, <2>2
<1>5. FullIsFull'
  <2> SUFFICES ASSUME NEW d \in Backends, call'[d].pc = "full"
               PROVE  call'[d].tested \cup call'[d].drawn = LabelIds
    BY DEF FullIsFull
  <2>1. d # b
    BY <1>2
  <2> QED
    BY <1>1, <1>2, <2>1 DEF FullIsFull
<1>6. ASSUME NEW d \in Backends, Creating(d)
      PROVE  Creating(d)' /\ call'[d].relation = call[d].relation
  BY <1>2, <1>3, <1>6 DEF Creating
<1> QED
  BY <1>4, <1>5, <1>6

\* A call that has only been started.
LEMMA StartKeeps ==
    ASSUME IInv, NEW b \in Backends, CanCall(b), NEW c \in CallType, Begin(b, c),
           c.pc \in {"idle", "table", "schema"}, c.pc # "idle" => c.graph \in Oids,
           c.pc = "table" => c.label \in LabelNames /\ c.tries = 0,
           UNCHANGED <<ag_graph, ag_label, pg_class, seq, slots, locks, not_found, next_oid, excused>>
    PROVE  IInv'
<1>0. (\A t \in pg_class : t.xmin \notin {b, None} => t \in pg_class') /\ seq' = seq
  OBVIOUS
<1>1. /\ \A d \in Backends : CallInv(d)' /\ DrawInv(d)'
      /\ FullIsFull'
      /\ \A d \in Backends : Creating(d) => Creating(d)' /\ call'[d].relation = call[d].relation
  BY <1>0, BeginKeepsCalls
<1> USE DEF IInv, RowInv
<1>2. TypeOK'
  <2>1. call' \in [Backends -> CallType]
    BY BeginCall
  <2> QED
    BY <2>1 DEF TypeOK
<1>3. OidInv' /\ SlotReleased'
  BY DEF OidInv, SlotReleased
<1>4. \A g \in ag_graph' : GraphInv(g)'
  BY DEF GraphInv
<1>5. ASSUME NEW t \in pg_class'
      PROVE  TableInv(t)'
  <2>1. TableInv(t)
    OBVIOUS
  <2>2. (\E r \in ag_label : r.relation = t.oid) \/ (\E d \in Backends : Creating(d) /\ call[d].relation = t.oid)
    BY <2>1 DEF TableInv
  <2>3. (\E r \in ag_label' : r.relation = t.oid) \/ (\E d \in Backends : Creating(d)' /\ call'[d].relation = t.oid)
    BY <1>1, <2>2
  <2> QED
    BY <2>1, <2>3 DEF TableInv
<1>6. \A r \in ag_label' : LabelInv(r)'
  BY DEF LabelInv
<1> QED
  BY <1>1, <1>2, <1>3, <1>4, <1>5, <1>6

\* The record of a call that is not in progress.
LEMMA IdleType == Idle \in CallType /\ Idle.pc = "idle"
BY XidFacts DEF Idle, CallType

\* create_label up to its first lock keeps the invariant.
LEMMA CreateLabelKeeps ==
    ASSUME IInv, NEW b \in Backends, NEW n \in GraphNames, NEW l \in LabelNames, CreateLabel(b, n, l)
    PROVE  IInv'
<1>1. PICK g \in Named(b, n) :
          Begin(b, [Idle EXCEPT !.op = "create_label", !.pc = "table",
                                !.graph = g.oid, !.name = n, !.label = l])
  BY DEF CreateLabel
<1>2. g.oid \in Oids
  BY <1>1 DEF Named, IInv, RowInv, TypeOK, GraphRow
<1>3. PICK c : c = [Idle EXCEPT !.op = "create_label", !.pc = "table",
                                !.graph = g.oid, !.name = n, !.label = l]
  OBVIOUS
<1>4. c \in CallType /\ c.pc = "table" /\ c.graph = g.oid /\ c.label = l /\ c.tries = 0
  <2>1. c = [op |-> "create_label", pc |-> "table", graph |-> g.oid, name |-> n, label |-> l,
             relation |-> None, id |-> 0, tries |-> 0, count |-> 0, tested |-> {}, drawn |-> {}]
    BY <1>3 DEF Idle
  <2> QED
    BY <1>2, <2>1, XidFacts DEF CallType
<1>5. CanCall(b) /\ UNCHANGED <<ag_graph, ag_label, pg_class, seq, slots, locks, not_found, next_oid, excused>>
  BY DEF CreateLabel
<1> QED
  <2>1. /\ c.pc \in {"idle", "table", "schema"} /\ (c.pc # "idle" => c.graph \in Oids)
        /\ (c.pc = "table" => c.label \in LabelNames /\ c.tries = 0)
        /\ Begin(b, c)
    BY <1>1, <1>2, <1>3, <1>4
  <2> QED
    BY <1>4, <1>5, <2>1, StartKeeps

\* drop_graph up to its first lock keeps the invariant.
LEMMA DropGraphKeeps ==
    ASSUME IInv, NEW b \in Backends, NEW n \in GraphNames, DropGraph(b, n)
    PROVE  IInv'
<1>1. PICK g \in Named(b, n) :
          Begin(b, [Idle EXCEPT !.op = "drop_graph", !.pc = "schema", !.graph = g.oid, !.name = n])
  BY DEF DropGraph
<1>2. g.oid \in Oids
  BY <1>1 DEF Named, IInv, RowInv, TypeOK, GraphRow
<1>3. PICK c : c = [Idle EXCEPT !.op = "drop_graph", !.pc = "schema", !.graph = g.oid, !.name = n]
  OBVIOUS
<1>4. c \in CallType /\ c.pc = "schema" /\ c.graph = g.oid
  <2>1. c = [op |-> "drop_graph", pc |-> "schema", graph |-> g.oid, name |-> n, label |-> None,
             relation |-> None, id |-> 0, tries |-> 0, count |-> 0, tested |-> {}, drawn |-> {}]
    BY <1>3 DEF Idle
  <2> QED
    BY <1>2, <2>1, XidFacts DEF CallType
<1>5. CanCall(b) /\ UNCHANGED <<ag_graph, ag_label, pg_class, seq, slots, locks, not_found, next_oid, excused>>
  BY DEF DropGraph
<1> QED
  <2>1. /\ c.pc \in {"idle", "table", "schema"} /\ (c.pc # "idle" => c.graph \in Oids)
        /\ (c.pc = "table" => c.label \in LabelNames /\ c.tries = 0)
        /\ Begin(b, c)
    BY <1>1, <1>2, <1>3, <1>4
  <2> QED
    BY <1>4, <1>5, <2>1, StartKeeps

\* create_graph keeps the invariant: the new graph has an OID of its own, which
\* no table names.
LEMMA CreateGraphKeeps ==
    ASSUME IInv, NEW b \in Backends, NEW n \in GraphNames, CreateGraph(b, n)
    PROVE  IInv'
<1>1. CASE Abort(b)
  BY <1>1, AbortKeeps
<1>2. ASSUME /\ ag_graph' = ag_graph \cup {[oid |-> next_oid, name |-> n, xmin |-> b, xmax |-> None]}
             /\ next_oid' = next_oid + 1
             /\ locks' = Locked(b, {next_oid}, "share")
             /\ Begin(b, Idle)
             /\ UNCHANGED <<ag_label, pg_class, seq, slots, not_found, excused>>
      PROVE  IInv'
  <2>0. CanCall(b) /\ next_oid <= MaxOid
    BY DEF CreateGraph
  <2>1. /\ TypeOK /\ OidInv /\ SlotReleased
        /\ \A g \in ag_graph : GraphInv(g)
        /\ \A t \in pg_class : TableInv(t)
        /\ \A r \in ag_label : LabelInv(r)
    BY DEF IInv, RowInv
  <2>2. next_oid \in Nat /\ next_oid \in Oids
    BY <2>0, <2>1, XidFacts DEF TypeOK, Oids
  <2>3. PICK h : h = [oid |-> next_oid, name |-> n, xmin |-> b, xmax |-> None]
    OBVIOUS
  <2>4. h \in GraphRow /\ h.oid = next_oid /\ h.xmax = None
    BY <2>2, <2>3, XidFacts DEF GraphRow
  <2>5. ag_graph' = ag_graph \cup {h}
    BY <1>2, <2>3
  <2>6. /\ \A d \in Backends : CallInv(d)' /\ DrawInv(d)'
        /\ FullIsFull'
        /\ \A d \in Backends : Creating(d) => Creating(d)' /\ call'[d].relation = call[d].relation
    <3>1. (\A t \in pg_class : t.xmin \notin {b, None} => t \in pg_class') /\ seq' = seq
      BY <1>2
    <3> QED
      BY <1>2, <2>0, <3>1, IdleType, BeginKeepsCalls
  <2>7. locks' \subseteq LockType /\ locks \subseteq locks'
    BY <1>2, <2>1, <2>2, LockedIs
  <2>8. TypeOK'
    <3>1. call' \in [Backends -> CallType]
      BY <1>2, <2>0, <2>1, IdleType, BeginCall
    <3>2. next_oid' \in 1 .. MaxOid + 1
      BY <1>2, <2>0, <2>2, XidFacts
    <3>3. \A g \in ag_graph' : g.oid < next_oid'
      <4>1. ASSUME NEW g \in ag_graph
            PROVE  g.oid < next_oid + 1
        <5>1. g.oid \in 1 .. MaxOid /\ g.oid < next_oid
          BY <2>1 DEF TypeOK, GraphRow, Oids
        <5> QED
          BY <2>2, <5>1, XidFacts
      <4> QED
        BY <1>2, <2>2, <2>4, <2>5, <4>1
    <3>4. \A t \in pg_class' : t.oid < next_oid'
      <4>1. ASSUME NEW t \in pg_class
            PROVE  t.oid < next_oid + 1
        <5>1. t.oid \in 1 .. MaxOid /\ t.oid < next_oid
          BY <2>1 DEF TypeOK, TableRow, Oids
        <5> QED
          BY <2>2, <5>1, XidFacts
      <4> QED
        BY <1>2, <4>1
    <3>5. slots' \subseteq 1 .. next_oid' - 1
      <4>1. slots \subseteq 1 .. next_oid - 1
        BY <2>1 DEF TypeOK
      <4> QED
        BY <1>2, <2>2, <4>1
    <3> QED
      BY <1>2, <2>1, <2>4, <2>5, <2>7, <3>1, <3>2, <3>3, <3>4, <3>5 DEF TypeOK
  <2>9. \A g \in ag_graph : g.oid # next_oid
    <3> SUFFICES ASSUME NEW g \in ag_graph
                 PROVE  g.oid # next_oid
      OBVIOUS
    <3>1. g.oid < next_oid
      BY <2>1 DEF TypeOK
    <3> QED
      BY <2>2, <3>1
  <2>10. OidInv'
    BY <1>2, <2>1, <2>4, <2>5, <2>9 DEF OidInv
  <2>11. \A g \in ag_graph' : GraphInv(g)'
    BY <1>2, <2>1, <2>4, <2>5, <2>7 DEF GraphInv
  <2>12. ASSUME NEW t \in pg_class'
         PROVE  TableInv(t)'
    <3>1. TableInv(t)
      BY <1>2, <2>1
    <3>2. (\E g \in ag_graph : g.oid = t.graph) /\ t.graph # next_oid
      BY <2>9, <3>1 DEF TableInv
    <3>3. (\E r \in ag_label : r.relation = t.oid) \/ (\E d \in Backends : Creating(d) /\ call[d].relation = t.oid)
      BY <3>1 DEF TableInv
    <3>4. (\E r \in ag_label' : r.relation = t.oid) \/ (\E d \in Backends : Creating(d)' /\ call'[d].relation = t.oid)
      BY <1>2, <2>6, <3>3
    <3> QED
      BY <2>4, <2>5, <2>7, <3>1, <3>2, <3>4 DEF TableInv
  <2>13. \A r \in ag_label' : LabelInv(r)'
    BY <1>2, <2>1 DEF LabelInv
  <2>14. SlotReleased'
    BY <1>2, <2>1, <2>5 DEF SlotReleased
  <2> QED
    BY <2>6, <2>8, <2>10, <2>11, <2>12, <2>13, <2>14 DEF IInv, RowInv
<1> QED
  BY <1>1, <1>2 DEF CreateGraph

-----------------------------------------------------------------------------
(* create_label.                                                             *)

\* Nothing was given out before the first draw.
LEMMA RecentZero ==
    ASSUME NEW n \in 0 .. LABEL_ID_MAX
    PROVE  Recent(n, 0) = {}
BY XidFacts DEF Recent, LabelIds

\* create_table_for_label keeps the invariant: the schema is not being dropped
\* while it is locked, and the new table belongs to the backend until its label
\* is inserted.
LEMMA CreateTableKeeps ==
    ASSUME IInv, NEW b \in Backends, CreateTable(b)
    PROVE  IInv'
<1> DEFINE c == call[b]
<1>1. CASE Abort(b)
  BY <1>1, AbortKeeps
<1>2. ASSUME /\ \E g \in Named(b, c.name) : g.oid = c.graph
             /\ next_oid <= MaxOid
             /\ pg_class' = pg_class \cup {[oid |-> next_oid, graph |-> c.graph, name |-> c.label,
                                         xmin |-> b, xmax |-> None]}
             /\ next_oid' = next_oid + 1
             /\ locks' = Locked(b, {c.graph, next_oid}, "share")
             /\ call' = [call EXCEPT ![b].pc = "id", ![b].relation = next_oid]
             /\ UNCHANGED <<ag_graph, ag_label, seq, slots, not_found, excused>>
      PROVE  IInv'
  <2>0. c.pc = "table" /\ Conflicting(b, c.graph, "share") = {}
    BY DEF CreateTable
  <2>1. /\ TypeOK /\ OidInv /\ SlotReleased /\ FullIsFull
        /\ \A d \in Backends : CallInv(d) /\ DrawInv(d)
        /\ \A g \in ag_graph : GraphInv(g)
        /\ \A t \in pg_class : TableInv(t)
        /\ \A r \in ag_label : LabelInv(r)
    BY DEF IInv, RowInv
  <2>2. next_oid \in Nat /\ next_oid \in Oids
    BY <1>2, <2>1, XidFacts DEF TypeOK, Oids
  <2>3. c \in CallType /\ c.graph \in Oids /\ c.label \in LabelNames /\ c.tries = 0
    BY <2>0, <2>1 DEF TypeOK, CallInv
  <2>4. PICK n : n = [c EXCEPT !.pc = "id", !.relation = next_oid]
    OBVIOUS
  <2>5. /\ n \in CallType /\ n.pc = "id" /\ n.relation = next_oid /\ n.graph = c.graph
        /\ n.label = c.label /\ n.tries = 0
    BY <2>2, <2>3, <2>4, ZenonT(60) DEF CallType
  <2>6. call \in [Backends -> CallType] /\ call' = [call EXCEPT ![b] = n]
    BY <1>2, <2>1, <2>4 DEF TypeOK
  <2>7. /\ call' \in [Backends -> CallType] /\ call'[b] = n
        /\ \A d \in Backends : d # b => call'[d] = call[d]
    BY <2>5, <2>6
  <2>8. PICK u : u = [oid |-> next_oid, graph |-> c.graph, name |-> c.label, xmin |-> b, xmax |-> None]
    OBVIOUS
  <2>9. /\ u \in TableRow /\ u.oid = next_oid /\ u.graph = c.graph
        /\ u.xmin = b /\ u.xmax = None
    BY <2>2, <2>3, <2>8, XidFacts DEF TableRow
  <2>10. pg_class' = pg_class \cup {u}
    BY <1>2, <2>8
  <2>11. locks' \subseteq LockType /\ locks \subseteq locks'
    BY <1>2, <2>1, <2>2, <2>3, LockedIs
  <2>12. TypeOK'
    <3>2. next_oid' \in 1 .. MaxOid + 1
      BY <1>2, <2>2, XidFacts
    <3>3. \A g \in ag_graph' : g.oid < next_oid'
      <4>1. ASSUME NEW g \in ag_graph
            PROVE  g.oid < next_oid + 1
        <5>1. g.oid \in 1 .. MaxOid /\ g.oid < next_oid
          BY <2>1 DEF TypeOK, GraphRow, Oids
        <5> QED
          BY <2>2, <5>1, XidFacts
      <4> QED
        BY <1>2, <4>1
    <3>4. \A t \in pg_class' : t.oid < next_oid'
      <4>1. ASSUME NEW t \in pg_class
            PROVE  t.oid < next_oid + 1
        <5>1. t.oid \in 1 .. MaxOid /\ t.oid < next_oid
          BY <2>1 DEF TypeOK, TableRow, Oids
        <5> QED
          BY <2>2, <5>1, XidFacts
      <4> QED
        BY <1>2, <2>2, <2>9, <2>10, <4>1
    <3>5. slots' \subseteq 1 .. next_oid' - 1
      <4>1. slots \subseteq 1 .. next_oid - 1
        BY <2>1 DEF TypeOK
      <4> QED
        BY <1>2, <2>2, <4>1
    <3> QED
      BY <1>2, <2>1, <2>7, <2>9, <2>10, <2>11, <3>2, <3>3, <3>4, <3>5 DEF TypeOK
  <2>13. \A t \in pg_class : t.oid # next_oid
    <3> SUFFICES ASSUME NEW t \in pg_class
                 PROVE  t.oid # next_oid
      OBVIOUS
    <3>1. t.oid < next_oid
      BY <2>1 DEF TypeOK
    <3> QED
      BY <2>2, <3>1
  <2>14. OidInv'
    BY <1>2, <2>1, <2>9, <2>10, <2>13 DEF OidInv
  <2>15. PICK g \in ag_graph : g.oid = c.graph /\ g.xmin \in {b, None} /\ g.xmax # b
    BY <1>2 DEF Named, LiveFor
  <2>16. g.xmax = None
    <3>1. SUFFICES ASSUME g.xmax # None
                   PROVE  FALSE
      OBVIOUS
    <3>2. PICK k \in locks : k = [by |-> g.xmax, oid |-> g.oid, mode |-> "exclusive"]
      BY <2>1, <3>1 DEF GraphInv
    <3>3. k.by # b /\ k.oid = c.graph /\ k.mode = "exclusive"
      BY <2>15, <3>2
    <3> QED
      BY <2>0, <3>3 DEF Conflicting
  <2>17. ASSUME NEW d \in Backends
         PROVE  CallInv(d)' /\ DrawInv(d)'
    <3>1. CASE d = b
      <4>1. CallInv(d)'
        BY <2>3, <2>5, <2>7, <2>9, <2>10, <3>1 DEF CallInv, Creating
      <4>2. seq[c.graph] \in 0 .. LABEL_ID_MAX
        BY <2>1, <2>3 DEF TypeOK
      <4>3. Recent(seq[c.graph], 0) = {}
        BY <4>2, RecentZero
      <4> QED
        BY <1>2, <2>5, <2>7, <3>1, <4>1, <4>3 DEF DrawInv
    <3>2. CASE d # b
      BY <1>2, <2>1, <2>7, <2>10, <3>2 DEF CallInv, DrawInv, Creating
    <3> QED
      BY <3>1, <3>2
  <2>18. \A h \in ag_graph' : GraphInv(h)'
    BY <1>2, <2>1, <2>11 DEF GraphInv
  <2>19. ASSUME NEW t \in pg_class'
         PROVE  TableInv(t)'
    <3>1. CASE t = u
      <4>1. \A h \in ag_graph' : h.oid = t.graph => h = g
        BY <1>2, <2>1, <2>9, <2>15, <3>1 DEF OidInv
      <4>2. Creating(b)' /\ call'[b].relation = t.oid
        BY <2>5, <2>7, <2>9, <3>1 DEF Creating
      <4> QED
        BY <1>2, <2>9, <2>15, <2>16, <3>1, <4>1, <4>2 DEF TableInv
    <3>2. CASE t \in pg_class
      <4>1. TableInv(t)
        BY <2>1, <3>2
      <4>2. (\E r \in ag_label : r.relation = t.oid) \/ (\E d \in Backends : Creating(d) /\ call[d].relation = t.oid)
        BY <4>1 DEF TableInv
      <4>3. \A d \in Backends : Creating(d) => Creating(d)' /\ call'[d] = call[d]
        BY <2>0, <2>7 DEF Creating
      <4>4. (\E r \in ag_label' : r.relation = t.oid) \/ (\E d \in Backends : Creating(d)' /\ call'[d].relation = t.oid)
        BY <1>2, <4>2, <4>3
      <4> QED
        BY <1>2, <2>11, <4>1, <4>4 DEF TableInv
    <3> QED
      BY <2>10, <3>1, <3>2
  <2>20. \A r \in ag_label' : LabelInv(r)'
    BY <1>2, <2>1, <2>10 DEF LabelInv
  <2>21. SlotReleased'
    BY <1>2, <2>1 DEF SlotReleased
  <2>22. FullIsFull'
    <3> SUFFICES ASSUME NEW d \in Backends, call'[d].pc = "full"
                 PROVE  call'[d].tested \cup call'[d].drawn = LabelIds
      BY DEF FullIsFull
    <3>1. d # b
      BY <2>5, <2>7
    <3> QED
      BY <2>1, <2>7, <3>1 DEF FullIsFull
  <2> QED
    BY <2>12, <2>14, <2>17, <2>18, <2>19, <2>20, <2>21, <2>22 DEF IInv, RowInv
<1> QED
  BY <1>1, <1>2 DEF CreateTable

\* One draw more: the last ids are the new one and those before.
LEMMA RecentNext ==
    ASSUME NEW n \in 0 .. LABEL_ID_MAX, NEW k \in 0 .. LABEL_ID_MAX,
           NEW m, m = IF n = LABEL_ID_MAX THEN 1 ELSE n + 1
    PROVE  /\ m \in LabelIds
           /\ Recent(m, k + 1) \subseteq {m} \cup Recent(n, k)
           /\ Recent(m, k) \subseteq {m} \cup Recent(n, k)
<1>1. LABEL_ID_MAX \in Nat /\ LABEL_ID_MAX > 0 /\ n \in Nat /\ k \in Nat /\ m \in Nat
  BY XidFacts
<1>2. m \in LabelIds
  BY <1>1 DEF LabelIds
<1>3. ASSUME NEW i \in LabelIds, i # m,
             IF i <= m THEN m - i < k + 1 ELSE m + LABEL_ID_MAX - i < k + 1
      PROVE  IF i <= n THEN n - i < k ELSE n + LABEL_ID_MAX - i < k
  <2>1. i \in Nat /\ i >= 1 /\ i <= LABEL_ID_MAX
    BY <1>1 DEF LabelIds
  <2>2. CASE n = LABEL_ID_MAX
    BY <1>1, <1>3, <2>1, <2>2
  <2>3. CASE n # LABEL_ID_MAX
    BY <1>1, <1>3, <2>1, <2>3
  <2> QED
    BY <2>2, <2>3
<1>4. ASSUME NEW i \in LabelIds, IF i <= m THEN m - i < k ELSE m + LABEL_ID_MAX - i < k
      PROVE  IF i <= m THEN m - i < k + 1 ELSE m + LABEL_ID_MAX - i < k + 1
  <2>1. i \in Nat
    BY <1>1 DEF LabelIds
  <2> QED
    BY <1>1, <1>4, <2>1
<1> QED
  BY <1>2, <1>3, <1>4 DEF Recent

\* Once around is every id.
LEMMA RecentAll ==
    ASSUME NEW n \in 0 .. LABEL_ID_MAX
    PROVE  Recent(n, LABEL_ID_MAX) = LabelIds
BY XidFacts DEF Recent, LabelIds

\* What a step does that changes only calls, sequences and the caches: if what
\* was said of calls still is, the rest is.
LEMMA CallsKeep ==
    ASSUME IInv, call' \in [Backends -> CallType], seq' \in [Oids -> 0 .. LABEL_ID_MAX],
           not_found' \in [Backends -> SUBSET (Oids \X LabelIds)],
           UNCHANGED <<ag_graph, ag_label, pg_class, slots, locks, next_oid, excused>>,
           \A d \in Backends : Creating(d) => Creating(d)' /\ call'[d].relation = call[d].relation,
           \A d \in Backends : CallInv(d)' /\ DrawInv(d)',
           FullIsFull'
    PROVE  IInv'
<1> USE DEF IInv, RowInv
<1>1. TypeOK'
  BY DEF TypeOK
<1>2. OidInv' /\ SlotReleased'
  BY DEF OidInv, SlotReleased
<1>3. \A g \in ag_graph' : GraphInv(g)'
  BY DEF GraphInv
<1>4. ASSUME NEW t \in pg_class'
      PROVE  TableInv(t)'
  <2>1. TableInv(t)
    OBVIOUS
  <2>2. (\E r \in ag_label : r.relation = t.oid) \/ (\E d \in Backends : Creating(d) /\ call[d].relation = t.oid)
    BY <2>1 DEF TableInv
  <2>3. (\E r \in ag_label' : r.relation = t.oid) \/ (\E d \in Backends : Creating(d)' /\ call'[d].relation = t.oid)
    BY <2>2
  <2> QED
    BY <2>1, <2>3 DEF TableInv
<1>5. \A r \in ag_label' : LabelInv(r)'
  BY DEF LabelInv
<1> QED
  BY <1>1, <1>2, <1>3, <1>4, <1>5

\* A round of get_new_label_id keeps the invariant, and the loop has gone once
\* around when it gives up.
LEMMA GetNewLabelIdKeeps ==
    ASSUME IInv, NEW b \in Backends, GetNewLabelId(b)
    PROVE  IInv'
<1> DEFINE c == call[b]
<1>0. /\ c.pc = "id"
      /\ UNCHANGED <<ag_graph, ag_label, pg_class, slots, locks, next_oid, excused>>
  BY DEF GetNewLabelId
<1>1. /\ TypeOK /\ FullIsFull
      /\ \A d \in Backends : CallInv(d) /\ DrawInv(d)
  BY DEF IInv, RowInv
<1>2. /\ call \in [Backends -> CallType] /\ seq \in [Oids -> 0 .. LABEL_ID_MAX]
      /\ not_found \in [Backends -> SUBSET (Oids \X LabelIds)]
  BY <1>1 DEF TypeOK
<1>3. c \in CallType /\ c.graph \in Oids /\ c.tries \in 0 .. LABEL_ID_MAX
  BY <1>0, <1>1, <1>2 DEF CallInv, CallType
<1>4. CASE c.tries = MaxTries /\ call' = [call EXCEPT ![b].pc = "full"] /\ UNCHANGED <<seq, not_found>>
  <2>1. PICK n : n = [c EXCEPT !.pc = "full"]
    OBVIOUS
  <2>2. /\ n \in CallType /\ n.pc = "full" /\ n.graph = c.graph /\ n.relation = c.relation
        /\ n.label = c.label /\ n.tested = c.tested /\ n.drawn = c.drawn
    BY <1>3, <2>1 DEF CallType
  <2>3. /\ call' \in [Backends -> CallType] /\ call'[b] = n
        /\ \A d \in Backends : d # b => call'[d] = call[d]
    BY <1>2, <1>4, <2>1, <2>2
  <2>4. n.tested \cup n.drawn = LabelIds
    <3>1. seq[c.graph] \in 0 .. LABEL_ID_MAX
      BY <1>2, <1>3
    <3>2. Recent(seq[c.graph], LABEL_ID_MAX) = LabelIds
      BY <3>1, RecentAll
    <3>3. LabelIds \subseteq c.tested \cup c.drawn
      BY <1>0, <1>1, <1>4, <3>2 DEF DrawInv, MaxTries
    <3>4. c.tested \subseteq LabelIds /\ c.drawn \subseteq LabelIds
      BY <1>3 DEF CallType
    <3> QED
      BY <2>2, <3>3, <3>4
  <2>5. FullIsFull'
    <3> SUFFICES ASSUME NEW d \in Backends, call'[d].pc = "full"
                 PROVE  call'[d].tested \cup call'[d].drawn = LabelIds
      BY DEF FullIsFull
    <3> QED
      BY <1>1, <2>3, <2>4 DEF FullIsFull
  <2>6. ASSUME NEW d \in Backends
        PROVE  CallInv(d)' /\ DrawInv(d)'
    <3>1. CASE d = b
      <4>1. CallInv(b)
        BY <1>1
      <4>2. CallInv(b)'
        BY <1>0, <2>2, <2>3, <4>1 DEF CallInv, Creating
      <4> QED
        BY <2>2, <2>3, <3>1, <4>2 DEF DrawInv
    <3>2. CASE d # b
      BY <1>0, <1>1, <1>4, <2>3, <3>2 DEF CallInv, DrawInv, Creating
    <3> QED
      BY <3>1, <3>2
  <2>7. ASSUME NEW d \in Backends, Creating(d)
        PROVE  Creating(d)' /\ call'[d].relation = call[d].relation
    BY <2>2, <2>3, <2>7 DEF Creating
  <2> QED
    BY <1>0, <1>2, <1>4, <2>3, <2>5, <2>6, <2>7, CallsKeep
<1>5. CASE c.tries < MaxTries
  <2>1. PICK id : id = NextVal(c.graph)
    OBVIOUS
  <2>2. seq[c.graph] \in 0 .. LABEL_ID_MAX /\ id = IF seq[c.graph] = LABEL_ID_MAX THEN 1 ELSE seq[c.graph] + 1
    BY <1>2, <1>3, <2>1 DEF NextVal
  <2>3. /\ id \in LabelIds
        /\ \A k \in 0 .. LABEL_ID_MAX :
               /\ Recent(id, k + 1) \subseteq {id} \cup Recent(seq[c.graph], k)
               /\ Recent(id, k) \subseteq {id} \cup Recent(seq[c.graph], k)
    BY <2>2, RecentNext
  <2>4. seq' = [seq EXCEPT ![c.graph] = id]
    BY <1>4, <1>5, <2>1, XidFacts DEF GetNewLabelId, MaxTries
  <2>5. PICK others : others = [d \in Backends |->
                                   IF call[d].pc = "id" /\ call[d].graph = c.graph
                                   THEN [call[d] EXCEPT !.drawn = @ \cup {id}] ELSE call[d]]
    OBVIOUS
  <2>6. \/ /\ call' = [others EXCEPT ![b] = [c EXCEPT !.tries = @ + 1, !.tested = @ \cup {id}]]
           /\ not_found' = not_found
        \/ /\ call' = [others EXCEPT ![b] = [c EXCEPT !.id = id, !.pc = "insert"]]
           /\ not_found' = [not_found EXCEPT ![b] = @ \cup {<<c.graph, id>>}]
    BY <1>3, <1>5, <2>1, <2>5, XidFacts DEF GetNewLabelId, MaxTries
  <2>7. ASSUME NEW d \in Backends
        PROVE  /\ others[d] \in CallType /\ others[d].pc = call[d].pc /\ others[d].graph = call[d].graph
               /\ others[d].relation = call[d].relation /\ others[d].label = call[d].label
               /\ others[d].id = call[d].id /\ others[d].tries = call[d].tries
               /\ others[d].tested = call[d].tested
               /\ call[d].drawn \subseteq others[d].drawn
               /\ call[d].pc = "id" /\ call[d].graph = c.graph => id \in others[d].drawn
    <3>1. call[d] \in CallType
      BY <1>2
    <3>2. CASE call[d].pc = "id" /\ call[d].graph = c.graph
      <4>1. others[d] = [call[d] EXCEPT !.drawn = call[d].drawn \cup {id}]
        BY <2>5, <3>1, <3>2 DEF CallType
      <4>2. call[d].drawn \cup {id} \in SUBSET LabelIds
        BY <2>3, <3>1 DEF CallType
      <4>3. PICK D \in SUBSET LabelIds : D = call[d].drawn \cup {id}
        BY <4>2
      <4>4. /\ others[d] \in CallType /\ others[d].pc = call[d].pc /\ others[d].graph = call[d].graph
            /\ others[d].relation = call[d].relation /\ others[d].label = call[d].label
            /\ others[d].id = call[d].id /\ others[d].tries = call[d].tries
            /\ others[d].tested = call[d].tested /\ others[d].drawn = D
        BY <3>1, <4>1, <4>3 DEF CallType
      <4> QED
        BY <4>3, <4>4
    <3>3. CASE ~(call[d].pc = "id" /\ call[d].graph = c.graph)
      <4>1. others[d] = call[d]
        BY <2>5, <3>3
      <4> QED
        BY <3>1, <3>3, <4>1
    <3> QED
      BY <3>2, <3>3
  <2>8. others \in [Backends -> CallType]
    BY <2>5, <2>7
  <2>9. PICK n \in CallType :
            /\ call' = [others EXCEPT ![b] = n]
            /\ n.graph = c.graph /\ n.relation = c.relation /\ n.label = c.label
            /\ \/ n.pc = "id" /\ n.tries = c.tries + 1 /\ n.tested = c.tested \cup {id} /\ n.drawn = c.drawn
               \/ n.pc = "insert" /\ n.id = id
    <3>1. CASE call' = [others EXCEPT ![b] = [c EXCEPT !.tries = @ + 1, !.tested = @ \cup {id}]]
      <4>1. PICK k \in 0 .. LABEL_ID_MAX : k = c.tries + 1
        BY <1>3, <1>5, XidFacts DEF MaxTries
      <4>2. PICK D \in SUBSET LabelIds : D = c.tested \cup {id}
        BY <1>3, <2>3 DEF CallType
      <4>3. PICK n : n = [c EXCEPT !.tries = k, !.tested = D]
        OBVIOUS
      <4>4. /\ n \in CallType /\ n.graph = c.graph /\ n.relation = c.relation /\ n.label = c.label
            /\ n.pc = c.pc /\ n.tries = k /\ n.tested = D /\ n.drawn = c.drawn
        BY <1>3, <4>3 DEF CallType
      <4>5. call' = [others EXCEPT ![b] = n]
        BY <3>1, <4>1, <4>2, <4>3
      <4> QED
        BY <1>0, <4>1, <4>2, <4>4, <4>5
    <3>2. CASE call' = [others EXCEPT ![b] = [c EXCEPT !.id = id, !.pc = "insert"]]
      <4>1. id \in 0 .. LABEL_ID_MAX
        BY <2>3, XidFacts DEF LabelIds
      <4>2. PICK n : n = [c EXCEPT !.id = id, !.pc = "insert"]
        OBVIOUS
      <4>3. /\ n \in CallType /\ n.graph = c.graph /\ n.relation = c.relation /\ n.label = c.label
            /\ n.pc = "insert" /\ n.id = id
        BY <1>3, <4>1, <4>2 DEF CallType
      <4> QED
        BY <3>2, <4>2, <4>3
    <3> QED
      BY <2>6, <3>1, <3>2
  <2>10. /\ call' \in [Backends -> CallType] /\ call'[b] = n
         /\ \A d \in Backends : d # b => call'[d] = others[d]
    BY <2>8, <2>9
  <2>11. seq' \in [Oids -> 0 .. LABEL_ID_MAX]
    <3>1. id \in 0 .. LABEL_ID_MAX
      BY <2>3, XidFacts DEF LabelIds
    <3> QED
      BY <1>2, <2>4, <3>1
  <2>12. not_found' \in [Backends -> SUBSET (Oids \X LabelIds)]
    <3>1. not_found[b] \cup {<<c.graph, id>>} \in SUBSET (Oids \X LabelIds)
      BY <1>2, <1>3, <2>3
    <3> QED
      BY <1>2, <2>6, <3>1
  <2>13. ASSUME NEW d \in Backends
         PROVE  CallInv(d)'
    <3>1. CallInv(d)
      BY <1>1
    <3>2. CASE d = b
      BY <1>0, <1>3, <2>3, <2>9, <2>10, <3>1, <3>2 DEF CallInv, Creating
    <3>3. CASE d # b
      BY <1>0, <2>7, <2>10, <3>1, <3>3 DEF CallInv, Creating
    <3> QED
      BY <3>2, <3>3
  <2>14. ASSUME NEW d \in Backends, call'[d].pc = "id"
         PROVE  Recent(seq'[call'[d].graph], call'[d].tries) \subseteq call'[d].tested \cup call'[d].drawn
    <3>1. CASE d = b
      <4>1. n.pc = "id" /\ n.tries = c.tries + 1 /\ n.tested = c.tested \cup {id} /\ n.drawn = c.drawn
        BY <2>9, <2>10, <2>14, <3>1
      <4>2. seq'[n.graph] = id
        BY <1>2, <1>3, <2>4, <2>9
      <4>3. Recent(id, c.tries + 1) \subseteq {id} \cup Recent(seq[c.graph], c.tries)
        BY <1>3, <2>3
      <4>4. Recent(seq[c.graph], c.tries) \subseteq c.tested \cup c.drawn
        BY <1>0, <1>1 DEF DrawInv
      <4>5. Recent(id, c.tries + 1) \subseteq n.tested \cup n.drawn
        BY <4>1, <4>3, <4>4
      <4> QED
        BY <2>10, <3>1, <4>1, <4>2, <4>5
    <3>2. CASE d # b
      <4>1. call[d].pc = "id" /\ call'[d] = others[d]
        BY <2>7, <2>10, <2>14, <3>2
      <4>2. Recent(seq[call[d].graph], call[d].tries) \subseteq call[d].tested \cup call[d].drawn
        BY <1>1, <4>1 DEF DrawInv
      <4>3. call[d].tries \in 0 .. LABEL_ID_MAX /\ call[d].graph \in Oids
        BY <1>1, <1>2, <4>1 DEF CallInv, CallType
      <4>4. CASE call[d].graph = c.graph
        <5>1. seq'[call[d].graph] = id
          BY <1>2, <1>3, <2>4, <4>4
        <5>2. Recent(id, call[d].tries) \subseteq {id} \cup Recent(seq[c.graph], call[d].tries)
          BY <2>3, <4>3
        <5>3. id \in others[d].drawn
          BY <2>7, <4>1, <4>4
        <5>4. /\ others[d].graph = call[d].graph /\ others[d].tries = call[d].tries
              /\ others[d].tested = call[d].tested /\ call[d].drawn \subseteq others[d].drawn
          BY <2>7
        <5> QED
          BY <4>1, <4>2, <4>4, <5>1, <5>2, <5>3, <5>4
      <4>5. CASE call[d].graph # c.graph
        <5>1. seq'[call[d].graph] = seq[call[d].graph]
          BY <1>2, <1>3, <2>4, <4>3, <4>5
        <5>2. /\ others[d].graph = call[d].graph /\ others[d].tries = call[d].tries
              /\ others[d].tested = call[d].tested /\ call[d].drawn \subseteq others[d].drawn
          BY <2>7
        <5> QED
          BY <4>1, <4>2, <5>1, <5>2
      <4> QED
        BY <4>4, <4>5
    <3> QED
      BY <3>1, <3>2
  <2>15. FullIsFull'
    <3> SUFFICES ASSUME NEW d \in Backends, call'[d].pc = "full"
                 PROVE  call'[d].tested \cup call'[d].drawn = LabelIds
      BY DEF FullIsFull
    <3>1. d # b
      BY <2>9, <2>10
    <3>2. call'[d] = others[d] /\ call[d].pc = "full"
      BY <2>7, <2>10, <3>1
    <3>3. others[d] = call[d]
      BY <2>5, <3>2
    <3> QED
      BY <1>1, <3>2, <3>3 DEF FullIsFull
  <2>16. ASSUME NEW d \in Backends, Creating(d)
         PROVE  Creating(d)' /\ call'[d].relation = call[d].relation
    <3>1. CASE d = b
      BY <2>9, <2>10, <3>1 DEF Creating
    <3>2. CASE d # b
      BY <2>7, <2>10, <2>16, <3>2 DEF Creating
    <3> QED
      BY <3>1, <3>2
  <2>17. \A d \in Backends : CallInv(d)' /\ DrawInv(d)'
    BY <2>13, <2>14 DEF DrawInv
  <2> QED
    BY <1>0, <2>10, <2>11, <2>12, <2>15, <2>16, <2>17, CallsKeep
<1> QED
  BY <1>4, <1>5 DEF GetNewLabelId

\* insert_label keeps the invariant: the table that was being created has its
\* label, and the same transaction made both.
LEMMA InsertLabelKeeps ==
    ASSUME IInv, NEW b \in Backends, InsertLabel(b)
    PROVE  IInv'
<1> DEFINE c == call[b]
<1>1. CASE Abort(b)
  BY <1>1, AbortKeeps
<1>2. ASSUME /\ ag_label' = ag_label \cup {[graph |-> c.graph, name |-> c.label, id |-> c.id,
                                             relation |-> c.relation, xmin |-> b, xmax |-> None]}
             /\ End(b)
             /\ UNCHANGED <<ag_graph, pg_class, seq, slots, locks, not_found, next_oid, excused>>
      PROVE  IInv'
  <2>1. /\ TypeOK /\ OidInv /\ SlotReleased /\ FullIsFull
        /\ \A d \in Backends : CallInv(d) /\ DrawInv(d)
        /\ \A g \in ag_graph : GraphInv(g)
        /\ \A t \in pg_class : TableInv(t)
        /\ \A r \in ag_label : LabelInv(r)
    BY DEF IInv, RowInv
  <2>2. c.pc = "insert"
    BY DEF InsertLabel
  <2>3. PICK t \in pg_class : t.oid = c.relation /\ t.graph = c.graph /\ t.xmin = b /\ t.xmax = None
    BY <2>1, <2>2 DEF CallInv, Creating
  <2>4. c.label \in LabelNames /\ c.id \in LabelIds /\ c.graph \in Oids /\ c.relation \in Oids
    BY <2>1, <2>2, <2>3 DEF CallInv, Creating, TypeOK, TableRow
  <2>5. PICK r : r = [graph |-> c.graph, name |-> c.label, id |-> c.id,
                      relation |-> c.relation, xmin |-> b, xmax |-> None]
    OBVIOUS
  <2>6. /\ r \in LabelRow /\ r.graph = c.graph /\ r.relation = c.relation
        /\ r.xmin = b /\ r.xmax = None
    BY <2>4, <2>5, XidFacts DEF LabelRow
  <2>7. ag_label' = ag_label \cup {r}
    BY <1>2, <2>5
  <2>8. /\ call' \in [Backends -> CallType]
        /\ call'[b].pc = "idle"
        /\ \A d \in Backends : d # b => call'[d] = call[d]
    BY <1>2, <2>1, EndCall
  <2>9. TypeOK'
    BY <1>2, <2>1, <2>6, <2>7, <2>8 DEF TypeOK
  <2>10. OidInv' /\ SlotReleased'
    BY <1>2, <2>1 DEF OidInv, SlotReleased
  <2>11. ASSUME NEW d \in Backends
         PROVE  CallInv(d)' /\ DrawInv(d)'
    <3>1. CASE d = b
      BY <2>8, <3>1 DEF CallInv, DrawInv, Creating
    <3>2. CASE d # b
      BY <1>2, <2>1, <2>8, <3>2 DEF CallInv, DrawInv, Creating
    <3> QED
      BY <3>1, <3>2
  <2>12. \A g \in ag_graph' : GraphInv(g)'
    BY <1>2, <2>1 DEF GraphInv
  <2>13. ASSUME NEW u \in pg_class'
         PROVE  TableInv(u)'
    <3>1. TableInv(u)
      BY <1>2, <2>1
    <3>2. (\E q \in ag_label : q.relation = u.oid) \/ (\E d \in Backends : Creating(d) /\ call[d].relation = u.oid)
      BY <3>1 DEF TableInv
    <3>3. (\E q \in ag_label' : q.relation = u.oid) \/ (\E d \in Backends : Creating(d)' /\ call'[d].relation = u.oid)
      <4>1. ASSUME NEW d \in Backends, Creating(d), call[d].relation = u.oid, d # b
            PROVE  Creating(d)' /\ call'[d].relation = u.oid
        BY <2>8, <4>1 DEF Creating
      <4> QED
        BY <2>6, <2>7, <3>2, <4>1
    <3> QED
      BY <1>2, <3>1, <3>3 DEF TableInv
  <2>14. ASSUME NEW q \in ag_label'
         PROVE  LabelInv(q)'
    <3>1. CASE q = r
      BY <1>2, <2>3, <2>6, <3>1 DEF LabelInv
    <3>2. CASE q \in ag_label
      BY <1>2, <2>1, <3>2 DEF LabelInv
    <3> QED
      BY <2>7, <3>1, <3>2
  <2>15. FullIsFull'
    <3> SUFFICES ASSUME NEW d \in Backends, call'[d].pc = "full"
                 PROVE  call'[d].tested \cup call'[d].drawn = LabelIds
      BY DEF FullIsFull
    <3> QED
      BY <2>1, <2>8 DEF FullIsFull
  <2> QED
    BY <2>9, <2>10, <2>11, <2>12, <2>13, <2>14, <2>15 DEF IInv, RowInv
<1> QED
  BY <1>1, <1>2 DEF InsertLabel

-----------------------------------------------------------------------------
(* drop_label and drop_graph.                                                *)

\* What dropping tables does, with what the hook does for each: a label is
\* dropped if and only if its table is, and tables that others are creating stay.
LEMMA DropTables ==
    ASSUME RowInv, NEW b \in Backends, NEW T \in SUBSET pg_class,
           \A t \in T : LiveFor(b, t),
           pg_class' = Ending(b, pg_class, T), ag_label' = Ending(b, ag_label, RowsOf(b, T))
    PROVE  /\ pg_class' \subseteq TableRow /\ ag_label' \subseteq LabelRow
           /\ \A q \in pg_class' : \E t \in pg_class : SameTable(q, t) /\ Ended(b, T, q, t)
           /\ \A r \in ag_label : \E q \in ag_label' : q.relation = r.relation
           /\ \A t, u \in pg_class' : t.oid = u.oid => t = u
           /\ \A t \in pg_class' : t.oid < next_oid
           /\ \A r \in ag_label' : LabelInv(r)'
           /\ \A t \in pg_class : t.xmin \notin {b, None} => t \in pg_class'
<1>1. /\ TypeOK /\ OidInv
      /\ \A r \in ag_label : LabelInv(r)
  BY DEF RowInv
<1>0. pg_class \in SUBSET TableRow /\ ag_label \in SUBSET LabelRow
  BY <1>1 DEF TypeOK
<1>2. PICK R : R = RowsOf(b, T)
  OBVIOUS
<1>3. /\ pg_class' \subseteq TableRow
      /\ \A q \in pg_class' : \E t \in pg_class : SameTable(q, t) /\ Ended(b, T, q, t)
      /\ \A t \in pg_class : \E q \in pg_class' : SameTable(q, t) /\ Ended(b, T, q, t)
  BY <1>0, EndingTables
<1>4. /\ ag_label' \subseteq LabelRow
      /\ \A q \in ag_label' : \E r \in ag_label : SameLabel(q, r) /\ Ended(b, R, q, r)
      /\ \A r \in ag_label : \E q \in ag_label' : SameLabel(q, r) /\ Ended(b, R, q, r)
  BY <1>0, <1>2, EndingLabels
<1>5. ASSUME NEW p \in pg_class', NEW q \in pg_class', p.oid = q.oid
      PROVE  p = q
  <2>1. PICK g \in pg_class : SameTable(p, g) /\ Ended(b, T, p, g)
    BY <1>3
  <2>2. PICK h \in pg_class : SameTable(q, h) /\ Ended(b, T, q, h)
    BY <1>3
  <2>3. g = h
    BY <1>1, <1>5, <2>1, <2>2 DEF OidInv, SameTable
  <2>4. SameTable(p, q) /\ p.xmin = q.xmin /\ p.xmax = q.xmax
    BY <2>1, <2>2, <2>3 DEF SameTable, Ended
  <2> QED
    BY <1>3, <2>4, TableRowEq
<1>6. \A t \in pg_class' : t.oid < next_oid
  BY <1>1, <1>3 DEF TypeOK, SameTable
<1>7. ASSUME NEW q \in ag_label'
      PROVE  LabelInv(q)'
  <2>1. PICK r \in ag_label : SameLabel(q, r) /\ Ended(b, R, q, r)
    BY <1>4
  <2>2. PICK t \in pg_class : t.oid = r.relation /\ t.graph = r.graph /\ t.xmin = r.xmin /\ t.xmax = r.xmax
    BY <1>1 DEF LabelInv
  <2>3. PICK u \in pg_class' : SameTable(u, t) /\ Ended(b, T, u, t)
    BY <1>3
  <2>4. r \in R <=> t \in T
    BY <1>1, <1>2, <2>2 DEF RowsOf, LiveFor, OidInv
  <2>5. u.oid = q.relation /\ u.graph = q.graph /\ u.xmin = q.xmin /\ u.xmax = q.xmax
    BY <2>1, <2>2, <2>3, <2>4 DEF SameLabel, SameTable, Ended
  <2> QED
    BY <2>5 DEF LabelInv
<1>8. \A t \in pg_class : t.xmin \notin {b, None} => t \in pg_class'
  BY DEF LiveFor, Ending
<1>9. \A r \in ag_label : \E q \in ag_label' : q.relation = r.relation
  BY <1>4 DEF SameLabel
<1> QED
  BY <1>3, <1>4, <1>5, <1>6, <1>7, <1>8, <1>9

\* drop_label keeps the invariant: it does not drop a table of a graph that
\* another transaction is dropping.
LEMMA DropLabelKeeps ==
    ASSUME IInv, NEW b \in Backends, NEW n \in GraphNames, NEW l \in LabelNames, DropLabel(b, n, l)
    PROVE  IInv'
<1>1. /\ TypeOK /\ OidInv /\ SlotReleased /\ RowInv
      /\ \A g \in ag_graph : GraphInv(g)
      /\ \A t \in pg_class : TableInv(t)
  BY DEF IInv, RowInv
<1>2. CanCall(b) /\ Begin(b, Idle) /\ UNCHANGED <<ag_graph, seq, slots, not_found, next_oid, excused>>
  BY DEF DropLabel
<1>3. PICK g \in ag_graph, t \in pg_class :
          /\ LiveFor(b, g) /\ t.graph = g.oid /\ LiveFor(b, t) /\ ~InDoubt(b, t)
          /\ pg_class' = Ending(b, pg_class, {t})
          /\ ag_label' = Ending(b, ag_label, RowsOf(b, {t}))
          /\ locks' = Locked(b, {t.oid}, "exclusive")
  BY DEF DropLabel, Named
<1>4. t.xmin \in {b, None} /\ t.xmax = None
  BY <1>3 DEF LiveFor, InDoubt
<1>5. \A h \in ag_graph : h.oid = t.graph => h.xmax = None
  BY <1>1, <1>4 DEF TableInv
<1>6. /\ pg_class' \subseteq TableRow /\ ag_label' \subseteq LabelRow
      /\ \A q \in pg_class' : \E u \in pg_class : SameTable(q, u) /\ Ended(b, {t}, q, u)
      /\ \A r \in ag_label : \E q \in ag_label' : q.relation = r.relation
      /\ \A q, u \in pg_class' : q.oid = u.oid => q = u
      /\ \A q \in pg_class' : q.oid < next_oid
      /\ \A r \in ag_label' : LabelInv(r)'
      /\ \A u \in pg_class : u.xmin \notin {b, None} => u \in pg_class'
  <2>1. PICK T \in SUBSET pg_class : T = {t}
    OBVIOUS
  <2>2. /\ \A u \in T : LiveFor(b, u)
        /\ pg_class' = Ending(b, pg_class, T) /\ ag_label' = Ending(b, ag_label, RowsOf(b, T))
    BY <1>3, <2>1
  <2>3. /\ pg_class' \subseteq TableRow /\ ag_label' \subseteq LabelRow
        /\ \A q \in pg_class' : \E u \in pg_class : SameTable(q, u) /\ Ended(b, T, q, u)
        /\ \A r \in ag_label : \E q \in ag_label' : q.relation = r.relation
        /\ \A q, u \in pg_class' : q.oid = u.oid => q = u
        /\ \A q \in pg_class' : q.oid < next_oid
        /\ \A r \in ag_label' : LabelInv(r)'
        /\ \A u \in pg_class : u.xmin \notin {b, None} => u \in pg_class'
    BY <1>1, <2>2, DropTables
  <2> QED
    BY <2>1, <2>3
<1>7. t.oid \in Oids
  BY <1>1, <1>3 DEF TypeOK, TableRow
<1>8. /\ locks' \subseteq LockType /\ locks \subseteq locks'
      /\ [by |-> b, oid |-> t.oid, mode |-> "exclusive"] \in locks'
  BY <1>1, <1>3, <1>7, LockedIs
<1>9. /\ \A d \in Backends : CallInv(d)' /\ DrawInv(d)'
      /\ FullIsFull'
      /\ \A d \in Backends : Creating(d) => Creating(d)' /\ call'[d].relation = call[d].relation
  BY <1>2, <1>6, IdleType, BeginKeepsCalls
<1>10. TypeOK'
  <2>1. call' \in [Backends -> CallType]
    BY <1>1, <1>2, IdleType, BeginCall
  <2> QED
    BY <1>1, <1>2, <1>6, <1>8, <2>1 DEF TypeOK
<1>11. OidInv' /\ SlotReleased'
  BY <1>1, <1>2, <1>6 DEF OidInv, SlotReleased
<1>12. \A h \in ag_graph' : GraphInv(h)'
  BY <1>1, <1>2, <1>8 DEF GraphInv
<1>13. ASSUME NEW q \in pg_class'
       PROVE  TableInv(q)'
  <2>1. PICK u \in pg_class : SameTable(q, u) /\ Ended(b, {t}, q, u)
    BY <1>6
  <2>2. TableInv(u)
    BY <1>1
  <2>3. (\E r \in ag_label : r.relation = u.oid) \/ (\E d \in Backends : Creating(d) /\ call[d].relation = u.oid)
    BY <2>2 DEF TableInv
  <2>4. (\E r \in ag_label' : r.relation = q.oid) \/ (\E d \in Backends : Creating(d)' /\ call'[d].relation = q.oid)
    BY <1>6, <1>9, <2>1, <2>3 DEF SameTable
  <2>5. ASSUME NEW h \in ag_graph', h.oid = q.graph
        PROVE  (h.xmin # None => q.xmin = h.xmin) /\ (h.xmax # None => q.xmax = h.xmax)
    BY <1>2, <1>5, <2>1, <2>2, <2>5 DEF TableInv, SameTable, Ended
  <2>6. q.xmax # None => [by |-> q.xmax, oid |-> q.oid, mode |-> "exclusive"] \in locks'
    BY <1>8, <2>1, <2>2 DEF TableInv, SameTable, Ended
  <2>7. \E h \in ag_graph' : h.oid = q.graph
    BY <1>2, <2>1, <2>2 DEF TableInv, SameTable
  <2> QED
    BY <2>4, <2>5, <2>6, <2>7 DEF TableInv
<1> QED
  BY <1>6, <1>9, <1>10, <1>11, <1>12, <1>13 DEF IInv, RowInv

\* drop_graph keeps the invariant: every table of the schema goes with it, or is
\* already dropped by the same transaction, and the counter of the graph is given
\* up unless it is another one than the call has read.
LEMMA DropSchemaKeeps ==
    ASSUME IInv, NEW b \in Backends, DropSchema(b)
    PROVE  IInv'
<1> DEFINE c == call[b]
<1>1. CASE Abort(b)
  BY <1>1, AbortKeeps
<1>2. ASSUME NEW g \in Named(b, c.name),
             /\ CanDrop(b, g)
             /\ ag_graph' = Ending(b, ag_graph, {g})
             /\ pg_class' = Ending(b, pg_class, TablesOf(b, g))
             /\ ag_label' = Ending(b, ag_label, RowsOf(b, TablesOf(b, g)))
             /\ slots' = Released(c)
             /\ excused' = IF g.oid = c.graph THEN excused ELSE excused \cup {g.oid}
             /\ locks' = Locked(b, {g.oid} \cup {t.oid : t \in TablesOf(b, g)}, "exclusive")
             /\ End(b)
             /\ UNCHANGED <<seq, not_found, next_oid>>
      PROVE  IInv'
  <2>1. /\ TypeOK /\ OidInv /\ SlotReleased /\ FullIsFull /\ RowInv
        /\ \A d \in Backends : CallInv(d) /\ DrawInv(d)
        /\ \A h \in ag_graph : GraphInv(h)
        /\ \A t \in pg_class : TableInv(t)
    BY DEF IInv, RowInv
  <2>2. g \in ag_graph
    BY <1>2 DEF Named
  <2>3. PICK T \in SUBSET pg_class : T = TablesOf(b, g)
    BY DEF TablesOf
  <2>4. /\ \A t \in T : LiveFor(b, t)
        /\ \A t \in pg_class : t.graph = g.oid => t.xmin \in {b, None} /\ (t \in T \/ t.xmax = b)
        /\ \A t \in pg_class : t.graph # g.oid => t \notin T
    BY <1>2, <2>3 DEF TablesOf, CanDrop, LiveFor
  <2>5. /\ pg_class' \subseteq TableRow /\ ag_label' \subseteq LabelRow
        /\ \A q \in pg_class' : \E u \in pg_class : SameTable(q, u) /\ Ended(b, T, q, u)
        /\ \A r \in ag_label : \E q \in ag_label' : q.relation = r.relation
        /\ \A q, u \in pg_class' : q.oid = u.oid => q = u
        /\ \A q \in pg_class' : q.oid < next_oid
        /\ \A r \in ag_label' : LabelInv(r)'
        /\ \A u \in pg_class : u.xmin \notin {b, None} => u \in pg_class'
    <3>1. pg_class' = Ending(b, pg_class, T) /\ ag_label' = Ending(b, ag_label, RowsOf(b, T))
      BY <1>2, <2>3
    <3> QED
      BY <2>1, <2>4, <3>1, DropTables
  <2>6. /\ ag_graph' \subseteq GraphRow
        /\ \A q \in ag_graph' : \E r \in ag_graph : SameGraph(q, r) /\ Ended(b, {g}, q, r)
        /\ \A r \in ag_graph : \E q \in ag_graph' : SameGraph(q, r) /\ Ended(b, {g}, q, r)
    <3>1. ag_graph \in SUBSET GraphRow
      BY <2>1 DEF TypeOK
    <3> QED
      BY <1>2, <3>1, EndingGraphs
  <2>7. PICK O \in SUBSET Oids : O = {g.oid} \cup {t.oid : t \in T}
    <3>1. g.oid \in Oids /\ \A t \in T : t.oid \in Oids
      BY <2>1, <2>2 DEF TypeOK, GraphRow, TableRow
    <3> QED
      BY <3>1
  <2>8. /\ locks' \subseteq LockType /\ locks \subseteq locks'
        /\ [by |-> b, oid |-> g.oid, mode |-> "exclusive"] \in locks'
        /\ \A t \in T : [by |-> b, oid |-> t.oid, mode |-> "exclusive"] \in locks'
    <3>1. locks' = Locked(b, O, "exclusive")
      BY <1>2, <2>3, <2>7
    <3>2. /\ locks' \subseteq LockType /\ locks \subseteq locks'
          /\ \A o \in O : [by |-> b, oid |-> o, mode |-> "exclusive"] \in locks'
      BY <2>1, <3>1, LockedIs
    <3> QED
      BY <2>7, <3>2
  <2>9. /\ call' \in [Backends -> CallType]
        /\ call'[b].pc = "idle"
        /\ \A d \in Backends : d # b => call'[d] = call[d]
    BY <1>2, <2>1, EndCall
  <2>10. slots' = slots \ {c.graph} /\ excused \subseteq excused' /\ (g.oid # c.graph => g.oid \in excused')
    BY <1>2 DEF Released
  <2>11. TypeOK'
    <3>1. excused' \subseteq Oids
      BY <1>2, <2>1, <2>2, <2>7 DEF TypeOK
    <3>2. \A h \in ag_graph' : h.oid < next_oid
      BY <2>1, <2>6 DEF TypeOK, SameGraph
    <3> QED
      BY <1>2, <2>1, <2>5, <2>6, <2>8, <2>9, <2>10, <3>1, <3>2 DEF TypeOK
  <2>12. OidInv'
    <3>1. ASSUME NEW p \in ag_graph', NEW q \in ag_graph', p.oid = q.oid
          PROVE  p = q
      <4>1. PICK h \in ag_graph : SameGraph(p, h) /\ Ended(b, {g}, p, h)
        BY <2>6
      <4>2. PICK k \in ag_graph : SameGraph(q, k) /\ Ended(b, {g}, q, k)
        BY <2>6
      <4>3. h = k
        BY <2>1, <3>1, <4>1, <4>2 DEF OidInv, SameGraph
      <4>4. SameGraph(p, q) /\ p.xmin = q.xmin /\ p.xmax = q.xmax
        BY <4>1, <4>2, <4>3 DEF SameGraph, Ended
      <4> QED
        BY <2>6, <4>4, GraphRowEq
    <3> QED
      BY <2>5, <3>1 DEF OidInv
  <2>13. ASSUME NEW d \in Backends
         PROVE  CallInv(d)' /\ DrawInv(d)'
    <3>1. CASE d = b
      BY <2>9, <3>1 DEF CallInv, DrawInv, Creating
    <3>2. CASE d # b
      BY <1>2, <2>1, <2>5, <2>9, <3>2, XidFacts DEF CallInv, DrawInv, Creating
    <3> QED
      BY <3>1, <3>2
  <2>14. ASSUME NEW q \in ag_graph'
         PROVE  GraphInv(q)'
    <3>1. PICK h \in ag_graph : SameGraph(q, h) /\ Ended(b, {g}, q, h)
      BY <2>6
    <3>2. CASE h = g
      BY <2>8, <2>10, <3>1, <3>2 DEF GraphInv, SameGraph, Ended
    <3>3. CASE h # g
      BY <2>1, <2>8, <2>10, <3>1, <3>3 DEF GraphInv, SameGraph, Ended
    <3> QED
      BY <3>2, <3>3
  <2>15. ASSUME NEW q \in pg_class'
         PROVE  TableInv(q)'
    <3>1. PICK u \in pg_class : SameTable(q, u) /\ Ended(b, T, q, u)
      BY <2>5
    <3>2. TableInv(u)
      BY <2>1
    <3>3. (\E r \in ag_label : r.relation = u.oid) \/ (\E d \in Backends : Creating(d) /\ call[d].relation = u.oid)
      BY <3>2 DEF TableInv
    <3>4. (\E r \in ag_label' : r.relation = q.oid) \/ (\E d \in Backends : Creating(d)' /\ call'[d].relation = q.oid)
      <4>1. ASSUME NEW d \in Backends, Creating(d), call[d].relation = u.oid
            PROVE  Creating(d)' /\ call'[d].relation = q.oid
        <5>1. d # b
          <6>1. c.pc = "schema"
            BY DEF DropSchema
          <6> QED
            BY <4>1, <6>1 DEF Creating
        <5> QED
          BY <2>9, <3>1, <4>1, <5>1 DEF Creating, SameTable
      <4> QED
        BY <2>5, <3>1, <3>3, <4>1 DEF SameTable
    <3>5. ASSUME NEW p \in ag_graph', p.oid = q.graph
          PROVE  (p.xmin # None => q.xmin = p.xmin) /\ (p.xmax # None => q.xmax = p.xmax)
      <4>1. PICK h \in ag_graph : SameGraph(p, h) /\ Ended(b, {g}, p, h)
        BY <2>6
      <4>2. h.oid = u.graph
        BY <3>1, <3>5, <4>1 DEF SameGraph, SameTable
      <4>3. CASE h = g
        <5>1. q.xmax = b
          BY <2>4, <3>1, <4>2, <4>3 DEF Ended
        <5> QED
          BY <3>1, <3>2, <4>1, <4>2, <4>3, <5>1 DEF TableInv, Ended
      <4>4. CASE h # g
        <5>1. u \notin T
          BY <2>1, <2>2, <2>4, <4>2, <4>4 DEF OidInv
        <5> QED
          BY <3>1, <3>2, <4>1, <4>2, <4>4, <5>1 DEF TableInv, Ended
      <4> QED
        BY <4>3, <4>4
    <3>6. q.xmax # None => [by |-> q.xmax, oid |-> q.oid, mode |-> "exclusive"] \in locks'
      BY <2>8, <3>1, <3>2 DEF TableInv, SameTable, Ended
    <3>7. \E p \in ag_graph' : p.oid = q.graph
      BY <2>6, <3>1, <3>2 DEF TableInv, SameGraph, SameTable
    <3> QED
      BY <3>4, <3>5, <3>6, <3>7 DEF TableInv
  <2>16. SlotReleased'
    BY <2>1, <2>6, <2>10 DEF SlotReleased, SameGraph
  <2>17. FullIsFull'
    <3> SUFFICES ASSUME NEW d \in Backends, call'[d].pc = "full"
                 PROVE  call'[d].tested \cup call'[d].drawn = LabelIds
      BY DEF FullIsFull
    <3> QED
      BY <2>1, <2>9 DEF FullIsFull
  <2> QED
    BY <2>5, <2>11, <2>12, <2>13, <2>14, <2>15, <2>16, <2>17 DEF IInv, RowInv
<1> QED
  BY <1>1, <1>2 DEF DropSchema

-----------------------------------------------------------------------------
(* Writes and caches.                                                        *)

\* A write keeps the invariant: it locks the table, so the graph whose counter it
\* makes is there and nobody is dropping it.
LEMMA WriteKeeps ==
    ASSUME IInv, NEW b \in Backends, Write(b)
    PROVE  IInv'
<1>1. /\ TypeOK /\ OidInv /\ SlotReleased /\ FullIsFull
      /\ \A d \in Backends : CallInv(d) /\ DrawInv(d)
      /\ \A g \in ag_graph : GraphInv(g)
      /\ \A t \in pg_class : TableInv(t)
      /\ \A r \in ag_label : LabelInv(r)
  BY DEF IInv, RowInv
<1>2. UNCHANGED <<ag_graph, ag_label, pg_class, seq, not_found, next_oid, call, excused>>
  BY DEF Write
<1>3. PICK t \in pg_class : /\ LiveFor(b, t) /\ Conflicting(b, t.oid, "share") = {}
                            /\ locks' = Locked(b, {t.oid}, "share")
                            /\ slots' = slots \cup {t.graph}
  BY DEF Write
<1>4. PICK g \in ag_graph : g.oid = t.graph
  BY <1>1 DEF TableInv
<1>5. g.xmax = None
  <2>1. SUFFICES ASSUME g.xmax # None
                 PROVE  FALSE
    OBVIOUS
  <2>2. t.xmax = g.xmax /\ t.xmax # b
    BY <1>1, <1>3, <1>4, <2>1 DEF TableInv, LiveFor
  <2>3. PICK k \in locks : k = [by |-> t.xmax, oid |-> t.oid, mode |-> "exclusive"]
    BY <1>1, <2>1, <2>2 DEF TableInv
  <2>4. k.by # b /\ k.oid = t.oid /\ k.mode = "exclusive"
    BY <2>2, <2>3
  <2> QED
    BY <1>3, <2>4 DEF Conflicting
<1>6. t.oid \in Oids
  BY <1>1 DEF TypeOK, TableRow
<1>7. locks' \subseteq LockType /\ locks \subseteq locks'
  BY <1>1, <1>3, <1>6, LockedIs
<1>8. TypeOK'
  <2>1. t.graph \in 1 .. next_oid - 1
    <3>1. g.oid \in 1 .. MaxOid /\ g.oid < next_oid /\ next_oid \in 1 .. MaxOid + 1
      BY <1>1 DEF TypeOK, GraphRow, Oids
    <3> QED
      BY <1>4, <3>1, XidFacts
  <2> QED
    BY <1>1, <1>2, <1>3, <1>7, <2>1 DEF TypeOK
<1>9. OidInv' /\ FullIsFull'
  BY <1>1, <1>2 DEF OidInv, FullIsFull
<1>10. \A d \in Backends : CallInv(d)' /\ DrawInv(d)'
  BY <1>1, <1>2 DEF CallInv, DrawInv, Creating
<1>11. ASSUME NEW h \in ag_graph'
       PROVE  GraphInv(h)'
  <2>1. CASE h = g
    BY <1>5, <2>1 DEF GraphInv
  <2>2. CASE h # g
    BY <1>1, <1>2, <1>3, <1>4, <1>7, <2>2 DEF GraphInv, OidInv
  <2> QED
    BY <2>1, <2>2
<1>12. \A u \in pg_class' : TableInv(u)'
  BY <1>1, <1>2, <1>7 DEF TableInv, Creating
<1>13. \A r \in ag_label' : LabelInv(r)'
  BY <1>1, <1>2 DEF LabelInv
<1>14. SlotReleased'
  BY <1>1, <1>2, <1>3, <1>4 DEF SlotReleased
<1> QED
  BY <1>8, <1>9, <1>10, <1>11, <1>12, <1>13, <1>14 DEF IInv, RowInv

\* An invalidation keeps the invariant.
LEMMA ForgetKeeps ==
    ASSUME IInv, NEW b \in Backends, Forget(b)
    PROVE  IInv'
<1> USE DEF IInv, RowInv
<1>1. UNCHANGED <<ag_graph, ag_label, pg_class, seq, slots, locks, next_oid, call, excused>>
  BY DEF Forget
<1>2. TypeOK'
  BY DEF TypeOK, Forget
<1>3. OidInv' /\ FullIsFull' /\ SlotReleased'
  BY <1>1 DEF OidInv, FullIsFull, SlotReleased
<1>4. \A d \in Backends : CallInv(d)' /\ DrawInv(d)'
  BY <1>1 DEF CallInv, DrawInv, Creating
<1>5. \A g \in ag_graph' : GraphInv(g)'
  BY <1>1 DEF GraphInv
<1>6. \A t \in pg_class' : TableInv(t)'
  BY <1>1 DEF TableInv, Creating
<1>7. \A r \in ag_label' : LabelInv(r)'
  BY <1>1 DEF LabelInv
<1> QED
  BY <1>2, <1>3, <1>4, <1>5, <1>6, <1>7

-----------------------------------------------------------------------------
(* The theorems.                                                             *)

\* The invariant holds before anything was created.
LEMMA InitIInv == Init => IInv
<1> SUFFICES ASSUME Init PROVE IInv
  OBVIOUS
<1>1. TypeOK
  BY IdleType, XidFacts DEF Init, TypeOK
<1>2. \A b \in Backends : call[b].pc = "idle"
  BY IdleType DEF Init
<1>3. \A b \in Backends : CallInv(b) /\ DrawInv(b)
  BY <1>2 DEF CallInv, DrawInv, Creating
<1>4. OidInv /\ SlotReleased
  BY DEF Init, OidInv, SlotReleased
<1>5. FullIsFull
  BY <1>2 DEF FullIsFull
<1>6. ag_graph = {} /\ pg_class = {} /\ ag_label = {}
  BY DEF Init
<1> QED
  BY <1>1, <1>3, <1>4, <1>5, <1>6 DEF IInv, RowInv

\* Every step keeps the invariant.
LEMMA StepIInv ==
    ASSUME IInv, [Next]_vars
    PROVE  IInv'
<1>1. CASE Next
  <2>1. PICK b \in Backends :
           \/ \E n \in GraphNames :
                 \/ CreateGraph(b, n)
                 \/ DropGraph(b, n)
                 \/ \E l \in LabelNames : CreateLabel(b, n, l) \/ DropLabel(b, n, l)
           \/ CreateTable(b)
           \/ GetNewLabelId(b)
           \/ LabelsFull(b)
           \/ InsertLabel(b)
           \/ DropSchema(b)
           \/ Write(b)
           \/ Commit(b)
           \/ Rollback(b)
           \/ Forget(b)
    BY <1>1 DEF Next
  <2>2. CASE \E n \in GraphNames : \/ CreateGraph(b, n)
                                   \/ DropGraph(b, n)
                                   \/ \E l \in LabelNames : CreateLabel(b, n, l) \/ DropLabel(b, n, l)
    BY <2>2, CreateGraphKeeps, DropGraphKeeps, CreateLabelKeeps, DropLabelKeeps
  <2>3. CASE LabelsFull(b) \/ Rollback(b)
    BY <2>3, AbortKeeps DEF LabelsFull, Rollback
  <2> QED
    BY <2>1, <2>2, <2>3, CreateTableKeeps, GetNewLabelIdKeeps, InsertLabelKeeps, DropSchemaKeeps,
       WriteKeeps, CommitKeeps, ForgetKeeps
<1>2. CASE UNCHANGED vars
  <2>1. UNCHANGED <<ag_graph, ag_label, pg_class, slots, locks, next_oid, excused>> /\ UNCHANGED <<seq, not_found, call>>
    BY <1>2 DEF vars
  <2>2. /\ \A d \in Backends : CallInv(d)' /\ DrawInv(d)'
        /\ FullIsFull'
        /\ \A d \in Backends : Creating(d) => Creating(d)' /\ call'[d].relation = call[d].relation
    BY <2>1 DEF CallInv, DrawInv, Creating, FullIsFull, IInv, RowInv
  <2>3. /\ call' \in [Backends -> CallType] /\ seq' \in [Oids -> 0 .. LABEL_ID_MAX]
        /\ not_found' \in [Backends -> SUBSET (Oids \X LabelIds)]
    BY <2>1 DEF IInv, RowInv, TypeOK
  <2> QED
    BY <2>1, <2>2, <2>3, CallsKeep
<1> QED
  BY <1>1, <1>2

\* The catalogs, the locks, the counters and the calls in progress fit together
\* in every reachable state, however many transactions run.
THEOREM Invariance == Spec => []IInv
<1>1. IInv /\ [Next]_vars => IInv'
  BY StepIInv
<1> QED
  BY <1>1, InitIInv, PTL DEF Spec

\* What a transaction sees between its calls follows from the invariant: a table
\* without a label is one that its creator alone sees, and that one is in a call.
LEMMA LabelsMatchTablesHolds == IInv => LabelsMatchTables
<1> SUFFICES ASSUME IInv PROVE LabelsMatchTables
  OBVIOUS
<1>1. /\ TypeOK /\ OidInv
      /\ \A d \in Backends : CallInv(d)
      /\ \A t \in pg_class : TableInv(t)
      /\ \A r \in ag_label : LabelInv(r)
  BY DEF IInv, RowInv
<1>2. SUFFICES ASSUME NEW b \in Backends, call[b].pc = "idle"
               PROVE  /\ {r.relation : r \in {r \in ag_label : LiveFor(b, r)}}
                            = {t.oid : t \in {t \in pg_class : LiveFor(b, t)}}
                      /\ \A r \in ag_label : LiveFor(b, r) =>
                             \E g \in ag_graph : g.oid = r.graph /\ LiveFor(b, g)
  BY <1>1 DEF LabelsMatchTables
<1>3. ASSUME NEW r \in ag_label, LiveFor(b, r)
      PROVE  \E t \in pg_class : t.oid = r.relation /\ t.graph = r.graph /\ LiveFor(b, t)
  BY <1>1, <1>3 DEF LabelInv, LiveFor
<1>4. ASSUME NEW t \in pg_class, LiveFor(b, t)
      PROVE  \E r \in ag_label : r.relation = t.oid /\ LiveFor(b, r)
  <2>1. CASE \E r \in ag_label : r.relation = t.oid
    BY <1>1, <1>4, <2>1 DEF LabelInv, OidInv, LiveFor
  <2>2. ASSUME NEW d \in Backends, Creating(d), call[d].relation = t.oid
        PROVE  FALSE
    <3>1. t.xmin = d
      BY <1>1, <2>2 DEF CallInv, OidInv
    <3>2. d = b
      BY <1>4, <3>1, XidFacts DEF LiveFor
    <3> QED
      BY <1>2, <2>2, <3>2 DEF Creating
  <2> QED
    BY <1>1, <2>1, <2>2 DEF TableInv
<1>5. ASSUME NEW t \in pg_class, LiveFor(b, t)
      PROVE  \E g \in ag_graph : g.oid = t.graph /\ LiveFor(b, g)
  <2>1. PICK g \in ag_graph : g.oid = t.graph
    BY <1>1 DEF TableInv
  <2>2. (g.xmin # None => t.xmin = g.xmin) /\ (g.xmax # None => t.xmax = g.xmax)
    BY <1>1, <2>1 DEF TableInv
  <2> QED
    BY <1>5, <2>1, <2>2, XidFacts DEF LiveFor
<1> QED
  BY <1>3, <1>4, <1>5

\* Between its calls a transaction sees the labels whose tables it sees, and
\* their graphs, whatever other transactions create, drop, commit or roll back.
THEOREM LabelsMatchTablesAlways == Spec => []LabelsMatchTables
BY Invariance, LabelsMatchTablesHolds, PTL

\* create_label fails for want of ids only after every one of them was found in
\* use or was drawn by somebody else meanwhile, for every LABEL_ID_MAX.
THEOREM FullIsFullAlways == Spec => []FullIsFull
<1>1. IInv => FullIsFull
  BY DEF IInv
<1> QED
  BY <1>1, Invariance, PTL

\* A graph that is gone keeps no version counter, but in the two excused cases.
THEOREM SlotReleasedAlways == Spec => []SlotReleased
<1>1. IInv => SlotReleased
  BY DEF IInv, RowInv
<1> QED
  BY <1>1, Invariance, PTL
==============================================================================
