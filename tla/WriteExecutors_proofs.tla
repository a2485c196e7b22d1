------------------------ MODULE WriteExecutors_proofs ------------------------
(***************************************************************************)
(* An entity has one version, and every change of a statement is counted,    *)
(* for any number of transactions and whatever queries they run.             *)
(***************************************************************************)
EXTENDS WriteExecutors, FiniteSetTheorems, SequenceTheorems, WellFoundedInduction, TLAPS

\* A row version is the record of its fields.
Version(v) ==
    v = [id |-> v.id, ends |-> v.ends, val |-> v.val, xmin |-> v.xmin, cmin |-> v.cmin,
         xmax |-> v.xmax, cmax |-> v.cmax, by |-> v.by, see |-> v.see, pat |-> v.pat,
         xsee |-> v.xsee]

\* A version that a transaction has written, with an id that was given out.
VersionOK(v, next) ==
    /\ Version(v) /\ v.id \in 1 .. next - 1
    /\ v.xmin \in Txns \cup {Boot} /\ v.xmax \in Txns \cup {None}
    /\ v.cmin \in Nat /\ v.cmax \in Nat

\* The first version of an entity, which t has made.
NewVersion(v, t, id) ==
    Version(v) /\ v.id = id /\ v.xmin = t /\ v.cmin \in Nat /\ v.xmax = None /\ v.cmax = 0

\* A sequence of length n is the function of its elements.
Lists(f, n) == f = [i \in 1 .. n |-> f[i]]

\* A sequence with an element, or another sequence, after it.
AndThen(f, v) == Append(f, v)
Joined(f, g) == f \o g

\* The heap is a sequence of versions that the transactions have written.
HeapInv ==
    /\ Len(heap) \in Nat /\ Lists(heap, Len(heap))
    /\ next_id \in Nat /\ next_id > 0 /\ version \in Nat
    /\ \A i \in DOMAIN heap : VersionOK(heap[i], next_id)

\* The transactions that may turn out to have committed: all that have, and any of
\* those that run.
Outcome(V) == \A t \in Txns : (status[t] = "committed" => t \in V) /\ (status[t] = "aborted" => t \notin V)

\* A version that is there if exactly the transactions of V commit.
LiveIn(V, v) == v.xmin \in V \cup {Boot} /\ v.xmax \notin V

\* Whoever of the running transactions commits, an entity has one version.
OneLive ==
    \A V \in SUBSET Txns : Outcome(V) =>
        \A i, j \in DOMAIN heap : heap[i].id = heap[j].id /\ LiveIn(V, heap[i]) /\ LiveIn(V, heap[j]) => i = j

\* A cursor is the record of its fields.
Cursor(x) ==
    x = [pc |-> x.pc, stmt |-> x.stmt, rows |-> x.rows, r |-> x.r, upto |-> x.upto, k |-> x.k, i |-> x.i,
         lidx |-> x.lidx, snap |-> x.snap, cid |-> x.cid, used |-> x.used, curcid |-> x.curcid,
         base |-> x.base, onset |-> x.onset, htab |-> x.htab, created |-> x.created,
         mutated |-> x.mutated, doomed |-> x.doomed, asked |-> x.asked, dirty |-> x.dirty,
         count |-> x.count]

\* Where a cursor is in its query.
PlaceOK(x) ==
    /\ x.pc \in {"ready", "row", "set", "last", "end", "over"}
    /\ x.pc \in {"row", "set", "last", "end"} => IsQuery(x.stmt) /\ x.k \in 1 .. Len(Clauses(x))
    /\ x.pc \in {"row", "set"} =>
          Len(x.rows) \in Nat /\ Lists(x.rows, Len(x.rows)) /\ x.r \in 1 .. Len(x.rows)
    /\ x.pc = "row" /\ Clause(x).op = "set" => x.i \in 1 .. Len(Clause(x).items)
    /\ x.pc = "set" => Clause(x).op = "merge"
    /\ x.pc = "last" => x.k = Len(Clauses(x))

\* A change of clause k that is still to be counted will be: at the end of the
\* clause, when there are no more rows, or at the end of the row.
WillCount(x, k) ==
    /\ k \in 1 .. Len(Clauses(x))
    /\ \/ Clauses(x)[k].op \in {"merge", "delete"} /\ (x.pc = "end" => k <= x.k)
       \/ /\ Clauses(x)[k].op \in {"create", "set"} /\ k = Len(Clauses(x))
          /\ x.stmt.terminal /\ x.pc # "end"
       \/ Clauses(x)[k].op = "set" /\ k = x.k /\ x.pc = "row"

DirtyInv(x) ==
    /\ x.pc = "ready" => ~x.dirty
    /\ x.pc \in {"row", "set", "last", "end"} /\ x.dirty => \E k \in x.mutated : WillCount(x, k)

\* What a transaction has seen is committed, and it runs until it is over.
CursorOK(t, x) ==
    /\ Cursor(x) /\ PlaceOK(x) /\ DirtyInv(x)
    /\ x.cid \in Nat /\ x.base \in Nat /\ x.dirty \in BOOLEAN
    /\ x.snap \subseteq {Boot} \cup {u \in Txns : status[u] = "committed"}
    /\ x.pc # "over" => status[t] = "running"

TxnInv(t) == CursorOK(t, tx[t])

StatusInv ==
    /\ status \in [Txns -> {"running", "committed", "aborted"}]
    /\ tx = [t \in Txns |-> tx[t]]

\* A cursor at a row.
AtRow(t, x) ==
    /\ Cursor(x) /\ IsQuery(x.stmt) /\ x.k \in 1 .. Len(Clauses(x))
    /\ Len(x.rows) \in Nat /\ Lists(x.rows, Len(x.rows)) /\ x.r \in 1 .. Len(x.rows)
    /\ x.cid \in Nat /\ x.base \in Nat /\ x.dirty \in BOOLEAN
    /\ x.snap \subseteq {Boot} \cup {u \in Txns : status[u] = "committed"}
    /\ status[t] = "running"

\* A change that is still to be counted does not wait for the end of a row.
Sure(x, k) ==
    /\ k \in 1 .. Len(Clauses(x))
    /\ \/ Clauses(x)[k].op \in {"merge", "delete"}
       \/ Clauses(x)[k].op \in {"create", "set"} /\ k = Len(Clauses(x)) /\ x.stmt.terminal
Settled(x) == x.dirty => \E k \in x.mutated : Sure(x, k)

IInv == HeapInv /\ OneLive /\ StatusInv /\ \A t \in Txns : TxnInv(t)

-----------------------------------------------------------------------------
(* Cursors.                                                                  *)

\* A cursor whose command ends.
LEMMA IncrementedCursor ==
    ASSUME NEW x, Cursor(x), x.cid \in Nat, NEW y, y = CommandCounterIncrement(x)
    PROVE  /\ Cursor(y) /\ y.pc = x.pc /\ y.k = x.k /\ y.r = x.r /\ y.i = x.i
           /\ y.stmt = x.stmt /\ y.rows = x.rows /\ y.snap = x.snap /\ y.cid \in Nat /\ y.base = x.base
           /\ y.mutated = x.mutated /\ y.dirty = x.dirty
<1>1. CASE x.used
  <2>1. PICK c \in Nat : c = x.cid + 1
    OBVIOUS
  <2>2. y = [x EXCEPT !.cid = c, !.used = FALSE]
    BY <1>1, <2>1 DEF CommandCounterIncrement, Cursor
  <2>3. y.cid \in Nat
    BY <2>1, <2>2 DEF Cursor
  <2>4. Cursor(y)
    BY <2>2 DEF Cursor
  <2>5. y.pc = x.pc /\ y.k = x.k /\ y.r = x.r /\ y.i = x.i /\ y.stmt = x.stmt /\ y.rows = x.rows
    BY <2>2 DEF Cursor
  <2>6. y.snap = x.snap /\ y.base = x.base /\ y.mutated = x.mutated /\ y.dirty = x.dirty
    BY <2>2 DEF Cursor
  <2> QED
    BY <2>3, <2>4, <2>5, <2>6
<1>2. CASE ~x.used
  BY <1>2 DEF CommandCounterIncrement
<1> QED
  BY <1>1, <1>2

\* The least and the greatest of a set of numbers.
LEMMA MinIs ==
    ASSUME NEW S \in SUBSET Nat, S # {}
    PROVE  Min(S) \in S /\ \A y \in S : Min(S) <= y
<1> DEFINE R == OpToRel(<, Nat)
<1>1. PICK x \in S : \A y \in S : ~(<<y, x>> \in R)
  BY NatLessThanWellFounded, WFMin
<1>2. \A p, q \in Nat : <<p, q>> \in R <=> p < q
  BY DEF OpToRel
<1>3. \A y \in S : x <= y
  <2> TAKE y \in S
  <2>1. x \in Nat /\ y \in Nat
    OBVIOUS
  <2>2. ~(y < x)
    BY <1>1, <1>2, <2>1
  <2> QED
    BY <2>1, <2>2
<1> QED
  BY <1>3 DEF Min

\* The same of the greatest.
LEMMA MaxIs ==
    ASSUME NEW n \in Nat, NEW S \in SUBSET (0 .. n), S # {}
    PROVE  Max(S) \in S /\ \A y \in S : Max(S) >= y
<1> DEFINE T == {n - y : y \in S}
<1>1. T \in SUBSET Nat /\ T # {}
  <2>1. \A y \in S : n - y \in Nat
    OBVIOUS
  <2> QED
    BY <2>1
<1>2. PICK m \in T : \A y \in T : m <= y
  <2> HIDE DEF T
  <2> QED
    BY <1>1, MinIs
<1>3. PICK x \in S : m = n - x
  BY <1>2
<1>4. \A y \in S : x >= y
  BY <1>2, <1>3
<1> QED
  BY <1>4 DEF Max

\* The clauses that a row goes through before the next one is pulled.
LEMMA StageIs ==
    ASSUME NEW x, List(Clauses(x)), x.k \in 1 .. Len(Clauses(x))
    PROVE  /\ StageEnd(x) \in x.k .. Len(Clauses(x))
           /\ StageStart(x) \in 1 .. x.k
<1>1. PICK n \in Nat : n = Len(Clauses(x)) /\ x.k \in 1 .. n
  BY Zenon DEF List
<1> DEFINE S == {k \in x.k .. n : Eager(x, k) \/ k = n}
           T == {0} \cup {k \in 1 .. x.k - 1 : Eager(x, k)}
<1>2. S \in SUBSET Nat /\ n \in S
  BY <1>1
<1>3. T \in SUBSET (0 .. x.k - 1) /\ T # {} /\ x.k - 1 \in Nat
  BY <1>1
<1>4. StageEnd(x) = Min(S) /\ StageStart(x) = Max(T) + 1
  BY <1>1 DEF StageEnd, StageStart
<1>5. Min(S) \in S
  <2> HIDE DEF S
  <2> QED
    BY <1>2, MinIs
<1>6. Max(T) \in T
  <2> HIDE DEF T
  <2> QED
    BY <1>3, MaxIs
<1> QED
  BY <1>1, <1>3, <1>4, <1>5, <1>6

\* A cursor at another row or clause.
Placed(x, k, r, d, u) ==
    [x EXCEPT !.k = k, !.r = r, !.i = 1, !.lidx = 0, !.pc = "row", !.curcid = d, !.upto = u]

\* The next row begins with one of them.
LEMMA NextStartIs ==
    ASSUME NEW x, List(Clauses(x)), x.k \in 1 .. Len(Clauses(x))
    PROVE  NextStart(x) \in 1 .. x.k
<1>1. Len(Clauses(x)) \in Nat /\ x.k \in 1 .. x.k
  BY DEF List
<1> QED
  BY <1>1, StageIs DEF NextStart

\* Where a row goes when a clause is done with it: to another place of the query,
\* or to the end of the last clause.
LEMMA AfterClauseIs ==
    ASSUME NEW x, Cursor(x), IsQuery(x.stmt), x.k \in 1 .. Len(Clauses(x)),
           Len(x.rows) \in Nat, Lists(x.rows, Len(x.rows)), x.r \in 1 .. Len(x.rows),
           NEW y, y = AfterClause(x)
    PROVE  /\ Cursor(y) /\ PlaceOK(y) /\ y.pc \in {"row", "last"}
           /\ y.stmt = x.stmt /\ y.snap = x.snap /\ y.cid = x.cid /\ y.base = x.base
           /\ y.mutated = x.mutated /\ y.dirty = x.dirty
<1>1. List(Clauses(x))
  BY DEF IsQuery, Clauses
<1>2. PICK n \in Nat : n = Len(Clauses(x)) /\ x.k \in 1 .. n
  BY <1>1, Zenon DEF List
<1>3. PICK m \in Nat : m = Len(x.rows) /\ x.r \in 1 .. m
  OBVIOUS
<1>4. PICK e \in x.k .. n, s \in 1 .. x.k : e = StageEnd(x) /\ s = NextStart(x)
  BY <1>1, <1>2, StageIs, NextStartIs
<1>5. ASSUME NEW k \in 1 .. n, NEW r \in 1 .. m, NEW d, NEW u,
             y = Placed(x, k, r, d, u)
      PROVE  /\ Cursor(y) /\ PlaceOK(y) /\ y.pc \in {"row", "last"}
             /\ y.stmt = x.stmt /\ y.snap = x.snap /\ y.cid = x.cid /\ y.base = x.base
             /\ y.mutated = x.mutated /\ y.dirty = x.dirty
  <2>1. /\ Cursor(y) /\ y.k = k /\ y.r = r /\ y.i = 1 /\ y.pc = "row"
        /\ y.stmt = x.stmt /\ y.rows = x.rows /\ y.snap = x.snap /\ y.cid = x.cid /\ y.base = x.base
        /\ y.mutated = x.mutated /\ y.dirty = x.dirty
    <3>1. Cursor(y)
      BY <1>5 DEF Cursor, Placed
    <3>2. y.k = k /\ y.r = r /\ y.i = 1 /\ y.pc = "row"
      BY <1>5 DEF Cursor, Placed
    <3>3. y.stmt = x.stmt /\ y.rows = x.rows /\ y.snap = x.snap
      BY <1>5 DEF Cursor, Placed
    <3>4. y.cid = x.cid /\ y.base = x.base /\ y.mutated = x.mutated /\ y.dirty = x.dirty
      BY <1>5 DEF Cursor, Placed
    <3> QED
      BY <3>1, <3>2, <3>3, <3>4
  <2>2. Clauses(y) = Clauses(x) /\ Clause(y) = Clauses(x)[k]
    BY <2>1 DEF Clauses, Clause
  <2>3. Clauses(x)[k].op = "set" => 1 \in 1 .. Len(Clauses(x)[k].items)
    <3>1. k \in DOMAIN x.stmt.clauses /\ Clauses(x) = x.stmt.clauses
      BY <1>1, <1>2 DEF Clauses, List
    <3>2. x.stmt.clauses[k].op = "set" =>
              Len(x.stmt.clauses[k].items) \in Nat /\ Len(x.stmt.clauses[k].items) > 0
      BY <3>1, Zenon DEF IsQuery, List
    <3> QED
      BY <3>1, <3>2
  <2> QED
    BY <1>2, <1>3, <2>1, <2>2, <2>3 DEF PlaceOK
<1>6. CASE x.k < e
  <2>1. y = [x EXCEPT !.k = @ + 1, !.i = 1, !.lidx = 0, !.pc = "row", !.curcid = @ + 1]
    BY <1>4, <1>6 DEF AfterClause
  <2>2. PICK k \in 1 .. n : k = x.k + 1
    BY <1>2, <1>4, <1>6
  <2>3. PICK d : d = x.curcid + 1
    OBVIOUS
  <2>4. y = Placed(x, k, x.r, d, x.upto)
    BY <2>1, <2>2, <2>3 DEF Cursor, Placed
  <2> QED
    BY <1>3, <1>5, <2>4
<1>7. CASE x.k = e /\ x.r < m
  <2>1. y = [x EXCEPT !.k = s, !.r = @ + 1, !.i = 1, !.lidx = 0, !.pc = "row",
                       !.curcid = @ - (x.k - s)]
    BY <1>2, <1>3, <1>4, <1>7 DEF AfterClause
  <2>2. PICK r \in 1 .. m : r = x.r + 1
    BY <1>3, <1>7
  <2>3. PICK d : d = x.curcid - (x.k - s)
    OBVIOUS
  <2>4. y = Placed(x, s, r, d, x.upto)
    BY <2>1, <2>2, <2>3 DEF Cursor, Placed
  <2>5. s \in 1 .. n
    BY <1>2, <1>4
  <2> QED
    BY <1>5, <2>4, <2>5
<1>8. CASE x.k = e /\ x.r = m /\ x.k < n
  <2>1. y = [x EXCEPT !.k = @ + 1, !.r = 1, !.i = 1, !.lidx = 0, !.pc = "row",
                       !.curcid = @ + 1, !.upto = 0]
    BY <1>2, <1>3, <1>4, <1>8 DEF AfterClause
  <2>2. PICK k \in 1 .. n : k = x.k + 1
    BY <1>2, <1>8
  <2>3. PICK d : d = x.curcid + 1
    OBVIOUS
  <2>4. y = Placed(x, k, 1, d, 0)
    BY <2>1, <2>2, <2>3 DEF Cursor, Placed
  <2>5. 1 \in 1 .. m
    BY <1>3
  <2> QED
    BY <1>5, <2>4, <2>5
<1>9. CASE x.k = e /\ x.r = m /\ x.k = n
  <2>1. y = [x EXCEPT !.pc = "last"]
    BY <1>2, <1>3, <1>4, <1>9 DEF AfterClause
  <2>2. /\ Cursor(y) /\ y.pc = "last" /\ y.k = x.k
        /\ y.stmt = x.stmt /\ y.rows = x.rows /\ y.snap = x.snap /\ y.cid = x.cid /\ y.base = x.base
        /\ y.mutated = x.mutated /\ y.dirty = x.dirty
    BY <2>1 DEF Cursor
  <2>3. Clauses(y) = Clauses(x)
    BY <2>2 DEF Clauses
  <2> QED
    BY <1>2, <1>9, <2>2, <2>3 DEF PlaceOK
<1> QED
  BY <1>2, <1>3, <1>4, <1>6, <1>7, <1>8, <1>9

-----------------------------------------------------------------------------
(* Sequences.                                                                *)

\* A function on 1 .. n is a sequence of that length.
LEMMA ListIs ==
    ASSUME NEW n \in Nat, NEW f, Lists(f, n)
    PROVE  List(f) /\ Len(f) = n /\ DOMAIN f = 1 .. n /\ f \in Seq({f[i] : i \in 1 .. n})
<1>1. f \in [1 .. n -> {f[i] : i \in 1 .. n}]
  BY DEF Lists
<1>2. f \in Seq({f[i] : i \in 1 .. n})
  BY <1>1
<1>3. Len(f) = n
  BY <1>1, <1>2
<1> QED
  BY <1>1, <1>2, <1>3 DEF List

\* A sequence with one element more.
LEMMA AppendIs ==
    ASSUME NEW n \in Nat, NEW f, Lists(f, n), NEW v
    PROVE  /\ Lists(AndThen(f, v), n + 1)
           /\ \A i \in 1 .. n : AndThen(f, v)[i] = f[i]
           /\ AndThen(f, v)[n + 1] = v
<1>1. f \in Seq({f[i] : i \in 1 .. n}) /\ Len(f) = n
  BY ListIs
<1>2. f \in Seq({f[i] : i \in 1 .. n} \cup {v}) /\ v \in {f[i] : i \in 1 .. n} \cup {v}
  BY <1>1
<1>3. PICK S : S = {f[i] : i \in 1 .. n} \cup {v}
  OBVIOUS
<1>4. f \in Seq(S) /\ v \in S
  BY <1>2, <1>3
<1>5. PICK g : g = Append(f, v)
  OBVIOUS
<1>6. g \in Seq(S) /\ Len(g) = n + 1 /\ (\A i \in 1 .. n : g[i] = f[i]) /\ g[n + 1] = v
  BY <1>1, <1>4, <1>5
<1>7. g = [i \in 1 .. n + 1 |-> g[i]]
  BY <1>6
<1>8. g = AndThen(f, v)
  BY <1>5 DEF AndThen
<1> QED
  BY <1>6, <1>7, <1>8 DEF Lists

\* A sequence with another one after it.
LEMMA ConcatIs ==
    ASSUME NEW n \in Nat, NEW f, Lists(f, n), NEW m \in Nat, NEW h, Lists(h, m)
    PROVE  /\ Lists(Joined(f, h), n + m)
           /\ \A i \in 1 .. n : Joined(f, h)[i] = f[i]
           /\ \A i \in 1 .. m : Joined(f, h)[n + i] = h[i]
<1>1. f \in Seq({f[i] : i \in 1 .. n}) /\ Len(f) = n
  BY ListIs
<1>2. h \in Seq({h[i] : i \in 1 .. m}) /\ Len(h) = m
  BY ListIs
<1>3. PICK S : S = {f[i] : i \in 1 .. n} \cup {h[i] : i \in 1 .. m}
  OBVIOUS
<1>4. f \in Seq(S) /\ h \in Seq(S)
  BY <1>1, <1>2, <1>3
<1>5. PICK g : g = f \o h
  OBVIOUS
<1>6. g \in Seq(S) /\ Len(g) = n + m /\ (\A i \in 1 .. n : g[i] = f[i]) /\ (\A i \in 1 .. m : g[n + i] = h[i])
  <2>1. g \in Seq(S) /\ Len(g) = n + m
    <3>1. f \o h \in Seq(S) /\ Len(f \o h) = Len(f) + Len(h)
      BY <1>4
    <3> QED
      BY <1>1, <1>2, <1>5, <3>1
  <2>2. \A i \in 1 .. n : g[i] = f[i]
    BY <1>1, <1>2, <1>4, <1>5
  <2>3. ASSUME NEW i \in 1 .. m PROVE g[n + i] = h[i]
    <3>1. n + i \in 1 .. n + m /\ n + i > n /\ (n + i) - n = i
      OBVIOUS
    <3>2. PICK j : j = n + i
      OBVIOUS
    <3>3. \A l \in 1 .. Len(f) + Len(h) : (f \o h)[l] = IF l <= Len(f) THEN f[l] ELSE h[l - Len(f)]
      BY <1>4, ConcatProperties
    <3>4. (f \o h)[j] = h[j - n]
      BY <1>1, <1>2, <3>1, <3>2, <3>3
    <3> QED
      BY <1>5, <3>1, <3>2, <3>4
  <2> QED
    BY <2>1, <2>2, <2>3
<1>7. g = [i \in 1 .. n + m |-> g[i]]
  BY <1>6
<1>8. g = Joined(f, h)
  BY <1>5 DEF Joined
<1> QED
  BY <1>6, <1>7, <1>8 DEF Lists

-----------------------------------------------------------------------------
(* The heap.                                                                 *)

\* A version that can be written has been ended by nobody, or by a transaction
\* that was rolled back.
LEMMA WritableIs ==
    ASSUME NEW t \in Txns, NEW i \in DOMAIN heap, Writable(t, i)
    PROVE  heap[i].xmax = None \/ (heap[i].xmax \in Txns /\ status[heap[i].xmax] = "aborted")
BY TxnAssumption DEF Writable, LockResult

\* What a transaction finds is there, and is its own or committed.
LEMMA SeenIs ==
    ASSUME NEW t \in Txns, TxnInv(t), NEW c, NEW v, VisibleAt(t, c, v)
    PROVE  v.xmin = t \/ v.xmin = Boot \/ (v.xmin \in Txns /\ status[v.xmin] = "committed")
BY DEF VisibleAt, Sees, TxnInv, CursorOK

\* A step that leaves the heap alone.
LEMMA HeapStays ==
    ASSUME HeapInv, OneLive, heap' = heap, next_id' = next_id, version' \in Nat, status' = status
    PROVE  HeapInv' /\ OneLive'
<1>1. HeapInv'
  BY DEF HeapInv, Lists, VersionOK, Version
<1>2. \A V : Outcome(V)' <=> Outcome(V)
  BY DEF Outcome
<1>3. OneLive'
  BY <1>2 DEF OneLive, LiveIn
<1> QED
  BY <1>1, <1>3

\* What HeapInv and OneLive say, for a heap of n versions.
LEMMA HeapIs ==
    ASSUME NEW n \in Nat, Lists(heap', n), next_id' \in Nat, next_id' > 0, version' \in Nat,
           \A j \in 1 .. n : VersionOK(heap'[j], next_id')
    PROVE  HeapInv'
<1>1. DOMAIN heap' = 1 .. n /\ Len(heap') = n
  BY ListIs
<1> QED
  BY <1>1 DEF HeapInv, VersionOK, Version, Lists

\* The same for what OneLive says, when no transaction ends.
LEMMA OneLiveIs ==
    ASSUME NEW D, DOMAIN heap' = D, status' = status,
           ASSUME NEW V \in SUBSET Txns, Outcome(V), NEW p \in D, NEW q \in D,
                  heap'[p].id = heap'[q].id, LiveIn(V, heap'[p]), LiveIn(V, heap'[q])
           PROVE  p = q
    PROVE  OneLive'
<1>1. \A V : Outcome(V)' <=> Outcome(V)
  BY DEF Outcome
<1> QED
  BY <1>1 DEF OneLive, LiveIn

\* The versions of the heap, one by one.
LEMMA HeapHas ==
    ASSUME HeapInv
    PROVE  \E n \in Nat : /\ n = Len(heap) /\ DOMAIN heap = 1 .. n /\ Lists(heap, n)
                          /\ \A j \in 1 .. n : VersionOK(heap[j], next_id)
<1>1. PICK n : n = Len(heap)
  OBVIOUS
<1>2. n \in Nat /\ Lists(heap, n)
  BY <1>1 DEF HeapInv
<1>3. DOMAIN heap = 1 .. n
  BY <1>2, ListIs
<1> QED
  BY <1>1, <1>2, <1>3 DEF HeapInv

\* The end of a version.
LEMMA HeapEnds ==
    ASSUME HeapInv, OneLive, NEW t \in Txns, NEW i \in DOMAIN heap, Writable(t, i), NEW c \in Nat,
           heap' = Ended(t, i, c), next_id' = next_id, version' \in Nat, status' = status
    PROVE  HeapInv' /\ OneLive'
<1>1. PICK n \in Nat : /\ n = Len(heap) /\ DOMAIN heap = 1 .. n /\ Lists(heap, n)
                       /\ \A j \in 1 .. n : VersionOK(heap[j], next_id)
  BY HeapHas
<1>2. PICK v : v = [heap[i] EXCEPT !.xmax = t, !.cmax = c, !.xsee = tx[t].snap \cup {t}]
  OBVIOUS
<1>3. Version(heap[i]) /\ VersionOK(heap[i], next_id)
  BY <1>1 DEF VersionOK
<1>4. /\ Version(v) /\ v.id = heap[i].id /\ v.xmin = heap[i].xmin /\ v.cmin = heap[i].cmin
      /\ v.xmax = t /\ v.cmax = c
  BY <1>2, <1>3 DEF Version
<1>5. heap' = [heap EXCEPT ![i] = v]
  BY <1>1, <1>2, <1>3 DEF Ended, Version, Lists
<1>6. /\ Lists(heap', n) /\ DOMAIN heap' = 1 .. n /\ heap'[i] = v
      /\ \A j \in 1 .. n : j # i => heap'[j] = heap[j]
  BY <1>1, <1>5 DEF Lists
<1>7. HeapInv'
  <2>1. VersionOK(v, next_id)
    BY <1>3, <1>4 DEF VersionOK
  <2>2. \A j \in 1 .. n : VersionOK(heap'[j], next_id)
    BY <1>1, <1>6, <2>1
  <2>3. next_id' \in Nat /\ next_id' > 0 /\ next_id' = next_id
    BY DEF HeapInv
  <2>4. \A j \in 1 .. n : VersionOK(heap'[j], next_id')
    BY <2>2, <2>3
  <2> QED
    BY <1>6, <2>3, <2>4, HeapIs
<1>8. OneLive'
  <2>0. ASSUME NEW V \in SUBSET Txns, Outcome(V), NEW p \in 1 .. n, NEW q \in 1 .. n,
               heap'[p].id = heap'[q].id, LiveIn(V, heap'[p]), LiveIn(V, heap'[q])
        PROVE  p = q
    <3>1. heap[i].xmax \notin V
      BY WritableIs, TxnAssumption, <2>0 DEF Outcome
    <3>2. \A j \in 1 .. n : heap'[j].id = heap[j].id /\ (LiveIn(V, heap'[j]) => LiveIn(V, heap[j]))
      BY <1>4, <1>6, <3>1 DEF LiveIn
    <3>3. heap[p].id = heap[q].id /\ LiveIn(V, heap[p]) /\ LiveIn(V, heap[q])
      BY <2>0, <3>2
    <3> QED
      BY <1>1, <2>0, <3>3 DEF OneLive
  <2> QED
    BY <1>6, <2>0, OneLiveIs
<1> QED
  BY <1>7, <1>8

\* A new version of an entity: it is there if the transaction commits, and then
\* the old one is not.
LEMMA HeapUpdated ==
    ASSUME HeapInv, OneLive, NEW t \in Txns, status[t] = "running",
           NEW i \in DOMAIN heap, Writable(t, i), tx[t].cid \in Nat, NEW val,
           heap[i].xmin = t \/ heap[i].xmin = Boot \/ (heap[i].xmin \in Txns /\ status[heap[i].xmin] = "committed"),
           heap' = Updated(t, i, val), next_id' = next_id, version' \in Nat, status' = status
    PROVE  HeapInv' /\ OneLive'
<1>1. PICK n \in Nat : /\ n = Len(heap) /\ DOMAIN heap = 1 .. n /\ Lists(heap, n)
                       /\ \A j \in 1 .. n : VersionOK(heap[j], next_id)
  BY HeapHas
<1>2. PICK c \in Nat : c = tx[t].cid
  OBVIOUS
<1>3. Version(heap[i]) /\ VersionOK(heap[i], next_id)
  BY <1>1 DEF VersionOK
<1>4. PICK v : v = [heap[i] EXCEPT !.xmax = t, !.cmax = c, !.xsee = tx[t].snap \cup {t}]
  OBVIOUS
<1>5. PICK w : w = [heap[i] EXCEPT !.val = val, !.xmin = t, !.cmin = c,
                                   !.xmax = None, !.cmax = 0, !.xsee = {}]
  OBVIOUS
<1>6. /\ Version(v) /\ v.id = heap[i].id /\ v.xmin = heap[i].xmin /\ v.cmin = heap[i].cmin
      /\ v.xmax = t /\ v.cmax = c
  BY <1>3, <1>4 DEF Version
<1>7. /\ Version(w) /\ w.id = heap[i].id /\ w.xmin = t /\ w.cmin = c
      /\ w.xmax = None /\ w.cmax = 0
  BY <1>3, <1>5 DEF Version
<1>8. PICK f : f = [heap EXCEPT ![i] = v]
  OBVIOUS
<1>9. heap' = Append(f, w)
  <2>1. Ended(t, i, c) = f
    BY <1>1, <1>3, <1>4, <1>8, Zenon DEF Ended, Version, Lists
  <2> QED
    BY <1>2, <1>5, <2>1 DEF Updated
<1>10. Lists(f, n) /\ f[i] = v /\ \A j \in 1 .. n : j # i => f[j] = heap[j]
  BY <1>1, <1>8 DEF Lists
<1>11. Lists(heap', n + 1) /\ heap'[n + 1] = w /\ \A j \in 1 .. n : heap'[j] = f[j]
  <2>1. heap' = AndThen(f, w)
    BY <1>9 DEF AndThen
  <2>2. /\ Lists(AndThen(f, w), n + 1) /\ AndThen(f, w)[n + 1] = w
        /\ \A j \in 1 .. n : AndThen(f, w)[j] = f[j]
    BY <1>10, AppendIs
  <2> QED
    BY <2>1, <2>2
<1>12. /\ heap'[n + 1] = w /\ heap'[i] = v
       /\ \A j \in 1 .. n : j # i => heap'[j] = heap[j]
  BY <1>1, <1>10, <1>11
<1>13. DOMAIN heap' = 1 .. n + 1
  BY <1>11 DEF Lists
<1>14. HeapInv'
  <2>1. VersionOK(v, next_id) /\ VersionOK(w, next_id)
    BY <1>3, <1>6, <1>7 DEF VersionOK
  <2>2. \A j \in 1 .. n + 1 : j = n + 1 \/ j \in 1 .. n
    OBVIOUS
  <2>3. \A j \in 1 .. n + 1 : VersionOK(heap'[j], next_id)
    BY <1>1, <1>12, <2>1, <2>2
  <2>4. next_id' \in Nat /\ next_id' > 0 /\ next_id' = next_id
    BY DEF HeapInv
  <2>5. \A j \in 1 .. n + 1 : VersionOK(heap'[j], next_id')
    BY <2>3, <2>4
  <2> QED
    BY <1>11, <2>4, <2>5, HeapIs
<1>15. OneLive'
  <2>0. ASSUME NEW V \in SUBSET Txns, Outcome(V), NEW p \in 1 .. n + 1, NEW q \in 1 .. n + 1,
               heap'[p].id = heap'[q].id, LiveIn(V, heap'[p]), LiveIn(V, heap'[q])
        PROVE  p = q
    <3>1. heap[i].xmax \notin V
      BY WritableIs, TxnAssumption, <2>0 DEF Outcome
    <3>2. \A j \in 1 .. n : heap'[j].id = heap[j].id /\ (LiveIn(V, heap'[j]) => LiveIn(V, heap[j]))
      BY <1>6, <1>12, <3>1 DEF LiveIn
    <3>3. \A j \in 1 .. n : t \in V /\ heap[j].id = heap[i].id => ~LiveIn(V, heap'[j])
      <4> SUFFICES ASSUME NEW j \in 1 .. n, t \in V, heap[j].id = heap[i].id, LiveIn(V, heap'[j])
                   PROVE  FALSE
        OBVIOUS
      <4>1. LiveIn(V, heap[i])
        BY <2>0, <3>1 DEF LiveIn, Outcome
      <4>2. j = i
        BY <1>1, <2>0, <3>2, <4>1 DEF OneLive
      <4> QED
        BY <1>6, <1>12, <4>2 DEF LiveIn
    <3>4. LiveIn(V, heap'[n + 1]) => t \in V
      BY <1>7, <1>12, TxnAssumption DEF LiveIn
    <3>5. CASE p \in 1 .. n /\ q \in 1 .. n
      <4>1. heap[p].id = heap[q].id /\ LiveIn(V, heap[p]) /\ LiveIn(V, heap[q])
        BY <2>0, <3>2, <3>5
      <4> QED
        BY <1>1, <2>0, <3>5, <4>1 DEF OneLive
    <3>6. CASE p = n + 1 /\ q \in 1 .. n
      BY <1>7, <1>12, <2>0, <3>2, <3>3, <3>4, <3>6
    <3>7. CASE q = n + 1 /\ p \in 1 .. n
      BY <1>7, <1>12, <2>0, <3>2, <3>3, <3>4, <3>7
    <3> QED
      BY <3>5, <3>6, <3>7
  <2> QED
    BY <1>13, <2>0, OneLiveIs
<1> QED
  BY <1>14, <1>15

\* New entities have ids that no version has.
LEMMA HeapGrows ==
    ASSUME HeapInv, OneLive, NEW t \in Txns, NEW m \in Nat, NEW new, Lists(new, m),
           \A j \in 1 .. m : NewVersion(new[j], t, next_id + j - 1),
           heap' = heap \o new, next_id' = next_id + m, version' \in Nat, status' = status
    PROVE  HeapInv' /\ OneLive'
<1>1. PICK n \in Nat : /\ n = Len(heap) /\ DOMAIN heap = 1 .. n /\ Lists(heap, n)
                       /\ \A j \in 1 .. n : VersionOK(heap[j], next_id)
  BY HeapHas
<1>2. /\ Lists(heap', n + m)
      /\ \A j \in 1 .. n : heap'[j] = heap[j]
      /\ \A j \in 1 .. m : heap'[n + j] = new[j]
  <2>1. heap' = Joined(heap, new)
    BY DEF Joined
  <2>2. /\ Lists(Joined(heap, new), n + m)
        /\ \A j \in 1 .. n : Joined(heap, new)[j] = heap[j]
        /\ \A j \in 1 .. m : Joined(heap, new)[n + j] = new[j]
    <3>1. Lists(heap, n) /\ Lists(new, m)
      BY <1>1
    <3>2. Lists(Joined(heap, new), n + m)
      BY <3>1, ConcatIs
    <3>3. \A j \in 1 .. n : Joined(heap, new)[j] = heap[j]
      BY <3>1, ConcatIs
    <3>4. \A j \in 1 .. m : Joined(heap, new)[n + j] = new[j]
      BY <3>1, ConcatIs
    <3> QED
      BY <3>2, <3>3, <3>4
  <2> QED
    BY <2>1, <2>2
<1>3. DOMAIN heap' = 1 .. n + m
  BY <1>2 DEF Lists
<1>4. PICK a \in Nat, b \in Nat : a = next_id /\ b = next_id' /\ b = a + m /\ a > 0
  BY DEF HeapInv
<1>5. ASSUME NEW p \in 1 .. n + m, p \notin 1 .. n
      PROVE  \E j \in 1 .. m : p = n + j /\ heap'[p] = new[j] /\ NewVersion(heap'[p], t, a + j - 1)
  <2>1. p - n \in 1 .. m /\ p = n + (p - n)
    BY <1>5
  <2>2. PICK j \in 1 .. m : p = n + j
    BY <2>1
  <2>3. NewVersion(new[j], t, a + j - 1)
    BY <1>4
  <2> QED
    BY <1>2, <2>2, <2>3
<1>6. HeapInv'
  <2>1. ASSUME NEW p \in 1 .. n + m
        PROVE  VersionOK(heap'[p], b)
    <3>1. CASE p \in 1 .. n
      <4>1. heap'[p] = heap[p] /\ VersionOK(heap[p], a)
        BY <1>1, <1>2, <1>4, <3>1
      <4>2. PICK d : d = heap[p].id
        OBVIOUS
      <4>3. d \in 1 .. a - 1
        BY <4>1, <4>2 DEF VersionOK
      <4>4. d \in 1 .. b - 1
        BY <1>4, <4>3
      <4> QED
        BY <4>1, <4>2, <4>4 DEF VersionOK
    <3>2. CASE p \notin 1 .. n
      <4>1. PICK j \in 1 .. m : NewVersion(heap'[p], t, a + j - 1)
        BY <1>5, <3>2
      <4>2. PICK d : d = a + j - 1
        OBVIOUS
      <4>3. d \in 1 .. b - 1
        BY <1>4, <4>2
      <4> QED
        <5>1. NewVersion(heap'[p], t, d) /\ 0 \in Nat
          BY <4>1, <4>2
        <5> QED
          BY <4>3, <5>1 DEF NewVersion, VersionOK
    <3> QED
      BY <3>1, <3>2
  <2> QED
    <3>1. PICK l \in Nat : l = n + m
      OBVIOUS
    <3>2. Lists(heap', l) /\ \A j \in 1 .. l : VersionOK(heap'[j], next_id')
      BY <1>2, <1>4, <2>1, <3>1
    <3>3. next_id' \in Nat /\ next_id' > 0
      BY <1>4
    <3> QED
      BY <3>2, <3>3, HeapIs
<1>7. OneLive'
  <2>0. ASSUME NEW V \in SUBSET Txns, Outcome(V), NEW p \in 1 .. n + m, NEW q \in 1 .. n + m,
               heap'[p].id = heap'[q].id, LiveIn(V, heap'[p]), LiveIn(V, heap'[q])
        PROVE  p = q
    <3>1. \A j \in 1 .. n : heap'[j] = heap[j] /\ heap'[j].id \in 1 .. a - 1
      BY <1>1, <1>2, <1>4 DEF VersionOK
    <3>2. \A j \in 1 .. n + m : j \notin 1 .. n => heap'[j].id = a + (j - n) - 1 /\ j - n \in 1 .. m
      <4> SUFFICES ASSUME NEW j \in 1 .. n + m, j \notin 1 .. n
                   PROVE  heap'[j].id = a + (j - n) - 1 /\ j - n \in 1 .. m
        OBVIOUS
      <4>1. PICK k \in 1 .. m : j = n + k /\ NewVersion(heap'[j], t, a + k - 1)
        BY <1>5
      <4>2. heap'[j].id = a + k - 1
        BY <4>1 DEF NewVersion
      <4>3. k = j - n
        BY <4>1
      <4> QED
        BY <4>2, <4>3
    <3>3. CASE p \in 1 .. n /\ q \in 1 .. n
      BY <1>1, <2>0, <3>1, <3>3 DEF OneLive
    <3>4. CASE p \in 1 .. n /\ q \notin 1 .. n
      <4>1. PICK d : d = heap'[p].id /\ d = heap'[q].id
        BY <2>0
      <4>2. d \in 1 .. a - 1
        BY <3>1, <3>4, <4>1
      <4>3. d = a + (q - n) - 1 /\ q - n \in 1 .. m
        BY <3>2, <3>4, <4>1
      <4> QED
        BY <4>2, <4>3
    <3>5. CASE p \notin 1 .. n /\ q \in 1 .. n
      <4>1. PICK d : d = heap'[p].id /\ d = heap'[q].id
        BY <2>0
      <4>2. d \in 1 .. a - 1
        BY <3>1, <3>5, <4>1
      <4>3. d = a + (p - n) - 1 /\ p - n \in 1 .. m
        BY <3>2, <3>5, <4>1
      <4> QED
        BY <4>2, <4>3
    <3>6. CASE p \notin 1 .. n /\ q \notin 1 .. n
      <4>1. a + (p - n) - 1 = a + (q - n) - 1
        BY <2>0, <3>2, <3>6
      <4> QED
        BY <4>1
    <3> QED
      BY <3>3, <3>4, <3>5, <3>6
  <2> QED
    BY <1>3, <2>0, OneLiveIs
<1> QED
  BY <1>6, <1>7

-----------------------------------------------------------------------------
(* Transactions.                                                             *)

\* A cursor at a row, from the invariant.
LEMMA AtRowIs ==
    ASSUME NEW t, NEW x, CursorOK(t, x), x.pc \in {"row", "set"}
    PROVE  AtRow(t, x)
BY DEF CursorOK, PlaceOK, AtRow

\* Only a SET in the middle of a row leaves a change to the end of the row.
LEMMA SettledIs ==
    ASSUME NEW t, NEW x, CursorOK(t, x), x.pc \in {"row", "set"},
           Clause(x).op # "set" \/ x.k \notin x.mutated \/ IsTerminal(x)
    PROVE  Settled(x)
<1> SUFFICES ASSUME x.dirty PROVE \E k \in x.mutated : Sure(x, k)
  BY DEF Settled
<1>1. PICK k \in x.mutated : WillCount(x, k)
  BY DEF CursorOK, DirtyInv
<1>2. Sure(x, k)
  BY <1>1 DEF Sure, WillCount, Clause, Clauses, IsTerminal
<1> QED
  BY <1>2

\* A settled cursor moves on.
LEMMA AfterKeeps ==
    ASSUME NEW t, NEW x, AtRow(t, x), Settled(x)
    PROVE  CursorOK(t, AfterClause(x))
<1>1. PICK y : y = AfterClause(x)
  OBVIOUS
<1>2. /\ Cursor(y) /\ PlaceOK(y) /\ y.pc \in {"row", "last"}
      /\ y.stmt = x.stmt /\ y.snap = x.snap /\ y.cid = x.cid /\ y.base = x.base
      /\ y.mutated = x.mutated /\ y.dirty = x.dirty
  BY <1>1, AfterClauseIs DEF AtRow
<1>3. \A k : Sure(x, k) => WillCount(y, k)
  BY <1>2 DEF Sure, WillCount, Clauses
<1>4. DirtyInv(y)
  BY <1>2, <1>3 DEF Settled, DirtyInv
<1>5. CursorOK(t, y)
  BY <1>2, <1>4 DEF AtRow, CursorOK
<1> QED
  BY <1>1, <1>5

\* The end of a command does not move a cursor.
LEMMA IncrementKeeps ==
    ASSUME NEW t, NEW x, AtRow(t, x)
    PROVE  /\ AtRow(t, CommandCounterIncrement(x))
           /\ Settled(x) => Settled(CommandCounterIncrement(x))
<1>1. PICK y : y = CommandCounterIncrement(x)
  OBVIOUS
<1>2. /\ Cursor(y) /\ y.pc = x.pc /\ y.k = x.k /\ y.r = x.r /\ y.i = x.i
      /\ y.stmt = x.stmt /\ y.rows = x.rows /\ y.snap = x.snap /\ y.cid \in Nat /\ y.base = x.base
      /\ y.mutated = x.mutated /\ y.dirty = x.dirty
  BY <1>1, IncrementedCursor DEF AtRow
<1>3. AtRow(t, y)
  BY <1>2 DEF AtRow, Clauses
<1>4. Settled(x) => Settled(y)
  BY <1>2 DEF Settled, Sure, Clauses
<1> QED
  BY <1>1, <1>3, <1>4

\* A cursor that stays at its row and may have made a change of its clause.
LEMMA RowKeeps ==
    ASSUME NEW t, NEW x, AtRow(t, x), NEW y, Cursor(y),
           y.stmt = x.stmt, y.k = x.k, y.r = x.r, y.snap = x.snap, y.base = x.base,
           Len(y.rows) \in Nat, Lists(y.rows, Len(y.rows)), x.r \in 1 .. Len(y.rows),
           y.cid \in Nat, y.dirty \in BOOLEAN
    PROVE  AtRow(t, y)
BY DEF AtRow, Clauses

\* A change of a MERGE or DELETE clause, or of the last clause of a query that ends
\* with it, is settled.
LEMMA ChangeSettles ==
    ASSUME NEW t, NEW x, AtRow(t, x), x.k \in x.mutated,
           Clause(x).op \in {"merge", "delete"} \/ IsTerminal(x)
    PROVE  Settled(x)
<1>1. Clause(x).op \in {"create", "set", "merge", "delete"}
  BY DEF AtRow, IsQuery, Clause, Clauses, List
<1>2. Sure(x, x.k)
  BY <1>1 DEF AtRow, Sure, Clause, Clauses, IsTerminal
<1> QED
  BY <1>2 DEF Settled

\* The parts of a transaction's invariant after a step.
LEMMA TxnInvAfter ==
    ASSUME NEW u \in Txns, Cursor(tx'[u]), PlaceOK(tx'[u]), DirtyInv(tx'[u]),
           tx'[u].cid \in Nat, tx'[u].base \in Nat, tx'[u].dirty \in BOOLEAN,
           tx'[u].snap \subseteq {Boot} \cup {w \in Txns : status'[w] = "committed"},
           tx'[u].pc # "over" => status'[u] = "running"
    PROVE  TxnInv(u)'
<1>1. Cursor(tx[u])'
  BY Zenon DEF Cursor
<1>2. PlaceOK(tx[u])'
  BY Zenon DEF PlaceOK, Clause, Clauses
<1>3. DirtyInv(tx[u])'
  BY Zenon DEF DirtyInv, WillCount, Clauses
<1> QED
  BY <1>1, <1>2, <1>3, Zenon DEF TxnInv, CursorOK

\* A step that changes the cursor of one transaction.
LEMMA CursorStep ==
    ASSUME StatusInv, \A u \in Txns : TxnInv(u), NEW t \in Txns, NEW y, CursorOK(t, y),
           tx' = [tx EXCEPT ![t] = y], status' = status
    PROVE  StatusInv' /\ \A u \in Txns : TxnInv(u)'
<1>1. tx' = [u \in Txns |-> tx'[u]] /\ tx'[t] = y /\ \A u \in Txns : u # t => tx'[u] = tx[u]
  BY DEF StatusInv
<1>2. \A u \in Txns : CursorOK(u, tx'[u])
  BY <1>1 DEF TxnInv
<1>3. ASSUME NEW u \in Txns PROVE TxnInv(u)'
  <2>1. /\ Cursor(tx'[u]) /\ PlaceOK(tx'[u]) /\ DirtyInv(tx'[u])
        /\ tx'[u].cid \in Nat /\ tx'[u].base \in Nat /\ tx'[u].dirty \in BOOLEAN
        /\ tx'[u].snap \subseteq {Boot} \cup {w \in Txns : status[w] = "committed"}
        /\ tx'[u].pc # "over" => status[u] = "running"
    BY <1>2, Zenon DEF CursorOK
  <2> QED
    BY <2>1, TxnInvAfter, Zenon
<1>4. StatusInv'
  BY <1>1 DEF StatusInv
<1> QED
  BY <1>2, <1>3, <1>4

\* The end of a transaction.
LEMMA EndKeeps ==
    ASSUME IInv, NEW t \in Txns, status[t] = "running", NEW s \in {"committed", "aborted"},
           status' = [status EXCEPT ![t] = s], tx' = [tx EXCEPT ![t].pc = "over"],
           UNCHANGED <<heap, next_id, version>>
    PROVE  IInv'
<1>1. /\ StatusInv /\ HeapInv /\ OneLive /\ status'[t] = s
      /\ \A u \in Txns : TxnInv(u) /\ (u # t => status'[u] = status[u])
  BY DEF IInv, StatusInv
<1>2. PICK y : y = [tx[t] EXCEPT !.pc = "over"]
  OBVIOUS
<1>3. tx' = [tx EXCEPT ![t] = y]
  BY <1>1, <1>2 DEF StatusInv
<1>4. /\ Cursor(y) /\ y.pc = "over" /\ y.cid = tx[t].cid /\ y.base = tx[t].base
      /\ y.dirty = tx[t].dirty /\ y.snap = tx[t].snap
  <2>1. Cursor(tx[t])
    BY <1>1 DEF TxnInv, CursorOK
  <2> QED
    BY <1>2, <2>1 DEF Cursor
<1>5. {u \in Txns : status[u] = "committed"} \subseteq {u \in Txns : status'[u] = "committed"}
  BY <1>1
<1>6. ASSUME NEW u \in Txns PROVE TxnInv(u)'
  <2>1. CASE u = t
    <3>1. tx'[u] = y
      BY <1>1, <1>3, <2>1 DEF StatusInv
    <3>2. PlaceOK(y) /\ DirtyInv(y)
      BY <1>4 DEF PlaceOK, DirtyInv
    <3>3. /\ y.cid \in Nat /\ y.base \in Nat /\ y.dirty \in BOOLEAN
          /\ y.snap \subseteq {Boot} \cup {w \in Txns : status[w] = "committed"}
      BY <1>1, <1>4 DEF TxnInv, CursorOK
    <3>4. y.snap \subseteq {Boot} \cup {w \in Txns : status'[w] = "committed"}
      BY <1>5, <3>3
    <3> QED
      BY <1>4, <3>1, <3>2, <3>3, <3>4, TxnInvAfter, Zenon
  <2>2. CASE u # t
    <3>1. tx'[u] = tx[u] /\ status'[u] = status[u] /\ CursorOK(u, tx[u])
      BY <1>1, <1>3, <2>2 DEF StatusInv, TxnInv
    <3>2. tx[u].snap \subseteq {Boot} \cup {w \in Txns : status'[w] = "committed"}
      BY <1>5, <3>1 DEF CursorOK
    <3>3. /\ Cursor(tx[u]) /\ PlaceOK(tx[u]) /\ DirtyInv(tx[u])
          /\ tx[u].cid \in Nat /\ tx[u].base \in Nat /\ tx[u].dirty \in BOOLEAN
          /\ tx[u].pc # "over" => status[u] = "running"
      BY <3>1, Zenon DEF CursorOK
    <3> QED
      BY <3>1, <3>2, <3>3, TxnInvAfter, Zenon
  <2> QED
    BY <2>1, <2>2
<1>7. StatusInv'
  BY <1>1, <1>3 DEF StatusInv
<1>8. HeapInv'
  BY <1>1 DEF HeapInv, Lists, VersionOK, Version
<1>9. OneLive'
  <2>1. \A V \in SUBSET Txns : Outcome(V)' => Outcome(V)
    BY <1>1 DEF Outcome
  <2> QED
    BY <1>1, <2>1 DEF OneLive, LiveIn
<1> QED
  BY <1>6, <1>7, <1>8, <1>9 DEF IInv

\* An error, and whatever else rolls a transaction back.
LEMMA FailKeeps ==
    ASSUME IInv, NEW t \in Txns, tx[t].pc # "over", Fail(t)
    PROVE  IInv'
<1>1. status[t] = "running"
  BY DEF IInv, TxnInv, CursorOK
<1> QED
  BY <1>1, EndKeeps DEF Fail

-----------------------------------------------------------------------------
(* The actions.                                                              *)

\* What a running statement says of its cursor.
LEMMA CursorIs ==
    ASSUME IInv, NEW t \in Txns
    PROVE  CursorOK(t, tx[t]) /\ HeapInv /\ OneLive /\ StatusInv /\ \A u \in Txns : TxnInv(u)
BY DEF IInv, TxnInv

\* No more rows: what a query that ends with CREATE or SET has changed is counted,
\* what MERGE and DELETE have changed is counted at their end.
LEMMA NoMoreRowsKeeps ==
    ASSUME IInv, NEW t \in Txns, NoMoreRows(t)
    PROVE  IInv'
<1>1. PICK x : x = tx[t]
  OBVIOUS
<1>2. CursorOK(t, x) /\ x.pc = "last" /\ version \in Nat
  BY <1>1, CursorIs DEF NoMoreRows, HeapInv
<1>3. PICK d \in BOOLEAN : d = (x.dirty /\ ~Counts(x))
  OBVIOUS
<1>4. PICK y : y = [x EXCEPT !.pc = "end", !.dirty = d]
  OBVIOUS
<1>5. PICK z : z = IF IsTerminal(x) /\ Clause(x).op \in {"create", "set"}
                   THEN CommandCounterIncrement(y) ELSE y
  OBVIOUS
<1>6. Cursor(x) /\ x.cid \in Nat
  BY <1>2 DEF CursorOK
<1>7. tx' = [tx EXCEPT ![t] = z]
  <2>1. [x EXCEPT !.pc = "end", !.dirty = @ /\ ~Counts(x)] = y
    BY <1>3, <1>4, <1>6 DEF Cursor
  <2> QED
    BY <1>1, <1>5, <2>1 DEF NoMoreRows
<1>8. /\ Cursor(y) /\ y.pc = "end" /\ y.k = x.k /\ y.stmt = x.stmt /\ y.snap = x.snap
      /\ y.cid = x.cid /\ y.base = x.base /\ y.mutated = x.mutated /\ y.dirty = d
  BY <1>4, <1>6 DEF Cursor
<1>9. /\ Cursor(z) /\ z.pc = "end" /\ z.k = x.k /\ z.stmt = x.stmt /\ z.snap = x.snap
      /\ z.cid \in Nat /\ z.base = x.base /\ z.mutated = x.mutated /\ z.dirty = d
  <2>1. PICK w : w = CommandCounterIncrement(y)
    OBVIOUS
  <2>2. /\ Cursor(w) /\ w.pc = y.pc /\ w.k = y.k /\ w.stmt = y.stmt /\ w.snap = y.snap
        /\ w.cid \in Nat /\ w.base = y.base /\ w.mutated = y.mutated /\ w.dirty = y.dirty
    BY <1>6, <1>8, <2>1, IncrementedCursor
  <2> QED
    BY <1>5, <1>6, <1>8, <2>1, <2>2
<1>10. PlaceOK(z)
  BY <1>2, <1>9 DEF CursorOK, PlaceOK, Clauses
<1>11. DirtyInv(z)
  <2> SUFFICES ASSUME z.dirty PROVE \E k \in z.mutated : WillCount(z, k)
    BY <1>9 DEF DirtyInv
  <2>1. x.dirty /\ ~Counts(x)
    BY <1>3, <1>9
  <2>2. PICK k \in x.mutated : WillCount(x, k)
    BY <1>2, <2>1 DEF CursorOK, DirtyInv
  <2>3. x.k = Len(Clauses(x)) /\ Len(Clauses(x)) \in Nat
    BY <1>2 DEF CursorOK, PlaceOK, IsQuery, List, Clauses
  <2>4. CASE Clauses(x)[k].op \in {"merge", "delete"}
    <3>1. k \in 1 .. Len(Clauses(x)) /\ k <= x.k
      BY <2>2, <2>3 DEF WillCount
    <3>2. WillCount(z, k)
      BY <1>9, <2>4, <3>1 DEF WillCount, Clauses
    <3> QED
      BY <1>9, <2>2, <3>2
  <2>5. CASE Clauses(x)[k].op \in {"create", "set"} /\ k = Len(Clauses(x)) /\ x.stmt.terminal
    <3>1. IsTerminal(x) /\ k = x.k /\ Clause(x).op \in {"create", "set"}
      BY <2>3, <2>5 DEF IsTerminal, Clause, Clauses
    <3>2. Counts(x)
      BY <1>2, <2>2, <3>1 DEF Counts
    <3> QED
      BY <2>1, <3>2
  <2> QED
    BY <1>2, <2>2, <2>4, <2>5 DEF WillCount
<1>12. CursorOK(t, z)
  BY <1>2, <1>9, <1>10, <1>11 DEF CursorOK
<1>13. heap' = heap /\ next_id' = next_id /\ status' = status /\ version' \in Nat
  BY <1>2 DEF NoMoreRows
<1>14. HeapInv' /\ OneLive'
  BY <1>13, CursorIs, HeapStays
<1>15. StatusInv' /\ \A u \in Txns : TxnInv(u)'
  BY <1>7, <1>12, <1>13, CursorIs, CursorStep
<1> QED
  BY <1>14, <1>15 DEF IInv

\* The end of a clause counts what MERGE or DELETE have changed in it; what is left
\* was changed by a clause before it, and after the first one nothing is left.
LEMMA EndClauseKeeps ==
    ASSUME IInv, NEW t \in Txns, EndClause(t)
    PROVE  IInv'
<1>1. PICK x : x = tx[t]
  OBVIOUS
<1>2. CursorOK(t, x) /\ x.pc = "end" /\ version \in Nat
  BY <1>1, CursorIs DEF EndClause, HeapInv
<1>3. PICK d \in BOOLEAN : d = (x.dirty /\ ~Counts(x))
  OBVIOUS
<1>4. PICK y : y = [x EXCEPT !.dirty = d]
  OBVIOUS
<1>5. PICK z : z = IF Clause(x).op \in {"create", "merge"} THEN CommandCounterIncrement(y) ELSE y
  OBVIOUS
<1>6. Cursor(x) /\ x.cid \in Nat /\ Clauses(x)[x.k] = Clause(x)
  BY <1>2 DEF CursorOK, Clause, Clauses
<1>7. PICK w : w = CommandCounterIncrement(z)
  OBVIOUS
<1>8. /\ tx' = [tx EXCEPT ![t] = IF x.k > 1 THEN [z EXCEPT !.k = @ - 1] ELSE [w EXCEPT !.pc = "ready"]]
      /\ heap' = heap /\ next_id' = next_id /\ status' = status /\ version' \in Nat
  <2>1. [x EXCEPT !.dirty = @ /\ ~Counts(x)] = y
    BY <1>3, <1>4, <1>6 DEF Cursor
  <2>2. tx' = [tx EXCEPT ![t] = IF x.k > 1 THEN [z EXCEPT !.k = @ - 1] ELSE [w EXCEPT !.pc = "ready"]]
    BY <1>1, <1>5, <1>7, <2>1, ZenonT(60) DEF EndClause
  <2>3. heap' = heap /\ next_id' = next_id /\ status' = status /\ version' \in Nat
    BY <1>2 DEF EndClause
  <2> QED
    BY <2>2, <2>3
<1>9. /\ Cursor(y) /\ y.pc = "end" /\ y.k = x.k /\ y.stmt = x.stmt /\ y.snap = x.snap
      /\ y.cid = x.cid /\ y.base = x.base /\ y.mutated = x.mutated /\ y.dirty = d
  BY <1>2, <1>4, <1>6 DEF Cursor
<1>10. /\ Cursor(z) /\ z.pc = "end" /\ z.k = x.k /\ z.stmt = x.stmt /\ z.snap = x.snap
       /\ z.cid \in Nat /\ z.base = x.base /\ z.mutated = x.mutated /\ z.dirty = d
  <2>1. PICK v : v = CommandCounterIncrement(y)
    OBVIOUS
  <2>2. /\ Cursor(v) /\ v.pc = y.pc /\ v.k = y.k /\ v.stmt = y.stmt /\ v.snap = y.snap
        /\ v.cid \in Nat /\ v.base = y.base /\ v.mutated = y.mutated /\ v.dirty = y.dirty
    BY <1>6, <1>9, <2>1, IncrementedCursor
  <2> QED
    BY <1>5, <1>6, <1>9, <2>1, <2>2
<1>11. /\ Cursor(w) /\ w.pc = z.pc /\ w.k = z.k /\ w.stmt = z.stmt /\ w.snap = z.snap
       /\ w.cid \in Nat /\ w.base = z.base /\ w.mutated = z.mutated /\ w.dirty = z.dirty
  BY <1>7, <1>10, IncrementedCursor
<1>12. PICK n \in Nat : n = Len(Clauses(x)) /\ x.k \in 1 .. n
  BY <1>2 DEF CursorOK, PlaceOK, IsQuery, List, Clauses
\* A change that is left is one of an earlier clause.
<1>13. ASSUME d PROVE \E k \in x.mutated : WillCount(x, k) /\ k < x.k /\ k \in 1 .. n
  <2>1. x.dirty /\ ~Counts(x)
    BY <1>3, <1>13
  <2>2. PICK k \in x.mutated : WillCount(x, k)
    BY <1>2, <2>1 DEF CursorOK, DirtyInv
  <2>3. Clauses(x)[k].op \in {"merge", "delete"} /\ k <= x.k /\ k \in 1 .. n
    BY <1>2, <1>12, <2>2 DEF WillCount
  <2>4. k # x.k
    BY <1>2, <1>6, <2>1, <2>2, <2>3 DEF Counts
  <2> QED
    BY <1>12, <2>2, <2>3, <2>4
<1>14. CASE x.k > 1
  <2>1. PICK l \in 1 .. n : l = x.k - 1
    BY <1>12, <1>14
  <2>2. PICK v : v = [z EXCEPT !.k = l]
    OBVIOUS
  <2>3. /\ Cursor(v) /\ v.pc = "end" /\ v.k = l /\ v.stmt = x.stmt /\ v.snap = x.snap
        /\ v.cid \in Nat /\ v.base = x.base /\ v.mutated = x.mutated /\ v.dirty = d
    BY <1>10, <2>2 DEF Cursor
  <2>4. tx' = [tx EXCEPT ![t] = v]
    <3>1. [z EXCEPT !.k = @ - 1] = v
      BY <1>10, <2>1, <2>2 DEF Cursor
    <3> QED
      BY <1>8, <1>14, <3>1
  <2>5. PlaceOK(v)
    BY <1>2, <1>12, <2>3 DEF CursorOK, PlaceOK, Clauses
  <2>6. DirtyInv(v)
    <3> SUFFICES ASSUME d PROVE \E k \in v.mutated : WillCount(v, k)
      BY <2>3 DEF DirtyInv
    <3>1. PICK k \in x.mutated : WillCount(x, k) /\ k < x.k /\ k \in 1 .. n
      BY <1>13
    <3>2. k <= l
      BY <1>12, <2>1, <3>1
    <3>3. Clauses(x)[k].op \in {"merge", "delete"}
      BY <1>2, <3>1 DEF WillCount
    <3>4. WillCount(v, k)
      BY <1>12, <2>3, <3>1, <3>2, <3>3 DEF WillCount, Clauses
    <3> QED
      BY <2>3, <3>1, <3>4
  <2>7. CursorOK(t, v)
    BY <1>2, <2>3, <2>5, <2>6 DEF CursorOK
  <2>8. HeapInv' /\ OneLive'
    BY <1>8, CursorIs, HeapStays
  <2>9. StatusInv' /\ \A u \in Txns : TxnInv(u)'
    BY <1>8, <2>4, <2>7, CursorIs, CursorStep
  <2> QED
    BY <2>8, <2>9 DEF IInv
<1>15. CASE ~(x.k > 1)
  <2>1. PICK v : v = [w EXCEPT !.pc = "ready"]
    OBVIOUS
  <2>2. tx' = [tx EXCEPT ![t] = v]
    BY <1>8, <1>15, <2>1
  <2>3. /\ Cursor(v) /\ v.pc = "ready" /\ v.snap = x.snap
        /\ v.cid \in Nat /\ v.base = x.base /\ v.dirty = d
    BY <1>10, <1>11, <2>1 DEF Cursor
  <2>4. ~d
    BY <1>12, <1>13, <1>15
  <2>5. PlaceOK(v) /\ DirtyInv(v)
    BY <2>3, <2>4 DEF PlaceOK, DirtyInv
  <2>6. CursorOK(t, v)
    BY <1>2, <2>3, <2>5 DEF CursorOK
  <2>7. HeapInv' /\ OneLive'
    BY <1>8, CursorIs, HeapStays
  <2>8. StatusInv' /\ \A u \in Txns : TxnInv(u)'
    BY <1>8, <2>2, <2>6, CursorIs, CursorStep
  <2> QED
    BY <2>7, <2>8 DEF IInv
<1> QED
  BY <1>14, <1>15

\* What a path or an edge of CREATE and MERGE is written as.
LEMMA NewPathIs ==
    ASSUME HeapInv, NEW t \in Txns, NEW from, NEW val, NEW c \in Nat, NEW pat,
           NEW new, new = NewPath(t, from, val, c, pat)
    PROVE  \E m \in Nat : /\ Lists(new, m) /\ Len(new) = m
                          /\ \A j \in 1 .. m : NewVersion(new[j], t, next_id + j - 1)
<1>1. PICK a \in Nat : a = next_id
  BY DEF HeapInv
<1>2. PICK v : v = Row(a, <<>>, val, t, c, tx[t].snap \cup {t}, pat)
  OBVIOUS
<1>3. PICK e : e = NewEdge(t, a + 1, from, a, c)
  OBVIOUS
<1>4. NewVersion(v, t, a) /\ NewVersion(e, t, a + 1)
  BY <1>2, <1>3 DEF NewVersion, Version, Row, NewEdge
<1>5. CASE from = None
  <2>1. new = <<v>>
    BY <1>1, <1>2, <1>5 DEF NewPath
  <2>2. Lists(new, 1) /\ Len(new) = 1 /\ new[1] = v
    BY <2>1 DEF Lists
  <2>3. \A j \in 1 .. 1 : j = 1 /\ a + j - 1 = a
    OBVIOUS
  <2>4. \A j \in 1 .. 1 : NewVersion(new[j], t, a + j - 1)
    BY <1>4, <2>2, <2>3
  <2> QED
    BY <1>1, <2>2, <2>4
<1>6. CASE from # None
  <2>1. new = Append(<<v>>, e)
    BY <1>1, <1>2, <1>3, <1>6 DEF NewPath
  <2>2. PICK f : f = <<v>>
    OBVIOUS
  <2>3. Lists(new, 2) /\ Len(new) = 2 /\ new[1] = v /\ new[2] = e
    <3>1. Lists(f, 1) /\ f[1] = v
      BY <2>2 DEF Lists
    <3>2. new = AndThen(f, e)
      BY <2>1, <2>2 DEF AndThen
    <3>3. /\ Lists(AndThen(f, e), 1 + 1) /\ AndThen(f, e)[1 + 1] = e
          /\ \A i \in 1 .. 1 : AndThen(f, e)[i] = f[i]
      BY <3>1, AppendIs
    <3>4. 1 + 1 = 2 /\ 1 \in 1 .. 1
      OBVIOUS
    <3>5. Lists(new, 2) /\ new[1] = v /\ new[2] = e
      BY <3>1, <3>2, <3>3, <3>4
    <3> QED
      BY <3>5, ListIs
  <2>4. \A j \in 1 .. 2 : (j = 1 /\ a + j - 1 = a) \/ (j = 2 /\ a + j - 1 = a + 1)
    OBVIOUS
  <2>5. \A j \in 1 .. 2 : NewVersion(new[j], t, a + j - 1)
    BY <1>4, <2>3, <2>4
  <2> QED
    BY <1>1, <2>3, <2>5
<1> QED
  BY <1>5, <1>6

\* The same of an edge between two variables.
LEMMA NewEdgeIs ==
    ASSUME HeapInv, NEW t \in Txns, NEW from, NEW to, NEW c \in Nat,
           NEW new, new = <<NewEdge(t, next_id, from, to, c)>>
    PROVE  \E m \in Nat : /\ Lists(new, m) /\ Len(new) = m
                          /\ \A j \in 1 .. m : NewVersion(new[j], t, next_id + j - 1)
<1>1. PICK a \in Nat : a = next_id
  BY DEF HeapInv
<1>2. PICK e : e = NewEdge(t, a, from, to, c)
  OBVIOUS
<1>3. NewVersion(e, t, a)
  BY <1>2 DEF NewVersion, Version, Row, NewEdge
<1>4. new = <<e>>
  BY <1>1, <1>2
<1>5. Lists(new, 1) /\ Len(new) = 1 /\ new[1] = e
  BY <1>4 DEF Lists
<1>6. \A j \in 1 .. 1 : j = 1 /\ a + j - 1 = a
  OBVIOUS
<1>7. \A j \in 1 .. 1 : NewVersion(new[j], t, a + j - 1)
  BY <1>3, <1>5, <1>6
<1> QED
  BY <1>1, <1>5, <1>7

\* A row of the statement changes, and no other.
OneRow(f, i, g) == \E v : g = [f EXCEPT ![i] = v]

\* Then there are as many of them.
LEMMA RowsStay ==
    ASSUME NEW f, Len(f) \in Nat, Lists(f, Len(f)), NEW i, NEW g, OneRow(f, i, g)
    PROVE  Len(g) \in Nat /\ Lists(g, Len(g)) /\ Len(g) = Len(f)
<1>1. PICK n \in Nat : n = Len(f)
  OBVIOUS
<1>2. Lists(f, n)
  BY <1>1
<1>3. Lists(g, n)
  BY <1>2 DEF Lists, OneRow
<1>4. Len(g) = n
  BY <1>3, ListIs
<1> QED
  BY <1>1, <1>3, <1>4

\* One path of CREATE.
LEMMA ExecCreateKeeps ==
    ASSUME IInv, NEW t \in Txns, ExecCreate(t)
    PROVE  IInv'
<1>1. PICK x : x = tx[t]
  OBVIOUS
<1>2. /\ CursorOK(t, x) /\ x.pc = "row" /\ Clause(x).op = "create"
      /\ HeapInv /\ OneLive /\ StatusInv /\ version \in Nat
  BY <1>1, CursorIs, Zenon DEF ExecCreate, HeapInv
<1>3. AtRow(t, x) /\ Cursor(x) /\ x.cid \in Nat
  BY <1>2, AtRowIs DEF AtRow
<1>4. CASE Fail(t)
  BY <1>1, <1>2, <1>4, FailKeeps
<1>5. CASE ~Fail(t)
  <2>1. PICK new : new = IF Clause(x).to # None
               THEN <<NewEdge(t, next_id, CurrentRow(x)[Clause(x).from], CurrentRow(x)[Clause(x).to], x.cid)>>
               ELSE NewPath(t, IF Clause(x).from = None THEN None ELSE CurrentRow(x)[Clause(x).from],
                            Clause(x).val, x.cid, None)
    OBVIOUS
  <2>2. PICK m \in Nat : /\ Lists(new, m) /\ Len(new) = m
                         /\ \A j \in 1 .. m : NewVersion(new[j], t, next_id + j - 1)
    BY <1>2, <1>3, <2>1, NewPathIs, NewEdgeIs, Zenon
  <2>3. PICK rows : rows = [x.rows EXCEPT ![x.r] =
                               [x.rows[x.r] EXCEPT !.m = IF Clause(x).to # None THEN @ ELSE next_id]]
    OBVIOUS
  <2>4. PICK y : y = [x EXCEPT !.used = TRUE, !.dirty = TRUE, !.mutated = x.mutated \cup {x.k},
                               !.rows = rows]
    OBVIOUS
  <2>5. PICK z : z = [y EXCEPT !.dirty = FALSE, !.mutated = y.mutated \ {x.k}]
    OBVIOUS
  <2>6. PICK w : w = CommandCounterIncrement(z)
    OBVIOUS
  <2>7. /\ heap' = heap \o new /\ next_id' = next_id + m /\ version' \in Nat /\ status' = status
        /\ \/ IsTerminal(x) /\ tx' = [tx EXCEPT ![t] = AfterClause(y)]
           \/ tx' = [tx EXCEPT ![t] = AfterClause(w)]
    <3>1. y = [x EXCEPT !.used = TRUE, !.dirty = TRUE, !.mutated = @ \cup {x.k},
                        !.rows[x.r].m = IF Clause(x).to # None THEN @ ELSE next_id]
      BY <1>3, <2>3, <2>4 DEF Cursor
    <3>2. z = [y EXCEPT !.dirty = FALSE, !.mutated = @ \ {x.k}]
      BY <2>5
    <3>3. heap' = heap \o new /\ next_id' = next_id + Len(new) /\ status' = status
      BY <1>1, <1>5, <2>1, Zenon DEF ExecCreate
    <3>4. version' \in Nat
      <4>1. version' = version \/ version' = version + 1
        BY <1>5, Zenon DEF ExecCreate
      <4> QED
        BY <1>2, <4>1
    <3>5. \/ IsTerminal(x) /\ tx' = [tx EXCEPT ![t] = AfterClause(y)]
          \/ tx' = [tx EXCEPT ![t] = AfterClause(w)]
      BY <1>1, <1>5, <2>6, <3>1, <3>2, Zenon DEF ExecCreate
    <3> QED
      BY <2>2, <3>3, <3>4, <3>5
  <2>8. HeapInv' /\ OneLive'
    BY <1>2, <2>2, <2>7, HeapGrows
  <2>9. Len(rows) \in Nat /\ Lists(rows, Len(rows)) /\ x.r \in 1 .. Len(rows)
    <3>1. OneRow(x.rows, x.r, rows)
      BY <2>3 DEF OneRow
    <3>2. Len(rows) \in Nat /\ Lists(rows, Len(rows)) /\ Len(rows) = Len(x.rows)
      BY <1>3, <3>1, RowsStay DEF AtRow
    <3> QED
      BY <1>3, <3>2 DEF AtRow
  <2>10. /\ Cursor(y) /\ y.dirty = TRUE /\ x.k \in y.mutated /\ y.rows = rows /\ y.stmt = x.stmt /\ y.k = x.k
         /\ y.r = x.r /\ y.snap = x.snap /\ y.base = x.base /\ y.cid = x.cid
    BY <1>3, <2>4 DEF Cursor
  <2>11. AtRow(t, y)
    BY <1>3, <2>9, <2>10, RowKeeps
  <2>12. CASE IsTerminal(x) /\ tx' = [tx EXCEPT ![t] = AfterClause(y)]
    <3>1. IsTerminal(y)
      BY <2>10, <2>12 DEF IsTerminal, Clauses
    <3>2. Settled(y)
      BY <2>10, <2>11, <3>1, ChangeSettles
    <3>3. CursorOK(t, AfterClause(y))
      BY <2>11, <3>2, AfterKeeps
    <3>4. StatusInv' /\ \A u \in Txns : TxnInv(u)'
      BY <2>7, <2>12, <3>3, CursorIs, CursorStep
    <3> QED
      BY <2>8, <3>4 DEF IInv
  <2>13. CASE tx' = [tx EXCEPT ![t] = AfterClause(w)]
    <3>1. /\ Cursor(z) /\ z.dirty = FALSE /\ z.rows = rows /\ z.stmt = x.stmt /\ z.k = x.k
          /\ z.r = x.r /\ z.snap = x.snap /\ z.base = x.base /\ z.cid = x.cid
      BY <2>5, <2>10 DEF Cursor
    <3>2. AtRow(t, z)
      BY <1>3, <2>9, <3>1, RowKeeps
    <3>3. Settled(z)
      BY <3>1 DEF Settled
    <3>4. AtRow(t, w) /\ Settled(w)
      BY <2>6, <3>2, <3>3, IncrementKeeps
    <3>5. CursorOK(t, AfterClause(w))
      BY <3>4, AfterKeeps
    <3>6. StatusInv' /\ \A u \in Txns : TxnInv(u)'
      BY <2>7, <2>13, <3>5, CursorIs, CursorStep
    <3> QED
      BY <2>8, <3>6 DEF IInv
  <2> QED
    BY <2>7, <2>12, <2>13
<1> QED
  BY <1>4, <1>5

\* From MERGE to its ON MATCH SET or ON CREATE SET, or past it.
LEMMA ThenSetKeeps ==
    ASSUME NEW t, NEW x, AtRow(t, x), Settled(x), Clause(x).op = "merge", NEW value
    PROVE  CursorOK(t, ThenSet(x, value))
<1>1. CASE value = None
  BY <1>1, AfterKeeps DEF ThenSet
<1>2. CASE value # None
  <2>1. PICK y : y = [x EXCEPT !.pc = "set", !.onset = value, !.i = 1, !.lidx = 0]
    OBVIOUS
  <2>2. Cursor(x)
    BY DEF AtRow
  <2>3. /\ Cursor(y) /\ y.pc = "set" /\ y.stmt = x.stmt /\ y.k = x.k /\ y.rows = x.rows /\ y.r = x.r
        /\ y.snap = x.snap /\ y.base = x.base /\ y.cid = x.cid /\ y.dirty = x.dirty /\ y.mutated = x.mutated
    BY <2>1, <2>2 DEF Cursor
  <2>4. Clause(y).op = "merge" /\ Clauses(y) = Clauses(x)
    BY <2>3 DEF Clause, Clauses
  <2>5. PlaceOK(y)
    BY <2>3, <2>4 DEF AtRow, PlaceOK
  <2>6. \A k : Sure(x, k) => WillCount(y, k)
    BY <2>3 DEF Sure, WillCount, Clauses
  <2>7. DirtyInv(y)
    BY <2>3, <2>6 DEF Settled, DirtyInv
  <2>8. CursorOK(t, y)
    BY <2>3, <2>5, <2>7 DEF AtRow, CursorOK
  <2> QED
    BY <1>2, <2>1, <2>8 DEF ThenSet
<1> QED
  BY <1>1, <1>2

\* MERGE makes a path, or finds it among those it has made.
LEMMA MergeMissingKeeps ==
    ASSUME IInv, NEW t \in Txns, MergeMissing(t)
    PROVE  IInv'
<1>1. PICK x : x = tx[t]
  OBVIOUS
<1>2. /\ CursorOK(t, x) /\ x.pc = "row" /\ Clause(x).op = "merge"
      /\ HeapInv /\ OneLive /\ StatusInv /\ version \in Nat
  BY <1>1, CursorIs, Zenon DEF MergeMissing, HeapInv
<1>3. AtRow(t, x) /\ Cursor(x) /\ x.cid \in Nat /\ x.base \in Nat
  BY <1>2, AtRowIs DEF AtRow
<1>4. Settled(x)
  BY <1>2, SettledIs
<1>5. CASE Fail(t)
  BY <1>1, <1>2, <1>5, FailKeeps
<1>6. ASSUME NEW m
      PROVE  \E rows : /\ rows = [x.rows EXCEPT ![x.r] = [x.rows[x.r] EXCEPT !.m = m]]
                       /\ Len(rows) \in Nat /\ Lists(rows, Len(rows)) /\ x.r \in 1 .. Len(rows)
  <2>1. PICK rows : rows = [x.rows EXCEPT ![x.r] = [x.rows[x.r] EXCEPT !.m = m]]
    OBVIOUS
  <2>2. OneRow(x.rows, x.r, rows)
    BY <2>1 DEF OneRow
  <2>3. Len(rows) \in Nat /\ Lists(rows, Len(rows)) /\ Len(rows) = Len(x.rows)
    BY <1>3, <2>2, RowsStay DEF AtRow
  <2>4. x.r \in 1 .. Len(rows)
    BY <1>3, <2>3 DEF AtRow
  <2> QED
    BY <2>1, <2>3, <2>4
<1>7. ASSUME NEW p \in Duplicates(x), heap' = heap, next_id' = next_id, UNCHANGED <<version, status>>,
             tx' = [tx EXCEPT ![t] = ThenSet([x EXCEPT !.rows[x.r].m = p.id], Clause(x).on_match)]
      PROVE  IInv'
  <2>1. PICK rows : /\ rows = [x.rows EXCEPT ![x.r] = [x.rows[x.r] EXCEPT !.m = p.id]]
                    /\ Len(rows) \in Nat /\ Lists(rows, Len(rows)) /\ x.r \in 1 .. Len(rows)
    BY <1>6
  <2>2. PICK y : y = [x EXCEPT !.rows = rows]
    OBVIOUS
  <2>3. y = [x EXCEPT !.rows[x.r].m = p.id]
    BY <1>3, <2>1, <2>2 DEF Cursor
  <2>4. /\ Cursor(y) /\ y.dirty = x.dirty /\ y.mutated = x.mutated /\ y.rows = rows /\ y.stmt = x.stmt /\ y.k = x.k
        /\ y.r = x.r /\ y.snap = x.snap /\ y.base = x.base /\ y.cid = x.cid
    BY <1>3, <2>2 DEF Cursor
  <2>5. AtRow(t, y)
    <3>1. y.dirty \in BOOLEAN
      BY <1>3, <2>4 DEF AtRow
    <3> QED
      BY <1>3, <2>1, <2>4, <3>1, RowKeeps
  <2>6. Settled(y) /\ Clause(y).op = "merge"
    BY <1>2, <1>4, <2>4 DEF Settled, Sure, Clause, Clauses
  <2>7. CursorOK(t, ThenSet(y, Clause(x).on_match))
    BY <2>5, <2>6, ThenSetKeeps
  <2>8. HeapInv' /\ OneLive'
    BY <1>2, <1>7, HeapStays
  <2>9. tx' = [tx EXCEPT ![t] = ThenSet(y, Clause(x).on_match)] /\ status' = status
    BY <1>7, <2>3
  <2>10. StatusInv' /\ \A u \in Txns : TxnInv(u)'
    BY <2>7, <2>9, CursorIs, CursorStep
  <2> QED
    BY <2>8, <2>10 DEF IInv
<1>8. CASE ~Fail(t) /\ ~(UNCHANGED <<heap, next_id>>)
  <2>1. PICK new : new = NewPath(t, PathKey(x)[2], Clause(x).val, x.base, <<PathKey(x)[2], Clause(x).val>>)
    OBVIOUS
  <2>2. PICK m \in Nat : /\ Lists(new, m) /\ Len(new) = m
                         /\ \A j \in 1 .. m : NewVersion(new[j], t, next_id + j - 1)
    BY <1>2, <1>3, <2>1, NewPathIs
  <2>3. PICK rows : /\ rows = [x.rows EXCEPT ![x.r] = [x.rows[x.r] EXCEPT !.m = next_id]]
                    /\ Len(rows) \in Nat /\ Lists(rows, Len(rows)) /\ x.r \in 1 .. Len(rows)
    BY <1>6
  <2>4. PICK y : y = [x EXCEPT !.rows = rows, !.dirty = TRUE, !.mutated = x.mutated \cup {x.k},
                               !.created = x.created \cup {[key |-> PathKey(x), id |-> next_id]}]
    OBVIOUS
  <2>5. PICK z : z = [y EXCEPT !.used = TRUE]
    OBVIOUS
  <2>6. PICK w : w = IF x.base = x.cid THEN CommandCounterIncrement(z) ELSE y
    OBVIOUS
  <2>7. /\ heap' = heap \o new /\ next_id' = next_id + m /\ version' \in Nat /\ status' = status
        /\ tx' = [tx EXCEPT ![t] = ThenSet(w, Clause(x).on_create)]
    <3>1. y = [x EXCEPT !.rows[x.r].m = next_id, !.dirty = TRUE, !.mutated = @ \cup {x.k},
                        !.created = @ \cup {[key |-> PathKey(x), id |-> next_id]}]
      BY <1>3, <2>3, <2>4 DEF Cursor
    <3>2. heap' = heap \o new /\ next_id' = next_id + Len(new)
      BY <1>1, <1>8, <2>1, Zenon DEF MergeMissing
    <3>3. status' = status /\ version' \in Nat
      BY <1>2, <1>8, Zenon DEF MergeMissing
    <3>4. tx' = [tx EXCEPT ![t] = ThenSet(w, Clause(x).on_create)]
      BY <1>1, <1>8, <2>5, <2>6, <3>1, Zenon DEF MergeMissing
    <3> QED
      BY <2>2, <3>2, <3>3, <3>4
  <2>8. HeapInv' /\ OneLive'
    BY <1>2, <2>2, <2>7, HeapGrows
  <2>9. /\ Cursor(y) /\ y.dirty = TRUE /\ x.k \in y.mutated /\ y.rows = rows /\ y.stmt = x.stmt /\ y.k = x.k
        /\ y.r = x.r /\ y.snap = x.snap /\ y.base = x.base /\ y.cid = x.cid
    BY <1>3, <2>4 DEF Cursor
  <2>10. /\ Cursor(z) /\ z.dirty = TRUE /\ x.k \in z.mutated /\ z.rows = rows /\ z.stmt = x.stmt /\ z.k = x.k
         /\ z.r = x.r /\ z.snap = x.snap /\ z.base = x.base /\ z.cid = x.cid
    BY <2>5, <2>9 DEF Cursor
  <2>11. AtRow(t, y) /\ AtRow(t, z)
    BY <1>3, <2>3, <2>9, <2>10, RowKeeps
  <2>12. Clause(y).op = "merge" /\ Clause(z).op = "merge"
    BY <1>2, <2>9, <2>10 DEF Clause, Clauses
  <2>13. Settled(y) /\ Settled(z)
    BY <2>9, <2>10, <2>11, <2>12, ChangeSettles
  <2>14. AtRow(t, w) /\ Settled(w)
    BY <2>6, <2>11, <2>13, IncrementKeeps
  <2>15. Clause(w).op = "merge"
    <3>1. PICK v : v = CommandCounterIncrement(z)
      OBVIOUS
    <3>2. v.stmt = z.stmt /\ v.k = z.k
      BY <1>3, <2>10, <3>1, IncrementedCursor
    <3> QED
      BY <2>6, <2>12, <3>1, <3>2 DEF Clause, Clauses
  <2>16. CursorOK(t, ThenSet(w, Clause(x).on_create))
    BY <2>14, <2>15, ThenSetKeeps
  <2>17. StatusInv' /\ \A u \in Txns : TxnInv(u)'
    BY <2>7, <2>16, CursorIs, CursorStep
  <2> QED
    BY <2>8, <2>17 DEF IInv
<1>9. CASE ~Fail(t) /\ UNCHANGED <<heap, next_id>>
  <2>1. PICK new : new = NewPath(t, PathKey(x)[2], Clause(x).val, x.base, <<PathKey(x)[2], Clause(x).val>>)
    OBVIOUS
  <2>2. \/ \E p \in Duplicates(x) :
              /\ heap' = heap /\ next_id' = next_id /\ UNCHANGED <<version, status>>
              /\ tx' = [tx EXCEPT ![t] = ThenSet([x EXCEPT !.rows[x.r].m = p.id], Clause(x).on_match)]
        \/ next_id' = next_id + Len(new)
    BY <1>1, <1>9, <2>1, Zenon DEF MergeMissing
  <2>3. Len(new) \in Nat \ {0}
    <3>1. PICK from : from = PathKey(x)[2]
      OBVIOUS
    <3>2. PICK v, e : new = IF from = None THEN <<v>> ELSE Append(<<v>>, e)
      BY <2>1, <3>1 DEF NewPath
    <3> QED
      BY <3>2
  <2>4. next_id \in Nat
    BY <1>2 DEF HeapInv
  <2>5. next_id' # next_id + Len(new)
    BY <1>9, <2>3, <2>4
  <2> QED
    BY <1>7, <2>2, <2>5
<1> QED
  BY <1>5, <1>8, <1>9

\* The end of an item of SET: the next item, or the end of the row, which counts
\* what the row has changed unless the end of the query does.
LEMMA FinishItemKeeps ==
    ASSUME NEW t, NEW x, CursorOK(t, x), InSet(x), FinishItem(t, x), version \in Nat
    PROVE  /\ \E z : CursorOK(t, z) /\ tx' = [tx EXCEPT ![t] = z]
           /\ version' \in Nat /\ next_id' = next_id /\ status' = status
<1>1. version' \in Nat /\ next_id' = next_id /\ status' = status
  BY DEF FinishItem
<1>2. PICK z : /\ tx' = [tx EXCEPT ![t] = z]
               /\ z = CASE x.i < Len(Items(x)) -> [x EXCEPT !.i = @ + 1]
                        [] EndsRow(x) ->
                               AfterClause(CommandCounterIncrement(
                                   [x EXCEPT !.mutated = @ \ {x.k},
                                             !.dirty = @ /\ x.k \notin x.mutated]))
                        [] OTHER -> AfterClause([x EXCEPT !.onset = None])
  BY DEF FinishItem
<1>3. AtRow(t, x) /\ Cursor(x) /\ x.pc \in {"row", "set"}
  BY AtRowIs DEF InSet, AtRow
<1>4. x.pc = "set" => Clause(x).op = "merge"
  BY DEF CursorOK, PlaceOK
<1>5. CASE x.i < Len(Items(x))
  <2>1. PICK i : i = x.i + 1
    OBVIOUS
  <2>2. z = [x EXCEPT !.i = i]
    <3>1. z = [x EXCEPT !.i = @ + 1]
      <4>1. ~EndsRow(x)
        <5>1. CASE Clause(x).op = "set"
          <6>1. x.i \in 1 .. Len(Clause(x).items) /\ Items(x) = Clause(x).items
            BY <1>3, <1>4, <5>1 DEF CursorOK, PlaceOK, Items
          <6>2. Len(Clause(x).items) \in Nat
            BY <1>3, <5>1 DEF AtRow, IsQuery, Clause, Clauses, List
          <6>3. x.i # Len(Items(x))
            BY <1>5, <6>1, <6>2
          <6> QED
            BY <6>3 DEF EndsRow
        <5> QED
          BY <5>1 DEF EndsRow
      <4> QED
        BY <1>2, <1>5, <4>1
    <3> QED
      BY <2>1, <3>1
  <2>3. /\ Cursor(z) /\ z.i = i /\ z.pc = x.pc /\ z.dirty = x.dirty /\ z.mutated = x.mutated /\ z.rows = x.rows
        /\ z.stmt = x.stmt /\ z.k = x.k /\ z.r = x.r /\ z.snap = x.snap /\ z.base = x.base /\ z.cid = x.cid
    BY <1>3, <2>2 DEF Cursor
  <2>4. Clauses(z) = Clauses(x) /\ Clause(z) = Clause(x)
    BY <2>3 DEF Clauses, Clause
  <2>5. x.pc = "row" => i \in 1 .. Len(Clause(x).items)
    <3> SUFFICES ASSUME x.pc = "row" PROVE i \in 1 .. Len(Clause(x).items)
      OBVIOUS
    <3>1. Clause(x).op = "set"
      BY DEF InSet
    <3>2. x.i \in 1 .. Len(Clause(x).items) /\ Items(x) = Clause(x).items
      BY <3>1 DEF CursorOK, PlaceOK, Items
    <3>3. Len(Clause(x).items) \in Nat
      BY <1>3, <3>1 DEF AtRow, IsQuery, Clause, Clauses, List
    <3> QED
      BY <1>5, <2>1, <3>2, <3>3
  <2>6. PlaceOK(z)
    BY <2>3, <2>4, <2>5 DEF CursorOK, PlaceOK
  <2>7. DirtyInv(z)
    BY <2>3, <2>4 DEF CursorOK, DirtyInv, WillCount
  <2>8. CursorOK(t, z)
    BY <2>3, <2>6, <2>7 DEF CursorOK
  <2> QED
    BY <1>1, <1>2, <2>8
<1>6. CASE ~(x.i < Len(Items(x))) /\ EndsRow(x)
  <2>1. PICK d \in BOOLEAN : d = (x.dirty /\ x.k \notin x.mutated)
    OBVIOUS
  <2>2. PICK y : y = [x EXCEPT !.mutated = x.mutated \ {x.k}, !.dirty = d]
    OBVIOUS
  <2>3. z = AfterClause(CommandCounterIncrement(y))
    <3>1. y = [x EXCEPT !.mutated = @ \ {x.k}, !.dirty = @ /\ x.k \notin x.mutated]
      BY <1>3, <2>1, <2>2 DEF Cursor
    <3> QED
      BY <1>2, <1>6, <3>1
  <2>4. /\ Cursor(y) /\ y.dirty = d /\ y.mutated = x.mutated \ {x.k} /\ y.rows = x.rows
        /\ y.stmt = x.stmt /\ y.k = x.k /\ y.r = x.r /\ y.snap = x.snap /\ y.base = x.base /\ y.cid = x.cid
    BY <1>3, <2>2 DEF Cursor
  <2>5. AtRow(t, y)
    <3>1. /\ Len(y.rows) \in Nat /\ Lists(y.rows, Len(y.rows)) /\ x.r \in 1 .. Len(y.rows)
          /\ y.cid \in Nat /\ y.dirty \in BOOLEAN
      BY <1>3, <2>1, <2>4 DEF AtRow
    <3> QED
      BY <1>3, <2>4, <3>1, RowKeeps
  <2>6. Settled(y)
    <3> SUFFICES ASSUME d PROVE \E k \in y.mutated : Sure(y, k)
      BY <2>4 DEF Settled
    <3>1. x.dirty /\ x.k \notin x.mutated
      BY <2>1
    <3>2. PICK k \in x.mutated : Sure(x, k)
      BY <1>3, <3>1, SettledIs DEF Settled
    <3>3. k \in y.mutated /\ Sure(y, k)
      BY <2>4, <3>1, <3>2 DEF Sure, Clauses
    <3> QED
      BY <3>3
  <2>7. CursorOK(t, z)
    BY <2>3, <2>5, <2>6, IncrementKeeps, AfterKeeps
  <2> QED
    BY <1>1, <1>2, <2>7
<1>7. CASE ~(x.i < Len(Items(x))) /\ ~EndsRow(x)
  <2>1. PICK y : y = [x EXCEPT !.onset = None]
    OBVIOUS
  <2>2. z = AfterClause(y)
    BY <1>2, <1>7, <2>1
  <2>3. /\ Cursor(y) /\ y.dirty = x.dirty /\ y.mutated = x.mutated /\ y.rows = x.rows
        /\ y.stmt = x.stmt /\ y.k = x.k /\ y.r = x.r /\ y.snap = x.snap /\ y.base = x.base /\ y.cid = x.cid
    BY <1>3, <2>1 DEF Cursor
  <2>4. AtRow(t, y)
    <3>1. /\ Len(y.rows) \in Nat /\ Lists(y.rows, Len(y.rows)) /\ x.r \in 1 .. Len(y.rows)
          /\ y.cid \in Nat /\ y.dirty \in BOOLEAN
      BY <1>3, <2>3 DEF AtRow
    <3> QED
      BY <1>3, <2>3, <3>1, RowKeeps
  <2>5. Clause(x).op = "set" => IsTerminal(x)
    <3> SUFFICES ASSUME Clause(x).op = "set" PROVE IsTerminal(x)
      OBVIOUS
    <3>1. x.i \in 1 .. Len(Clause(x).items) /\ Items(x) = Clause(x).items
      BY <1>3, <1>4 DEF CursorOK, PlaceOK, Items
    <3>2. Len(Clause(x).items) \in Nat
      BY <1>3 DEF AtRow, IsQuery, Clause, Clauses, List
    <3>3. x.i = Len(Items(x))
      BY <1>7, <3>1, <3>2
    <3> QED
      BY <1>7, <3>3 DEF EndsRow
  <2>6. Settled(x)
    BY <1>3, <2>5, SettledIs
  <2>7. Settled(y)
    BY <2>3, <2>6 DEF Settled, Sure, Clauses
  <2>8. CursorOK(t, z)
    BY <2>2, <2>4, <2>7, AfterKeeps
  <2> QED
    BY <1>1, <1>2, <2>8
<1> QED
  BY <1>5, <1>6, <1>7

\* A cursor that stays where it is and may have changed something in a SET.
LEMMA SetKeeps ==
    ASSUME NEW t, NEW x, CursorOK(t, x), InSet(x), NEW y, Cursor(y),
           y.pc = x.pc, y.stmt = x.stmt, y.rows = x.rows, y.r = x.r, y.k = x.k, y.i = x.i,
           y.snap = x.snap, y.cid = x.cid, y.base = x.base, y.dirty \in BOOLEAN,
           (y.dirty = x.dirty /\ y.mutated = x.mutated) \/ x.k \in y.mutated
    PROVE  CursorOK(t, y) /\ InSet(y)
<1>1. Clauses(y) = Clauses(x) /\ Clause(y) = Clause(x)
  BY DEF Clauses, Clause
<1>2. PlaceOK(y) /\ InSet(y)
  BY <1>1 DEF CursorOK, PlaceOK, InSet
<1>3. DirtyInv(y)
  <2>1. CASE y.dirty = x.dirty /\ y.mutated = x.mutated
    BY <1>1, <2>1 DEF CursorOK, DirtyInv, WillCount
  <2>2. CASE x.k \in y.mutated
    <3>1. x.pc \in {"row", "set"} /\ x.k \in 1 .. Len(Clauses(x))
      BY DEF InSet, CursorOK, PlaceOK
    <3>2. CASE x.pc = "row"
      <4>1. Clauses(x)[x.k].op = "set"
        BY <3>2 DEF InSet, Clause, Clauses
      <4>2. WillCount(y, x.k)
        BY <1>1, <3>1, <3>2, <4>1 DEF WillCount
      <4> QED
        BY <2>2, <3>2, <4>2 DEF DirtyInv
    <3>3. CASE x.pc = "set"
      <4>1. Clauses(x)[x.k].op = "merge"
        BY <3>3 DEF CursorOK, PlaceOK, Clause, Clauses
      <4>2. WillCount(y, x.k)
        BY <1>1, <3>1, <3>3, <4>1 DEF WillCount
      <4> QED
        BY <2>2, <3>3, <4>2 DEF DirtyInv
    <3> QED
      BY <3>1, <3>2, <3>3
  <2> QED
    BY <2>1, <2>2
<1> QED
  BY <1>2, <1>3 DEF CursorOK

\* What a statement is about to lock, it sees.
LEMMA WantedIs ==
    ASSUME NEW t \in Txns, NEW i \in Wanted(t)
    PROVE  i \in DOMAIN heap /\ VisibleAt(t, tx[t].cid, heap[i]) /\ tx[t].pc \in {"row", "set", "end"}
BY DEF Wanted, Find, Connected, InSet, InDelete, InDetach

\* One item of SET.
LEMMA ApplyItemKeeps ==
    ASSUME IInv, NEW t \in Txns, ApplyItem(t)
    PROVE  IInv'
<1>1. PICK x : x = tx[t]
  OBVIOUS
<1>2. /\ CursorOK(t, x) /\ InSet(x) /\ Cursor(x) /\ x.dirty \in BOOLEAN /\ x.cid \in Nat
      /\ x.pc \in {"row", "set"} /\ status[t] = "running"
      /\ HeapInv /\ OneLive /\ StatusInv /\ version \in Nat /\ \A u \in Txns : TxnInv(u)
  <2>1. CursorOK(t, x) /\ InSet(x) /\ HeapInv /\ OneLive /\ StatusInv /\ \A u \in Txns : TxnInv(u)
    BY <1>1, CursorIs, Zenon DEF ApplyItem
  <2>2. x.pc \in {"row", "set"}
    BY <2>1 DEF InSet
  <2> QED
    BY <2>1, <2>2 DEF CursorOK, HeapInv
<1>3. PICK y : y = [x EXCEPT !.lidx = @ + 1,
                       !.asked = IF Target(x) \in Protected \/ Find(t, x.cid, Target(x)) = {} THEN @
                                 ELSE {a \in @ : a.id # Target(x)}
                                      \cup {[id |-> Target(x), val |-> Items(x)[x.i].val]}]
  BY Zenon
<1>4. PICK l, a : y = [x EXCEPT !.lidx = l, !.asked = a]
  BY <1>3, Zenon
<1>5. PICK z : z = [y EXCEPT !.used = TRUE, !.dirty = TRUE, !.mutated = y.mutated \cup {x.k}]
  OBVIOUS
<1>6. PICK w : w = [y EXCEPT !.used = TRUE]
  OBVIOUS
<1>7. /\ Cursor(y) /\ y.pc = x.pc /\ y.stmt = x.stmt /\ y.rows = x.rows /\ y.r = x.r /\ y.k = x.k /\ y.i = x.i
      /\ y.snap = x.snap /\ y.cid = x.cid /\ y.base = x.base /\ y.dirty = x.dirty /\ y.mutated = x.mutated
  BY <1>2, <1>4 DEF Cursor
<1>8. /\ Cursor(z) /\ z.pc = x.pc /\ z.stmt = x.stmt /\ z.rows = x.rows /\ z.r = x.r /\ z.k = x.k /\ z.i = x.i
      /\ z.snap = x.snap /\ z.cid = x.cid /\ z.base = x.base /\ z.dirty = TRUE /\ x.k \in z.mutated
  BY <1>5, <1>7, Zenon DEF Cursor
<1>9. /\ Cursor(w) /\ w.pc = x.pc /\ w.stmt = x.stmt /\ w.rows = x.rows /\ w.r = x.r /\ w.k = x.k /\ w.i = x.i
      /\ w.snap = x.snap /\ w.cid = x.cid /\ w.base = x.base /\ w.dirty = x.dirty /\ w.mutated = x.mutated
  BY <1>6, <1>7, Zenon DEF Cursor
<1>10. CursorOK(t, y) /\ InSet(y)
  BY <1>2, <1>7, SetKeeps
<1>11. CursorOK(t, z) /\ InSet(z)
  BY <1>2, <1>8, SetKeeps, Zenon
<1>12. CursorOK(t, w) /\ InSet(w)
  BY <1>2, <1>9, SetKeeps
<1>13. \/ Fail(t)
       \/ heap' = heap /\ (FinishItem(t, x) \/ FinishItem(t, y) \/ FinishItem(t, w))
       \/ \E i \in Wanted(t) : /\ Writable(t, i) /\ FinishItem(t, z)
                               /\ heap' = Updated(t, i, Items(x)[x.i].val)
  <2>1. z = [y EXCEPT !.used = TRUE, !.dirty = TRUE, !.mutated = @ \cup {x.k}]
    BY <1>5
  <2> QED
    BY <1>1, <1>3, <1>6, <2>1, Zenon DEF ApplyItem
<1>14. CASE Fail(t)
  BY <1>1, <1>2, <1>14, FailKeeps
<1>15. ASSUME NEW v, CursorOK(t, v), InSet(v), FinishItem(t, v), heap' = heap
       PROVE  IInv'
  <2>1. PICK u : CursorOK(t, u) /\ tx' = [tx EXCEPT ![t] = u]
    BY <1>2, <1>15, FinishItemKeeps
  <2>2. version' \in Nat /\ next_id' = next_id /\ status' = status
    BY <1>2, <1>15, FinishItemKeeps
  <2>3. HeapInv' /\ OneLive'
    BY <1>2, <1>15, <2>2, HeapStays
  <2>4. StatusInv' /\ \A b \in Txns : TxnInv(b)'
    BY <1>2, <2>1, <2>2, CursorStep
  <2> QED
    BY <2>3, <2>4 DEF IInv
<1>16. ASSUME NEW i \in Wanted(t), Writable(t, i), FinishItem(t, z), heap' = Updated(t, i, Items(x)[x.i].val)
       PROVE  IInv'
  <2>1. PICK u : CursorOK(t, u) /\ tx' = [tx EXCEPT ![t] = u]
    BY <1>2, <1>11, <1>16, FinishItemKeeps
  <2>2. version' \in Nat /\ next_id' = next_id /\ status' = status
    BY <1>2, <1>11, <1>16, FinishItemKeeps
  <2>3. i \in DOMAIN heap /\ VisibleAt(t, tx[t].cid, heap[i])
    BY WantedIs
  <2>4. heap[i].xmin = t \/ heap[i].xmin = Boot \/ (heap[i].xmin \in Txns /\ status[heap[i].xmin] = "committed")
    BY <1>2, <2>3, SeenIs
  <2>5. PICK val : val = Items(x)[x.i].val
    OBVIOUS
  <2>6. heap' = Updated(t, i, val) /\ tx[t].cid \in Nat
    BY <1>1, <1>2, <1>16, <2>5
  <2>7. HeapInv' /\ OneLive'
    BY <1>2, <1>16, <2>2, <2>3, <2>4, <2>6, HeapUpdated
  <2>8. StatusInv' /\ \A b \in Txns : TxnInv(b)'
    BY <1>2, <2>1, <2>2, CursorStep
  <2> QED
    BY <2>7, <2>8 DEF IInv
<1> QED
  BY <1>2, <1>10, <1>12, <1>13, <1>14, <1>15, <1>16

\* The cursor after a row was deleted: a change of its clause, in a new command.
LEMMA DeletedIs ==
    ASSUME NEW x, Cursor(x), x.cid \in Nat, NEW z, z = DeletedBy(x)
    PROVE  /\ Cursor(z) /\ z.pc = x.pc /\ z.stmt = x.stmt /\ z.rows = x.rows /\ z.r = x.r /\ z.k = x.k
           /\ z.snap = x.snap /\ z.base = x.base /\ z.cid \in Nat /\ z.dirty = TRUE /\ x.k \in z.mutated
<1>1. PICK y : y = [x EXCEPT !.used = TRUE, !.dirty = TRUE, !.mutated = x.mutated \cup {x.k}]
  OBVIOUS
<1>2. PICK w : w = CommandCounterIncrement(y)
  OBVIOUS
<1>3. z = [w EXCEPT !.curcid = w.cid]
  <2>1. y = [x EXCEPT !.used = TRUE, !.dirty = TRUE, !.mutated = @ \cup {x.k}]
    BY <1>1
  <2> QED
    BY <1>2, <2>1 DEF DeletedBy
<1>4. /\ Cursor(y) /\ y.pc = x.pc /\ y.stmt = x.stmt /\ y.rows = x.rows /\ y.r = x.r /\ y.k = x.k
      /\ y.snap = x.snap /\ y.base = x.base /\ y.cid = x.cid /\ y.dirty = TRUE /\ x.k \in y.mutated
  BY <1>1 DEF Cursor
<1>5. /\ Cursor(w) /\ w.pc = x.pc /\ w.stmt = x.stmt /\ w.rows = x.rows /\ w.r = x.r /\ w.k = x.k
      /\ w.snap = x.snap /\ w.base = x.base /\ w.cid \in Nat /\ w.dirty = TRUE /\ x.k \in w.mutated
  BY <1>2, <1>4, IncrementedCursor
<1> QED
  BY <1>3, <1>5 DEF Cursor

\* The next item of DELETE, or the next clause or row.
LEMMA DeleteNext ==
    ASSUME NEW t, NEW x, AtRow(t, x), Settled(x), x.pc = "row", Clause(x).op = "delete",
           NEW z, z = NextItem(x)
    PROVE  CursorOK(t, z)
<1>1. CASE x.i < Len(Clause(x).items)
  <2>1. PICK i : i = x.i + 1
    OBVIOUS
  <2>2. z = [x EXCEPT !.i = i]
    BY <1>1, <2>1 DEF NextItem
  <2>3. Cursor(x)
    BY DEF AtRow
  <2>4. /\ Cursor(z) /\ z.pc = "row" /\ z.stmt = x.stmt /\ z.rows = x.rows /\ z.r = x.r /\ z.k = x.k
        /\ z.snap = x.snap /\ z.base = x.base /\ z.cid = x.cid /\ z.dirty = x.dirty /\ z.mutated = x.mutated
    BY <2>2, <2>3 DEF Cursor
  <2>5. Clause(z) = Clause(x) /\ Clauses(z) = Clauses(x)
    BY <2>4 DEF Clause, Clauses
  <2>6. PlaceOK(z)
    BY <2>4, <2>5 DEF AtRow, PlaceOK
  <2>7. \A k : Sure(x, k) => WillCount(z, k)
    BY <2>4 DEF Sure, WillCount, Clauses
  <2>8. DirtyInv(z)
    BY <2>4, <2>7 DEF Settled, DirtyInv
  <2> QED
    BY <2>4, <2>6, <2>8 DEF AtRow, CursorOK
<1>2. CASE ~(x.i < Len(Clause(x).items))
  BY <1>2, AfterKeeps DEF NextItem
<1> QED
  BY <1>1, <1>2

\* One item of DELETE.
LEMMA DeleteItemKeeps ==
    ASSUME IInv, NEW t \in Txns, DeleteItem(t)
    PROVE  IInv'
<1>1. PICK x : x = tx[t]
  OBVIOUS
<1>2. /\ CursorOK(t, x) /\ x.pc = "row" /\ Clause(x).op = "delete"
      /\ HeapInv /\ OneLive /\ StatusInv /\ version \in Nat /\ \A u \in Txns : TxnInv(u)
  BY <1>1, CursorIs, Zenon DEF DeleteItem, InDelete, HeapInv
<1>3. AtRow(t, x) /\ Cursor(x) /\ x.cid \in Nat /\ Settled(x)
  BY <1>2, AtRowIs, SettledIs DEF AtRow
<1>4. CASE Fail(t)
  BY <1>1, <1>2, <1>4, FailKeeps
<1>5. PICK y : y = [x EXCEPT !.curcid = x.cid,
                             !.doomed = @ \cup (IF Wanted(t) = {} THEN {} ELSE {Target(x)})]
  OBVIOUS
<1>6. /\ Cursor(y) /\ y.pc = x.pc /\ y.stmt = x.stmt /\ y.rows = x.rows /\ y.r = x.r /\ y.k = x.k
      /\ y.snap = x.snap /\ y.base = x.base /\ y.cid = x.cid /\ y.dirty = x.dirty /\ y.mutated = x.mutated
  <2>1. PICK d : y = [x EXCEPT !.curcid = x.cid, !.doomed = d]
    BY <1>5, Zenon
  <2> QED
    BY <1>3, <2>1 DEF Cursor
<1>7. AtRow(t, y)
  <2>1. /\ Len(y.rows) \in Nat /\ Lists(y.rows, Len(y.rows)) /\ x.r \in 1 .. Len(y.rows)
        /\ y.cid \in Nat /\ y.dirty \in BOOLEAN
    BY <1>3, <1>6 DEF AtRow
  <2> QED
    BY <1>3, <1>6, <2>1, RowKeeps
<1>8. Settled(y) /\ Clause(y).op = "delete"
  BY <1>2, <1>3, <1>6 DEF Settled, Sure, Clause, Clauses
<1>9. \/ Fail(t)
      \/ heap' = heap /\ (tx' = [tx EXCEPT ![t] = NextItem(x)] \/ tx' = [tx EXCEPT ![t] = NextItem(y)])
      \/ \E i \in Wanted(t) : \E h : /\ Writable(t, i) /\ heap' = Ended(t, i, x.cid)
                                     /\ tx' = [tx EXCEPT ![t] = NextItem(DeletedBy([y EXCEPT !.htab = h]))]
  BY <1>1, <1>5, Zenon DEF DeleteItem
<1>10. (next_id' = next_id /\ status' = status /\ version' \in Nat) \/ Fail(t)
  BY <1>2, Zenon DEF DeleteItem
<1>11. CursorOK(t, NextItem(x)) /\ CursorOK(t, NextItem(y))
  BY <1>2, <1>3, <1>6, <1>7, <1>8, DeleteNext
<1>12. ASSUME NEW i \in Wanted(t), NEW h, Writable(t, i), heap' = Ended(t, i, x.cid),
              tx' = [tx EXCEPT ![t] = NextItem(DeletedBy([y EXCEPT !.htab = h]))], ~Fail(t)
       PROVE  IInv'
  <2>1. i \in DOMAIN heap
    BY WantedIs
  <2>2. HeapInv' /\ OneLive'
    BY <1>2, <1>3, <1>10, <1>12, <2>1, HeapEnds
  <2>3. PICK v : v = [y EXCEPT !.htab = h]
    OBVIOUS
  <2>4. /\ Cursor(v) /\ v.pc = x.pc /\ v.stmt = x.stmt /\ v.rows = x.rows /\ v.r = x.r /\ v.k = x.k
        /\ v.snap = x.snap /\ v.base = x.base /\ v.cid = x.cid
    BY <1>6, <2>3 DEF Cursor
  <2>5. PICK z : z = DeletedBy(v)
    OBVIOUS
  <2>6. /\ Cursor(z) /\ z.pc = x.pc /\ z.stmt = x.stmt /\ z.rows = x.rows /\ z.r = x.r /\ z.k = x.k
        /\ z.snap = x.snap /\ z.base = x.base /\ z.cid \in Nat /\ z.dirty = TRUE /\ z.k \in z.mutated
    <3>1. v.cid \in Nat
      BY <1>3, <2>4
    <3>2. /\ Cursor(z) /\ z.pc = v.pc /\ z.stmt = v.stmt /\ z.rows = v.rows /\ z.r = v.r /\ z.k = v.k
          /\ z.snap = v.snap /\ z.base = v.base /\ z.cid \in Nat /\ z.dirty = TRUE /\ v.k \in z.mutated
      BY <2>4, <2>5, <3>1, DeletedIs, ZenonT(60)
    <3> QED
      BY <2>4, <3>2
  <2>7. AtRow(t, z) /\ Clause(z).op = "delete"
    <3>1. /\ Len(z.rows) \in Nat /\ Lists(z.rows, Len(z.rows)) /\ x.r \in 1 .. Len(z.rows)
          /\ z.dirty \in BOOLEAN
      BY <1>3, <2>6 DEF AtRow
    <3>2. AtRow(t, z)
      BY <1>3, <2>6, <3>1, RowKeeps
    <3> QED
      BY <1>2, <2>6, <3>2 DEF Clause, Clauses
  <2>8. Settled(z)
    BY <2>6, <2>7, ChangeSettles
  <2>9. CursorOK(t, NextItem(z))
    BY <1>2, <2>6, <2>7, <2>8, DeleteNext
  <2>10. tx' = [tx EXCEPT ![t] = NextItem(z)]
    BY <1>12, <2>3, <2>5
  <2>11. StatusInv' /\ \A u \in Txns : TxnInv(u)'
    BY <1>2, <1>10, <1>12, <2>9, <2>10, CursorStep
  <2> QED
    BY <2>2, <2>11 DEF IInv
<1>13. ASSUME NEW v, CursorOK(t, v), heap' = heap, tx' = [tx EXCEPT ![t] = v], ~Fail(t)
       PROVE  IInv'
  <2>1. HeapInv' /\ OneLive'
    BY <1>2, <1>10, <1>13, HeapStays
  <2>2. StatusInv' /\ \A u \in Txns : TxnInv(u)'
    BY <1>2, <1>10, <1>13, CursorStep
  <2> QED
    BY <2>1, <2>2 DEF IInv
<1> QED
  BY <1>4, <1>9, <1>11, <1>12, <1>13

\* One edge that a deleted vertex leaves behind.
LEMMA DeleteConnectedKeeps ==
    ASSUME IInv, NEW t \in Txns, DeleteConnected(t)
    PROVE  IInv'
<1>1. PICK x : x = tx[t]
  OBVIOUS
<1>2. /\ CursorOK(t, x) /\ x.pc = "end" /\ Clause(x).op = "delete" /\ Cursor(x) /\ x.cid \in Nat
      /\ HeapInv /\ OneLive /\ StatusInv /\ version \in Nat /\ \A u \in Txns : TxnInv(u)
  <2>1. CursorOK(t, x) /\ HeapInv /\ OneLive /\ StatusInv /\ \A u \in Txns : TxnInv(u)
    BY <1>1, CursorIs
  <2>2. x.pc = "end" /\ Clause(x).op = "delete"
    BY <1>1 DEF DeleteConnected, InDetach
  <2> QED
    BY <2>1, <2>2 DEF CursorOK, HeapInv
<1>3. CASE Fail(t)
  BY <1>1, <1>2, <1>3, FailKeeps
<1>4. CASE ~Fail(t)
  <2>1. PICK y : y = [x EXCEPT !.curcid = x.cid]
    OBVIOUS
  <2>2. PICK z : z = DeletedBy(y)
    OBVIOUS
  <2>3. PICK i \in Connected(t) : /\ Writable(t, i) /\ heap' = Ended(t, i, x.cid)
                                  /\ tx' = [tx EXCEPT ![t] = z]
                                  /\ UNCHANGED <<next_id, version, status>>
    BY <1>1, <1>4, <2>1, <2>2 DEF DeleteConnected
  <2>4. i \in DOMAIN heap
    BY DEF Connected
  <2>5. HeapInv' /\ OneLive'
    BY <1>2, <2>3, <2>4, HeapEnds
  <2>6. /\ Cursor(y) /\ y.pc = x.pc /\ y.stmt = x.stmt /\ y.k = x.k
        /\ y.snap = x.snap /\ y.base = x.base /\ y.cid = x.cid
    BY <1>2, <2>1 DEF Cursor
  <2>7. /\ Cursor(z) /\ z.pc = x.pc /\ z.stmt = x.stmt /\ z.k = x.k
        /\ z.snap = x.snap /\ z.base = x.base /\ z.cid \in Nat /\ z.dirty = TRUE /\ x.k \in z.mutated
    <3>1. y.cid \in Nat
      BY <1>2, <2>6
    <3>2. /\ Cursor(z) /\ z.pc = y.pc /\ z.stmt = y.stmt /\ z.k = y.k
          /\ z.snap = y.snap /\ z.base = y.base /\ z.cid \in Nat /\ z.dirty = TRUE /\ y.k \in z.mutated
      BY <2>2, <2>6, <3>1, DeletedIs, Zenon
    <3> QED
      BY <2>6, <3>2
  <2>8. PlaceOK(z)
    BY <1>2, <2>7 DEF CursorOK, PlaceOK, Clauses
  <2>9. x.k \in 1 .. Len(Clauses(x)) /\ x.k \in Nat /\ Clauses(x)[x.k].op = "delete"
    BY <1>2 DEF CursorOK, PlaceOK, Clause, Clauses
  <2>10. WillCount(z, x.k)
    BY <1>2, <2>7, <2>9 DEF WillCount, Clauses
  <2>11. DirtyInv(z)
    BY <1>2, <2>7, <2>10 DEF DirtyInv
  <2>12. CursorOK(t, z)
    BY <1>2, <2>7, <2>8, <2>11 DEF CursorOK
  <2>13. StatusInv' /\ \A u \in Txns : TxnInv(u)'
    BY <1>2, <2>3, <2>12, CursorStep
  <2> QED
    BY <2>5, <2>13 DEF IInv
<1> QED
  BY <1>3, <1>4

-----------------------------------------------------------------------------
(* Rows.                                                                     *)

\* The numbers of a set in order are a sequence.
LEMMA InOrderIs ==
    ASSUME NEW n \in Nat, NEW S \in SUBSET (1 .. n)
    PROVE  \E m \in Nat : Lists(InOrder(S), m) /\ Len(InOrder(S)) = m /\ DOMAIN InOrder(S) = 1 .. m
<1>1. IsFiniteSet(1 .. n)
  BY FS_Interval
<1>2. IsFiniteSet(S)
  BY <1>1, FS_Subset
<1>3. PICK m \in Nat : m = Cardinality(S)
  BY <1>2, FS_CardinalityType
<1>4. PICK f : f = InOrder(S)
  OBVIOUS
<1>5. f = [j \in 1 .. m |-> CHOOSE i \in S : Cardinality({k \in S : k <= i}) = j]
  BY <1>3, <1>4 DEF InOrder
<1>6. Lists(f, m)
  BY <1>5 DEF Lists
<1>7. Len(f) = m /\ DOMAIN f = 1 .. m
  BY <1>6, ListIs
<1> QED
  BY <1>4, <1>6, <1>7

\* A sequence that is not empty has a first element.
LEMMA SomeRows ==
    ASSUME NEW n \in Nat, NEW f, Lists(f, n), f # <<>>
    PROVE  n > 0
<1>1. f \in Seq({f[i] : i \in 1 .. n}) /\ Len(f) = n
  BY ListIs
<1> QED
  BY <1>1

\* The rows f with those of h in the place of the row r.
Replaced(f, r, h) == SubSeq(f, 1, r - 1) \o h \o SubSeq(f, r + 1, Len(f))

\* A row is replaced by one row or more.
LEMMA RowsReplaced ==
    ASSUME NEW f, Len(f) \in Nat, Lists(f, Len(f)), NEW r \in 1 .. Len(f),
           NEW m \in Nat, m > 0, NEW h, Lists(h, m),
           NEW g, g = Replaced(f, r, h)
    PROVE  Len(g) \in Nat /\ Lists(g, Len(g)) /\ r \in 1 .. Len(g)
<1>1. PICK n \in Nat : n = Len(f) /\ r \in 1 .. n
  OBVIOUS
<1>2. PICK S : S = {f[i] : i \in 1 .. n} \cup {h[i] : i \in 1 .. m}
  OBVIOUS
<1>3. h \in Seq(S) /\ Len(h) = m
  <2>1. h \in Seq({h[i] : i \in 1 .. m}) /\ Len(h) = m
    BY ListIs
  <2> QED
    BY <1>2, <2>1
<1>4. PICK a : a = SubSeq(f, 1, r - 1)
  OBVIOUS
<1>5. PICK b : b = SubSeq(f, r + 1, n)
  OBVIOUS
<1>6. a \in Seq(S) /\ Len(a) = r - 1
  <2>1. PICK e \in Int : e = r - 1
    BY <1>1
  <2>2. \A i \in 1 .. e : f[i] \in S
    BY <1>1, <1>2, <2>1
  <2>3. SubSeq(f, 1, e) \in Seq(S) /\ Len(SubSeq(f, 1, e)) = IF 1 <= e THEN e - 1 + 1 ELSE 0
    BY <2>2, SubSeqProperties
  <2>4. (IF 1 <= e THEN e - 1 + 1 ELSE 0) = e
    BY <1>1, <2>1
  <2> QED
    BY <1>4, <2>1, <2>3, <2>4
<1>7. b \in Seq(S)
  <2>1. PICK e \in Int : e = r + 1
    BY <1>1
  <2>2. \A i \in e .. n : f[i] \in S
    BY <1>1, <1>2, <2>1
  <2>3. SubSeq(f, e, n) \in Seq(S)
    BY <2>2, SubSeqProperties
  <2> QED
    BY <1>5, <2>1, <2>3
<1>8. PICK c : c = a \o h
  OBVIOUS
<1>9. c \in Seq(S) /\ Len(c) = (r - 1) + m
  BY <1>3, <1>6, <1>8, ConcatProperties
<1>10. g = c \o b
  BY <1>1, <1>4, <1>5, <1>8 DEF Replaced
<1>11. g \in Seq(S) /\ Len(g) = Len(c) + Len(b) /\ Len(b) \in Nat
  <2>1. c \o b \in Seq(S) /\ Len(c \o b) = Len(c) + Len(b)
    BY <1>7, <1>9, ConcatProperties
  <2>2. Len(b) \in Nat
    BY <1>7
  <2> QED
    BY <1>10, <2>1, <2>2
<1>12. PICK d \in Nat, l \in Nat : d = Len(b) /\ l = Len(g) /\ l = (r - 1) + m + d
  BY <1>1, <1>9, <1>11
<1>13. r \in 1 .. l
  BY <1>1, <1>12
<1>14. g = [i \in 1 .. l |-> g[i]]
  BY <1>11, <1>12
<1> QED
  BY <1>12, <1>13, <1>14 DEF Lists

\* MERGE goes on with what its pattern matches.
LEMMA MergeFoundKeeps ==
    ASSUME IInv, NEW t \in Txns, MergeFound(t)
    PROVE  IInv'
<1>1. PICK x : x = tx[t]
  OBVIOUS
<1>2. /\ CursorOK(t, x) /\ x.pc = "row" /\ Clause(x).op = "merge"
      /\ HeapInv /\ OneLive /\ StatusInv /\ version \in Nat /\ \A u \in Txns : TxnInv(u)
  <2>1. CursorOK(t, x) /\ HeapInv /\ OneLive /\ StatusInv /\ \A u \in Txns : TxnInv(u)
    BY <1>1, CursorIs
  <2>2. x.pc = "row" /\ Clause(x).op = "merge"
    BY <1>1, Zenon DEF MergeFound
  <2> QED
    BY <2>1, <2>2 DEF HeapInv
<1>3. AtRow(t, x) /\ Cursor(x) /\ Settled(x)
  BY <1>2, AtRowIs, SettledIs DEF AtRow
<1>4. PICK row, only, M : row = CurrentRow(x) /\ only = (~x.stmt.match /\ Len(Clauses(x)) = 1) /\ M = Matches(t)
  OBVIOUS
<1>5. Len(M) \in Nat
  <2>1. PICK n \in Nat : DOMAIN heap = 1 .. n
    BY <1>2, HeapHas
  <2>2. PICK S \in SUBSET (DOMAIN heap) : M = InOrder(S)
    BY <1>4 DEF Matches
  <2> QED
    BY <2>1, <2>2, InOrderIs
<1>6. PICK l \in Nat : l = IF only THEN Min({1, Len(M)}) ELSE Len(M)
  <2>1. {1, Len(M)} \in SUBSET Nat /\ {1, Len(M)} # {}
    BY <1>5
  <2>2. PICK T : T = {1, Len(M)}
    OBVIOUS
  <2>3. Min(T) \in T
    BY <2>1, <2>2, MinIs
  <2>4. Min({1, Len(M)}) \in Nat
    BY <2>1, <2>2, <2>3
  <2> QED
    BY <1>5, <2>4
<1>7. PICK found : found = IF row.m # Null THEN <<row>>
                           ELSE [n \in 1 .. l |-> [row EXCEPT !.m = heap[M[n]].id]]
  OBVIOUS
<1>8. PICK y, u : /\ u = IF row.m = Null /\ x.k = StageEnd(x)
                          THEN x.r + Len(found) - 1 ELSE x.upto
                  /\ y = [x EXCEPT !.rows = Replaced(x.rows, x.r, found), !.upto = u]
  BY Zenon
<1>9. found # <<>> /\ tx' = [tx EXCEPT ![t] = ThenSet(y, Clause(x).on_match)]
  <2> DEFINE crow == CurrentRow(tx[t])
             whole == ~tx[t].stmt.match /\ Len(Clauses(tx[t])) = 1
             hits == IF crow.m # Null THEN <<crow>>
                     ELSE [n \in 1 .. (IF whole THEN Min({1, Len(Matches(t))}) ELSE Len(Matches(t))) |->
                              [crow EXCEPT !.m = heap[Matches(t)[n]].id]]
             g == SubSeq(tx[t].rows, 1, tx[t].r - 1) \o hits \o SubSeq(tx[t].rows, tx[t].r + 1, Len(tx[t].rows))
             w == IF crow.m = Null /\ tx[t].k = StageEnd(tx[t])
                  THEN tx[t].r + Len(hits) - 1 ELSE tx[t].upto
  <2>1. hits # <<>> /\ tx' = [tx EXCEPT ![t] = ThenSet([tx[t] EXCEPT !.rows = g, !.upto = w], Clause(tx[t]).on_match)]
    BY Zenon DEF MergeFound
  <2>2. hits = found
    BY <1>1, <1>4, <1>6, <1>7, Zenon
  <2>3. g = Replaced(x.rows, x.r, found) /\ w = u
    BY <1>1, <1>4, <1>8, <2>2, Zenon DEF Replaced
  <2> HIDE DEF g, w, hits
  <2> QED
    BY <1>1, <1>8, <2>1, <2>2, <2>3
<1>10. heap' = heap /\ next_id' = next_id /\ status' = status /\ version' \in Nat
  BY <1>2, Zenon DEF MergeFound
<1>11. PICK m \in Nat : Lists(found, m) /\ m > 0
  <2>1. CASE row.m # Null
    <3>1. found = <<row>>
      BY <1>7, <2>1
    <3>2. Lists(found, 1)
      BY <3>1 DEF Lists
    <3> QED
      BY <3>2
  <2>2. CASE row.m = Null
    <3>1. Lists(found, l)
      BY <1>7, <2>2 DEF Lists
    <3>2. l > 0
      BY <1>9, <3>1, SomeRows
    <3> QED
      BY <3>1, <3>2
  <2> QED
    BY <2>1, <2>2
<1>12. PICK rows : /\ rows = Replaced(x.rows, x.r, found)
                   /\ Len(rows) \in Nat /\ Lists(rows, Len(rows)) /\ x.r \in 1 .. Len(rows)
  <2>1. Len(x.rows) \in Nat /\ Lists(x.rows, Len(x.rows)) /\ x.r \in 1 .. Len(x.rows)
    BY <1>3 DEF AtRow
  <2>2. PICK rows : rows = Replaced(x.rows, x.r, found)
    OBVIOUS
  <2>3. Len(rows) \in Nat /\ Lists(rows, Len(rows)) /\ x.r \in 1 .. Len(rows)
    BY <1>11, <2>1, <2>2, RowsReplaced
  <2> QED
    BY <2>2, <2>3
<1>13. /\ Cursor(y) /\ y.dirty = x.dirty /\ y.mutated = x.mutated /\ y.rows = rows /\ y.stmt = x.stmt /\ y.k = x.k
       /\ y.r = x.r /\ y.snap = x.snap /\ y.base = x.base /\ y.cid = x.cid
  <2>1. y = [x EXCEPT !.rows = rows, !.upto = u]
    BY <1>8, <1>12
  <2>2. Cursor(y) /\ y.dirty = x.dirty /\ y.mutated = x.mutated /\ y.rows = rows
    BY <1>3, <2>1 DEF Cursor
  <2>3. y.stmt = x.stmt /\ y.k = x.k /\ y.r = x.r
    BY <1>3, <2>1 DEF Cursor
  <2>4. y.snap = x.snap /\ y.base = x.base /\ y.cid = x.cid
    BY <1>3, <2>1 DEF Cursor
  <2> QED
    BY <2>2, <2>3, <2>4
<1>14. AtRow(t, y)
  <2>1. y.dirty \in BOOLEAN /\ y.cid \in Nat
    BY <1>3, <1>13 DEF AtRow
  <2> QED
    BY <1>3, <1>12, <1>13, <2>1, RowKeeps
<1>15. Settled(y) /\ Clause(y).op = "merge"
  BY <1>2, <1>3, <1>13 DEF Settled, Sure, Clause, Clauses
<1>16. CursorOK(t, ThenSet(y, Clause(x).on_match))
  BY <1>14, <1>15, ThenSetKeeps
<1>17. HeapInv' /\ OneLive'
  BY <1>2, <1>10, HeapStays
<1>18. StatusInv' /\ \A v \in Txns : TxnInv(v)'
  BY <1>2, <1>9, <1>10, <1>16, CursorStep
<1> QED
  BY <1>17, <1>18 DEF IInv

\* The start of a statement.
LEMMA StartKeeps ==
    ASSUME IInv, NEW t \in Txns, NEW n \in DOMAIN Scripts[t], NEW s \in Scripts[t][n], Start(t, s)
    PROVE  IInv'
<1>1. PICK x : x = tx[t]
  OBVIOUS
<1>2. /\ CursorOK(t, x) /\ status[t] = "running" /\ IsQuery(s)
      /\ HeapInv /\ OneLive /\ StatusInv /\ version \in Nat /\ \A u \in Txns : TxnInv(u)
  <2>1. CursorOK(t, x) /\ HeapInv /\ OneLive /\ StatusInv /\ \A u \in Txns : TxnInv(u)
    BY <1>1, CursorIs
  <2>2. status[t] = "running"
    BY Zenon DEF Start
  <2>3. IsQuery(s)
    BY ScriptAssumption
  <2> QED
    BY <2>1, <2>2, <2>3 DEF HeapInv
<1>3. PICK snap : snap = {Boot} \cup {u \in Txns : status[u] = "committed"}
  OBVIOUS
<1>4. PICK c, d : c = x.count + 1 /\ d = x.cid + 1
  OBVIOUS
<1>5. PICK y : y = [NoStatement EXCEPT !.snap = snap, !.cid = x.cid, !.used = x.used,
                                 !.base = x.cid, !.count = c, !.curcid = d, !.stmt = s]
  OBVIOUS
<1>6. PICK k \in Nat : k = Len(s.clauses) /\ k > 0
  BY <1>2 DEF IsQuery, List
<1>7. \E S \in SUBSET (DOMAIN s.rows) : \E rows :
          /\ rows = [i \in DOMAIN InOrder(S) |-> s.rows[InOrder(S)[i]]]
          /\ tx' = [tx EXCEPT ![t] = IF rows = <<>> THEN [y EXCEPT !.pc = "last", !.k = k]
                                     ELSE [y EXCEPT !.pc = "row", !.rows = rows]]
  <2> DEFINE seen == {Boot} \cup {u \in Txns : status[u] = "committed"}
             first == [NoStatement EXCEPT !.snap = seen, !.cid = tx[t].cid, !.used = tx[t].used,
                                          !.base = tx[t].cid, !.count = tx[t].count + 1,
                                          !.curcid = tx[t].cid + 1, !.stmt = s]
             Bound(row) == \A w \in Vars : row[w] # Null =>
                               \E i \in DOMAIN heap :
                                   heap[i].id = row[w] /\ Sees(t, seen, tx[t].cid, heap[i])
             B == {i \in DOMAIN s.rows : Bound(s.rows[i])}
             found == [i \in DOMAIN InOrder(B) |-> s.rows[InOrder(B)[i]]]
  <2>1. tx' = [tx EXCEPT ![t] = IF found = <<>> THEN [first EXCEPT !.pc = "last", !.k = Len(s.clauses)]
                                ELSE [first EXCEPT !.pc = "row", !.rows = found]]
    BY Zenon DEF Start
  <2>2. y = first
    BY <1>1, <1>3, <1>4, <1>5, Zenon
  <2>3. B \in SUBSET (DOMAIN s.rows)
    BY Zenon
  <2> HIDE DEF seen, first, Bound, B
  <2>4. tx' = [tx EXCEPT ![t] = IF found = <<>> THEN [y EXCEPT !.pc = "last", !.k = k]
                                ELSE [y EXCEPT !.pc = "row", !.rows = found]]
    BY <1>6, <2>1, <2>2, Zenon
  <2> QED
    BY <2>3, <2>4, Zenon
<1>8. PICK S \in SUBSET (DOMAIN s.rows) : \E rows :
          /\ rows = [i \in DOMAIN InOrder(S) |-> s.rows[InOrder(S)[i]]]
          /\ tx' = [tx EXCEPT ![t] = IF rows = <<>> THEN [y EXCEPT !.pc = "last", !.k = k]
                                     ELSE [y EXCEPT !.pc = "row", !.rows = rows]]
  BY <1>7
<1>9. PICK rows :
          /\ rows = [i \in DOMAIN InOrder(S) |-> s.rows[InOrder(S)[i]]]
          /\ tx' = [tx EXCEPT ![t] = IF rows = <<>> THEN [y EXCEPT !.pc = "last", !.k = k]
                                     ELSE [y EXCEPT !.pc = "row", !.rows = rows]]
  BY <1>8
<1>10. heap' = heap /\ next_id' = next_id /\ status' = status /\ version' \in Nat
  BY <1>2, Zenon DEF Start
<1>11. /\ Cursor(y) /\ y.stmt = s /\ y.snap = snap /\ y.cid = x.cid /\ y.base = x.cid /\ y.dirty = FALSE
      /\ y.k = 1 /\ y.r = 1 /\ y.i = 1
  <2>1. y = [pc |-> "ready", stmt |-> s, rows |-> <<>>, r |-> 1, upto |-> 0, k |-> 1, i |-> 1,
             lidx |-> 0, snap |-> snap, cid |-> x.cid, used |-> x.used, curcid |-> d, base |-> x.cid,
             onset |-> None, htab |-> {}, created |-> {}, mutated |-> {},
             doomed |-> {}, asked |-> {}, dirty |-> FALSE, count |-> c]
    BY <1>5, Zenon DEF NoStatement
  <2> QED
    BY <2>1 DEF Cursor
<1>12. PICK z : z = IF rows = <<>> THEN [y EXCEPT !.pc = "last", !.k = k]
                    ELSE [y EXCEPT !.pc = "row", !.rows = rows]
  OBVIOUS
<1>13. CursorOK(t, z)
  <2>1. x.cid \in Nat
    BY <1>2 DEF CursorOK
  <2>2. CASE rows = <<>>
    <3>1. z = [y EXCEPT !.pc = "last", !.k = k]
      BY <1>12, <2>2
    <3>2. /\ Cursor(z) /\ z.stmt = s /\ z.snap = snap /\ z.cid = x.cid /\ z.base = x.cid /\ z.dirty = FALSE
          /\ z.k = k /\ z.pc = "last"
      BY <1>11, <3>1 DEF Cursor
    <3>3. PlaceOK(z)
      BY <1>2, <1>6, <3>2 DEF PlaceOK, Clauses
    <3>4. DirtyInv(z)
      BY <3>2 DEF DirtyInv
    <3> QED
      BY <1>2, <1>3, <2>1, <3>2, <3>3, <3>4 DEF CursorOK
  <2>3. CASE rows # <<>>
    <3>1. z = [y EXCEPT !.pc = "row", !.rows = rows]
      BY <1>12, <2>3
    <3>2. /\ Cursor(z) /\ z.stmt = s /\ z.snap = snap /\ z.cid = x.cid /\ z.base = x.cid /\ z.dirty = FALSE
          /\ z.k = 1 /\ z.r = 1 /\ z.i = 1 /\ z.pc = "row" /\ z.rows = rows
      BY <1>11, <3>1 DEF Cursor
    <3>3. PICK l \in Nat : DOMAIN s.rows = 1 .. l
      BY <1>2 DEF IsQuery, List
    <3>4. PICK m \in Nat : DOMAIN InOrder(S) = 1 .. m
      BY <3>3, InOrderIs
    <3>5. Lists(rows, m)
      BY <1>9, <3>4 DEF Lists
    <3>6. Len(rows) = m /\ m > 0
      BY <2>3, <3>5, ListIs, SomeRows
    <3>7. Clause(z).op = "set" => 1 \in 1 .. Len(Clause(z).items)
      <4>1. Clause(z) = s.clauses[1] /\ 1 \in DOMAIN s.clauses
        BY <1>2, <1>6, <3>2 DEF Clause, Clauses, IsQuery, List
      <4> QED
        BY <1>2, <4>1 DEF IsQuery, List
    <3>8. 1 \in 1 .. k /\ Clauses(z) = s.clauses
      BY <1>6, <3>2 DEF Clauses
    <3>9. PlaceOK(z)
      BY <1>2, <1>6, <3>2, <3>5, <3>6, <3>7, <3>8 DEF PlaceOK
    <3>10. DirtyInv(z)
      BY <3>2 DEF DirtyInv
    <3> QED
      BY <1>2, <1>3, <2>1, <3>2, <3>9, <3>10 DEF CursorOK
  <2> QED
    BY <2>2, <2>3
<1>14. HeapInv' /\ OneLive'
  BY <1>2, <1>10, HeapStays
<1>15. tx' = [tx EXCEPT ![t] = z]
  BY <1>12, <1>9
<1>16. StatusInv' /\ \A u \in Txns : TxnInv(u)'
  BY <1>2, <1>10, <1>13, <1>15, CursorStep
<1> QED
  BY <1>14, <1>16 DEF IInv

-----------------------------------------------------------------------------
(* The invariant.                                                            *)

\* Finitely many numbers have a bound.
LEMMA BoundIs ==
    ASSUME NEW n \in Nat, NEW f, \A i \in 1 .. n : f[i] \in Nat
    PROVE  \E b \in Nat : \A i \in 1 .. n : f[i] <= b
<1> DEFINE Bounded(m) == \E b \in Nat : \A i \in 1 .. n : i <= m => f[i] <= b
           P == {m \in Nat : ~Bounded(m)}
<1>1. CASE P = {}
  <2>1. Bounded(n)
    BY <1>1
  <2>2. \A i \in 1 .. n : i <= n
    OBVIOUS
  <2> QED
    BY <2>1, <2>2
<1>2. CASE P # {}
  <2>1. PICK m \in P : \A y \in P : m <= y
    <3>1. P \in SUBSET Nat
      OBVIOUS
    <3> HIDE DEF P
    <3> QED
      BY <1>2, <3>1, MinIs
  <2>2. m \in Nat /\ ~Bounded(m)
    BY <2>1
  <2>3. CASE m = 0
    <3>1. \A i \in 1 .. n : ~(i <= m)
      BY <2>3
    <3>2. Bounded(m)
      BY <3>1
    <3> QED
      BY <2>2, <3>2
  <2>4. CASE m # 0
    <3>1. m - 1 \in Nat /\ ~(m <= m - 1)
      BY <2>2, <2>4
    <3>2. Bounded(m - 1)
      BY <2>1, <3>1
    <3>3. PICK b \in Nat : \A i \in 1 .. n : i <= m - 1 => f[i] <= b
      BY <3>2
    <3>4. CASE m \in 1 .. n
      <4>1. PICK a \in Nat : a = f[m]
        BY <3>4
      <4>2. PICK c \in Nat : c >= a /\ c >= b
        <5>1. a + b \in Nat /\ a + b >= a /\ a + b >= b
          BY <3>3, <4>1
        <5> QED
          BY <5>1
      <4>3. ASSUME NEW i \in 1 .. n, i <= m PROVE f[i] <= c
        <5>1. CASE i = m
          BY <4>1, <4>2, <5>1
        <5>2. CASE i # m
          <6>1. i <= m - 1
            BY <2>2, <4>3, <5>2
          <6>2. PICK e \in Nat : e = f[i]
            OBVIOUS
          <6>3. e <= b
            BY <3>3, <6>1, <6>2
          <6>4. e <= c
            BY <3>3, <4>2, <6>2, <6>3
          <6> QED
            BY <6>2, <6>4
        <5> QED
          BY <5>1, <5>2
      <4>4. Bounded(m)
        BY <4>2, <4>3
      <4> QED
        BY <2>2, <4>4
    <3>5. CASE m \notin 1 .. n
      <4>1. \A i \in 1 .. n : i <= m => i <= m - 1
        BY <2>2, <3>5
      <4>2. Bounded(m)
        BY <3>3, <4>1
      <4> QED
        BY <2>2, <4>2
    <3> QED
      BY <3>4, <3>5
  <2> QED
    BY <2>3, <2>4
<1> QED
  BY <1>1, <1>2

\* The first state.
LEMMA InitIs ==
    ASSUME Init
    PROVE  IInv
<1>1. PICK n \in Nat : n = Len(Graph) /\ n > 0 /\ DOMAIN Graph = 1 .. n
  BY GraphAssumption, Zenon DEF List
<1>2. PICK b \in Nat : \A i \in 1 .. n : Graph[i].id <= b
  <2>1. PICK f : f = [i \in 1 .. n |-> Graph[i].id]
    OBVIOUS
  <2>2. \A i \in 1 .. n : f[i] \in Nat /\ f[i] = Graph[i].id
    BY <1>1, <2>1, GraphAssumption
  <2>3. \E b \in Nat : \A i \in 1 .. n : f[i] <= b
    BY <2>2, BoundIs
  <2> QED
    BY <2>2, <2>3
<1>3. PICK S : S = {Graph[i].id : i \in DOMAIN Graph}
  OBVIOUS
<1>4. S \in SUBSET (0 .. b) /\ S # {}
  <2>1. \A i \in 1 .. n : Graph[i].id \in 0 .. b
    BY <1>1, <1>2, GraphAssumption
  <2>2. 1 \in 1 .. n
    BY <1>1
  <2> QED
    BY <1>1, <1>3, <2>1, <2>2
<1>5. Max(S) \in S /\ \A y \in S : Max(S) >= y
  BY <1>2, <1>4, MaxIs
<1>6. PICK m \in Nat : m = Max(S) /\ next_id = m + 1
  <2>1. next_id = Max(S) + 1
    BY <1>3 DEF Init
  <2>2. Max(S) \in Nat
    <3>1. PICK a : a = Max(S) /\ a \in S
      BY <1>5
    <3>2. \A a0 \in S : a0 \in 0 .. b
      BY <1>4
    <3>3. a \in 0 .. b
      BY <3>1, <3>2
    <3>4. a \in Nat
      BY <1>2, <3>3
    <3> QED
      BY <3>1, <3>4
  <2> QED
    BY <2>1, <2>2
<1>7. \A i \in 1 .. n : Graph[i].id \in 1 .. next_id - 1
  <2> TAKE i \in 1 .. n
  <2>1. Graph[i].id \in Nat \ {0} /\ Graph[i].id \in S
    BY <1>1, <1>3, GraphAssumption
  <2>2. PICK d \in Nat : d = Graph[i].id /\ d # 0
    BY <2>1
  <2>3. d <= m
    BY <1>5, <1>6, <2>1, <2>2
  <2>4. d \in 1 .. next_id - 1
    BY <1>6, <2>2, <2>3
  <2> QED
    BY <2>2, <2>4
<1>8. Lists(heap, n) /\ DOMAIN heap = 1 .. n
  BY <1>1 DEF Init, Lists
<1>9. Len(heap) = n
  BY <1>8, ListIs
<1>10. \A i \in 1 .. n : heap[i] = Row(Graph[i].id, Graph[i].ends, Graph[i].val, Boot, 0, {Boot}, None)
  BY <1>1 DEF Init
<1>11. ASSUME NEW i \in 1 .. n PROVE VersionOK(heap[i], next_id) /\ heap[i].id = Graph[i].id
  <2>1. /\ Version(heap[i]) /\ heap[i].id = Graph[i].id /\ heap[i].xmin = Boot /\ heap[i].xmax = None
        /\ heap[i].cmin = 0 /\ heap[i].cmax = 0
    <3>1. PICK id, ends, val : id = Graph[i].id /\ ends = Graph[i].ends /\ val = Graph[i].val
      OBVIOUS
    <3>2. PICK v : v = Row(id, ends, val, Boot, 0, {Boot}, None) /\ v = heap[i]
      BY <1>10, <3>1
    <3>3. Version(v) /\ v.id = id /\ v.xmin = Boot /\ v.xmax = None /\ v.cmin = 0 /\ v.cmax = 0
      BY <3>2 DEF Row, Version
    <3> QED
      BY <3>1, <3>2, <3>3
  <2> QED
    BY <1>7, <2>1 DEF VersionOK
<1>12. HeapInv
  <2>1. next_id \in Nat /\ next_id > 0
    BY <1>6
  <2>2. version \in Nat
    BY DEF Init
  <2> QED
    BY <1>8, <1>9, <1>11, <2>1, <2>2 DEF HeapInv
<1>13. OneLive
  BY <1>1, <1>8, <1>11, GraphAssumption DEF OneLive
<1>14. StatusInv
  BY DEF Init, StatusInv
<1>15. ASSUME NEW t \in Txns PROVE TxnInv(t)
  <2>1. tx[t] = NoStatement /\ status[t] = "running"
    BY DEF Init
  <2>2. PICK x : x = NoStatement
    OBVIOUS
  <2>3. /\ Cursor(x) /\ x.pc = "ready" /\ x.cid = 0 /\ x.base = 0 /\ x.dirty = FALSE /\ x.snap = {}
    BY <2>2 DEF NoStatement, Cursor
  <2>4. PlaceOK(x) /\ DirtyInv(x)
    BY <2>3 DEF PlaceOK, DirtyInv
  <2>5. CursorOK(t, x)
    <3>0. 0 \in Nat /\ FALSE \in BOOLEAN
      OBVIOUS
    <3>1. x.cid \in Nat /\ x.base \in Nat /\ x.dirty \in BOOLEAN
      BY <2>3, <3>0, Zenon
    <3>2. x.snap \subseteq {Boot} \cup {u \in Txns : status[u] = "committed"}
      BY <2>3
    <3> QED
      BY <2>1, <2>3, <2>4, <3>1, <3>2 DEF CursorOK
  <2> QED
    BY <2>1, <2>2, <2>5 DEF TxnInv
<1> QED
  BY <1>12, <1>13, <1>14, <1>15 DEF IInv

\* Every step of a transaction.
LEMMA StepKeeps ==
    ASSUME IInv, NEW t \in Txns, Step(t) \/ Commit(t) \/ Rollback(t)
    PROVE  IInv'
<1>1. CASE Commit(t)
  BY <1>1, EndKeeps DEF Commit
<1>2. CASE Rollback(t)
  BY <1>2, FailKeeps DEF Rollback
<1>3. CASE DeadlockAbort(t)
  <2>1. PICK i \in Wanted(t) : TRUE
    BY <1>3 DEF DeadlockAbort, WaitsFor
  <2>2. tx[t].pc # "over"
    BY <2>1, WantedIs
  <2> QED
    BY <1>3, <2>2, FailKeeps DEF DeadlockAbort
<1> QED
  BY <1>1, <1>2, <1>3, ExecCreateKeeps, ApplyItemKeeps, MergeFoundKeeps, MergeMissingKeeps, DeleteItemKeeps,
     DeleteConnectedKeeps, NoMoreRowsKeeps, EndClauseKeeps DEF Step

\* The inductive invariant: the heap and the cursors are well formed, an entity has
\* one version whoever of the running transactions commits, and a change of a
\* statement that is not counted yet is a change of a clause that will count it.
THEOREM Invariance == Spec => []IInv
<1>1. Init => IInv
  BY InitIs
<1>2. IInv /\ [Next]_vars => IInv'
  <2> SUFFICES ASSUME IInv, [Next]_vars PROVE IInv'
    OBVIOUS
  <2>1. CASE UNCHANGED vars
    <3>1. heap' = heap /\ next_id' = next_id /\ version' = version /\ status' = status /\ tx' = tx
      BY <2>1 DEF vars
    <3>2. HeapInv /\ OneLive /\ StatusInv /\ version \in Nat /\ \A u \in Txns : TxnInv(u)
      BY DEF IInv, HeapInv
    <3>3. HeapInv' /\ OneLive'
      BY <3>1, <3>2, HeapStays
    <3>4. StatusInv' /\ \A u \in Txns : TxnInv(u)'
      <4>1. ASSUME NEW u \in Txns PROVE TxnInv(u)'
        <5>1. /\ Cursor(tx[u]) /\ PlaceOK(tx[u]) /\ DirtyInv(tx[u])
              /\ tx[u].cid \in Nat /\ tx[u].base \in Nat /\ tx[u].dirty \in BOOLEAN
              /\ tx[u].snap \subseteq {Boot} \cup {w \in Txns : status[w] = "committed"}
              /\ tx[u].pc # "over" => status[u] = "running"
          BY <3>2, Zenon DEF TxnInv, CursorOK
        <5> QED
          BY <3>1, <5>1, TxnInvAfter, Zenon
      <4> QED
        BY <3>1, <3>2, <4>1, Zenon DEF StatusInv
    <3> QED
      BY <3>3, <3>4 DEF IInv
  <2>2. ASSUME NEW t \in Txns, NEW n \in DOMAIN Scripts[t], NEW s \in Scripts[t][n], Start(t, s)
        PROVE  IInv'
    BY <2>2, StartKeeps
  <2>3. ASSUME NEW t \in Txns, Step(t) \/ Commit(t) \/ Rollback(t)
        PROVE  IInv'
    BY <2>3, StepKeeps
  <2> QED
    BY <2>1, <2>2, <2>3 DEF Next, Quiesce
<1> QED
  BY <1>1, <1>2, PTL DEF Spec

\* An entity has one version at most, in the committed graph and for a transaction
\* between two of its statements (update_entity_tuple and delete_entity write only a
\* version that heap_lock_tuple gives them), and the state is well formed.
THEOREM OneVersionAlways == Spec => []OneVersion
<1>1. IInv => OneVersion
  <2> SUFFICES ASSUME IInv PROVE OneVersion
    OBVIOUS
  <2>1. HeapInv /\ OneLive /\ StatusInv /\ \A t \in Txns : CursorOK(t, tx[t])
    BY DEF IInv, TxnInv
  <2>2. TypeOK
    <3>1. \A i \in DOMAIN heap :
             /\ heap[i].id \in 1 .. next_id - 1
             /\ heap[i].xmin \in Txns \cup {Boot} /\ heap[i].xmax \in Txns \cup {None}
             /\ heap[i].cmin \in Nat /\ heap[i].cmax \in Nat
      BY <2>1 DEF HeapInv, VersionOK
    <3>2. version \in Nat /\ status \in [Txns -> {"running", "committed", "aborted"}]
      BY <2>1 DEF HeapInv, StatusInv
    <3>3. ASSUME NEW t \in Txns, tx[t].pc \in {"row", "set"}
          PROVE  tx[t].r \in DOMAIN tx[t].rows /\ tx[t].k \in DOMAIN Clauses(tx[t])
      <4>1. AtRow(t, tx[t])
        BY <2>1, <3>3, AtRowIs
      <4>2. DOMAIN tx[t].rows = 1 .. Len(tx[t].rows)
        BY <4>1, ListIs DEF AtRow
      <4>3. DOMAIN Clauses(tx[t]) = 1 .. Len(Clauses(tx[t]))
        BY <4>1 DEF AtRow, IsQuery, List, Clauses
      <4> QED
        BY <4>1, <4>2, <4>3 DEF AtRow
    <3>4. \A t \in Txns : /\ tx[t].pc \in {"ready", "row", "set", "last", "end", "over"}
                          /\ tx[t].cid \in Nat
      BY <2>1 DEF CursorOK, PlaceOK
    <3> QED
      BY <3>1, <3>2, <3>3, <3>4 DEF TypeOK
  <2>3. ASSUME NEW i \in DOMAIN heap, NEW j \in DOMAIN heap, heap[i].id = heap[j].id, i # j
        PROVE  ~(Live(heap[i]) /\ Live(heap[j]))
    <3>1. PICK V \in SUBSET Txns : V = {u \in Txns : status[u] = "committed"}
      OBVIOUS
    <3>2. Outcome(V)
      BY <2>1, <3>1 DEF Outcome, StatusInv
    <3>3. \A v : Live(v) => LiveIn(V, v)
      BY <3>1 DEF Live, LiveIn, Committed
    <3> QED
      BY <2>1, <2>3, <3>2, <3>3 DEF OneLive
  <2>4. ASSUME NEW i \in DOMAIN heap, NEW j \in DOMAIN heap, heap[i].id = heap[j].id, i # j,
               NEW t \in Txns, tx[t].pc = "ready"
        PROVE  ~(LiveFor(t, heap[i]) /\ LiveFor(t, heap[j]))
    <3>1. PICK V \in SUBSET Txns : V = {u \in Txns : status[u] = "committed"} \cup {t}
      OBVIOUS
    <3>2. status[t] = "running"
      BY <2>1, <2>4 DEF CursorOK
    <3>3. Outcome(V)
      BY <2>1, <3>1, <3>2 DEF Outcome, StatusInv
    <3>4. \A v : LiveFor(t, v) => LiveIn(V, v)
      BY <3>1 DEF LiveFor, LiveIn, Committed
    <3> QED
      BY <2>1, <2>4, <3>3, <3>4 DEF OneLive
  <2> QED
    BY <2>2, <2>3, <2>4 DEF OneVersion
<1> QED
  BY <1>1, Invariance, PTL

\* No statement ends with a change that increment_graph_version has not counted.
THEOREM ChangeIsCountedAlways == Spec => []ChangeIsCounted
<1>1. IInv => ChangeIsCounted
  BY DEF IInv, TxnInv, CursorOK, DirtyInv, ChangeIsCounted
<1> QED
  BY <1>1, Invariance, PTL
==============================================================================
