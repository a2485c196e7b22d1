------------------------ MODULE WriteVisibility_proofs ------------------------
(***************************************************************************)
(* What the transactions see of each other's work, for any number of them    *)
(* and whatever queries they run.  An edge outlives one of its vertices only *)
(* if neither of the two transactions saw the other, and MERGE makes a path  *)
(* beside another one for the same pattern only if it could not see it.      *)
(***************************************************************************)
EXTENDS WriteExecutors_proofs

\* A transaction that has not been rolled back.
Stands(x) == x = Boot \/ (x \in Txns /\ status[x] # "aborted")

\* What a statement of t can see: its snapshot and the transaction itself.
Known(t) == tx[t].snap \cup {t}

\* The last version of an entity, but for those of rolled back transactions.
IsLast(i) ==
    \A j \in DOMAIN heap : j > i /\ heap[j].id = heap[i].id => ~Stands(heap[j].xmin)

\* The versions of an entity have the same ends, one of them is of the transaction
\* that made the entity, and nobody but this one and those that came after its
\* commit has written the others.
Lineage ==
    \A i \in DOMAIN heap :
        /\ heap[i].by = heap[i].xmin \/ Committed(heap[i].by)
        /\ \E j \in DOMAIN heap : heap[j].id = heap[i].id /\ heap[j].xmin = heap[i].by
        /\ \A j \in DOMAIN heap : heap[j].id = heap[i].id => heap[j].ends = heap[i].ends

\* What a statement saw that made an entity or ended a version.
SawCommitted ==
    \A i \in DOMAIN heap :
        /\ \A x \in heap[i].see : x = heap[i].by \/ Committed(x)
        /\ heap[i].xmax \in Txns =>
               /\ heap[i].xmax \in heap[i].xsee
               /\ \A x \in heap[i].xsee : x = heap[i].xmax \/ Committed(x)

\* A transaction ends only what it has made or what was committed.
EndsCommitted ==
    \A i \in DOMAIN heap : heap[i].xmax \in Txns /\ Stands(heap[i].xmax) =>
        heap[i].xmin = heap[i].xmax \/ Committed(heap[i].xmin)

\* The versions of an entity follow each other: the earlier one was ended by the
\* transaction of the later one, or of one between them that has committed.
Follows(i, j) ==
    /\ heap[i].xmax \in Txns
    /\ heap[i].xmax = heap[j].xmin \/ Committed(heap[i].xmax)
    /\ \E l \in DOMAIN heap : i < l /\ heap[l].id = heap[i].id /\ heap[l].xmin = heap[i].xmax
\* It is so for any two versions that may still count.
Chain ==
    \A i, j \in DOMAIN heap :
        (i < j /\ heap[i].id = heap[j].id /\ Stands(heap[i].xmin) /\ Stands(heap[j].xmin)) =>
            Follows(i, j)

\* A statement that sees the end of a version sees its beginning, and one that sees
\* a version sees the end of those before it.
SeesPast ==
    \A t \in Txns : status[t] = "running" =>
        /\ \A i \in DOMAIN heap : heap[i].xmax \in Known(t) => heap[i].xmin \in Known(t)
        /\ \A i, j \in DOMAIN heap :
              (i < j /\ heap[i].id = heap[j].id /\ Stands(heap[i].xmin)
                     /\ heap[j].xmin \in Known(t)) => heap[i].xmax \in Known(t)

\* A CREATE at the end of the query begins no command before the last row.
CreatesLast(x) ==
    /\ x.pc \in {"row", "set", "last"} /\ x.stmt.terminal
    /\ Clauses(x)[Len(Clauses(x))].op = "create"

\* What t writes under its current command is the end of a version that it still
\* sees, or new in a CREATE at the end of the query.
Written(t, i) ==
    /\ tx[t].used
    /\ \/ CreatesLast(tx[t])
       \/ \E j \in DOMAIN heap :
             heap[j].id = heap[i].id /\ heap[j].xmax = t /\ VisibleAt(t, tx[t].cid, heap[j])

\* The command ids of what a transaction has written; it sees no version of what
\* it has deleted.
Commands(t) ==
    \A i \in DOMAIN heap :
        /\ heap[i].xmin = t =>
               heap[i].cmin <= tx[t].cid /\ (heap[i].cmin = tx[t].cid => Written(t, i))
        /\ heap[i].xmax = t =>
               /\ heap[i].cmax <= tx[t].cid
               /\ IsLast(i) => \A j \in DOMAIN heap :
                                   heap[j].id = heap[i].id /\ heap[j].xmax = t =>
                                       heap[j].cmax < tx[t].cid

\* An edge is between entities that are vertices, and there if the edge is.
EndsExist ==
    \A e \in DOMAIN heap : \A n \in DOMAIN heap[e].ends :
        \E i \in DOMAIN heap :
            /\ heap[i].id = heap[e].ends[n] /\ IsVertex(heap[i])
            /\ heap[i].xmin = heap[e].by \/ Committed(heap[i].xmin)

\* The vertex was not deleted by a transaction that the one of the edge saw.
Attached(e, m) ==
    heap[m].xmax \in heap[e].see => heap[m].xmax = heap[e].by

\* The end of the DELETE clause is still to come.
Pending(u, id) ==
    /\ tx[u].pc \in {"row", "set", "last", "end"}
    /\ \E k \in 1 .. Len(Clauses(tx[u])) :
          /\ Clauses(tx[u])[k].op = "delete" /\ <<k, id>> \in tx[u].htab
          /\ tx[u].pc = "end" => k <= tx[u].k

\* An edge is gone with the vertex, or will be at the end of the clause, if the
\* transaction that deletes the vertex saw the one that made the edge.
Detached(e, m) ==
    (/\ heap[m].xmax \in Txns /\ Stands(heap[m].xmax)
     /\ heap[e].by \in heap[m].xsee /\ Stands(heap[e].xmin)) =>
        \/ /\ Pending(heap[m].xmax, heap[m].id)
           /\ heap[m].xsee = Known(heap[m].xmax)
        \/ heap[e].xmax \in Txns /\ (heap[e].xmax = heap[m].xmax \/ Committed(heap[e].xmax))

\* It is so for every edge and the last version of each of its vertices.
Edges ==
    \A e, m \in DOMAIN heap :
        (/\ \E n \in DOMAIN heap[e].ends : heap[e].ends[n] = heap[m].id
         /\ Stands(heap[m].xmin) /\ IsLast(m)) => Attached(e, m) /\ Detached(e, m)

\* The command ids of a cursor; between two statements none is in use.
Cursors(t) ==
    /\ tx[t].curcid \in Int /\ tx[t].used \in BOOLEAN /\ tx[t].base <= tx[t].cid
    /\ tx[t].pc = "ready" => ~tx[t].used

\* The inductive invariant, beside IInv.
DInv ==
    /\ Lineage /\ SawCommitted /\ EndsCommitted /\ Chain /\ SeesPast
    /\ EndsExist /\ Edges
    /\ \A t \in Txns : Cursors(t) /\ (status[t] = "running" => Commands(t))

-----------------------------------------------------------------------------
(* The steps of a statement.                                                 *)

\* A version that t ends in this step.
Ending(t, i) ==
    /\ VisibleAt(t, tx[t].cid, heap[i]) /\ Writable(t, i)
    /\ heap'[i].xmax = t /\ heap'[i].cmax = tx[t].cid /\ heap'[i].xsee = Known(t)
\* What stays of a version, ended or not.
Stays(i) ==
    /\ heap'[i].id = heap[i].id /\ heap'[i].ends = heap[i].ends
    /\ heap'[i].by = heap[i].by /\ heap'[i].see = heap[i].see
    /\ heap'[i].xmin = heap[i].xmin /\ heap'[i].cmin = heap[i].cmin

\* A version that follows the one it ends.
Copy(t, i, j) ==
    /\ heap'[j].id = heap[i].id /\ heap'[j].ends = heap[i].ends
    /\ heap'[j].by = heap[i].by /\ heap'[j].see = heap[i].see
    /\ heap'[j].cmin = tx[t].cid

\* The versions written in this step.
New == DOMAIN heap' \ DOMAIN heap

\* The first version of a new entity.  If it is an edge, t sees its vertices or
\* makes them in this step.
Fresh(t, j) ==
    /\ heap'[j].id \notin 1 .. next_id - 1
    /\ heap'[j].by = t /\ heap'[j].see = Known(t) /\ heap'[j].cmin <= tx[t].cid
    /\ \A n \in DOMAIN heap'[j].ends :
          \/ \E i \in DOMAIN heap : /\ heap[i].id = heap'[j].ends[n] /\ IsVertex(heap[i])
                                    /\ \E c \in Int : c >= tx[t].cid /\ VisibleAt(t, c, heap[i])
          \/ \E i \in New : heap'[i].id = heap'[j].ends[n] /\ IsVertex(heap'[i])
                            /\ heap'[i].id \notin 1 .. next_id - 1

\* What t does to the versions in a step.
HeapStep(t) ==
    /\ DOMAIN heap \subseteq DOMAIN heap'
    /\ \A i \in DOMAIN heap, j \in New : i < j
    /\ \A i \in DOMAIN heap : heap'[i] = heap[i] \/ Ending(t, i)
    /\ \A i \in DOMAIN heap : Stays(i)
    /\ \A j \in New : heap'[j].xmin = t /\ heap'[j].xmax = None
    /\ \A j \in New : Fresh(t, j) \/ \E i \in DOMAIN heap : Ending(t, i) /\ Copy(t, i, j)
    /\ \A i, j \in New : heap'[i].id = heap'[j].id => i = j

\* How the command id goes on, and what is written under it.
ClockStep(t) ==
    /\ \/ tx'[t].cid = tx[t].cid + 1
       \/ /\ tx'[t].cid = tx[t].cid /\ (tx[t].used => tx'[t].used)
          /\ tx[t].used /\ CreatesLast(tx[t]) => CreatesLast(tx'[t])
    /\ \A j \in New : heap'[j].cmin = tx'[t].cid =>
           /\ tx'[t].used
           /\ \/ CreatesLast(tx'[t])
              \/ \E i \in DOMAIN heap : Ending(t, i) /\ Copy(t, i, j)

\* A version that is ended without a successor.
Removed(t, i) == Ending(t, i) /\ \A j \in New : heap'[j].id # heap[i].id

\* A step of a statement, as the versions see it: a deletion ends the command.
WriteStep(t) ==
    /\ t \in Txns /\ status[t] = "running" /\ status' = status
    /\ \A u \in Txns \ {t} : tx'[u] = tx[u]
    /\ tx'[t].snap = tx[t].snap
    /\ HeapStep(t) /\ ClockStep(t)
    /\ \A i \in DOMAIN heap : Removed(t, i) => tx'[t].cid = tx[t].cid + 1

-----------------------------------------------------------------------------
(* What a step of a statement leaves alone.                                  *)

\* The types of the versions and of the command ids.
LEMMA VersionTypes ==
    ASSUME IInv
    PROVE  /\ \A i \in DOMAIN heap :
                 /\ heap[i].xmin \in Txns \cup {Boot} /\ heap[i].xmax \in Txns \cup {None}
                 /\ heap[i].cmin \in Nat /\ heap[i].cmax \in Nat /\ i \in Nat
                 /\ heap[i].id \in 1 .. next_id - 1
           /\ \A t \in Txns : tx[t].cid \in Nat /\ tx[t].snap \subseteq Txns \cup {Boot}
           /\ \A t \in Txns : \A x \in tx[t].snap : Committed(x)
<1>1. HeapInv /\ \A t \in Txns : CursorOK(t, tx[t])
  BY DEF IInv, TxnInv
<1>2. \A i \in DOMAIN heap : VersionOK(heap[i], next_id) /\ i \in Nat
  <2>1. PICK n \in Nat : n = Len(heap) /\ heap = [i \in 1 .. n |-> heap[i]]
    BY <1>1 DEF HeapInv, Lists
  <2>2. DOMAIN heap = 1 .. n
    BY <2>1
  <2> QED
    BY <1>1, <2>2 DEF HeapInv
<1>3. \A t \in Txns : tx[t].cid \in Nat /\ tx[t].snap \subseteq {Boot} \cup {u \in Txns : status[u] = "committed"}
  BY <1>1 DEF CursorOK
<1> QED
  BY <1>2, <1>3 DEF VersionOK, Committed

\* Whose work stands.
LEMMA StandsIs ==
    ASSUME IInv
    PROVE  /\ \A x : Committed(x) => Stands(x) /\ x \in Txns \cup {Boot}
           /\ \A x : Stands(x) => x \in Txns \cup {Boot} /\ x # None
           /\ \A t \in Txns : status[t] = "running" => ~Committed(t) /\ Stands(t) /\ t # Boot
           /\ \A t \in Txns : status[t] = "running" => \A x \in Known(t) : x = t \/ Committed(x)
           /\ ~Stands(None)
<1>1. \A x : Committed(x) => Stands(x) /\ x \in Txns \cup {Boot}
  BY DEF Committed, Stands
<1>2. \A x : Stands(x) => x \in Txns \cup {Boot} /\ x # None
  BY TxnAssumption DEF Stands
<1>3. \A t \in Txns : status[t] = "running" => ~Committed(t) /\ Stands(t) /\ t # Boot
  BY TxnAssumption DEF Stands, Committed
<1>4. \A t \in Txns : status[t] = "running" => \A x \in Known(t) : x = t \/ Committed(x)
  BY VersionTypes DEF Known
<1> QED
  BY <1>1, <1>2, <1>3, <1>4

\* What t ends is the last version, its own or committed.
LEMMA EndingIs ==
    ASSUME IInv, DInv, NEW t \in Txns, status[t] = "running",
           NEW i \in DOMAIN heap, VisibleAt(t, tx[t].cid, heap[i]), Writable(t, i)
    PROVE  /\ heap[i].xmin \in Known(t) /\ Stands(heap[i].xmin)
           /\ heap[i].xmin = t \/ Committed(heap[i].xmin)
           /\ ~Stands(heap[i].xmax) /\ IsLast(i)
<1>1. heap[i].xmin \in Known(t)
  BY DEF VisibleAt, Sees, Known
<1>2. heap[i].xmin = t \/ Committed(heap[i].xmin)
  BY <1>1, StandsIs
<1>3. Stands(heap[i].xmin)
  BY <1>2, StandsIs
<1>4. heap[i].xmax = None \/ (heap[i].xmax \in Txns /\ status[heap[i].xmax] = "aborted")
  BY WritableIs
<1>5. ~Stands(heap[i].xmax)
  BY <1>4, TxnAssumption DEF Stands
<1>6. ASSUME NEW j \in DOMAIN heap, j > i, heap[j].id = heap[i].id, Stands(heap[j].xmin)
      PROVE  FALSE
  <2>1. i \in Nat /\ j \in Nat
    BY VersionTypes
  <2>2. Follows(i, j)
    BY <1>3, <1>6, <2>1 DEF DInv, Chain
  <2>3. Stands(heap[i].xmax)
    BY <1>6, <2>2, StandsIs DEF Follows
  <2> QED
    BY <1>5, <2>3
<1> QED
  BY <1>1, <1>2, <1>3, <1>5, <1>6 DEF IsLast

\* What is not changed by a step of t.
LEMMA StepIs ==
    ASSUME IInv, DInv, NEW t, WriteStep(t)
    PROVE  /\ \A x : (Committed(x)' <=> Committed(x)) /\ (Stands(x)' <=> Stands(x))
           /\ \A u \in Txns : Known(u)' = Known(u)
           /\ \A u \in Txns \ {t} : t \notin Known(u)
           /\ \A i \in DOMAIN heap : Stands(heap[i].xmax) => heap'[i] = heap[i]
           /\ \A i \in DOMAIN heap : Ending(t, i) => IsLast(i) /\ Stands(heap[i].xmin)
           /\ \A i \in DOMAIN heap : IsLast(i)' => IsLast(i)
<1>1. t \in Txns /\ status[t] = "running" /\ status' = status
  BY DEF WriteStep
<1>2. \A x : (Committed(x)' <=> Committed(x)) /\ (Stands(x)' <=> Stands(x))
  BY <1>1 DEF Committed, Stands
<1>3. \A u \in Txns : Known(u)' = Known(u)
  BY DEF WriteStep, Known
<1>4. \A u \in Txns \ {t} : t \notin Known(u)
  <2> SUFFICES ASSUME NEW u \in Txns \ {t}, t \in Known(u) PROVE FALSE
    OBVIOUS
  <2>1. t \in tx[u].snap
    BY DEF Known
  <2>2. Committed(t)
    BY <2>1, VersionTypes
  <2> QED
    BY <1>1, <2>2, StandsIs
<1>5. \A i \in DOMAIN heap : Ending(t, i) => IsLast(i) /\ Stands(heap[i].xmin) /\ ~Stands(heap[i].xmax)
  BY <1>1, EndingIs DEF Ending
<1>6. \A i \in DOMAIN heap : Stands(heap[i].xmax) => heap'[i] = heap[i]
  BY <1>5 DEF WriteStep, HeapStep
<1>7. ASSUME NEW i \in DOMAIN heap, IsLast(i)' PROVE IsLast(i)
  <2> SUFFICES ASSUME NEW j \in DOMAIN heap, j > i, heap[j].id = heap[i].id PROVE ~Stands(heap[j].xmin)
    BY DEF IsLast
  <2>1. j \in DOMAIN heap' /\ heap'[j].id = heap'[i].id /\ heap'[j].xmin = heap[j].xmin
    BY DEF WriteStep, HeapStep, Stays
  <2>2. ~Stands(heap[j].xmin)'
    BY <1>7, <2>1 DEF IsLast
  <2> QED
    BY <1>1, <2>1, <2>2 DEF Stands
<1> QED
  BY <1>2, <1>3, <1>4, <1>5, <1>6, <1>7

-----------------------------------------------------------------------------
(* A step of a statement keeps the invariant.                                *)

\* A new version has a new id, or follows the version that is ended.
LEMMA NewIs ==
    ASSUME IInv, DInv, NEW t, WriteStep(t), NEW j \in New
    PROVE  /\ Fresh(t, j) => \A i \in DOMAIN heap' : heap'[i].id = heap'[j].id => i = j
           /\ \A i \in DOMAIN heap : heap'[i].id = heap'[j].id =>
                  \E p \in DOMAIN heap : /\ Ending(t, p) /\ Copy(t, p, j) /\ heap[i].id = heap[p].id
                                         /\ Stands(heap[i].xmin) => i <= p
<1>1. HeapStep(t) /\ t \in Txns /\ status[t] = "running"
  BY DEF WriteStep
<1>2. \A i \in DOMAIN heap : heap'[i].id = heap[i].id /\ heap[i].id \in 1 .. next_id - 1
  BY <1>1, VersionTypes DEF HeapStep, Stays
<1>3. Fresh(t, j) => \A i \in DOMAIN heap' : heap'[i].id = heap'[j].id => i = j
  BY <1>1, <1>2 DEF HeapStep, Fresh, New
<1>4. ASSUME NEW i \in DOMAIN heap, heap'[i].id = heap'[j].id
      PROVE  \E p \in DOMAIN heap : /\ Ending(t, p) /\ Copy(t, p, j) /\ heap[i].id = heap[p].id
                                    /\ Stands(heap[i].xmin) => i <= p
  <2>1. ~Fresh(t, j)
    BY <1>2, <1>4 DEF Fresh
  <2>2. PICK p \in DOMAIN heap : Ending(t, p) /\ Copy(t, p, j)
    BY <1>1, <2>1 DEF HeapStep
  <2>3. IsLast(p)
    BY <2>2, StepIs
  <2>4. heap[i].id = heap[p].id
    BY <1>2, <1>4, <2>2 DEF Copy
  <2>5. i \in Nat /\ p \in Nat
    BY VersionTypes
  <2>6. Stands(heap[i].xmin) => ~(i > p)
    BY <2>3, <2>4 DEF IsLast
  <2> QED
    BY <2>2, <2>4, <2>5, <2>6
<1> QED
  BY <1>3, <1>4

\* A new version is the first of its entity, or has the history of the one before it.
LEMMA LineageStep ==
    ASSUME IInv, DInv, NEW t, WriteStep(t)
    PROVE  Lineage'
<1> SUFFICES ASSUME NEW i \in DOMAIN heap'
             PROVE  /\ heap'[i].by = heap'[i].xmin \/ Committed(heap'[i].by)
                    /\ \E j \in DOMAIN heap' : heap'[j].id = heap'[i].id /\ heap'[j].xmin = heap'[i].by
                    /\ \A j \in DOMAIN heap' : heap'[j].id = heap'[i].id => heap'[j].ends = heap'[i].ends
  <2>1. \A x : Committed(x)' <=> Committed(x)
    BY StepIs
  <2> QED
    BY <2>1 DEF Lineage
<1>1. HeapStep(t) /\ t \in Txns /\ status[t] = "running"
  BY DEF WriteStep
<1>2. Lineage /\ DOMAIN heap \subseteq DOMAIN heap' /\ \A j \in DOMAIN heap : Stays(j)
  BY <1>1 DEF DInv, HeapStep
<1>3. \A p \in DOMAIN heap : Ending(t, p) => heap[p].xmin = t \/ Committed(heap[p].xmin)
  BY <1>1, EndingIs DEF Ending
<1>4. ASSUME NEW j \in DOMAIN heap', NEW p \in DOMAIN heap, heap'[j].id = heap[p].id
      PROVE  heap'[j].ends = heap[p].ends
  <2>1. CASE j \in DOMAIN heap
    BY <1>2, <1>4, <2>1 DEF Lineage, Stays
  <2>2. CASE j \in New
    <3>1. heap'[p].id = heap'[j].id
      BY <1>2, <1>4 DEF Stays
    <3>2. PICK q \in DOMAIN heap : Copy(t, q, j) /\ heap[p].id = heap[q].id
      BY <2>2, <3>1, NewIs
    <3> QED
      BY <1>2, <3>2 DEF Copy, Lineage
  <2> QED
    BY <2>1, <2>2 DEF New
<1>5. CASE i \in DOMAIN heap
  <2>1. heap'[i].by = heap'[i].xmin \/ Committed(heap'[i].by)
    BY <1>2, <1>5 DEF Stays, Lineage
  <2>2. PICK j \in DOMAIN heap : heap[j].id = heap[i].id /\ heap[j].xmin = heap[i].by
    BY <1>2, <1>5 DEF Lineage
  <2>3. \E l \in DOMAIN heap' : heap'[l].id = heap'[i].id /\ heap'[l].xmin = heap'[i].by
    BY <1>2, <1>5, <2>2 DEF Stays
  <2>4. \A l \in DOMAIN heap' : heap'[l].id = heap'[i].id => heap'[l].ends = heap'[i].ends
    BY <1>2, <1>4, <1>5 DEF Stays
  <2> QED
    BY <2>1, <2>3, <2>4
<1>6. CASE i \in New /\ Fresh(t, i)
  <2>1. \A j \in DOMAIN heap' : heap'[j].id = heap'[i].id => j = i
    BY <1>6, NewIs
  <2>2. heap'[i].by = heap'[i].xmin
    BY <1>1, <1>6 DEF HeapStep, Fresh
  <2> QED
    BY <2>1, <2>2
<1>7. ASSUME i \in New, NEW p \in DOMAIN heap, Ending(t, p), Copy(t, p, i)
      PROVE  /\ heap'[i].by = heap'[i].xmin \/ Committed(heap'[i].by)
             /\ \E j \in DOMAIN heap' : heap'[j].id = heap'[i].id /\ heap'[j].xmin = heap'[i].by
             /\ \A j \in DOMAIN heap' : heap'[j].id = heap'[i].id => heap'[j].ends = heap'[i].ends
  <2>1. heap'[i].xmin = t /\ heap'[i].by = heap[p].by /\ heap'[i].id = heap[p].id /\ heap'[i].ends = heap[p].ends
    BY <1>1, <1>7 DEF HeapStep, Copy
  <2>2. heap'[i].by = heap'[i].xmin \/ Committed(heap'[i].by)
    BY <1>2, <1>3, <1>7, <2>1 DEF Lineage
  <2>3. PICK j \in DOMAIN heap : heap[j].id = heap[p].id /\ heap[j].xmin = heap[p].by
    BY <1>2 DEF Lineage
  <2>4. \E l \in DOMAIN heap' : heap'[l].id = heap'[i].id /\ heap'[l].xmin = heap'[i].by
    BY <1>2, <2>1, <2>3 DEF Stays
  <2> QED
    BY <1>4, <2>1, <2>2, <2>4
<1> QED
  BY <1>1, <1>5, <1>6, <1>7 DEF HeapStep, New

\* What a statement saw when it made or ended something has been committed.
LEMMA SawCommittedStep ==
    ASSUME IInv, DInv, NEW t, WriteStep(t)
    PROVE  SawCommitted'
<1> SUFFICES ASSUME NEW i \in DOMAIN heap'
             PROVE  /\ \A x \in heap'[i].see : x = heap'[i].by \/ Committed(x)
                    /\ heap'[i].xmax \in Txns =>
                           /\ heap'[i].xmax \in heap'[i].xsee
                           /\ \A x \in heap'[i].xsee : x = heap'[i].xmax \/ Committed(x)
  <2>1. \A x : Committed(x)' <=> Committed(x)
    BY StepIs
  <2> QED
    BY <2>1 DEF SawCommitted
<1>1. HeapStep(t) /\ t \in Txns /\ status[t] = "running"
  BY DEF WriteStep
<1>2. SawCommitted
  BY DEF DInv
<1>3. t \in Known(t) /\ \A x \in Known(t) : x = t \/ Committed(x)
  BY <1>1, StandsIs DEF Known
<1>4. CASE i \in DOMAIN heap
  <2>1. Stays(i) /\ (heap'[i] = heap[i] \/ Ending(t, i))
    BY <1>1, <1>4 DEF HeapStep
  <2>2. \A x \in heap'[i].see : x = heap'[i].by \/ Committed(x)
    BY <1>2, <1>4, <2>1 DEF SawCommitted, Stays
  <2>3. CASE heap'[i] = heap[i]
    BY <1>2, <1>4, <2>3 DEF SawCommitted
  <2>4. CASE Ending(t, i)
    BY <1>3, <2>2, <2>4 DEF Ending
  <2> QED
    BY <2>1, <2>3, <2>4
<1>5. CASE i \in New
  <2>1. heap'[i].xmax \notin Txns
    BY <1>1, <1>5, TxnAssumption DEF HeapStep
  <2>2. CASE Fresh(t, i)
    BY <1>3, <2>1, <2>2 DEF Fresh
  <2>3. ASSUME NEW p \in DOMAIN heap, Copy(t, p, i)
        PROVE  \A x \in heap'[i].see : x = heap'[i].by \/ Committed(x)
    BY <1>2, <2>3 DEF SawCommitted, Copy
  <2> QED
    BY <1>1, <1>5, <2>1, <2>2, <2>3 DEF HeapStep
<1> QED
  BY <1>4, <1>5 DEF New

\* A version that is ended in this step is one that the statement saw.
LEMMA EndsCommittedStep ==
    ASSUME IInv, DInv, NEW t, WriteStep(t)
    PROVE  EndsCommitted'
<1> SUFFICES ASSUME NEW i \in DOMAIN heap', heap'[i].xmax \in Txns, Stands(heap'[i].xmax)
             PROVE  heap'[i].xmin = heap'[i].xmax \/ Committed(heap'[i].xmin)
  <2>1. \A x : (Committed(x)' <=> Committed(x)) /\ (Stands(x)' <=> Stands(x))
    BY StepIs
  <2> QED
    BY <2>1 DEF EndsCommitted
<1>1. HeapStep(t) /\ t \in Txns /\ status[t] = "running"
  BY DEF WriteStep
<1>2. i \in DOMAIN heap
  BY <1>1, TxnAssumption DEF HeapStep, New
<1>3. CASE heap'[i] = heap[i]
  BY <1>2, <1>3 DEF DInv, EndsCommitted
<1>4. CASE Ending(t, i)
  BY <1>1, <1>2, <1>4, EndingIs DEF Ending, HeapStep, Stays
<1> QED
  BY <1>1, <1>2, <1>3, <1>4 DEF HeapStep

\* The indexes of the heap are numbers, also after a step.
LEMMA DomainNext ==
    ASSUME IInv'
    PROVE  \A i \in DOMAIN heap' : i \in Nat
<1>1. PICK n \in Nat : n = Len(heap') /\ heap' = [l \in 1 .. n |-> heap'[l]]
  BY DEF IInv, HeapInv, Lists
<1>2. DOMAIN heap' = 1 .. n
  BY <1>1
<1> QED
  BY <1>2

\* Of two versions of an entity, the earlier one is not new.
LEMMA BeforeIs ==
    ASSUME IInv, IInv', DInv, NEW t, WriteStep(t), NEW i \in DOMAIN heap', NEW j \in DOMAIN heap',
           i < j, heap'[i].id = heap'[j].id
    PROVE  i \in DOMAIN heap
<1>1. HeapStep(t)
  BY DEF WriteStep
<1>2. i \in Nat /\ j \in Nat
  BY DomainNext
<1> SUFFICES ASSUME i \in New PROVE FALSE
  BY DEF New
<1>3. CASE j \in DOMAIN heap
  <2>1. j < i
    BY <1>1, <1>3 DEF HeapStep
  <2> QED
    BY <1>2, <2>1
<1>4. CASE j \in New
  BY <1>1, <1>2, <1>4 DEF HeapStep
<1> QED
  BY <1>3, <1>4 DEF New

\* The versions of an entity still follow each other.
LEMMA ChainStep ==
    ASSUME IInv, IInv', DInv, NEW t, WriteStep(t)
    PROVE  Chain'
<1>1. HeapStep(t) /\ t \in Txns /\ status[t] = "running"
  BY DEF WriteStep
<1>2. \A x : (Committed(x)' <=> Committed(x)) /\ (Stands(x)' <=> Stands(x))
  BY StepIs
<1> SUFFICES ASSUME NEW i \in DOMAIN heap', NEW j \in DOMAIN heap', i < j,
                    heap'[i].id = heap'[j].id, Stands(heap'[i].xmin), Stands(heap'[j].xmin)
             PROVE  /\ heap'[i].xmax \in Txns
                    /\ heap'[i].xmax = heap'[j].xmin \/ Committed(heap'[i].xmax)
                    /\ \E l \in DOMAIN heap' : i < l /\ heap'[l].id = heap'[i].id
                                               /\ heap'[l].xmin = heap'[i].xmax
  BY <1>2 DEF Chain, Follows
<1>3. Chain /\ DOMAIN heap \subseteq DOMAIN heap' /\ \A l \in DOMAIN heap : Stays(l)
  BY <1>1 DEF DInv, HeapStep
<1>4. ASSUME NEW p \in DOMAIN heap, i \in DOMAIN heap, Follows(i, p), Stands(heap[p].xmin)
      PROVE  /\ heap'[i] = heap[i]
             /\ \E l \in DOMAIN heap' : i < l /\ heap'[l].id = heap'[i].id
                                        /\ heap'[l].xmin = heap'[i].xmax
  <2>1. Stands(heap[i].xmax)
    BY <1>4, StandsIs DEF Follows
  <2>2. heap'[i] = heap[i]
    BY <1>4, <2>1, StepIs
  <2>3. PICK l \in DOMAIN heap : i < l /\ heap[l].id = heap[i].id /\ heap[l].xmin = heap[i].xmax
    BY <1>4 DEF Follows
  <2> QED
    BY <1>3, <2>2, <2>3 DEF Stays
<1>5. CASE i \in DOMAIN heap /\ j \in DOMAIN heap
  <2>1. Follows(i, j) /\ Stands(heap[j].xmin)
    BY <1>3, <1>5 DEF Chain, Stays
  <2>2. heap'[j].xmin = heap[j].xmin
    BY <1>3, <1>5 DEF Stays
  <2> QED
    BY <1>4, <1>5, <2>1, <2>2 DEF Follows
<1>6. CASE i \in DOMAIN heap /\ j \in New
  <2>1. PICK p \in DOMAIN heap : /\ Ending(t, p) /\ Copy(t, p, j) /\ heap[i].id = heap[p].id
                                 /\ Stands(heap[i].xmin) => i <= p
    BY <1>6, NewIs
  <2>2. heap'[j].xmin = t /\ heap'[i].xmin = heap[i].xmin
    BY <1>1, <1>3, <1>6 DEF HeapStep, Stays
  <2>3. CASE i = p
    BY <1>1, <1>6, <2>1, <2>2, <2>3 DEF Ending
  <2>4. CASE i # p
    <3>1. i \in Nat /\ p \in Nat
      BY <1>6, VersionTypes
    <3>2. i < p
      BY <2>1, <2>2, <2>4, <3>1
    <3>3. Stands(heap[p].xmin) /\ (heap[p].xmin = t \/ Committed(heap[p].xmin))
      BY <1>1, <2>1, EndingIs DEF Ending
    <3>4. Follows(i, p)
      BY <1>3, <1>6, <2>1, <2>2, <3>2, <3>3 DEF Chain
    <3> QED
      BY <1>4, <1>6, <2>2, <3>3, <3>4 DEF Follows
  <2> QED
    BY <2>3, <2>4
<1>7. i \in DOMAIN heap
  BY BeforeIs
<1> QED
  BY <1>5, <1>6, <1>7 DEF New

\* What a statement sees of the versions, it sees of those before them.
LEMMA SeesPastStep ==
    ASSUME IInv, IInv', DInv, NEW t, WriteStep(t)
    PROVE  SeesPast'
<1>1. HeapStep(t) /\ t \in Txns /\ status[t] = "running" /\ status' = status
  BY DEF WriteStep
<1>2. (\A x : Stands(x)' <=> Stands(x)) /\ \A u \in Txns : Known(u)' = Known(u)
  BY StepIs
<1>3. DOMAIN heap \subseteq DOMAIN heap' /\ \A l \in DOMAIN heap : Stays(l)
  BY <1>1 DEF HeapStep
<1> SUFFICES ASSUME NEW u \in Txns, status[u] = "running"
             PROVE  /\ \A i \in DOMAIN heap' : heap'[i].xmax \in Known(u) => heap'[i].xmin \in Known(u)
                    /\ \A i, j \in DOMAIN heap' :
                          (i < j /\ heap'[i].id = heap'[j].id /\ Stands(heap'[i].xmin)
                                 /\ heap'[j].xmin \in Known(u)) => heap'[i].xmax \in Known(u)
  BY <1>1, <1>2 DEF SeesPast
<1>4. \A x \in Known(u) : Stands(x)
  BY StandsIs
<1>5. /\ \A i \in DOMAIN heap : heap[i].xmax \in Known(u) => heap[i].xmin \in Known(u)
      /\ \A i, j \in DOMAIN heap :
            (i < j /\ heap[i].id = heap[j].id /\ Stands(heap[i].xmin)
                   /\ heap[j].xmin \in Known(u)) => heap[i].xmax \in Known(u)
  BY DEF DInv, SeesPast
<1>6. ASSUME NEW i \in DOMAIN heap', heap'[i].xmax \in Known(u) PROVE heap'[i].xmin \in Known(u)
  <2>1. i \in DOMAIN heap
    BY <1>1, <1>4, <1>6, StandsIs DEF HeapStep, New
  <2>2. CASE heap'[i] = heap[i]
    BY <1>5, <1>6, <2>1, <2>2
  <2>3. CASE Ending(t, i)
    <3>1. u = t
      BY <1>6, <2>3, StepIs DEF Ending
    <3> QED
      BY <1>1, <1>3, <2>1, <2>3, <3>1, EndingIs DEF Ending, Stays
  <2> QED
    BY <1>1, <2>1, <2>2, <2>3 DEF HeapStep
<1>7. ASSUME NEW i \in DOMAIN heap', NEW j \in DOMAIN heap', i < j, heap'[i].id = heap'[j].id,
             Stands(heap'[i].xmin), heap'[j].xmin \in Known(u)
      PROVE  heap'[i].xmax \in Known(u)
  <2>1. i \in DOMAIN heap
    BY <1>7, BeforeIs
  <2>2. ASSUME NEW p \in DOMAIN heap, i < p, heap[p].id = heap[i].id, heap[p].xmin \in Known(u)
        PROVE  heap'[i].xmax \in Known(u)
    <3>1. heap[i].xmax \in Known(u)
      BY <1>3, <1>5, <1>7, <2>1, <2>2 DEF Stays
    <3>2. heap'[i] = heap[i]
      BY <1>4, <2>1, <3>1, StepIs
    <3> QED
      BY <3>1, <3>2
  <2>3. CASE j \in DOMAIN heap
    BY <1>3, <1>7, <2>1, <2>2, <2>3 DEF Stays
  <2>4. CASE j \in New
    <3>1. heap'[j].xmin = t
      BY <1>1, <2>4 DEF HeapStep
    <3>2. u = t
      BY <1>7, <3>1, StepIs
    <3>3. PICK p \in DOMAIN heap : /\ Ending(t, p) /\ Copy(t, p, j) /\ heap[i].id = heap[p].id
                                   /\ Stands(heap[i].xmin) => i <= p
      BY <1>7, <2>1, <2>4, NewIs
    <3>4. heap[p].xmin \in Known(t)
      BY <1>1, <3>3, EndingIs DEF Ending
    <3>5. CASE i = p
      BY <3>2, <3>3, <3>5 DEF Ending, Known
    <3>6. CASE i # p
      <4>1. i \in Nat /\ p \in Nat
        BY <2>1, VersionTypes
      <4>2. i < p
        BY <1>3, <1>7, <2>1, <3>3, <3>6, <4>1 DEF Stays
      <4> QED
        BY <2>2, <3>2, <3>3, <3>4, <4>2
    <3> QED
      BY <3>5, <3>6
  <2> QED
    BY <2>3, <2>4 DEF New
<1> QED
  BY <1>6, <1>7

\* A transaction sees no version of a vertex whose end it sees.
LEMMA GoneIsUnseen ==
    ASSUME IInv, DInv, NEW t \in Txns, status[t] = "running",
           NEW m \in DOMAIN heap, Stands(heap[m].xmin), IsLast(m), heap[m].xmax \in Known(t),
           NEW i \in DOMAIN heap, heap[i].id = heap[m].id,
           NEW c \in Int, c >= tx[t].cid, VisibleAt(t, c, heap[i])
    PROVE  FALSE
<1>1. heap[i].xmin \in Known(t)
  BY DEF VisibleAt, Sees, Known
<1>2. Stands(heap[i].xmin)
  BY <1>1, StandsIs
<1>3. ~Committed(t) /\ t \notin tx[t].snap
  BY StandsIs, VersionTypes
<1>4. i \in Nat /\ m \in Nat /\ heap[i].cmax \in Nat /\ tx[t].cid \in Nat
  BY VersionTypes
<1>5. ~(i > m)
  BY <1>2 DEF IsLast
<1>6. heap[i].xmax \in Known(t) => heap[i].xmax = t /\ heap[i].cmax >= tx[t].cid
  <2> SUFFICES ASSUME heap[i].xmax \in Known(t)
               PROVE  heap[i].xmax = t /\ heap[i].cmax >= tx[t].cid
    OBVIOUS
  <2>1. heap[i].xmax = t
    BY DEF VisibleAt, Sees, Known
  <2>2. ~(heap[i].cmax < c)
    BY <2>1 DEF VisibleAt, Sees
  <2> QED
    BY <1>4, <2>1, <2>2
<1>7. heap[m].xmax = t =>
          \A j \in DOMAIN heap : heap[j].id = heap[m].id /\ heap[j].xmax = t => heap[j].cmax < tx[t].cid
  BY DEF DInv, Commands
<1>8. CASE i = m
  BY <1>4, <1>6, <1>7, <1>8
<1>9. CASE i # m
  <2>1. i < m
    BY <1>4, <1>5, <1>9
  <2>2. heap[m].xmin \in Known(t)
    BY DEF DInv, SeesPast
  <2>3. heap[i].xmax \in Known(t)
    BY <1>2, <2>1, <2>2 DEF DInv, SeesPast
  <2>4. heap[i].xmax = t /\ heap[i].cmax >= tx[t].cid
    BY <1>6, <2>3
  <2>5. Follows(i, m)
    BY <1>2, <2>1 DEF DInv, Chain
  <2>6. heap[m].xmin = t
    BY <1>3, <2>4, <2>5 DEF Follows
  <2>7. Stands(heap[m].xmax) /\ heap[m].xmax \in Txns
    <3>1. heap[m].xmax = t \/ Committed(heap[m].xmax)
      BY StandsIs
    <3>2. Stands(heap[m].xmax)
      BY <3>1, StandsIs
    <3>3. heap[m].xmax \in Txns \cup {None}
      BY VersionTypes
    <3> QED
      BY <3>2, <3>3, StandsIs
  <2>8. heap[m].xmax = t
    BY <1>3, <2>6, <2>7 DEF DInv, EndsCommitted
  <2> QED
    BY <1>4, <1>7, <2>4, <2>8
<1> QED
  BY <1>8, <1>9

\* An edge still has its vertices.
LEMMA EndsExistStep ==
    ASSUME IInv, DInv, NEW t, WriteStep(t)
    PROVE  EndsExist'
<1>1. HeapStep(t) /\ t \in Txns /\ status[t] = "running"
  BY DEF WriteStep
<1>2. \A x : Committed(x)' <=> Committed(x)
  BY StepIs
<1> SUFFICES ASSUME NEW e \in DOMAIN heap', NEW n \in DOMAIN heap'[e].ends
             PROVE  \E i \in DOMAIN heap' :
                        /\ heap'[i].id = heap'[e].ends[n] /\ IsVertex(heap'[i])
                        /\ heap'[i].xmin = heap'[e].by \/ Committed(heap'[i].xmin)
  BY <1>2 DEF EndsExist, IsVertex
<1>3. EndsExist /\ DOMAIN heap \subseteq DOMAIN heap' /\ \A j \in DOMAIN heap : Stays(j)
  BY <1>1 DEF DInv, HeapStep
<1>4. ASSUME NEW p \in DOMAIN heap, heap'[e].ends = heap[p].ends, heap'[e].by = heap[p].by
      PROVE  \E i \in DOMAIN heap' :
                 /\ heap'[i].id = heap'[e].ends[n] /\ IsVertex(heap'[i])
                 /\ heap'[i].xmin = heap'[e].by \/ Committed(heap'[i].xmin)
  <2>1. PICK i \in DOMAIN heap : /\ heap[i].id = heap[p].ends[n] /\ IsVertex(heap[i])
                                 /\ heap[i].xmin = heap[p].by \/ Committed(heap[i].xmin)
    BY <1>3, <1>4 DEF EndsExist
  <2> QED
    BY <1>3, <1>4, <2>1 DEF Stays, IsVertex
<1>5. CASE e \in DOMAIN heap
  BY <1>3, <1>4, <1>5 DEF Stays
<1>6. CASE e \in New /\ Fresh(t, e)
  <2>1. heap'[e].by = t
    BY <1>6 DEF Fresh
  <2>2. ASSUME NEW i \in DOMAIN heap, heap[i].id = heap'[e].ends[n], IsVertex(heap[i]),
               NEW c \in Int, VisibleAt(t, c, heap[i])
        PROVE  \E l \in DOMAIN heap' :
                   /\ heap'[l].id = heap'[e].ends[n] /\ IsVertex(heap'[l])
                   /\ heap'[l].xmin = heap'[e].by \/ Committed(heap'[l].xmin)
    <3>1. heap[i].xmin \in Known(t)
      BY <2>2 DEF VisibleAt, Sees, Known
    <3>2. heap[i].xmin = t \/ Committed(heap[i].xmin)
      BY <1>1, <3>1, StandsIs
    <3> QED
      BY <1>3, <2>1, <2>2, <3>2 DEF Stays, IsVertex
  <2>3. ASSUME NEW i \in New, heap'[i].id = heap'[e].ends[n], IsVertex(heap'[i])
        PROVE  \E l \in DOMAIN heap' :
                   /\ heap'[l].id = heap'[e].ends[n] /\ IsVertex(heap'[l])
                   /\ heap'[l].xmin = heap'[e].by \/ Committed(heap'[l].xmin)
    BY <1>1, <2>1, <2>3 DEF HeapStep, New
  <2> QED
    BY <1>6, <2>2, <2>3 DEF Fresh
<1>7. ASSUME e \in New, NEW p \in DOMAIN heap, Copy(t, p, e)
      PROVE  \E i \in DOMAIN heap' :
                 /\ heap'[i].id = heap'[e].ends[n] /\ IsVertex(heap'[i])
                 /\ heap'[i].xmin = heap'[e].by \/ Committed(heap'[i].xmin)
  BY <1>4, <1>7 DEF Copy
<1> QED
  BY <1>1, <1>5, <1>6, <1>7 DEF HeapStep, New

\* The command ids of what the transactions have written, of one that only looks
\* on and of the one that writes.
LEMMA CommandsOther ==
    ASSUME IInv, DInv, NEW t, WriteStep(t), NEW u \in Txns \ {t}, status[u] = "running"
    PROVE  Commands(u)'
<1>1. HeapStep(t) /\ t \in Txns /\ tx'[u] = tx[u]
  BY DEF WriteStep
<1>2. Commands(u) /\ Stands(u) /\ u # None
  BY StandsIs DEF DInv
<1>3. \A j \in DOMAIN heap : heap[j].xmax = u => heap'[j] = heap[j]
  BY <1>2, StepIs
<1>4. DOMAIN heap \subseteq DOMAIN heap' /\ \A j \in DOMAIN heap : Stays(j)
  BY <1>1 DEF HeapStep
<1>5. \A j \in DOMAIN heap' : heap'[j].xmax = u => j \in DOMAIN heap /\ heap'[j] = heap[j]
  BY <1>1, <1>2 DEF HeapStep, New, Ending
<1>6. ASSUME NEW i \in DOMAIN heap', heap'[i].xmin = u
      PROVE  heap'[i].cmin <= tx'[u].cid /\ (heap'[i].cmin = tx'[u].cid => Written(u, i)')
  <2>1. i \in DOMAIN heap /\ heap[i].xmin = u /\ heap[i].cmin = heap'[i].cmin
    BY <1>1, <1>4, <1>6 DEF HeapStep, New, Stays
  <2>2. heap[i].cmin <= tx[u].cid /\ (heap[i].cmin = tx[u].cid => Written(u, i))
    BY <1>2, <2>1 DEF Commands
  <2>3. ASSUME Written(u, i) PROVE Written(u, i)'
    <3>1. tx[u].used /\ tx'[u].used
      BY <1>1, <2>3 DEF Written
    <3>2. CASE CreatesLast(tx[u])
      BY <1>1, <3>1, <3>2 DEF Written, CreatesLast, Clauses
    <3>3. ASSUME NEW j \in DOMAIN heap, heap[j].id = heap[i].id, heap[j].xmax = u,
                 VisibleAt(u, tx[u].cid, heap[j])
          PROVE  Written(u, i)'
      <4>1. heap'[j] = heap[j] /\ j \in DOMAIN heap' /\ heap'[i].id = heap[i].id
        BY <1>3, <1>4, <2>1, <3>3 DEF Stays
      <4>2. VisibleAt(u, tx[u].cid, heap[j])'
        BY <1>1, <3>3, <4>1 DEF VisibleAt, Sees
      <4> QED
        BY <3>1, <3>3, <4>1, <4>2 DEF Written
    <3> QED
      BY <2>3, <3>2, <3>3 DEF Written
  <2> QED
    BY <1>1, <2>1, <2>2, <2>3
<1>7. ASSUME NEW i \in DOMAIN heap', heap'[i].xmax = u
      PROVE  /\ heap'[i].cmax <= tx'[u].cid
             /\ IsLast(i)' => \A j \in DOMAIN heap' :
                                  heap'[j].id = heap'[i].id /\ heap'[j].xmax = u =>
                                      heap'[j].cmax < tx'[u].cid
  <2>1. i \in DOMAIN heap /\ heap'[i] = heap[i]
    BY <1>5, <1>7
  <2>2. IsLast(i)' => IsLast(i)
    BY <2>1, StepIs
  <2> QED
    BY <1>1, <1>2, <1>5, <1>7, <2>1, <2>2 DEF Commands
<1> QED
  BY <1>6, <1>7 DEF Commands

\* The command ids of what the transaction itself writes.
LEMMA CommandsOwn ==
    ASSUME IInv, IInv', DInv, NEW t, WriteStep(t)
    PROVE  Commands(t)'
<1>1. HeapStep(t) /\ ClockStep(t) /\ t \in Txns /\ status[t] = "running" /\ tx'[t].snap = tx[t].snap
  BY DEF WriteStep
<1>2. Commands(t) /\ Stands(t) /\ t # None /\ ~Committed(t)
  BY <1>1, StandsIs DEF DInv
<1>3. \A j \in DOMAIN heap : heap[j].xmax = t => heap'[j] = heap[j]
  BY <1>2, StepIs
<1>4. DOMAIN heap \subseteq DOMAIN heap' /\ \A j \in DOMAIN heap : Stays(j)
  BY <1>1 DEF HeapStep
<1>5. PICK c \in Nat, d \in Nat : c = tx[t].cid /\ d = tx'[t].cid /\ c <= d
  BY <1>1, VersionTypes DEF ClockStep
<1>6. ASSUME NEW i \in DOMAIN heap', heap'[i].xmin = t
      PROVE  heap'[i].cmin <= d /\ (heap'[i].cmin = d => Written(t, i)')
  <2>1. CASE i \in DOMAIN heap
    <3>1. heap[i].xmin = t /\ heap[i].cmin = heap'[i].cmin /\ heap[i].cmin \in Nat /\ heap'[i].id = heap[i].id
      BY <1>4, <1>6, <2>1, VersionTypes DEF Stays
    <3>2. heap[i].cmin <= c /\ (heap[i].cmin = c => Written(t, i))
      BY <1>2, <1>5, <2>1, <3>1 DEF Commands
    <3>3. ASSUME Written(t, i), c = d PROVE Written(t, i)'
      <4>1. tx[t].used /\ tx'[t].used /\ (CreatesLast(tx[t]) => CreatesLast(tx'[t]))
        BY <1>1, <1>5, <3>3 DEF Written, ClockStep
      <4>2. CASE CreatesLast(tx[t])
        BY <4>1, <4>2 DEF Written, CreatesLast, Clauses
      <4>3. ASSUME NEW j \in DOMAIN heap, heap[j].id = heap[i].id, heap[j].xmax = t,
                   VisibleAt(t, c, heap[j])
            PROVE  Written(t, i)'
        <5>1. heap'[j] = heap[j] /\ j \in DOMAIN heap'
          BY <1>3, <1>4, <4>3
        <5>2. VisibleAt(t, tx[t].cid, heap[j])'
          BY <1>1, <1>5, <3>3, <4>3, <5>1 DEF VisibleAt, Sees
        <5> QED
          BY <3>1, <4>1, <4>3, <5>1, <5>2 DEF Written
      <4> QED
        BY <1>5, <3>3, <4>2, <4>3 DEF Written
    <3> QED
      BY <1>5, <3>1, <3>2, <3>3
  <2>2. CASE i \in New
    <3>1. heap'[i].cmin <= c
      BY <1>1, <1>5, <2>2 DEF HeapStep, Fresh, Copy
    <3>2. heap'[i].cmin \in Nat
      BY DEF IInv, HeapInv, VersionOK
    <3>3. ASSUME heap'[i].cmin = d PROVE Written(t, i)'
      <4>1. c = d
        BY <1>5, <3>1, <3>2, <3>3
      <4>2. tx'[t].used
        BY <1>1, <1>5, <2>2, <3>3 DEF ClockStep
      <4>3. CASE CreatesLast(tx'[t])
        BY <4>2, <4>3 DEF Written, CreatesLast, Clauses
      <4>4. ASSUME NEW p \in DOMAIN heap, Ending(t, p), Copy(t, p, i) PROVE Written(t, i)'
        <5>1. /\ p \in DOMAIN heap' /\ heap'[p].id = heap'[i].id /\ heap'[p].xmax = t /\ heap'[p].cmax = c
              /\ heap'[p].xmin = heap[p].xmin /\ heap'[p].cmin = heap[p].cmin
          BY <1>4, <1>5, <4>4 DEF Ending, Copy, Stays
        <5>2. IF heap[p].xmin = t THEN heap[p].cmin < c ELSE heap[p].xmin \in tx[t].snap
          BY <1>5, <4>4 DEF Ending, VisibleAt, Sees
        <5>3. VisibleAt(t, tx[t].cid, heap[p])'
          BY <1>1, <1>5, <4>1, <5>1, <5>2 DEF VisibleAt, Sees
        <5> QED
          BY <4>2, <5>1, <5>3 DEF Written
      <4> QED
        BY <1>1, <1>5, <2>2, <3>3, <4>3, <4>4 DEF ClockStep
    <3> QED
      BY <1>5, <3>1, <3>2, <3>3
  <2> QED
    BY <2>1, <2>2 DEF New
<1>7. ASSUME NEW i \in DOMAIN heap', heap'[i].xmax = t
      PROVE  i \in DOMAIN heap /\ heap'[i].cmax \in Nat /\ heap'[i].cmax <= c
  <2>1. i \in DOMAIN heap
    BY <1>1, <1>2, <1>7 DEF HeapStep, New
  <2>2. CASE heap'[i] = heap[i]
    BY <1>2, <1>5, <1>7, <2>1, <2>2, VersionTypes DEF Commands
  <2>3. CASE Ending(t, i)
    BY <1>5, <2>1, <2>3 DEF Ending
  <2> QED
    BY <1>1, <2>1, <2>2, <2>3 DEF HeapStep
<1>8. ASSUME NEW i \in DOMAIN heap', heap'[i].xmax = t, IsLast(i)',
             NEW j \in DOMAIN heap', heap'[j].id = heap'[i].id, heap'[j].xmax = t
      PROVE  heap'[j].cmax < d
  <2>1. /\ i \in DOMAIN heap /\ j \in DOMAIN heap /\ heap'[j].cmax \in Nat /\ heap'[j].cmax <= c
        /\ heap[i].id = heap[j].id /\ heap'[i].id = heap[i].id
    BY <1>4, <1>7, <1>8 DEF Stays
  <2>2. CASE Ending(t, i)
    <3>1. ASSUME NEW l \in New, heap'[l].id = heap[i].id PROVE FALSE
      <4>1. i < l /\ l \in DOMAIN heap' /\ heap'[l].xmin = t
        BY <1>1, <2>1, <3>1 DEF HeapStep, New
      <4>2. i \in Nat /\ l \in Nat
        BY <2>1, <4>1, VersionTypes, DomainNext
      <4>3. ~Stands(heap[l].xmin)'
        BY <1>8, <2>1, <3>1, <4>1, <4>2 DEF IsLast
      <4>4. Stands(t)' <=> Stands(t)
        BY StepIs
      <4> QED
        BY <1>2, <4>1, <4>3, <4>4
    <3>2. Removed(t, i)
      BY <2>2, <3>1 DEF Removed
    <3>3. d = c + 1
      BY <1>5, <2>1, <3>2 DEF WriteStep
    <3> QED
      BY <2>1, <3>3
  <2>3. CASE ~Ending(t, i)
    <3>1. heap'[i] = heap[i] /\ heap[i].xmax = t
      BY <1>1, <1>8, <2>1, <2>3 DEF HeapStep
    <3>2. IsLast(i)
      BY <1>8, <2>1, StepIs
    <3>3. Stands(heap[i].xmin)
      BY <1>1, <1>2, <2>1, <3>1, StandsIs DEF DInv, EndsCommitted
    <3>4. ~Ending(t, j)
      <4> SUFFICES ASSUME Ending(t, j) PROVE FALSE
        OBVIOUS
      <4>1. IsLast(j) /\ Stands(heap[j].xmin)
        BY <2>1, StepIs
      <4>2. i \in Nat /\ j \in Nat
        BY <2>1, VersionTypes
      <4>3. ~(i > j) /\ ~(j > i)
        BY <2>1, <3>2, <3>3, <4>1 DEF IsLast
      <4>4. i = j
        BY <4>2, <4>3
      <4> QED
        BY <2>3, <4>4
    <3>5. heap'[j] = heap[j] /\ heap[j].xmax = t
      BY <1>1, <1>8, <2>1, <3>4 DEF HeapStep
    <3>6. heap[j].cmax < c
      BY <1>2, <1>5, <2>1, <3>1, <3>2, <3>5 DEF Commands
    <3> QED
      BY <1>5, <2>1, <3>5, <3>6
  <2> QED
    BY <2>2, <2>3
<1>9. \A i \in DOMAIN heap' : heap'[i].xmax = t => heap'[i].cmax <= d
  BY <1>5, <1>7
<1> QED
  BY <1>5, <1>6, <1>8, <1>9 DEF Commands

\* What is left of a DELETE stays to be done.
PendingKept(t) == \A id : Pending(t, id) => Pending(t, id)'

\* An edge is still attached, or detached with its vertex.
LEMMA EdgesStep ==
    ASSUME IInv, IInv', DInv, Lineage', EndsExist', SawCommitted', NEW t, WriteStep(t), PendingKept(t),
           \A i \in DOMAIN heap : Removed(t, i) /\ IsVertex(heap[i]) => Pending(t, heap[i].id)'
    PROVE  Edges'
<1>1. HeapStep(t) /\ t \in Txns /\ status[t] = "running" /\ \A u \in Txns \ {t} : tx'[u] = tx[u]
  BY DEF WriteStep
<1>2. Stands(t) /\ t # None /\ ~Committed(t) /\ ~Stands(None) /\ t \in Known(t)
  BY <1>1, StandsIs DEF Known
<1>3. DOMAIN heap \subseteq DOMAIN heap' /\ \A j \in DOMAIN heap : Stays(j)
  BY <1>1 DEF HeapStep
<1>4. /\ \A x : (Committed(x)' <=> Committed(x)) /\ (Stands(x)' <=> Stands(x))
      /\ \A u \in Txns : Known(u)' = Known(u)
  BY StepIs
<1>5. \A u \in Txns : \A id : Pending(u, id) => Pending(u, id)'
  <2> SUFFICES ASSUME NEW u \in Txns, u # t, NEW id, Pending(u, id) PROVE Pending(u, id)'
    BY DEF PendingKept
  <2>1. tx'[u] = tx[u]
    BY <1>1
  <2> QED
    BY <2>1 DEF Pending, Clauses
<1> SUFFICES ASSUME NEW e \in DOMAIN heap', NEW m \in DOMAIN heap',
                    NEW n \in DOMAIN heap'[e].ends, heap'[e].ends[n] = heap'[m].id,
                    Stands(heap'[m].xmin), IsLast(m)'
             PROVE  Attached(e, m)' /\ Detached(e, m)'
  BY <1>4 DEF Edges
<1> DEFINE Gone(xmax, m1) == xmax \in Txns /\ (xmax = m1 \/ Committed(xmax))
<1>6. CASE m \in New
  <2>1. heap'[m].xmax = None /\ None \notin Txns
    BY <1>1, <1>6, TxnAssumption DEF HeapStep
  <2>2. ~(None \in heap'[e].see /\ None # heap'[e].by)
    BY <1>2, <1>4, StandsIs DEF SawCommitted
  <2> QED
    BY <2>1, <2>2 DEF Attached, Detached
<1>7. CASE m \in DOMAIN heap /\ Ending(t, m)
  <2>1. heap'[m].xmax = t /\ heap'[m].xsee = Known(t)
    BY <1>7 DEF Ending
  <2>2. Attached(e, m)'
    BY <1>2, <1>4, <2>1 DEF Attached, SawCommitted
  <2>3. Removed(t, m)
    <3> SUFFICES ASSUME NEW l \in New, heap'[l].id = heap[m].id PROVE FALSE
      BY <1>7 DEF Removed
    <3>1. m < l /\ l \in DOMAIN heap' /\ heap'[l].xmin = t /\ heap'[l].id = heap'[m].id
      BY <1>1, <1>3, <1>7 DEF HeapStep, New, Stays
    <3>2. m \in Nat /\ l \in Nat
      BY <1>7, <3>1, VersionTypes, DomainNext
    <3>3. ~Stands(heap[l].xmin)'
      BY <3>1, <3>2 DEF IsLast
    <3> QED
      BY <1>2, <1>4, <3>1, <3>3
  <2>4. IsVertex(heap[m])
    <3>1. PICK i \in DOMAIN heap' : heap'[i].id = heap'[m].id /\ IsVertex(heap'[i])
      BY DEF EndsExist, IsVertex
    <3>2. heap'[m].ends = heap'[i].ends
      BY <3>1 DEF Lineage
    <3> QED
      BY <1>3, <1>7, <3>1, <3>2 DEF Stays, IsVertex
  <2>5. Pending(t, heap[m].id)' /\ heap'[m].id = heap[m].id
    BY <1>3, <1>7, <2>3, <2>4 DEF Stays
  <2>6. Pending(heap[m].xmax, heap[m].id)'
    BY <2>1, <2>5 DEF Pending
  <2>7. heap'[m].xsee = Known(heap[m].xmax)'
    BY <1>1, <1>4, <2>1 DEF Known
  <2> QED
    BY <2>2, <2>6, <2>7 DEF Detached
<1>8. CASE m \in DOMAIN heap /\ heap'[m] = heap[m]
  <2>1. IsLast(m) /\ Stands(heap[m].xmin)
    BY <1>8, StepIs
  <2>2. ASSUME NEW p \in DOMAIN heap, heap'[e].ends = heap[p].ends, heap'[e].by = heap[p].by,
               heap'[e].see = heap[p].see, Stands(heap'[e].xmin) => Stands(heap[p].xmin),
               Gone(heap[p].xmax, heap[m].xmax) /\ Stands(heap[m].xmax) => Gone(heap'[e].xmax, heap[m].xmax)
        PROVE  Attached(e, m)' /\ Detached(e, m)'
    <3>1. Attached(p, m) /\ Detached(p, m)
      BY <1>8, <2>1, <2>2 DEF DInv, Edges
    <3>2. Attached(e, m)'
      BY <1>8, <2>2, <3>1 DEF Attached
    <3>3. ASSUME heap[m].xmax \in Txns, Stands(heap[m].xmax), heap[p].by \in heap[m].xsee,
                 Stands(heap'[e].xmin)
          PROVE  \/ Pending(heap[m].xmax, heap[m].id)' /\ heap'[m].xsee = Known(heap[m].xmax)'
                 \/ Gone(heap'[e].xmax, heap[m].xmax)
      <4>1. CASE Pending(heap[m].xmax, heap[m].id) /\ heap[m].xsee = Known(heap[m].xmax)
        <5>1. PICK u, id : u \in Txns /\ u = heap[m].xmax /\ id = heap[m].id
          BY <3>3
        <5>2. Pending(u, id)' /\ Known(u)' = Known(u)
          BY <1>4, <1>5, <4>1, <5>1
        <5>3. u = heap'[m].xmax /\ id = heap'[m].id
          BY <1>8, <5>1
        <5>4. Pending(heap[m].xmax, heap[m].id)'
          BY <5>2, <5>3 DEF Pending
        <5>5. heap'[m].xsee = Known(heap[m].xmax)'
          BY <1>8, <4>1, <5>1, <5>2, <5>3 DEF Known
        <5> QED
          BY <5>4, <5>5
      <4>2. CASE Gone(heap[p].xmax, heap[m].xmax)
        BY <2>2, <3>3, <4>2
      <4> QED
        BY <2>2, <3>1, <3>3, <4>1, <4>2 DEF Detached
    <3>4. Detached(e, m)'
      BY <1>4, <1>8, <2>2, <3>3 DEF Detached
    <3> QED
      BY <3>2, <3>4
  <2>3. CASE e \in DOMAIN heap
    <3>1. Gone(heap[e].xmax, heap[m].xmax) /\ Stands(heap[m].xmax) => Stands(heap[e].xmax)
      BY StandsIs
    <3>2. Stands(heap[e].xmax) => heap'[e] = heap[e]
      BY <2>3, StepIs
    <3> QED
      BY <1>3, <2>2, <2>3, <3>1, <3>2 DEF Stays
  <2>4. CASE e \in New /\ Fresh(t, e)
    <3>1. heap'[e].by = t /\ heap'[e].see = Known(t)
      BY <2>4 DEF Fresh
    <3>2. heap[m].xmax \notin Known(t)
      <4> SUFFICES ASSUME heap[m].xmax \in Known(t) PROVE FALSE
        OBVIOUS
      <4>1. heap[m].id \in 1 .. next_id - 1
        BY <1>8, VersionTypes
      <4>2. PICK i \in DOMAIN heap : /\ heap[i].id = heap[m].id
                                     /\ \E c \in Int : c >= tx[t].cid /\ VisibleAt(t, c, heap[i])
        BY <1>8, <2>4, <4>1 DEF Fresh
      <4>3. PICK c \in Int : c >= tx[t].cid /\ VisibleAt(t, c, heap[i])
        BY <4>2
      <4> QED
        BY <1>1, <1>8, <2>1, <4>2, <4>3, GoneIsUnseen
    <3>3. Attached(e, m)'
      BY <1>8, <3>1, <3>2 DEF Attached
    <3>4. ~(heap[m].xmax \in Txns /\ t \in heap[m].xsee)
      BY <1>2, <1>8, <3>2 DEF DInv, SawCommitted
    <3>5. Detached(e, m)'
      BY <1>8, <3>1, <3>4 DEF Detached
    <3> QED
      BY <3>3, <3>5
  <2>5. ASSUME e \in New, NEW p \in DOMAIN heap, Ending(t, p), Copy(t, p, e)
        PROVE  Attached(e, m)' /\ Detached(e, m)'
    <3>1. Stands(heap[p].xmin) /\ ~Stands(heap[p].xmax)
      BY <1>1, <2>5, EndingIs DEF Ending
    <3>2. ~(Gone(heap[p].xmax, heap[m].xmax) /\ Stands(heap[m].xmax))
      BY <3>1, StandsIs
    <3> QED
      BY <2>2, <2>5, <3>1, <3>2 DEF Copy
  <2> QED
    BY <1>1, <2>3, <2>4, <2>5 DEF HeapStep, New
<1> QED
  BY <1>1, <1>6, <1>7, <1>8 DEF HeapStep, New

-----------------------------------------------------------------------------
(* The end of a transaction, and the beginning of a statement.               *)

\* A cursor that is over.
Stopped(t) ==
    /\ t \in Txns /\ status[t] = "running" /\ heap' = heap
    /\ \A u \in Txns \ {t} : tx'[u] = tx[u] /\ status'[u] = status[u]
    /\ tx'[t].pc = "over" /\ tx'[t].curcid = tx[t].curcid /\ tx'[t].used = tx[t].used
    /\ tx'[t].base = tx[t].base /\ tx'[t].cid = tx[t].cid

\* When a transaction is rolled back, the last version of an entity is the one that
\* was the last before, or one that the transaction had ended.
LEMMA LastAfterAbort ==
    ASSUME IInv, DInv, NEW t, Stopped(t), status'[t] = "aborted",
           NEW m \in DOMAIN heap, Stands(heap[m].xmin), heap[m].xmin # t, IsLast(m)'
    PROVE  IsLast(m) \/ heap[m].xmax = t
<1> SUFFICES ASSUME NEW j \in DOMAIN heap, j > m, heap[j].id = heap[m].id, Stands(heap[j].xmin),
                    heap[m].xmax # t
             PROVE  FALSE
  BY DEF IsLast
<1>1. m \in Nat /\ j \in Nat
  BY VersionTypes
<1>2. Follows(m, j)
  BY <1>1 DEF DInv, Chain
<1>3. PICK l \in DOMAIN heap : m < l /\ heap[l].id = heap[m].id /\ heap[l].xmin = heap[m].xmax
  BY <1>2 DEF Follows
<1>4. Stands(heap[m].xmax) /\ heap[m].xmax \in Txns
  BY <1>2, StandsIs DEF Follows
<1>5. Stands(heap[l].xmin)'
  BY <1>3, <1>4 DEF Stands, Stopped
<1>6. l \in Nat
  BY VersionTypes
<1>7. ~Stands(heap[l].xmin)'
  BY <1>1, <1>3, <1>6 DEF IsLast, Stopped
<1> QED
  BY <1>5, <1>7

\* What a rollback keeps.
LEMMA AbortKeeps ==
    ASSUME IInv, DInv, NEW t, Stopped(t), status'[t] = "aborted"
    PROVE  DInv'
<1>1. t \in Txns /\ status[t] = "running" /\ heap' = heap
  BY DEF Stopped
<1>2. \A x : Committed(x)' <=> Committed(x)
  BY DEF Stopped, Committed
<1>3. \A x : Stands(x)' <=> (Stands(x) /\ x # t)
  BY <1>1, TxnAssumption DEF Stopped, Stands
<1>4. ~Committed(t) /\ Stands(t) /\ t # Boot
  BY <1>1, StandsIs
<1>5. \A u \in Txns \ {t} : tx'[u] = tx[u] /\ Known(u)' = Known(u) /\ (status'[u] = "running" => status[u] = "running")
  BY DEF Stopped, Known
<1>6. Lineage' /\ SawCommitted' /\ EndsExist'
  <2>1. Lineage'
    BY <1>1, <1>2 DEF DInv, Lineage
  <2>2. SawCommitted'
    BY <1>1, <1>2 DEF DInv, SawCommitted
  <2>3. EndsExist'
    BY <1>1, <1>2 DEF DInv, EndsExist, IsVertex
  <2> QED
    BY <2>1, <2>2, <2>3
<1>7. EndsCommitted'
  BY <1>1, <1>2, <1>3 DEF DInv, EndsCommitted
<1>8. Chain'
  BY <1>1, <1>2, <1>3 DEF DInv, Chain, Follows
<1>9. SeesPast'
  <2> SUFFICES ASSUME NEW u \in Txns, status'[u] = "running"
               PROVE  /\ \A i \in DOMAIN heap : heap[i].xmax \in Known(u) => heap[i].xmin \in Known(u)
                      /\ \A i, j \in DOMAIN heap :
                            (i < j /\ heap[i].id = heap[j].id /\ Stands(heap[i].xmin)
                                   /\ heap[j].xmin \in Known(u)) => heap[i].xmax \in Known(u)
    <3>1. \A u \in Txns : status'[u] = "running" => u # t
      OBVIOUS
    <3>2. \A u \in Txns : status'[u] = "running" => Known(u)' = Known(u)
      BY <1>5, <3>1
    <3> QED
      BY <1>1, <1>3, <3>2 DEF SeesPast
  <2>1. u # t /\ status[u] = "running"
    BY <1>5
  <2> QED
    BY <2>1 DEF DInv, SeesPast
<1>10. ASSUME NEW u \in Txns, status'[u] = "running" PROVE Commands(u)'
  <2>1. u # t /\ status[u] = "running" /\ tx'[u] = tx[u]
    BY <1>5, <1>10
  <2>2. Commands(u) /\ Stands(u)
    BY <2>1, StandsIs DEF DInv
  <2>3. ASSUME NEW i \in DOMAIN heap, heap[i].xmax = u, IsLast(i)' PROVE IsLast(i)
    <3>1. heap[i].xmin = u \/ Committed(heap[i].xmin)
      BY <2>2, <2>3 DEF DInv, EndsCommitted
    <3>2. Stands(heap[i].xmin) /\ heap[i].xmin # t
      BY <1>4, <2>1, <2>2, <3>1, StandsIs
    <3> QED
      BY <2>1, <2>3, <3>2, LastAfterAbort
  <2>4. \A i \in DOMAIN heap : Written(u, i) => Written(u, i)'
    BY <1>1, <2>1 DEF Written, CreatesLast, Clauses, VisibleAt, Sees
  <2> QED
    BY <1>1, <2>1, <2>2, <2>3, <2>4 DEF Commands
<1>11. Edges'
  <2> SUFFICES ASSUME NEW e \in DOMAIN heap, NEW m \in DOMAIN heap,
                      NEW n \in DOMAIN heap[e].ends, heap[e].ends[n] = heap[m].id,
                      Stands(heap[m].xmin), heap[m].xmin # t, IsLast(m)'
               PROVE  Attached(e, m)' /\ Detached(e, m)'
    BY <1>1, <1>3 DEF Edges
  <2>1. CASE heap[m].xmax = t
    <3>1. Attached(e, m)'
      BY <1>1, <1>4, <2>1 DEF Attached, DInv, SawCommitted
    <3>2. Detached(e, m)'
      BY <1>1, <1>3, <2>1 DEF Detached
    <3> QED
      BY <3>1, <3>2
  <2>2. CASE heap[m].xmax # t /\ IsLast(m)
    <3>1. Attached(e, m) /\ Detached(e, m)
      BY <2>2 DEF DInv, Edges
    <3>2. Attached(e, m)'
      BY <1>1, <3>1 DEF Attached
    <3>3. ASSUME heap[m].xmax \in Txns,
                 Pending(heap[m].xmax, heap[m].id), heap[m].xsee = Known(heap[m].xmax)
          PROVE  Pending(heap[m].xmax, heap[m].id)' /\ heap'[m].xsee = Known(heap[m].xmax)'
      <4>1. PICK u \in Txns \ {t} : u = heap[m].xmax
        BY <2>2, <3>3
      <4>2. tx'[u] = tx[u] /\ heap'[m].xmax = u
        BY <1>1, <1>5, <4>1
      <4>3. Pending(u, heap[m].id)'
        BY <1>1, <3>3, <4>1, <4>2 DEF Pending, Clauses
      <4>4. Known(heap[m].xmax)' = Known(u)
        BY <4>2 DEF Known
      <4> QED
        BY <1>1, <3>3, <4>1, <4>2, <4>3, <4>4 DEF Pending
    <3>4. Detached(e, m)'
      BY <1>1, <1>2, <1>3, <3>1, <3>3 DEF Detached
    <3> QED
      BY <3>2, <3>4
  <2> QED
    BY <2>1, <2>2, LastAfterAbort
<1>12. \A u \in Txns : Cursors(u)'
  <2>1. \A u \in Txns \ {t} : Cursors(u)'
    BY <1>5 DEF DInv, Cursors
  <2>2. Cursors(t)'
    BY <1>1 DEF DInv, Cursors, Stopped
  <2> QED
    BY <2>1, <2>2
<1> QED
  BY <1>6, <1>7, <1>8, <1>9, <1>10, <1>11, <1>12 DEF DInv

\* What a commit keeps: every edge that the transaction had to detach is.
LEMMA CommitKeeps ==
    ASSUME IInv, DInv, NEW t, Stopped(t), status'[t] = "committed", tx[t].pc = "ready"
    PROVE  DInv'
<1>1. t \in Txns /\ status[t] = "running" /\ heap' = heap
  BY DEF Stopped
<1>2. \A x : Committed(x) => Committed(x)'
  BY DEF Stopped, Committed
<1>3. \A x : Stands(x)' <=> Stands(x)
  BY <1>1 DEF Stopped, Stands
<1>4. Committed(t)'
  BY <1>1 DEF Committed
<1>5. \A u \in Txns \ {t} : tx'[u] = tx[u] /\ Known(u)' = Known(u) /\ (status'[u] = "running" => status[u] = "running")
  BY DEF Stopped, Known
<1>6. Lineage' /\ SawCommitted' /\ EndsExist'
  <2>1. Lineage'
    BY <1>1, <1>2 DEF DInv, Lineage
  <2>2. SawCommitted'
    BY <1>1, <1>2 DEF DInv, SawCommitted
  <2>3. EndsExist'
    BY <1>1, <1>2 DEF DInv, EndsExist, IsVertex
  <2> QED
    BY <2>1, <2>2, <2>3
<1>7. EndsCommitted'
  BY <1>1, <1>2, <1>3 DEF DInv, EndsCommitted
<1>8. Chain'
  BY <1>1, <1>2, <1>3 DEF DInv, Chain, Follows
<1>9. SeesPast'
  <2>1. \A u \in Txns : status'[u] = "running" => u # t /\ status[u] = "running" /\ Known(u)' = Known(u)
    BY <1>5
  <2> QED
    BY <1>1, <1>3, <2>1 DEF DInv, SeesPast
<1>10. \A i \in DOMAIN heap : IsLast(i)' <=> IsLast(i)
  BY <1>1, <1>3 DEF IsLast
<1>11. ASSUME NEW u \in Txns, status'[u] = "running" PROVE Commands(u)'
  <2>1. u # t /\ status[u] = "running" /\ tx'[u] = tx[u]
    BY <1>5, <1>11
  <2>2. Commands(u)
    BY <2>1 DEF DInv
  <2>3. \A i \in DOMAIN heap : Written(u, i) => Written(u, i)'
    BY <1>1, <2>1 DEF Written, CreatesLast, Clauses, VisibleAt, Sees
  <2> QED
    BY <1>1, <1>10, <2>1, <2>2, <2>3 DEF Commands
<1>12. Edges'
  <2> SUFFICES ASSUME NEW e \in DOMAIN heap, NEW m \in DOMAIN heap,
                      NEW n \in DOMAIN heap[e].ends, heap[e].ends[n] = heap[m].id,
                      Stands(heap[m].xmin), IsLast(m)
               PROVE  Attached(e, m)' /\ Detached(e, m)'
    BY <1>1, <1>3, <1>10 DEF Edges
  <2>1. Attached(e, m) /\ Detached(e, m)
    BY DEF DInv, Edges
  <2>2. Attached(e, m)'
    BY <1>1, <2>1 DEF Attached
  <2>3. ASSUME heap[m].xmax \in Txns,
               Pending(heap[m].xmax, heap[m].id), heap[m].xsee = Known(heap[m].xmax)
        PROVE  Pending(heap[m].xmax, heap[m].id)' /\ heap'[m].xsee = Known(heap[m].xmax)'
    <3>1. PICK u \in Txns \ {t} : u = heap[m].xmax
      BY <2>3 DEF Pending
    <3>2. tx'[u] = tx[u] /\ heap'[m].xmax = u
      BY <1>1, <1>5, <3>1
    <3>3. Pending(u, heap[m].id)'
      BY <1>1, <2>3, <3>1, <3>2 DEF Pending, Clauses
    <3>4. Known(heap[m].xmax)' = Known(u)
      BY <3>2 DEF Known
    <3> QED
      BY <1>1, <2>3, <3>1, <3>2, <3>3, <3>4 DEF Pending
  <2>4. Detached(e, m)'
    BY <1>1, <1>2, <1>3, <2>1, <2>3 DEF Detached
  <2> QED
    BY <2>2, <2>4
<1>13. \A u \in Txns : Cursors(u)'
  <2>1. \A u \in Txns \ {t} : Cursors(u)'
    BY <1>5 DEF DInv, Cursors
  <2>2. Cursors(t)'
    BY <1>1 DEF DInv, Cursors, Stopped
  <2> QED
    BY <2>1, <2>2
<1> QED
  BY <1>6, <1>7, <1>8, <1>9, <1>11, <1>12, <1>13 DEF DInv

\* A statement begins: the transaction sees what has been committed.
Begins(t) ==
    /\ t \in Txns /\ status[t] = "running" /\ status' = status /\ heap' = heap
    /\ tx[t].pc = "ready" /\ \A u \in Txns \ {t} : tx'[u] = tx[u]
    /\ tx'[t].snap = {Boot} \cup {u \in Txns : status[u] = "committed"}
    /\ tx'[t].cid = tx[t].cid /\ tx'[t].used = tx[t].used

\* A new snapshot disturbs nothing: no command id is in use, and nothing is pending.
LEMMA BeginKeeps ==
    ASSUME IInv, DInv, NEW t, Begins(t), Cursors(t)'
    PROVE  DInv'
<1>1. t \in Txns /\ status[t] = "running" /\ heap' = heap /\ status' = status /\ tx[t].pc = "ready"
  BY DEF Begins
<1>2. \A x : (Committed(x)' <=> Committed(x)) /\ (Stands(x)' <=> Stands(x))
  BY <1>1 DEF Committed, Stands
<1>3. \A u \in Txns \ {t} : tx'[u] = tx[u] /\ Known(u)' = Known(u)
  BY DEF Begins, Known
<1>4. \A x : x \in Known(t)' <=> (x = t \/ Committed(x))
  BY DEF Begins, Known, Committed
<1>5. Lineage' /\ SawCommitted' /\ EndsExist'
  <2>1. Lineage'
    BY <1>1, <1>2 DEF DInv, Lineage
  <2>2. SawCommitted'
    BY <1>1, <1>2 DEF DInv, SawCommitted
  <2>3. EndsExist'
    BY <1>1, <1>2 DEF DInv, EndsExist, IsVertex
  <2> QED
    BY <2>1, <2>2, <2>3
<1>6. EndsCommitted' /\ Chain'
  <2>1. EndsCommitted'
    BY <1>1, <1>2 DEF DInv, EndsCommitted
  <2>2. Chain'
    BY <1>1, <1>2 DEF DInv, Chain, Follows
  <2> QED
    BY <2>1, <2>2
<1>7. SeesPast'
  <2>1. ASSUME NEW i \in DOMAIN heap, heap[i].xmax \in Known(t)' PROVE heap[i].xmin \in Known(t)'
    <3>1. heap[i].xmax = t \/ Committed(heap[i].xmax)
      BY <1>4, <2>1
    <3>2. Stands(heap[i].xmax) /\ heap[i].xmax \in Txns
      BY <1>1, <3>1, StandsIs, VersionTypes
    <3> QED
      BY <1>4, <3>1, <3>2 DEF DInv, EndsCommitted
  <2>2. ASSUME NEW i \in DOMAIN heap, NEW j \in DOMAIN heap, i < j, heap[i].id = heap[j].id,
               Stands(heap[i].xmin), heap[j].xmin \in Known(t)'
        PROVE  heap[i].xmax \in Known(t)'
    <3>1. heap[j].xmin = t \/ Committed(heap[j].xmin)
      BY <1>4, <2>2
    <3>2. Follows(i, j)
      BY <1>1, <2>2, <3>1, StandsIs DEF DInv, Chain
    <3> QED
      BY <1>4, <3>1, <3>2 DEF Follows
  <2>3. ASSUME NEW u \in Txns \ {t}, status[u] = "running"
        PROVE  /\ \A i \in DOMAIN heap : heap[i].xmax \in Known(u)' => heap[i].xmin \in Known(u)'
               /\ \A i, j \in DOMAIN heap :
                     (i < j /\ heap[i].id = heap[j].id /\ Stands(heap[i].xmin)
                            /\ heap[j].xmin \in Known(u)') => heap[i].xmax \in Known(u)'
    BY <1>3, <2>3 DEF DInv, SeesPast
  <2> QED
    BY <1>1, <1>2, <2>1, <2>2, <2>3 DEF SeesPast
<1>8. \A i \in DOMAIN heap : IsLast(i)' <=> IsLast(i)
  BY <1>1, <1>2 DEF IsLast
<1>9. ASSUME NEW u \in Txns, status'[u] = "running" PROVE Commands(u)'
  <2>1. status[u] = "running" /\ tx'[u].cid = tx[u].cid
    BY <1>1, <1>3, <1>9 DEF Begins
  <2>2. Commands(u)
    BY <2>1 DEF DInv
  <2>3. \A i \in DOMAIN heap : Written(u, i) => Written(u, i)'
    <3>1. CASE u = t
      BY <1>1, <3>1 DEF Written, DInv, Cursors
    <3>2. CASE u # t
      BY <1>1, <1>3, <3>2 DEF Written, CreatesLast, Clauses, VisibleAt, Sees
    <3> QED
      BY <3>1, <3>2
  <2> QED
    BY <1>1, <1>8, <2>1, <2>2, <2>3 DEF Commands
<1>10. Edges'
  <2> SUFFICES ASSUME NEW e \in DOMAIN heap, NEW m \in DOMAIN heap,
                      NEW n \in DOMAIN heap[e].ends, heap[e].ends[n] = heap[m].id,
                      Stands(heap[m].xmin), IsLast(m)
               PROVE  Attached(e, m)' /\ Detached(e, m)'
    BY <1>1, <1>2, <1>8 DEF Edges
  <2>1. Attached(e, m) /\ Detached(e, m)
    BY DEF DInv, Edges
  <2>2. Attached(e, m)'
    BY <1>1, <2>1 DEF Attached
  <2>3. ASSUME heap[m].xmax \in Txns,
               Pending(heap[m].xmax, heap[m].id), heap[m].xsee = Known(heap[m].xmax)
        PROVE  Pending(heap[m].xmax, heap[m].id)' /\ heap'[m].xsee = Known(heap[m].xmax)'
    <3>1. PICK u \in Txns \ {t} : u = heap[m].xmax
      BY <1>1, <2>3 DEF Pending
    <3>2. tx'[u] = tx[u] /\ heap'[m].xmax = u
      BY <1>1, <1>3, <3>1
    <3>3. Pending(u, heap[m].id)'
      BY <1>1, <2>3, <3>1, <3>2 DEF Pending, Clauses
    <3>4. Known(heap[m].xmax)' = Known(u)
      BY <3>2 DEF Known
    <3> QED
      BY <1>1, <2>3, <3>1, <3>2, <3>3, <3>4 DEF Pending
  <2>4. Detached(e, m)'
    BY <1>1, <1>2, <2>1, <2>3 DEF Detached
  <2> QED
    BY <2>2, <2>4
<1>11. \A u \in Txns : Cursors(u)'
  <2>1. \A u \in Txns \ {t} : Cursors(u)'
    BY <1>3 DEF DInv, Cursors
  <2> QED
    BY <2>1
<1> QED
  BY <1>5, <1>6, <1>7, <1>9, <1>10, <1>11 DEF DInv

-----------------------------------------------------------------------------
(* The end of a DELETE clause.                                               *)

\* When check_for_connected_edges finds no edge any more, every edge that the
\* transaction saw to one of the vertices is gone.
LEMMA CheckedIsGone ==
    ASSUME IInv, DInv, NEW t \in Txns, status[t] = "running", tx[t].pc = "end", Connected(t) = {},
           NEW e \in DOMAIN heap, NEW n \in DOMAIN heap[e].ends,
           <<tx[t].k, heap[e].ends[n]>> \in tx[t].htab,
           Stands(heap[e].xmin), heap[e].by \in Known(t)
    PROVE  heap[e].xmax \in Txns /\ (heap[e].xmax = t \/ Committed(heap[e].xmax))
<1>1. ~Committed(t) /\ Stands(t) /\ t # Boot /\ Commands(t)
  BY StandsIs DEF DInv
<1>2. \A x \in tx[t].snap : Committed(x)
  BY VersionTypes
<1>3. PICK c \in Nat : c = tx[t].cid
  BY VersionTypes
\* No version of the edge is visible.
<1>4. ASSUME NEW i \in DOMAIN heap, heap[i].id = heap[e].id PROVE ~VisibleAt(t, c, heap[i])
  <2>1. heap[i].ends = heap[e].ends
    BY <1>4 DEF DInv, Lineage
  <2> QED
    BY <1>3, <2>1 DEF Connected
\* So none was written under the current command.
<1>5. ASSUME NEW i \in DOMAIN heap, heap[i].id = heap[e].id, heap[i].xmin = t
      PROVE  heap[i].cmin < c
  <2>1. heap[i].cmin <= c /\ (heap[i].cmin = c => Written(t, i)) /\ heap[i].cmin \in Nat
    BY <1>1, <1>3, <1>5, VersionTypes DEF Commands
  <2>2. ~CreatesLast(tx[t])
    BY DEF CreatesLast
  <2>3. ~Written(t, i)
    BY <1>3, <1>4, <1>5, <2>2 DEF Written
  <2> QED
    BY <1>3, <2>1, <2>3
\* A version that the transaction knows has been ended by one that it knows.
<1>6. ASSUME NEW i \in DOMAIN heap, heap[i].id = heap[e].id, heap[i].xmin \in Known(t)
      PROVE  heap[i].xmax \in Known(t)
  <2>1. IF heap[i].xmin = t THEN heap[i].cmin < c ELSE heap[i].xmin \in tx[t].snap
    BY <1>5, <1>6 DEF Known
  <2>2. IF heap[i].xmax = t THEN heap[i].cmax < c ELSE heap[i].xmax \in tx[t].snap
    BY <1>4, <1>6, <2>1 DEF VisibleAt, Sees
  <2> QED
    BY <2>2 DEF Known
<1>7. heap[e].xmin \in Known(t)
  <2> SUFFICES ASSUME heap[e].xmin \notin Known(t) PROVE FALSE
    OBVIOUS
  <2>1. PICK n0 \in Nat : DOMAIN heap = 1 .. n0
    <3>1. PICK n0 \in Nat : n0 = Len(heap) /\ heap = [l \in 1 .. n0 |-> heap[l]]
      BY DEF IInv, HeapInv, Lists
    <3> QED
      BY <3>1
  <2> DEFINE S == {i \in DOMAIN heap : heap[i].id = heap[e].id /\ heap[i].xmin \in Known(t)}
  <2>2. S \in SUBSET (0 .. n0)
    BY <2>1
  <2>3. S # {}
    <3>1. PICK j \in DOMAIN heap : heap[j].id = heap[e].id /\ heap[j].xmin = heap[e].by
      BY DEF DInv, Lineage
    <3> QED
      BY <3>1
  <2>4. PICK i \in S : \A j \in S : i >= j
    <3> HIDE DEF S
    <3> QED
      BY <2>2, <2>3, MaxIs
  <2>5. heap[i].xmax \in Known(t) /\ Stands(heap[i].xmin)
    BY <1>6, StandsIs
  <2>6. i \in Nat /\ e \in Nat
    BY VersionTypes
  <2>7. CASE i < e
    <3>1. Follows(i, e)
      BY <2>5, <2>7 DEF DInv, Chain
    <3>2. PICK l \in DOMAIN heap : i < l /\ heap[l].id = heap[i].id /\ heap[l].xmin = heap[i].xmax
      BY <3>1 DEF Follows
    <3>3. l \in S /\ l \in Nat
      BY <2>5, <3>2, VersionTypes
    <3> QED
      BY <2>4, <2>6, <3>2, <3>3
  <2>8. CASE i > e
    <3>1. heap[e].xmax \in Known(t)
      BY <2>6, <2>8 DEF DInv, SeesPast
    <3> QED
      BY <3>1 DEF DInv, SeesPast
  <2>9. i # e
    OBVIOUS
  <2> QED
    BY <2>6, <2>7, <2>8, <2>9
<1>8. heap[e].xmax \in Known(t)
  BY <1>6, <1>7
<1>9. heap[e].xmax = t \/ Committed(heap[e].xmax)
  BY <1>8, StandsIs
<1> QED
  BY <1>1, <1>9, StandsIs, VersionTypes

\* A step that leaves the heap alone.
QuietStep(t) ==
    /\ t \in Txns /\ status[t] = "running" /\ status' = status /\ heap' = heap
    /\ \A u \in Txns \ {t} : tx'[u] = tx[u]
    /\ tx'[t].snap = tx[t].snap
    /\ \/ tx'[t].cid = tx[t].cid + 1
       \/ /\ tx'[t].cid = tx[t].cid /\ (tx[t].used => tx'[t].used)
          /\ tx[t].used /\ CreatesLast(tx[t]) => CreatesLast(tx'[t])

\* It is a step of a statement that ends no version.
LEMMA QuietIs ==
    ASSUME IInv, DInv, NEW t, QuietStep(t)
    PROVE  WriteStep(t) /\ \A i \in DOMAIN heap : ~Removed(t, i)
<1>1. heap' = heap /\ t \in Txns /\ status[t] = "running"
  BY DEF QuietStep
<1>2. New = {}
  BY <1>1 DEF New
<1>3. HeapStep(t)
  BY <1>1, <1>2 DEF HeapStep, Stays
<1>4. ClockStep(t)
  BY <1>2 DEF QuietStep, ClockStep
<1>5. ASSUME NEW i \in DOMAIN heap, Ending(t, i) PROVE FALSE
  <2>1. heap[i].xmax = t /\ Writable(t, i)
    BY <1>1, <1>5 DEF Ending
  <2>2. heap[i].xmax = None \/ status[heap[i].xmax] = "aborted"
    BY <1>1, <2>1, WritableIs
  <2> QED
    BY <1>1, <2>1, <2>2, TxnAssumption
<1> QED
  BY <1>3, <1>4, <1>5 DEF QuietStep, WriteStep, Removed

\* What a step of a statement keeps.
LEMMA WriteKeeps ==
    ASSUME IInv, IInv', DInv, NEW t, WriteStep(t), Cursors(t)', Edges'
    PROVE  DInv'
<1>1. Lineage' /\ SawCommitted' /\ EndsCommitted' /\ Chain' /\ SeesPast' /\ EndsExist'
  BY LineageStep, SawCommittedStep, EndsCommittedStep, ChainStep, SeesPastStep, EndsExistStep
<1>2. \A u \in Txns : status'[u] = "running" => Commands(u)'
  <2>1. status' = status
    BY DEF WriteStep
  <2> QED
    BY <2>1, CommandsOwn, CommandsOther
<1>3. \A u \in Txns : Cursors(u)'
  <2>1. \A u \in Txns \ {t} : tx'[u] = tx[u]
    BY DEF WriteStep
  <2>2. \A u \in Txns \ {t} : Cursors(u)'
    BY <2>1 DEF DInv, Cursors
  <2> QED
    BY <2>2
<1> QED
  BY <1>1, <1>2, <1>3 DEF DInv

\* What the end of a clause keeps.
LEMMA EndedKeeps ==
    ASSUME IInv, IInv', DInv, NEW t, QuietStep(t), tx[t].pc = "end", Cursors(t)',
           \A id : Pending(t, id) => Pending(t, id)' \/ (Connected(t) = {} /\ <<tx[t].k, id>> \in tx[t].htab)
    PROVE  DInv'
<1>1. heap' = heap /\ t \in Txns /\ status[t] = "running" /\ status' = status
  BY DEF QuietStep
<1>2. WriteStep(t)
  BY QuietIs
<1>3. /\ \A x : (Committed(x)' <=> Committed(x)) /\ (Stands(x)' <=> Stands(x))
      /\ \A u \in Txns : Known(u)' = Known(u)
  BY <1>2, StepIs
<1>4. Edges'
  <2> SUFFICES ASSUME NEW e \in DOMAIN heap, NEW m \in DOMAIN heap,
                      NEW n \in DOMAIN heap[e].ends, heap[e].ends[n] = heap[m].id,
                      Stands(heap[m].xmin), IsLast(m)
               PROVE  Attached(e, m)' /\ Detached(e, m)'
    <3>1. \A m \in DOMAIN heap : IsLast(m)' => IsLast(m)
      BY <1>2, StepIs
    <3> QED
      BY <1>1, <1>3, <3>1 DEF Edges
  <2>1. Attached(e, m) /\ Detached(e, m)
    BY DEF DInv, Edges
  <2>2. Attached(e, m)'
    BY <1>1, <2>1 DEF Attached
  <2>3. ASSUME heap[m].xmax \in Txns, heap[e].by \in heap[m].xsee, Stands(heap[e].xmin),
               Pending(heap[m].xmax, heap[m].id), heap[m].xsee = Known(heap[m].xmax)
        PROVE  \/ Pending(heap[m].xmax, heap[m].id)' /\ heap'[m].xsee = Known(heap[m].xmax)'
               \/ heap[e].xmax \in Txns /\ (heap[e].xmax = heap[m].xmax \/ Committed(heap[e].xmax))
    <3>1. PICK u, id : u \in Txns /\ u = heap[m].xmax /\ id = heap[m].id
      BY <2>3
    <3>2. u = heap'[m].xmax /\ id = heap'[m].id /\ Known(u)' = Known(u)
      BY <1>1, <1>3, <3>1
    <3>3. heap'[m].xsee = Known(heap[m].xmax)'
      BY <1>1, <2>3, <3>1, <3>2 DEF Known
    <3>4. CASE Pending(u, id)'
      <4>1. Pending(heap[m].xmax, heap[m].id)'
        BY <3>2, <3>4 DEF Pending
      <4> QED
        BY <3>3, <4>1
    <3>5. CASE ~Pending(u, id)'
      <4>1. u = t
        <5> SUFFICES ASSUME u # t PROVE FALSE
          OBVIOUS
        <5>1. tx'[u] = tx[u]
          BY <3>1 DEF QuietStep
        <5> QED
          BY <2>3, <3>1, <3>5, <5>1 DEF Pending, Clauses
      <4>2. Connected(t) = {} /\ <<tx[t].k, heap[e].ends[n]>> \in tx[t].htab
        BY <2>3, <3>1, <3>5, <4>1
      <4> QED
        BY <1>1, <2>3, <3>1, <4>1, <4>2, CheckedIsGone
    <3> QED
      BY <3>4, <3>5
  <2>4. Detached(e, m)'
    BY <1>1, <1>3, <2>1, <2>3 DEF Detached
  <2> QED
    BY <2>2, <2>4
<1> QED
  BY <1>2, <1>4, WriteKeeps

\* What every other step keeps.
LEMMA StatementKeeps ==
    ASSUME IInv, IInv', DInv, NEW t, WriteStep(t), Cursors(t)', PendingKept(t),
           \A i \in DOMAIN heap : Removed(t, i) /\ IsVertex(heap[i]) => Pending(t, heap[i].id)'
    PROVE  DInv'
<1>1. Lineage' /\ SawCommitted' /\ EndsExist'
  BY LineageStep, SawCommittedStep, EndsExistStep
<1>2. Edges'
  BY <1>1, EdgesStep
<1> QED
  BY <1>2, WriteKeeps

-----------------------------------------------------------------------------
(* The command of a cursor.                                                  *)

\* A cursor that goes on under the same command.
SameCommand(x, y) ==
    /\ y.stmt = x.stmt /\ y.snap = x.snap /\ y.htab = x.htab /\ y.base = x.base
    /\ y.cid = x.cid /\ y.used = x.used /\ y.curcid \in Int

\* A cursor at a clause of its query.
AtClause(x) == Cursor(x) /\ IsQuery(x.stmt) /\ x.k \in 1 .. Len(Clauses(x)) /\ x.curcid \in Int

\* A command that was used is left behind.
LEMMA Incremented ==
    ASSUME NEW x, Cursor(x), x.cid \in Nat, NEW y, y = CommandCounterIncrement(x)
    PROVE  /\ y.htab = x.htab /\ y.curcid = x.curcid
           /\ x.used => y.cid = x.cid + 1 /\ y.used = FALSE
           /\ ~x.used => y = x
<1>1. CASE x.used
  <2>1. PICK c \in Nat : c = x.cid + 1
    OBVIOUS
  <2>2. y = [x EXCEPT !.cid = c, !.used = FALSE]
    BY <1>1, <2>1 DEF CommandCounterIncrement, Cursor
  <2>3. y.cid = c /\ y.used = FALSE
    BY <2>2 DEF Cursor
  <2>4. y.htab = x.htab /\ y.curcid = x.curcid
    BY <2>2 DEF Cursor
  <2> QED
    BY <1>1, <2>1, <2>3, <2>4
<1>2. CASE ~x.used
  BY <1>2 DEF CommandCounterIncrement
<1> QED
  BY <1>1, <1>2

\* The same of a cursor whose command was used.
LEMMA CommandEnds ==
    ASSUME NEW x, AtClause(x), x.cid \in Nat, x.used, NEW y, y = CommandCounterIncrement(x)
    PROVE  /\ AtClause(y) /\ y.pc = x.pc /\ y.k = x.k /\ y.stmt = x.stmt /\ y.snap = x.snap /\ y.base = x.base
           /\ y.htab = x.htab /\ y.cid = x.cid + 1 /\ y.used = FALSE
<1>1. Cursor(y) /\ y.pc = x.pc /\ y.k = x.k /\ y.stmt = x.stmt /\ y.snap = x.snap /\ y.base = x.base
  BY IncrementedCursor DEF AtClause
<1>2. y.htab = x.htab /\ y.curcid = x.curcid /\ y.cid = x.cid + 1 /\ y.used = FALSE
  BY Incremented DEF AtClause
<1>3. AtClause(y)
  BY <1>1, <1>2 DEF AtClause, Clauses
<1> QED
  BY <1>1, <1>2, <1>3

\* A row that goes on, and the next row, belong to the same command.
LEMMA AfterMoves ==
    ASSUME NEW x, AtClause(x), NEW y, y = AfterClause(x)
    PROVE  SameCommand(x, y) /\ y.pc \in {"row", "last"}
<1>1. List(Clauses(x)) /\ Cursor(x)
  BY DEF AtClause, IsQuery, Clauses
<1>2. PICK n \in Nat : n = Len(Clauses(x)) /\ x.k \in 1 .. n
  BY <1>1, Zenon DEF List, AtClause
<1>3. x.curcid \in Int
  BY DEF AtClause
<1>4. PICK e \in x.k .. n, s \in 1 .. x.k : e = StageEnd(x) /\ s = NextStart(x)
  BY <1>1, <1>2, StageIs, NextStartIs
<1>5. PICK u \in Int, v \in Int : u = x.curcid + 1 /\ v = x.curcid - (x.k - s)
  <2>1. x.k \in Int /\ s \in Int
    BY <1>2, <1>4
  <2> QED
    BY <1>3, <2>1
<1>6. ASSUME NEW k, NEW r, NEW d \in Int, NEW p,
             y = Placed(x, k, r, d, p)
      PROVE  SameCommand(x, y) /\ y.pc \in {"row", "last"}
  <2>1. y.stmt = x.stmt /\ y.snap = x.snap /\ y.htab = x.htab
    BY <1>1, <1>6 DEF Cursor, Placed
  <2>2. y.base = x.base /\ y.cid = x.cid /\ y.used = x.used
    BY <1>1, <1>6 DEF Cursor, Placed
  <2>3. y.curcid = d /\ y.pc = "row"
    BY <1>1, <1>6 DEF Cursor, Placed
  <2> QED
    BY <2>1, <2>2, <2>3 DEF SameCommand
<1>7. CASE x.k < e
  <2>1. y = [x EXCEPT !.k = @ + 1, !.i = 1, !.lidx = 0, !.pc = "row", !.curcid = @ + 1]
    BY <1>4, <1>7 DEF AfterClause
  <2>2. PICK k : k = x.k + 1
    OBVIOUS
  <2>3. y = [x EXCEPT !.k = k, !.i = 1, !.lidx = 0, !.pc = "row", !.curcid = u]
    BY <1>5, <2>1, <2>2, Zenon
  <2>4. y = Placed(x, k, x.r, u, x.upto)
    BY <1>1, <2>3 DEF Cursor, Placed
  <2> QED
    BY <1>6, <2>4
<1>8. CASE x.k = e /\ x.r < Len(x.rows)
  <2>1. y = [x EXCEPT !.k = s, !.r = @ + 1, !.i = 1, !.lidx = 0, !.pc = "row",
                       !.curcid = @ - (x.k - s)]
    BY <1>2, <1>4, <1>8 DEF AfterClause
  <2>2. PICK r : r = x.r + 1
    OBVIOUS
  <2>3. y = Placed(x, s, r, v, x.upto)
    BY <1>1, <1>5, <2>1, <2>2 DEF Cursor, Placed
  <2> QED
    BY <1>6, <2>3
<1>9. CASE x.k = e /\ ~(x.r < Len(x.rows)) /\ x.r = Len(x.rows) /\ x.k < n
  <2>1. y = [x EXCEPT !.k = @ + 1, !.r = 1, !.i = 1, !.lidx = 0, !.pc = "row",
                       !.curcid = @ + 1, !.upto = 0]
    BY <1>2, <1>4, <1>9 DEF AfterClause
  <2>2. PICK k : k = x.k + 1
    OBVIOUS
  <2>3. y = Placed(x, k, 1, u, 0)
    BY <1>1, <1>5, <2>1, <2>2 DEF Cursor, Placed
  <2> QED
    BY <1>6, <2>3
<1>10. CASE x.k = e /\ ~(x.r < Len(x.rows)) /\ ~(x.r = Len(x.rows) /\ x.k < n)
  <2>1. y = [x EXCEPT !.pc = "last"]
    BY <1>2, <1>4, <1>10 DEF AfterClause
  <2>2. y.stmt = x.stmt /\ y.snap = x.snap /\ y.htab = x.htab /\ y.pc = "last"
    BY <1>1, <2>1 DEF Cursor
  <2>3. y.base = x.base /\ y.cid = x.cid /\ y.used = x.used /\ y.curcid = x.curcid
    BY <1>1, <2>1 DEF Cursor
  <2> QED
    BY <1>3, <2>2, <2>3 DEF SameCommand
<1> QED
  BY <1>2, <1>4, <1>7, <1>8, <1>9, <1>10

\* So does the SET of a MERGE.
LEMMA ThenSetMoves ==
    ASSUME NEW x, AtClause(x), NEW v, NEW y, y = ThenSet(x, v)
    PROVE  SameCommand(x, y) /\ y.pc \in {"row", "set", "last"}
<1>1. CASE v = None
  BY <1>1, AfterMoves DEF ThenSet
<1>2. CASE v # None
  <2>1. y = [x EXCEPT !.pc = "set", !.onset = v, !.i = 1, !.lidx = 0] /\ Cursor(x)
    BY <1>2 DEF ThenSet, AtClause
  <2>2. y.stmt = x.stmt /\ y.snap = x.snap /\ y.htab = x.htab /\ y.pc = "set"
    BY <2>1 DEF Cursor
  <2>3. y.base = x.base /\ y.cid = x.cid /\ y.used = x.used /\ y.curcid = x.curcid /\ x.curcid \in Int
    BY <2>1 DEF Cursor, AtClause
  <2> QED
    BY <2>2, <2>3 DEF SameCommand
<1> QED
  BY <1>1, <1>2

\* And the next item of a DELETE.
LEMMA NextItemMoves ==
    ASSUME NEW x, AtClause(x), x.pc = "row", NEW y, y = NextItem(x)
    PROVE  SameCommand(x, y) /\ y.pc \in {"row", "set", "last"}
<1>1. CASE x.i < Len(Clause(x).items)
  <2>1. PICK i : i = x.i + 1
    OBVIOUS
  <2>2. y = [x EXCEPT !.i = i] /\ Cursor(x)
    BY <1>1, <2>1, Zenon DEF NextItem, AtClause, Cursor
  <2>3. y.stmt = x.stmt /\ y.snap = x.snap /\ y.htab = x.htab /\ y.pc = "row"
    BY <2>2 DEF Cursor
  <2>4. y.base = x.base /\ y.cid = x.cid /\ y.used = x.used /\ y.curcid = x.curcid /\ x.curcid \in Int
    BY <2>2 DEF Cursor, AtClause
  <2> QED
    BY <2>3, <2>4 DEF SameCommand
<1>2. CASE ~(x.i < Len(Clause(x).items))
  BY <1>2, AfterMoves DEF NextItem
<1> QED
  BY <1>1, <1>2

\* A cursor that goes on with its statement.
Advances(x, z) ==
    /\ z.stmt = x.stmt /\ z.snap = x.snap /\ x.htab \subseteq z.htab /\ z.base <= z.cid
    /\ z.curcid \in Int /\ z.used \in BOOLEAN
    /\ \/ z.pc \in {"row", "set", "last"}
       \/ z.pc = "end" /\ (z.k = Len(Clauses(x)) \/ (x.pc = "end" /\ z.k = x.k))
    /\ \/ z.cid = x.cid + 1
       \/ z.cid = x.cid /\ (x.used => z.used) /\ (x.used /\ CreatesLast(x) => CreatesLast(z))

\* It keeps what the end of its DELETE clauses is waited for.
LEMMA AdvanceIs ==
    ASSUME IInv, NEW t \in Txns, tx[t].pc \in {"row", "set", "last", "end"},
           NEW z, Advances(tx[t], z), tx' = [tx EXCEPT ![t] = z]
    PROVE  /\ tx'[t] = z /\ \A u \in Txns \ {t} : tx'[u] = tx[u]
           /\ Cursors(t)' /\ PendingKept(t) /\ status[t] = "running"
<1>1. tx'[t] = z /\ \A u \in Txns \ {t} : tx'[u] = tx[u]
  BY DEF IInv, StatusInv
<1>2. status[t] = "running" /\ CursorOK(t, tx[t])
  BY DEF IInv, TxnInv, CursorOK
<1>3. Cursors(t)'
  BY <1>1 DEF Advances, Cursors
<1>4. PendingKept(t)
  <2>1. PICK n \in Nat : n = Len(Clauses(tx[t]))
    BY <1>2 DEF CursorOK, PlaceOK, IsQuery, List, Clauses
  <2>2. Clauses(z) = Clauses(tx[t])
    BY DEF Advances, Clauses
  <2> SUFFICES ASSUME NEW id, Pending(t, id) PROVE Pending(t, id)'
    BY DEF PendingKept
  <2>3. PICK k \in 1 .. n : /\ Clauses(tx[t])[k].op = "delete" /\ <<k, id>> \in tx[t].htab
                            /\ tx[t].pc = "end" => k <= tx[t].k
    BY <2>1 DEF Pending
  <2>4. Clauses(z)[k].op = "delete" /\ <<k, id>> \in z.htab /\ k \in 1 .. Len(Clauses(z))
    BY <2>1, <2>2, <2>3 DEF Advances
  <2>5. z.pc = "end" => k <= z.k
    BY <2>1, <2>3 DEF Advances
  <2>6. z.pc \in {"row", "set", "last", "end"}
    BY DEF Advances
  <2>7. Clauses(tx'[t]) = Clauses(z) /\ Clauses(tx[t])' = Clauses(tx'[t])
    BY <1>1 DEF Clauses
  <2> QED
    BY <1>1, <2>4, <2>5, <2>6, <2>7 DEF Pending
<1> QED
  BY <1>1, <1>2, <1>3, <1>4

\* A step of a cursor that writes no version.
LEMMA QuietKeeps ==
    ASSUME IInv, IInv', DInv, NEW t \in Txns, tx[t].pc \in {"row", "set", "last", "end"},
           NEW z, Advances(tx[t], z), tx' = [tx EXCEPT ![t] = z], heap' = heap, status' = status
    PROVE  DInv'
<1>1. /\ tx'[t] = z /\ \A u \in Txns \ {t} : tx'[u] = tx[u]
      /\ Cursors(t)' /\ PendingKept(t) /\ status[t] = "running"
  BY AdvanceIs
<1>2. QuietStep(t)
  BY <1>1 DEF QuietStep, Advances
<1>3. WriteStep(t) /\ \A i \in DOMAIN heap : ~Removed(t, i)
  BY <1>2, QuietIs
<1> QED
  BY <1>1, <1>3, StatementKeeps

\* An error.
LEMMA FailStops ==
    ASSUME IInv, DInv, NEW t \in Txns, tx[t].pc # "over", Fail(t)
    PROVE  DInv'
<1>1. status[t] = "running" /\ Cursor(tx[t]) /\ status' = [status EXCEPT ![t] = "aborted"]
  BY DEF IInv, TxnInv, CursorOK, Fail
<1>2. \A u \in Txns \ {t} : tx'[u] = tx[u] /\ status'[u] = status[u]
  BY DEF IInv, StatusInv, Fail
<1>3. status'[t] = "aborted"
  BY <1>1 DEF IInv, StatusInv
<1>4. tx'[t] = [tx[t] EXCEPT !.pc = "over"] /\ heap' = heap
  BY DEF IInv, StatusInv, Fail
<1>5. /\ tx'[t].pc = "over" /\ tx'[t].curcid = tx[t].curcid /\ tx'[t].used = tx[t].used
      /\ tx'[t].base = tx[t].base /\ tx'[t].cid = tx[t].cid
  BY <1>1, <1>4 DEF Cursor
<1> QED
  BY <1>1, <1>2, <1>3, <1>4, <1>5, AbortKeeps DEF Stopped

-----------------------------------------------------------------------------
(* What CREATE and MERGE write.                                              *)

\* A vertex that entity_exists finds.
Standing(t, id) ==
    \E i \in DOMAIN heap : /\ heap[i].id = id /\ IsVertex(heap[i])
                           /\ \E c \in Int : c >= tx[t].cid /\ VisibleAt(t, c, heap[i])

\* entity_exists looks with a command id that is not before the current one.
LEMMA ExistsIs ==
    ASSUME NEW t \in Txns, NEW id, EntityExists(t, id), tx[t].curcid \in Int, tx[t].cid \in Int
    PROVE  Standing(t, id)
<1>1. PICK a \in Int, b \in Int : a = tx[t].curcid /\ b = tx[t].cid
  OBVIOUS
<1>2. PICK c : c = Max({a, b})
  OBVIOUS
<1>3. c \in Int /\ c >= b
  <2>1. \E y \in {a, b} : \A z \in {a, b} : y >= z
    OBVIOUS
  <2>2. c \in {a, b} /\ \A z \in {a, b} : c >= z
    BY <1>2, <2>1 DEF Max
  <2> QED
    BY <2>2
<1>4. PICK i \in Find(t, c, id) : IsVertex(heap[i])
  BY <1>1, <1>2 DEF EntityExists
<1> QED
  BY <1>1, <1>3, <1>4 DEF Find, Standing

\* The first version of an entity that t makes under the command id c.
Made(t, c, v) == v.by = t /\ v.see = Known(t) /\ v.cmin = c

\* The ends of a new edge exist, or are made with it.
EndsStand(t, new, m, v) ==
    \A n \in DOMAIN v.ends :
        Standing(t, v.ends[n]) \/ \E i \in 1 .. m : new[i].id = v.ends[n] /\ IsVertex(new[i])

\* The rows of a new path.
MadePath(t, c, new, m) ==
    /\ Lists(new, m) /\ Len(new) = m
    /\ \A j \in 1 .. m : /\ NewVersion(new[j], t, next_id + j - 1)
                         /\ Made(t, c, new[j]) /\ EndsStand(t, new, m, new[j])

\* A new path.
LEMMA PathMade ==
    ASSUME HeapInv, NEW t \in Txns, NEW from, NEW val, NEW c \in Nat, NEW pat,
           from # None => Standing(t, from), NEW new, new = NewPath(t, from, val, c, pat)
    PROVE  \E m \in Nat : MadePath(t, c, new, m)
<1>1. PICK a \in Nat : a = next_id
  BY DEF HeapInv
<1>2. PICK v : v = Row(a, <<>>, val, t, c, tx[t].snap \cup {t}, pat)
  OBVIOUS
<1>3. PICK e : e = NewEdge(t, a + 1, from, a, c)
  OBVIOUS
<1>4. NewVersion(v, t, a) /\ NewVersion(e, t, a + 1)
  BY <1>2, <1>3 DEF NewVersion, Version, Row, NewEdge
<1>5. Made(t, c, v) /\ Made(t, c, e)
  BY <1>2, <1>3 DEF Made, Row, NewEdge, Known
<1>6. v.ends = <<>> /\ v.id = a /\ e.ends = <<from, a>>
  BY <1>2, <1>3 DEF Row, NewEdge
<1>7. CASE from = None
  <2>1. new = <<v>>
    BY <1>1, <1>2, <1>7 DEF NewPath
  <2>2. Lists(new, 1) /\ Len(new) = 1 /\ new[1] = v
    BY <2>1 DEF Lists
  <2>3. \A j \in 1 .. 1 : j = 1 /\ a + j - 1 = a
    OBVIOUS
  <2>4. \A j \in 1 .. 1 : NewVersion(new[j], t, a + j - 1) /\ Made(t, c, new[j])
    BY <1>4, <1>5, <2>2, <2>3
  <2>5. \A j \in 1 .. 1 : EndsStand(t, new, 1, new[j])
    BY <1>6, <2>2 DEF EndsStand
  <2> QED
    BY <1>1, <2>2, <2>4, <2>5 DEF MadePath
<1>8. CASE from # None
  <2>1. new = Append(<<v>>, e)
    BY <1>1, <1>2, <1>3, <1>8 DEF NewPath
  <2>2. PICK f : f = <<v>>
    OBVIOUS
  <2>3. Lists(new, 2) /\ Len(new) = 2 /\ new[1] = v /\ new[2] = e
    <3>1. Lists(f, 1) /\ f[1] = v
      BY <2>2 DEF Lists
    <3>2. new = AndThen(f, e)
      BY <2>1, <2>2 DEF AndThen
    <3>3. /\ Lists(AndThen(f, e), 1 + 1) /\ AndThen(f, e)[1 + 1] = e
          /\ \A i \in 1 .. 1 : AndThen(f, e)[i] = f[i]
      BY <3>1, AppendIs
    <3>4. 1 + 1 = 2 /\ 1 \in 1 .. 1
      OBVIOUS
    <3>5. Lists(new, 2) /\ new[1] = v /\ new[2] = e
      BY <3>1, <3>2, <3>3, <3>4
    <3> QED
      BY <3>5, ListIs
  <2>4. \A j \in 1 .. 2 : (j = 1 /\ a + j - 1 = a) \/ (j = 2 /\ a + j - 1 = a + 1)
    OBVIOUS
  <2>5. \A j \in 1 .. 2 : NewVersion(new[j], t, a + j - 1) /\ Made(t, c, new[j])
    BY <1>4, <1>5, <2>3, <2>4
  <2>6. EndsStand(t, new, 2, v)
    BY <1>6 DEF EndsStand
  <2>7. EndsStand(t, new, 2, e)
    <3>1. 1 \in 1 .. 2 /\ new[1].id = a /\ IsVertex(new[1])
      BY <1>6, <2>3 DEF IsVertex
    <3>2. DOMAIN e.ends = {1, 2} /\ e.ends[1] = from /\ e.ends[2] = a
      BY <1>6
    <3> QED
      BY <1>8, <3>1, <3>2 DEF EndsStand
  <2>8. \A j \in 1 .. 2 : EndsStand(t, new, 2, new[j])
    BY <2>3, <2>4, <2>6, <2>7
  <2> QED
    BY <1>1, <2>3, <2>5, <2>8 DEF MadePath
<1> QED
  BY <1>7, <1>8

\* An edge between two vertices that exist.
LEMMA EdgeMade ==
    ASSUME HeapInv, NEW t \in Txns, NEW from, NEW to, NEW c \in Nat,
           Standing(t, from), Standing(t, to), NEW new, new = <<NewEdge(t, next_id, from, to, c)>>
    PROVE  \E m \in Nat : MadePath(t, c, new, m)
<1>1. PICK a \in Nat : a = next_id
  BY DEF HeapInv
<1>2. PICK e : e = NewEdge(t, a, from, to, c)
  OBVIOUS
<1>3. NewVersion(e, t, a)
  BY <1>2 DEF NewVersion, Version, Row, NewEdge
<1>4. Made(t, c, e) /\ e.ends = <<from, to>>
  BY <1>2 DEF Made, Row, NewEdge, Known
<1>5. new = <<e>>
  BY <1>1, <1>2
<1>6. Lists(new, 1) /\ Len(new) = 1 /\ new[1] = e
  BY <1>5 DEF Lists
<1>7. \A j \in 1 .. 1 : j = 1 /\ a + j - 1 = a
  OBVIOUS
<1>8. \A j \in 1 .. 1 : NewVersion(new[j], t, a + j - 1) /\ Made(t, c, new[j])
  BY <1>3, <1>4, <1>6, <1>7
<1>9. EndsStand(t, new, 1, e)
  <2>1. DOMAIN e.ends = {1, 2} /\ e.ends[1] = from /\ e.ends[2] = to
    BY <1>4
  <2> QED
    BY <2>1 DEF EndsStand
<1>10. \A j \in 1 .. 1 : EndsStand(t, new, 1, new[j])
  BY <1>6, <1>7, <1>9
<1> QED
  BY <1>1, <1>6, <1>8, <1>10 DEF MadePath

\* A path is written.
LEMMA PathKeeps ==
    ASSUME IInv, IInv', DInv, NEW t \in Txns, tx[t].pc \in {"row", "set", "last", "end"},
           NEW m \in Nat, NEW c \in Nat, c <= tx[t].cid, NEW new, MadePath(t, c, new, m),
           heap' = heap \o new, status' = status,
           NEW z, Advances(tx[t], z), tx' = [tx EXCEPT ![t] = z],
           c = z.cid => z.used /\ CreatesLast(z)
    PROVE  DInv'
<1>1. /\ tx'[t] = z /\ \A u \in Txns \ {t} : tx'[u] = tx[u]
      /\ Cursors(t)' /\ PendingKept(t) /\ status[t] = "running"
  BY AdvanceIs
<1>2. PICK n \in Nat : /\ n = Len(heap) /\ DOMAIN heap = 1 .. n /\ Lists(heap, n)
                       /\ \A j \in 1 .. n : VersionOK(heap[j], next_id)
  BY HeapHas DEF IInv
<1>3. PICK a \in Nat : a = next_id
  BY DEF IInv, HeapInv
<1>4. /\ Lists(heap', n + m)
      /\ \A j \in 1 .. n : heap'[j] = heap[j]
      /\ \A j \in 1 .. m : heap'[n + j] = new[j]
  <2>1. heap' = Joined(heap, new)
    BY DEF Joined
  <2>2. Lists(heap, n) /\ Lists(new, m)
    BY <1>2 DEF MadePath
  <2>3. Lists(Joined(heap, new), n + m)
    BY <2>2, ConcatIs
  <2>4. \A j \in 1 .. n : Joined(heap, new)[j] = heap[j]
    BY <2>2, ConcatIs
  <2>5. \A j \in 1 .. m : Joined(heap, new)[n + j] = new[j]
    BY <2>2, ConcatIs
  <2> QED
    BY <2>1, <2>3, <2>4, <2>5
<1>5. DOMAIN heap' = 1 .. n + m
  BY <1>4 DEF Lists
<1>6. \A j \in New : j \in n + 1 .. n + m
  BY <1>2, <1>5 DEF New
<1>7. \A i \in 1 .. m : n + i \in New
  BY <1>2, <1>5 DEF New
<1>8. ASSUME NEW j \in New
      PROVE  \E i \in 1 .. m : /\ j = n + i /\ heap'[j] = new[i] /\ new[i].id = a + i - 1 /\ new[i].xmin = t
                               /\ new[i].xmax = None /\ Made(t, c, new[i]) /\ EndsStand(t, new, m, new[i])
  <2>1. PICK i \in 1 .. m : j = n + i
    <3>1. j \in n + 1 .. n + m /\ j - n \in 1 .. m /\ j = n + (j - n)
      BY <1>6
    <3> QED
      BY <3>1
  <2>2. heap'[j] = new[i]
    BY <1>4, <2>1
  <2>3. NewVersion(new[i], t, a + i - 1) /\ Made(t, c, new[i]) /\ EndsStand(t, new, m, new[i])
    BY <1>3 DEF MadePath
  <2> QED
    BY <2>1, <2>2, <2>3 DEF NewVersion
<1>9. \A i \in 1 .. m : new[i].id = a + i - 1
  BY <1>3 DEF MadePath, NewVersion
<1>10. ASSUME NEW j \in New PROVE Fresh(t, j)
  <2>1. PICK i \in 1 .. m : /\ heap'[j] = new[i] /\ new[i].id = a + i - 1
                            /\ Made(t, c, new[i]) /\ EndsStand(t, new, m, new[i])
    BY <1>8
  <2>2. heap'[j].id \notin 1 .. next_id - 1
    BY <1>3, <2>1
  <2>3. heap'[j].by = t /\ heap'[j].see = Known(t) /\ heap'[j].cmin <= tx[t].cid
    BY <2>1 DEF Made
  <2>4. ASSUME NEW p \in DOMAIN heap'[j].ends
        PROVE  \/ \E l \in DOMAIN heap : /\ heap[l].id = heap'[j].ends[p] /\ IsVertex(heap[l])
                                         /\ \E b \in Int : b >= tx[t].cid /\ VisibleAt(t, b, heap[l])
               \/ \E l \in New : heap'[l].id = heap'[j].ends[p] /\ IsVertex(heap'[l])
                                 /\ heap'[l].id \notin 1 .. next_id - 1
    <3>1. CASE Standing(t, new[i].ends[p])
      BY <2>1, <3>1 DEF Standing
    <3>2. ASSUME NEW l \in 1 .. m, new[l].id = new[i].ends[p], IsVertex(new[l])
          PROVE  \E q \in New : heap'[q].id = heap'[j].ends[p] /\ IsVertex(heap'[q])
                                 /\ heap'[q].id \notin 1 .. next_id - 1
      <4>1. n + l \in New /\ heap'[n + l] = new[l]
        BY <1>4, <1>7
      <4>2. new[l].id \notin 1 .. next_id - 1
        BY <1>3, <1>9
      <4> QED
        BY <2>1, <3>2, <4>1, <4>2
    <3>3. p \in DOMAIN new[i].ends
      BY <2>1
    <3>4. Standing(t, new[i].ends[p]) \/ \E l \in 1 .. m : new[l].id = new[i].ends[p] /\ IsVertex(new[l])
      BY <2>1, <3>3 DEF EndsStand
    <3> QED
      BY <3>1, <3>2, <3>4
  <2> QED
    BY <2>2, <2>3, <2>4 DEF Fresh
<1>11. HeapStep(t)
  <2>1. DOMAIN heap \subseteq DOMAIN heap' /\ \A i \in DOMAIN heap, j \in New : i < j
    BY <1>2, <1>5, <1>6
  <2>2. \A i \in DOMAIN heap : heap'[i] = heap[i] /\ Stays(i)
    BY <1>2, <1>4 DEF Stays
  <2>3. \A j \in New : heap'[j].xmin = t /\ heap'[j].xmax = None
    BY <1>8
  <2>4. ASSUME NEW i \in New, NEW j \in New, heap'[i].id = heap'[j].id PROVE i = j
    <3>1. PICK p \in 1 .. m : i = n + p /\ heap'[i].id = a + p - 1
      <4>1. PICK p \in 1 .. m : i = n + p /\ heap'[i] = new[p] /\ new[p].id = a + p - 1
        BY <1>8
      <4> QED
        BY <4>1, Zenon
    <3>2. PICK q \in 1 .. m : j = n + q /\ heap'[j].id = a + q - 1
      <4>1. PICK q \in 1 .. m : j = n + q /\ heap'[j] = new[q] /\ new[q].id = a + q - 1
        BY <1>8
      <4> QED
        BY <4>1, Zenon
    <3>3. a + p - 1 = a + q - 1
      BY <2>4, <3>1, <3>2
    <3>4. p \in Int /\ q \in Int /\ a \in Int
      OBVIOUS
    <3>5. p = q
      BY <3>3, <3>4
    <3> QED
      BY <3>1, <3>2, <3>5
  <2> QED
    BY <1>10, <2>1, <2>2, <2>3, <2>4 DEF HeapStep
<1>12. \A j \in New : heap'[j].cmin = c
  BY <1>8 DEF Made
<1>13. ClockStep(t)
  BY <1>1, <1>12 DEF ClockStep, Advances
<1>14. \A i \in DOMAIN heap : ~Ending(t, i)
  <2> SUFFICES ASSUME NEW i \in DOMAIN heap, Ending(t, i) PROVE FALSE
    OBVIOUS
  <2>1. heap[i].xmax = t /\ Writable(t, i)
    BY <1>2, <1>4 DEF Ending
  <2>2. heap[i].xmax = None \/ status[heap[i].xmax] = "aborted"
    BY <2>1, WritableIs
  <2> QED
    BY <1>1, <2>1, <2>2, TxnAssumption
<1>15. WriteStep(t)
  BY <1>1, <1>11, <1>13, <1>14 DEF WriteStep, Removed, Advances
<1> QED
  BY <1>1, <1>14, <1>15, StatementKeeps DEF Removed

-----------------------------------------------------------------------------
(* What SET and DELETE write.                                                *)

\* A version that t ends.
LEMMA EndedIs ==
    ASSUME IInv, NEW t \in Txns, NEW i \in DOMAIN heap, VisibleAt(t, tx[t].cid, heap[i]), Writable(t, i),
           NEW f, f = Ended(t, i, tx[t].cid)
    PROVE  \E n \in Nat :
              /\ DOMAIN heap = 1 .. n /\ Lists(f, n)
              /\ \A j \in 1 .. n : j # i => f[j] = heap[j]
              /\ f[i].id = heap[i].id /\ f[i].ends = heap[i].ends /\ f[i].by = heap[i].by
              /\ f[i].see = heap[i].see /\ f[i].xmin = heap[i].xmin /\ f[i].cmin = heap[i].cmin
              /\ f[i].xmax = t /\ f[i].cmax = tx[t].cid /\ f[i].xsee = Known(t)
              /\ f[i].val = heap[i].val /\ f[i].pat = heap[i].pat
<1>1. PICK n \in Nat : /\ n = Len(heap) /\ DOMAIN heap = 1 .. n /\ Lists(heap, n)
                       /\ \A j \in 1 .. n : VersionOK(heap[j], next_id)
  BY HeapHas DEF IInv
<1>2. PICK c : c = tx[t].cid
  OBVIOUS
<1>3. PICK v : v = [heap[i] EXCEPT !.xmax = t, !.cmax = c, !.xsee = tx[t].snap \cup {t}]
  OBVIOUS
<1>4. Version(heap[i])
  BY <1>1 DEF VersionOK
<1>5. v.id = heap[i].id /\ v.ends = heap[i].ends /\ v.by = heap[i].by /\ v.see = heap[i].see
  BY <1>3, <1>4 DEF Version
<1>6. v.xmin = heap[i].xmin /\ v.cmin = heap[i].cmin /\ v.val = heap[i].val /\ v.pat = heap[i].pat
  BY <1>3, <1>4 DEF Version
<1>7. v.xmax = t /\ v.cmax = c /\ v.xsee = Known(t)
  BY <1>3, <1>4 DEF Version, Known
<1>8. f = [heap EXCEPT ![i] = v]
  BY <1>1, <1>2, <1>3, <1>4, Zenon DEF Ended, Version, Lists
<1>9. Lists(f, n) /\ f[i] = v /\ \A j \in 1 .. n : j # i => f[j] = heap[j]
  BY <1>1, <1>8 DEF Lists
<1> QED
  BY <1>1, <1>2, <1>5, <1>6, <1>7, <1>9

\* A new version follows it.
LEMMA UpdateKeeps ==
    ASSUME IInv, IInv', DInv, NEW t \in Txns, tx[t].pc \in {"row", "set", "last", "end"},
           NEW i \in DOMAIN heap, VisibleAt(t, tx[t].cid, heap[i]), Writable(t, i), NEW val,
           heap' = Updated(t, i, val), status' = status,
           NEW z, Advances(tx[t], z), tx' = [tx EXCEPT ![t] = z],
           z.cid = tx[t].cid => z.used
    PROVE  DInv'
<1>1. /\ tx'[t] = z /\ \A u \in Txns \ {t} : tx'[u] = tx[u]
      /\ Cursors(t)' /\ PendingKept(t) /\ status[t] = "running"
  BY AdvanceIs
<1>2. PICK c \in Nat : c = tx[t].cid
  BY VersionTypes
<1>3. PICK f : f = Ended(t, i, c)
  OBVIOUS
<1>4. PICK n \in Nat :
         /\ DOMAIN heap = 1 .. n /\ Lists(f, n)
         /\ \A j \in 1 .. n : j # i => f[j] = heap[j]
         /\ f[i].id = heap[i].id /\ f[i].ends = heap[i].ends /\ f[i].by = heap[i].by
         /\ f[i].see = heap[i].see /\ f[i].xmin = heap[i].xmin /\ f[i].cmin = heap[i].cmin
         /\ f[i].xmax = t /\ f[i].cmax = tx[t].cid /\ f[i].xsee = Known(t)
  BY <1>2, <1>3, EndedIs
<1>5. PICK w : w = [heap[i] EXCEPT !.val = val, !.xmin = t, !.cmin = c,
                                   !.xmax = None, !.cmax = 0, !.xsee = {}]
  OBVIOUS
<1>6. Version(heap[i])
  BY DEF IInv, HeapInv, VersionOK
<1>7. w.id = heap[i].id /\ w.ends = heap[i].ends /\ w.by = heap[i].by /\ w.see = heap[i].see
  BY <1>5, <1>6 DEF Version
<1>8. w.cmin = c /\ w.xmin = t /\ w.xmax = None
  BY <1>5, <1>6 DEF Version
<1>9. Lists(heap', n + 1) /\ heap'[n + 1] = w /\ \A j \in 1 .. n : heap'[j] = f[j]
  <2>1. heap' = AndThen(f, w)
    BY <1>2, <1>3, <1>5 DEF Updated, AndThen
  <2>2. /\ Lists(AndThen(f, w), n + 1) /\ AndThen(f, w)[n + 1] = w
        /\ \A j \in 1 .. n : AndThen(f, w)[j] = f[j]
    BY <1>4, AppendIs
  <2> QED
    BY <2>1, <2>2
<1>10. DOMAIN heap' = 1 .. n + 1 /\ New = {n + 1}
  <2>1. DOMAIN heap' = 1 .. n + 1
    BY <1>9 DEF Lists
  <2> QED
    BY <1>4, <2>1 DEF New
<1>11. Ending(t, i) /\ Copy(t, i, n + 1)
  BY <1>2, <1>4, <1>7, <1>8, <1>9 DEF Ending, Copy
<1>12. \A j \in DOMAIN heap : (heap'[j] = heap[j] \/ Ending(t, j)) /\ Stays(j)
  BY <1>4, <1>9, <1>11 DEF Stays
<1>13. HeapStep(t)
  <2>1. DOMAIN heap \subseteq DOMAIN heap' /\ \A p \in DOMAIN heap, j \in New : p < j
    BY <1>4, <1>10
  <2> QED
    BY <1>8, <1>9, <1>10, <1>11, <1>12, <2>1 DEF HeapStep
<1>14. ClockStep(t)
  <2>1. \A j \in New : j = n + 1 /\ heap'[j].cmin = c
    BY <1>8, <1>9, <1>10
  <2> QED
    BY <1>1, <1>2, <1>11, <2>1 DEF ClockStep, Advances
<1>15. \A j \in DOMAIN heap : ~Removed(t, j)
  <2> SUFFICES ASSUME NEW j \in DOMAIN heap, Removed(t, j) PROVE FALSE
    OBVIOUS
  <2>1. Ending(t, j) /\ heap'[n + 1].id # heap[j].id
    BY <1>10 DEF Removed
  <2>2. j # i
    BY <1>7, <1>9, <2>1
  <2>3. heap[j].xmax = t /\ Writable(t, j)
    BY <1>4, <1>9, <2>1, <2>2 DEF Ending
  <2>4. heap[j].xmax = None \/ status[heap[j].xmax] = "aborted"
    BY <2>3, WritableIs
  <2> QED
    BY <1>1, <2>3, <2>4, TxnAssumption
<1>16. WriteStep(t)
  BY <1>1, <1>13, <1>14, <1>15 DEF WriteStep, Advances
<1> QED
  BY <1>1, <1>15, <1>16, StatementKeeps

\* No version follows it: what is deleted is a vertex that waits for the end of the
\* clause, or an edge.
LEMMA RemoveKeeps ==
    ASSUME IInv, IInv', DInv, NEW t \in Txns, tx[t].pc \in {"row", "set", "last", "end"},
           NEW i \in DOMAIN heap, VisibleAt(t, tx[t].cid, heap[i]), Writable(t, i),
           heap' = Ended(t, i, tx[t].cid), status' = status,
           NEW z, Advances(tx[t], z), tx' = [tx EXCEPT ![t] = z], z.cid = tx[t].cid + 1,
           IsVertex(heap[i]) => Pending(t, heap[i].id)'
    PROVE  DInv'
<1>1. /\ tx'[t] = z /\ \A u \in Txns \ {t} : tx'[u] = tx[u]
      /\ Cursors(t)' /\ PendingKept(t) /\ status[t] = "running"
  BY AdvanceIs
<1>2. PICK n \in Nat :
         /\ DOMAIN heap = 1 .. n /\ Lists(heap', n)
         /\ \A j \in 1 .. n : j # i => heap'[j] = heap[j]
         /\ heap'[i].id = heap[i].id /\ heap'[i].ends = heap[i].ends /\ heap'[i].by = heap[i].by
         /\ heap'[i].see = heap[i].see /\ heap'[i].xmin = heap[i].xmin /\ heap'[i].cmin = heap[i].cmin
         /\ heap'[i].xmax = t /\ heap'[i].cmax = tx[t].cid /\ heap'[i].xsee = Known(t)
  <2>1. PICK f : f = Ended(t, i, tx[t].cid) /\ heap' = f
    OBVIOUS
  <2> QED
    BY <2>1, EndedIs
<1>3. DOMAIN heap' = 1 .. n /\ New = {}
  BY <1>2 DEF Lists, New
<1>4. Ending(t, i)
  BY <1>2 DEF Ending
<1>5. \A j \in DOMAIN heap : (heap'[j] = heap[j] \/ Ending(t, j)) /\ Stays(j)
  BY <1>2, <1>4 DEF Stays
<1>6. HeapStep(t)
  BY <1>2, <1>3, <1>5 DEF HeapStep
<1>7. ClockStep(t)
  BY <1>1, <1>3 DEF ClockStep
<1>8. \A j \in DOMAIN heap : Ending(t, j) => j = i
  <2> SUFFICES ASSUME NEW j \in DOMAIN heap, Ending(t, j), j # i PROVE FALSE
    OBVIOUS
  <2>1. heap[j].xmax = t /\ Writable(t, j)
    BY <1>2 DEF Ending
  <2>2. heap[j].xmax = None \/ status[heap[j].xmax] = "aborted"
    BY <2>1, WritableIs
  <2> QED
    BY <1>1, <2>1, <2>2, TxnAssumption
<1>9. WriteStep(t)
  BY <1>1, <1>6, <1>7 DEF WriteStep, Advances
<1> QED
  BY <1>1, <1>8, <1>9, StatementKeeps DEF Removed

-----------------------------------------------------------------------------
(* The actions.                                                              *)

\* A cursor that goes on from a command that follows, or from the same one.
LEMMA AdvancesIs ==
    ASSUME NEW x, x.cid \in Nat, x.base \in Nat, x.base <= x.cid, NEW y,
           y.stmt = x.stmt, y.snap = x.snap, x.htab \subseteq y.htab, y.base = x.base,
           y.used \in BOOLEAN, y.cid = x.cid + 1 \/ (y.cid = x.cid /\ (x.used => y.used)),
           NEW v, SameCommand(y, v), v.pc \in {"row", "set", "last"}
    PROVE  Advances(x, v)
<1>1. /\ v.stmt = x.stmt /\ v.snap = x.snap /\ v.htab = y.htab /\ v.base = x.base
      /\ v.cid = y.cid /\ v.used = y.used /\ v.curcid \in Int
  BY DEF SameCommand
<1>2. CreatesLast(x) => CreatesLast(v)
  BY <1>1 DEF CreatesLast, Clauses
<1>3. v.base <= v.cid
  BY <1>1
<1> QED
  BY <1>1, <1>2, <1>3 DEF Advances

\* A cursor at a row.
LEMMA AtRowHas ==
    ASSUME IInv, DInv, NEW t \in Txns, tx[t].pc \in {"row", "set"}
    PROVE  /\ AtRow(t, tx[t]) /\ Cursor(tx[t]) /\ tx[t].cid \in Nat /\ tx[t].base \in Nat
           /\ tx[t].curcid \in Int /\ tx[t].used \in BOOLEAN /\ tx[t].base <= tx[t].cid
<1>1. CursorOK(t, tx[t]) /\ Cursors(t)
  BY DEF IInv, TxnInv, DInv
<1>2. AtRow(t, tx[t])
  BY <1>1, AtRowIs
<1> QED
  BY <1>1, <1>2 DEF AtRow, Cursors

\* One path of CREATE.
LEMMA ExecCreateStep ==
    ASSUME IInv, IInv', DInv, NEW t \in Txns, ExecCreate(t)
    PROVE  DInv'
<1>1. PICK x : x = tx[t]
  OBVIOUS
<1>2. CursorOK(t, x) /\ x.pc = "row" /\ Clause(x).op = "create" /\ HeapInv
  BY <1>1, CursorIs, Zenon DEF ExecCreate
<1>3. /\ AtRow(t, x) /\ Cursor(x) /\ x.cid \in Nat /\ x.base \in Nat
      /\ x.curcid \in Int /\ x.used \in BOOLEAN /\ x.base <= x.cid
  BY <1>1, <1>2, AtRowHas
<1>4. CASE Fail(t)
  BY <1>1, <1>2, <1>4, FailStops
<1>5. CASE ~Fail(t)
  <2>1. PICK new : new = IF Clause(x).to # None
               THEN <<NewEdge(t, next_id, CurrentRow(x)[Clause(x).from], CurrentRow(x)[Clause(x).to], x.cid)>>
               ELSE NewPath(t, IF Clause(x).from = None THEN None ELSE CurrentRow(x)[Clause(x).from],
                            Clause(x).val, x.cid, None)
    OBVIOUS
  <2>2. \A w \in {Clause(x).from, Clause(x).to} \ {None} : Standing(t, CurrentRow(x)[w])
    <3> TAKE w \in {Clause(x).from, Clause(x).to} \ {None}
    <3>1. EntityExists(t, CurrentRow(x)[w])
      BY <1>1, <1>5, Zenon DEF ExecCreate
    <3> QED
      BY <1>1, <1>3, <3>1, ExistsIs
  <2>3. PICK m \in Nat : MadePath(t, x.cid, new, m)
    <3>1. CASE Clause(x).to # None
      <4>1. Clause(x).from # None
        BY <1>2, <1>3, <3>1 DEF AtRow, IsQuery, Clause, Clauses, List
      <4>2. Standing(t, CurrentRow(x)[Clause(x).from]) /\ Standing(t, CurrentRow(x)[Clause(x).to])
        BY <2>2, <3>1, <4>1
      <4> QED
        BY <1>2, <1>3, <2>1, <3>1, <4>2, EdgeMade
    <3>2. CASE Clause(x).to = None
      <4>1. PICK from : from = IF Clause(x).from = None THEN None ELSE CurrentRow(x)[Clause(x).from]
        OBVIOUS
      <4>2. from # None => Standing(t, from)
        BY <2>2, <4>1
      <4>3. new = NewPath(t, from, Clause(x).val, x.cid, None)
        BY <2>1, <3>2, <4>1
      <4> QED
        BY <1>2, <1>3, <4>2, <4>3, PathMade
    <3> QED
      BY <3>1, <3>2
  <2>4. PICK rows : rows = [x.rows EXCEPT ![x.r] =
                               [x.rows[x.r] EXCEPT !.m = IF Clause(x).to # None THEN @ ELSE next_id]]
    OBVIOUS
  <2>5. PICK y : y = [x EXCEPT !.used = TRUE, !.dirty = TRUE, !.mutated = x.mutated \cup {x.k},
                               !.rows = rows]
    OBVIOUS
  <2>6. PICK z : z = [y EXCEPT !.dirty = FALSE, !.mutated = y.mutated \ {x.k}]
    OBVIOUS
  <2>7. PICK w : w = CommandCounterIncrement(z)
    OBVIOUS
  <2>8. /\ heap' = heap \o new /\ status' = status
        /\ \/ IsTerminal(x) /\ tx' = [tx EXCEPT ![t] = AfterClause(y)]
           \/ tx' = [tx EXCEPT ![t] = AfterClause(w)]
    <3>1. y = [x EXCEPT !.used = TRUE, !.dirty = TRUE, !.mutated = @ \cup {x.k},
                        !.rows[x.r].m = IF Clause(x).to # None THEN @ ELSE next_id]
      BY <1>3, <2>4, <2>5 DEF Cursor
    <3>2. z = [y EXCEPT !.dirty = FALSE, !.mutated = @ \ {x.k}]
      BY <2>6
    <3>3. heap' = heap \o new /\ status' = status
      BY <1>1, <1>5, <2>1, Zenon DEF ExecCreate
    <3>4. \/ IsTerminal(x) /\ tx' = [tx EXCEPT ![t] = AfterClause(y)]
          \/ tx' = [tx EXCEPT ![t] = AfterClause(w)]
      BY <1>1, <1>5, <2>7, <3>1, <3>2, Zenon DEF ExecCreate
    <3> QED
      BY <3>3, <3>4
  <2>10. /\ Cursor(y) /\ y.dirty = TRUE /\ y.rows = rows /\ y.stmt = x.stmt /\ y.k = x.k
         /\ y.r = x.r /\ y.snap = x.snap /\ y.base = x.base /\ y.cid = x.cid
    BY <1>3, <2>5 DEF Cursor
  <2>11. y.htab = x.htab /\ y.curcid = x.curcid /\ y.used = TRUE
    BY <1>3, <2>5 DEF Cursor
  <2>12. AtClause(y)
    BY <1>3, <2>10, <2>11 DEF AtRow, AtClause, Clauses
  <2>13. CASE IsTerminal(x) /\ tx' = [tx EXCEPT ![t] = AfterClause(y)]
    <3>1. PICK v : v = AfterClause(y)
      OBVIOUS
    <3>2. SameCommand(y, v) /\ v.pc \in {"row", "last"}
      BY <2>12, <3>1, AfterMoves
    <3>3. Advances(x, v)
      BY <1>3, <2>10, <2>11, <3>2, AdvancesIs
    <3>4. v.used /\ v.stmt = x.stmt
      BY <2>10, <2>11, <3>2 DEF SameCommand
    <3>5. CreatesLast(v)
      BY <1>2, <2>13, <3>2, <3>4 DEF CreatesLast, IsTerminal, Clause, Clauses
    <3>6. tx' = [tx EXCEPT ![t] = v] /\ x.cid <= x.cid
      BY <1>3, <2>13, <3>1
    <3> QED
      BY <1>1, <1>2, <1>3, <2>3, <2>8, <3>3, <3>4, <3>5, <3>6, PathKeeps
  <2>14. CASE tx' = [tx EXCEPT ![t] = AfterClause(w)]
    <3>1. /\ Cursor(z) /\ z.dirty = FALSE /\ z.rows = rows /\ z.stmt = x.stmt /\ z.k = x.k
          /\ z.r = x.r /\ z.snap = x.snap /\ z.base = x.base /\ z.cid = x.cid
      BY <2>6, <2>10 DEF Cursor
    <3>2. z.htab = x.htab /\ z.curcid = x.curcid /\ z.used = TRUE
      BY <2>6, <2>10, <2>11 DEF Cursor
    <3>5. /\ AtClause(w) /\ w.stmt = x.stmt /\ w.snap = x.snap /\ w.base = x.base
          /\ w.htab = x.htab /\ w.cid = x.cid + 1 /\ w.used = FALSE
      <4>1. AtClause(z) /\ z.cid \in Nat /\ z.used
        BY <1>3, <3>1, <3>2 DEF AtRow, AtClause, Clauses
      <4>2. /\ AtClause(w) /\ w.stmt = z.stmt /\ w.snap = z.snap /\ w.base = z.base
            /\ w.htab = z.htab /\ w.cid = z.cid + 1 /\ w.used = FALSE
        BY <2>7, <4>1, CommandEnds, Zenon
      <4> QED
        BY <3>1, <3>2, <4>2
    <3>6. PICK v : v = AfterClause(w)
      OBVIOUS
    <3>7. SameCommand(w, v) /\ v.pc \in {"row", "last"}
      BY <3>5, <3>6, AfterMoves
    <3>8. Advances(x, v)
      BY <1>3, <3>5, <3>7, AdvancesIs
    <3>9. v.cid = x.cid + 1
      BY <3>5, <3>7 DEF SameCommand
    <3>10. tx' = [tx EXCEPT ![t] = v] /\ x.cid <= x.cid /\ x.cid # v.cid
      BY <1>3, <2>14, <3>6, <3>9
    <3> QED
      BY <1>1, <1>2, <1>3, <2>3, <2>8, <3>8, <3>10, PathKeeps
  <2> QED
    BY <2>8, <2>13, <2>14
<1> QED
  BY <1>4, <1>5

\* MERGE goes on with what its pattern matches.
LEMMA MergeFoundStep ==
    ASSUME IInv, IInv', DInv, NEW t \in Txns, MergeFound(t)
    PROVE  DInv'
<1>1. PICK x : x = tx[t]
  OBVIOUS
<1>2. x.pc = "row" /\ heap' = heap /\ status' = status
  BY <1>1, Zenon DEF MergeFound
<1>3. /\ AtRow(t, x) /\ Cursor(x) /\ x.cid \in Nat /\ x.base \in Nat
      /\ x.curcid \in Int /\ x.used \in BOOLEAN /\ x.base <= x.cid
  BY <1>1, <1>2, AtRowHas
<1>4. PICK rows, upto :
          tx' = [tx EXCEPT ![t] = ThenSet([x EXCEPT !.rows = rows, !.upto = upto], Clause(x).on_match)]
  <2> DEFINE row == CurrentRow(tx[t])
             only == ~tx[t].stmt.match /\ Len(Clauses(tx[t])) = 1
             found == IF row.m # Null THEN <<row>>
                      ELSE [n \in 1 .. (IF only THEN Min({1, Len(Matches(t))}) ELSE Len(Matches(t))) |->
                               [row EXCEPT !.m = heap[Matches(t)[n]].id]]
             g == SubSeq(tx[t].rows, 1, tx[t].r - 1) \o found \o SubSeq(tx[t].rows, tx[t].r + 1, Len(tx[t].rows))
             u == IF row.m = Null /\ tx[t].k = StageEnd(tx[t])
                  THEN tx[t].r + Len(found) - 1 ELSE tx[t].upto
  <2>1. tx' = [tx EXCEPT ![t] = ThenSet([tx[t] EXCEPT !.rows = g, !.upto = u], Clause(tx[t]).on_match)]
    BY Zenon DEF MergeFound
  <2> HIDE DEF g, u
  <2> QED
    BY <1>1, <2>1
<1>5. PICK y : y = [x EXCEPT !.rows = rows, !.upto = upto]
  OBVIOUS
<1>6. Cursor(y) /\ y.k = x.k /\ y.stmt = x.stmt /\ y.snap = x.snap /\ y.base = x.base /\ y.cid = x.cid
  BY <1>3, <1>5 DEF Cursor
<1>7. y.htab = x.htab /\ y.curcid = x.curcid /\ y.used = x.used
  BY <1>3, <1>5 DEF Cursor
<1>8. AtClause(y)
  BY <1>3, <1>6, <1>7 DEF AtRow, AtClause, Clauses
<1>9. PICK z : z = ThenSet(y, Clause(x).on_match)
  OBVIOUS
<1>10. SameCommand(y, z) /\ z.pc \in {"row", "set", "last"}
  BY <1>8, <1>9, ThenSetMoves
<1>11. Advances(x, z)
  BY <1>3, <1>6, <1>7, <1>10, AdvancesIs
<1>12. tx' = [tx EXCEPT ![t] = z]
  BY <1>4, <1>5, <1>9
<1> QED
  BY <1>1, <1>2, <1>11, <1>12, QuietKeeps

\* MERGE makes a path, or finds it among those it has made.
LEMMA MergeMissingStep ==
    ASSUME IInv, IInv', DInv, NEW t \in Txns, MergeMissing(t)
    PROVE  DInv'
<1>1. PICK x : x = tx[t]
  OBVIOUS
<1>2. x.pc = "row" /\ HeapInv
  BY <1>1, CursorIs, Zenon DEF MergeMissing
<1>3. /\ AtRow(t, x) /\ Cursor(x) /\ x.cid \in Nat /\ x.base \in Nat
      /\ x.curcid \in Int /\ x.used \in BOOLEAN /\ x.base <= x.cid
  BY <1>1, <1>2, AtRowHas
<1>4. CASE Fail(t)
  BY <1>1, <1>2, <1>4, FailStops
<1>5. PICK new : new = NewPath(t, PathKey(x)[2], Clause(x).val, x.base, <<PathKey(x)[2], Clause(x).val>>)
  OBVIOUS
<1>6. PICK rows : rows = [x.rows EXCEPT ![x.r] = [x.rows[x.r] EXCEPT !.m = next_id]]
  OBVIOUS
<1>7. PICK y : y = [x EXCEPT !.rows = rows, !.dirty = TRUE, !.mutated = x.mutated \cup {x.k},
                             !.created = x.created \cup {[key |-> PathKey(x), id |-> next_id]}]
  OBVIOUS
<1>8. PICK z : z = [y EXCEPT !.used = TRUE]
  OBVIOUS
<1>9. PICK w : w = IF x.base = x.cid THEN CommandCounterIncrement(z) ELSE y
  OBVIOUS
<1>10. CASE ~Fail(t)
  <2>1. PathKey(x)[2] # None => EntityExists(t, PathKey(x)[2])
    BY <1>1, <1>10, Zenon DEF MergeMissing
  <2>2. status' = status
    BY <1>10, Zenon DEF MergeMissing
  <2>3. \/ \E p \in Duplicates(x) :
              /\ heap' = heap
              /\ tx' = [tx EXCEPT ![t] = ThenSet([x EXCEPT !.rows[x.r].m = p.id], Clause(x).on_match)]
        \/ /\ heap' = heap \o new
           /\ tx' = [tx EXCEPT ![t] = ThenSet(w, Clause(x).on_create)]
    <3>1. y = [x EXCEPT !.rows[x.r].m = next_id, !.dirty = TRUE, !.mutated = @ \cup {x.k},
                        !.created = @ \cup {[key |-> PathKey(x), id |-> next_id]}]
      BY <1>3, <1>6, <1>7 DEF Cursor
    <3> QED
      BY <1>1, <1>5, <1>8, <1>9, <1>10, <3>1, Zenon DEF MergeMissing
  <2>4. ASSUME NEW p \in Duplicates(x), heap' = heap,
               tx' = [tx EXCEPT ![t] = ThenSet([x EXCEPT !.rows[x.r].m = p.id], Clause(x).on_match)]
        PROVE  DInv'
    <3>1. PICK f : f = [x.rows EXCEPT ![x.r] = [x.rows[x.r] EXCEPT !.m = p.id]]
      OBVIOUS
    <3>2. PICK b : b = [x EXCEPT !.rows = f]
      OBVIOUS
    <3>3. b = [x EXCEPT !.rows[x.r].m = p.id]
      BY <1>3, <3>1, <3>2 DEF Cursor
    <3>4. Cursor(b) /\ b.k = x.k /\ b.stmt = x.stmt /\ b.snap = x.snap /\ b.base = x.base /\ b.cid = x.cid
      BY <1>3, <3>2 DEF Cursor
    <3>5. b.htab = x.htab /\ b.curcid = x.curcid /\ b.used = x.used
      BY <1>3, <3>2 DEF Cursor
    <3>6. AtClause(b)
      BY <1>3, <3>4, <3>5 DEF AtRow, AtClause, Clauses
    <3>7. PICK v : v = ThenSet(b, Clause(x).on_match)
      OBVIOUS
    <3>8. SameCommand(b, v) /\ v.pc \in {"row", "set", "last"}
      BY <3>6, <3>7, ThenSetMoves
    <3>9. Advances(x, v)
      BY <1>3, <3>4, <3>5, <3>8, AdvancesIs
    <3>10. tx' = [tx EXCEPT ![t] = v]
      BY <2>4, <3>3, <3>7
    <3> QED
      BY <1>1, <1>2, <2>2, <2>4, <3>9, <3>10, QuietKeeps
  <2>5. ASSUME heap' = heap \o new, tx' = [tx EXCEPT ![t] = ThenSet(w, Clause(x).on_create)]
        PROVE  DInv'
    <3>1. PICK from : from = PathKey(x)[2]
      OBVIOUS
    <3>2. from # None => Standing(t, from)
      BY <1>1, <1>3, <2>1, <3>1, ExistsIs
    <3>3. PICK m \in Nat : MadePath(t, x.base, new, m)
      BY <1>2, <1>3, <1>5, <3>1, <3>2, PathMade
    <3>4. Cursor(y) /\ y.k = x.k /\ y.stmt = x.stmt /\ y.snap = x.snap /\ y.base = x.base /\ y.cid = x.cid
      BY <1>3, <1>7 DEF Cursor
    <3>5. y.htab = x.htab /\ y.curcid = x.curcid /\ y.used = x.used
      BY <1>3, <1>7 DEF Cursor
    <3>6. Cursor(z) /\ z.k = x.k /\ z.stmt = x.stmt /\ z.snap = x.snap /\ z.base = x.base /\ z.cid = x.cid
      BY <1>8, <3>4 DEF Cursor
    <3>7. z.htab = x.htab /\ z.curcid = x.curcid /\ z.used = TRUE
      BY <1>8, <3>4, <3>5 DEF Cursor
    <3>8. AtClause(y)
      BY <1>3, <3>4, <3>5 DEF AtRow, AtClause, Clauses
    <3>9. AtClause(z)
      BY <1>3, <3>6, <3>7 DEF AtRow, AtClause, Clauses
    <3>10. /\ AtClause(w) /\ w.stmt = x.stmt /\ w.snap = x.snap /\ w.base = x.base /\ w.htab = x.htab
           /\ w.used \in BOOLEAN
           /\ IF x.base = x.cid THEN w.cid = x.cid + 1 ELSE w.cid = x.cid /\ w.used = x.used
      <4>1. CASE x.base = x.cid
        <5>1. w = CommandCounterIncrement(z) /\ z.cid \in Nat /\ z.used
          BY <1>3, <1>9, <3>6, <3>7, <4>1
        <5>2. /\ AtClause(w) /\ w.stmt = z.stmt /\ w.snap = z.snap /\ w.base = z.base
              /\ w.htab = z.htab /\ w.cid = z.cid + 1 /\ w.used = FALSE
          BY <3>9, <5>1, CommandEnds, Zenon
        <5> QED
          BY <3>6, <3>7, <4>1, <5>2
      <4>2. CASE x.base # x.cid
        BY <1>3, <1>9, <3>4, <3>5, <3>8, <4>2
      <4> QED
        BY <4>1, <4>2
    <3>11. PICK v : v = ThenSet(w, Clause(x).on_create)
      OBVIOUS
    <3>12. SameCommand(w, v) /\ v.pc \in {"row", "set", "last"}
      BY <3>10, <3>11, ThenSetMoves
    <3>13. Advances(x, v)
      BY <1>3, <3>10, <3>12, AdvancesIs
    <3>14. x.base # v.cid
      <4>1. v.cid = w.cid
        BY <3>12 DEF SameCommand
      <4> QED
        BY <1>3, <3>10, <4>1
    <3>15. tx' = [tx EXCEPT ![t] = v]
      BY <2>5, <3>11
    <3> QED
      BY <1>1, <1>2, <1>3, <2>2, <2>5, <3>3, <3>13, <3>14, <3>15, PathKeeps
  <2> QED
    BY <2>3, <2>4, <2>5
<1> QED
  BY <1>4, <1>10

\* The end of an item of SET belongs to the same command, or ends it.
LEMMA FinishItemMoves ==
    ASSUME NEW t, NEW x, AtClause(x), InSet(x), x.cid \in Nat, x.base \in Nat, x.base <= x.cid,
           x.used \in BOOLEAN, FinishItem(t, x)
    PROVE  \E z : Advances(x, z) /\ tx' = [tx EXCEPT ![t] = z] /\ (z.cid = x.cid => z.used = x.used)
<1>1. PICK z : /\ tx' = [tx EXCEPT ![t] = z]
               /\ z = CASE x.i < Len(Items(x)) -> [x EXCEPT !.i = @ + 1]
                        [] EndsRow(x) ->
                               AfterClause(CommandCounterIncrement(
                                   [x EXCEPT !.mutated = @ \ {x.k},
                                             !.dirty = @ /\ x.k \notin x.mutated]))
                        [] OTHER -> AfterClause([x EXCEPT !.onset = None])
  BY DEF FinishItem
<1>2. Cursor(x) /\ IsQuery(x.stmt) /\ x.k \in 1 .. Len(Clauses(x)) /\ x.curcid \in Int
  BY DEF AtClause
<1>3. x.pc \in {"row", "set"}
  BY DEF InSet
<1>4. PICK a, b, d : a = [x EXCEPT !.i = @ + 1] /\ d = [x EXCEPT !.onset = None]
                     /\ b = [x EXCEPT !.mutated = @ \ {x.k}, !.dirty = @ /\ x.k \notin x.mutated]
  OBVIOUS
<1>5. z = a \/ z = AfterClause(CommandCounterIncrement(b)) \/ z = AfterClause(d)
  BY <1>1, <1>4
<1>6. CASE z = a
  <2>1. PICK i : z = [x EXCEPT !.i = i]
    BY <1>4, <1>6
  <2>2. z.stmt = x.stmt /\ z.snap = x.snap /\ z.htab = x.htab /\ z.pc = x.pc
    BY <1>2, <2>1 DEF Cursor
  <2>3. z.base = x.base /\ z.cid = x.cid /\ z.used = x.used /\ z.curcid = x.curcid
    BY <1>2, <2>1 DEF Cursor
  <2>4. SameCommand(x, z)
    BY <1>2, <2>2, <2>3 DEF SameCommand
  <2>5. Advances(x, z)
    BY <1>3, <2>2, <2>4, AdvancesIs
  <2> QED
    BY <1>1, <2>3, <2>5
<1>7. CASE z = AfterClause(CommandCounterIncrement(b))
  <2>1. PICK e, f : b = [x EXCEPT !.mutated = e, !.dirty = f]
    BY <1>4, Zenon
  <2>2. Cursor(b) /\ b.k = x.k /\ b.stmt = x.stmt /\ b.snap = x.snap /\ b.base = x.base /\ b.cid = x.cid
    BY <1>2, <2>1 DEF Cursor
  <2>3. b.htab = x.htab /\ b.curcid = x.curcid /\ b.used = x.used
    BY <1>2, <2>1 DEF Cursor
  <2>4. AtClause(b)
    BY <1>2, <2>2, <2>3 DEF AtClause, Clauses
  <2>5. PICK w : w = CommandCounterIncrement(b)
    OBVIOUS
  <2>6. /\ AtClause(w) /\ w.stmt = b.stmt /\ w.snap = b.snap /\ w.base = b.base /\ w.htab = b.htab
        /\ w.used \in BOOLEAN /\ (w.cid = b.cid + 1 \/ (w.cid = b.cid /\ w.used = b.used))
    <3>1. CASE b.used
      <4>1. b.cid \in Nat
        BY <2>2
      <4>2. /\ AtClause(w) /\ w.stmt = b.stmt /\ w.snap = b.snap /\ w.base = b.base
            /\ w.htab = b.htab /\ w.cid = b.cid + 1 /\ w.used = FALSE
        BY <2>4, <2>5, <3>1, <4>1, CommandEnds, Zenon
      <4> QED
        BY <4>2
    <3>2. CASE ~b.used
      BY <2>3, <2>4, <2>5, <3>2 DEF CommandCounterIncrement
    <3> QED
      BY <3>1, <3>2
  <2>7. SameCommand(w, z) /\ z.pc \in {"row", "last"}
    BY <1>7, <2>5, <2>6, AfterMoves
  <2>8. w.cid = x.cid + 1 \/ (w.cid = x.cid /\ w.used = x.used)
    BY <2>2, <2>3, <2>6
  <2>9. Advances(x, z)
    BY <2>2, <2>3, <2>6, <2>7, <2>8, AdvancesIs
  <2>10. z.cid = x.cid => z.used = x.used
    BY <2>7, <2>8 DEF SameCommand
  <2> QED
    BY <1>1, <2>9, <2>10
<1>8. CASE z = AfterClause(d)
  <2>1. Cursor(d) /\ d.k = x.k /\ d.stmt = x.stmt /\ d.snap = x.snap /\ d.base = x.base /\ d.cid = x.cid
    BY <1>2, <1>4 DEF Cursor
  <2>2. d.htab = x.htab /\ d.curcid = x.curcid /\ d.used = x.used
    BY <1>2, <1>4 DEF Cursor
  <2>3. AtClause(d)
    BY <1>2, <2>1, <2>2 DEF AtClause, Clauses
  <2>4. SameCommand(d, z) /\ z.pc \in {"row", "last"}
    BY <1>8, <2>3, AfterMoves
  <2>5. Advances(x, z)
    BY <2>1, <2>2, <2>4, AdvancesIs
  <2>6. z.used = x.used
    BY <2>2, <2>4 DEF SameCommand
  <2> QED
    BY <1>1, <2>5, <2>6
<1> QED
  BY <1>5, <1>6, <1>7, <1>8

\* A cursor that has marked its command as used goes on as the one before it.
LEMMA AdvancesFrom ==
    ASSUME NEW x, NEW y, y.stmt = x.stmt, y.snap = x.snap, y.htab = x.htab, y.cid = x.cid,
           y.pc = x.pc, y.k = x.k, x.used => y.used, NEW z, Advances(y, z)
    PROVE  Advances(x, z)
<1>1. Clauses(y) = Clauses(x) /\ (CreatesLast(x) => CreatesLast(y))
  BY DEF Clauses, CreatesLast
<1> QED
  BY <1>1 DEF Advances

\* One item of SET.
LEMMA ApplyItemStep ==
    ASSUME IInv, IInv', DInv, NEW t \in Txns, ApplyItem(t)
    PROVE  DInv'
<1>1. PICK x : x = tx[t]
  OBVIOUS
<1>2. InSet(x) /\ x.pc \in {"row", "set"}
  <2>1. InSet(x)
    BY <1>1, Zenon DEF ApplyItem
  <2> QED
    BY <2>1 DEF InSet
<1>3. /\ AtRow(t, x) /\ Cursor(x) /\ x.cid \in Nat /\ x.base \in Nat
      /\ x.curcid \in Int /\ x.used \in BOOLEAN /\ x.base <= x.cid
  BY <1>1, <1>2, AtRowHas
<1>4. PICK y : y = [x EXCEPT !.lidx = @ + 1,
                       !.asked = IF Target(x) \in Protected \/ Find(t, x.cid, Target(x)) = {} THEN @
                                 ELSE {a \in @ : a.id # Target(x)}
                                      \cup {[id |-> Target(x), val |-> Items(x)[x.i].val]}]
  BY Zenon
<1>5. PICK l, a : y = [x EXCEPT !.lidx = l, !.asked = a]
  BY <1>4, Zenon
<1>6. PICK z : z = [y EXCEPT !.used = TRUE, !.dirty = TRUE, !.mutated = y.mutated \cup {x.k}]
  OBVIOUS
<1>7. PICK w : w = [y EXCEPT !.used = TRUE]
  OBVIOUS
<1>8. Cursor(y) /\ y.pc = x.pc /\ y.stmt = x.stmt /\ y.k = x.k /\ y.snap = x.snap /\ y.cid = x.cid
  BY <1>3, <1>5 DEF Cursor
<1>9. y.base = x.base /\ y.htab = x.htab /\ y.curcid = x.curcid /\ y.used = x.used
  BY <1>3, <1>5 DEF Cursor
<1>10. Cursor(z) /\ z.pc = x.pc /\ z.stmt = x.stmt /\ z.k = x.k /\ z.snap = x.snap /\ z.cid = x.cid
  BY <1>6, <1>8 DEF Cursor
<1>11. z.base = x.base /\ z.htab = x.htab /\ z.curcid = x.curcid /\ z.used = TRUE
  BY <1>6, <1>8, <1>9 DEF Cursor
<1>12. Cursor(w) /\ w.pc = x.pc /\ w.stmt = x.stmt /\ w.k = x.k /\ w.snap = x.snap /\ w.cid = x.cid
  BY <1>7, <1>8 DEF Cursor
<1>13. w.base = x.base /\ w.htab = x.htab /\ w.curcid = x.curcid /\ w.used = TRUE
  BY <1>7, <1>8, <1>9 DEF Cursor
<1>14. \/ Fail(t)
       \/ heap' = heap /\ (FinishItem(t, x) \/ FinishItem(t, y) \/ FinishItem(t, w))
       \/ \E i \in Wanted(t) : /\ Writable(t, i) /\ FinishItem(t, z)
                               /\ heap' = Updated(t, i, Items(x)[x.i].val)
  <2>1. z = [y EXCEPT !.used = TRUE, !.dirty = TRUE, !.mutated = @ \cup {x.k}]
    BY <1>6
  <2> QED
    BY <1>1, <1>4, <1>7, <2>1, Zenon DEF ApplyItem
\* The cursors at the end of the item.
<1>15. ASSUME NEW v, Cursor(v), v.pc = x.pc, v.stmt = x.stmt, v.k = x.k, v.snap = x.snap, v.cid = x.cid,
              v.base = x.base, v.htab = x.htab, v.curcid = x.curcid, v.used \in {x.used, TRUE}, FinishItem(t, v)
       PROVE  \E b : Advances(x, b) /\ tx' = [tx EXCEPT ![t] = b] /\ (b.cid = x.cid => b.used = v.used)
  <2>1. AtClause(v) /\ InSet(v) /\ v.used \in BOOLEAN
    BY <1>2, <1>3, <1>15 DEF AtRow, AtClause, InSet, Clause, Clauses
  <2>2. PICK b : Advances(v, b) /\ tx' = [tx EXCEPT ![t] = b] /\ (b.cid = v.cid => b.used = v.used)
    <3>1. v.cid \in Nat /\ v.base \in Nat /\ v.base <= v.cid
      BY <1>3, <1>15
    <3> QED
      BY <1>15, <2>1, <3>1, FinishItemMoves
  <2>3. Advances(x, b)
    BY <1>3, <1>15, <2>2, AdvancesFrom
  <2> QED
    BY <1>15, <2>2, <2>3
<1>16. CASE Fail(t)
  BY <1>1, <1>2, <1>16, FailStops
<1>17. CASE heap' = heap /\ (FinishItem(t, x) \/ FinishItem(t, y) \/ FinishItem(t, w))
  <2>1. PICK v \in {x, y, w} : FinishItem(t, v)
    BY <1>17
  <2>2. PICK b : Advances(x, b) /\ tx' = [tx EXCEPT ![t] = b]
    <3>1. CASE v = x
      BY <1>3, <1>15, <2>1, <3>1
    <3>2. CASE v = y
      BY <1>8, <1>9, <1>15, <2>1, <3>2
    <3>3. CASE v = w
      BY <1>12, <1>13, <1>15, <2>1, <3>3
    <3> QED
      BY <3>1, <3>2, <3>3
  <2>3. status' = status
    BY <2>1 DEF FinishItem
  <2> QED
    BY <1>1, <1>2, <1>17, <2>2, <2>3, QuietKeeps
<1>18. ASSUME NEW i \in Wanted(t), Writable(t, i), FinishItem(t, z), heap' = Updated(t, i, Items(x)[x.i].val)
       PROVE  DInv'
  <2>1. PICK b : Advances(x, b) /\ tx' = [tx EXCEPT ![t] = b] /\ (b.cid = x.cid => b.used = TRUE)
    BY <1>10, <1>11, <1>15, <1>18
  <2>2. status' = status
    BY <1>18 DEF FinishItem
  <2>3. i \in DOMAIN heap /\ VisibleAt(t, tx[t].cid, heap[i])
    BY WantedIs
  <2>4. PICK val : val = Items(x)[x.i].val
    OBVIOUS
  <2> QED
    BY <1>1, <1>2, <1>18, <2>1, <2>2, <2>3, <2>4, UpdateKeeps
<1> QED
  BY <1>14, <1>16, <1>17, <1>18

\* The cursor after a row was deleted is in a new command.
LEMMA DeletedMoves ==
    ASSUME NEW x, AtClause(x), x.cid \in Nat, NEW z, z = DeletedBy(x)
    PROVE  /\ AtClause(z) /\ z.pc = x.pc /\ z.k = x.k /\ z.stmt = x.stmt /\ z.snap = x.snap /\ z.base = x.base
           /\ z.htab = x.htab /\ z.cid = x.cid + 1 /\ z.used = FALSE
<1>1. PICK y : y = [x EXCEPT !.used = TRUE, !.dirty = TRUE, !.mutated = x.mutated \cup {x.k}]
  OBVIOUS
<1>2. PICK w : w = CommandCounterIncrement(y)
  OBVIOUS
<1>3. z = [w EXCEPT !.curcid = w.cid]
  <2>1. y = [x EXCEPT !.used = TRUE, !.dirty = TRUE, !.mutated = @ \cup {x.k}]
    BY <1>1
  <2> QED
    BY <1>2, <2>1 DEF DeletedBy
<1>4. Cursor(x) /\ IsQuery(x.stmt) /\ x.k \in 1 .. Len(Clauses(x)) /\ x.curcid \in Int
  BY DEF AtClause
<1>5. Cursor(y) /\ y.pc = x.pc /\ y.stmt = x.stmt /\ y.k = x.k /\ y.snap = x.snap /\ y.base = x.base
  BY <1>1, <1>4 DEF Cursor
<1>6. y.cid = x.cid /\ y.htab = x.htab /\ y.curcid = x.curcid /\ y.used = TRUE
  BY <1>1, <1>4 DEF Cursor
<1>7. AtClause(y) /\ y.cid \in Nat /\ y.used
  BY <1>4, <1>5, <1>6 DEF AtClause, Clauses
<1>8. /\ AtClause(w) /\ w.pc = y.pc /\ w.k = y.k /\ w.stmt = y.stmt /\ w.snap = y.snap /\ w.base = y.base
      /\ w.htab = y.htab /\ w.cid = y.cid + 1 /\ w.used = FALSE
  BY <1>2, <1>7, CommandEnds, Zenon
<1>9. Cursor(w) /\ w.cid \in Int
  BY <1>7, <1>8 DEF AtClause
<1>10. Cursor(z) /\ z.pc = w.pc /\ z.k = w.k /\ z.stmt = w.stmt /\ z.snap = w.snap /\ z.base = w.base
  BY <1>3, <1>9 DEF Cursor
<1>11. z.htab = w.htab /\ z.cid = w.cid /\ z.used = w.used /\ z.curcid = w.cid
  BY <1>3, <1>9 DEF Cursor
<1>12. AtClause(z)
  BY <1>8, <1>9, <1>10, <1>11 DEF AtClause, Clauses
<1> QED
  BY <1>5, <1>6, <1>8, <1>10, <1>11, <1>12

\* One item of DELETE.
LEMMA DeleteItemStep ==
    ASSUME IInv, IInv', DInv, NEW t \in Txns, DeleteItem(t)
    PROVE  DInv'
<1>1. PICK x : x = tx[t]
  OBVIOUS
<1>2. x.pc = "row" /\ Clause(x).op = "delete" /\ InDelete(x)
  BY <1>1, Zenon DEF DeleteItem, InDelete
<1>3. /\ AtRow(t, x) /\ Cursor(x) /\ x.cid \in Nat /\ x.base \in Nat
      /\ x.curcid \in Int /\ x.used \in BOOLEAN /\ x.base <= x.cid
  BY <1>1, <1>2, AtRowHas
<1>4. CASE Fail(t)
  BY <1>1, <1>2, <1>4, FailStops
<1>5. PICK y : y = [x EXCEPT !.curcid = x.cid,
                             !.doomed = @ \cup (IF Wanted(t) = {} THEN {} ELSE {Target(x)})]
  OBVIOUS
<1>6. PICK d : y = [x EXCEPT !.curcid = x.cid, !.doomed = d]
  BY <1>5, Zenon
<1>7. Cursor(y) /\ y.pc = x.pc /\ y.stmt = x.stmt /\ y.k = x.k /\ y.snap = x.snap /\ y.base = x.base
  BY <1>3, <1>6 DEF Cursor
<1>8. y.cid = x.cid /\ y.htab = x.htab /\ y.curcid = x.cid /\ y.used = x.used
  BY <1>3, <1>6 DEF Cursor
<1>9. \/ Fail(t)
      \/ heap' = heap /\ (tx' = [tx EXCEPT ![t] = NextItem(x)] \/ tx' = [tx EXCEPT ![t] = NextItem(y)])
      \/ \E i \in Wanted(t) : \E h :
            /\ Writable(t, i) /\ heap' = Ended(t, i, x.cid)
            /\ h = IF IsVertex(heap[i]) THEN y.htab \cup {<<x.k, Target(x)>>} ELSE y.htab
            /\ tx' = [tx EXCEPT ![t] = NextItem(DeletedBy([y EXCEPT !.htab = h]))]
  <2> DEFINE X == tx[t]
             Y == [X EXCEPT !.curcid = X.cid,
                            !.doomed = X.doomed \cup (IF Wanted(t) = {} THEN {} ELSE {Target(X)})]
             H(i) == IF IsVertex(heap[i]) THEN Y.htab \cup {<<X.k, Target(X)>>} ELSE Y.htab
  <2>1. \/ Fail(t)
        \/ heap' = heap /\ (tx' = [tx EXCEPT ![t] = NextItem(X)] \/ tx' = [tx EXCEPT ![t] = NextItem(Y)])
        \/ \E i \in Wanted(t) :
              /\ Writable(t, i) /\ heap' = Ended(t, i, X.cid)
              /\ tx' = [tx EXCEPT ![t] = NextItem(DeletedBy([Y EXCEPT !.htab = H(i)]))]
    BY Zenon DEF DeleteItem
  <2>2. x = X /\ y = Y
    BY <1>1, <1>5
  <2>3. \A i : H(i) = IF IsVertex(heap[i]) THEN y.htab \cup {<<x.k, Target(x)>>} ELSE y.htab
    BY <2>2
  <2> HIDE DEF X, Y, H
  <2> QED
    BY <2>1, <2>2, <2>3, Zenon
<1>10. status' = status \/ Fail(t)
  BY Zenon DEF DeleteItem
<1>11. ASSUME NEW v \in {x, y}, heap' = heap, status' = status, tx' = [tx EXCEPT ![t] = NextItem(v)]
       PROVE  DInv'
  <2>1. /\ v.pc = "row" /\ v.stmt = x.stmt /\ v.snap = x.snap /\ v.base = x.base
        /\ v.cid = x.cid /\ v.htab = x.htab /\ v.used = x.used
    BY <1>2, <1>7, <1>8
  <2>2. AtClause(v)
    BY <1>3, <1>7, <1>8 DEF AtRow, AtClause, Clauses
  <2>3. PICK b : b = NextItem(v)
    OBVIOUS
  <2>4. SameCommand(v, b) /\ b.pc \in {"row", "set", "last"}
    BY <2>1, <2>2, <2>3, NextItemMoves
  <2>5. Advances(x, b)
    BY <1>3, <2>1, <2>4, AdvancesIs
  <2>6. tx' = [tx EXCEPT ![t] = b]
    BY <1>11, <2>3
  <2> QED
    BY <1>1, <1>2, <1>11, <2>5, <2>6, QuietKeeps
<1>12. ASSUME NEW i \in Wanted(t), NEW h, Writable(t, i), heap' = Ended(t, i, x.cid), status' = status,
              h = IF IsVertex(heap[i]) THEN y.htab \cup {<<x.k, Target(x)>>} ELSE y.htab,
              tx' = [tx EXCEPT ![t] = NextItem(DeletedBy([y EXCEPT !.htab = h]))]
       PROVE  DInv'
  <2>1. i \in DOMAIN heap /\ VisibleAt(t, tx[t].cid, heap[i])
    BY WantedIs
  <2>2. heap[i].id = Target(x)
    BY <1>1, <1>2 DEF Wanted, InSet, InDetach, Find
  <2>3. PICK v : v = [y EXCEPT !.htab = h]
    OBVIOUS
  <2>4. Cursor(v) /\ v.pc = x.pc /\ v.stmt = x.stmt /\ v.k = x.k /\ v.snap = x.snap /\ v.base = x.base
    BY <1>7, <2>3 DEF Cursor
  <2>5. v.cid = x.cid /\ v.htab = h /\ v.curcid = x.cid
    BY <1>7, <1>8, <2>3 DEF Cursor
  <2>6. AtClause(v) /\ v.cid \in Nat
    BY <1>3, <2>4, <2>5 DEF AtRow, AtClause, Clauses
  <2>7. PICK z : z = DeletedBy(v)
    OBVIOUS
  <2>8. /\ AtClause(z) /\ z.pc = v.pc /\ z.stmt = v.stmt /\ z.snap = v.snap /\ z.base = v.base
        /\ z.htab = v.htab /\ z.cid = v.cid + 1 /\ z.used = FALSE
    BY <2>6, <2>7, DeletedMoves, Zenon
  <2>9. PICK b : b = NextItem(z)
    OBVIOUS
  <2>10. SameCommand(z, b) /\ b.pc \in {"row", "set", "last"}
    BY <1>2, <2>4, <2>8, <2>9, NextItemMoves
  <2>11. Advances(x, b)
    <3>1. /\ z.stmt = x.stmt /\ z.snap = x.snap /\ x.htab \subseteq z.htab /\ z.base = x.base
          /\ z.used \in BOOLEAN /\ z.cid = x.cid + 1
      BY <1>8, <1>12, <2>4, <2>5, <2>8
    <3> QED
      BY <1>3, <2>10, <3>1, AdvancesIs
  <2>12. tx' = [tx EXCEPT ![t] = b]
    BY <1>12, <2>3, <2>7, <2>9
  <2>13. b.cid = tx[t].cid + 1 /\ b.htab = h /\ b.stmt = x.stmt
    BY <1>1, <2>4, <2>5, <2>8, <2>10 DEF SameCommand
  <2>14. ASSUME IsVertex(heap[i]) PROVE Pending(t, heap[i].id)'
    <3>1. tx'[t] = b
      BY <2>12 DEF IInv, StatusInv
    <3>2. heap'[i].id = Target(x)
      <4>1. PICK f : f = Ended(t, i, tx[t].cid) /\ heap' = f
        BY <1>1, <1>12
      <4>2. f[i].id = heap[i].id
        BY <1>12, <2>1, <4>1, EndedIs
      <4> QED
        BY <2>2, <4>1, <4>2
    <3>3. <<x.k, Target(x)>> \in b.htab
      BY <1>12, <2>13, <2>14
    <3>4. x.k \in 1 .. Len(Clauses(b)) /\ Clauses(b)[x.k].op = "delete"
      BY <1>2, <1>3, <2>13 DEF AtRow, Clause, Clauses
    <3>5. Clauses(tx[t])' = Clauses(b)
      BY <3>1 DEF Clauses
    <3> QED
      BY <2>10, <3>1, <3>2, <3>3, <3>4, <3>5 DEF Pending
  <2> QED
    BY <1>1, <1>2, <1>12, <2>1, <2>11, <2>12, <2>13, <2>14, RemoveKeeps
<1> QED
  BY <1>4, <1>9, <1>10, <1>11, <1>12

\* One edge that a deleted vertex leaves behind.
LEMMA DeleteConnectedStep ==
    ASSUME IInv, IInv', DInv, NEW t \in Txns, DeleteConnected(t)
    PROVE  DInv'
<1>1. PICK x : x = tx[t]
  OBVIOUS
<1>2. x.pc = "end" /\ CursorOK(t, x) /\ Cursors(t)
  <2>1. x.pc = "end"
    BY <1>1 DEF DeleteConnected, InDetach
  <2> QED
    BY <1>1, <2>1, CursorIs DEF DInv
<1>3. AtClause(x) /\ x.cid \in Nat /\ x.base \in Nat /\ x.base <= x.cid /\ Cursor(x)
  BY <1>1, <1>2 DEF CursorOK, PlaceOK, AtClause, Cursors
<1>4. CASE Fail(t)
  BY <1>1, <1>2, <1>4, FailStops
<1>5. CASE ~Fail(t)
  <2>1. PICK y : y = [x EXCEPT !.curcid = x.cid]
    OBVIOUS
  <2>2. PICK z : z = DeletedBy(y)
    OBVIOUS
  <2>3. PICK i \in Connected(t) : /\ Writable(t, i) /\ heap' = Ended(t, i, x.cid)
                                  /\ tx' = [tx EXCEPT ![t] = z] /\ status' = status
    BY <1>1, <1>5, <2>1, <2>2 DEF DeleteConnected
  <2>4. i \in DOMAIN heap /\ VisibleAt(t, tx[t].cid, heap[i]) /\ ~IsVertex(heap[i])
    <3>1. i \in DOMAIN heap /\ VisibleAt(t, tx[t].cid, heap[i]) /\ DOMAIN heap[i].ends # {}
      BY DEF Connected
    <3>2. DOMAIN << >> = {}
      OBVIOUS
    <3> QED
      BY <3>1, <3>2 DEF IsVertex
  <2>5. Cursor(y) /\ y.pc = x.pc /\ y.stmt = x.stmt /\ y.k = x.k /\ y.snap = x.snap /\ y.base = x.base
    BY <1>3, <2>1 DEF Cursor
  <2>6. y.cid = x.cid /\ y.htab = x.htab /\ y.curcid = x.cid
    BY <1>3, <2>1 DEF Cursor
  <2>7. AtClause(y) /\ y.cid \in Nat
    BY <1>3, <2>5, <2>6 DEF AtClause, Clauses
  <2>8. /\ AtClause(z) /\ z.pc = y.pc /\ z.k = y.k /\ z.stmt = y.stmt /\ z.snap = y.snap /\ z.base = y.base
        /\ z.htab = y.htab /\ z.cid = y.cid + 1 /\ z.used = FALSE
    BY <2>2, <2>7, DeletedMoves, Zenon
  <2>9. z.curcid \in Int
    BY <2>8 DEF AtClause
  <2>10. Advances(x, z) /\ z.cid = tx[t].cid + 1
    <3>1. z.base <= z.cid
      BY <1>3, <2>5, <2>6, <2>8
    <3> QED
      BY <1>1, <1>2, <2>5, <2>6, <2>8, <2>9, <3>1 DEF Advances
  <2> QED
    BY <1>1, <1>2, <2>3, <2>4, <2>10, RemoveKeeps
<1> QED
  BY <1>4, <1>5

\* A cursor that counts the commands as CommandCounterIncrement does.
Counted(x, z) ==
    /\ (z.cid = x.cid + 1 /\ z.used = FALSE) \/ (z.cid = x.cid /\ z.used = x.used)
    /\ z.stmt = x.stmt /\ z.snap = x.snap /\ z.htab = x.htab /\ z.base = x.base /\ z.curcid \in Int

\* The cursor of a clause that hands on the last row, and where the clause starts to end.
LEMMA NoMoreRowsStep ==
    ASSUME IInv, IInv', DInv, NEW t \in Txns, NoMoreRows(t)
    PROVE  DInv'
<1>1. PICK x : x = tx[t]
  OBVIOUS
<1>2. x.pc = "last" /\ CursorOK(t, x) /\ Cursors(t)
  <2>1. x.pc = "last"
    BY <1>1 DEF NoMoreRows
  <2> QED
    BY <1>1, <2>1, CursorIs DEF DInv
<1>3. /\ AtClause(x) /\ x.cid \in Nat /\ x.base \in Nat /\ x.base <= x.cid /\ Cursor(x)
      /\ x.used \in BOOLEAN /\ x.k = Len(Clauses(x))
  BY <1>1, <1>2 DEF CursorOK, PlaceOK, AtClause, Cursors
<1>4. PICK d : d = (x.dirty /\ ~Counts(x))
  OBVIOUS
<1>5. PICK y : y = [x EXCEPT !.pc = "end", !.dirty = d]
  OBVIOUS
<1>6. PICK w : w = CommandCounterIncrement(y)
  OBVIOUS
<1>7. PICK z : z = IF IsTerminal(x) /\ Clause(x).op \in {"create", "set"} THEN w ELSE y
  OBVIOUS
<1>8. tx' = [tx EXCEPT ![t] = z] /\ heap' = heap /\ status' = status
  <2>1. [x EXCEPT !.pc = "end", !.dirty = @ /\ ~Counts(x)] = y
    BY <1>4, <1>5
  <2> QED
    BY <1>1, <1>6, <1>7, <2>1 DEF NoMoreRows
<1>9. Cursor(y) /\ y.pc = "end" /\ y.k = x.k /\ y.stmt = x.stmt /\ y.snap = x.snap /\ y.base = x.base
  BY <1>3, <1>5 DEF Cursor
<1>10. y.cid = x.cid /\ y.htab = x.htab /\ y.curcid = x.curcid /\ y.used = x.used
  BY <1>3, <1>5 DEF Cursor
<1>11. AtClause(y) /\ y.cid \in Nat
  BY <1>3, <1>9, <1>10 DEF AtClause, Clauses
<1>12. x.curcid \in Int /\ IsQuery(x.stmt)
  BY <1>3 DEF AtClause
<1>13. CASE ~x.used
  <2>1. w = y
    BY <1>6, <1>10, <1>13 DEF CommandCounterIncrement
  <2>2. z = y
    BY <1>7, <2>1
  <2>3. Advances(x, z)
    BY <1>2, <1>3, <1>9, <1>10, <1>12, <1>13, <2>2 DEF Advances
  <2> QED
    BY <1>1, <1>2, <1>8, <2>3, QuietKeeps
<1>14. CASE x.used
  <2>1. AtClause(y) /\ y.cid \in Nat /\ y.used
    BY <1>10, <1>11, <1>14
  <2>2. /\ AtClause(w) /\ w.pc = y.pc /\ w.k = y.k /\ w.stmt = y.stmt /\ w.snap = y.snap /\ w.base = y.base
        /\ w.htab = y.htab /\ w.cid = y.cid + 1 /\ w.used = FALSE
    BY <1>6, <2>1, CommandEnds, Zenon
  <2>3. w.curcid \in Int
    BY <2>2 DEF AtClause
  <2>4. w.base <= w.cid
    BY <1>3, <1>9, <1>10, <2>2
  <2>5. CASE z = w
    <3>1. Advances(x, z)
      BY <1>3, <1>9, <1>10, <2>2, <2>3, <2>4, <2>5 DEF Advances
    <3> QED
      BY <1>1, <1>2, <1>8, <3>1, QuietKeeps
  <2>6. CASE z # w
    <3>1. z = y /\ ~(IsTerminal(x) /\ Clause(x).op \in {"create", "set"})
      BY <1>7, <2>6
    <3>2. ~CreatesLast(x)
      BY <1>3, <3>1 DEF CreatesLast, IsTerminal, Clause, Clauses
    <3>3. Advances(x, z)
      BY <1>3, <1>9, <1>10, <1>12, <3>1, <3>2 DEF Advances
    <3> QED
      BY <1>1, <1>2, <1>8, <3>3, QuietKeeps
  <2> QED
    BY <2>5, <2>6
<1> QED
  BY <1>3, <1>13, <1>14

\* The end of a clause: its deleted vertices have no edge left.
LEMMA EndClauseStep ==
    ASSUME IInv, IInv', DInv, NEW t \in Txns, EndClause(t)
    PROVE  DInv'
<1>1. PICK x : x = tx[t]
  OBVIOUS
<1>2. x.pc = "end" /\ CursorOK(t, x) /\ Cursors(t) /\ status[t] = "running"
  <2>1. x.pc = "end"
    BY <1>1 DEF EndClause
  <2>2. CursorOK(t, x) /\ Cursors(t)
    BY <1>1, <2>1, CursorIs DEF DInv
  <2> QED
    BY <2>1, <2>2 DEF CursorOK
<1>3. /\ AtClause(x) /\ x.cid \in Nat /\ x.base \in Nat /\ x.base <= x.cid /\ Cursor(x)
      /\ x.used \in BOOLEAN /\ x.curcid \in Int
  BY <1>1, <1>2 DEF CursorOK, PlaceOK, AtClause, Cursors
<1>4. PICK d : d = (x.dirty /\ ~Counts(x))
  OBVIOUS
<1>5. PICK y : y = [x EXCEPT !.dirty = d]
  OBVIOUS
<1>6. PICK z : z = IF Clause(x).op \in {"create", "merge"} THEN CommandCounterIncrement(y) ELSE y
  OBVIOUS
<1>7. PICK w : w = CommandCounterIncrement(z)
  OBVIOUS
<1>8. tx' = [tx EXCEPT ![t] = IF x.k > 1 THEN [z EXCEPT !.k = @ - 1] ELSE [w EXCEPT !.pc = "ready"]]
  <2>1. [x EXCEPT !.dirty = @ /\ ~Counts(x)] = y
    BY <1>4, <1>5
  <2> QED
    BY <1>1, <1>6, <1>7, <2>1, ZenonT(60) DEF EndClause
<1>9. heap' = heap /\ status' = status /\ (Clause(x).op = "delete" => Connected(t) = {})
  BY <1>1 DEF EndClause
<1>10. Cursor(y) /\ y.pc = x.pc /\ y.k = x.k /\ y.stmt = x.stmt /\ y.snap = x.snap /\ y.base = x.base
  BY <1>3, <1>5 DEF Cursor
<1>11. y.cid = x.cid /\ y.htab = x.htab /\ y.curcid = x.curcid /\ y.used = x.used
  BY <1>3, <1>5 DEF Cursor
<1>12. AtClause(y) /\ y.cid \in Nat /\ y.used \in BOOLEAN /\ Counted(x, y)
  BY <1>3, <1>10, <1>11 DEF AtClause, Clauses, Counted
\* What CommandCounterIncrement leaves.
<1>13. ASSUME NEW a, AtClause(a), a.cid \in Nat, a.used \in BOOLEAN, NEW b, b = CommandCounterIncrement(a)
       PROVE  /\ AtClause(b) /\ b.pc = a.pc /\ b.k = a.k /\ b.cid \in Nat /\ b.used = FALSE
              /\ Counted(a, b)
  <2>1. CASE a.used
    <3>1. AtClause(a) /\ a.cid \in Nat /\ a.used
      BY <1>13, <2>1
    <3>2. /\ AtClause(b) /\ b.pc = a.pc /\ b.k = a.k /\ b.stmt = a.stmt /\ b.snap = a.snap /\ b.base = a.base
          /\ b.htab = a.htab /\ b.cid = a.cid + 1 /\ b.used = FALSE
      BY <1>13, <3>1, CommandEnds, Zenon
    <3>3. b.curcid \in Int
      BY <3>2 DEF AtClause
    <3> QED
      BY <1>13, <3>2, <3>3 DEF Counted
  <2>2. CASE ~a.used
    <3>1. b = a
      BY <1>13, <2>2 DEF CommandCounterIncrement
    <3>2. a.curcid \in Int
      BY <1>13 DEF AtClause
    <3> QED
      BY <1>13, <2>2, <3>1, <3>2 DEF Counted
  <2> QED
    BY <1>13, <2>1, <2>2
<1>14. AtClause(z) /\ z.pc = x.pc /\ z.k = x.k /\ z.cid \in Nat /\ z.used \in BOOLEAN /\ Counted(x, z)
  <2>1. CASE z = y
    BY <1>10, <1>12, <2>1
  <2>2. CASE z = CommandCounterIncrement(y)
    <3>1. AtClause(z) /\ z.pc = y.pc /\ z.k = y.k /\ z.cid \in Nat /\ z.used = FALSE /\ Counted(y, z)
      BY <1>12, <1>13, <2>2
    <3>2. Counted(x, z)
      BY <1>10, <1>11, <3>1 DEF Counted
    <3> QED
      BY <1>10, <3>1, <3>2
  <2> QED
    BY <1>6, <2>1, <2>2
<1>15. AtClause(w) /\ w.pc = x.pc /\ w.k = x.k /\ w.cid \in Nat /\ w.used = FALSE /\ Counted(z, w)
  BY <1>7, <1>13, <1>14
<1>16. x.cid <= z.cid /\ z.cid <= w.cid
  BY <1>3, <1>14, <1>15 DEF Counted
<1>17. PICK n \in Nat : n = Len(Clauses(x)) /\ x.k \in 1 .. n
  BY <1>3 DEF AtClause, IsQuery, List, Clauses
<1>18. tx \in [Txns -> {tx[u] : u \in Txns}]
  BY DEF IInv, StatusInv
<1>19. ~CreatesLast(x)
  BY <1>2 DEF CreatesLast
<1>20. CASE x.k > 1
  <2>1. PICK l \in 1 .. n : l = x.k - 1
    BY <1>17, <1>20
  <2>2. PICK v : v = [z EXCEPT !.k = l]
    OBVIOUS
  <2>3. Cursor(z)
    BY <1>14 DEF AtClause
  <2>4. v.pc = z.pc /\ v.k = l /\ v.stmt = z.stmt /\ v.snap = z.snap /\ v.base = z.base
    BY <2>2, <2>3 DEF Cursor
  <2>5. v.cid = z.cid /\ v.htab = z.htab /\ v.curcid = z.curcid /\ v.used = z.used
    BY <2>2, <2>3 DEF Cursor
  <2>6. tx' = [tx EXCEPT ![t] = v]
    <3>1. [z EXCEPT !.k = @ - 1] = v
      BY <1>14, <2>1, <2>2, <2>3 DEF Cursor
    <3> QED
      BY <1>8, <1>20, <3>1
  <2>7. tx'[t] = v /\ \A u \in Txns \ {t} : tx'[u] = tx[u]
    BY <1>18, <2>6
  <2>8. QuietStep(t)
    BY <1>1, <1>2, <1>9, <1>14, <1>19, <2>4, <2>5, <2>7 DEF QuietStep, Counted
  <2>9. v.curcid \in Int /\ v.used \in BOOLEAN /\ v.base <= v.cid /\ v.pc = "end"
    BY <1>2, <1>3, <1>14, <1>16, <2>4, <2>5 DEF Counted
  <2>10. Cursors(t)'
    BY <2>7, <2>9 DEF Cursors
  <2>11. ASSUME NEW id, Pending(t, id)
         PROVE  Pending(t, id)' \/ (Connected(t) = {} /\ <<tx[t].k, id>> \in tx[t].htab)
    <3>1. PICK k \in 1 .. n : Clauses(x)[k].op = "delete" /\ <<k, id>> \in x.htab /\ k <= x.k
      BY <1>1, <1>2, <1>17, <2>11 DEF Pending
    <3>2. CASE k = x.k
      BY <1>1, <1>9, <3>1, <3>2 DEF Clause, Clauses
    <3>3. CASE k # x.k
      <4>1. k <= l
        BY <1>17, <2>1, <3>1, <3>3
      <4>2. Clauses(tx[t])' = Clauses(x)
        BY <1>14, <2>4, <2>7 DEF Clauses, Counted
      <4>3. <<k, id>> \in v.htab
        BY <1>14, <2>5, <3>1 DEF Counted
      <4> QED
        BY <1>17, <2>4, <2>7, <2>9, <3>1, <4>1, <4>2, <4>3 DEF Pending
    <3> QED
      BY <3>2, <3>3
  <2> QED
    BY <1>1, <1>2, <2>8, <2>10, <2>11, EndedKeeps
<1>21. CASE ~(x.k > 1)
  <2>1. PICK v : v = [w EXCEPT !.pc = "ready"]
    OBVIOUS
  <2>2. tx' = [tx EXCEPT ![t] = v]
    BY <1>8, <1>21, <2>1
  <2>3. Cursor(w)
    BY <1>15 DEF AtClause
  <2>4. v.pc = "ready" /\ v.stmt = w.stmt /\ v.snap = w.snap /\ v.base = w.base
    BY <2>1, <2>3 DEF Cursor
  <2>5. v.cid = w.cid /\ v.curcid = w.curcid /\ v.used = w.used
    BY <2>1, <2>3 DEF Cursor
  <2>6. tx'[t] = v /\ \A u \in Txns \ {t} : tx'[u] = tx[u]
    BY <1>18, <2>2
  <2>7. (w.cid = x.cid + 1 \/ (w.cid = x.cid /\ ~x.used)) /\ w.snap = x.snap /\ w.base = x.base /\ w.curcid \in Int
    <3>1. CASE z.cid = x.cid + 1 /\ z.used = FALSE
      BY <1>3, <1>7, <1>14, <3>1 DEF Counted, CommandCounterIncrement
    <3>2. CASE z.cid = x.cid /\ z.used = x.used
      <4>1. CASE x.used
        <5>1. Cursor(z) /\ z.used
          BY <1>14, <3>2, <4>1 DEF AtClause
        <5>2. w.cid = z.cid + 1
          BY <1>7, <1>14, <5>1, Incremented
        <5> QED
          BY <1>14, <1>15, <3>2, <5>2 DEF Counted
      <4>2. CASE ~x.used
        BY <1>7, <1>14, <3>2, <4>2 DEF Counted, CommandCounterIncrement
      <4> QED
        BY <4>1, <4>2
    <3> QED
      BY <1>14, <3>1, <3>2 DEF Counted
  <2>8. QuietStep(t)
    BY <1>1, <1>2, <1>9, <2>4, <2>5, <2>6, <2>7 DEF QuietStep
  <2>9. v.curcid \in Int /\ v.used = FALSE /\ v.base <= v.cid
    BY <1>3, <1>15, <1>16, <2>4, <2>5, <2>7
  <2>10. Cursors(t)'
    BY <2>6, <2>9 DEF Cursors
  <2>11. ASSUME NEW id, Pending(t, id) PROVE Connected(t) = {} /\ <<tx[t].k, id>> \in tx[t].htab
    <3>1. PICK k \in 1 .. n : Clauses(x)[k].op = "delete" /\ <<k, id>> \in x.htab /\ k <= x.k
      BY <1>1, <1>2, <1>17, <2>11 DEF Pending
    <3>2. k = x.k
      BY <1>17, <1>21, <3>1
    <3> QED
      BY <1>1, <1>9, <3>1, <3>2 DEF Clause, Clauses
  <2> QED
    BY <1>1, <1>2, <2>8, <2>10, <2>11, EndedKeeps
<1> QED
  BY <1>20, <1>21

\* Nothing changes.
LEMMA StutterKeeps ==
    ASSUME DInv, UNCHANGED vars
    PROVE  DInv'
<1>1. heap' = heap /\ status' = status /\ tx' = tx
  BY DEF vars
<1>2. \A x : (Committed(x)' <=> Committed(x)) /\ (Stands(x)' <=> Stands(x)) /\ Known(x)' = Known(x)
  BY <1>1 DEF Committed, Stands, Known
<1>3. \A i : IsLast(i)' <=> IsLast(i)
  BY <1>1, <1>2 DEF IsLast
<1>4. \A u, id : Pending(u, id)' <=> Pending(u, id)
  BY <1>1 DEF Pending, Clauses
<1>5. Lineage' /\ SawCommitted' /\ EndsCommitted'
  BY <1>1, <1>2 DEF DInv, Lineage, SawCommitted, EndsCommitted
<1>6. Chain' /\ SeesPast' /\ EndsExist'
  BY <1>1, <1>2 DEF DInv, Chain, Follows, SeesPast, EndsExist, IsVertex
<1>7. Edges'
  BY <1>1, <1>2, <1>3, <1>4 DEF DInv, Edges, Attached, Detached
<1>8. \A t \in Txns : Cursors(t)' /\ (status'[t] = "running" => Commands(t)')
  <2>1. \A t, i : Written(t, i)' <=> Written(t, i)
    BY <1>1 DEF Written, CreatesLast, Clauses, VisibleAt, Sees
  <2> QED
    BY <1>1, <1>3, <2>1 DEF DInv, Cursors, Commands
<1> QED
  BY <1>5, <1>6, <1>7, <1>8 DEF DInv

\* A statement starts: what its transaction has written it now sees.
LEMMA StartStep ==
    ASSUME IInv, DInv, NEW t \in Txns, NEW s, Start(t, s)
    PROVE  DInv'
<1>1. PICK x : x = tx[t]
  OBVIOUS
<1>2. status[t] = "running" /\ x.pc = "ready"
  BY <1>1, Zenon DEF Start
<1>3. CursorOK(t, x) /\ Cursors(t)
  BY <1>1, CursorIs DEF DInv
<1>4. x.cid \in Nat /\ x.used \in BOOLEAN
  BY <1>1, <1>3 DEF CursorOK, Cursors
<1>5. PICK snap : snap = {Boot} \cup {u \in Txns : status[u] = "committed"}
  OBVIOUS
<1>6. PICK c, d : c = x.count + 1 /\ d = x.cid + 1
  OBVIOUS
<1>7. PICK y : y = [NoStatement EXCEPT !.snap = snap, !.cid = x.cid, !.used = x.used,
                                 !.base = x.cid, !.count = c, !.curcid = d, !.stmt = s]
  OBVIOUS
<1>8. \E rows, k : tx' = [tx EXCEPT ![t] = IF rows = <<>> THEN [y EXCEPT !.pc = "last", !.k = k]
                                           ELSE [y EXCEPT !.pc = "row", !.rows = rows]]
  <2> DEFINE seen == {Boot} \cup {u \in Txns : status[u] = "committed"}
             first == [NoStatement EXCEPT !.snap = seen, !.cid = tx[t].cid, !.used = tx[t].used,
                                          !.base = tx[t].cid, !.count = tx[t].count + 1,
                                          !.curcid = tx[t].cid + 1, !.stmt = s]
             Bound(row) == \A w \in Vars : row[w] # Null =>
                               \E i \in DOMAIN heap :
                                   heap[i].id = row[w] /\ Sees(t, seen, tx[t].cid, heap[i])
             B == {i \in DOMAIN s.rows : Bound(s.rows[i])}
             found == [i \in DOMAIN InOrder(B) |-> s.rows[InOrder(B)[i]]]
  <2>1. tx' = [tx EXCEPT ![t] = IF found = <<>> THEN [first EXCEPT !.pc = "last", !.k = Len(s.clauses)]
                                ELSE [first EXCEPT !.pc = "row", !.rows = found]]
    BY Zenon DEF Start
  <2>2. y = first
    BY <1>1, <1>5, <1>6, <1>7, Zenon
  <2> HIDE DEF seen, first, Bound, B, found
  <2> QED
    BY <2>1, <2>2, Zenon
<1>9. PICK rows, k : tx' = [tx EXCEPT ![t] = IF rows = <<>> THEN [y EXCEPT !.pc = "last", !.k = k]
                                             ELSE [y EXCEPT !.pc = "row", !.rows = rows]]
  BY <1>8
<1>10. PICK z : z = IF rows = <<>> THEN [y EXCEPT !.pc = "last", !.k = k]
                    ELSE [y EXCEPT !.pc = "row", !.rows = rows]
  OBVIOUS
<1>11. heap' = heap /\ status' = status
  BY Zenon DEF Start
<1>12. /\ Cursor(y) /\ y.snap = snap /\ y.cid = x.cid /\ y.used = x.used /\ y.base = x.cid /\ y.curcid = d
  <2>1. y = [pc |-> "ready", stmt |-> s, rows |-> <<>>, r |-> 1, upto |-> 0, k |-> 1, i |-> 1,
             lidx |-> 0, snap |-> snap, cid |-> x.cid, used |-> x.used, curcid |-> d, base |-> x.cid,
             onset |-> None, htab |-> {}, created |-> {}, mutated |-> {},
             doomed |-> {}, asked |-> {}, dirty |-> FALSE, count |-> c]
    BY <1>7, Zenon DEF NoStatement
  <2> QED
    BY <2>1 DEF Cursor
<1>13. /\ z.pc # "ready" /\ z.snap = y.snap /\ z.cid = y.cid /\ z.used = y.used /\ z.base = y.base
       /\ z.curcid = y.curcid
  <2>1. CASE rows = <<>>
    <3>1. z = [y EXCEPT !.pc = "last", !.k = k]
      BY <1>10, <2>1
    <3> QED
      BY <1>12, <3>1 DEF Cursor
  <2>2. CASE rows # <<>>
    <3>1. z = [y EXCEPT !.pc = "row", !.rows = rows]
      BY <1>10, <2>2
    <3> QED
      BY <1>12, <3>1 DEF Cursor
  <2> QED
    BY <2>1, <2>2
<1>14. tx'[t] = z /\ \A u \in Txns \ {t} : tx'[u] = tx[u]
  <2>1. tx \in [Txns -> {tx[u] : u \in Txns}]
    BY DEF IInv, StatusInv
  <2>2. tx' = [tx EXCEPT ![t] = z]
    BY <1>9, <1>10
  <2> QED
    BY <2>1, <2>2
<1>15. Begins(t)
  BY <1>1, <1>2, <1>5, <1>11, <1>12, <1>13, <1>14 DEF Begins
<1>16. z.curcid \in Int /\ z.used \in BOOLEAN /\ z.base <= z.cid
  BY <1>4, <1>6, <1>12, <1>13
<1>17. Cursors(t)'
  BY <1>13, <1>14, <1>16 DEF Cursors
<1> QED
  BY <1>15, <1>17, BeginKeeps

\* COMMIT, ROLLBACK and the victim of a deadlock.
LEMMA OverStep ==
    ASSUME IInv, DInv, NEW t \in Txns, Commit(t) \/ Rollback(t) \/ DeadlockAbort(t)
    PROVE  DInv'
<1>1. CASE Commit(t)
  <2>1. status[t] = "running" /\ tx[t].pc = "ready" /\ heap' = heap
    BY <1>1 DEF Commit
  <2>2. \A u \in Txns \ {t} : tx'[u] = tx[u] /\ status'[u] = status[u]
    BY <1>1 DEF IInv, StatusInv, Commit
  <2>3. status'[t] = "committed" /\ tx'[t] = [tx[t] EXCEPT !.pc = "over"]
    BY <1>1 DEF IInv, StatusInv, Commit
  <2>4. Cursor(tx[t])
    BY CursorIs DEF CursorOK
  <2>5. /\ tx'[t].pc = "over" /\ tx'[t].curcid = tx[t].curcid /\ tx'[t].used = tx[t].used
        /\ tx'[t].base = tx[t].base /\ tx'[t].cid = tx[t].cid
    BY <2>3, <2>4 DEF Cursor
  <2>6. Stopped(t)
    BY <2>1, <2>2, <2>5 DEF Stopped
  <2> QED
    BY <2>1, <2>3, <2>6, CommitKeeps
<1>2. CASE Rollback(t)
  BY <1>2, FailStops DEF Rollback
<1>3. CASE DeadlockAbort(t)
  <2>1. PICK i \in Wanted(t) : TRUE
    BY <1>3 DEF DeadlockAbort, WaitsFor
  <2>2. tx[t].pc # "over"
    BY <2>1, WantedIs
  <2> QED
    BY <1>3, <2>2, FailStops DEF DeadlockAbort
<1> QED
  BY <1>1, <1>2, <1>3

\* In the first graph every row is of Boot, and no version has another before it.
LEMMA InitDInv ==
    ASSUME Init
    PROVE  DInv
<1>1. /\ DOMAIN heap = DOMAIN Graph
      /\ \A i \in DOMAIN heap :
            heap[i] = Row(Graph[i].id, Graph[i].ends, Graph[i].val, Boot, 0, {Boot}, None)
  BY DEF Init
<1>2. ASSUME NEW i \in DOMAIN heap
      PROVE  /\ heap[i].id = Graph[i].id /\ heap[i].ends = Graph[i].ends
             /\ heap[i].xmin = Boot /\ heap[i].xmax = None /\ heap[i].by = Boot /\ heap[i].see = {Boot}
  <2>1. PICK id, ends, val : id = Graph[i].id /\ ends = Graph[i].ends /\ val = Graph[i].val
    OBVIOUS
  <2>2. PICK v : v = Row(id, ends, val, Boot, 0, {Boot}, None) /\ v = heap[i]
    BY <1>1, <2>1
  <2> QED
    BY <2>1, <2>2 DEF Row
<1>3. ASSUME NEW i \in DOMAIN heap, NEW j \in DOMAIN heap, heap[i].id = heap[j].id PROVE i = j
  BY <1>1, <1>2, <1>3, GraphAssumption
<1>4. Committed(Boot) /\ None \notin Txns /\ None # Boot /\ Boot \notin Txns
  BY TxnAssumption DEF Committed
<1>5. Lineage
  BY <1>2, <1>3, <1>4 DEF Lineage
<1>6. SawCommitted /\ EndsCommitted
  BY <1>2, <1>4 DEF SawCommitted, EndsCommitted
<1>7. ASSUME NEW i \in DOMAIN heap PROVE ~(i < i)
  <2>1. i \in Nat
    BY <1>1, <1>7, GraphAssumption DEF List
  <2> QED
    BY <2>1
<1>8. Chain
  BY <1>3, <1>7 DEF Chain
<1>9. ASSUME NEW t \in Txns PROVE tx[t] = NoStatement
  BY DEF Init
<1>10. PICK x : x = NoStatement
  OBVIOUS
<1>11. x.pc = "ready" /\ x.cid = 0 /\ x.base = 0 /\ x.used = FALSE /\ x.curcid = 0 /\ x.snap = {}
  BY <1>10 DEF NoStatement
<1>12. SeesPast
  <2>1. \A t \in Txns : None \notin Known(t)
    BY <1>4, <1>9, <1>10, <1>11 DEF Known
  <2>2. \A i \in DOMAIN heap : \A t \in Txns : heap[i].xmax \notin Known(t)
    BY <1>2, <2>1
  <2>3. \A i, j \in DOMAIN heap : ~(i < j /\ heap[i].id = heap[j].id)
    BY <1>3, <1>7
  <2> QED
    BY <2>2, <2>3 DEF SeesPast
<1>13. EndsExist
  <2> SUFFICES ASSUME NEW e \in DOMAIN heap, NEW n \in DOMAIN heap[e].ends
               PROVE  \E i \in DOMAIN heap :
                          /\ heap[i].id = heap[e].ends[n] /\ IsVertex(heap[i])
                          /\ heap[i].xmin = heap[e].by \/ Committed(heap[i].xmin)
    BY DEF EndsExist
  <2>1. PICK m \in DOMAIN Graph : Graph[m].id = heap[e].ends[n] /\ Graph[m].ends = <<>>
    BY <1>1, <1>2, EdgeAssumption
  <2> QED
    BY <1>1, <1>2, <1>4, <2>1 DEF IsVertex
<1>14. Edges
  <2>1. ASSUME NEW e \in DOMAIN heap, NEW m \in DOMAIN heap PROVE Attached(e, m) /\ Detached(e, m)
    BY <1>2, <1>4 DEF Attached, Detached
  <2> QED
    BY <2>1 DEF Edges
<1>15. ASSUME NEW t \in Txns PROVE Cursors(t) /\ Commands(t)
  <2>1. t # Boot /\ t # None
    BY <1>4
  <2>2. Commands(t)
    BY <1>2, <2>1 DEF Commands
  <2>3. tx[t] = x /\ ~x.used /\ x.used \in BOOLEAN
    BY <1>9, <1>10, <1>11
  <2>4. x.curcid \in Int /\ x.base <= x.cid
    BY <1>11
  <2> QED
    BY <2>2, <2>3, <2>4 DEF Cursors
<1> QED
  BY <1>5, <1>6, <1>8, <1>12, <1>13, <1>14, <1>15 DEF DInv

\* What is known of the versions of an entity, of what a statement saw and of the
\* DELETE clauses that have not ended.
THEOREM DanglingInvariance == Spec => [](IInv /\ DInv)
<1>1. Init => DInv
  BY InitDInv
<1>2. IInv /\ IInv' /\ DInv /\ [Next]_vars => DInv'
  <2> SUFFICES ASSUME IInv, IInv', DInv, [Next]_vars PROVE DInv'
    OBVIOUS
  <2>1. CASE UNCHANGED vars
    BY <2>1, StutterKeeps
  <2>2. ASSUME NEW t \in Txns, NEW s, Start(t, s)
        PROVE  DInv'
    BY <2>2, StartStep
  <2>3. ASSUME NEW t \in Txns, Commit(t) \/ Rollback(t)
        PROVE  DInv'
    BY <2>3, OverStep
  <2>4. ASSUME NEW t \in Txns, Step(t)
        PROVE  DInv'
    BY <2>4, ExecCreateStep, ApplyItemStep, MergeFoundStep, MergeMissingStep, DeleteItemStep,
       DeleteConnectedStep, NoMoreRowsStep, EndClauseStep, OverStep DEF Step
  <2> QED
    BY <2>1, <2>2, <2>3, <2>4 DEF Next, Quiesce
<1> QED
  BY <1>1, <1>2, Invariance, PTL DEF Spec

\* A committed edge has a vertex at both ends, unless it was made and the vertex was
\* deleted by transactions that did not see each other (create_edge looks for the
\* vertex with entity_exists, check_for_connected_edges for the edges).
THEOREM DanglingOnlyIfConcurrentAlways == Spec => []DanglingOnlyIfConcurrent
<1>1. IInv /\ DInv => DanglingOnlyIfConcurrent
  <2> SUFFICES ASSUME IInv, DInv, NEW e \in DOMAIN heap, Live(heap[e]), NEW n \in DOMAIN heap[e].ends,
                      NEW V, V = {i \in DOMAIN heap : heap[i].id = heap[e].ends[n] /\ Committed(heap[i].xmin)},
                      ~ \E i \in V : Live(heap[i])
               PROVE  V # {} /\ heap[Max(V)].xmax \notin heap[e].see /\ heap[e].by \notin heap[Max(V)].xsee
    BY DEF DanglingOnlyIfConcurrent
  <2>1. Committed(heap[e].xmin) /\ ~Committed(heap[e].xmax) /\ Committed(heap[e].by)
    BY DEF Live, DInv, Lineage
  <2>2. PICK i \in DOMAIN heap : heap[i].id = heap[e].ends[n] /\ Committed(heap[i].xmin)
    BY <2>1 DEF DInv, EndsExist
  <2>3. i \in V
    BY <2>2
  <2>4. PICK h \in Nat : DOMAIN heap = 1 .. h
    BY DEF IInv, HeapInv, Lists
  <2>5. PICK m \in V : m = Max(V) /\ \A j \in V : m >= j
    <3>1. V \in SUBSET (0 .. h)
      BY <2>4
    <3> QED
      BY <2>3, <2>4, <3>1, MaxIs
  <2>6. /\ m \in DOMAIN heap /\ heap[m].id = heap[e].ends[n] /\ Committed(heap[m].xmin)
        /\ Committed(heap[m].xmax) /\ heap[m].xmax \in Txns
    <3>1. m \in DOMAIN heap /\ heap[m].id = heap[e].ends[n] /\ Committed(heap[m].xmin)
      BY <2>5
    <3>2. Committed(heap[m].xmax)
      BY <2>5, <3>1 DEF Live
    <3>3. heap[m].xmax \in Txns
      BY <3>1, <3>2, TxnAssumption DEF Committed, IInv, HeapInv, VersionOK
    <3> QED
      BY <3>1, <3>2, <3>3
  <2>7. ASSUME NEW x, Committed(x) PROVE Stands(x)
    BY <2>7, TxnAssumption DEF Committed, Stands
  <2>8. IsLast(m)
    <3> SUFFICES ASSUME NEW j \in DOMAIN heap, j > m, heap[j].id = heap[m].id, Stands(heap[j].xmin)
                 PROVE  FALSE
      BY DEF IsLast
    <3>1. m \in Nat /\ j \in Nat /\ \A l \in V : ~(m < l)
      <4>1. \A l \in DOMAIN heap : l \in Nat
        BY <2>4
      <4>2. m \in Nat /\ j \in Nat /\ \A l \in V : l \in Nat
        BY <2>6, <4>1
      <4>3. ASSUME NEW l \in V PROVE ~(m < l)
        <5>1. m >= l /\ l \in Nat /\ m \in Nat
          BY <2>5, <4>2
        <5> QED
          BY <5>1
      <4> QED
        BY <4>2, <4>3
    <3>2. ~Committed(heap[j].xmin)
      BY <2>6, <3>1
    <3>3. Follows(m, j)
      BY <2>6, <2>7, <3>1 DEF DInv, Chain
    <3>4. PICK l \in DOMAIN heap : m < l /\ heap[l].id = heap[m].id /\ heap[l].xmin = heap[m].xmax
      BY <3>3 DEF Follows
    <3> QED
      BY <2>6, <3>1, <3>4
  <2>9. Attached(e, m) /\ Detached(e, m)
    BY <2>6, <2>7, <2>8 DEF DInv, Edges
  \* The DELETE clause of a transaction that has committed has ended.
  <2>10. ~Pending(heap[m].xmax, heap[m].id)
    <3>1. PICK u \in Txns : u = heap[m].xmax /\ status[u] = "committed"
      BY <2>6, TxnAssumption DEF Committed
    <3>2. tx[u].pc = "over"
      BY <3>1 DEF IInv, TxnInv, CursorOK
    <3> QED
      BY <3>1, <3>2 DEF Pending
  <2>11. heap[e].by \notin heap[m].xsee
    <3>1. ~(heap[e].xmax \in Txns /\ (heap[e].xmax = heap[m].xmax \/ Committed(heap[e].xmax)))
      BY <2>1, <2>6
    <3> QED
      BY <2>1, <2>6, <2>7, <2>9, <2>10, <3>1 DEF Detached
  <2>12. heap[m].xmax \notin heap[e].see
    <3>1. heap[m].xmax \in heap[m].xsee
      BY <2>6 DEF DInv, SawCommitted
    <3> QED
      BY <2>9, <2>11, <3>1 DEF Attached
  <2> QED
    BY <2>3, <2>5, <2>11, <2>12
<1> QED
  BY <1>1, DanglingInvariance, PTL

-----------------------------------------------------------------------------
(* MERGE makes a path once.                                                  *)

\* The first version of an entity.
Original(i) == \A j \in 1 .. i - 1 : heap[j].id # heap[i].id

\* The vertex of a path as MERGE has made it, and the versions of the path.
IsPath(i) == Original(i) /\ heap[i].pat # None
Path(i) == IF heap[i].pat[1] = None THEN {i} ELSE {i, i + 1}

\* A path is what its pattern says; the edge is written after the vertex.
PatternOK(i) ==
    /\ heap[i].by \in heap[i].see
    /\ IsPath(i) =>
          /\ heap[i].by = heap[i].xmin /\ IsVertex(heap[i]) /\ heap[i].val = heap[i].pat[2]
          /\ heap[i].pat[1] # None =>
                /\ i + 1 \in DOMAIN heap /\ heap[i + 1].ends = <<heap[i].pat[1], heap[i].id>>
                /\ heap[i + 1].xmin = heap[i].xmin /\ heap[i + 1].cmin = heap[i].cmin

\* A path is not made by a transaction that a statement saw before, but by its own.
MadeLater(i, j) == i < j /\ IsPath(j) /\ heap[j].by \in heap[i].see => heap[j].by = heap[i].by

\* MERGE makes a path beside one that it can see only if this one was ended, and the
\* statement saw who has ended it.
PairOK(i, j) ==
    (/\ i < j /\ IsPath(i) /\ IsPath(j) /\ heap[i].pat = heap[j].pat
     /\ heap[i].by \in heap[j].see /\ Stands(heap[j].xmin)) =>
        \E n \in Path(i) : heap[n].xmax \in heap[j].see

\* It is so for all paths.
Paths ==
    /\ \A i \in DOMAIN heap : PatternOK(i)
    /\ \A i, j \in DOMAIN heap : MadeLater(i, j) /\ PairOK(i, j)

\* The variable of MERGE is bound in every row.
AllBound(x) == \A n \in 1 .. Len(x.rows) : x.rows[n].m # Null

\* The rows of a cursor, and what MERGE has made for them.
RowsOK(x) ==
    /\ \A n \in 1 .. Len(x.rows) : x.rows[n] \in [Vars -> Nat \cup {Null}]
    /\ \A p \in x.created : p.id \in Nat /\ p.key = <<p.key[1], p.key[2], p.key[3]>>
    /\ \A k \in DOMAIN x.stmt.clauses :
          x.stmt.clauses[k].op = "merge" => x.stmt.clauses[k].from \in Vars \cup {None}
    /\ ~x.stmt.match => Len(x.rows) = 1 \/ AllBound(x)

\* A MERGE that still has rows without a path looks for it with a command id that
\* shows what earlier statements of the transaction have written.
LooksBack(x) ==
    AllBound(x) \/ \A k \in x.k .. Len(Clauses(x)) :
                       Clauses(x)[k].op = "merge" => x.curcid + (k - x.k) >= x.base + 1

\* What was made for earlier rows was made by this MERGE.
MadeHere(x) ==
    \/ x.created = {} \/ AllBound(x)
    \/ /\ x.stmt.match /\ Clauses(x)[StageEnd(x)].op = "merge"
       /\ \A p \in x.created : p.key[1] = StageEnd(x)

\* MERGE has bound the rows before the one it is at.
BoundSoFar(x) ==
    Clauses(x)[StageEnd(x)].op = "merge" => \A n \in 1 .. x.r - 1 : x.rows[n].m # Null

\* A cursor of a statement with MERGE.
Merging(x) == RowsOK(x) /\ LooksBack(x) /\ MadeHere(x) /\ BoundSoFar(x)

\* A statement knows the paths it has made.
Remembered(t) ==
    \A i \in DOMAIN heap :
        (IsPath(i) /\ heap[i].xmin = t /\ heap[i].cmin >= tx[t].base) =>
            \E p \in tx[t].created : p.key[2] = heap[i].pat[1] /\ p.key[3] = heap[i].pat[2]

MergeInv(t) ==
    tx[t].pc \in {"row", "set"} =>
        /\ Merging(tx[t]) /\ Remembered(t)
        /\ tx[t].pc = "set" => CurrentRow(tx[t]).m # Null

\* The inductive invariant, beside IInv and DInv.
MInv == Paths /\ \A t \in Txns : MergeInv(t)

-----------------------------------------------------------------------------
(* Versions.                                                                 *)

\* A step of t adds m versions to n, and ends only versions that nobody has ended who
\* may commit.
PathStep(t, n, m) ==
    /\ DOMAIN heap = 1 .. n /\ DOMAIN heap' = 1 .. n + m
    /\ \A i \in 1 .. n :
          /\ heap'[i].id = heap[i].id /\ heap'[i].ends = heap[i].ends /\ heap'[i].val = heap[i].val
          /\ heap'[i].xmin = heap[i].xmin /\ heap'[i].cmin = heap[i].cmin
          /\ heap'[i].by = heap[i].by /\ heap'[i].see = heap[i].see /\ heap'[i].pat = heap[i].pat
          /\ heap'[i].xmax = heap[i].xmax \/ ~Stands(heap[i].xmax)
    /\ \A i \in n + 1 .. n + m : heap'[i].xmin = t /\ heap'[i].by \in heap'[i].see

\* The paths that were there.
LEMMA PathStays ==
    ASSUME NEW t, NEW n \in Nat, NEW m \in Nat, PathStep(t, n, m), NEW i \in 1 .. n
    PROVE  (IsPath(i)' <=> IsPath(i)) /\ Path(i)' = Path(i) /\ (PatternOK(i) => PatternOK(i)')
<1>1. \A j \in 1 .. i - 1 : j \in 1 .. n
  OBVIOUS
<1>2. \A j \in 1 .. n : heap'[j].id = heap[j].id
  BY DEF PathStep
<1>3. /\ heap'[i].id = heap[i].id /\ heap'[i].ends = heap[i].ends /\ heap'[i].val = heap[i].val
      /\ heap'[i].xmin = heap[i].xmin /\ heap'[i].cmin = heap[i].cmin
      /\ heap'[i].by = heap[i].by /\ heap'[i].see = heap[i].see /\ heap'[i].pat = heap[i].pat
  BY DEF PathStep
<1>4. IsPath(i)' <=> IsPath(i)
  BY <1>1, <1>2, <1>3 DEF IsPath, Original
<1>5. Path(i)' = Path(i)
  BY <1>3 DEF Path
<1>6. ASSUME PatternOK(i) PROVE PatternOK(i)'
  <2>1. i + 1 \in DOMAIN heap =>
            /\ i + 1 \in DOMAIN heap' /\ heap'[i + 1].ends = heap[i + 1].ends
            /\ heap'[i + 1].xmin = heap[i + 1].xmin /\ heap'[i + 1].cmin = heap[i + 1].cmin
    BY DEF PathStep
  <2>2. IsVertex(heap[i]) => IsVertex(heap'[i])
    BY <1>3 DEF IsVertex
  <2> QED
    BY <1>3, <1>4, <1>6, <2>1, <2>2 DEF PatternOK
<1> QED
  BY <1>4, <1>5, <1>6

\* The paths after a step, if the new ones are as they should be.
LEMMA PathsStep ==
    ASSUME IInv, DInv, Paths, NEW t \in Txns, status[t] = "running", status' = status,
           NEW n \in Nat, NEW m \in Nat, PathStep(t, n, m),
           \A j \in n + 1 .. n + m : IsPath(j)' =>
               /\ PatternOK(j)' /\ \A i \in n + 1 .. n + m : heap'[i].by = t
               /\ \A i \in 1 .. n : PairOK(i, j)'
               /\ \A i \in n + 1 .. n + m : IsPath(i)' => i = j
    PROVE  Paths'
<1>1. DOMAIN heap = 1 .. n /\ DOMAIN heap' = 1 .. n + m
  BY DEF PathStep
<1>2. \A j \in 1 .. n + m : j \in 1 .. n \/ j \in n + 1 .. n + m
  OBVIOUS
<1>3. \A j \in 1 .. n : heap'[j].by = heap[j].by /\ heap'[j].see = heap[j].see /\ heap'[j].pat = heap[j].pat
                        /\ heap'[j].xmin = heap[j].xmin
  BY DEF PathStep
<1>5. ASSUME NEW i \in 1 .. n + m PROVE PatternOK(i)'
  <2>1. CASE i \in 1 .. n
    <3>1. PatternOK(i)
      BY <1>1, <2>1 DEF Paths
    <3> QED
      BY <2>1, <3>1, PathStays
  <2>2. CASE i \in n + 1 .. n + m
    <3>1. heap'[i].by \in heap'[i].see
      BY <2>2 DEF PathStep
    <3> QED
      BY <2>2, <3>1 DEF PatternOK
  <2> QED
    BY <1>2, <2>1, <2>2
<1>6. ASSUME NEW i \in 1 .. n + m, NEW j \in 1 .. n + m, i < j, IsPath(j)', heap'[j].by \in heap'[i].see
      PROVE  heap'[j].by = heap'[i].by
  <2>1. CASE j \in 1 .. n
    <3>1. i \in 1 .. n /\ IsPath(j)
      BY <1>6, <2>1, PathStays
    <3>2. MadeLater(i, j)
      BY <1>1, <2>1, <3>1 DEF Paths
    <3> QED
      BY <1>3, <1>6, <2>1, <3>1, <3>2 DEF MadeLater
  <2>2. CASE j \in n + 1 .. n + m /\ i \in 1 .. n
    <3>1. heap'[j].by = t /\ t \in heap[i].see
      BY <1>3, <1>6, <2>2
    <3>2. t = heap[i].by \/ Committed(t)
      BY <1>1, <2>2, <3>1 DEF DInv, SawCommitted
    <3>3. ~Committed(t)
      BY StandsIs
    <3> QED
      BY <1>3, <2>2, <3>1, <3>2, <3>3
  <2>3. CASE j \in n + 1 .. n + m /\ i \in n + 1 .. n + m
    BY <1>6, <2>3
  <2> QED
    BY <1>2, <2>1, <2>2, <2>3
<1>7. ASSUME NEW i \in 1 .. n + m, NEW j \in 1 .. n + m, i < j PROVE PairOK(i, j)'
  <2>1. CASE j \in 1 .. n
    <3> SUFFICES ASSUME IsPath(i)', IsPath(j)', heap'[i].pat = heap'[j].pat,
                        heap'[i].by \in heap'[j].see, Stands(heap[j].xmin)'
                 PROVE  \E p \in Path(i)' : heap'[p].xmax \in heap'[j].see
      BY DEF PairOK
    <3>1. i \in 1 .. n
      BY <1>7, <2>1
    <3>2. IsPath(i) /\ IsPath(j) /\ Path(i)' = Path(i)
      BY <2>1, <3>1, PathStays
    <3>3. heap[i].pat = heap[j].pat /\ heap[i].by \in heap[j].see /\ Stands(heap[j].xmin)
      BY <1>3, <2>1, <3>1 DEF Stands
    <3>4. PICK p \in Path(i) : heap[p].xmax \in heap[j].see
      <4>1. PairOK(i, j)
        BY <1>1, <2>1, <3>1 DEF Paths
      <4> QED
        BY <1>7, <3>2, <3>3, <4>1 DEF PairOK
    <3>5. p \in 1 .. n
      <4>1. PatternOK(i)
        BY <1>1, <3>1 DEF Paths
      <4> QED
        BY <1>1, <3>1, <3>2, <4>1 DEF PatternOK, Path
    <3>6. heap[j].by = heap[j].xmin
      BY <1>1, <2>1, <3>2 DEF Paths, PatternOK
    <3>7. Stands(heap[p].xmax)
      <4>1. heap[p].xmax = heap[j].by \/ Committed(heap[p].xmax)
        BY <1>1, <2>1, <3>4 DEF DInv, SawCommitted
      <4> QED
        BY <3>3, <3>6, <4>1, StandsIs
    <3>8. heap'[p].xmax = heap[p].xmax
      BY <3>5, <3>7 DEF PathStep
    <3> QED
      BY <1>3, <2>1, <3>2, <3>4, <3>8
  <2>2. CASE j \in n + 1 .. n + m /\ i \in 1 .. n
    <3>1. IsPath(j)' => PairOK(i, j)'
      BY <2>2
    <3> QED
      BY <3>1 DEF PairOK
  <2>3. CASE j \in n + 1 .. n + m /\ i \in n + 1 .. n + m
    <3>1. ~(IsPath(i)' /\ IsPath(j)')
      BY <1>7, <2>3
    <3> QED
      BY <3>1 DEF PairOK
  <2> QED
    BY <1>2, <2>1, <2>2, <2>3
<1>8. ASSUME NEW i \in 1 .. n + m, NEW j \in 1 .. n + m PROVE MadeLater(i, j)' /\ PairOK(i, j)'
  <2>1. MadeLater(i, j)'
    BY <1>6 DEF MadeLater
  <2>2. PairOK(i, j)'
    <3>1. CASE i < j
      BY <1>7, <3>1
    <3>2. CASE ~(i < j)
      BY <3>2 DEF PairOK
    <3> QED
      BY <3>1, <3>2
  <2> QED
    BY <2>1, <2>2
<1> QED
  BY <1>1, <1>5, <1>8 DEF Paths

\* A step that makes no path.
LEMMA NoPathStep ==
    ASSUME IInv, DInv, MInv, NEW t \in Txns, status[t] = "running", status' = status,
           NEW n \in Nat, NEW m \in Nat, PathStep(t, n, m), \A j \in n + 1 .. n + m : ~IsPath(j)',
           \A u \in Txns \ {t} : tx'[u] = tx[u],
           tx'[t].pc \in {"row", "set"} =>
               /\ tx[t].pc \in {"row", "set"} /\ Merging(tx'[t])
               /\ tx'[t].pc = "set" => CurrentRow(tx'[t]).m # Null
               /\ tx'[t].base = tx[t].base /\ tx'[t].created = tx[t].created
    PROVE  MInv'
<1>1. Paths'
  BY PathsStep DEF MInv
<1>2. DOMAIN heap = 1 .. n /\ DOMAIN heap' = 1 .. n + m
  BY DEF PathStep
<1>3. ASSUME NEW u \in Txns, tx[u].pc \in {"row", "set"}, tx'[u].base = tx[u].base, tx'[u].created = tx[u].created
      PROVE  Remembered(u)'
  <2> SUFFICES ASSUME NEW i \in DOMAIN heap', IsPath(i)', heap'[i].xmin = u, heap'[i].cmin >= tx'[u].base
               PROVE  \E p \in tx'[u].created : p.key[2] = heap'[i].pat[1] /\ p.key[3] = heap'[i].pat[2]
    BY DEF Remembered
  <2>1. i \in 1 .. n
    BY <1>2
  <2>2. IsPath(i)
    BY <2>1, PathStays
  <2>3. heap'[i].xmin = heap[i].xmin /\ heap'[i].cmin = heap[i].cmin /\ heap'[i].pat = heap[i].pat
    BY <2>1 DEF PathStep
  <2>4. Remembered(u)
    BY <1>3 DEF MInv, MergeInv
  <2> QED
    BY <1>2, <1>3, <2>1, <2>2, <2>3, <2>4 DEF Remembered
<1>4. ASSUME NEW u \in Txns PROVE MergeInv(u)'
  <2>1. CASE u # t
    <3>1. tx'[u] = tx[u]
      BY <2>1
    <3>2. tx[u].pc \in {"row", "set"} => Remembered(u)'
      BY <1>3, <3>1
    <3>3. MergeInv(u)
      BY DEF MInv
    <3> QED
      BY <3>1, <3>2, <3>3 DEF MergeInv
  <2>2. CASE u = t
    <3>1. tx'[t].pc \in {"row", "set"} => Remembered(t)'
      BY <1>3
    <3> QED
      BY <2>2, <3>1 DEF MergeInv
  <2> QED
    BY <2>1, <2>2
<1> QED
  BY <1>1, <1>4 DEF MInv

\* A step that writes no version.
LEMMA SamePaths ==
    ASSUME IInv, NEW t, heap' = heap
    PROVE  \E n \in Nat : PathStep(t, n, 0)
<1>1. PICK n \in Nat : DOMAIN heap = 1 .. n
  BY HeapHas DEF IInv
<1>2. n + 0 = n /\ n + 1 .. n + 0 = {}
  OBVIOUS
<1>3. DOMAIN heap' = 1 .. n + 0 /\ heap' = heap
  BY <1>1, <1>2
<1>4. PathStep(t, n, 0)
  BY <1>1, <1>2, <1>3, Zenon DEF PathStep
<1> QED
  BY <1>4

\* One that ends a version.
LEMMA EndedPaths ==
    ASSUME IInv, NEW t \in Txns, NEW i \in DOMAIN heap, VisibleAt(t, tx[t].cid, heap[i]), Writable(t, i),
           heap' = Ended(t, i, tx[t].cid)
    PROVE  \E n \in Nat : PathStep(t, n, 0)
<1>1. PICK f : f = Ended(t, i, tx[t].cid) /\ heap' = f
  OBVIOUS
<1>2. PICK n \in Nat :
         /\ DOMAIN heap = 1 .. n /\ Lists(f, n)
         /\ \A j \in 1 .. n : j # i => f[j] = heap[j]
         /\ f[i].id = heap[i].id /\ f[i].ends = heap[i].ends /\ f[i].by = heap[i].by
         /\ f[i].see = heap[i].see /\ f[i].xmin = heap[i].xmin /\ f[i].cmin = heap[i].cmin
         /\ f[i].val = heap[i].val /\ f[i].pat = heap[i].pat
  BY <1>1, EndedIs
<1>3. n + 0 = n /\ n + 1 .. n + 0 = {} /\ DOMAIN f = 1 .. n
  BY <1>2 DEF Lists
<1>4. ~Stands(heap[i].xmax)
  BY WritableIs, StandsIs, TxnAssumption DEF Stands
<1>5. \A j \in 1 .. n :
          /\ heap'[j].id = heap[j].id /\ heap'[j].ends = heap[j].ends /\ heap'[j].val = heap[j].val
          /\ heap'[j].xmin = heap[j].xmin /\ heap'[j].cmin = heap[j].cmin
          /\ heap'[j].by = heap[j].by /\ heap'[j].see = heap[j].see /\ heap'[j].pat = heap[j].pat
          /\ heap'[j].xmax = heap[j].xmax \/ ~Stands(heap[j].xmax)
  <2> TAKE j \in 1 .. n
  <2>1. CASE j = i
    BY <1>1, <1>2, <1>4, <2>1
  <2>2. CASE j # i
    <3>1. heap'[j] = heap[j]
      BY <1>1, <1>2, <2>2
    <3> QED
      BY <3>1
  <2> QED
    BY <2>1, <2>2
<1>6. DOMAIN heap' = 1 .. n + 0
  BY <1>1, <1>3
<1>7. PathStep(t, n, 0)
  BY <1>2, <1>3, <1>5, <1>6 DEF PathStep
<1> QED
  BY <1>7

\* One that writes a version after it.
LEMMA UpdatedPaths ==
    ASSUME IInv, Paths, NEW t \in Txns, NEW i \in DOMAIN heap, VisibleAt(t, tx[t].cid, heap[i]),
           Writable(t, i), NEW val, heap' = Updated(t, i, val)
    PROVE  \E n \in Nat : PathStep(t, n, 1) /\ \A j \in n + 1 .. n + 1 : ~IsPath(j)'
<1>1. PICK f : f = Ended(t, i, tx[t].cid)
  OBVIOUS
<1>2. PICK n \in Nat :
         /\ DOMAIN heap = 1 .. n /\ Lists(f, n)
         /\ \A j \in 1 .. n : j # i => f[j] = heap[j]
         /\ f[i].id = heap[i].id /\ f[i].ends = heap[i].ends /\ f[i].by = heap[i].by
         /\ f[i].see = heap[i].see /\ f[i].xmin = heap[i].xmin /\ f[i].cmin = heap[i].cmin
         /\ f[i].val = heap[i].val /\ f[i].pat = heap[i].pat
  BY <1>1, EndedIs
<1>3. PICK w : w = [heap[i] EXCEPT !.val = val, !.xmin = t, !.cmin = tx[t].cid,
                                   !.xmax = None, !.cmax = 0, !.xsee = {}]
  OBVIOUS
<1>4. Version(heap[i])
  BY DEF IInv, HeapInv, VersionOK
<1>5. w.id = heap[i].id /\ w.by = heap[i].by /\ w.see = heap[i].see /\ w.xmin = t
  BY <1>3, <1>4 DEF Version
<1>6. Lists(heap', n + 1) /\ heap'[n + 1] = w /\ \A j \in 1 .. n : heap'[j] = f[j]
  <2>1. heap' = AndThen(f, w)
    BY <1>1, <1>3 DEF Updated, AndThen
  <2>2. /\ Lists(AndThen(f, w), n + 1) /\ AndThen(f, w)[n + 1] = w
        /\ \A j \in 1 .. n : AndThen(f, w)[j] = f[j]
    BY <1>2, AppendIs
  <2> QED
    BY <2>1, <2>2
<1>7. ~Stands(heap[i].xmax)
  BY WritableIs, StandsIs, TxnAssumption DEF Stands
<1>8. heap[i].by \in heap[i].see
  BY DEF Paths, PatternOK
<1>9. DOMAIN heap' = 1 .. n + 1
  BY <1>6 DEF Lists
<1>10. \A j \in n + 1 .. n + 1 : j = n + 1
  OBVIOUS
<1>11. PathStep(t, n, 1)
  <2>1. \A j \in 1 .. n :
          /\ heap'[j].id = heap[j].id /\ heap'[j].ends = heap[j].ends /\ heap'[j].val = heap[j].val
          /\ heap'[j].xmin = heap[j].xmin /\ heap'[j].cmin = heap[j].cmin
          /\ heap'[j].by = heap[j].by /\ heap'[j].see = heap[j].see /\ heap'[j].pat = heap[j].pat
          /\ heap'[j].xmax = heap[j].xmax \/ ~Stands(heap[j].xmax)
    BY <1>2, <1>6, <1>7
  <2>2. \A j \in n + 1 .. n + 1 : heap'[j].xmin = t /\ heap'[j].by \in heap'[j].see
    BY <1>5, <1>6, <1>8, <1>10
  <2> QED
    BY <1>2, <1>9, <2>1, <2>2 DEF PathStep
<1>12. ~IsPath(n + 1)'
  <2>1. i \in 1 .. (n + 1) - 1 /\ heap'[i].id = heap'[n + 1].id
    BY <1>2, <1>5, <1>6
  <2> QED
    BY <2>1 DEF IsPath, Original
<1> QED
  BY <1>10, <1>11, <1>12

\* The m versions of new come after n others.
Added(new, n, m) ==
    /\ \A j \in 1 .. n : heap'[j] = heap[j]
    /\ \A j \in n + 1 .. n + m : j - n \in 1 .. m /\ heap'[j] = new[j - n]

\* One that writes a path.
LEMMA AddedPaths ==
    ASSUME IInv, NEW t \in Txns, NEW c, NEW m \in Nat, NEW new, MadePath(t, c, new, m),
           heap' = Joined(heap, new)
    PROVE  \E n \in Nat : PathStep(t, n, m) /\ Added(new, n, m)
<1>1. PICK n \in Nat : /\ n = Len(heap) /\ DOMAIN heap = 1 .. n /\ Lists(heap, n)
                       /\ \A j \in 1 .. n : VersionOK(heap[j], next_id)
  BY HeapHas DEF IInv
<1>2. heap' = Joined(heap, new)
  OBVIOUS
<1>3. /\ Lists(Joined(heap, new), n + m)
      /\ \A j \in 1 .. n : Joined(heap, new)[j] = heap[j]
      /\ \A j \in 1 .. m : Joined(heap, new)[n + j] = new[j]
  <2>1. Lists(heap, n) /\ Lists(new, m)
    BY <1>1 DEF MadePath
  <2>2. Lists(Joined(heap, new), n + m)
    BY <2>1, ConcatIs
  <2>3. \A j \in 1 .. n : Joined(heap, new)[j] = heap[j]
    BY <2>1, ConcatIs
  <2>4. \A j \in 1 .. m : Joined(heap, new)[n + j] = new[j]
    BY <2>1, ConcatIs
  <2> QED
    BY <2>2, <2>3, <2>4
<1>6. \A j \in n + 1 .. n + m : j - n \in 1 .. m /\ n + (j - n) = j
  OBVIOUS
<1>7. \A j \in n + 1 .. n + m : heap'[j] = new[j - n]
  BY <1>2, <1>3, <1>6
<1>8. DOMAIN heap' = 1 .. n + m
  BY <1>2, <1>3 DEF Lists
<1>9. \A j \in 1 .. m : new[j].xmin = t /\ new[j].by \in new[j].see
  BY DEF MadePath, NewVersion, Made, Known
<1>10. \A j \in n + 1 .. n + m : heap'[j].xmin = t /\ heap'[j].by \in heap'[j].see
  BY <1>6, <1>7, <1>9
<1>11. \A j \in 1 .. n : heap'[j] = heap[j]
  BY <1>2, <1>3
<1>12. PathStep(t, n, m)
  BY <1>1, <1>8, <1>10, <1>11 DEF PathStep
<1>13. Added(new, n, m)
  BY <1>6, <1>7, <1>11 DEF Added
<1> QED
  BY <1>12, <1>13

-----------------------------------------------------------------------------
(* Cursors.                                                                  *)

\* The clause at which a row is kept back, and the one at which the next row begins:
\* no clause before the first, and none between the two, takes all rows.
LEMMA StagesAre ==
    ASSUME NEW x, List(Clauses(x)), x.k \in 1 .. Len(Clauses(x))
    PROVE  /\ StageEnd(x) \in x.k .. Len(Clauses(x))
           /\ Eager(x, StageEnd(x)) \/ StageEnd(x) = Len(Clauses(x))
           /\ \A k \in x.k .. StageEnd(x) - 1 : ~Eager(x, k)
           /\ NextStart(x) \in 1 .. x.k
           /\ \A k \in NextStart(x) .. x.k - 1 : ~Eager(x, k)
<1>1. PICK n \in Nat : n = Len(Clauses(x)) /\ x.k \in 1 .. n
  BY Zenon DEF List
<1> DEFINE S == {k \in x.k .. n : Eager(x, k) \/ k = n}
           T == {0} \cup {k \in 1 .. x.k - 1 : Eager(x, k)}
<1>2. S \in SUBSET Nat /\ n \in S
  BY <1>1
<1>3. T \in SUBSET (0 .. x.k - 1) /\ T # {} /\ x.k - 1 \in Nat
  BY <1>1
<1>4. StageEnd(x) = Min(S) /\ StageStart(x) = Max(T) + 1
  BY <1>1 DEF StageEnd, StageStart
<1>5. PICK e : e = Min(S) /\ e \in S /\ \A k \in S : e <= k
  <2> HIDE DEF S
  <2> QED
    BY <1>2, MinIs
<1>6. PICK s : s = Max(T) /\ s \in T /\ \A k \in T : s >= k
  <2> HIDE DEF T
  <2> QED
    BY <1>3, MaxIs
<1>7. e \in x.k .. n /\ (Eager(x, e) \/ e = n)
  BY <1>5
<1>8. ASSUME NEW k \in x.k .. e - 1 PROVE ~Eager(x, k)
  <2>1. k \in x.k .. n /\ k < e
    BY <1>1, <1>7
  <2>2. k \notin S
    BY <1>5, <1>7, <2>1
  <2> QED
    BY <2>1, <2>2
<1>9. s \in Nat /\ s + 1 \in 1 .. x.k
  BY <1>1, <1>3, <1>6
<1>10. ASSUME NEW k \in s + 1 .. x.k - 1 PROVE ~Eager(x, k)
  <2>1. k \in 1 .. x.k - 1 /\ k > s /\ s \in Nat
    BY <1>1, <1>9
  <2>2. k \notin T
    BY <1>6, <2>1
  <2> QED
    BY <2>1, <2>2
<1>11. NextStart(x) = x.k \/ NextStart(x) = s + 1
  BY <1>4, <1>6 DEF NextStart
<1>12. NextStart(x) \in 1 .. x.k /\ \A k \in NextStart(x) .. x.k - 1 : ~Eager(x, k)
  <2>1. CASE NextStart(x) = x.k
    BY <1>1, <2>1
  <2>2. CASE NextStart(x) = s + 1
    BY <1>9, <1>10, <2>2
  <2> QED
    BY <1>11, <2>1, <2>2
<1> QED
  BY <1>1, <1>4, <1>5, <1>7, <1>8, <1>12

\* A row that stays before that clause.
LEMMA SameStage ==
    ASSUME NEW x, List(Clauses(x)), x.k \in 1 .. Len(Clauses(x)), NEW y, y.stmt = x.stmt,
           y.k \in 1 .. StageEnd(x), \A k \in y.k .. StageEnd(x) - 1 : ~Eager(x, k)
    PROVE  StageEnd(y) = StageEnd(x)
<1>1. PICK n \in Nat : n = Len(Clauses(x)) /\ x.k \in 1 .. n
  BY Zenon DEF List
<1>2. Clauses(y) = Clauses(x) /\ \A k : Eager(y, k) <=> Eager(x, k)
  BY DEF Clauses, Eager
<1>3. PICK e \in 1 .. n : e = StageEnd(x) /\ (Eager(x, e) \/ e = n)
  <2>1. StageEnd(x) \in x.k .. n /\ (Eager(x, StageEnd(x)) \/ StageEnd(x) = n)
    BY <1>1, StagesAre
  <2> QED
    BY <1>1, <2>1
<1>4. y.k \in 1 .. e /\ y.k \in 1 .. n
  BY <1>3
<1>5. PICK d \in y.k .. n : /\ d = StageEnd(y) /\ (Eager(x, d) \/ d = n)
                            /\ \A k \in y.k .. d - 1 : ~Eager(x, k)
  <2>1. List(Clauses(y)) /\ y.k \in 1 .. Len(Clauses(y)) /\ Len(Clauses(y)) = n
    BY <1>1, <1>2, <1>4
  <2>2. /\ StageEnd(y) \in y.k .. Len(Clauses(y))
        /\ Eager(y, StageEnd(y)) \/ StageEnd(y) = Len(Clauses(y))
        /\ \A k \in y.k .. StageEnd(y) - 1 : ~Eager(y, k)
    BY <2>1, StagesAre
  <2> QED
    BY <1>2, <2>1, <2>2
<1>6. ~(d < e)
  BY <1>3, <1>4, <1>5
<1>7. ~(e < d)
  BY <1>3, <1>4, <1>5
<1> QED
  BY <1>3, <1>4, <1>5, <1>6, <1>7

\* The fields of a cursor at another row or clause.
LEMMA PlacedIs ==
    ASSUME NEW x, Cursor(x), NEW k, NEW r, NEW d, NEW u, NEW y, y = Placed(x, k, r, d, u)
    PROVE  /\ y.k = k /\ y.r = r /\ y.curcid = d /\ y.pc = "row" /\ y.stmt = x.stmt
           /\ y.rows = x.rows /\ y.base = x.base /\ y.created = x.created
<1>1. y.k = k /\ y.r = r /\ y.curcid = d /\ y.pc = "row"
  BY DEF Cursor, Placed
<1>2. y.stmt = x.stmt /\ y.rows = x.rows /\ y.base = x.base /\ y.created = x.created
  BY DEF Cursor, Placed
<1> QED
  BY <1>1, <1>2

\* The place of a cursor at a row.
AtPlace(x) ==
    /\ AtClause(x) /\ x.base \in Nat
    /\ Len(x.rows) \in Nat /\ x.r \in 1 .. Len(x.rows)

\* A cursor with the same place and rows.
SamePlace(x, y) ==
    /\ y.stmt = x.stmt /\ y.k = x.k /\ y.r = x.r /\ y.rows = x.rows /\ y.base = x.base
    /\ y.created = x.created /\ y.curcid = x.curcid

\* It is at a MERGE as the other one is.
LEMMA MergingSame ==
    ASSUME NEW x, Merging(x), NEW y, SamePlace(x, y)
    PROVE  Merging(y)
<1>1. Clauses(y) = Clauses(x) /\ StageEnd(y) = StageEnd(x) /\ (AllBound(y) <=> AllBound(x))
  BY DEF SamePlace, Clauses, StageEnd, Eager, AllBound
<1>2. RowsOK(y)
  BY <1>1 DEF Merging, SamePlace, RowsOK
<1>3. LooksBack(y)
  BY <1>1 DEF Merging, SamePlace, LooksBack
<1>4. MadeHere(y) /\ BoundSoFar(y)
  BY <1>1 DEF Merging, SamePlace, MadeHere, BoundSoFar
<1> QED
  BY <1>2, <1>3, <1>4 DEF Merging

\* A distance kept.
LEMMA ShiftedBy ==
    ASSUME NEW a \in Int, NEW b \in Int, NEW c \in Int, NEW d \in Int, NEW k \in Int, NEW q \in Int,
           d - k = a - b, a + (q - b) >= c
    PROVE  d + (q - k) >= c
  OBVIOUS

\* A row goes on, or the next one begins.
LEMMA AfterMerging ==
    ASSUME NEW x, AtPlace(x), Merging(x), Clause(x).op = "merge" => CurrentRow(x).m # Null,
           NEW y, y = AfterClause(x), y.pc # "last"
    PROVE  Merging(y) /\ y.pc = "row" /\ y.base = x.base /\ y.created = x.created
<1>1. List(Clauses(x)) /\ Cursor(x) /\ x.curcid \in Int /\ x.k \in 1 .. Len(Clauses(x))
  BY DEF AtPlace, AtClause, IsQuery, Clauses
<1>2. PICK n \in Nat : n = Len(Clauses(x)) /\ x.k \in 1 .. n
  BY <1>1, Zenon DEF List
<1>3. PICK l \in Nat : l = Len(x.rows) /\ x.r \in 1 .. l
  BY DEF AtPlace
<1>4. PICK e \in x.k .. n, s \in 1 .. x.k :
          /\ e = StageEnd(x) /\ s = NextStart(x) /\ (Eager(x, e) \/ e = n)
          /\ \A k \in x.k .. e - 1 : ~Eager(x, k)
          /\ \A k \in s .. x.k - 1 : ~Eager(x, k)
  <2>1. /\ StageEnd(x) \in x.k .. Len(Clauses(x))
        /\ Eager(x, StageEnd(x)) \/ StageEnd(x) = Len(Clauses(x))
        /\ \A k \in x.k .. StageEnd(x) - 1 : ~Eager(x, k)
        /\ NextStart(x) \in 1 .. x.k
        /\ \A k \in NextStart(x) .. x.k - 1 : ~Eager(x, k)
    BY <1>1, StagesAre
  <2> QED
    BY <1>2, <2>1
<1>5. RowsOK(x) /\ LooksBack(x) /\ MadeHere(x) /\ BoundSoFar(x)
  BY DEF Merging
<1>6. ASSUME NEW k \in 1 .. n, NEW r \in 1 .. l, NEW d \in Int, NEW u, y = Placed(x, k, r, d, u),
             AllBound(x) \/
             /\ k <= e /\ \A q \in k .. e - 1 : ~Eager(x, q)
             /\ d - k = x.curcid - x.k
             /\ \A q \in k .. x.k - 1 : Clauses(x)[q].op # "merge"
             /\ Clauses(x)[e].op = "merge" => \A q \in 1 .. r - 1 : x.rows[q].m # Null
      PROVE  Merging(y) /\ y.pc = "row" /\ y.base = x.base /\ y.created = x.created
  <2>1. /\ y.k = k /\ y.r = r /\ y.curcid = d /\ y.pc = "row" /\ y.stmt = x.stmt
        /\ y.rows = x.rows /\ y.base = x.base /\ y.created = x.created
    BY <1>1, <1>6, PlacedIs
  <2>2. Clauses(y) = Clauses(x) /\ (AllBound(y) <=> AllBound(x)) /\ x.base \in Nat
    BY <2>1 DEF Clauses, AllBound, AtPlace
  <2>3. RowsOK(y)
    BY <1>5, <2>1, <2>2 DEF RowsOK
  <2>4. CASE AllBound(x)
    <3>1. LooksBack(y) /\ MadeHere(y)
      BY <2>2, <2>4 DEF LooksBack, MadeHere
    <3>2. \A q \in 1 .. r - 1 : q \in 1 .. l
      BY <1>6
    <3>3. BoundSoFar(y)
      BY <1>3, <2>1, <2>4, <3>2 DEF BoundSoFar, AllBound
    <3> QED
      BY <2>1, <2>3, <3>1, <3>3 DEF Merging
  <2>5. CASE ~AllBound(x)
    <3>1. StageEnd(y) = e
      <4>1. y.k \in 1 .. e /\ \A q \in y.k .. e - 1 : ~Eager(x, q)
        BY <1>4, <1>6, <2>1, <2>5
      <4> QED
        BY <1>1, <1>4, <2>1, <4>1, SameStage
    <3>2. MadeHere(y)
      BY <1>4, <1>5, <2>1, <2>2, <3>1 DEF MadeHere
    <3>3. BoundSoFar(y)
      BY <1>6, <2>1, <2>2, <2>5, <3>1 DEF BoundSoFar
    <3>4. ASSUME NEW q \in k .. n, Clauses(x)[q].op = "merge" PROVE d + (q - k) >= x.base + 1
      <4>1. q \in x.k .. n
        BY <1>2, <1>6, <2>5, <3>4
      <4>2. x.curcid + (q - x.k) >= x.base + 1
        BY <1>2, <1>5, <2>5, <3>4, <4>1 DEF LooksBack
      <4>3. x.curcid \in Int /\ x.k \in Int /\ x.base + 1 \in Int /\ q \in Int /\ k \in Int
        BY <1>1, <1>2, <2>2
      <4>4. d - k = x.curcid - x.k
        BY <1>6, <2>5
      <4> QED
        BY <4>2, <4>3, <4>4, ShiftedBy
    <3>5. LooksBack(y)
      BY <1>2, <2>1, <2>2, <3>4 DEF LooksBack
    <3> QED
      BY <2>1, <2>3, <3>2, <3>3, <3>5 DEF Merging
  <2> QED
    BY <2>4, <2>5
<1>7. CASE x.k < e
  <2>1. y = [x EXCEPT !.k = @ + 1, !.i = 1, !.lidx = 0, !.pc = "row", !.curcid = @ + 1]
    BY <1>4, <1>7 DEF AfterClause
  <2>2. PICK k \in 1 .. n, d \in Int : k = x.k + 1 /\ d = x.curcid + 1
    <3>1. x.k \in Nat /\ e \in Nat /\ e <= n
      BY <1>2, <1>4
    <3>2. x.k + 1 \in 1 .. n
      BY <1>7, <3>1
    <3>3. x.curcid + 1 \in Int
      BY <1>1
    <3> QED
      BY <3>2, <3>3
  <2>3. y = Placed(x, k, x.r, d, x.upto)
    BY <1>1, <2>1, <2>2 DEF Cursor, Placed
  <2>4. /\ k <= e /\ \A q \in k .. e - 1 : ~Eager(x, q)
        /\ d - k = x.curcid - x.k /\ \A q \in k .. x.k - 1 : Clauses(x)[q].op # "merge"
    <3>1. x.k \in Nat /\ e \in Nat /\ x.curcid \in Int
      BY <1>1, <1>2, <1>4
    <3>2. k <= e /\ d - k = x.curcid - x.k
      BY <1>7, <2>2, <3>1
    <3>3. k .. x.k - 1 = {}
      BY <2>2, <3>1
    <3>4. \A q \in k .. e - 1 : q \in x.k .. e - 1
      BY <2>2, <3>1
    <3> QED
      BY <1>4, <3>2, <3>3, <3>4
  <2>5. Clauses(x)[e].op = "merge" => \A q \in 1 .. x.r - 1 : x.rows[q].m # Null
    BY <1>4, <1>5 DEF BoundSoFar
  <2> QED
    BY <1>3, <1>6, <2>3, <2>4, <2>5
<1>8. CASE x.k = e /\ x.r < l
  <2>1. y = [x EXCEPT !.k = s, !.r = @ + 1, !.i = 1, !.lidx = 0, !.pc = "row",
                       !.curcid = @ - (x.k - s)]
    BY <1>2, <1>3, <1>4, <1>8 DEF AfterClause
  <2>2. PICK r \in 1 .. l, d \in Int : r = x.r + 1 /\ d = x.curcid - (x.k - s)
    <3>1. x.r + 1 \in 1 .. l
      BY <1>3, <1>8
    <3>2. x.k \in Int /\ s \in Int
      BY <1>2, <1>4
    <3>3. x.curcid - (x.k - s) \in Int
      BY <1>1, <3>2
    <3> QED
      BY <3>1, <3>3
  <2>3. y = Placed(x, s, r, d, x.upto)
    BY <1>1, <2>1, <2>2 DEF Cursor, Placed
  <2>4. s \in 1 .. n /\ s <= e /\ (\A q \in s .. e - 1 : ~Eager(x, q)) /\ d - s = x.curcid - x.k
    <3>1. x.k \in Nat /\ s \in Nat /\ x.curcid \in Int
      BY <1>1, <1>2, <1>4
    <3>2. s \in 1 .. n /\ s <= e
      BY <1>2, <1>4, <1>8
    <3>3. d - s = x.curcid - x.k
      BY <2>2, <3>1
    <3> QED
      BY <1>4, <1>8, <3>2, <3>3
  <2>5. Clauses(x)[e].op = "merge" => \A q \in 1 .. r - 1 : x.rows[q].m # Null
    <3>1. \A q \in 1 .. r - 1 : q \in 1 .. x.r - 1 \/ q = x.r
      BY <1>3, <2>2
    <3>2. Clauses(x)[e].op = "merge" => x.rows[x.r].m # Null
      BY <1>8 DEF Clause, Clauses, CurrentRow
    <3> QED
      BY <1>4, <1>5, <3>1, <3>2 DEF BoundSoFar
  <2>6. AllBound(x) \/ \A q \in s .. x.k - 1 : Clauses(x)[q].op # "merge"
    <3>1. ASSUME NEW q \in s .. x.k - 1, Clauses(x)[q].op = "merge" PROVE AllBound(x)
      <4>1. ~Eager(x, q) /\ q < n
        BY <1>2, <1>4
      <4>2. ~x.stmt.match
        BY <1>2, <3>1, <4>1 DEF Eager
      <4>3. Len(x.rows) = 1 \/ AllBound(x)
        BY <1>5, <4>2 DEF RowsOK
      <4>4. l # 1
        <5>1. PICK w \in 1 .. l : w = x.r
          BY <1>3
        <5>2. w < l
          BY <1>8, <5>1
        <5> QED
          BY <5>2
      <4> QED
        BY <1>3, <4>3, <4>4
    <3> QED
      BY <3>1
  <2> QED
    BY <1>6, <2>3, <2>4, <2>5, <2>6
<1>9. CASE x.k = e /\ x.r = l /\ x.k < n
  <2>1. y = [x EXCEPT !.k = @ + 1, !.r = 1, !.i = 1, !.lidx = 0, !.pc = "row",
                       !.curcid = @ + 1, !.upto = 0]
    BY <1>2, <1>3, <1>4, <1>9 DEF AfterClause
  <2>2. PICK k \in 1 .. n, d \in Int : k = x.k + 1 /\ d = x.curcid + 1
    BY <1>1, <1>2, <1>9
  <2>3. y = Placed(x, k, 1, d, 0)
    BY <1>1, <2>1, <2>2 DEF Cursor, Placed
  <2>4. AllBound(x)
    <3>1. Clauses(x)[e].op = "merge"
      BY <1>4, <1>9 DEF Eager
    <3>2. \A q \in 1 .. x.r - 1 : x.rows[q].m # Null
      BY <1>4, <1>5, <3>1 DEF BoundSoFar
    <3>3. x.rows[x.r].m # Null
      BY <1>9, <3>1 DEF Clause, Clauses, CurrentRow
    <3>4. \A q \in 1 .. l : q \in 1 .. x.r - 1 \/ q = x.r
      BY <1>3, <1>9
    <3> QED
      BY <1>3, <3>2, <3>3, <3>4 DEF AllBound
  <2>5. 1 \in 1 .. l
    BY <1>3
  <2> QED
    BY <1>6, <2>3, <2>4, <2>5
<1>10. CASE x.k = e /\ x.r = l /\ x.k = n
  <2>1. y = [x EXCEPT !.pc = "last"]
    BY <1>2, <1>3, <1>4, <1>10 DEF AfterClause
  <2>2. y.pc = "last"
    BY <1>1, <2>1 DEF Cursor
  <2> QED
    BY <2>2
<1> QED
  BY <1>2, <1>3, <1>4, <1>7, <1>8, <1>9, <1>10

\* A cursor that goes on with its statement, as far as MERGE is concerned.
GoesOn(x, z) ==
    z.pc \in {"row", "set"} =>
        /\ Merging(z) /\ (z.pc = "set" => CurrentRow(z).m # Null)
        /\ z.base = x.base /\ z.created = x.created

\* A row goes on, or the next one begins.
LEMMA AfterGoesOn ==
    ASSUME NEW x, AtPlace(x), Merging(x), Clause(x).op = "merge" => CurrentRow(x).m # Null,
           NEW z, z = AfterClause(x)
    PROVE  GoesOn(x, z)
<1>1. z.pc \in {"row", "last"}
  BY AfterMoves DEF AtPlace
<1>2. z.pc # "last" => Merging(z) /\ z.pc = "row" /\ z.base = x.base /\ z.created = x.created
  BY AfterMerging
<1> QED
  BY <1>1, <1>2 DEF GoesOn

\* A cursor with the same place goes on in the same way.
LEMMA SameGoesOn ==
    ASSUME NEW x, NEW y, SamePlace(x, y), NEW z, GoesOn(y, z)
    PROVE  GoesOn(x, z)
  BY DEF SamePlace, GoesOn

\* A cursor with the same place is at a row as the other one is.
LEMMA PlaceSame ==
    ASSUME NEW x, AtPlace(x), NEW y, Cursor(y), SamePlace(x, y)
    PROVE  /\ AtPlace(y) /\ Clause(y) = Clause(x) /\ CurrentRow(y) = CurrentRow(x)
<1>1. Clauses(y) = Clauses(x) /\ Clause(y) = Clause(x) /\ CurrentRow(y) = CurrentRow(x)
  BY DEF SamePlace, Clauses, Clause, CurrentRow
<1>2. AtClause(y)
  BY <1>1 DEF AtPlace, AtClause, SamePlace
<1> QED
  BY <1>1, <1>2 DEF AtPlace, SamePlace

\* The end of a command leaves the place alone.
LEMMA IncrementedPlace ==
    ASSUME NEW x, AtPlace(x), x.cid \in Nat, NEW y, y = CommandCounterIncrement(x)
    PROVE  Cursor(y) /\ SamePlace(x, y)
<1>1. Cursor(x)
  BY DEF AtPlace, AtClause
<1>2. CASE x.used
  <2>1. PICK c \in Nat : c = x.cid + 1
    OBVIOUS
  <2>2. y = [x EXCEPT !.cid = c, !.used = FALSE]
    BY <1>1, <1>2, <2>1 DEF CommandCounterIncrement, Cursor
  <2>3. Cursor(y)
    BY <1>1, <2>2 DEF Cursor
  <2>4. y.stmt = x.stmt /\ y.k = x.k /\ y.r = x.r
    BY <1>1, <2>2 DEF Cursor
  <2>5. y.rows = x.rows /\ y.base = x.base /\ y.created = x.created /\ y.curcid = x.curcid
    BY <1>1, <2>2 DEF Cursor
  <2> QED
    BY <2>3, <2>4, <2>5 DEF SamePlace
<1>3. CASE ~x.used
  BY <1>1, <1>3 DEF CommandCounterIncrement, SamePlace
<1> QED
  BY <1>2, <1>3

\* From MERGE to its SET, or past it.
LEMMA ThenSetGoesOn ==
    ASSUME NEW x, AtPlace(x), Merging(x), CurrentRow(x).m # Null, NEW v, NEW z, z = ThenSet(x, v)
    PROVE  GoesOn(x, z)
<1>1. CASE v = None
  BY <1>1, AfterGoesOn DEF ThenSet
<1>2. CASE v # None
  <2>1. z = [x EXCEPT !.pc = "set", !.onset = v, !.i = 1, !.lidx = 0] /\ Cursor(x)
    BY <1>2 DEF ThenSet, AtPlace, AtClause
  <2>2. Cursor(z)
    BY <2>1 DEF Cursor
  <2>3. z.stmt = x.stmt /\ z.k = x.k /\ z.r = x.r
    BY <2>1 DEF Cursor
  <2>4. z.rows = x.rows /\ z.base = x.base /\ z.created = x.created /\ z.curcid = x.curcid
    BY <2>1 DEF Cursor
  <2>5. SamePlace(x, z)
    BY <2>3, <2>4 DEF SamePlace
  <2>6. Merging(z) /\ CurrentRow(z) = CurrentRow(x)
    BY <2>2, <2>5, MergingSame, PlaceSame
  <2> QED
    BY <2>4, <2>6 DEF GoesOn
<1> QED
  BY <1>1, <1>2

\* The next item of a DELETE.
LEMMA NextItemGoesOn ==
    ASSUME NEW x, AtPlace(x), Merging(x), x.pc = "row", Clause(x).op = "delete", NEW z, z = NextItem(x)
    PROVE  GoesOn(x, z)
<1>1. CASE x.i < Len(Clause(x).items)
  <2>1. PICK i : i = x.i + 1
    OBVIOUS
  <2>2. z = [x EXCEPT !.i = i] /\ Cursor(x)
    BY <1>1, <2>1, Zenon DEF NextItem, AtPlace, AtClause, Cursor
  <2>3. z.pc = x.pc /\ z.stmt = x.stmt /\ z.k = x.k /\ z.r = x.r
    BY <2>2 DEF Cursor
  <2>4. z.rows = x.rows /\ z.base = x.base /\ z.created = x.created /\ z.curcid = x.curcid
    BY <2>2 DEF Cursor
  <2>5. SamePlace(x, z)
    BY <2>3, <2>4 DEF SamePlace
  <2>6. Merging(z)
    BY <2>5, MergingSame
  <2> QED
    BY <2>3, <2>4, <2>6 DEF GoesOn
<1>2. CASE ~(x.i < Len(Clause(x).items))
  <2>1. z = AfterClause(x)
    BY <1>2 DEF NextItem
  <2> QED
    BY <2>1, AfterGoesOn
<1> QED
  BY <1>1, <1>2

\* DELETE moves the snapshot of the statement to the current command, which the
\* clauses after it start from.
LEMMA MergingLater ==
    ASSUME NEW x, AtPlace(x), Merging(x), Clause(x).op = "delete", NEW c \in Int, c >= x.base,
           NEW y, Cursor(y), y.curcid = c, y.stmt = x.stmt, y.k = x.k, y.r = x.r, y.rows = x.rows,
           y.base = x.base, y.created = x.created
    PROVE  AtPlace(y) /\ Merging(y) /\ Clause(y) = Clause(x)
<1>1. /\ Clauses(y) = Clauses(x) /\ Clause(y) = Clause(x) /\ StageEnd(y) = StageEnd(x)
      /\ AllBound(y) <=> AllBound(x)
  BY DEF Clauses, Clause, StageEnd, Eager, AllBound
<1>2. AtPlace(y)
  <2>1. AtClause(y)
    BY <1>1 DEF AtPlace, AtClause
  <2> QED
    BY <2>1 DEF AtPlace
<1>3. RowsOK(y)
  BY <1>1 DEF Merging, RowsOK
<1>4. MadeHere(y) /\ BoundSoFar(y)
  BY <1>1 DEF Merging, MadeHere, BoundSoFar
<1>5. LooksBack(y)
  <2>1. PICK n \in Nat : n = Len(Clauses(x)) /\ x.k \in 1 .. n
    BY Zenon DEF AtPlace, AtClause, IsQuery, List, Clauses
  <2>2. x.base \in Nat
    BY DEF AtPlace
  <2>3. ASSUME NEW k \in x.k .. n, Clauses(x)[k].op = "merge" PROVE c + (k - x.k) >= x.base + 1
    <3>1. k # x.k
      BY <2>3 DEF Clause, Clauses
    <3>2. k \in Int /\ x.k \in Int /\ k >= x.k + 1
      BY <2>1, <3>1
    <3> QED
      BY <2>2, <3>2
  <2> QED
    BY <1>1, <2>1, <2>3 DEF LooksBack
<1> QED
  BY <1>1, <1>2, <1>3, <1>4, <1>5 DEF Merging

\* The end of an item of SET.
LEMMA FinishItemGoesOn ==
    ASSUME NEW t, NEW x, AtPlace(x), Merging(x), InSet(x), x.cid \in Nat,
           x.pc = "set" => CurrentRow(x).m # Null, FinishItem(t, x)
    PROVE  \E z : GoesOn(x, z) /\ tx' = [tx EXCEPT ![t] = z]
<1>1. PICK z : /\ tx' = [tx EXCEPT ![t] = z]
               /\ z = CASE x.i < Len(Items(x)) -> [x EXCEPT !.i = @ + 1]
                        [] EndsRow(x) ->
                               AfterClause(CommandCounterIncrement(
                                   [x EXCEPT !.mutated = @ \ {x.k},
                                             !.dirty = @ /\ x.k \notin x.mutated]))
                        [] OTHER -> AfterClause([x EXCEPT !.onset = None])
  BY DEF FinishItem
<1>2. Cursor(x) /\ x.pc \in {"row", "set"} /\ (Clause(x).op = "merge" => CurrentRow(x).m # Null)
  BY DEF AtPlace, AtClause, InSet
<1>3. PICK a, b, d : a = [x EXCEPT !.i = @ + 1] /\ d = [x EXCEPT !.onset = None]
                     /\ b = [x EXCEPT !.mutated = @ \ {x.k}, !.dirty = @ /\ x.k \notin x.mutated]
  OBVIOUS
<1>4. z = a \/ z = AfterClause(CommandCounterIncrement(b)) \/ z = AfterClause(d)
  BY <1>1, <1>3
<1>5. ASSUME NEW y, Cursor(y), SamePlace(x, y), z = AfterClause(y) PROVE GoesOn(x, z)
  <2>1. AtPlace(y) /\ Merging(y) /\ (Clause(y).op = "merge" => CurrentRow(y).m # Null)
    BY <1>2, <1>5, MergingSame, PlaceSame
  <2>2. GoesOn(y, z)
    BY <1>5, <2>1, AfterGoesOn
  <2> QED
    BY <1>5, <2>2, SameGoesOn
<1>6. CASE z = a
  <2>1. PICK i : z = [x EXCEPT !.i = i]
    BY <1>3, <1>6
  <2>2. Cursor(z) /\ z.pc = x.pc /\ z.stmt = x.stmt /\ z.k = x.k /\ z.r = x.r
    BY <1>2, <2>1 DEF Cursor
  <2>3. z.rows = x.rows /\ z.base = x.base /\ z.created = x.created /\ z.curcid = x.curcid
    BY <1>2, <2>1 DEF Cursor
  <2>4. SamePlace(x, z)
    BY <2>2, <2>3 DEF SamePlace
  <2>5. Merging(z) /\ CurrentRow(z) = CurrentRow(x)
    BY <2>2, <2>4, MergingSame, PlaceSame
  <2>6. GoesOn(x, z)
    BY <2>2, <2>3, <2>5 DEF GoesOn
  <2> QED
    BY <1>1, <2>6
<1>7. CASE z = AfterClause(CommandCounterIncrement(b))
  <2>1. PICK e, f : b = [x EXCEPT !.mutated = e, !.dirty = f]
    BY <1>3, Zenon
  <2>2. Cursor(b) /\ b.stmt = x.stmt /\ b.k = x.k /\ b.r = x.r /\ b.cid = x.cid
    BY <1>2, <2>1 DEF Cursor
  <2>3. b.rows = x.rows /\ b.base = x.base /\ b.created = x.created /\ b.curcid = x.curcid
    BY <1>2, <2>1 DEF Cursor
  <2>4. SamePlace(x, b)
    BY <2>2, <2>3 DEF SamePlace
  <2>5. PICK y : y = CommandCounterIncrement(b)
    OBVIOUS
  <2>6. AtPlace(b) /\ b.cid \in Nat
    BY <2>2, <2>4, PlaceSame
  <2>7. Cursor(y) /\ SamePlace(b, y)
    BY <2>5, <2>6, IncrementedPlace
  <2>8. SamePlace(x, y)
    BY <2>4, <2>7 DEF SamePlace
  <2> QED
    BY <1>1, <1>5, <1>7, <2>5, <2>7, <2>8
<1>8. CASE z = AfterClause(d)
  <2>1. Cursor(d) /\ d.stmt = x.stmt /\ d.k = x.k /\ d.r = x.r
    BY <1>2, <1>3 DEF Cursor
  <2>2. d.rows = x.rows /\ d.base = x.base /\ d.created = x.created /\ d.curcid = x.curcid
    BY <1>2, <1>3 DEF Cursor
  <2>3. SamePlace(x, d)
    BY <2>1, <2>2 DEF SamePlace
  <2> QED
    BY <1>1, <1>5, <1>8, <2>1, <2>3
<1> QED
  BY <1>4, <1>6, <1>7, <1>8

-----------------------------------------------------------------------------
(* The variable of MERGE is bound.                                           *)

\* The rows f with v for the variable of MERGE in the row r.
BoundTo(f, r, v) == [f EXCEPT ![r] = [f[r] EXCEPT !.m = v]]

\* They are rows, and the others are as they were.
LEMMA BoundToIs ==
    ASSUME NEW f, Len(f) \in Nat, Lists(f, Len(f)), NEW r \in 1 .. Len(f),
           \A n \in 1 .. Len(f) : f[n] \in [Vars -> Nat \cup {Null}],
           NEW v, v \in Nat \/ v = f[r].m, NEW g, g = BoundTo(f, r, v)
    PROVE  /\ Len(g) = Len(f) /\ Lists(g, Len(g)) /\ g[r].m = v
           /\ \A n \in 1 .. Len(f) : g[n] \in [Vars -> Nat \cup {Null}]
           /\ \A n \in 1 .. Len(f) : n # r => g[n] = f[n]
           /\ \A n \in 1 .. Len(f) : f[n].m # Null => g[n].m # Null
<1>1. PICK l \in Nat : l = Len(f) /\ r \in 1 .. l
  OBVIOUS
<1>2. PICK w : w = [f[r] EXCEPT !.m = v]
  OBVIOUS
<1>3. g = [f EXCEPT ![r] = w] /\ f = [n \in 1 .. l |-> f[n]]
  BY <1>1, <1>2 DEF BoundTo, Lists
<1>4. OneRow(f, r, g)
  BY <1>3 DEF OneRow
<1>5. Len(g) = l /\ Lists(g, Len(g))
  BY <1>1, <1>4, RowsStay
<1>6. g[r] = w /\ \A n \in 1 .. l : n # r => g[n] = f[n]
  BY <1>1, <1>3
<1>7. f[r] \in [Vars -> Nat \cup {Null}] /\ "m" \in Vars /\ Null \notin Nat
  BY RowAssumption
<1>8. w.m = v /\ v \in Nat \cup {Null} /\ w \in [Vars -> Nat \cup {Null}]
  BY <1>2, <1>7
<1>9. \A n \in 1 .. l : g[n] \in [Vars -> Nat \cup {Null}]
  BY <1>1, <1>6, <1>8
<1>10. f[r].m # Null => v # Null
  BY <1>7
<1>11. \A n \in 1 .. l : f[n].m # Null => g[n].m # Null
  BY <1>1, <1>6, <1>8, <1>10
<1> QED
  BY <1>1, <1>5, <1>6, <1>8, <1>9, <1>11

\* A cursor that differs in the row and in what MERGE has made.
SameClause(x, y) ==
    y.stmt = x.stmt /\ y.k = x.k /\ y.r = x.r /\ y.base = x.base /\ y.curcid = x.curcid

\* A MERGE after MATCH keeps its rows back, or is the last clause.
LEMMA MergeIsStageEnd ==
    ASSUME NEW x, AtPlace(x), Clause(x).op = "merge", x.stmt.match
    PROVE  StageEnd(x) = x.k
<1>1. List(Clauses(x)) /\ x.k \in 1 .. Len(Clauses(x))
  BY DEF AtPlace, AtClause, IsQuery, Clauses
<1>2. PICK n \in Nat : n = Len(Clauses(x)) /\ x.k \in 1 .. n
  BY <1>1, Zenon DEF List
<1>3. Eager(x, x.k) \/ x.k = n
  BY <1>2 DEF Eager, Clause, Clauses
<1>4. PICK e \in x.k .. n : e = StageEnd(x) /\ \A k \in x.k .. e - 1 : ~Eager(x, k)
  <2>1. /\ StageEnd(x) \in x.k .. Len(Clauses(x))
        /\ \A k \in x.k .. StageEnd(x) - 1 : ~Eager(x, k)
    BY <1>1, StagesAre
  <2> QED
    BY <1>2, <2>1
<1> QED
  BY <1>2, <1>3, <1>4

\* The variable of MERGE was bound in the row of a cursor, and if MERGE has made p
\* for it, this is remembered.
LEMMA BoundMerging ==
    ASSUME NEW x, AtPlace(x), Merging(x), Lists(x.rows, Len(x.rows)),
           NEW v, v \in Nat \/ v = x.rows[x.r].m,
           NEW y, Cursor(y), SameClause(x, y), y.rows = BoundTo(x.rows, x.r, v),
           \/ y.created = x.created
           \/ /\ Clause(x).op = "merge" /\ CurrentRow(x).m = Null /\ v \in Nat
              /\ \E p : /\ y.created = x.created \cup {p} /\ p.id \in Nat /\ p.key[1] = x.k
                        /\ p.key = <<p.key[1], p.key[2], p.key[3]>>
    PROVE  AtPlace(y) /\ Merging(y) /\ Clause(y) = Clause(x) /\ CurrentRow(y).m = v
<1>1. PICK l \in Nat : l = Len(x.rows) /\ x.r \in 1 .. l
  BY DEF AtPlace
<1>2. RowsOK(x) /\ LooksBack(x) /\ MadeHere(x) /\ BoundSoFar(x)
  BY DEF Merging
<1>3. PICK g : g = BoundTo(x.rows, x.r, v)
  OBVIOUS
<1>4. /\ Len(g) = l /\ Lists(g, Len(g)) /\ g[x.r].m = v
      /\ \A n \in 1 .. l : g[n] \in [Vars -> Nat \cup {Null}]
      /\ \A n \in 1 .. l : n # x.r => g[n] = x.rows[n]
      /\ \A n \in 1 .. l : x.rows[n].m # Null => g[n].m # Null
  <2>1. \A n \in 1 .. Len(x.rows) : x.rows[n] \in [Vars -> Nat \cup {Null}]
    BY <1>2 DEF RowsOK
  <2>2. PICK f, r : f = x.rows /\ r = x.r
    OBVIOUS
  <2>3. Len(f) \in Nat /\ Lists(f, Len(f)) /\ r \in 1 .. Len(f) /\ (v \in Nat \/ v = f[r].m)
    BY <1>1, <2>2
  <2>4. \A n \in 1 .. Len(f) : f[n] \in [Vars -> Nat \cup {Null}]
    BY <2>1, <2>2
  <2>5. g = BoundTo(f, r, v)
    BY <1>3, <2>2
  <2>6. /\ Len(g) = Len(f) /\ Lists(g, Len(g)) /\ g[r].m = v
        /\ \A n \in 1 .. Len(f) : g[n] \in [Vars -> Nat \cup {Null}]
        /\ \A n \in 1 .. Len(f) : n # r => g[n] = f[n]
        /\ \A n \in 1 .. Len(f) : f[n].m # Null => g[n].m # Null
    BY <2>3, <2>4, <2>5, BoundToIs
  <2> QED
    BY <1>1, <2>2, <2>6
<1>5. y.rows = g /\ y.stmt = x.stmt /\ y.k = x.k /\ y.r = x.r /\ y.base = x.base /\ y.curcid = x.curcid
  BY <1>3 DEF SameClause
<1>6. Clauses(y) = Clauses(x) /\ Clause(y) = Clause(x) /\ StageEnd(y) = StageEnd(x)
  BY <1>5 DEF Clauses, Clause, StageEnd, Eager
<1>7. AtPlace(y)
  <2>1. AtClause(y)
    BY <1>5, <1>6 DEF AtPlace, AtClause
  <2> QED
    BY <1>1, <1>4, <1>5, <2>1 DEF AtPlace
<1>8. AllBound(x) => AllBound(y)
  BY <1>1, <1>4, <1>5 DEF AllBound
<1>9. RowsOK(y)
  <2>1. \A n \in 1 .. Len(y.rows) : y.rows[n] \in [Vars -> Nat \cup {Null}]
    BY <1>4, <1>5
  <2>2. \A p \in y.created : p.id \in Nat /\ p.key = <<p.key[1], p.key[2], p.key[3]>>
    <3>1. \A p \in x.created : p.id \in Nat /\ p.key = <<p.key[1], p.key[2], p.key[3]>>
      BY <1>2 DEF RowsOK
    <3> QED
      BY <3>1
  <2>3. \A k \in DOMAIN y.stmt.clauses :
            y.stmt.clauses[k].op = "merge" => y.stmt.clauses[k].from \in Vars \cup {None}
    BY <1>2, <1>5 DEF RowsOK
  <2>4. ~y.stmt.match => Len(y.rows) = 1 \/ AllBound(y)
    BY <1>1, <1>2, <1>4, <1>5, <1>8 DEF RowsOK
  <2> QED
    BY <2>1, <2>2, <2>3, <2>4 DEF RowsOK
<1>10. LooksBack(y)
  BY <1>2, <1>5, <1>6, <1>8 DEF LooksBack
<1>11. BoundSoFar(y)
  <2>1. \A n \in 1 .. x.r - 1 : n \in 1 .. l
    BY <1>1
  <2> QED
    BY <1>2, <1>4, <1>5, <1>6, <2>1 DEF BoundSoFar
<1>12. MadeHere(y)
  <2>1. CASE y.created = x.created
    BY <1>2, <1>5, <1>6, <1>8, <2>1 DEF MadeHere
  <2>2. CASE y.created # x.created
    <3>1. PICK p : y.created = x.created \cup {p} /\ p.key[1] = x.k
      BY <2>2
    <3>2. Clause(x).op = "merge" /\ CurrentRow(x).m = Null /\ v \in Nat
      BY <2>2
    <3>3. ~AllBound(x)
      BY <1>1, <3>2 DEF AllBound, CurrentRow
    <3>4. CASE ~x.stmt.match
      <4>1. l = 1
        BY <1>1, <1>2, <3>3, <3>4 DEF RowsOK
      <4>2. x.r = 1 /\ \A n \in 1 .. l : n = 1
        BY <1>1, <4>1
      <4>3. v # Null
        BY <3>2, RowAssumption
      <4>4. AllBound(y)
        BY <1>4, <1>5, <4>2, <4>3 DEF AllBound
      <4> QED
        BY <4>4 DEF MadeHere
    <3>5. CASE x.stmt.match
      <4>1. StageEnd(x) = x.k
        BY <3>2, <3>5, MergeIsStageEnd
      <4>2. Clauses(x)[StageEnd(x)].op = "merge"
        BY <3>2, <4>1 DEF Clause, Clauses
      <4>3. \A q \in x.created : q.key[1] = StageEnd(x)
        BY <1>2, <3>3 DEF MadeHere
      <4> QED
        BY <1>5, <1>6, <3>1, <3>5, <4>1, <4>2, <4>3 DEF MadeHere
    <3> QED
      BY <3>4, <3>5
  <2> QED
    BY <2>1, <2>2
<1> QED
  BY <1>4, <1>5, <1>6, <1>7, <1>9, <1>10, <1>11, <1>12 DEF Merging, CurrentRow

-----------------------------------------------------------------------------
(* The steps.                                                                *)

\* A cursor at a row.
LEMMA PlaceHas ==
    ASSUME IInv, DInv, MInv, NEW t \in Txns, tx[t].pc \in {"row", "set"}
    PROVE  /\ AtPlace(tx[t]) /\ Merging(tx[t]) /\ Remembered(t) /\ status[t] = "running"
           /\ Lists(tx[t].rows, Len(tx[t].rows)) /\ tx[t].cid \in Nat /\ tx[t].base <= tx[t].cid
           /\ tx[t].pc = "set" => CurrentRow(tx[t]).m # Null
<1>1. /\ AtRow(t, tx[t]) /\ Cursor(tx[t]) /\ tx[t].cid \in Nat /\ tx[t].base \in Nat
      /\ tx[t].curcid \in Int /\ tx[t].base <= tx[t].cid
  BY AtRowHas
<1>2. AtPlace(tx[t])
  BY <1>1 DEF AtRow, AtPlace, AtClause
<1>3. /\ Merging(tx[t]) /\ Remembered(t) /\ (tx[t].pc = "set" => CurrentRow(tx[t]).m # Null)
  BY DEF MInv, MergeInv
<1> QED
  BY <1>1, <1>2, <1>3 DEF AtRow

\* A cursor goes on, and no path is made.
LEMMA GoesOnKeeps ==
    ASSUME IInv, DInv, MInv, NEW t \in Txns, tx[t].pc \in {"row", "set"}, status' = status,
           NEW n \in Nat, NEW m \in Nat, PathStep(t, n, m), \A j \in n + 1 .. n + m : ~IsPath(j)',
           NEW z, GoesOn(tx[t], z), tx' = [tx EXCEPT ![t] = z]
    PROVE  MInv'
<1>1. tx'[t] = z /\ \A u \in Txns \ {t} : tx'[u] = tx[u]
  BY DEF IInv, StatusInv
<1>2. status[t] = "running"
  BY PlaceHas
<1>3. tx'[t].pc \in {"row", "set"} =>
          /\ tx[t].pc \in {"row", "set"} /\ Merging(tx'[t])
          /\ tx'[t].pc = "set" => CurrentRow(tx'[t]).m # Null
          /\ tx'[t].base = tx[t].base /\ tx'[t].created = tx[t].created
  BY <1>1 DEF GoesOn
<1> QED
  BY <1>1, <1>2, <1>3, NoPathStep

\* A cursor goes on, and nothing is written.
LEMMA QuietGoesOn ==
    ASSUME IInv, DInv, MInv, NEW t \in Txns, tx[t].pc \in {"row", "set"}, status' = status, heap' = heap,
           NEW z, GoesOn(tx[t], z), tx' = [tx EXCEPT ![t] = z]
    PROVE  MInv'
<1>1. PICK n \in Nat : PathStep(t, n, 0)
  BY SamePaths
<1>2. \A j \in n + 1 .. n + 0 : ~IsPath(j)'
  OBVIOUS
<1> QED
  BY <1>1, <1>2, GoesOnKeeps

\* A transaction leaves its rows, or is over.
LEMMA LeavesKeeps ==
    ASSUME MInv, NEW t \in Txns, heap' = heap, \A x : Stands(x)' => Stands(x),
           \A u \in Txns \ {t} : tx'[u] = tx[u], tx'[t].pc \notin {"row", "set"}
    PROVE  MInv'
<1>1. \A i : (IsPath(i)' <=> IsPath(i)) /\ Path(i)' = Path(i)
  BY DEF IsPath, Original, Path
<1>2. \A i : PatternOK(i) => PatternOK(i)'
  BY <1>1 DEF PatternOK, IsVertex
<1>3. \A i, j : MadeLater(i, j) => MadeLater(i, j)'
  BY <1>1 DEF MadeLater
<1>4. \A i, j : PairOK(i, j) => PairOK(i, j)'
  <2> TAKE i, j
  <2>1. Stands(heap[j].xmin)' => Stands(heap[j].xmin)
    <3>1. PICK x : x = heap[j].xmin /\ heap'[j].xmin = x
      OBVIOUS
    <3>2. Stands(heap[j].xmin)' <=> Stands(x)'
      BY <3>1 DEF Stands
    <3> QED
      BY <3>1, <3>2
  <2> QED
    BY <1>1, <2>1 DEF PairOK
<1>5. Paths'
  BY <1>2, <1>3, <1>4 DEF MInv, Paths
<1>6. ASSUME NEW u \in Txns PROVE MergeInv(u)'
  <2>1. CASE u = t
    BY <2>1 DEF MergeInv
  <2>2. CASE u # t
    <3>1. tx'[u] = tx[u] /\ MergeInv(u)
      BY <2>2 DEF MInv
    <3>2. Remembered(u) => Remembered(u)'
      BY <1>1, <3>1 DEF Remembered
    <3> QED
      BY <3>1, <3>2 DEF MergeInv
  <2> QED
    BY <2>1, <2>2
<1> QED
  BY <1>5, <1>6 DEF MInv

\* An error, the victim of a deadlock, COMMIT and ROLLBACK.
LEMMA FailLeaves ==
    ASSUME IInv, MInv, NEW t \in Txns, Fail(t) \/ Commit(t)
    PROVE  MInv'
<1>1. heap' = heap /\ tx' = [tx EXCEPT ![t].pc = "over"]
  BY DEF Fail, Commit
<1>2. Cursor(tx[t]) /\ tx = [u \in Txns |-> tx[u]] /\ status \in [Txns -> {"running", "committed", "aborted"}]
  BY CursorIs DEF CursorOK, IInv, StatusInv
<1>3. tx'[t] = [tx[t] EXCEPT !.pc = "over"] /\ \A u \in Txns \ {t} : tx'[u] = tx[u]
  BY <1>1, <1>2
<1>4. tx'[t].pc = "over"
  BY <1>2, <1>3 DEF Cursor
<1>5. \A x : Stands(x)' => Stands(x)
  <2>1. CASE Fail(t)
    BY <1>2, <2>1 DEF Fail, Stands
  <2>2. CASE Commit(t)
    BY <1>2, <2>2 DEF Commit, Stands
  <2> QED
    BY <2>1, <2>2
<1> QED
  BY <1>1, <1>3, <1>4, <1>5, LeavesKeeps

\* The rows are used up, and the clauses are ended.
LEMMA EndLeaves ==
    ASSUME IInv, MInv, NEW t \in Txns, NoMoreRows(t) \/ EndClause(t)
    PROVE  MInv'
<1>1. Cursor(tx[t]) /\ tx[t].cid \in Nat /\ tx = [u \in Txns |-> tx[u]]
  BY CursorIs DEF CursorOK, IInv, StatusInv
<1>2. heap' = heap /\ status' = status
  <2>1. CASE NoMoreRows(t)
    BY <2>1, Zenon DEF NoMoreRows
  <2>2. CASE EndClause(t)
    BY <2>2, Zenon DEF EndClause
  <2> QED
    BY <2>1, <2>2
<1>3. \A x : Stands(x)' => Stands(x)
  BY <1>2 DEF Stands
<1>4. PICK z : tx' = [tx EXCEPT ![t] = z] /\ z.pc \in {"end", "ready"}
  <2>1. CASE NoMoreRows(t)
    <3>1. PICK y : y = [tx[t] EXCEPT !.pc = "end", !.dirty = tx[t].dirty /\ ~Counts(tx[t])]
      OBVIOUS
    <3>2. PICK z : z = y \/ z = CommandCounterIncrement(y)
      OBVIOUS
    <3>3. PICK d : y = [tx[t] EXCEPT !.pc = "end", !.dirty = d]
      BY <3>1, Zenon
    <3>4. Cursor(y) /\ y.pc = "end" /\ y.cid \in Nat
      BY <1>1, <3>3 DEF Cursor
    <3>5. CommandCounterIncrement(y).pc = "end"
      BY <3>4, IncrementedCursor
    <3>6. tx' = [tx EXCEPT ![t] = y] \/ tx' = [tx EXCEPT ![t] = CommandCounterIncrement(y)]
      <4>1. y = [tx[t] EXCEPT !.pc = "end", !.dirty = @ /\ ~Counts(tx[t])]
        BY <3>1, Zenon
      <4> QED
        BY <2>1, <4>1, Zenon DEF NoMoreRows
    <3> QED
      BY <3>4, <3>5, <3>6
  <2>2. CASE EndClause(t)
    <3>1. PICK d : d = (tx[t].dirty /\ ~Counts(tx[t]))
      OBVIOUS
    <3>2. PICK y : y = [tx[t] EXCEPT !.dirty = d]
      OBVIOUS
    <3>3. y = [tx[t] EXCEPT !.dirty = @ /\ ~Counts(tx[t])] /\ tx[t].pc = "end"
      BY <2>2, <3>1, <3>2, Zenon DEF EndClause
    <3>4. PICK z : /\ z = IF Clause(tx[t]).op \in {"create", "merge"} THEN CommandCounterIncrement(y) ELSE y
                   /\ tx' = [tx EXCEPT ![t] = IF tx[t].k > 1 THEN [z EXCEPT !.k = @ - 1]
                                              ELSE [CommandCounterIncrement(z) EXCEPT !.pc = "ready"]]
      <4> DEFINE u == [tx[t] EXCEPT !.dirty = @ /\ ~Counts(tx[t])]
                 v == IF Clause(tx[t]).op \in {"create", "merge"} THEN CommandCounterIncrement(u) ELSE u
      <4>1. tx' = [tx EXCEPT ![t] = IF tx[t].k > 1 THEN [v EXCEPT !.k = @ - 1]
                                    ELSE [CommandCounterIncrement(v) EXCEPT !.pc = "ready"]]
        BY <2>2, Zenon DEF EndClause
      <4>2. u = y
        BY <3>3
      <4>3. v = IF Clause(tx[t]).op \in {"create", "merge"} THEN CommandCounterIncrement(y) ELSE y
        BY <4>2
      <4> HIDE DEF v
      <4> QED
        BY <4>1, <4>3
    <3>5. Cursor(y) /\ y.pc = "end" /\ y.cid \in Nat
      BY <1>1, <3>2, <3>3 DEF Cursor
    <3>6. Cursor(z) /\ z.pc = "end" /\ z.cid \in Nat
      BY <3>4, <3>5, IncrementedCursor
    <3>7. PICK w : w = CommandCounterIncrement(z) /\ Cursor(w)
      BY <3>6, IncrementedCursor
    <3>8. PICK a, b : a = [z EXCEPT !.k = @ - 1] /\ b = [w EXCEPT !.pc = "ready"]
      OBVIOUS
    <3>9. a.pc = "end" /\ b.pc = "ready"
      BY <3>6, <3>7, <3>8 DEF Cursor
    <3>10. tx' = [tx EXCEPT ![t] = a] \/ tx' = [tx EXCEPT ![t] = b]
      BY <3>4, <3>7, <3>8
    <3> QED
      BY <3>9, <3>10
  <2> QED
    BY <2>1, <2>2
<1>5. tx'[t] = z /\ \A u \in Txns \ {t} : tx'[u] = tx[u]
  BY <1>1, <1>4
<1> QED
  BY <1>2, <1>3, <1>4, <1>5, LeavesKeeps

\* One item of SET.
LEMMA ApplyItemGoesOn ==
    ASSUME IInv, DInv, MInv, NEW t \in Txns, ApplyItem(t)
    PROVE  MInv'
<1>1. PICK x : x = tx[t]
  OBVIOUS
<1>2. InSet(x) /\ x.pc \in {"row", "set"}
  <2>1. InSet(x)
    BY <1>1, Zenon DEF ApplyItem
  <2> QED
    BY <2>1 DEF InSet
<1>3. /\ AtPlace(x) /\ Merging(x) /\ x.cid \in Nat /\ Cursor(x)
      /\ x.pc = "set" => CurrentRow(x).m # Null
  BY <1>1, <1>2, PlaceHas DEF AtPlace, AtClause
<1>4. PICK y : y = [x EXCEPT !.lidx = @ + 1,
                       !.asked = IF Target(x) \in Protected \/ Find(t, x.cid, Target(x)) = {} THEN @
                                 ELSE {a \in @ : a.id # Target(x)}
                                      \cup {[id |-> Target(x), val |-> Items(x)[x.i].val]}]
  BY Zenon
<1>5. PICK l, a : y = [x EXCEPT !.lidx = l, !.asked = a]
  BY <1>4, Zenon
<1>6. PICK z : z = [y EXCEPT !.used = TRUE, !.dirty = TRUE, !.mutated = y.mutated \cup {x.k}]
  OBVIOUS
<1>7. PICK w : w = [y EXCEPT !.used = TRUE]
  OBVIOUS
<1>8. \/ Fail(t)
      \/ heap' = heap /\ (FinishItem(t, x) \/ FinishItem(t, y) \/ FinishItem(t, w))
      \/ \E i \in Wanted(t) : /\ Writable(t, i) /\ FinishItem(t, z)
                              /\ heap' = Updated(t, i, Items(x)[x.i].val)
  <2>1. z = [y EXCEPT !.used = TRUE, !.dirty = TRUE, !.mutated = @ \cup {x.k}]
    BY <1>6
  <2> QED
    BY <1>1, <1>4, <1>7, <2>1, Zenon DEF ApplyItem
<1>9. Cursor(y) /\ SamePlace(x, y) /\ y.pc = x.pc /\ y.cid = x.cid
  <2>1. Cursor(y) /\ y.stmt = x.stmt /\ y.k = x.k /\ y.r = x.r /\ y.pc = x.pc /\ y.cid = x.cid
    BY <1>3, <1>5 DEF Cursor
  <2>2. y.rows = x.rows /\ y.base = x.base /\ y.created = x.created /\ y.curcid = x.curcid
    BY <1>3, <1>5 DEF Cursor
  <2> QED
    BY <2>1, <2>2 DEF SamePlace
<1>10. Cursor(z) /\ SamePlace(x, z) /\ z.pc = x.pc /\ z.cid = x.cid
  <2>1. Cursor(z) /\ z.stmt = y.stmt /\ z.k = y.k /\ z.r = y.r /\ z.pc = y.pc /\ z.cid = y.cid
    BY <1>6, <1>9 DEF Cursor
  <2>2. z.rows = y.rows /\ z.base = y.base /\ z.created = y.created /\ z.curcid = y.curcid
    BY <1>6, <1>9 DEF Cursor
  <2> QED
    BY <1>9, <2>1, <2>2 DEF SamePlace
<1>11. Cursor(w) /\ SamePlace(x, w) /\ w.pc = x.pc /\ w.cid = x.cid
  <2>1. Cursor(w) /\ w.stmt = y.stmt /\ w.k = y.k /\ w.r = y.r /\ w.pc = y.pc /\ w.cid = y.cid
    BY <1>7, <1>9 DEF Cursor
  <2>2. w.rows = y.rows /\ w.base = y.base /\ w.created = y.created /\ w.curcid = y.curcid
    BY <1>7, <1>9 DEF Cursor
  <2> QED
    BY <1>9, <2>1, <2>2 DEF SamePlace
<1>12. ASSUME NEW v, Cursor(v), SamePlace(x, v), v.pc = x.pc, v.cid = x.cid, FinishItem(t, v)
       PROVE  \E b : GoesOn(x, b) /\ tx' = [tx EXCEPT ![t] = b]
  <2>1. AtPlace(v) /\ Merging(v) /\ Clause(v) = Clause(x) /\ CurrentRow(v) = CurrentRow(x)
    BY <1>3, <1>12, PlaceSame, MergingSame
  <2>2. InSet(v) /\ v.cid \in Nat /\ (v.pc = "set" => CurrentRow(v).m # Null)
    BY <1>2, <1>3, <1>12, <2>1 DEF InSet
  <2>3. PICK b : GoesOn(v, b) /\ tx' = [tx EXCEPT ![t] = b]
    BY <1>12, <2>1, <2>2, FinishItemGoesOn
  <2> QED
    BY <1>12, <2>3, SameGoesOn
<1>13. SamePlace(x, x)
  BY DEF SamePlace
<1>14. CASE Fail(t)
  BY <1>14, FailLeaves
<1>15. CASE heap' = heap /\ (FinishItem(t, x) \/ FinishItem(t, y) \/ FinishItem(t, w))
  <2>1. PICK v \in {x, y, w} : FinishItem(t, v)
    BY <1>15
  <2>2. Cursor(v) /\ SamePlace(x, v) /\ v.pc = x.pc /\ v.cid = x.cid
    BY <1>3, <1>9, <1>11, <1>13
  <2>3. PICK b : GoesOn(x, b) /\ tx' = [tx EXCEPT ![t] = b]
    BY <1>12, <2>1, <2>2
  <2>4. status' = status
    BY <2>1 DEF FinishItem
  <2> QED
    BY <1>1, <1>2, <1>15, <2>3, <2>4, QuietGoesOn
<1>16. ASSUME NEW i \in Wanted(t), Writable(t, i), FinishItem(t, z), heap' = Updated(t, i, Items(x)[x.i].val)
       PROVE  MInv'
  <2>1. PICK b : GoesOn(x, b) /\ tx' = [tx EXCEPT ![t] = b]
    BY <1>10, <1>12, <1>16
  <2>2. status' = status
    BY <1>16 DEF FinishItem
  <2>3. i \in DOMAIN heap /\ VisibleAt(t, tx[t].cid, heap[i])
    BY WantedIs
  <2>4. PICK val : val = Items(x)[x.i].val
    OBVIOUS
  <2>5. PICK n \in Nat : PathStep(t, n, 1) /\ \A j \in n + 1 .. n + 1 : ~IsPath(j)'
    BY <1>16, <2>3, <2>4, UpdatedPaths DEF MInv
  <2> QED
    BY <1>1, <1>2, <2>1, <2>2, <2>5, GoesOnKeeps
<1> QED
  BY <1>8, <1>14, <1>15, <1>16

\* A row was deleted: the cursor is at the same place of the statement.
LEMMA DeletedPlace ==
    ASSUME NEW x, Cursor(x), x.cid \in Nat, NEW z, z = DeletedBy(x)
    PROVE  /\ Cursor(z) /\ z.curcid = x.cid + 1 /\ z.pc = x.pc /\ z.stmt = x.stmt /\ z.k = x.k /\ z.r = x.r
           /\ z.rows = x.rows /\ z.base = x.base /\ z.created = x.created
<1>1. PICK y : y = [x EXCEPT !.used = TRUE, !.dirty = TRUE, !.mutated = x.mutated \cup {x.k}]
  OBVIOUS
<1>2. PICK c \in Nat : c = x.cid + 1
  OBVIOUS
<1>3. Cursor(y) /\ y.pc = x.pc /\ y.stmt = x.stmt /\ y.k = x.k /\ y.r = x.r /\ y.used = TRUE
  BY <1>1 DEF Cursor
<1>4. y.rows = x.rows /\ y.base = x.base /\ y.created = x.created /\ y.cid = x.cid
  BY <1>1 DEF Cursor
<1>5. PICK w : w = CommandCounterIncrement(y)
  OBVIOUS
<1>6. w = [y EXCEPT !.cid = c, !.used = FALSE]
  BY <1>2, <1>3, <1>4, <1>5 DEF CommandCounterIncrement, Cursor
<1>7. Cursor(w) /\ w.pc = x.pc /\ w.stmt = x.stmt /\ w.k = x.k /\ w.r = x.r /\ w.cid = c
  BY <1>3, <1>6 DEF Cursor
<1>8. w.rows = x.rows /\ w.base = x.base /\ w.created = x.created
  BY <1>3, <1>4, <1>6 DEF Cursor
<1>9. z = [w EXCEPT !.curcid = c]
  <2>1. y = [x EXCEPT !.used = TRUE, !.dirty = TRUE, !.mutated = @ \cup {x.k}]
    BY <1>1
  <2> QED
    BY <1>5, <1>7, <2>1 DEF DeletedBy
<1>10. Cursor(z) /\ z.pc = w.pc /\ z.stmt = w.stmt /\ z.k = w.k /\ z.r = w.r /\ z.curcid = c
  BY <1>7, <1>9 DEF Cursor
<1>11. z.rows = w.rows /\ z.base = w.base /\ z.created = w.created
  BY <1>7, <1>9 DEF Cursor
<1> QED
  BY <1>2, <1>7, <1>8, <1>10, <1>11

\* One item of DELETE.
LEMMA DeleteItemGoesOn ==
    ASSUME IInv, DInv, MInv, NEW t \in Txns, DeleteItem(t)
    PROVE  MInv'
<1>1. PICK x : x = tx[t]
  OBVIOUS
<1>2. x.pc = "row" /\ Clause(x).op = "delete"
  BY <1>1, Zenon DEF DeleteItem, InDelete
<1>3. AtPlace(x) /\ Merging(x) /\ x.cid \in Nat /\ x.base <= x.cid /\ x.base \in Nat /\ Cursor(x)
  BY <1>1, <1>2, PlaceHas DEF AtPlace, AtClause
<1>5. PICK y : y = [x EXCEPT !.curcid = x.cid,
                             !.doomed = @ \cup (IF Wanted(t) = {} THEN {} ELSE {Target(x)})]
  OBVIOUS
<1>6. PICK d : y = [x EXCEPT !.curcid = x.cid, !.doomed = d]
  BY <1>5, Zenon
<1>7. Cursor(y) /\ y.pc = x.pc /\ y.stmt = x.stmt /\ y.k = x.k /\ y.r = x.r /\ y.curcid = x.cid
  BY <1>3, <1>6 DEF Cursor
<1>8. y.rows = x.rows /\ y.base = x.base /\ y.created = x.created /\ y.cid = x.cid
  BY <1>3, <1>6 DEF Cursor
<1>9. \/ Fail(t)
      \/ heap' = heap /\ (tx' = [tx EXCEPT ![t] = NextItem(x)] \/ tx' = [tx EXCEPT ![t] = NextItem(y)])
      \/ \E i \in Wanted(t) : \E h :
            /\ Writable(t, i) /\ heap' = Ended(t, i, x.cid)
            /\ tx' = [tx EXCEPT ![t] = NextItem(DeletedBy([y EXCEPT !.htab = h]))]
  <2> DEFINE X == tx[t]
             Y == [X EXCEPT !.curcid = X.cid,
                            !.doomed = X.doomed \cup (IF Wanted(t) = {} THEN {} ELSE {Target(X)})]
             H(i) == IF IsVertex(heap[i]) THEN Y.htab \cup {<<X.k, Target(X)>>} ELSE Y.htab
  <2>1. \/ Fail(t)
        \/ heap' = heap /\ (tx' = [tx EXCEPT ![t] = NextItem(X)] \/ tx' = [tx EXCEPT ![t] = NextItem(Y)])
        \/ \E i \in Wanted(t) :
              /\ Writable(t, i) /\ heap' = Ended(t, i, X.cid)
              /\ tx' = [tx EXCEPT ![t] = NextItem(DeletedBy([Y EXCEPT !.htab = H(i)]))]
    BY Zenon DEF DeleteItem
  <2>2. x = X /\ y = Y
    BY <1>1, <1>5
  <2> HIDE DEF X, Y, H
  <2> QED
    BY <2>1, <2>2, Zenon
<1>10. status' = status \/ Fail(t)
  BY Zenon DEF DeleteItem
<1>11. ASSUME NEW c \in Int, c >= x.base, NEW v, Cursor(v), v.pc = x.pc, v.curcid = c, v.stmt = x.stmt,
              v.k = x.k, v.r = x.r, v.rows = x.rows, v.base = x.base, v.created = x.created
       PROVE  GoesOn(x, NextItem(v))
  <2>1. AtPlace(v) /\ Merging(v) /\ Clause(v) = Clause(x)
    BY <1>2, <1>3, <1>11, MergingLater
  <2>2. PICK z : z = NextItem(v)
    OBVIOUS
  <2>3. GoesOn(v, z)
    BY <1>2, <1>11, <2>1, <2>2, NextItemGoesOn
  <2> QED
    BY <1>11, <2>2, <2>3 DEF GoesOn
<1>12. CASE Fail(t)
  BY <1>12, FailLeaves
<1>13. GoesOn(x, NextItem(x)) /\ GoesOn(x, NextItem(y))
  <2>1. GoesOn(x, NextItem(x))
    BY <1>2, <1>3, NextItemGoesOn
  <2>2. GoesOn(x, NextItem(y))
    BY <1>3, <1>7, <1>8, <1>11
  <2> QED
    BY <2>1, <2>2
<1>14. ASSUME heap' = heap, status' = status, NEW v \in {x, y}, tx' = [tx EXCEPT ![t] = NextItem(v)]
       PROVE  MInv'
  <2>1. PICK z : z = NextItem(v) /\ GoesOn(x, z)
    BY <1>13
  <2> QED
    BY <1>1, <1>2, <1>14, <2>1, QuietGoesOn
<1>15. ASSUME NEW i \in Wanted(t), NEW h, Writable(t, i), heap' = Ended(t, i, x.cid), status' = status,
              tx' = [tx EXCEPT ![t] = NextItem(DeletedBy([y EXCEPT !.htab = h]))]
       PROVE  MInv'
  <2>1. i \in DOMAIN heap /\ VisibleAt(t, tx[t].cid, heap[i])
    BY WantedIs
  <2>2. PICK v : v = [y EXCEPT !.htab = h]
    OBVIOUS
  <2>3. Cursor(v) /\ v.pc = x.pc /\ v.stmt = x.stmt /\ v.k = x.k /\ v.r = x.r
    BY <1>7, <2>2 DEF Cursor
  <2>4. v.rows = x.rows /\ v.base = x.base /\ v.created = x.created /\ v.cid = x.cid
    BY <1>7, <1>8, <2>2 DEF Cursor
  <2>5. PICK w : w = DeletedBy(v)
    OBVIOUS
  <2>6. /\ Cursor(w) /\ w.curcid = v.cid + 1 /\ w.pc = v.pc /\ w.stmt = v.stmt /\ w.k = v.k /\ w.r = v.r
        /\ w.rows = v.rows /\ w.base = v.base /\ w.created = v.created
    BY <1>3, <2>3, <2>4, <2>5, DeletedPlace
  <2>7. PICK c \in Int : c = x.cid + 1 /\ c >= x.base
    BY <1>3
  <2>8. PICK z : z = NextItem(w) /\ GoesOn(x, z)
    BY <1>11, <2>3, <2>4, <2>6, <2>7
  <2>9. PICK n \in Nat : PathStep(t, n, 0)
    BY <1>1, <1>15, <2>1, EndedPaths
  <2>10. \A j \in n + 1 .. n + 0 : ~IsPath(j)'
    OBVIOUS
  <2>11. tx' = [tx EXCEPT ![t] = z]
    BY <1>15, <2>2, <2>5, <2>8
  <2> QED
    BY <1>1, <1>2, <1>15, <2>8, <2>9, <2>10, <2>11, GoesOnKeeps
<1> QED
  BY <1>9, <1>10, <1>12, <1>14, <1>15

\* One edge that a deleted vertex leaves behind.
LEMMA DeleteConnectedLeaves ==
    ASSUME IInv, DInv, MInv, NEW t \in Txns, DeleteConnected(t)
    PROVE  MInv'
<1>1. PICK x : x = tx[t]
  OBVIOUS
<1>2. CASE Fail(t)
  BY <1>2, FailLeaves
<1>3. CASE ~Fail(t)
  <2>1. PICK y : y = [x EXCEPT !.curcid = x.cid]
    OBVIOUS
  <2>2. /\ InDetach(x)
        /\ \E i \in Connected(t) : /\ Writable(t, i) /\ heap' = Ended(t, i, x.cid)
                                   /\ tx' = [tx EXCEPT ![t] = DeletedBy(y)] /\ status' = status
    BY <1>1, <1>3, <2>1, Zenon DEF DeleteConnected
  <2>3. PICK i \in Connected(t) : /\ Writable(t, i) /\ heap' = Ended(t, i, x.cid)
                                  /\ tx' = [tx EXCEPT ![t] = DeletedBy(y)] /\ status' = status
    BY <2>2
  <2>4. Cursor(x) /\ x.cid \in Nat /\ x.pc = "end" /\ status[t] = "running"
    <3>1. CursorOK(t, x) /\ x.pc = "end"
      BY <1>1, <2>2, CursorIs DEF InDetach
    <3> QED
      BY <3>1 DEF CursorOK
  <2>5. Cursor(y) /\ y.pc = "end" /\ y.cid = x.cid
    BY <2>1, <2>4 DEF Cursor
  <2>6. PICK z : z = DeletedBy(y) /\ z.pc = "end"
    BY <2>4, <2>5, DeletedPlace
  <2>7. i \in DOMAIN heap /\ VisibleAt(t, tx[t].cid, heap[i])
    BY <1>1 DEF Connected
  <2>8. PICK n \in Nat : PathStep(t, n, 0)
    BY <1>1, <2>3, <2>7, EndedPaths
  <2>9. \A j \in n + 1 .. n + 0 : ~IsPath(j)'
    OBVIOUS
  <2>10. tx'[t] = z /\ \A u \in Txns \ {t} : tx'[u] = tx[u]
    BY <2>3, <2>6 DEF IInv, StatusInv
  <2>11. tx'[t].pc \notin {"row", "set"}
    BY <2>6, <2>10
  <2> QED
    BY <2>3, <2>4, <2>8, <2>9, <2>10, <2>11, NoPathStep
<1> QED
  BY <1>2, <1>3

\* The versions of a new path.
LEMMA NewPathHas ==
    ASSUME HeapInv, NEW t, NEW from, NEW val, NEW c, NEW pat, NEW new, new = NewPath(t, from, val, c, pat)
    PROVE  /\ (from = None => Len(new) = 1) /\ (from # None => Len(new) = 2)
           /\ new[1].pat = pat /\ new[1].ends = <<>> /\ new[1].val = val
           /\ from # None => new[2].pat = None /\ new[2].ends = <<from, next_id>>
<1>1. PICK a \in Nat : a = next_id
  BY DEF HeapInv
<1>2. PICK v : v = Row(a, <<>>, val, t, c, tx[t].snap \cup {t}, pat)
  OBVIOUS
<1>3. PICK e : e = NewEdge(t, a + 1, from, a, c)
  OBVIOUS
<1>4. v.pat = pat /\ v.ends = <<>> /\ v.val = val /\ e.pat = None /\ e.ends = <<from, a>>
  BY <1>2, <1>3 DEF Row, NewEdge
<1>5. CASE from = None
  <2>1. new = <<v>>
    BY <1>1, <1>2, <1>5 DEF NewPath
  <2> QED
    BY <1>4, <1>5, <2>1
<1>6. CASE from # None
  <2>1. new = Append(<<v>>, e)
    BY <1>1, <1>2, <1>3, <1>6 DEF NewPath
  <2>2. PICK f : f = <<v>>
    OBVIOUS
  <2>3. Lists(f, 1) /\ f[1] = v
    BY <2>2 DEF Lists
  <2>4. new = AndThen(f, e)
    BY <2>1, <2>2 DEF AndThen
  <2>5. /\ Lists(AndThen(f, e), 1 + 1) /\ AndThen(f, e)[1 + 1] = e
        /\ \A i \in 1 .. 1 : AndThen(f, e)[i] = f[i]
    BY <2>3, AppendIs
  <2>6. 1 + 1 = 2 /\ 1 \in 1 .. 1
    OBVIOUS
  <2>7. Lists(new, 2) /\ new[1] = v /\ new[2] = e
    BY <2>3, <2>4, <2>5, <2>6
  <2>8. Len(new) = 2
    BY <2>7, ListIs
  <2> QED
    BY <1>1, <1>4, <1>6, <2>7, <2>8
<1> QED
  BY <1>5, <1>6

\* One path of CREATE, which is not one of MERGE.
LEMMA ExecCreateGoesOn ==
    ASSUME IInv, DInv, MInv, NEW t \in Txns, ExecCreate(t)
    PROVE  MInv'
<1>1. PICK x : x = tx[t]
  OBVIOUS
<1>2. CursorOK(t, x) /\ x.pc = "row" /\ Clause(x).op = "create" /\ HeapInv
  BY <1>1, CursorIs, Zenon DEF ExecCreate
<1>3. /\ AtRow(t, x) /\ Cursor(x) /\ x.cid \in Nat /\ x.base \in Nat
      /\ x.curcid \in Int /\ x.used \in BOOLEAN /\ x.base <= x.cid
  BY <1>1, <1>2, AtRowHas
<1>4. AtPlace(x) /\ Merging(x) /\ Lists(x.rows, Len(x.rows))
  BY <1>1, <1>2, PlaceHas
<1>5. CASE Fail(t)
  BY <1>5, FailLeaves
<1>6. CASE ~Fail(t)
  <2>1. PICK new : new = IF Clause(x).to # None
               THEN <<NewEdge(t, next_id, CurrentRow(x)[Clause(x).from], CurrentRow(x)[Clause(x).to], x.cid)>>
               ELSE NewPath(t, IF Clause(x).from = None THEN None ELSE CurrentRow(x)[Clause(x).from],
                            Clause(x).val, x.cid, None)
    OBVIOUS
  <2>2. \A w \in {Clause(x).from, Clause(x).to} \ {None} : Standing(t, CurrentRow(x)[w])
    <3> TAKE w \in {Clause(x).from, Clause(x).to} \ {None}
    <3>1. EntityExists(t, CurrentRow(x)[w])
      BY <1>1, <1>6, Zenon DEF ExecCreate
    <3> QED
      BY <1>1, <1>3, <3>1, ExistsIs
  <2>3. PICK m \in Nat : MadePath(t, x.cid, new, m) /\ \A j \in 1 .. m : new[j].pat = None
    <3>1. CASE Clause(x).to # None
      <4>1. Clause(x).from # None
        BY <1>2, <1>3, <3>1 DEF AtRow, IsQuery, Clause, Clauses, List
      <4>2. PICK a, b : /\ a = CurrentRow(x)[Clause(x).from] /\ b = CurrentRow(x)[Clause(x).to]
                        /\ Standing(t, a) /\ Standing(t, b)
        BY <2>2, <3>1, <4>1
      <4>3. new = <<NewEdge(t, next_id, a, b, x.cid)>>
        BY <2>1, <3>1, <4>2
      <4>4. PICK m \in Nat : MadePath(t, x.cid, new, m)
        BY <1>2, <1>3, <4>2, <4>3, EdgeMade
      <4>5. m = 1 /\ new[1].pat = None
        <5>1. PICK e : e = NewEdge(t, next_id, a, b, x.cid)
          OBVIOUS
        <5>2. new = <<e>> /\ e.pat = None
          BY <4>3, <5>1 DEF NewEdge, Row
        <5> QED
          BY <4>4, <5>2 DEF MadePath
      <4>6. \A j \in 1 .. 1 : j = 1
        OBVIOUS
      <4> QED
        BY <4>4, <4>5, <4>6
    <3>2. CASE Clause(x).to = None
      <4>1. PICK from : from = IF Clause(x).from = None THEN None ELSE CurrentRow(x)[Clause(x).from]
        OBVIOUS
      <4>2. from # None => Standing(t, from)
        BY <2>2, <4>1
      <4>3. new = NewPath(t, from, Clause(x).val, x.cid, None)
        BY <2>1, <3>2, <4>1
      <4>4. PICK m \in Nat : MadePath(t, x.cid, new, m)
        BY <1>2, <1>3, <4>2, <4>3, PathMade
      <4>5. /\ (from = None => Len(new) = 1) /\ (from # None => Len(new) = 2)
            /\ new[1].pat = None /\ (from # None => new[2].pat = None)
        <5>1. PICK val, c : new = NewPath(t, from, val, c, None)
          BY <4>3
        <5> QED
          BY <1>2, <5>1, NewPathHas
      <4>6. m = Len(new)
        BY <4>4 DEF MadePath
      <4>7. \A j \in 1 .. m : j = 1 \/ (from # None /\ j = 2)
        BY <4>5, <4>6
      <4>8. \A j \in 1 .. m : new[j].pat = None
        BY <4>5, <4>7
      <4> QED
        BY <4>4, <4>8
    <3> QED
      BY <3>1, <3>2
  <2>4. PICK b : b = IF Clause(x).to # None THEN x.rows[x.r].m ELSE next_id
    OBVIOUS
  <2>5. PICK rows : rows = BoundTo(x.rows, x.r, b)
    OBVIOUS
  <2>6. PICK y : y = [x EXCEPT !.used = TRUE, !.dirty = TRUE, !.mutated = x.mutated \cup {x.k},
                               !.rows = rows]
    OBVIOUS
  <2>7. PICK z : z = [y EXCEPT !.dirty = FALSE, !.mutated = y.mutated \ {x.k}]
    OBVIOUS
  <2>8. PICK w : w = CommandCounterIncrement(z)
    OBVIOUS
  <2>9. /\ heap' = heap \o new /\ status' = status
        /\ tx' = [tx EXCEPT ![t] = AfterClause(y)] \/ tx' = [tx EXCEPT ![t] = AfterClause(w)]
    <3>1. rows = [x.rows EXCEPT ![x.r] = [x.rows[x.r] EXCEPT !.m = IF Clause(x).to # None THEN @ ELSE next_id]]
      BY <2>4, <2>5 DEF BoundTo
    <3>2. y = [x EXCEPT !.used = TRUE, !.dirty = TRUE, !.mutated = @ \cup {x.k},
                        !.rows[x.r].m = IF Clause(x).to # None THEN @ ELSE next_id]
      BY <1>3, <2>6, <3>1 DEF Cursor
    <3>3. z = [y EXCEPT !.dirty = FALSE, !.mutated = @ \ {x.k}]
      BY <2>7
    <3>4. heap' = heap \o new /\ status' = status
      BY <1>1, <1>6, <2>1, Zenon DEF ExecCreate
    <3>5. tx' = [tx EXCEPT ![t] = AfterClause(y)] \/ tx' = [tx EXCEPT ![t] = AfterClause(w)]
      BY <1>1, <1>6, <2>8, <3>2, <3>3, Zenon DEF ExecCreate
    <3> QED
      BY <3>4, <3>5
  <2>10. /\ Cursor(y) /\ y.rows = rows /\ y.stmt = x.stmt /\ y.k = x.k /\ y.r = x.r
    BY <1>3, <2>6 DEF Cursor
  <2>11. y.base = x.base /\ y.curcid = x.curcid /\ y.created = x.created /\ y.cid = x.cid
    BY <1>3, <2>6 DEF Cursor
  <2>12. AtPlace(y) /\ Merging(y) /\ Clause(y) = Clause(x)
    <3>1. SameClause(x, y)
      BY <2>10, <2>11 DEF SameClause
    <3>2. b \in Nat \/ b = x.rows[x.r].m
      BY <1>2, <2>4 DEF HeapInv
    <3>3. Cursor(y) /\ y.rows = BoundTo(x.rows, x.r, b) /\ y.created = x.created
      BY <2>5, <2>10, <2>11
    <3> QED
      BY <1>4, <3>1, <3>2, <3>3, BoundMerging
  <2>13. AtPlace(w) /\ Merging(w) /\ Clause(w) = Clause(x) /\ SamePlace(y, w)
    <3>1. Cursor(z) /\ z.rows = y.rows /\ z.stmt = y.stmt /\ z.k = y.k /\ z.r = y.r
      BY <2>7, <2>10 DEF Cursor
    <3>2. z.base = y.base /\ z.curcid = y.curcid /\ z.created = y.created /\ z.cid = y.cid
      BY <2>7, <2>10 DEF Cursor
    <3>3. SamePlace(y, z)
      BY <3>1, <3>2 DEF SamePlace
    <3>4. AtPlace(z) /\ z.cid \in Nat
      BY <1>3, <2>11, <2>12, <3>1, <3>2, <3>3, PlaceSame
    <3>5. Cursor(w) /\ SamePlace(z, w)
      BY <2>8, <3>4, IncrementedPlace
    <3>6. SamePlace(y, w)
      BY <3>3, <3>5 DEF SamePlace
    <3> QED
      BY <2>12, <3>5, <3>6, PlaceSame, MergingSame
  <2>14. PICK v : GoesOn(x, v) /\ tx' = [tx EXCEPT ![t] = v]
    <3>1. ASSUME NEW a \in {y, w} PROVE GoesOn(x, AfterClause(a))
      <4>1. AtPlace(a) /\ Merging(a) /\ Clause(a) = Clause(x) /\ a.base = x.base /\ a.created = x.created
        BY <2>11, <2>12, <2>13 DEF SamePlace
      <4>2. PICK v : v = AfterClause(a)
        OBVIOUS
      <4>3. GoesOn(a, v)
        BY <1>2, <4>1, <4>2, AfterGoesOn
      <4> QED
        BY <4>1, <4>2, <4>3 DEF GoesOn
    <3> QED
      BY <2>9, <3>1
  <2>15. PICK n \in Nat : PathStep(t, n, m) /\ Added(new, n, m)
    <3>1. PICK c : MadePath(t, c, new, m)
      BY <2>3
    <3>2. heap' = Joined(heap, new)
      BY <2>9 DEF Joined
    <3> QED
      BY <3>1, <3>2, AddedPaths
  <2>16. \A j \in n + 1 .. n + m : ~IsPath(j)'
    BY <2>3, <2>15 DEF IsPath, Added
  <2> QED
    BY <1>1, <1>2, <2>9, <2>14, <2>15, <2>16, GoesOnKeeps
<1> QED
  BY <1>5, <1>6

\* The rows that replace one are in its place, and the others stay.
LEMMA ReplacedIs ==
    ASSUME NEW f, Len(f) \in Nat, Lists(f, Len(f)), NEW r \in 1 .. Len(f),
           NEW m \in Nat, m > 0, NEW h, Lists(h, m), NEW g, g = Replaced(f, r, h)
    PROVE  /\ \A i \in 1 .. r - 1 : g[i] = f[i]
           /\ g[r] = h[1]
           /\ \A i \in 1 .. Len(g) : \/ \E j \in 1 .. Len(f) : j # r /\ g[i] = f[j]
                                     \/ \E j \in 1 .. m : g[i] = h[j]
<1>1. PICK n \in Nat : n = Len(f) /\ r \in 1 .. n
  OBVIOUS
<1>2. PICK S : S = {f[i] : i \in (1 .. n) \ {r}} \cup {h[i] : i \in 1 .. m}
  OBVIOUS
<1>3. h \in Seq(S) /\ Len(h) = m
  <2>1. h \in Seq({h[i] : i \in 1 .. m}) /\ Len(h) = m
    BY ListIs
  <2> QED
    BY <1>2, <2>1
<1>4. PICK a : a = SubSeq(f, 1, r - 1)
  OBVIOUS
<1>5. PICK b : b = SubSeq(f, r + 1, n)
  OBVIOUS
<1>6. a \in Seq(S) /\ Len(a) = r - 1 /\ \A i \in 1 .. r - 1 : a[i] = f[i]
  <2>1. PICK e \in Int : e = r - 1
    BY <1>1
  <2>2. \A i \in 1 .. e : f[i] \in S
    BY <1>1, <1>2, <2>1
  <2>3. /\ SubSeq(f, 1, e) \in Seq(S) /\ Len(SubSeq(f, 1, e)) = IF 1 <= e THEN e - 1 + 1 ELSE 0
        /\ \A i \in 1 .. e - 1 + 1 : SubSeq(f, 1, e)[i] = f[1 + i - 1]
    BY <2>2, SubSeqProperties
  <2>4. (IF 1 <= e THEN e - 1 + 1 ELSE 0) = e
    BY <1>1, <2>1
  <2>5. \A i \in 1 .. e : i \in 1 .. e - 1 + 1 /\ 1 + i - 1 = i
    BY <2>1
  <2> QED
    BY <1>4, <2>1, <2>3, <2>4, <2>5
<1>7. b \in Seq(S)
  <2>1. PICK e \in Int : e = r + 1
    BY <1>1
  <2>2. \A i \in e .. n : f[i] \in S
    BY <1>1, <1>2, <2>1
  <2>3. SubSeq(f, e, n) \in Seq(S)
    BY <2>2, SubSeqProperties
  <2> QED
    BY <1>5, <2>1, <2>3
<1>8. PICK c : c = a \o h
  OBVIOUS
<1>9. c \in Seq(S) /\ Len(c) = (r - 1) + m
  BY <1>3, <1>6, <1>8, ConcatProperties
<1>10. (\A i \in 1 .. r - 1 : c[i] = f[i]) /\ c[r] = h[1]
  <2>1. \A i \in 1 .. Len(a) + Len(h) : (a \o h)[i] = IF i <= Len(a) THEN a[i] ELSE h[i - Len(a)]
    BY <1>3, <1>6, ConcatProperties
  <2>2. PICK l \in Nat : l = r - 1 /\ l + m \in Nat /\ r = l + 1
    BY <1>1
  <2>3. \A i \in 1 .. l + m : c[i] = IF i <= l THEN a[i] ELSE h[i - l]
    BY <1>3, <1>6, <1>8, <2>1, <2>2
  <2>4. r \in 1 .. l + m /\ ~(r <= l) /\ r - l = 1 /\ \A i \in 1 .. l : i \in 1 .. l + m /\ i <= l
    BY <2>2
  <2> QED
    BY <1>6, <2>2, <2>3, <2>4
<1>11. g = c \o b
  BY <1>1, <1>4, <1>5, <1>8 DEF Replaced
<1>12. PICK k \in Nat : k = Len(b)
  BY <1>7
<1>13. g \in Seq(S) /\ Len(g) = (r - 1) + m + k
  <2>1. c \o b \in Seq(S) /\ Len(c \o b) = Len(c) + Len(b)
    BY <1>7, <1>9, ConcatProperties
  <2> QED
    BY <1>9, <1>11, <1>12, <2>1
<1>14. \A i \in 1 .. (r - 1) + m : g[i] = c[i]
  <2>1. \A i \in 1 .. Len(c) + Len(b) : (c \o b)[i] = IF i <= Len(c) THEN c[i] ELSE b[i - Len(c)]
    BY <1>7, <1>9, ConcatProperties
  <2>2. PICK l \in Nat : l = (r - 1) + m
    BY <1>1
  <2>3. \A i \in 1 .. l + k : g[i] = IF i <= l THEN c[i] ELSE b[i - l]
    BY <1>9, <1>11, <1>12, <2>1, <2>2
  <2>4. \A i \in 1 .. l : i \in 1 .. l + k /\ i <= l
    BY <1>12, <2>2
  <2> QED
    BY <2>2, <2>3, <2>4
<1>15. (\A i \in 1 .. r - 1 : g[i] = f[i]) /\ g[r] = h[1]
  <2>1. r \in 1 .. (r - 1) + m /\ \A i \in 1 .. r - 1 : i \in 1 .. (r - 1) + m
    BY <1>1
  <2> QED
    BY <1>10, <1>14, <2>1
<1>16. \A i \in 1 .. Len(g) : g[i] \in S
  BY <1>13
<1>17. ASSUME NEW i \in 1 .. Len(g)
       PROVE  (\E j \in 1 .. n : j # r /\ g[i] = f[j]) \/ (\E j \in 1 .. m : g[i] = h[j])
  <2>1. g[i] \in S
    BY <1>16
  <2> QED
    BY <1>2, <2>1
<1> QED
  BY <1>1, <1>15, <1>17

\* The row of a cursor was replaced by others, in which the variable of MERGE is bound.
LEMMA ReplacedMerging ==
    ASSUME NEW x, AtPlace(x), Merging(x), Lists(x.rows, Len(x.rows)),
           NEW m \in Nat, m > 0, NEW h, Lists(h, m),
           \A n \in 1 .. m : h[n] \in [Vars -> Nat \cup {Null}] /\ h[n].m # Null,
           NEW y, Cursor(y), SameClause(x, y), y.created = x.created, y.rows = Replaced(x.rows, x.r, h)
    PROVE  AtPlace(y) /\ Merging(y) /\ CurrentRow(y).m # Null
<1>0. PICK f : f = x.rows
  OBVIOUS
<1>a. PICK l \in Nat : l = Len(f) /\ x.r \in 1 .. l
  BY <1>0 DEF AtPlace
<1>b. PICK r \in 1 .. l : r = x.r
  BY <1>a
<1>1. l = Len(f) /\ r = x.r /\ f = x.rows
  BY <1>0, <1>a, <1>b
<1>2. RowsOK(x) /\ LooksBack(x) /\ MadeHere(x) /\ BoundSoFar(x)
  BY DEF Merging
<1>3. PICK g : g = Replaced(f, r, h)
  OBVIOUS
<1>4. Lists(f, Len(f)) /\ r \in 1 .. Len(f) /\ Len(f) \in Nat
  BY <1>1
<1>5. PICK d \in Nat : d = Len(g) /\ r \in 1 .. d
  <2>1. Len(g) \in Nat /\ r \in 1 .. Len(g)
    BY <1>3, <1>4, RowsReplaced
  <2> QED
    BY <2>1
<1>6. /\ \A i \in 1 .. r - 1 : g[i] = f[i]
      /\ g[r] = h[1]
      /\ \A i \in 1 .. d : (\E j \in 1 .. l : j # r /\ g[i] = f[j]) \/ (\E j \in 1 .. m : g[i] = h[j])
  <2>1. (\A i \in 1 .. r - 1 : g[i] = f[i]) /\ g[r] = h[1]
    BY <1>3, <1>4, ReplacedIs
  <2>2. \A i \in 1 .. Len(g) : \/ \E j \in 1 .. Len(f) : j # r /\ g[i] = f[j]
                               \/ \E j \in 1 .. m : g[i] = h[j]
    BY <1>3, <1>4, ReplacedIs
  <2> QED
    BY <1>1, <1>5, <2>1, <2>2
<1>7. y.rows = g /\ y.stmt = x.stmt /\ y.k = x.k /\ y.r = r /\ y.base = x.base /\ y.curcid = x.curcid
  BY <1>1, <1>3 DEF SameClause
<1>8. Clauses(y) = Clauses(x) /\ StageEnd(y) = StageEnd(x)
  BY <1>7 DEF Clauses, StageEnd, Eager
<1>9. AtPlace(y)
  <2>1. AtClause(y)
    BY <1>7, <1>8 DEF AtPlace, AtClause
  <2> QED
    BY <1>5, <1>7, <2>1 DEF AtPlace
<1>10. AllBound(x) => AllBound(y)
  <2> SUFFICES ASSUME AllBound(x), NEW i \in 1 .. d PROVE g[i].m # Null
    BY <1>5, <1>7 DEF AllBound
  <2>1. CASE \E j \in 1 .. l : j # r /\ g[i] = f[j]
    BY <1>1, <2>1 DEF AllBound
  <2>2. CASE \E j \in 1 .. m : g[i] = h[j]
    BY <2>2
  <2> QED
    BY <1>6, <2>1, <2>2
<1>11. ~y.stmt.match => Len(y.rows) = 1 \/ AllBound(y)
  <2> SUFFICES ASSUME ~y.stmt.match, ~AllBound(x) PROVE AllBound(y)
    BY <1>10
  <2>1. l = 1
    BY <1>1, <1>2, <1>7 DEF RowsOK
  <2>2. r = 1 /\ \A j \in 1 .. 1 : j = 1
    BY <2>1
  <2> QED
    BY <1>5, <1>6, <1>7, <2>1, <2>2 DEF AllBound
<1>12. RowsOK(y)
  <2>1. \A n \in 1 .. Len(y.rows) : y.rows[n] \in [Vars -> Nat \cup {Null}]
    <3>1. \A n \in 1 .. l : f[n] \in [Vars -> Nat \cup {Null}]
      BY <1>1, <1>2 DEF RowsOK
    <3>2. ASSUME NEW i \in 1 .. d PROVE g[i] \in [Vars -> Nat \cup {Null}]
      <4>1. CASE \E j \in 1 .. l : j # r /\ g[i] = f[j]
        BY <3>1, <4>1
      <4>2. CASE \E j \in 1 .. m : g[i] = h[j]
        BY <4>2
      <4> QED
        BY <1>6, <4>1, <4>2
    <3> QED
      BY <1>5, <1>7, <3>2
  <2>2. \A p \in y.created : p.id \in Nat /\ p.key = <<p.key[1], p.key[2], p.key[3]>>
    BY <1>2 DEF RowsOK
  <2>3. \A k \in DOMAIN y.stmt.clauses :
            y.stmt.clauses[k].op = "merge" => y.stmt.clauses[k].from \in Vars \cup {None}
    BY <1>2, <1>7 DEF RowsOK
  <2> QED
    BY <1>11, <2>1, <2>2, <2>3 DEF RowsOK
<1>13. LooksBack(y)
  BY <1>2, <1>7, <1>8, <1>10 DEF LooksBack
<1>14. MadeHere(y)
  BY <1>2, <1>7, <1>8, <1>10 DEF MadeHere
<1>15. BoundSoFar(y)
  BY <1>1, <1>2, <1>6, <1>7, <1>8 DEF BoundSoFar
<1>16. CurrentRow(y).m # Null
  <2>1. 1 \in 1 .. m
    OBVIOUS
  <2> QED
    BY <1>6, <1>7, <2>1 DEF CurrentRow
<1> QED
  BY <1>9, <1>12, <1>13, <1>14, <1>15, <1>16 DEF Merging

\* The members of a set of numbers up to i, and how many they are.
LEMMA UpToIs ==
    ASSUME NEW n \in Nat, NEW S \in SUBSET (1 .. n), NEW i \in 0 .. n,
           NEW T, T = {k \in S : k <= i}
    PROVE  IsFiniteSet(T) /\ Cardinality(T) \in Nat
<1>1. IsFiniteSet(1 .. n)
  BY FS_Interval
<1>2. T \in SUBSET (1 .. n)
  OBVIOUS
<1>3. IsFiniteSet(T)
  BY <1>1, <1>2, FS_Subset
<1> QED
  BY <1>3, FS_CardinalityType

\* The numbers of a set in order are members of the set, and none is left out.
LEMMA InOrderHas ==
    ASSUME NEW n \in Nat, NEW S \in SUBSET (1 .. n)
    PROVE  \E m \in Nat : /\ Len(InOrder(S)) = m /\ m <= n /\ (m = 0 => S = {})
                          /\ \A j \in 1 .. m : InOrder(S)[j] \in S
<1>1. IsFiniteSet(1 .. n) /\ Cardinality(1 .. n) = n
  <2>1. IsFiniteSet(1 .. n) /\ Cardinality(1 .. n) = IF 1 > n THEN 0 ELSE n - 1 + 1
    BY FS_Interval
  <2>2. (IF 1 > n THEN 0 ELSE n - 1 + 1) = n
    OBVIOUS
  <2> QED
    BY <2>1, <2>2
<1>2. IsFiniteSet(S) /\ Cardinality(S) <= n
  BY <1>1, FS_Subset
<1>3. PICK m \in Nat : m = Cardinality(S)
  BY <1>2, FS_CardinalityType
<1>4. PICK f : f = InOrder(S)
  OBVIOUS
<1>5. f = [j \in 1 .. m |-> CHOOSE i \in S : Cardinality({k \in S : k <= i}) = j]
  BY <1>3, <1>4 DEF InOrder
<1>6. Lists(f, m)
  BY <1>5 DEF Lists
<1>7. Len(f) = m
  BY <1>6, ListIs
<1>8. m = 0 => S = {}
  BY <1>2, <1>3, FS_EmptySet, Zenon
<1>9. ASSUME NEW j \in 1 .. m PROVE f[j] \in S
  <2>1. PICK C : C = [i \in 0 .. n |-> Cardinality({k \in S : k <= i})]
    OBVIOUS
  <2>2. \A i \in 0 .. n : C[i] = Cardinality({k \in S : k <= i}) /\ C[i] \in Nat
    <3> TAKE i \in 0 .. n
    <3>1. Cardinality({k \in S : k <= i}) \in Nat
      BY UpToIs
    <3> QED
      BY <2>1, <3>1
  <2>3. C[0] = 0
    <3>1. \A k \in S : ~(k <= 0)
      OBVIOUS
    <3>2. {k \in S : k <= 0} = {}
      BY <3>1, Zenon
    <3>3. 0 \in 0 .. n
      OBVIOUS
    <3> QED
      BY <2>2, <3>2, <3>3, FS_EmptySet, Zenon
  <2>4. C[n] = m
    <3>1. \A k \in S : k <= n
      OBVIOUS
    <3>2. {k \in S : k <= n} = S
      BY <3>1, Zenon
    <3>3. n \in 0 .. n
      OBVIOUS
    <3> QED
      BY <1>3, <2>2, <3>2, <3>3
  <2>5. PICK R : R = {i \in 0 .. n : C[i] >= j}
    OBVIOUS
  <2>6. R \in SUBSET Nat /\ R # {}
    <3>1. n \in 0 .. n /\ C[n] >= j
      BY <2>4
    <3> QED
      BY <2>5, <3>1
  <2>7. PICK i \in R : \A k \in R : i <= k
    BY <2>6, MinIs
  <2>8. i \in 0 .. n /\ C[i] >= j /\ i # 0
    BY <2>3, <2>5, <2>7
  <2>9. PICK d \in 0 .. n : d = i - 1 /\ i = d + 1
    BY <2>8
  <2>10. C[d] < j
    <3>1. d \notin R
      BY <2>7, <2>8, <2>9
    <3>2. ~(C[d] >= j)
      BY <2>5, <3>1, Zenon
    <3>3. PICK p \in Nat : p = C[d]
      BY <2>2
    <3> QED
      BY <3>2, <3>3
  <2>11. PICK A, B : A = {k \in S : k <= d} /\ B = {k \in S : k <= i}
    OBVIOUS
  <2>12. IsFiniteSet(A) /\ C[d] = Cardinality(A) /\ C[i] = Cardinality(B)
    BY <2>2, <2>8, <2>11, UpToIs
  <2>13. i \in S
    <3> SUFFICES ASSUME i \notin S PROVE FALSE
      OBVIOUS
    <3>1. \A k \in S : k <= i <=> k <= d
      BY <2>8, <2>9
    <3>2. A = B
      BY <2>11, <3>1
    <3>3. PICK p \in Nat : p = C[d] /\ p = C[i]
      BY <2>2, <2>12, <3>2
    <3> QED
      BY <2>8, <2>10, <3>3
  <2>14. C[i] = C[d] + 1
    <3>1. \A k \in S : k <= i <=> (k <= d \/ k = i)
      BY <2>8, <2>9
    <3>2. B = A \cup {i}
      BY <2>11, <2>13, <3>1
    <3>3. i \notin A
      BY <2>8, <2>9, <2>11
    <3> QED
      BY <2>12, <3>2, <3>3, FS_AddElement
  <2>15. Cardinality({k \in S : k <= i}) = j
    <3>1. PICK p \in Nat, q \in Nat : p = C[d] /\ q = C[i] /\ q = p + 1 /\ p < j /\ q >= j
      BY <2>2, <2>8, <2>10, <2>14
    <3>2. q = j
      BY <3>1
    <3> QED
      BY <2>2, <2>8, <3>1, <3>2
  <2>16. f[j] = CHOOSE h \in S : Cardinality({k \in S : k <= h}) = j
    BY <1>5
  <2> QED
    BY <2>13, <2>15, <2>16
<1> QED
  BY <1>2, <1>3, <1>4, <1>7, <1>8, <1>9

\* MERGE goes on with what it has found.
LEMMA MergeFoundGoesOn ==
    ASSUME IInv, DInv, MInv, NEW t \in Txns, MergeFound(t)
    PROVE  MInv'
<1>1. PICK x : x = tx[t]
  OBVIOUS
<1>2. CursorOK(t, x) /\ HeapInv /\ x.pc = "row"
  <2>1. CursorOK(t, x) /\ HeapInv
    BY <1>1, CursorIs
  <2>2. x.pc = "row"
    BY <1>1, Zenon DEF MergeFound
  <2> QED
    BY <2>1, <2>2
<1>3. AtPlace(x) /\ Merging(x) /\ Lists(x.rows, Len(x.rows))
  BY <1>1, <1>2, PlaceHas
<1>4. PICK row, only, M : row = CurrentRow(x) /\ only = (~x.stmt.match /\ Len(Clauses(x)) = 1) /\ M = Matches(t)
  OBVIOUS
<1>5. PICK h \in Nat : h = Len(M) /\ \A n \in 1 .. h : M[n] \in DOMAIN heap
  <2>1. PICK n \in Nat : DOMAIN heap = 1 .. n
    BY <1>2, HeapHas
  <2>2. PICK S \in SUBSET (DOMAIN heap) : M = InOrder(S)
    BY <1>4 DEF Matches
  <2>3. S \in SUBSET (1 .. n)
    BY <2>1
  <2>4. PICK m \in Nat : Len(InOrder(S)) = m /\ \A j \in 1 .. m : InOrder(S)[j] \in S
    BY <2>3, InOrderHas
  <2> QED
    BY <2>2, <2>4
<1>6. PICK l \in Nat : l = (IF only THEN Min({1, Len(M)}) ELSE Len(M)) /\ l <= h
  <2>1. {1, h} \in SUBSET Nat /\ {1, h} # {} /\ h \in {1, h}
    OBVIOUS
  <2>2. PICK T : T = {1, h}
    OBVIOUS
  <2>3. Min(T) \in T /\ Min(T) <= h
    BY <2>1, <2>2, MinIs
  <2>4. PICK a \in Nat : a = Min({1, h}) /\ a <= h
    BY <2>1, <2>2, <2>3
  <2> QED
    BY <1>5, <2>4
<1>7. PICK found : found = IF row.m # Null THEN <<row>>
                           ELSE [n \in 1 .. l |-> [row EXCEPT !.m = heap[M[n]].id]]
  OBVIOUS
<1>8. PICK y, u : /\ u = IF row.m = Null /\ x.k = StageEnd(x)
                          THEN x.r + Len(found) - 1 ELSE x.upto
                  /\ y = [x EXCEPT !.rows = Replaced(x.rows, x.r, found), !.upto = u]
  BY Zenon
<1>9. found # <<>> /\ tx' = [tx EXCEPT ![t] = ThenSet(y, Clause(x).on_match)]
  <2> DEFINE crow == CurrentRow(tx[t])
             whole == ~tx[t].stmt.match /\ Len(Clauses(tx[t])) = 1
             hits == IF crow.m # Null THEN <<crow>>
                     ELSE [n \in 1 .. (IF whole THEN Min({1, Len(Matches(t))}) ELSE Len(Matches(t))) |->
                              [crow EXCEPT !.m = heap[Matches(t)[n]].id]]
             g == SubSeq(tx[t].rows, 1, tx[t].r - 1) \o hits \o SubSeq(tx[t].rows, tx[t].r + 1, Len(tx[t].rows))
             w == IF crow.m = Null /\ tx[t].k = StageEnd(tx[t])
                  THEN tx[t].r + Len(hits) - 1 ELSE tx[t].upto
  <2>1. hits # <<>> /\ tx' = [tx EXCEPT ![t] = ThenSet([tx[t] EXCEPT !.rows = g, !.upto = w], Clause(tx[t]).on_match)]
    BY Zenon DEF MergeFound
  <2>2. hits = found
    BY <1>1, <1>4, <1>6, <1>7, Zenon
  <2>3. g = Replaced(x.rows, x.r, found) /\ w = u
    BY <1>1, <1>4, <1>8, <2>2, Zenon DEF Replaced
  <2> HIDE DEF g, w, hits
  <2> QED
    BY <1>1, <1>8, <2>1, <2>2, <2>3
<1>10. heap' = heap /\ status' = status
  BY Zenon DEF MergeFound
<1>11. row \in [Vars -> Nat \cup {Null}]
  <2>1. RowsOK(x) /\ x.r \in 1 .. Len(x.rows)
    BY <1>3 DEF Merging, AtPlace
  <2> QED
    BY <1>4, <2>1 DEF RowsOK, CurrentRow
<1>12. PICK m \in Nat : /\ m > 0 /\ Lists(found, m)
                        /\ \A n \in 1 .. m : found[n] \in [Vars -> Nat \cup {Null}] /\ found[n].m # Null
  <2>1. CASE row.m # Null
    <3>1. found = <<row>>
      BY <1>7, <2>1
    <3>2. Lists(found, 1) /\ \A n \in 1 .. 1 : found[n] = row
      BY <3>1 DEF Lists
    <3> QED
      BY <1>11, <2>1, <3>2
  <2>2. CASE row.m = Null
    <3>1. Lists(found, l)
      BY <1>7, <2>2 DEF Lists
    <3>2. l > 0
      BY <1>9, <3>1, SomeRows
    <3>3. ASSUME NEW n \in 1 .. l PROVE found[n] \in [Vars -> Nat \cup {Null}] /\ found[n].m # Null
      <4>1. M[n] \in DOMAIN heap
        BY <1>5, <1>6
      <4>2. PICK v \in Nat : v = heap[M[n]].id
        <5>1. PICK j \in DOMAIN heap : j = M[n]
          BY <4>1
        <5>2. VersionOK(heap[j], next_id)
          BY <1>2 DEF HeapInv
        <5> QED
          BY <5>1, <5>2 DEF VersionOK
      <4>3. found[n] = [row EXCEPT !.m = v]
        BY <1>7, <2>2, <4>2
      <4>4. "m" \in Vars /\ Null \notin Nat
        BY RowAssumption
      <4> QED
        BY <1>11, <4>3, <4>4
    <3> QED
      BY <3>1, <3>2, <3>3
  <2> QED
    BY <2>1, <2>2
<1>13. Cursor(x)
  BY <1>3 DEF AtPlace, AtClause
<1>14. PICK rows : rows = Replaced(x.rows, x.r, found) /\ y = [x EXCEPT !.rows = rows, !.upto = u]
  BY <1>8, Zenon
<1>15. Cursor(y) /\ y.rows = rows /\ y.stmt = x.stmt /\ y.k = x.k /\ y.r = x.r
  BY <1>13, <1>14 DEF Cursor
<1>16. y.base = x.base /\ y.curcid = x.curcid /\ y.created = x.created
  BY <1>13, <1>14 DEF Cursor
<1>17. SameClause(x, y) /\ y.rows = Replaced(x.rows, x.r, found)
  BY <1>14, <1>15, <1>16 DEF SameClause
<1>18. AtPlace(y) /\ Merging(y) /\ CurrentRow(y).m # Null
  BY <1>3, <1>12, <1>15, <1>16, <1>17, ReplacedMerging
<1>19. PICK z : z = ThenSet(y, Clause(x).on_match) /\ tx' = [tx EXCEPT ![t] = z]
  BY <1>9
<1>20. GoesOn(y, z)
  BY <1>18, <1>19, ThenSetGoesOn
<1>21. GoesOn(x, z)
  BY <1>16, <1>20 DEF GoesOn
<1> QED
  BY <1>1, <1>2, <1>10, <1>19, <1>21, QuietGoesOn

\* The pattern of the MERGE that t is at.
PatternOf(x) == <<PathKey(x)[2], Clause(x).val>>

\* A path of this pattern that t has made in this statement is found among the others.
LEMMA MadeIsDuplicate ==
    ASSUME IInv, DInv, MInv, NEW t \in Txns, NEW x, x = tx[t], x.pc = "row", Clause(x).op = "merge",
           CurrentRow(x).m = Null, Duplicates(x) = {},
           NEW i \in DOMAIN heap, IsPath(i), heap[i].xmin = t, heap[i].pat = PatternOf(x)
    PROVE  heap[i].cmin < x.base
<1>1. AtPlace(x) /\ Merging(x) /\ Remembered(t)
  BY PlaceHas
<1>2. PICK c \in Nat, b \in Nat : c = heap[i].cmin /\ b = x.base
  BY <1>1, VersionTypes DEF AtPlace, IInv, HeapInv, VersionOK
<1> SUFFICES ASSUME c >= b PROVE FALSE
  BY <1>2
<1>3. PICK p \in x.created : p.key[2] = heap[i].pat[1] /\ p.key[3] = heap[i].pat[2]
  BY <1>1, <1>2 DEF Remembered
<1>4. ~AllBound(x)
  BY <1>1 DEF AtPlace, AllBound, CurrentRow
<1>5. x.stmt.match /\ p.key[1] = StageEnd(x)
  BY <1>1, <1>3, <1>4 DEF Merging, MadeHere
<1>6. p.key[1] = x.k
  BY <1>1, <1>5, MergeIsStageEnd
<1>7. p.key = <<p.key[1], p.key[2], p.key[3]>>
  BY <1>1, <1>3 DEF Merging, RowsOK
<1>8. p.key[2] = PathKey(x)[2] /\ p.key[3] = Clause(x).val
  BY <1>3 DEF PatternOf
<1>9. p.key = PathKey(x)
  <2>1. PICK f : f = IF Clause(x).from = None THEN None ELSE CurrentRow(x)[Clause(x).from]
    OBVIOUS
  <2>2. PathKey(x) = <<x.k, f, Clause(x).val>>
    BY <2>1 DEF PathKey
  <2> QED
    BY <1>6, <1>7, <1>8, <2>2
<1> QED
  BY <1>3, <1>9 DEF Duplicates

\* A MERGE that finds nothing makes a path beside one that it can see only if this
\* one was ended.
LEMMA MissingIsEnded ==
    ASSUME IInv, DInv, MInv, NEW t \in Txns, NEW x, x = tx[t], x.pc = "row", Clause(x).op = "merge",
           CurrentRow(x).m = Null, Duplicates(x) = {}, Matches(t) = <<>>,
           NEW i \in DOMAIN heap, IsPath(i), heap[i].by \in Known(t), heap[i].pat = PatternOf(x)
    PROVE  \E n \in Path(i) : heap[n].xmax \in Known(t)
<1> SUFFICES ASSUME \A n \in Path(i) : heap[n].xmax \notin Known(t) PROVE FALSE
  OBVIOUS
<1>1. AtPlace(x) /\ Merging(x)
  BY PlaceHas
<1>2. PICK b \in Nat, d \in Int : b = x.base /\ d = x.curcid
  BY <1>1 DEF AtPlace, AtClause
<1>3. d - 1 >= b
  <2>1. ~AllBound(x)
    BY <1>1 DEF AtPlace, AllBound, CurrentRow
  <2>2. \A k \in x.k .. Len(Clauses(x)) : Clauses(x)[k].op = "merge" => x.curcid + (k - x.k) >= x.base + 1
    BY <1>1, <2>1 DEF Merging, LooksBack
  <2>3. List(Clauses(x)) /\ x.k \in 1 .. Len(Clauses(x))
    BY <1>1 DEF AtPlace, AtClause, IsQuery, Clauses
  <2>4. PICK n \in Nat : n = Len(Clauses(x)) /\ x.k \in 1 .. n
    BY <2>3, Zenon DEF List
  <2>5. PICK k \in x.k .. n : k = x.k
    BY <2>4
  <2>6. Clauses(x)[k].op = "merge"
    BY <2>5 DEF Clause, Clauses
  <2>7. x.curcid + (k - x.k) >= x.base + 1
    BY <2>2, <2>4, <2>6
  <2>8. k \in Nat /\ d + (k - k) >= b + 1
    BY <1>2, <2>4, <2>5, <2>7
  <2> QED
    BY <2>8
<1>4. /\ heap[i].by = heap[i].xmin /\ IsVertex(heap[i]) /\ heap[i].val = heap[i].pat[2]
      /\ heap[i].pat[1] # None =>
            /\ i + 1 \in DOMAIN heap /\ heap[i + 1].ends = <<heap[i].pat[1], heap[i].id>>
            /\ heap[i + 1].xmin = heap[i].xmin /\ heap[i + 1].cmin = heap[i].cmin
  BY DEF MInv, Paths, PatternOK
<1>5. heap[i].pat[1] = PathKey(x)[2] /\ heap[i].pat[2] = Clause(x).val
  BY DEF PatternOf
<1>6. PICK c \in Nat : c = heap[i].cmin
  BY DEF IInv, HeapInv, VersionOK
<1>7. heap[i].xmin = t => c < d - 1
  <2>1. heap[i].xmin = t => c < b
    BY <1>2, <1>6, MadeIsDuplicate
  <2> QED
    BY <1>3, <2>1
<1>8. ASSUME NEW n \in Path(i), n \in DOMAIN heap, heap[n].xmin = heap[i].xmin, heap[n].cmin = heap[i].cmin
      PROVE  VisibleAt(t, x.curcid - 1, heap[n])
  <2>1. heap[n].xmax # t /\ heap[n].xmax \notin tx[t].snap
    BY DEF Known
  <2>2. heap[n].xmin # t => heap[n].xmin \in tx[t].snap
    BY <1>4, <1>8 DEF Known
  <2>3. heap[n].xmin = t => heap[n].cmin < x.curcid - 1
    BY <1>2, <1>6, <1>7, <1>8
  <2> QED
    BY <2>1, <2>2, <2>3 DEF VisibleAt, Sees
<1>9. VisibleAt(t, x.curcid - 1, heap[i])
  <2>1. i \in Path(i)
    BY DEF Path
  <2> QED
    BY <1>8, <2>1
<1>10. Clause(x).from # None =>
           \E j \in DOMAIN heap : /\ heap[j].ends = <<CurrentRow(x)[Clause(x).from], heap[i].id>>
                                  /\ VisibleAt(t, x.curcid - 1, heap[j])
  <2> SUFFICES ASSUME Clause(x).from # None
               PROVE  \E j \in DOMAIN heap : /\ heap[j].ends = <<CurrentRow(x)[Clause(x).from], heap[i].id>>
                                             /\ VisibleAt(t, x.curcid - 1, heap[j])
    OBVIOUS
  <2>1. heap[i].pat[1] = CurrentRow(x)[Clause(x).from]
    <3>1. PICK f : f = CurrentRow(x)[Clause(x).from]
      OBVIOUS
    <3>2. PathKey(x) = <<x.k, f, Clause(x).val>>
      BY <3>1 DEF PathKey
    <3> QED
      BY <1>5, <3>1, <3>2
  <2>2. heap[i].pat[1] # None
    <3>1. Clause(x).from \in Vars
      <4>1. x.k \in DOMAIN x.stmt.clauses
        BY <1>1 DEF AtPlace, AtClause, IsQuery, List, Clauses
      <4>2. x.stmt.clauses[x.k].op = "merge" => x.stmt.clauses[x.k].from \in Vars \cup {None}
        BY <1>1, <4>1 DEF Merging, RowsOK
      <4> QED
        BY <4>2 DEF Clause
    <3>2. CurrentRow(x) \in [Vars -> Nat \cup {Null}]
      BY <1>1 DEF Merging, RowsOK, AtPlace, CurrentRow
    <3> QED
      BY <2>1, <3>1, <3>2, RowAssumption
  <2>3. i + 1 \in Path(i) /\ i + 1 \in DOMAIN heap
    BY <1>4, <2>2 DEF Path
  <2>4. VisibleAt(t, x.curcid - 1, heap[i + 1])
    BY <1>4, <1>8, <2>2, <2>3
  <2> QED
    BY <1>4, <2>1, <2>2, <2>3, <2>4
<1>11. PICK S \in SUBSET (DOMAIN heap) : i \in S /\ InOrder(S) = <<>>
  <2> DEFINE Seen(j) == VisibleAt(t, tx[t].curcid - 1, heap[j])
             Hit(j) ==
                 /\ IsVertex(heap[j]) /\ heap[j].val = Clause(tx[t]).val /\ Seen(j)
                 /\ Clause(tx[t]).from # None =>
                        \E e \in DOMAIN heap :
                            heap[e].ends = <<CurrentRow(tx[t])[Clause(tx[t]).from], heap[j].id>> /\ Seen(e)
             H == {j \in DOMAIN heap : Hit(j)}
  <2>1. InOrder(H) = <<>>
    BY Zenon DEF Matches
  <2>2. Hit(i)
    BY <1>4, <1>5, <1>9, <1>10
  <2>3. H \in SUBSET (DOMAIN heap) /\ i \in H
    BY <2>2, Zenon
  <2> HIDE DEF H
  <2> QED
    BY <2>1, <2>3
<1>12. PICK n \in Nat : DOMAIN heap = 1 .. n
  BY HeapHas DEF IInv
<1>13. S \in SUBSET (1 .. n)
  BY <1>12
<1>14. PICK m \in Nat : /\ Len(InOrder(S)) = m /\ m <= n /\ (m = 0 => S = {})
                        /\ \A j \in 1 .. m : InOrder(S)[j] \in S
  BY <1>13, InOrderHas
<1>15. m = 0
  BY <1>11, <1>14
<1> QED
  BY <1>11, <1>14, <1>15

\* The components of a pair.
LEMMA PairIs ==
    ASSUME NEW a, NEW b, NEW f, f = <<a, b>>
    PROVE  f[1] = a /\ f[2] = b
  OBVIOUS

\* The paths among the m versions after n others are of one pattern.
NewPattern(n, m, pat) == \A j \in n + 1 .. n + m : IsPath(j)' => heap'[j].pat = pat

\* The m versions after n others are a path of MERGE: the vertex a, and the edge b
\* that leads to it if the path starts at a vertex.
NewPathAt(t, n, m, a, b, from, val) ==
    /\ a = n + 1 /\ b = a + 1 /\ (from = None => m = 1) /\ (from # None => m = 2)
    /\ heap'[a].xmin = t /\ heap'[a].by = t /\ heap'[a].see = Known(t)
    /\ heap'[a].pat = <<from, val>> /\ heap'[a].ends = <<>> /\ heap'[a].val = val
    /\ from # None =>
          /\ heap'[b].xmin = t /\ heap'[b].by = t /\ heap'[b].pat = None
          /\ heap'[b].cmin = heap'[a].cmin /\ heap'[b].ends = <<from, heap'[a].id>>

\* It is what process_path has written.
LEMMA NewPathWritten ==
    ASSUME HeapInv, NEW t, NEW c, NEW from, NEW val, NEW new, new = NewPath(t, from, val, c, <<from, val>>),
           NEW m \in Nat, MadePath(t, c, new, m), NEW n \in Nat, Added(new, n, m)
    PROVE  NewPathAt(t, n, m, n + 1, n + 2, from, val)
<1>1. PICK pat : pat = <<from, val>>
  OBVIOUS
<1>2. /\ (from = None => Len(new) = 1) /\ (from # None => Len(new) = 2)
      /\ new[1].pat = pat /\ new[1].ends = <<>> /\ new[1].val = val
      /\ from # None => new[2].pat = None /\ new[2].ends = <<from, next_id>>
  <2>1. new = NewPath(t, from, val, c, pat)
    BY <1>1
  <2> QED
    BY <2>1, NewPathHas
<1>3. (from = None => m = 1) /\ (from # None => m = 2)
  BY <1>2 DEF MadePath
<1>4. n + 1 \in n + 1 .. n + m /\ (from # None => n + 2 \in n + 1 .. n + m)
  BY <1>3
<1>5. (n + 1) - n = 1 /\ (n + 2) - n = 2 /\ n + 2 = (n + 1) + 1
  OBVIOUS
<1>6. heap'[n + 1] = new[1] /\ (from # None => heap'[n + 2] = new[2])
  <2>1. \A j \in n + 1 .. n + m : heap'[j] = new[j - n]
    BY DEF Added
  <2> QED
    BY <1>4, <1>5, <2>1
<1>7. 1 \in 1 .. m /\ (from # None => 2 \in 1 .. m)
  BY <1>3
<1>8. NewVersion(new[1], t, next_id) /\ Made(t, c, new[1])
  <2>1. next_id + 1 - 1 = next_id
    BY DEF HeapInv
  <2> QED
    BY <1>7, <2>1 DEF MadePath
<1>9. from # None => \E id : NewVersion(new[2], t, id) /\ Made(t, c, new[2])
  BY <1>7 DEF MadePath
<1>10. new[1].xmin = t /\ new[1].by = t /\ new[1].see = Known(t) /\ new[1].cmin = c /\ new[1].id = next_id
  BY <1>8 DEF NewVersion, Made
<1>11. from # None => new[2].xmin = t /\ new[2].by = t /\ new[2].cmin = c
  BY <1>9 DEF NewVersion, Made
<1>12. PICK v, e : v = new[1] /\ e = new[2]
  OBVIOUS
<1>13. /\ heap'[n + 1].xmin = t /\ heap'[n + 1].by = t /\ heap'[n + 1].see = Known(t)
       /\ heap'[n + 1].pat = <<from, val>> /\ heap'[n + 1].ends = <<>> /\ heap'[n + 1].val = val
  BY <1>1, <1>2, <1>6, <1>10
<1>14. from # None =>
           /\ heap'[n + 2].xmin = t /\ heap'[n + 2].by = t /\ heap'[n + 2].pat = None
           /\ heap'[n + 2].cmin = heap'[n + 1].cmin /\ heap'[n + 2].ends = <<from, heap'[n + 1].id>>
  BY <1>2, <1>6, <1>10, <1>11
<1> QED
  BY <1>3, <1>5, <1>13, <1>14 DEF NewPathAt

\* Its pattern is the one of the vertex, and the edge has none.
LEMMA NewPathPattern ==
    ASSUME NEW t, NEW n \in Nat, NEW m \in Nat, NEW a, NEW b, NEW from, NEW val,
           NewPathAt(t, n, m, a, b, from, val), DOMAIN heap' = 1 .. n + m
    PROVE  /\ PatternOK(a)' /\ \A j \in n + 1 .. n + m : heap'[j].by = t
           /\ \A j \in n + 1 .. n + m : IsPath(j)' => j = a
<1>1. PICK p : p = <<from, val>>
  OBVIOUS
<1>2. p[1] = from /\ p[2] = val
  BY <1>1, PairIs
<1>3. /\ a = n + 1 /\ b = a + 1 /\ (from = None => m = 1) /\ (from # None => m = 2)
      /\ heap'[a].xmin = t /\ heap'[a].by = t /\ heap'[a].see = Known(t)
      /\ heap'[a].pat = p /\ heap'[a].ends = <<>> /\ heap'[a].val = val
  BY <1>1 DEF NewPathAt
<1>4. from # None =>
          /\ heap'[b].xmin = t /\ heap'[b].by = t /\ heap'[b].pat = None
          /\ heap'[b].cmin = heap'[a].cmin /\ heap'[b].ends = <<from, heap'[a].id>>
  BY DEF NewPathAt
<1>5. \A j \in n + 1 .. n + m : j = a \/ (from # None /\ j = b)
  BY <1>3
<1>6. from # None => b \in 1 .. n + m
  BY <1>3
<1>7. heap'[a].by \in heap'[a].see
  BY <1>3 DEF Known
<1>8. heap'[a].by = heap'[a].xmin /\ IsVertex(heap'[a]) /\ heap'[a].val = heap'[a].pat[2] /\ heap'[a].pat[1] = from
  BY <1>2, <1>3 DEF IsVertex
<1>9. from # None =>
          /\ a + 1 \in DOMAIN heap' /\ heap'[a + 1].ends = <<heap'[a].pat[1], heap'[a].id>>
          /\ heap'[a + 1].xmin = heap'[a].xmin /\ heap'[a + 1].cmin = heap'[a].cmin
  BY <1>3, <1>4, <1>6, <1>8
<1>10. PatternOK(a)'
  BY <1>7, <1>8, <1>9 DEF PatternOK
<1>11. from # None => ~IsPath(b)'
  BY <1>4 DEF IsPath
<1> QED
  BY <1>3, <1>4, <1>5, <1>10, <1>11

\* A path that MERGE makes for a pattern it has not found.
LEMMA MissingPaths ==
    ASSUME IInv, DInv, MInv, NEW t \in Txns, NEW x, x = tx[t], x.pc = "row", Clause(x).op = "merge",
           CurrentRow(x).m = Null, Duplicates(x) = {}, Matches(t) = <<>>, status' = status,
           NEW from, from = PathKey(x)[2], NEW val, val = Clause(x).val,
           NEW n \in Nat, NEW m \in Nat, PathStep(t, n, m), \A j \in 1 .. n : heap'[j] = heap[j],
           NEW a, NEW b, NewPathAt(t, n, m, a, b, from, val)
    PROVE  Paths' /\ NewPattern(n, m, <<from, val>>)
<1>1. DOMAIN heap = 1 .. n /\ DOMAIN heap' = 1 .. n + m
  BY DEF PathStep
<1>2. status[t] = "running"
  BY PlaceHas
<1>3. /\ PatternOK(a)' /\ \A j \in n + 1 .. n + m : heap'[j].by = t
      /\ \A j \in n + 1 .. n + m : IsPath(j)' => j = a
  BY <1>1, NewPathPattern
<1>4. heap'[a].pat = <<from, val>> /\ heap'[a].see = Known(t)
  BY DEF NewPathAt
<1>5. PatternOf(x) = <<from, val>>
  BY DEF PatternOf
<1>6. ASSUME NEW i \in 1 .. n PROVE PairOK(i, a)'
  <2> SUFFICES ASSUME IsPath(i)', heap'[i].pat = heap'[a].pat, heap'[i].by \in heap'[a].see
               PROVE  \E k \in Path(i)' : heap'[k].xmax \in heap'[a].see
    BY DEF PairOK
  <2>1. IsPath(i) /\ Path(i)' = Path(i)
    BY PathStays
  <2>2. heap[i].pat = PatternOf(x) /\ heap[i].by \in Known(t)
    BY <1>4, <1>5
  <2>3. PICK k \in Path(i) : heap[k].xmax \in Known(t)
    <3>1. i \in DOMAIN heap
      BY <1>1
    <3> QED
      BY <2>1, <2>2, <3>1, MissingIsEnded
  <2>4. k \in 1 .. n
    <3>1. PatternOK(i)
      BY <1>1 DEF MInv, Paths
    <3> QED
      BY <1>1, <2>1, <3>1 DEF PatternOK, Path
  <2> QED
    BY <1>4, <2>1, <2>3, <2>4
<1>7. ASSUME NEW j \in n + 1 .. n + m, IsPath(j)'
      PROVE  /\ PatternOK(j)' /\ \A i \in n + 1 .. n + m : heap'[i].by = t
             /\ \A i \in 1 .. n : PairOK(i, j)'
             /\ \A i \in n + 1 .. n + m : IsPath(i)' => i = j
  <2>1. j = a
    BY <1>3, <1>7
  <2> QED
    BY <1>3, <1>6, <2>1
<1>8. Paths'
  BY <1>2, <1>7, PathsStep DEF MInv
<1>9. NewPattern(n, m, <<from, val>>)
  BY <1>3, <1>4 DEF NewPattern
<1> QED
  BY <1>8, <1>9

\* If v is still in the statement, it has the path p beside those of t's cursor.
KeepsPath(t, v, p) ==
    v.pc \in {"row", "set"} =>
        /\ Merging(v) /\ (v.pc = "set" => CurrentRow(v).m # Null)
        /\ v.base = tx[t].base /\ v.created = tx[t].created \cup {p}

\* A path that MERGE makes is remembered.
LEMMA MissingRemembered ==
    ASSUME IInv, DInv, MInv, NEW t \in Txns, tx[t].pc \in {"row", "set"},
           NEW n \in Nat, NEW m \in Nat, PathStep(t, n, m), Paths',
           NEW p, NEW pat, NewPattern(n, m, pat), p.key[2] = pat[1], p.key[3] = pat[2],
           NEW v, tx' = [tx EXCEPT ![t] = v], KeepsPath(t, v, p)
    PROVE  MInv'
<1>1. DOMAIN heap = 1 .. n /\ DOMAIN heap' = 1 .. n + m
  BY DEF PathStep
<1>2. tx'[t] = v /\ \A u \in Txns \ {t} : tx'[u] = tx[u]
  BY DEF IInv, StatusInv
<1>3. ASSUME NEW u \in Txns, tx[u].pc \in {"row", "set"}, tx'[u].base = tx[u].base,
             tx[u].created \subseteq tx'[u].created, u = t => p \in tx'[u].created
      PROVE  Remembered(u)'
  <2> SUFFICES ASSUME NEW i \in DOMAIN heap', IsPath(i)', heap'[i].xmin = u, heap'[i].cmin >= tx'[u].base
               PROVE  \E q \in tx'[u].created : q.key[2] = heap'[i].pat[1] /\ q.key[3] = heap'[i].pat[2]
    BY DEF Remembered
  <2>1. CASE i \in 1 .. n
    <3>1. IsPath(i)
      BY <2>1, PathStays
    <3>2. heap'[i].xmin = heap[i].xmin /\ heap'[i].cmin = heap[i].cmin /\ heap'[i].pat = heap[i].pat
      BY <2>1 DEF PathStep
    <3>3. Remembered(u) /\ i \in DOMAIN heap
      BY <1>1, <1>3, <2>1 DEF MInv, MergeInv
    <3>4. PICK q \in tx[u].created : q.key[2] = heap[i].pat[1] /\ q.key[3] = heap[i].pat[2]
      BY <1>3, <3>1, <3>2, <3>3 DEF Remembered
    <3> QED
      BY <1>3, <3>2, <3>4
  <2>2. CASE i \in n + 1 .. n + m
    <3>1. u = t
      BY <2>2 DEF PathStep
    <3>2. heap'[i].pat = pat
      BY <2>2 DEF NewPattern
    <3> QED
      BY <1>3, <3>1, <3>2
  <2> QED
    BY <1>1, <2>1, <2>2
<1>4. ASSUME NEW u \in Txns PROVE MergeInv(u)'
  <2> SUFFICES ASSUME tx'[u].pc \in {"row", "set"}
               PROVE  /\ Merging(tx'[u]) /\ Remembered(u)'
                      /\ tx'[u].pc = "set" => CurrentRow(tx'[u]).m # Null
    BY DEF MergeInv, Merging, CurrentRow
  <2>1. CASE u = t
    <3>1. /\ Merging(tx'[u]) /\ (tx'[u].pc = "set" => CurrentRow(tx'[u]).m # Null)
          /\ tx'[u].base = tx[u].base /\ tx'[u].created = tx[u].created \cup {p}
      BY <1>2, <2>1 DEF KeepsPath
    <3>2. Remembered(u)'
      BY <1>3, <2>1, <3>1
    <3> QED
      BY <3>1, <3>2
  <2>2. CASE u # t
    <3>1. tx'[u] = tx[u] /\ MergeInv(u)
      BY <1>2, <2>2 DEF MInv
    <3>2. Remembered(u)'
      BY <1>3, <2>2, <3>1
    <3> QED
      BY <3>1, <3>2 DEF MergeInv
  <2> QED
    BY <2>1, <2>2
<1> QED
  BY <1>4 DEF MInv

\* MERGE has not found its pattern.
LEMMA MergeMissingGoesOn ==
    ASSUME IInv, DInv, MInv, NEW t \in Txns, MergeMissing(t)
    PROVE  MInv'
<1>1. PICK x : x = tx[t]
  OBVIOUS
<1>2. x.pc = "row" /\ HeapInv /\ Clause(x).op = "merge" /\ CurrentRow(x).m = Null /\ Matches(t) = <<>>
  BY <1>1, CursorIs, Zenon DEF MergeMissing
<1>3. Cursor(x) /\ x.cid \in Nat /\ x.base \in Nat /\ x.curcid \in Int
  BY <1>1, <1>2, AtRowHas
<1>4. AtPlace(x) /\ Merging(x) /\ Lists(x.rows, Len(x.rows))
  BY <1>1, <1>2, PlaceHas
<1>5. CASE Fail(t)
  BY <1>5, FailLeaves
<1>6. CASE ~Fail(t)
  <2>1. PICK new : new = NewPath(t, PathKey(x)[2], Clause(x).val, x.base, <<PathKey(x)[2], Clause(x).val>>)
    OBVIOUS
  <2>2. PICK id \in Nat : id = next_id
    BY <1>2 DEF HeapInv
  <2>3. PICK rows, p : rows = BoundTo(x.rows, x.r, id) /\ p = [key |-> PathKey(x), id |-> id]
    OBVIOUS
  <2>4. PICK y : y = [x EXCEPT !.rows = rows, !.dirty = TRUE, !.mutated = x.mutated \cup {x.k},
                               !.created = x.created \cup {p}]
    OBVIOUS
  <2>5. PICK z : z = [y EXCEPT !.used = TRUE]
    OBVIOUS
  <2>6. PICK w : w = IF x.base = x.cid THEN CommandCounterIncrement(z) ELSE y
    OBVIOUS
  <2>7. PathKey(x)[2] # None => EntityExists(t, PathKey(x)[2])
    BY <1>1, <1>6, Zenon DEF MergeMissing
  <2>8. status' = status
    BY <1>6, Zenon DEF MergeMissing
  <2>9. \/ \E q \in Duplicates(x) :
              /\ heap' = heap
              /\ tx' = [tx EXCEPT ![t] = ThenSet([x EXCEPT !.rows[x.r].m = q.id], Clause(x).on_match)]
        \/ /\ Duplicates(x) = {} /\ heap' = heap \o new
           /\ tx' = [tx EXCEPT ![t] = ThenSet(w, Clause(x).on_create)]
    <3>1. rows = [x.rows EXCEPT ![x.r] = [x.rows[x.r] EXCEPT !.m = next_id]]
      BY <2>2, <2>3 DEF BoundTo
    <3>2. y = [x EXCEPT !.rows[x.r].m = next_id, !.dirty = TRUE, !.mutated = @ \cup {x.k},
                        !.created = @ \cup {[key |-> PathKey(x), id |-> next_id]}]
      BY <1>3, <2>2, <2>3, <2>4, <3>1 DEF Cursor
    <3> QED
      BY <1>1, <1>6, <2>1, <2>5, <2>6, <3>2, Zenon DEF MergeMissing
  <2>10. ASSUME NEW q \in Duplicates(x), heap' = heap,
               tx' = [tx EXCEPT ![t] = ThenSet([x EXCEPT !.rows[x.r].m = q.id], Clause(x).on_match)]
         PROVE  MInv'
    <3>1. PICK i \in Nat : i = q.id
      BY <1>4 DEF Duplicates, Merging, RowsOK
    <3>2. PICK f : f = BoundTo(x.rows, x.r, i)
      OBVIOUS
    <3>3. PICK b : b = [x EXCEPT !.rows = f]
      OBVIOUS
    <3>4. f = [x.rows EXCEPT ![x.r] = [x.rows[x.r] EXCEPT !.m = q.id]]
      BY <3>1, <3>2 DEF BoundTo
    <3>5. b = [x EXCEPT !.rows[x.r].m = q.id]
      BY <1>3, <3>3, <3>4 DEF Cursor
    <3>6. Cursor(b) /\ b.rows = f /\ b.stmt = x.stmt /\ b.k = x.k /\ b.r = x.r
      BY <1>3, <3>3 DEF Cursor
    <3>7. b.base = x.base /\ b.curcid = x.curcid /\ b.created = x.created
      BY <1>3, <3>3 DEF Cursor
    <3>8. SameClause(x, b) /\ b.rows = BoundTo(x.rows, x.r, i)
      BY <3>2, <3>6, <3>7 DEF SameClause
    <3>9. AtPlace(b) /\ Merging(b) /\ Clause(b) = Clause(x) /\ CurrentRow(b).m = i
      <4>1. i \in Nat \/ i = x.rows[x.r].m
        OBVIOUS
      <4>2. Cursor(b) /\ b.created = x.created
        BY <3>6, <3>7
      <4> QED
        BY <1>4, <3>8, <4>1, <4>2, BoundMerging
    <3>10. i # Null
      BY RowAssumption
    <3>11. PICK v : v = ThenSet(b, Clause(x).on_match) /\ tx' = [tx EXCEPT ![t] = v]
      BY <2>10, <3>5
    <3>12. GoesOn(b, v)
      BY <3>9, <3>10, <3>11, ThenSetGoesOn
    <3>13. GoesOn(x, v)
      BY <3>7, <3>12 DEF GoesOn
    <3> QED
      BY <1>1, <1>2, <2>8, <2>10, <3>11, <3>13, QuietGoesOn
  <2>11. ASSUME Duplicates(x) = {}, heap' = heap \o new, tx' = [tx EXCEPT ![t] = ThenSet(w, Clause(x).on_create)]
         PROVE  MInv'
    <3>1. PICK from, val : from = PathKey(x)[2] /\ val = Clause(x).val
      OBVIOUS
    <3>2. from # None => Standing(t, from)
      BY <1>1, <1>3, <2>7, <3>1, ExistsIs
    <3>3. new = NewPath(t, from, val, x.base, <<from, val>>)
      BY <2>1, <3>1
    <3>4. PICK m \in Nat : MadePath(t, x.base, new, m)
      BY <1>2, <1>3, <3>2, <3>3, PathMade
    <3>5. PICK n \in Nat : PathStep(t, n, m) /\ Added(new, n, m)
      <4>1. PICK c : MadePath(t, c, new, m)
        BY <3>4
      <4>2. heap' = Joined(heap, new)
        BY <2>11 DEF Joined
      <4> QED
        BY <4>1, <4>2, AddedPaths
    <3>6. Paths' /\ NewPattern(n, m, <<from, val>>)
      <4>1. /\ x = tx[t] /\ x.pc = "row" /\ Clause(x).op = "merge" /\ CurrentRow(x).m = Null
            /\ Duplicates(x) = {} /\ Matches(t) = <<>> /\ status' = status
            /\ from = PathKey(x)[2] /\ val = Clause(x).val
        BY <1>1, <1>2, <2>8, <2>11, <3>1
      <4>2. NewPathAt(t, n, m, n + 1, n + 2, from, val)
        BY <1>2, <3>3, <3>4, <3>5, NewPathWritten
      <4>3. PICK a, b : NewPathAt(t, n, m, a, b, from, val)
        BY <4>2
      <4>4. PathStep(t, n, m) /\ \A j \in 1 .. n : heap'[j] = heap[j]
        BY <3>5 DEF Added
      <4> QED
        BY <4>1, <4>3, <4>4, MissingPaths
    <3>7. PICK a : PathKey(x) = <<x.k, a, val>> /\ a = from
      <4>1. PICK a : a = IF Clause(x).from = None THEN None ELSE CurrentRow(x)[Clause(x).from]
        OBVIOUS
      <4>2. PathKey(x) = <<x.k, a, val>>
        BY <3>1, <4>1 DEF PathKey
      <4> QED
        BY <3>1, <4>2
    <3>8. /\ p.id \in Nat /\ p.key[1] = x.k /\ p.key[2] = from /\ p.key[3] = val
          /\ p.key = <<p.key[1], p.key[2], p.key[3]>>
      BY <2>3, <3>7
    <3>9. Cursor(y) /\ y.rows = rows /\ y.stmt = x.stmt /\ y.k = x.k /\ y.r = x.r
      BY <1>3, <2>4 DEF Cursor
    <3>10. y.base = x.base /\ y.curcid = x.curcid /\ y.created = x.created \cup {p} /\ y.cid = x.cid
      BY <1>3, <2>4 DEF Cursor
    <3>11. SameClause(x, y) /\ y.rows = BoundTo(x.rows, x.r, id)
      BY <2>3, <3>9, <3>10 DEF SameClause
    <3>12. AtPlace(y) /\ Merging(y) /\ Clause(y) = Clause(x) /\ CurrentRow(y).m = id
      <4>1. \E q : /\ y.created = x.created \cup {q} /\ q.id \in Nat /\ q.key[1] = x.k
                   /\ q.key = <<q.key[1], q.key[2], q.key[3]>>
        BY <3>8, <3>10
      <4>2. id \in Nat \/ id = x.rows[x.r].m
        OBVIOUS
      <4>3. \/ y.created = x.created
            \/ /\ Clause(x).op = "merge" /\ CurrentRow(x).m = Null /\ id \in Nat
               /\ \E q : /\ y.created = x.created \cup {q} /\ q.id \in Nat /\ q.key[1] = x.k
                         /\ q.key = <<q.key[1], q.key[2], q.key[3]>>
        BY <1>2, <4>1
      <4>4. AtPlace(x) /\ Merging(x) /\ Lists(x.rows, Len(x.rows)) /\ Cursor(y) /\ SameClause(x, y)
        BY <1>4, <3>9, <3>11
      <4>5. y.rows = BoundTo(x.rows, x.r, id)
        BY <3>11
      <4> QED
        BY <4>2, <4>3, <4>4, <4>5, BoundMerging
    <3>13. Cursor(z) /\ z.rows = y.rows /\ z.stmt = y.stmt /\ z.k = y.k /\ z.r = y.r
      BY <2>5, <3>9 DEF Cursor
    <3>14. z.base = y.base /\ z.curcid = y.curcid /\ z.created = y.created /\ z.cid = y.cid
      BY <2>5, <3>9 DEF Cursor
    <3>15. SamePlace(y, z)
      BY <3>13, <3>14 DEF SamePlace
    <3>16. AtPlace(z) /\ z.cid \in Nat
      BY <1>3, <3>10, <3>12, <3>13, <3>14, <3>15, PlaceSame
    <3>17. Cursor(w) /\ SamePlace(y, w)
      <4>1. CASE x.base = x.cid
        <5>1. w = CommandCounterIncrement(z)
          BY <2>6, <4>1
        <5>2. Cursor(w) /\ SamePlace(z, w)
          BY <3>16, <5>1, IncrementedPlace
        <5> QED
          BY <3>15, <5>2 DEF SamePlace
      <4>2. CASE x.base # x.cid
        BY <2>6, <3>9, <4>2 DEF SamePlace
      <4> QED
        BY <4>1, <4>2
    <3>18. AtPlace(w) /\ Merging(w) /\ CurrentRow(w).m # Null
      <4>1. AtPlace(w) /\ CurrentRow(w) = CurrentRow(y) /\ Merging(w)
        BY <3>12, <3>17, PlaceSame, MergingSame
      <4> QED
        BY <3>12, <4>1, RowAssumption
    <3>19. PICK v : v = ThenSet(w, Clause(x).on_create) /\ tx' = [tx EXCEPT ![t] = v]
      BY <2>11
    <3>20. GoesOn(w, v)
      BY <3>18, <3>19, ThenSetGoesOn
    <3>21. KeepsPath(t, v, p)
      BY <1>1, <3>10, <3>17, <3>20 DEF GoesOn, SamePlace, KeepsPath
    <3>22. PICK pat : NewPattern(n, m, pat) /\ pat[1] = from /\ pat[2] = val
      BY <3>6, PairIs
    <3>23. p.key[2] = pat[1] /\ p.key[3] = pat[2] /\ tx[t].pc \in {"row", "set"}
      BY <1>1, <1>2, <3>8, <3>22
    <3>24. PathStep(t, n, m) /\ Paths' /\ tx' = [tx EXCEPT ![t] = v] /\ NewPattern(n, m, pat)
      BY <3>5, <3>6, <3>19, <3>22
    <3> QED
      BY <3>21, <3>23, <3>24, MissingRemembered
  <2> QED
    BY <2>9, <2>10, <2>11
<1> QED
  BY <1>5, <1>6

\* Nothing is written, and nobody's work is undone.
LEMMA SameHeapKeeps ==
    ASSUME MInv, heap' = heap, status' = status
    PROVE  Paths' /\ \A u \in Txns : tx'[u] = tx[u] => MergeInv(u)'
<1>1. \A i : (IsPath(i)' <=> IsPath(i)) /\ Path(i)' = Path(i)
  BY DEF IsPath, Original, Path
<1>2. \A i : PatternOK(i) => PatternOK(i)'
  BY <1>1 DEF PatternOK, IsVertex
<1>3. \A i, j : MadeLater(i, j) => MadeLater(i, j)'
  BY <1>1 DEF MadeLater
<1>4. \A i, j : PairOK(i, j) => PairOK(i, j)'
  BY <1>1 DEF PairOK, Stands
<1>5. Paths'
  BY <1>2, <1>3, <1>4 DEF MInv, Paths
<1>6. ASSUME NEW u \in Txns, tx'[u] = tx[u] PROVE MergeInv(u)'
  <2>1. MergeInv(u)
    BY DEF MInv
  <2>2. Remembered(u) => Remembered(u)'
    BY <1>1, <1>6 DEF Remembered
  <2> QED
    BY <1>6, <2>1, <2>2 DEF MergeInv
<1> QED
  BY <1>5, <1>6

\* The cursor of a statement that starts.
LEMMA StartMerging ==
    ASSUME NEW t \in Txns, NEW n \in DOMAIN Scripts[t], NEW s \in Scripts[t][n], IsQuery(s),
           NEW S \in SUBSET (DOMAIN s.rows), NEW rows, rows # <<>>,
           rows = [i \in DOMAIN InOrder(S) |-> s.rows[InOrder(S)[i]]],
           NEW c \in Nat, NEW z, z.stmt = s, z.rows = rows, z.k = 1, z.r = 1, z.base = c,
           z.curcid = c + 1, z.created = {}
    PROVE  Merging(z)
<1>1. PICK l \in Nat : l = Len(s.rows) /\ DOMAIN s.rows = 1 .. l
  BY DEF IsQuery, List
<1>2. S \in SUBSET (1 .. l)
  BY <1>1
<1>3. PICK m \in Nat : /\ Len(InOrder(S)) = m /\ m <= l /\ (m = 0 => S = {})
                       /\ \A j \in 1 .. m : InOrder(S)[j] \in S
  BY <1>2, InOrderHas
<1>4. DOMAIN InOrder(S) = 1 .. m
  <2>1. PICK d \in Nat : Lists(InOrder(S), d) /\ Len(InOrder(S)) = d /\ DOMAIN InOrder(S) = 1 .. d
    BY <1>2, InOrderIs
  <2> QED
    BY <1>3, <2>1
<1>5. PICK g : g = InOrder(S)
  OBVIOUS
<1>6. rows = [i \in 1 .. m |-> s.rows[g[i]]] /\ \A i \in 1 .. m : g[i] \in 1 .. l
  BY <1>2, <1>3, <1>4, <1>5
<1>7. Lists(rows, m)
  BY <1>6 DEF Lists
<1>8. Len(rows) = m /\ m > 0
  BY <1>7, ListIs, SomeRows
<1>9. /\ \A r \in DOMAIN s.rows : s.rows[r] \in [Vars -> Nat \cup {Null}]
      /\ ~s.match => Len(s.rows) = 1
      /\ \A k \in DOMAIN s.clauses : s.clauses[k].op = "merge" => s.clauses[k].from \in Vars \cup {None}
  BY RowAssumption
<1>10. \A i \in 1 .. m : rows[i] \in [Vars -> Nat \cup {Null}]
  <2> TAKE i \in 1 .. m
  <2>1. g[i] \in DOMAIN s.rows /\ rows[i] = s.rows[g[i]]
    BY <1>1, <1>6
  <2> QED
    BY <1>9, <2>1
<1>11. ~s.match => m = 1
  <2>1. ASSUME ~s.match PROVE l = 1
    BY <1>1, <1>9, <2>1
  <2>2. l = 1 => m = 1
    <3>1. m \in Nat /\ l \in Nat /\ m <= l /\ m > 0
      BY <1>3, <1>8
    <3> QED
      BY <3>1
  <2> QED
    BY <2>1, <2>2
<1>12. RowsOK(z)
  BY <1>8, <1>9, <1>10, <1>11 DEF RowsOK
<1>13. LooksBack(z)
  <2>1. \A k \in 1 .. Len(s.clauses) : c + 1 + (k - 1) >= c + 1
    BY DEF IsQuery, List
  <2> QED
    BY <2>1 DEF LooksBack, Clauses
<1>14. MadeHere(z) /\ BoundSoFar(z)
  <2>1. \A i \in 1 .. 1 - 1 : FALSE
    OBVIOUS
  <2> QED
    BY <2>1 DEF MadeHere, BoundSoFar
<1> QED
  BY <1>12, <1>13, <1>14 DEF Merging

\* A statement starts.
LEMMA StartGoesOn ==
    ASSUME IInv, DInv, MInv, NEW t \in Txns, NEW n \in DOMAIN Scripts[t], NEW s \in Scripts[t][n], Start(t, s)
    PROVE  MInv'
<1>1. PICK x : x = tx[t]
  OBVIOUS
<1>2. status[t] = "running" /\ x.pc = "ready"
  BY <1>1, Zenon DEF Start
<1>3. x.cid \in Nat /\ ~x.used /\ IsQuery(s)
  <2>1. CursorOK(t, x) /\ Cursors(t)
    BY <1>1, CursorIs DEF DInv
  <2> QED
    BY <1>1, <1>2, <2>1, ScriptAssumption DEF CursorOK, Cursors
<1>4. PICK snap, c, d : /\ snap = {Boot} \cup {u \in Txns : status[u] = "committed"}
                        /\ c = x.count + 1 /\ d = x.cid + 1
  OBVIOUS
<1>5. PICK y : y = [NoStatement EXCEPT !.snap = snap, !.cid = x.cid, !.used = x.used,
                                 !.base = x.cid, !.count = c, !.curcid = d, !.stmt = s]
  OBVIOUS
<1>6. \E S \in SUBSET (DOMAIN s.rows) : \E rows, k :
          /\ rows = [i \in DOMAIN InOrder(S) |-> s.rows[InOrder(S)[i]]]
          /\ tx' = [tx EXCEPT ![t] = IF rows = <<>> THEN [y EXCEPT !.pc = "last", !.k = k]
                                     ELSE [y EXCEPT !.pc = "row", !.rows = rows]]
  <2> DEFINE seen == {Boot} \cup {u \in Txns : status[u] = "committed"}
             first == [NoStatement EXCEPT !.snap = seen, !.cid = tx[t].cid, !.used = tx[t].used,
                                          !.base = tx[t].cid, !.count = tx[t].count + 1,
                                          !.curcid = tx[t].cid + 1, !.stmt = s]
             Bound(row) == \A w \in Vars : row[w] # Null =>
                               \E i \in DOMAIN heap :
                                   heap[i].id = row[w] /\ Sees(t, seen, tx[t].cid, heap[i])
             B == {i \in DOMAIN s.rows : Bound(s.rows[i])}
             found == [i \in DOMAIN InOrder(B) |-> s.rows[InOrder(B)[i]]]
  <2>1. tx' = [tx EXCEPT ![t] = IF found = <<>> THEN [first EXCEPT !.pc = "last", !.k = Len(s.clauses)]
                                ELSE [first EXCEPT !.pc = "row", !.rows = found]]
    BY Zenon DEF Start
  <2>2. y = first
    BY <1>1, <1>4, <1>5, Zenon
  <2>3. B \in SUBSET (DOMAIN s.rows)
    BY Zenon
  <2> HIDE DEF seen, first, Bound, B
  <2>4. tx' = [tx EXCEPT ![t] = IF found = <<>> THEN [y EXCEPT !.pc = "last", !.k = Len(s.clauses)]
                                ELSE [y EXCEPT !.pc = "row", !.rows = found]]
    BY <2>1, <2>2, Zenon
  <2> QED
    BY <2>3, <2>4, Zenon
<1>7. PICK S \in SUBSET (DOMAIN s.rows) : \E rows, k :
          /\ rows = [i \in DOMAIN InOrder(S) |-> s.rows[InOrder(S)[i]]]
          /\ tx' = [tx EXCEPT ![t] = IF rows = <<>> THEN [y EXCEPT !.pc = "last", !.k = k]
                                     ELSE [y EXCEPT !.pc = "row", !.rows = rows]]
  BY <1>6, Zenon
<1>8. PICK rows, k :
          /\ rows = [i \in DOMAIN InOrder(S) |-> s.rows[InOrder(S)[i]]]
          /\ tx' = [tx EXCEPT ![t] = IF rows = <<>> THEN [y EXCEPT !.pc = "last", !.k = k]
                                     ELSE [y EXCEPT !.pc = "row", !.rows = rows]]
  BY <1>7, Zenon
<1>9. heap' = heap /\ status' = status
  BY Zenon DEF Start
<1>10. Cursor(y) /\ y.stmt = s /\ y.base = x.cid /\ y.curcid = d /\ y.created = {} /\ y.k = 1 /\ y.r = 1
  <2>1. y = [pc |-> "ready", stmt |-> s, rows |-> <<>>, r |-> 1, upto |-> 0, k |-> 1, i |-> 1,
             lidx |-> 0, snap |-> snap, cid |-> x.cid, used |-> x.used, curcid |-> d, base |-> x.cid,
             onset |-> None, htab |-> {}, created |-> {}, mutated |-> {},
             doomed |-> {}, asked |-> {}, dirty |-> FALSE, count |-> c]
    BY <1>5, Zenon DEF NoStatement
  <2> QED
    BY <2>1 DEF Cursor
<1>11. PICK z : z = IF rows = <<>> THEN [y EXCEPT !.pc = "last", !.k = k]
                    ELSE [y EXCEPT !.pc = "row", !.rows = rows]
  OBVIOUS
<1>12. tx'[t] = z /\ \A u \in Txns \ {t} : tx'[u] = tx[u]
  <2>1. tx \in [Txns -> {tx[u] : u \in Txns}]
    BY DEF IInv, StatusInv
  <2>2. tx' = [tx EXCEPT ![t] = z]
    BY <1>8, <1>11
  <2> QED
    BY <2>1, <2>2
<1>13. Paths' /\ \A u \in Txns \ {t} : MergeInv(u)'
  BY <1>9, <1>12, SameHeapKeeps
<1>14. MergeInv(t)'
  <2>1. CASE rows = <<>>
    <3>1. z = [y EXCEPT !.pc = "last", !.k = k]
      BY <1>11, <2>1
    <3>2. z.pc = "last"
      BY <1>10, <3>1 DEF Cursor
    <3> QED
      BY <1>12, <3>2 DEF MergeInv
  <2>2. CASE rows # <<>>
    <3>1. z = [y EXCEPT !.pc = "row", !.rows = rows]
      BY <1>11, <2>2
    <3>2. z.pc = "row" /\ z.rows = rows /\ z.stmt = s /\ z.k = 1 /\ z.r = 1
      BY <1>10, <3>1 DEF Cursor
    <3>3. z.base = x.cid /\ z.curcid = d /\ z.created = {}
      BY <1>10, <3>1 DEF Cursor
    <3>4. Merging(z)
      <4>1. PICK b \in Nat : b = x.cid
        BY <1>3
      <4>2. z.base = b /\ z.curcid = b + 1
        BY <1>4, <3>3, <4>1
      <4> QED
        BY <1>3, <1>8, <2>2, <3>2, <3>3, <4>2, StartMerging
    <3>5. Remembered(t)'
      <4> SUFFICES ASSUME NEW i \in DOMAIN heap, heap[i].xmin = t, heap[i].cmin >= x.cid PROVE FALSE
        BY <1>9, <1>12, <3>3 DEF Remembered
      <4>1. heap[i].cmin <= x.cid /\ (heap[i].cmin = x.cid => Written(t, i))
        BY <1>1, <1>2 DEF DInv, Commands
      <4>2. ~Written(t, i)
        BY <1>1, <1>3 DEF Written
      <4>3. heap[i].cmin \in Nat
        BY VersionTypes
      <4> QED
        BY <1>3, <4>1, <4>2, <4>3
    <3> QED
      BY <1>12, <3>2, <3>4, <3>5 DEF MergeInv
  <2> QED
    BY <2>1, <2>2
<1> QED
  BY <1>13, <1>14 DEF MInv

\* In the first graph there is no path of MERGE.
LEMMA InitMInv ==
    ASSUME Init
    PROVE  MInv
<1>1. ASSUME NEW i \in DOMAIN heap
      PROVE  heap[i].pat = None /\ heap[i].by = Boot /\ heap[i].see = {Boot}
  <2>1. PICK id, ends, val : id = Graph[i].id /\ ends = Graph[i].ends /\ val = Graph[i].val
    OBVIOUS
  <2>2. PICK v : v = Row(id, ends, val, Boot, 0, {Boot}, None) /\ v = heap[i]
    BY <2>1 DEF Init
  <2> QED
    BY <2>2 DEF Row
<1>2. \A i \in DOMAIN heap : ~IsPath(i) /\ PatternOK(i)
  BY <1>1 DEF IsPath, PatternOK
<1>3. Paths
  BY <1>2 DEF Paths, MadeLater, PairOK
<1>4. ASSUME NEW t \in Txns PROVE MergeInv(t)
  <2>1. PICK x : x = NoStatement /\ tx[t] = x
    BY DEF Init
  <2>2. x.pc = "ready"
    BY <2>1 DEF NoStatement
  <2> QED
    BY <2>1, <2>2 DEF MergeInv
<1> QED
  BY <1>3, <1>4 DEF MInv

\* What is known of the paths that MERGE has made, and of the rows it has still to
\* look at.
THEOREM MergeInvariance == Spec => [](IInv /\ DInv /\ MInv)
<1>1. Init => MInv
  BY InitMInv
<1>2. IInv /\ DInv /\ MInv /\ [Next]_vars => MInv'
  <2> SUFFICES ASSUME IInv, DInv, MInv, [Next]_vars PROVE MInv'
    OBVIOUS
  <2>1. CASE UNCHANGED vars
    <3>1. heap' = heap /\ status' = status /\ tx' = tx
      BY <2>1 DEF vars
    <3> QED
      BY <3>1, SameHeapKeeps DEF MInv
  <2>2. ASSUME NEW t \in Txns, NEW n \in DOMAIN Scripts[t], NEW s \in Scripts[t][n], Start(t, s)
        PROVE  MInv'
    BY <2>2, StartGoesOn
  <2>3. ASSUME NEW t \in Txns, Commit(t) \/ Rollback(t)
        PROVE  MInv'
    BY <2>3, FailLeaves DEF Rollback
  <2>4. ASSUME NEW t \in Txns, Step(t)
        PROVE  MInv'
    <3>1. DeadlockAbort(t) => Fail(t)
      BY DEF DeadlockAbort
    <3> QED
      BY <2>4, <3>1, ExecCreateGoesOn, ApplyItemGoesOn, MergeFoundGoesOn, MergeMissingGoesOn,
         DeleteItemGoesOn, DeleteConnectedLeaves, EndLeaves, FailLeaves DEF Step
  <2> QED
    BY <2>1, <2>2, <2>3, <2>4 DEF Next, Quiesce
<1> QED
  BY <1>1, <1>2, DanglingInvariance, PTL DEF Spec

\* Two paths that MERGE made for one pattern, and that are still as they were made,
\* are of transactions that did not see each other (exec_cypher_merge looks for the
\* path in the join, and find_duplicate_path among those of the earlier rows).
THEOREM MergeOnceAlways == Spec => []MergeOnce
<1>1. ASSUME IInv, DInv, MInv, NEW i \in DOMAIN heap, NEW j \in DOMAIN heap, i < j, IsPath(i), IsPath(j),
             heap[i].pat = heap[j].pat,
             \/ \A n \in Path(i) \cup Path(j) : Live(heap[n])
             \/ \E t \in Txns : tx[t].pc = "ready" /\ \A n \in Path(i) \cup Path(j) : LiveFor(t, heap[n])
      PROVE  heap[i].by \notin heap[j].see /\ heap[j].by \notin heap[i].see
  <2>1. heap[j].by = heap[j].xmin /\ heap[j].by \in heap[j].see
    BY <1>1 DEF MInv, Paths, PatternOK
  <2>2. MadeLater(i, j) /\ PairOK(i, j)
    BY <1>1 DEF MInv, Paths
  <2>3. j \in Path(i) \cup Path(j)
    BY DEF Path
  <2>4. ASSUME heap[i].by \in heap[j].see PROVE FALSE
    <3>1. CASE \A n \in Path(i) \cup Path(j) : Live(heap[n])
      <4>1. Committed(heap[j].xmin)
        BY <2>3, <3>1 DEF Live
      <4>2. PICK n \in Path(i) : heap[n].xmax \in heap[j].see
        BY <1>1, <2>2, <2>4, <4>1, StandsIs DEF PairOK
      <4>3. heap[n].xmax = heap[j].by \/ Committed(heap[n].xmax)
        BY <1>1, <4>2 DEF DInv, SawCommitted
      <4> QED
        BY <2>1, <3>1, <4>1, <4>3 DEF Live
    <3>2. ASSUME NEW t \in Txns, tx[t].pc = "ready", \A n \in Path(i) \cup Path(j) : LiveFor(t, heap[n])
          PROVE  FALSE
      <4>1. heap[j].xmin = t \/ Committed(heap[j].xmin)
        BY <2>3, <3>2 DEF LiveFor
      <4>2. status[t] = "running"
        BY <1>1, <3>2, CursorIs DEF CursorOK
      <4>3. Stands(heap[j].xmin)
        BY <1>1, <4>1, <4>2, StandsIs
      <4>4. PICK n \in Path(i) : heap[n].xmax \in heap[j].see
        BY <1>1, <2>2, <2>4, <4>3 DEF PairOK
      <4>5. heap[n].xmax = heap[j].by \/ Committed(heap[n].xmax)
        BY <1>1, <4>4 DEF DInv, SawCommitted
      <4> QED
        BY <2>1, <3>2, <4>1, <4>5 DEF LiveFor
    <3> QED
      BY <1>1, <3>1, <3>2
  <2>5. ASSUME heap[j].by \in heap[i].see PROVE FALSE
    <3>1. heap[j].by = heap[i].by
      BY <1>1, <2>2, <2>5 DEF MadeLater
    <3> QED
      BY <2>1, <2>4, <3>1
  <2> QED
    BY <2>4, <2>5
<1>2. IInv /\ DInv /\ MInv => MergeOnce
  <2> SUFFICES ASSUME IInv, DInv, MInv, NEW i \in DOMAIN heap, NEW j \in DOMAIN heap,
                      heap[i].id # heap[j].id, heap[i].pat = heap[j].pat, heap[i].pat # None,
                      Original(i), Original(j),
                      \/ \A n \in Path(i) \cup Path(j) : Live(heap[n])
                      \/ \E t \in Txns : tx[t].pc = "ready" /\ \A n \in Path(i) \cup Path(j) : LiveFor(t, heap[n])
               PROVE  heap[i].by \notin heap[j].see /\ heap[j].by \notin heap[i].see
    BY DEF MergeOnce, Original, Path
  <2>1. i \in Nat /\ j \in Nat /\ i # j
    BY VersionTypes
  <2>2. IsPath(i) /\ IsPath(j) /\ Path(i) \cup Path(j) = Path(j) \cup Path(i)
    BY DEF IsPath
  <2>3. CASE i < j
    BY <1>1, <2>2, <2>3
  <2>4. CASE j < i
    BY <1>1, <2>2, <2>4
  <2> QED
    BY <2>1, <2>3, <2>4
<1> QED
  BY <1>2, MergeInvariance, PTL
=============================================================================
