-------------------------- MODULE VleLocalCache_proofs --------------------------
(***************************************************************************)
(* The properties of VleLocalCache, for any number of edges, scans and      *)
(* contexts, and any size of the list.                                      *)
(***************************************************************************)
EXTENDS VleLocalCache, SequenceTheorems, FiniteSetTheorems, TLAPS

\* The numbers of the edges: those that were written count from 0 up or from -1
\* down, those of rewritten chains from 1 up, in a counter of their own.
NodeInv ==
    /\ \A n \in Nodes : node[n] # None =>
           /\ node[n].form = "path" => 0 <= node[n].id /\ node[n].id < unique_counter
           /\ node[n].form = "terminal" => -unique_counter <= node[n].id /\ node[n].id < 0
           /\ node[n].form = "chain" => node[n].id < next_id
    /\ \A m, n \in Nodes : m # n /\ node[m] # None /\ node[n] # None =>
           \/ node[m].id # node[n].id
           \/ (node[m].form = "chain") # (node[n].form = "chain")

\* ListIsSound without the types.
ListInv ==
    /\ Len(list) <= MaxCached + 1
    /\ \A i \in 1 .. Len(list) : vle[list[i]] # Free
    /\ \A i, j \in 1 .. Len(list) : i # j =>
           list[i] # list[j] /\ vle[list[i]].id # vle[list[j]].id

\* A scan that builds a context found none with its id, and there is room.
BuildInv ==
    building # None =>
        /\ iter[building[1]] = None /\ node[building[2]] # None
        /\ Len(list) <= MaxCached
        /\ \A i \in 1 .. Len(list) : vle[list[i]].id # node[building[2]].id
        /\ \A t \in Scans : iter[t] # None => node[building[2]].id \in iter[t].since

\* A context has the number of its edge, and the global context it was built on
\* is where it was and is valid, unless what it is judged by has changed.
CtxInv ==
    \A a \in VleAddrs : vle[a] # Free =>
        /\ node[vle[a].for] # None /\ vle[a].id = node[vle[a].for].id
        /\ ~vle[a].changed =>
               /\ ggctx[vle[a].ptr] # Free /\ Valid(ggctx[vle[a].ptr])
               /\ ggctx[vle[a].ptr].no = vle[a].made
               /\ ggctx[vle[a].ptr].scope = node[vle[a].for].scope

\* The context of an undisturbed scan is in the list, and those before it have
\* numbers that were looked for since the scan was opened: so there are at most
\* MaxCached of them.
Placed(s) ==
    \E p \in 1 .. Len(list) :
        /\ list[p] = iter[s].ctx
        /\ \A j \in 1 .. Len(list) : j < p => vle[list[j]].id \in iter[s].since

ScanInv(s) ==
    iter[s] # None =>
        /\ node[iter[s].node] # None /\ IsFiniteSet(iter[s].since)
        /\ HasContext(s) => ContextOf(s).id = node[iter[s].node].id
        /\ Undisturbed(s) => HasContext(s) /\ ContextOf(s).dirty /\ Placed(s)

IInv ==
    /\ TypeOK /\ NodeInv /\ ListInv /\ BuildInv /\ CtxInv
    /\ \A s \in Scans : ScanInv(s)

-----------------------------------------------------------------------------
(* The list as a sequence.                                                   *)

\* Unlinking the i-th context.
LEMMA RemoveAtIs ==
    ASSUME NEW S, NEW q \in Seq(S), NEW i \in 1 .. Len(q)
    PROVE  /\ RemoveAt(q, i) \in Seq(S)
           /\ Len(RemoveAt(q, i)) = Len(q) - 1
           /\ \A j \in 1 .. Len(q) - 1 :
                  RemoveAt(q, i)[j] = IF j < i THEN q[j] ELSE q[j + 1]
<1>1. Len(q) \in Nat /\ \A j \in 1 .. Len(q) : q[j] \in S
  BY LenProperties, ElementOfSeq
<1> DEFINE A == SubSeq(q, 1, i - 1)
           B == SubSeq(q, i + 1, Len(q))
<1>2. /\ A \in Seq(S) /\ Len(A) = i - 1
      /\ \A j \in 1 .. i - 1 : A[j] = q[j]
  <2>1. \A j \in 1 .. i - 1 : q[j] \in S
    BY <1>1
  <2>2. /\ A \in Seq(S) /\ Len(A) = IF 1 <= i - 1 THEN i - 1 - 1 + 1 ELSE 0
        /\ \A j \in 1 .. i - 1 - 1 + 1 : A[j] = q[1 + j - 1]
    BY <1>1, <2>1, SubSeqProperties
  <2> QED
    BY <1>1, <2>2
<1>3. /\ B \in Seq(S) /\ Len(B) = Len(q) - i
      /\ \A j \in 1 .. Len(q) - i : B[j] = q[i + j]
  <2>1. \A j \in i + 1 .. Len(q) : q[j] \in S
    BY <1>1
  <2>2. /\ B \in Seq(S) /\ Len(B) = IF i + 1 <= Len(q) THEN Len(q) - (i + 1) + 1 ELSE 0
        /\ \A j \in 1 .. Len(q) - (i + 1) + 1 : B[j] = q[(i + 1) + j - 1]
    BY <1>1, <2>1, SubSeqProperties
  <2> QED
    BY <1>1, <2>2
<1> HIDE DEF A, B
<1>4. /\ A \o B \in Seq(S) /\ Len(A \o B) = Len(A) + Len(B)
      /\ \A j \in 1 .. Len(A) + Len(B) : (A \o B)[j] =
             IF j <= Len(A) THEN A[j] ELSE B[j - Len(A)]
  BY <1>2, <1>3, ConcatProperties, Zenon
<1>5. RemoveAt(q, i) = A \o B
  BY DEF RemoveAt, A, B
<1>6. ASSUME NEW j \in 1 .. Len(q) - 1
      PROVE  (A \o B)[j] = IF j < i THEN q[j] ELSE q[j + 1]
  <2>1. (A \o B)[j] = IF j <= i - 1 THEN A[j] ELSE B[j - (i - 1)]
    BY <1>1, <1>2, <1>3, <1>4
  <2>2. CASE j < i
    BY <1>1, <1>2, <2>1, <2>2
  <2>3. CASE ~(j < i)
    <3>1. j - (i - 1) \in 1 .. Len(q) - i /\ i + (j - (i - 1)) = j + 1
      BY <1>1, <2>3
    <3>2. B[j - (i - 1)] = q[j + 1]
      BY <1>3, <3>1
    <3> QED
      BY <1>1, <2>1, <2>3, <3>2
  <2> QED
    BY <2>2, <2>3
<1> QED
  BY <1>1, <1>2, <1>3, <1>4, <1>5, <1>6

\* Linking a context at the head.
LEMMA ConsIs ==
    ASSUME NEW S, NEW q \in Seq(S), NEW a \in S
    PROVE  /\ <<a>> \o q \in Seq(S)
           /\ Len(<<a>> \o q) = Len(q) + 1
           /\ (<<a>> \o q)[1] = a
           /\ \A j \in 2 .. Len(q) + 1 : (<<a>> \o q)[j] = q[j - 1]
<1>1. <<a>> \in Seq(S) /\ Len(<<a>>) = 1 /\ <<a>>[1] = a /\ Len(q) \in Nat
  BY LenProperties
<1>2. /\ <<a>> \o q \in Seq(S) /\ Len(<<a>> \o q) = 1 + Len(q)
      /\ \A j \in 1 .. 1 + Len(q) : (<<a>> \o q)[j] = IF j <= 1 THEN <<a>>[j] ELSE q[j - 1]
  BY <1>1, ConcatProperties
<1>3. (<<a>> \o q)[1] = a
  BY <1>1, <1>2
<1> QED
  BY <1>1, <1>2, <1>3

\* Cutting the list.
LEMMA PrefixIs ==
    ASSUME NEW S, NEW q \in Seq(S), NEW k \in 0 .. Len(q)
    PROVE  /\ SubSeq(q, 1, k) \in Seq(S)
           /\ Len(SubSeq(q, 1, k)) = k
           /\ \A j \in 1 .. k : SubSeq(q, 1, k)[j] = q[j]
<1>1. Len(q) \in Nat /\ \A j \in 1 .. k : q[j] \in S
  BY LenProperties, ElementOfSeq
<1>2. /\ SubSeq(q, 1, k) \in Seq(S) /\ Len(SubSeq(q, 1, k)) = IF 1 <= k THEN k - 1 + 1 ELSE 0
      /\ \A j \in 1 .. k - 1 + 1 : SubSeq(q, 1, k)[j] = q[1 + j - 1]
  BY <1>1, SubSeqProperties
<1> QED
  BY <1>1, <1>2

\* Moving the i-th context to the head.
LEMMA PromoteIs ==
    ASSUME NEW S, NEW q \in Seq(S), NEW i \in 1 .. Len(q)
    PROVE  /\ <<q[i]>> \o RemoveAt(q, i) \in Seq(S)
           /\ Len(<<q[i]>> \o RemoveAt(q, i)) = Len(q)
           /\ \A j \in 1 .. Len(q) : (<<q[i]>> \o RemoveAt(q, i))[j] =
                  q[IF j = 1 THEN i ELSE IF j <= i THEN j - 1 ELSE j]
<1> DEFINE r == RemoveAt(q, i)
<1>1. Len(q) \in Nat /\ q[i] \in S
  BY LenProperties, ElementOfSeq
<1>2. /\ r \in Seq(S) /\ Len(r) = Len(q) - 1
      /\ \A j \in 1 .. Len(q) - 1 : r[j] = IF j < i THEN q[j] ELSE q[j + 1]
  BY RemoveAtIs
<1> HIDE DEF r
<1>3. /\ <<q[i]>> \o r \in Seq(S) /\ Len(<<q[i]>> \o r) = Len(r) + 1
      /\ (<<q[i]>> \o r)[1] = q[i]
      /\ \A j \in 2 .. Len(r) + 1 : (<<q[i]>> \o r)[j] = r[j - 1]
  BY <1>1, <1>2, ConsIs
<1>4. ASSUME NEW j \in 1 .. Len(q)
      PROVE  (<<q[i]>> \o r)[j] = q[IF j = 1 THEN i ELSE IF j <= i THEN j - 1 ELSE j]
  <2>1. CASE j = 1
    BY <1>3, <2>1
  <2>2. CASE j # 1
    <3>1. j - 1 \in 1 .. Len(q) - 1 /\ j \in 2 .. Len(r) + 1
      BY <1>1, <1>2, <2>2
    <3>2. (<<q[i]>> \o r)[j] = r[j - 1]
      BY <1>3, <3>1
    <3>3. r[j - 1] = IF j - 1 < i THEN q[j - 1] ELSE q[(j - 1) + 1]
      BY <1>2, <3>1
    <3>4. CASE j <= i
      <4>1. j - 1 < i
        BY <1>1, <3>4
      <4> QED
        BY <2>2, <3>2, <3>3, <3>4, <4>1
    <3>5. CASE ~(j <= i)
      <4>1. ~(j - 1 < i) /\ (j - 1) + 1 = j
        BY <1>1, <3>5
      <4> QED
        BY <2>2, <3>2, <3>3, <3>5, <4>1
    <3> QED
      BY <3>4, <3>5
  <2> QED
    BY <2>1, <2>2
<1> QED
  BY <1>1, <1>2, <1>3, <1>4 DEF r

-----------------------------------------------------------------------------
(* What the types say.                                                       *)

\* An edge that is parsed.
LEMMA NodeFacts ==
    ASSUME TypeOK, NEW n \in Nodes, node[n] # None
    PROVE  node[n].id \in Int /\ node[n].form \in Forms /\ node[n].scope \in Scopes
<1>1. node[n] \in NodeType
  BY DEF TypeOK
<1> QED
  BY <1>1 DEF NodeType

\* A global context.
LEMMA GraphFacts ==
    ASSUME TypeOK, NEW x \in GraphAddrs, ggctx[x] # Free
    PROVE  /\ ggctx[x] \in GraphType
           /\ ggctx[x].scope \in Scopes /\ ggctx[x].scope.graph \in Graphs /\ ggctx[x].no \in 1 .. MaxMade
<1>1. ggctx[x] \in GraphType
  BY DEF TypeOK
<1> QED
  BY <1>1, ScopeAssumption DEF GraphType

\* A context of an edge.
LEMMA VleFacts ==
    ASSUME TypeOK, NEW a \in VleAddrs, vle[a] # Free
    PROVE  /\ vle[a] \in VleType
           /\ vle[a].id \in Int /\ vle[a].for \in Nodes /\ vle[a].by \in Scans
           /\ vle[a].ptr \in GraphAddrs /\ vle[a].made \in 1 .. MaxMade
           /\ vle[a].dirty \in BOOLEAN /\ vle[a].changed \in BOOLEAN
<1>1. vle[a] \in VleType
  BY DEF TypeOK
<1> QED
  BY <1>1 DEF VleType

\* An open scan.
LEMMA IterFacts ==
    ASSUME TypeOK, NEW s \in Scans, iter[s] # None
    PROVE  /\ iter[s] \in IterType
           /\ iter[s].node \in Nodes /\ iter[s].ctx \in VleAddrs /\ iter[s].since \subseteq Int
<1>1. iter[s] \in IterType
  BY DEF TypeOK
<1> QED
  BY <1>1 DEF IterType

\* The entries of the list.
LEMMA ListFacts ==
    ASSUME TypeOK
    PROVE  /\ Len(list) \in Nat /\ MaxCached \in Nat /\ MaxCached > 0
           /\ \A i \in 1 .. Len(list) : list[i] \in VleAddrs
BY SizeAssumption, LenProperties, ElementOfSeq DEF TypeOK

\* What a global context is judged by stays as it was.
LEMMA ClockKeeps ==
    ASSUME UNCHANGED clock
    PROVE  \A b \in VleAddrs : Valid(ggctx[vle[b].ptr])' <=> Valid(ggctx'[vle'[b].ptr])
BY DEF Valid, Counted, clock

-----------------------------------------------------------------------------
(* Steps that leave the list as it is, and take no context from an open scan *)
(* but by closing it.                                                        *)

VleKept ==
    \A a \in VleAddrs :
        /\ vle'[a] = Free <=> vle[a] = Free
        /\ vle[a] # Free =>
               /\ vle'[a].id = vle[a].id /\ vle'[a].for = vle[a].for /\ vle'[a].by = vle[a].by
               /\ vle[a].dirty /\ ~vle'[a].dirty => iter'[vle[a].by] = None

\* They keep the invariant, when they keep what it says of the global contexts.
LEMMA KeptKeeps ==
    ASSUME IInv, TypeOK', CtxInv', VleKept,
           UNCHANGED <<node, list, unique_counter, next_id>>,
           \A t \in Scans : iter'[t] = iter[t] \/ iter'[t] = None,
           building' = None \/ building' = building
    PROVE  IInv'
<1>1. /\ TypeOK /\ NodeInv /\ ListInv /\ BuildInv
      /\ \A s \in Scans : ScanInv(s)
  BY DEF IInv
<1>2. /\ Len(list) \in Nat /\ list' = list /\ node' = node
      /\ \A i \in 1 .. Len(list) : list[i] \in VleAddrs
  BY <1>1, ListFacts
<1>3. NodeInv'
  BY <1>1 DEF NodeInv
<1>4. \A i \in 1 .. Len(list) : vle'[list[i]] # Free /\ vle'[list[i]].id = vle[list[i]].id
  BY <1>1, <1>2 DEF VleKept, ListInv
<1>5. ListInv'
  BY <1>1, <1>2, <1>4 DEF ListInv
<1>6. BuildInv'
  <2> SUFFICES ASSUME building' # None, building' = building PROVE BuildInv'
    BY DEF BuildInv
  <2>1. building[1] \in Scans
    BY <1>1 DEF TypeOK
  <2>2. iter'[building[1]] = None
    BY <1>1, <2>1 DEF BuildInv
  <2>3. \A t \in Scans : iter'[t] # None => node[building[2]].id \in iter'[t].since
    BY <1>1 DEF BuildInv
  <2> QED
    BY <1>1, <1>2, <1>4, <2>2, <2>3 DEF BuildInv
<1>7. ASSUME NEW s \in Scans PROVE ScanInv(s)'
  <2> SUFFICES ASSUME iter'[s] # None, iter'[s] = iter[s] PROVE ScanInv(s)'
    BY DEF ScanInv
  <2>1. iter[s].ctx \in VleAddrs
    BY <1>1, IterFacts
  <2>2. HasContext(s)' <=> HasContext(s)
    BY <2>1 DEF HasContext, ContextOf, VleKept
  <2>3. HasContext(s) => ContextOf(s)'.id = ContextOf(s).id /\ (ContextOf(s).dirty => ContextOf(s)'.dirty)
    BY <2>1 DEF HasContext, ContextOf, VleKept
  <2>4. Undisturbed(s)' <=> Undisturbed(s)
    BY <1>2 DEF Undisturbed
  <2>5. Placed(s) => Placed(s)'
    <3> SUFFICES ASSUME Placed(s) PROVE Placed(s)'
      OBVIOUS
    <3>1. PICK p \in 1 .. Len(list) :
              /\ list[p] = iter[s].ctx
              /\ \A j \in 1 .. Len(list) : j < p => vle[list[j]].id \in iter[s].since
      BY DEF Placed
    <3>2. \A j \in 1 .. Len(list) : j < p => vle'[list[j]].id \in iter[s].since
      BY <1>4, <3>1
    <3> QED
      BY <1>2, <3>1, <3>2 DEF Placed
  <2>6. ScanInv(s)
    BY <1>1
  <2> QED
    BY <1>2, <2>2, <2>3, <2>4, <2>5, <2>6 DEF ScanInv
<1> QED
  BY <1>3, <1>5, <1>6, <1>7 DEF IInv

\* A change or a deletion of the graph, another request for a global context, the
\* end of a scan and an error are such steps.
LEMMA MarkedIs ==
    ASSUME TypeOK, NEW G, vle' = Marked(G)
    PROVE  /\ vle' \in [VleAddrs -> VleType \cup {Free}]
           /\ VleKept
           /\ \A a \in VleAddrs : vle[a] # Free =>
                  /\ vle'[a].ptr = vle[a].ptr /\ vle'[a].made = vle[a].made
                  /\ ~vle'[a].changed => ~vle[a].changed /\ node[vle[a].for].scope.graph \notin G
<1>1. ASSUME NEW a \in VleAddrs
      PROVE  vle'[a] = IF vle[a] # Free /\ node[vle[a].for].scope.graph \in G
                       THEN [vle[a] EXCEPT !.changed = TRUE] ELSE vle[a]
  BY DEF Marked
<1>2. ASSUME NEW a \in VleAddrs, vle[a] # Free
      PROVE  /\ vle'[a] \in VleType /\ vle'[a] # Free
             /\ vle'[a].id = vle[a].id /\ vle'[a].for = vle[a].for /\ vle'[a].by = vle[a].by
             /\ vle'[a].dirty = vle[a].dirty
             /\ vle'[a].ptr = vle[a].ptr /\ vle'[a].made = vle[a].made
             /\ ~vle'[a].changed => ~vle[a].changed /\ node[vle[a].for].scope.graph \notin G
  <2>1. vle[a] \in VleType
    BY <1>2, VleFacts
  <2>2. CASE node[vle[a].for].scope.graph \in G
    <3>1. vle'[a] = [vle[a] EXCEPT !.changed = TRUE]
      BY <1>1, <1>2, <2>2
    <3>2. /\ vle'[a] \in VleType
          /\ vle'[a].id = vle[a].id /\ vle'[a].for = vle[a].for /\ vle'[a].by = vle[a].by
          /\ vle'[a].dirty = vle[a].dirty
          /\ vle'[a].ptr = vle[a].ptr /\ vle'[a].made = vle[a].made /\ vle'[a].changed = TRUE
      BY <2>1, <3>1 DEF VleType
    <3>3. vle'[a] # Free
      BY <3>2, FreeAssumption
    <3> QED
      BY <3>2, <3>3
  <2>3. CASE node[vle[a].for].scope.graph \notin G
    BY <1>1, <1>2, <2>1, <2>3
  <2> QED
    BY <2>2, <2>3
<1>3. vle' \in [VleAddrs -> VleType \cup {Free}]
  <2>1. \A a \in VleAddrs : vle'[a] \in VleType \cup {Free}
    BY <1>1, <1>2, Zenon
  <2>2. vle' = [a \in VleAddrs |-> vle'[a]]
    BY DEF Marked
  <2> QED
    BY <2>1, <2>2
<1>4. VleKept
  BY <1>1, <1>2 DEF VleKept
<1> QED
  BY <1>2, <1>3, <1>4

\* The contexts on the graphs whose counter or snapshot stays as it was.
LEMMA JudgedKeeps ==
    ASSUME IInv, NEW G, vle' = Marked(G),
           counting' = counting, version' \in [Graphs -> Nat], now' \in Snaps,
           \A g \in Graphs : g \in G \/ (version'[g] = version[g] /\ (now' = now \/ Counted(g))),
           UNCHANGED <<unique_counter, next_id, node, ggctx, made, list, iter, building, ops>>
    PROVE  IInv'
<1>1. TypeOK /\ CtxInv
  BY DEF IInv
<1>2. /\ vle' \in [VleAddrs -> VleType \cup {Free}]
      /\ VleKept
      /\ \A a \in VleAddrs : vle[a] # Free =>
             /\ vle'[a].ptr = vle[a].ptr /\ vle'[a].made = vle[a].made
             /\ ~vle'[a].changed => ~vle[a].changed /\ node[vle[a].for].scope.graph \notin G
  BY <1>1, MarkedIs
<1>3. TypeOK'
  BY <1>1, <1>2 DEF TypeOK
<1>4. ASSUME NEW x \in GraphAddrs, ggctx[x] # Free, ggctx[x].scope.graph \notin G, Valid(ggctx[x])
      PROVE  Valid(ggctx[x])'
  <2>1. ggctx[x].scope.graph \in Graphs
    BY <1>1, <1>4, GraphFacts
  <2>2. /\ version'[ggctx[x].scope.graph] = version[ggctx[x].scope.graph]
        /\ now' = now \/ Counted(ggctx[x].scope.graph)
    BY <1>4, <2>1
  <2> QED
    BY <1>4, <2>2 DEF Valid, Counted
<1>5. CtxInv'
  <2> SUFFICES ASSUME NEW a \in VleAddrs, vle'[a] # Free
               PROVE  /\ node[vle'[a].for] # None /\ vle'[a].id = node[vle'[a].for].id
                      /\ ~vle'[a].changed =>
                             /\ ggctx[vle'[a].ptr] # Free /\ Valid(ggctx[vle[a].ptr])'
                             /\ ggctx[vle'[a].ptr].no = vle'[a].made
                             /\ ggctx[vle'[a].ptr].scope = node[vle'[a].for].scope
    BY DEF CtxInv
  <2>1. vle[a] # Free /\ vle'[a].id = vle[a].id /\ vle'[a].for = vle[a].for
    BY <1>2 DEF VleKept
  <2>2. /\ vle[a].ptr \in GraphAddrs
        /\ vle'[a].ptr = vle[a].ptr /\ vle'[a].made = vle[a].made
        /\ ~vle'[a].changed => ~vle[a].changed /\ node[vle[a].for].scope.graph \notin G
    BY <1>1, <1>2, <2>1, VleFacts
  <2>3. /\ node[vle[a].for] # None /\ vle[a].id = node[vle[a].for].id
        /\ ~vle[a].changed =>
               /\ ggctx[vle[a].ptr] # Free /\ Valid(ggctx[vle[a].ptr])
               /\ ggctx[vle[a].ptr].no = vle[a].made
               /\ ggctx[vle[a].ptr].scope = node[vle[a].for].scope
    BY <1>1, <2>1 DEF CtxInv
  <2>4. ~vle'[a].changed => Valid(ggctx[vle[a].ptr])'
    <3> SUFFICES ASSUME ~vle'[a].changed PROVE Valid(ggctx[vle[a].ptr])'
      OBVIOUS
    <3>1. PICK x \in GraphAddrs : x = vle[a].ptr /\ x = vle'[a].ptr
      BY <2>2
    <3>2. Valid(ggctx[x])'
      BY <1>4, <2>2, <2>3, <3>1
    <3> QED
      BY <3>1, <3>2 DEF Valid, Counted
  <2> QED
    BY <2>1, <2>2, <2>3, <2>4
<1> QED
  BY <1>2, <1>3, <1>5, KeptKeeps

\* increment_graph_version, remove_graph_version and another snapshot.
LEMMA ChangeKeeps ==
    ASSUME IInv, NEW g \in Graphs, Change(g) \/ RemoveVersion(g)
    PROVE  IInv'
<1>1. PICK k \in Nat : /\ version' = [version EXCEPT ![g] = k] /\ vle' = Marked({g})
                       /\ UNCHANGED <<unique_counter, next_id, node, counting, now, ggctx, made,
                                      list, iter, building, ops>>
  <2>1. version \in [Graphs -> Nat]
    BY DEF IInv, TypeOK
  <2>2. version[g] + 1 \in Nat /\ 0 \in Nat
    BY <2>1
  <2> QED
    BY <2>2 DEF Change, RemoveVersion
<1>2. version \in [Graphs -> Nat] /\ now \in Snaps
  BY DEF IInv, TypeOK
<1>3. version' \in [Graphs -> Nat] /\ now' \in Snaps
  BY <1>1, <1>2
<1>4. \A h \in Graphs : h \in {g} \/ (version'[h] = version[h] /\ (now' = now \/ Counted(h)))
  BY <1>1, <1>2
<1> QED
  BY <1>1, <1>3, <1>4, JudgedKeeps

LEMMA SnapshotKeeps ==
    ASSUME IInv, NEW sn \in Snaps, TakeSnapshot(sn)
    PROVE  IInv'
<1> USE DEF TakeSnapshot
<1>1. version' \in [Graphs -> Nat] /\ now' \in Snaps
  BY DEF IInv, TypeOK
<1>2. \A g \in Graphs : g \in {h \in Graphs : ~Counted(h)} \/ Counted(g)
  OBVIOUS
<1> QED
  BY <1>1, <1>2, JudgedKeeps

\* delete_global_graphs.
LEMMA DeleteKeeps ==
    ASSUME IInv, NEW g \in Graphs, Delete(g)
    PROVE  IInv'
<1> USE DEF Delete
<1>1. TypeOK /\ CtxInv
  BY DEF IInv
<1>2. /\ vle' \in [VleAddrs -> VleType \cup {Free}]
      /\ VleKept
      /\ \A a \in VleAddrs : vle[a] # Free =>
             /\ vle'[a].ptr = vle[a].ptr /\ vle'[a].made = vle[a].made
             /\ ~vle'[a].changed => ~vle[a].changed /\ node[vle[a].for].scope.graph \notin {g}
  BY <1>1, MarkedIs
<1>3. PICK y \in GraphAddrs : /\ ggctx[y] # Free /\ ggctx[y].scope.graph = g
                              /\ ggctx' = [ggctx EXCEPT ![y] = Free]
  OBVIOUS
<1>4. TypeOK'
  BY <1>1, <1>2, <1>3 DEF TypeOK, clock
<1>5. CtxInv'
  <2> SUFFICES ASSUME NEW a \in VleAddrs, vle'[a] # Free
               PROVE  /\ node[vle'[a].for] # None /\ vle'[a].id = node[vle'[a].for].id
                      /\ ~vle'[a].changed =>
                             /\ ggctx'[vle'[a].ptr] # Free /\ Valid(ggctx[vle[a].ptr])'
                             /\ ggctx'[vle'[a].ptr].no = vle'[a].made
                             /\ ggctx'[vle'[a].ptr].scope = node[vle'[a].for].scope
    BY DEF CtxInv
  <2>1. vle[a] # Free /\ vle'[a].id = vle[a].id /\ vle'[a].for = vle[a].for
    BY <1>2 DEF VleKept
  <2>2. vle[a].ptr \in GraphAddrs
    BY <1>1, <2>1, VleFacts
  <2>3. /\ node[vle[a].for] # None /\ vle[a].id = node[vle[a].for].id
        /\ ~vle[a].changed =>
               /\ ggctx[vle[a].ptr] # Free /\ Valid(ggctx[vle[a].ptr])
               /\ ggctx[vle[a].ptr].no = vle[a].made
               /\ ggctx[vle[a].ptr].scope = node[vle[a].for].scope
    BY <1>1, <2>1 DEF CtxInv
  <2>4. ~vle'[a].changed => ggctx'[vle[a].ptr] = ggctx[vle[a].ptr]
    <3>1. ~vle'[a].changed => vle[a].ptr # y
      BY <1>2, <1>3, <2>1, <2>3
    <3> QED
      BY <1>1, <1>3, <2>2, <3>1 DEF TypeOK
  <2>5. /\ vle'[a].ptr = vle[a].ptr /\ vle'[a].made = vle[a].made
        /\ ~vle'[a].changed => ~vle[a].changed
    BY <1>2, <2>1
  <2>6. ~vle'[a].changed => Valid(ggctx[vle[a].ptr])'
    BY <2>3, <2>4, <2>5 DEF Valid, Counted, clock
  <2> QED
    BY <2>1, <2>3, <2>4, <2>5, <2>6
<1> QED
  BY <1>2, <1>4, <1>5, KeptKeeps

\* manage_GRAPH_global_contexts leaves the valid contexts where they are, and
\* gives out one that is valid and has what was asked for.
LEMMA ManageIs ==
    ASSUME TypeOK, NEW sc \in Scopes, NEW g \in GraphAddrs, Manage(sc, g)
    PROVE  /\ ggctx' \in [GraphAddrs -> GraphType \cup {Free}]
           /\ made' \in 0 .. MaxMade
           /\ \A x \in GraphAddrs : ggctx[x] # Free /\ Valid(ggctx[x]) => ggctx'[x] = ggctx[x]
           /\ ggctx'[g] # Free /\ ggctx'[g] \in GraphType /\ Valid(ggctx'[g]) /\ ggctx'[g].scope = sc
<1> DEFINE kept == [x \in GraphAddrs |-> IF x \in Swept(sc) THEN Free ELSE ggctx[x]]
<1>1. /\ kept \in [GraphAddrs -> GraphType \cup {Free}]
      /\ \A x \in GraphAddrs : ggctx[x] # Free /\ Valid(ggctx[x]) => kept[x] = ggctx[x]
      /\ \A x \in GraphAddrs : kept[x] # Free => kept[x] = ggctx[x] /\ Valid(ggctx[x])
  BY DEF TypeOK, Swept
<1>2. \/ kept[g] # Free /\ kept[g].scope = sc /\ ggctx' = kept /\ UNCHANGED made
      \/ /\ kept[g] = Free
         /\ made < MaxMade /\ made' = made + 1
         /\ ggctx' = [kept EXCEPT ![g] = [scope |-> sc, version |-> version[sc.graph], snap |-> now, no |-> made + 1]]
  BY DEF Manage
<1> HIDE DEF kept
<1>3. CASE kept[g] # Free
  BY <1>1, <1>2, <1>3 DEF TypeOK
<1>4. CASE kept[g] = Free
  <2>1. PICK c : c = [scope |-> sc, version |-> version[sc.graph], snap |-> now, no |-> made + 1]
    OBVIOUS
  <2>2. /\ made < MaxMade /\ made' = made + 1
        /\ ggctx' = [kept EXCEPT ![g] = c]
    BY <1>2, <1>4, <2>1
  <2>3. made \in Nat /\ made + 1 \in 1 .. MaxMade /\ made' \in 0 .. MaxMade
    BY <2>2, BoundAssumption DEF TypeOK
  <2>4. c \in GraphType /\ Valid(c) /\ c.scope = sc
    <3>1. sc.graph \in Graphs /\ version[sc.graph] \in Nat /\ now \in Snaps
      BY ScopeAssumption DEF TypeOK
    <3>2. c.scope = sc /\ c.version = version[sc.graph] /\ c.snap = now
      BY <2>1
    <3> QED
      BY <2>1, <2>3, <3>1, <3>2 DEF GraphType, Valid
  <2>5. c # Free
    BY <2>4, FreeAssumption
  <2>6. \A x \in GraphAddrs : ggctx[x] # Free /\ Valid(ggctx[x]) => x # g
    BY <1>1, <1>4
  <2> QED
    BY <1>1, <2>2, <2>3, <2>4, <2>5, <2>6
<1> QED
  BY <1>3, <1>4

\* Another function asks for a global context.
LEMMA OtherKeeps ==
    ASSUME IInv, NEW sc \in Scopes, Other(sc)
    PROVE  IInv'
<1> USE DEF Other
<1>1. TypeOK /\ CtxInv
  BY DEF IInv
<1>2. PICK g \in GraphAddrs : Manage(sc, g)
  OBVIOUS
<1>3. /\ ggctx' \in [GraphAddrs -> GraphType \cup {Free}]
      /\ made' \in 0 .. MaxMade
      /\ \A x \in GraphAddrs : ggctx[x] # Free /\ Valid(ggctx[x]) => ggctx'[x] = ggctx[x]
  BY <1>1, <1>2, ManageIs
<1>4. TypeOK'
  BY <1>1, <1>3 DEF TypeOK, clock
<1>5. CtxInv'
  <2>1. \A a \in VleAddrs : vle[a] # Free => vle[a].ptr \in GraphAddrs
    BY <1>1, VleFacts
  <2> QED
    BY <1>1, <1>3, <2>1 DEF CtxInv, Valid, Counted, clock
<1>6. VleKept
  BY DEF VleKept
<1> QED
  BY <1>4, <1>5, <1>6, KeptKeeps

\* A scan ends.
LEMMA FinishKeeps ==
    ASSUME IInv, NEW s \in Scans, NEW clean \in BOOLEAN, Finish(s, clean)
    PROVE  IInv'
<1>0. /\ vle' = IF clean THEN [vle EXCEPT ![iter[s].ctx].dirty = FALSE] ELSE vle
      /\ iter' = [iter EXCEPT ![s] = None]
      /\ UNCHANGED <<unique_counter, next_id, node, clock, ggctx, made, list, building, ops>>
  BY DEF Finish
<1>1. TypeOK /\ CtxInv /\ iter[s] # None /\ vle[iter[s].ctx] # Free /\ vle[iter[s].ctx].by = s
  BY DEF IInv, Finish, Open, HasContext, ContextOf
<1>2. iter[s].ctx \in VleAddrs /\ iter'[s] = None /\ iter' \in [Scans -> IterType \cup {None}]
      /\ \A t \in Scans : t # s => iter'[t] = iter[t]
  BY <1>0, <1>1, IterFacts DEF TypeOK
<1>3. ASSUME NEW a \in VleAddrs
      PROVE  /\ vle'[a] \in VleType \cup {Free} /\ (vle'[a] = Free <=> vle[a] = Free)
             /\ vle[a] # Free =>
                    /\ vle'[a].id = vle[a].id /\ vle'[a].for = vle[a].for /\ vle'[a].by = vle[a].by
                    /\ vle'[a].ptr = vle[a].ptr /\ vle'[a].made = vle[a].made
                    /\ vle'[a].changed = vle[a].changed
                    /\ a # iter[s].ctx => vle'[a].dirty = vle[a].dirty
  <2>1. CASE clean /\ a = iter[s].ctx
    <3>1. vle[a] \in VleType
      BY <1>1, <2>1, VleFacts
    <3>2. vle'[a] = [vle[a] EXCEPT !.dirty = FALSE]
      BY <1>0, <1>1, <2>1 DEF TypeOK
    <3>3. /\ vle'[a] \in VleType
          /\ vle'[a].id = vle[a].id /\ vle'[a].for = vle[a].for /\ vle'[a].by = vle[a].by
          /\ vle'[a].ptr = vle[a].ptr /\ vle'[a].made = vle[a].made
          /\ vle'[a].changed = vle[a].changed
      BY <3>1, <3>2 DEF VleType
    <3>4. vle'[a] # Free
      BY <3>3, FreeAssumption
    <3> QED
      BY <1>1, <2>1, <3>3, <3>4
  <2>2. CASE ~(clean /\ a = iter[s].ctx)
    <3>1. vle'[a] = vle[a]
      BY <1>0, <1>1, <2>2 DEF TypeOK
    <3> QED
      BY <1>1, <3>1 DEF TypeOK
  <2> QED
    BY <2>1, <2>2
<1>4. TypeOK'
  <2>1. vle' = [a \in VleAddrs |-> vle'[a]]
    BY <1>0, <1>1 DEF TypeOK
  <2>2. vle' \in [VleAddrs -> VleType \cup {Free}]
    BY <1>3, <2>1
  <2> QED
    BY <1>0, <1>1, <1>2, <2>2 DEF TypeOK, clock
<1>5. CtxInv'
  <2>1. ASSUME NEW a \in VleAddrs, vle'[a] # Free
        PROVE  /\ node[vle'[a].for] # None /\ vle'[a].id = node[vle'[a].for].id
               /\ ~vle'[a].changed =>
                      /\ ggctx[vle'[a].ptr] # Free /\ Valid(ggctx[vle'[a].ptr])
                      /\ ggctx[vle'[a].ptr].no = vle'[a].made
                      /\ ggctx[vle'[a].ptr].scope = node[vle'[a].for].scope
    BY <1>1, <1>3, <2>1 DEF CtxInv
  <2> QED
    BY <1>0, <2>1, ClockKeeps, ZenonT(60) DEF CtxInv
<1>6. VleKept
  <2>1. ASSUME NEW a \in VleAddrs, vle[a] # Free, vle[a].dirty, ~vle'[a].dirty
        PROVE  iter'[vle[a].by] = None
    <3>1. a = iter[s].ctx
      BY <1>3, <2>1
    <3> QED
      BY <1>1, <1>2, <3>1
  <2> QED
    BY <1>3, <2>1 DEF VleKept
<1> QED
  BY <1>0, <1>2, <1>4, <1>5, <1>6, KeptKeeps

\* An error ends scans, also one that is building its context.
LEMMA ErrorKeeps ==
    ASSUME IInv, NEW S \in SUBSET Scans, Error(S)
    PROVE  IInv'
<1> USE DEF Error
<1>1. TypeOK /\ CtxInv
  BY DEF IInv
<1>2. TypeOK'
  BY <1>1 DEF TypeOK, clock
<1>3. CtxInv'
  BY <1>1 DEF CtxInv, Valid, Counted, clock
<1>4. VleKept
  BY DEF VleKept
<1> QED
  BY <1>2, <1>3, <1>4, KeptKeeps

\* The state does not change.
LEMMA StutterKeeps == ASSUME IInv, UNCHANGED vars PROVE IInv'
<1>1. TypeOK /\ CtxInv
  BY DEF IInv
<1>2. TypeOK' /\ CtxInv' /\ VleKept
  BY <1>1 DEF TypeOK, CtxInv, VleKept, vars, Valid, Counted, clock
<1> QED
  BY <1>2, KeptKeeps DEF vars

-----------------------------------------------------------------------------
(* Parsing, and opening a scan.                                              *)

\* An edge gets a number nobody of its kind has.
LEMMA ParseKeeps ==
    ASSUME IInv, NEW n \in Nodes, NEW form \in Forms, NEW sc \in Scopes, Parse(n, form, sc)
    PROVE  IInv'
<1>1. /\ TypeOK /\ NodeInv /\ ListInv /\ CtxInv /\ unique_counter \in Nat /\ next_id \in Nat
      /\ \A s \in Scans : ScanInv(s)
      /\ node[n] = None /\ building' = None
      /\ UNCHANGED <<clock, ggctx, made, vle, list, iter, building, ops>>
  BY DEF IInv, TypeOK, Parse
<1>2. PICK r : /\ node' = [node EXCEPT ![n] = r]
               /\ r = [id |-> CASE form = "path" -> unique_counter
                                [] form = "terminal" -> -(unique_counter + 1)
                                [] form = "chain" -> next_id,
                       form |-> form, scope |-> sc]
  BY DEF Parse
<1>3. form \in {"path", "terminal", "chain"}
  BY FormAssumption
<1>4. /\ r \in NodeType /\ r.form = form
      /\ form = "path" => r.id = unique_counter
      /\ form = "terminal" => r.id = -(unique_counter + 1)
      /\ form = "chain" => r.id = next_id
  <2> DEFINE id == CASE form = "path" -> unique_counter
                     [] form = "terminal" -> -(unique_counter + 1)
                     [] form = "chain" -> next_id
  <2>1. /\ id \in Int
        /\ form = "path" => id = unique_counter
        /\ form = "terminal" => id = -(unique_counter + 1)
        /\ form = "chain" => id = next_id
    BY <1>1, <1>3
  <2> HIDE DEF id
  <2>2. r = [id |-> id, form |-> form, scope |-> sc]
    BY <1>2 DEF id
  <2> QED
    BY <2>1, <2>2 DEF NodeType
<1>5. r # None
  BY <1>4, NoneAssumption
<1>6. /\ unique_counter' \in Nat /\ next_id' \in Nat
      /\ unique_counter <= unique_counter' /\ next_id <= next_id'
      /\ form # "chain" => unique_counter' = unique_counter + 1
      /\ form = "chain" => next_id' = next_id + 1
  BY <1>1 DEF Parse, chain_id
<1>7. /\ node'[n] = r /\ \A m \in Nodes : m # n => node'[m] = node[m]
      /\ node' \in [Nodes -> NodeType \cup {None}]
  BY <1>1, <1>2, <1>4 DEF TypeOK
<1>8. \A m \in Nodes : node[m] # None => node'[m] = node[m]
  BY <1>1, <1>7
<1>9. TypeOK'
  BY <1>1, <1>6, <1>7 DEF TypeOK, clock
<1>10. NodeInv'
  <2>1. ASSUME NEW m \in Nodes, node'[m] # None
        PROVE  /\ node'[m].form = "path" => 0 <= node'[m].id /\ node'[m].id < unique_counter'
               /\ node'[m].form = "terminal" => -unique_counter' <= node'[m].id /\ node'[m].id < 0
               /\ node'[m].form = "chain" => node'[m].id < next_id'
    <3>1. CASE m = n
      BY <1>1, <1>4, <1>6, <1>7, <3>1
    <3>2. CASE m # n
      <4>1. node'[m] = node[m] /\ node[m] # None /\ node[m].id \in Int
        BY <1>1, <1>7, <2>1, <3>2, NodeFacts
      <4> QED
        BY <1>1, <1>6, <4>1 DEF NodeInv
    <3> QED
      BY <3>1, <3>2
  <2>2. ASSUME NEW m \in Nodes, node[m] # None, m # n
        PROVE  node[m].id # r.id \/ (node[m].form = "chain") # (form = "chain")
    <3>1. node[m].id \in Int /\ node[m].form \in {"path", "terminal", "chain"}
      BY <1>1, <2>2, NodeFacts, FormAssumption
    <3>2. /\ node[m].form = "path" => 0 <= node[m].id /\ node[m].id < unique_counter
          /\ node[m].form = "terminal" => -unique_counter <= node[m].id /\ node[m].id < 0
          /\ node[m].form = "chain" => node[m].id < next_id
      BY <1>1, <2>2 DEF NodeInv
    <3>3. CASE form = "path"
      <4>1. node[m].form # "chain" => node[m].id # unique_counter
        BY <1>1, <3>1, <3>2
      <4> QED
        BY <1>4, <3>3, <4>1
    <3>4. CASE form = "terminal"
      <4>1. node[m].form # "chain" => node[m].id # -(unique_counter + 1)
        BY <1>1, <3>1, <3>2
      <4> QED
        BY <1>4, <3>4, <4>1
    <3>5. CASE form = "chain"
      <4>1. node[m].form = "chain" => node[m].id # next_id
        BY <1>1, <3>1, <3>2
      <4> QED
        BY <1>4, <3>5, <4>1
    <3> QED
      BY <1>3, <3>3, <3>4, <3>5
  <2>3. ASSUME NEW m \in Nodes, NEW k \in Nodes, m # k, node'[m] # None, node'[k] # None
        PROVE  node'[m].id # node'[k].id \/ (node'[m].form = "chain") # (node'[k].form = "chain")
    <3>1. CASE m = n
      BY <1>4, <1>7, <2>2, <2>3, <3>1
    <3>2. CASE k = n
      BY <1>4, <1>7, <2>2, <2>3, <3>2
    <3>3. CASE m # n /\ k # n
      BY <1>1, <1>7, <2>3, <3>3 DEF NodeInv
    <3> QED
      BY <3>1, <3>2, <3>3
  <2> QED
    BY <2>1, <2>3 DEF NodeInv
<1>11. ListInv' /\ BuildInv'
  BY <1>1 DEF ListInv, BuildInv
<1>12. CtxInv'
  <2>1. \A a \in VleAddrs : vle[a] # Free => vle[a].for \in Nodes
    BY <1>1, VleFacts
  <2> QED
    BY <1>1, <1>8, <2>1, ClockKeeps DEF CtxInv
<1>13. ASSUME NEW s \in Scans PROVE ScanInv(s)'
  <2> SUFFICES ASSUME iter[s] # None PROVE ScanInv(s)'
    BY <1>1 DEF ScanInv
  <2>1. ScanInv(s) /\ iter[s].node \in Nodes
    BY <1>1, IterFacts
  <2>2. node[iter[s].node] # None /\ node'[iter[s].node] = node[iter[s].node]
    BY <1>8, <2>1 DEF ScanInv
  <2>3. (HasContext(s)' <=> HasContext(s)) /\ ContextOf(s)' = ContextOf(s) /\ (Placed(s)' <=> Placed(s))
    BY <1>1 DEF HasContext, ContextOf, Placed
  <2>4. Undisturbed(s)' <=> Undisturbed(s)
    BY <1>1, <2>2 DEF Undisturbed
  <2> QED
    BY <1>1, <2>1, <2>2, <2>3, <2>4 DEF ScanInv
<1> QED
  BY <1>9, <1>10, <1>11, <1>12, <1>13 DEF IInv

\* The number that is looked for is noted by the open scans.
LEMMA NotedIs ==
    ASSUME TypeOK, NEW n \in Nodes, node[n] # None, NEW t \in Scans
    PROVE  /\ iter[t] = None => Noted(n)[t] = None
           /\ iter[t] # None =>
                  /\ Noted(n)[t] \in IterType /\ Noted(n)[t] # None
                  /\ Noted(n)[t].node = iter[t].node /\ Noted(n)[t].ctx = iter[t].ctx
                  /\ Noted(n)[t].since = iter[t].since \cup {node[n].id}
<1>1. Noted(n)[t] = IF iter[t] # None
                    THEN [iter[t] EXCEPT !.since = @ \cup {node[n].id}] ELSE None
  BY DEF Noted
<1>2. ASSUME iter[t] # None
      PROVE  /\ Noted(n)[t] \in IterType /\ Noted(n)[t] # None
             /\ Noted(n)[t].node = iter[t].node /\ Noted(n)[t].ctx = iter[t].ctx
             /\ Noted(n)[t].since = iter[t].since \cup {node[n].id}
  <2>1. iter[t] \in IterType /\ iter[t].since \cup {node[n].id} \in SUBSET Int
    BY <1>2, IterFacts, NodeFacts
  <2>2. /\ Noted(n)[t] \in IterType
        /\ Noted(n)[t].node = iter[t].node /\ Noted(n)[t].ctx = iter[t].ctx
        /\ Noted(n)[t].since = iter[t].since \cup {node[n].id}
    BY <1>1, <1>2, <2>1 DEF IterType
  <2> QED
    BY <2>2, NoneAssumption
<1> QED
  BY <1>1, <1>2

\* A scan that stays undisturbed was undisturbed, and its number is another one.
LEMMA StillUndisturbed ==
    ASSUME TypeOK, NEW n \in Nodes, node[n] # None, NEW t \in Scans, iter[t] # None,
           IsFiniteSet(iter[t].since), node' = node, iter'[t] = Noted(n)[t]
    PROVE  /\ IsFiniteSet(iter'[t].since)
           /\ Undisturbed(t)' =>
                  /\ Undisturbed(t) /\ node[iter[t].node].id # node[n].id
                  /\ Cardinality(iter[t].since \cup {node[n].id}) <= MaxCached
<1>1. iter'[t].node = iter[t].node /\ iter'[t].since = iter[t].since \cup {node[n].id}
  BY NotedIs
<1>2. /\ IsFiniteSet(iter[t].since \cup {node[n].id})
      /\ Cardinality(iter[t].since \cup {node[n].id}) =
             IF node[n].id \in iter[t].since THEN Cardinality(iter[t].since)
             ELSE Cardinality(iter[t].since) + 1
      /\ Cardinality(iter[t].since) \in Nat
  BY FS_AddElement, FS_CardinalityType
<1>3. MaxCached \in Nat
  BY SizeAssumption
<1>4. Undisturbed(t)' => /\ node[iter[t].node].id \notin iter[t].since \cup {node[n].id}
                         /\ Cardinality(iter[t].since \cup {node[n].id}) <= MaxCached
  BY <1>1 DEF Undisturbed
<1>5. Cardinality(iter[t].since \cup {node[n].id}) <= MaxCached => Cardinality(iter[t].since) <= MaxCached
  BY <1>2, <1>3
<1> QED
  BY <1>1, <1>2, <1>4, <1>5 DEF Undisturbed

\* A clean context of a valid graph is taken from the list and moved to the head.
LEMMA ReuseKeeps ==
    ASSUME IInv, NEW s \in Scans, NEW n \in Nodes, NEW started \in BOOLEAN, Reuse(s, n, started)
    PROVE  IInv'
<1>1. /\ TypeOK /\ NodeInv /\ ListInv /\ CtxInv
      /\ \A t \in Scans : ScanInv(t)
  BY DEF IInv
<1>2. PICK i \in Hits(n) :
          /\ list' = <<list[i]>> \o RemoveAt(list, i)
          /\ IF started
             THEN /\ vle' = [vle EXCEPT ![list[i]].dirty = TRUE, ![list[i]].by = s]
                  /\ iter' = [Noted(n) EXCEPT ![s] = [node |-> n, ctx |-> list[i], since |-> {}]]
             ELSE UNCHANGED vle /\ iter' = Noted(n)
  BY DEF Reuse
<1>3. /\ building = None /\ building' = None /\ node[n] # None /\ iter[s] = None
      /\ ops' \in 0 .. MaxOps
      /\ UNCHANGED <<unique_counter, next_id, node, clock, ggctx, made>>
  BY <1>1, BoundAssumption DEF Reuse, Opens, TypeOK
<1>4. Len(list) \in Nat /\ i \in 1 .. Len(list) /\ vle[list[i]].id = node[n].id
      /\ \A j \in 1 .. Len(list) : list[j] \in VleAddrs
  BY <1>1, ListFacts DEF Hits, Looked
<1> DEFINE h(j) == IF j = 1 THEN i ELSE IF j <= i THEN j - 1 ELSE j
<1>5. /\ list' \in Seq(VleAddrs) /\ Len(list') = Len(list)
      /\ \A j \in 1 .. Len(list) : list'[j] = list[h(j)]
  <2>1. list \in Seq(VleAddrs)
    BY <1>1 DEF TypeOK
  <2> QED
    BY <1>2, <1>4, <2>1, PromoteIs
<1>6. /\ \A j \in 1 .. Len(list) : h(j) \in 1 .. Len(list)
      /\ \A j, k \in 1 .. Len(list) : j # k => h(j) # h(k)
  BY <1>4
<1>7. PICK a \in VleAddrs : a = list[i]
  BY <1>4
<1>8. vle[a] # Free /\ vle[a] \in VleType /\ vle[a].id = node[n].id
  BY <1>1, <1>4, <1>7, VleFacts DEF ListInv
<1>9. /\ \A b \in VleAddrs : b # a => vle'[b] = vle[b]
      /\ vle' \in [VleAddrs -> VleType \cup {Free}]
      /\ vle'[a] # Free /\ vle'[a].id = vle[a].id /\ vle'[a].for = vle[a].for
      /\ vle'[a].ptr = vle[a].ptr /\ vle'[a].made = vle[a].made /\ vle'[a].changed = vle[a].changed
      /\ started => vle'[a].by = s /\ vle'[a].dirty
      /\ ~started => vle' = vle
  <2>1. CASE started
    <3>1. PICK c : c = [vle[a] EXCEPT !.dirty = TRUE, !.by = s]
      OBVIOUS
    <3>2. /\ c \in VleType /\ c.id = vle[a].id /\ c.for = vle[a].for /\ c.by = s /\ c.dirty
          /\ c.ptr = vle[a].ptr /\ c.made = vle[a].made /\ c.changed = vle[a].changed
      BY <1>8, <3>1 DEF VleType
    <3>3. c # Free
      BY <3>2, FreeAssumption
    <3>4. vle' = [vle EXCEPT ![a] = c]
      BY <1>1, <1>2, <1>7, <2>1, <3>1 DEF TypeOK
    <3> QED
      BY <1>1, <2>1, <3>2, <3>3, <3>4 DEF TypeOK
  <2>2. CASE ~started
    BY <1>1, <1>2, <1>8, <2>2 DEF TypeOK
  <2> QED
    BY <2>1, <2>2
<1>10. /\ \A t \in Scans : t # s => iter'[t] = Noted(n)[t]
       /\ \A t \in Scans : iter'[t] \in IterType \cup {None}
       /\ iter' = [t \in Scans |-> iter'[t]]
       /\ started => iter'[s] = [node |-> n, ctx |-> a, since |-> {}]
       /\ ~started => iter'[s] = None
  <2>1. Noted(n) = [t \in Scans |-> Noted(n)[t]] /\ \A t \in Scans : Noted(n)[t] \in IterType \cup {None}
    <3>1. Noted(n) = [t \in Scans |-> Noted(n)[t]]
      BY DEF Noted
    <3> QED
      BY <1>1, <1>3, <3>1, NotedIs
  <2>2. Noted(n)[s] = None
    BY <1>1, <1>3, NotedIs
  <2>3. [node |-> n, ctx |-> a, since |-> {}] \in IterType
    BY DEF IterType
  <2>4. CASE started
    BY <1>2, <1>7, <2>1, <2>3, <2>4
  <2>5. CASE ~started
    BY <1>2, <2>1, <2>2, <2>5
  <2> QED
    BY <2>4, <2>5
<1>11. TypeOK'
  <2>1. iter' \in [Scans -> IterType \cup {None}]
    BY <1>10
  <2> QED
    BY <1>1, <1>3, <1>5, <1>9, <2>1 DEF TypeOK, clock
<1>12. NodeInv' /\ BuildInv'
  BY <1>1, <1>3 DEF NodeInv, BuildInv
<1>13. \A b \in VleAddrs : vle[b] # Free => vle'[b] # Free /\ vle'[b].id = vle[b].id
  BY <1>9
<1>14. \A j \in 1 .. Len(list) : vle'[list'[j]] # Free /\ vle'[list'[j]].id = vle[list[h(j)]].id
  BY <1>1, <1>4, <1>5, <1>6, <1>13 DEF ListInv
<1> HIDE DEF h
<1>15. ListInv'
  <2>1. ASSUME NEW j \in 1 .. Len(list), NEW k \in 1 .. Len(list), j # k
        PROVE  list'[j] # list'[k] /\ vle'[list'[j]].id # vle'[list'[k]].id
    <3>1. h(j) \in 1 .. Len(list) /\ h(k) \in 1 .. Len(list) /\ h(j) # h(k)
      BY <1>6, <2>1
    <3>2. list[h(j)] # list[h(k)] /\ vle[list[h(j)]].id # vle[list[h(k)]].id
      BY <1>1, <3>1 DEF ListInv
    <3> QED
      BY <1>5, <1>14, <3>2
  <2> QED
    BY <1>1, <1>5, <1>14, <2>1 DEF ListInv
<1>16. CtxInv'
  <2>1. ASSUME NEW b \in VleAddrs, vle'[b] # Free
        PROVE  /\ node[vle'[b].for] # None /\ vle'[b].id = node[vle'[b].for].id
               /\ ~vle'[b].changed =>
                      /\ ggctx[vle'[b].ptr] # Free /\ Valid(ggctx[vle'[b].ptr])
                      /\ ggctx[vle'[b].ptr].no = vle'[b].made
                      /\ ggctx[vle'[b].ptr].scope = node[vle'[b].for].scope
    <3>1. CASE b = a
      BY <1>1, <1>8, <1>9, <3>1 DEF CtxInv
    <3>2. CASE b # a
      BY <1>1, <1>9, <2>1, <3>2 DEF CtxInv
    <3> QED
      BY <3>1, <3>2
  <2> QED
    BY <1>3, <2>1, ClockKeeps DEF CtxInv
<1>17. ASSUME NEW t \in Scans, t # s PROVE ScanInv(t)'
  <2> SUFFICES ASSUME iter[t] # None PROVE ScanInv(t)'
    <3>1. iter[t] = None => iter'[t] = None
      BY <1>1, <1>3, <1>10, <1>17, NotedIs
    <3> QED
      BY <3>1 DEF ScanInv
  <2>1. /\ iter[t].node \in Nodes /\ iter[t].ctx \in VleAddrs
        /\ node[iter[t].node] # None /\ IsFiniteSet(iter[t].since)
        /\ HasContext(t) => ContextOf(t).id = node[iter[t].node].id
        /\ Undisturbed(t) => HasContext(t) /\ ContextOf(t).dirty /\ Placed(t)
    BY <1>1, IterFacts DEF ScanInv
  <2>2. /\ iter'[t].node = iter[t].node /\ iter'[t].ctx = iter[t].ctx
        /\ iter'[t].since = iter[t].since \cup {node[n].id}
    BY <1>1, <1>3, <1>10, <1>17, NotedIs
  <2>3. /\ IsFiniteSet(iter'[t].since)
        /\ Undisturbed(t)' => Undisturbed(t) /\ node[iter[t].node].id # node[n].id
    BY <1>1, <1>3, <1>10, <1>17, <2>1, StillUndisturbed, Zenon
  <2>4. HasContext(t)' => HasContext(t) /\ ContextOf(t)' = ContextOf(t)
    <3>1. CASE iter[t].ctx = a /\ started
      BY <1>9, <1>17, <2>2, <3>1 DEF HasContext, ContextOf
    <3>2. CASE iter[t].ctx # a \/ ~started
      <4>1. vle'[iter[t].ctx] = vle[iter[t].ctx]
        BY <1>9, <2>1, <3>2
      <4> QED
        BY <2>2, <4>1 DEF HasContext, ContextOf
    <3> QED
      BY <3>1, <3>2
  <2>5. ASSUME Undisturbed(t)'
        PROVE  HasContext(t)' /\ ContextOf(t)'.dirty /\ Placed(t)'
    <3>1. Undisturbed(t) /\ node[iter[t].node].id # node[n].id /\ HasContext(t) /\ ContextOf(t).dirty
      BY <2>1, <2>3, <2>5
    <3>2. iter[t].ctx # a
      BY <1>8, <2>1, <3>1 DEF ContextOf
    <3>3. vle'[iter[t].ctx] = vle[iter[t].ctx]
      BY <1>9, <2>1, <3>2
    <3>4. HasContext(t)' /\ ContextOf(t)'.dirty
      BY <2>2, <3>1, <3>3 DEF HasContext, ContextOf
    <3>5. PICK p \in 1 .. Len(list) :
              /\ list[p] = iter[t].ctx
              /\ \A j \in 1 .. Len(list) : j < p => vle[list[j]].id \in iter[t].since
      BY <2>1, <3>1 DEF Placed
    <3>6. p # i
      BY <1>7, <3>2, <3>5
    <3>7. PICK k \in 1 .. Len(list) : k = IF i < p THEN p ELSE p + 1
      BY <1>4, <3>6
    <3>8. list'[k] = iter'[t].ctx
      <4>1. h(k) = p
        BY <1>4, <3>6, <3>7 DEF h
      <4> QED
        BY <1>5, <2>2, <3>5, <4>1
    <3>9. ASSUME NEW j \in 1 .. Len(list), j < k PROVE vle'[list'[j]].id \in iter'[t].since
      <4>1. h(j) = i \/ h(j) < p
        BY <1>4, <3>6, <3>7, <3>9 DEF h
      <4>2. h(j) \in 1 .. Len(list)
        BY <1>6
      <4>3. CASE h(j) = i
        BY <1>4, <1>14, <2>2, <4>3
      <4>4. CASE h(j) < p
        BY <1>14, <2>2, <3>5, <4>2, <4>4
      <4> QED
        BY <4>1, <4>3, <4>4
    <3>10. Placed(t)'
      BY <1>5, <3>8, <3>9 DEF Placed
    <3> QED
      BY <3>4, <3>10
  <2> QED
    BY <1>3, <2>1, <2>2, <2>3, <2>4, <2>5 DEF ScanInv
<1>18. ScanInv(s)'
  <2>1. CASE ~started
    BY <1>10, <2>1 DEF ScanInv
  <2>2. CASE started
    <3>1. iter'[s].node = n /\ iter'[s].ctx = a /\ iter'[s].since = {}
      BY <1>10, <2>2
    <3>2. HasContext(s)' /\ ContextOf(s)'.dirty /\ ContextOf(s)'.id = node[n].id
      BY <1>8, <1>9, <2>2, <3>1 DEF HasContext, ContextOf
    <3>3. Placed(s)'
      <4>1. 1 \in 1 .. Len(list) /\ h(1) = i
        BY <1>4 DEF h
      <4>2. list'[1] = a
        BY <1>5, <1>7, <4>1
      <4>3. \A j \in 1 .. Len(list) : ~(j < 1)
        BY <1>4
      <4> QED
        BY <1>5, <3>1, <4>1, <4>2, <4>3 DEF Placed
    <3> QED
      BY <1>3, <3>1, <3>2, <3>3, FS_EmptySet DEF ScanInv
  <2> QED
    BY <2>1, <2>2
<1> QED
  BY <1>11, <1>12, <1>15, <1>16, <1>17, <1>18 DEF IInv

\* Contexts are taken out of the list and freed, and those that are left keep
\* their order, before a new context is built: the invariant is kept, if none of
\* them is the context of a scan that stays undisturbed.
LEMMA CutKeeps ==
    ASSUME IInv, NEW s \in Scans, NEW n \in Nodes, Opens(s, n),
           building' = <<s, n>>, iter' = Noted(n),
           UNCHANGED <<unique_counter, next_id, node, clock, ggctx, made>>,
           list' \in Seq(VleAddrs), Len(list') \in Nat, Len(list') <= MaxCached,
           vle' \in [VleAddrs -> VleType \cup {Free}],
           \A b \in VleAddrs : vle'[b] = Free \/ vle'[b] = vle[b],
           NEW H \in [1 .. Len(list') -> 1 .. Len(list)],
           \A j, k \in 1 .. Len(list') : j < k => H[j] < H[k],
           \A j \in 1 .. Len(list') :
               /\ list'[j] = list[H[j]] /\ vle'[list[H[j]]] # Free
               /\ vle[list[H[j]]].id # node[n].id,
           \A t \in Scans : iter[t] # None /\ Undisturbed(t)' /\ Placed(t) =>
               \E k \in 1 .. Len(list') : list'[k] = iter[t].ctx
    PROVE  IInv'
<1>1. /\ TypeOK /\ NodeInv /\ ListInv /\ CtxInv
      /\ \A t \in Scans : ScanInv(t)
  BY DEF IInv
<1>2. /\ node[n] # None /\ iter[s] = None /\ building' # None /\ ops' \in 0 .. MaxOps
      /\ <<s, n>>[1] = s /\ <<s, n>>[2] = n
  BY <1>1, BoundAssumption, NoneAssumption DEF Opens, TypeOK
<1>3. /\ Len(list) \in Nat /\ MaxCached \in Nat
      /\ \A j \in 1 .. Len(list) : list[j] \in VleAddrs
  BY <1>1, ListFacts
<1>4. \A j \in 1 .. Len(list') :
          /\ H[j] \in 1 .. Len(list) /\ list'[j] \in VleAddrs
          /\ vle'[list'[j]] # Free /\ vle'[list'[j]] = vle[list[H[j]]]
  BY <1>3
<1>5. TypeOK'
  <2>1. iter' \in [Scans -> IterType \cup {None}]
    <3>1. iter' = [t \in Scans |-> iter'[t]]
      BY DEF Noted
    <3>2. \A t \in Scans : iter'[t] \in IterType \cup {None}
      BY <1>1, <1>2, NotedIs
    <3> QED
      BY <3>1, <3>2
  <2> QED
    BY <1>1, <1>2, <2>1 DEF TypeOK, clock
<1>6. NodeInv'
  BY <1>1 DEF NodeInv
<1>7. ListInv'
  <2>1. ASSUME NEW j \in 1 .. Len(list'), NEW k \in 1 .. Len(list'), j # k
        PROVE  list'[j] # list'[k] /\ vle'[list'[j]].id # vle'[list'[k]].id
    <3>1. H[j] # H[k]
      <4>1. j < k \/ k < j
        BY <2>1
      <4>2. H[j] \in Int /\ H[k] \in Int /\ (H[j] < H[k] \/ H[k] < H[j])
        BY <1>3, <1>4, <4>1
      <4> QED
        BY <4>2
    <3>2. list[H[j]] # list[H[k]] /\ vle[list[H[j]]].id # vle[list[H[k]]].id
      BY <1>1, <1>4, <3>1 DEF ListInv
    <3> QED
      BY <1>4, <3>2
  <2>2. Len(list') <= MaxCached + 1
    BY <1>3
  <2> QED
    BY <1>4, <2>1, <2>2 DEF ListInv
<1>8. BuildInv'
  <2>1. iter'[s] = None
    BY <1>1, <1>2, NotedIs
  <2>2. \A j \in 1 .. Len(list') : vle'[list'[j]].id # node[n].id
    BY <1>4, SMTT(60)
  <2>3. \A t \in Scans : iter'[t] # None => node[n].id \in iter'[t].since
    BY <1>1, <1>2, NotedIs
  <2> QED
    BY <1>2, <2>1, <2>2, <2>3 DEF BuildInv
<1>9. CtxInv'
  <2>1. ASSUME NEW b \in VleAddrs, vle'[b] # Free
        PROVE  /\ node[vle'[b].for] # None /\ vle'[b].id = node[vle'[b].for].id
               /\ ~vle'[b].changed =>
                      /\ ggctx[vle'[b].ptr] # Free /\ Valid(ggctx[vle'[b].ptr])
                      /\ ggctx[vle'[b].ptr].no = vle'[b].made
                      /\ ggctx[vle'[b].ptr].scope = node[vle'[b].for].scope
    <3>1. vle'[b] = vle[b]
      BY <2>1
    <3> QED
      BY <1>1, <2>1, <3>1 DEF CtxInv
  <2> QED
    BY <2>1, ClockKeeps DEF CtxInv
<1>10. ASSUME NEW t \in Scans PROVE ScanInv(t)'
  <2> SUFFICES ASSUME iter[t] # None PROVE ScanInv(t)'
    <3>1. iter[t] = None => iter'[t] = None
      BY <1>1, <1>2, NotedIs
    <3> QED
      BY <3>1 DEF ScanInv
  <2>1. /\ iter[t].node \in Nodes /\ iter[t].ctx \in VleAddrs
        /\ node[iter[t].node] # None /\ IsFiniteSet(iter[t].since)
        /\ HasContext(t) => ContextOf(t).id = node[iter[t].node].id
        /\ Undisturbed(t) => HasContext(t) /\ ContextOf(t).dirty /\ Placed(t)
    BY <1>1, IterFacts DEF ScanInv
  <2>2. /\ iter'[t].node = iter[t].node /\ iter'[t].ctx = iter[t].ctx
        /\ iter'[t].since = iter[t].since \cup {node[n].id}
    BY <1>1, <1>2, NotedIs
  <2>3. /\ IsFiniteSet(iter'[t].since)
        /\ Undisturbed(t)' => Undisturbed(t) /\ node[iter[t].node].id # node[n].id
    BY <1>1, <1>2, <2>1, StillUndisturbed
  <2>4. vle'[iter[t].ctx] = Free \/ vle'[iter[t].ctx] = vle[iter[t].ctx]
    BY <2>1
  <2>5. HasContext(t)' => HasContext(t) /\ ContextOf(t)' = ContextOf(t)
    BY <2>2, <2>4 DEF HasContext, ContextOf
  <2>6. ASSUME Undisturbed(t)'
        PROVE  HasContext(t)' /\ ContextOf(t)'.dirty /\ Placed(t)'
    <3>1. HasContext(t) /\ ContextOf(t).dirty /\ Placed(t)
      BY <2>1, <2>3, <2>6
    <3>2. PICK k \in 1 .. Len(list') : list'[k] = iter[t].ctx
      BY <2>6, <3>1
    <3>3. vle'[iter[t].ctx] = vle[iter[t].ctx]
      BY <1>4, <2>4, <3>2
    <3>4. HasContext(t)' /\ ContextOf(t)'.dirty
      BY <2>2, <3>1, <3>3 DEF HasContext, ContextOf
    <3>5. PICK p \in 1 .. Len(list) :
              /\ list[p] = iter[t].ctx
              /\ \A j \in 1 .. Len(list) : j < p => vle[list[j]].id \in iter[t].since
      BY <3>1 DEF Placed
    <3>6. H[k] = p
      BY <1>1, <1>4, <3>2, <3>5 DEF ListInv
    <3>7. \A j \in 1 .. Len(list') : j < k => vle'[list'[j]].id \in iter'[t].since
      BY <1>4, <2>2, <3>5, <3>6, ZenonT(60)
    <3>8. Placed(t)'
      BY <2>2, <3>2, <3>7 DEF Placed
    <3> QED
      BY <3>4, <3>8
  <2> QED
    BY <2>1, <2>2, <2>3, <2>5, <2>6 DEF ScanInv
<1> QED
  BY <1>5, <1>6, <1>7, <1>8, <1>9, <1>10 DEF IInv

\* A context with the number that cannot be used again is freed.
LEMMA DiscardKeeps ==
    ASSUME IInv, NEW s \in Scans, NEW n \in Nodes, Discard(s, n)
    PROVE  IInv'
<1>1. TypeOK /\ ListInv /\ \A t \in Scans : ScanInv(t)
  BY DEF IInv
<1>2. /\ Opens(s, n) /\ building' = <<s, n>> /\ iter' = Noted(n) /\ node[n] # None
      /\ UNCHANGED <<unique_counter, next_id, node, clock, ggctx, made>>
  BY DEF Discard, Opens
<1>3. PICK i \in Hits(n) : vle' = [vle EXCEPT ![list[i]] = Free] /\ list' = RemoveAt(list, i)
  BY DEF Discard, Unlinked
<1>4. /\ Len(list) \in Nat /\ MaxCached \in Nat
      /\ i \in 1 .. Len(list) /\ vle[list[i]].id = node[n].id
      /\ \A j \in 1 .. Len(list) : list[j] \in VleAddrs
  BY <1>1, ListFacts DEF Hits, Looked
<1>5. /\ list' \in Seq(VleAddrs) /\ Len(list') = Len(list) - 1
      /\ \A j \in 1 .. Len(list) - 1 : list'[j] = IF j < i THEN list[j] ELSE list[j + 1]
  <2>1. list \in Seq(VleAddrs)
    BY <1>1 DEF TypeOK
  <2> QED
    BY <1>3, <1>4, <2>1, RemoveAtIs
<1>6. Len(list') \in Nat /\ Len(list') <= MaxCached
  BY <1>1, <1>4, <1>5 DEF ListInv
<1>7. PICK H : H = [j \in 1 .. Len(list') |-> IF j < i THEN j ELSE j + 1]
  OBVIOUS
<1>8. /\ H \in [1 .. Len(list') -> 1 .. Len(list)]
      /\ \A j \in 1 .. Len(list') : H[j] # i
      /\ \A j, k \in 1 .. Len(list') : j < k => H[j] < H[k]
      /\ \A p \in 1 .. Len(list) : p # i => \E k \in 1 .. Len(list') : H[k] = p
  <2>1. \A j \in 1 .. Len(list') : H[j] = IF j < i THEN j ELSE j + 1
    BY <1>7
  <2>2. \A j \in 1 .. Len(list') : H[j] \in 1 .. Len(list) /\ H[j] # i
    BY <1>4, <1>5, <2>1
  <2>3. \A j, k \in 1 .. Len(list') : j < k => H[j] < H[k]
    BY <1>4, <1>5, <2>1
  <2>4. ASSUME NEW p \in 1 .. Len(list), p # i PROVE \E k \in 1 .. Len(list') : H[k] = p
    <3>1. CASE p < i
      <4>1. p \in 1 .. Len(list') /\ H[p] = p
        BY <1>4, <1>5, <2>1, <3>1
      <4> QED
        BY <4>1
    <3>2. CASE ~(p < i)
      <4>1. p - 1 \in 1 .. Len(list') /\ ~(p - 1 < i) /\ (p - 1) + 1 = p
        BY <1>4, <1>5, <2>4, <3>2
      <4>2. H[p - 1] = p
        BY <2>1, <4>1
      <4> QED
        BY <4>1, <4>2
    <3> QED
      BY <3>1, <3>2
  <2> QED
    BY <1>7, <2>2, <2>3, <2>4
<1>9. \A j \in 1 .. Len(list') : list'[j] = list[H[j]]
  BY <1>5, <1>7
<1>10. /\ vle' \in [VleAddrs -> VleType \cup {Free}]
       /\ \A b \in VleAddrs : b # list[i] => vle'[b] = vle[b]
       /\ \A b \in VleAddrs : vle'[b] = Free \/ vle'[b] = vle[b]
  BY <1>1, <1>3, <1>4 DEF TypeOK
<1>11. \A j \in 1 .. Len(list') :
           /\ list'[j] = list[H[j]] /\ vle'[list[H[j]]] # Free
           /\ vle[list[H[j]]].id # node[n].id
  <2> SUFFICES ASSUME NEW j \in 1 .. Len(list')
               PROVE  vle'[list[H[j]]] # Free /\ vle[list[H[j]]].id # node[n].id
    BY <1>9
  <2>1. H[j] \in 1 .. Len(list) /\ H[j] # i
    BY <1>8
  <2>2. /\ vle[list[H[j]]] # Free /\ list[H[j]] # list[i]
        /\ vle[list[H[j]]].id # vle[list[i]].id
    BY <1>1, <1>4, <2>1 DEF ListInv
  <2> QED
    BY <1>4, <1>10, <2>1, <2>2
<1>12. ASSUME NEW t \in Scans, iter[t] # None, Undisturbed(t)', Placed(t)
       PROVE  \E k \in 1 .. Len(list') : list'[k] = iter[t].ctx
  <2>1. PICK p \in 1 .. Len(list) : list[p] = iter[t].ctx
    BY <1>12 DEF Placed
  <2>2. Undisturbed(t) /\ node[iter[t].node].id # node[n].id
    BY <1>1, <1>2, <1>12, StillUndisturbed DEF ScanInv
  <2>3. vle[list[p]].id = node[iter[t].node].id
    BY <1>1, <1>12, <2>1, <2>2 DEF ScanInv, ContextOf
  <2>4. p # i
    BY <1>4, <2>2, <2>3
  <2>5. PICK k \in 1 .. Len(list') : H[k] = p
    BY <1>8, <2>4
  <2> QED
    BY <1>9, <2>1, <2>5
<1> QED
  BY <1>2, <1>5, <1>6, <1>8, <1>10, <1>11, <1>12, CutKeeps, Zenon

\* A scan with at most MaxCached other numbers since has its context among the
\* first MaxCached, when its list holds none with the number now looked for.
LEMMA KeptIfPlaced ==
    ASSUME IInv, NEW n \in Nodes, node[n] # None, Hits(n) = {},
           NEW t \in Scans, iter[t] # None, NEW p \in 1 .. Len(list),
           \A j \in 1 .. Len(list) : j < p => vle[list[j]].id \in iter[t].since,
           Cardinality(iter[t].since \cup {node[n].id}) <= MaxCached
    PROVE  p <= MaxCached
<1>1. TypeOK /\ ListInv /\ IsFiniteSet(iter[t].since)
  BY DEF IInv, ScanInv
<1>2. Len(list) \in Nat /\ MaxCached \in Nat
  BY <1>1, ListFacts
<1> SUFFICES ASSUME MaxCached < p PROVE FALSE
  BY <1>2
<1>3. Looked = 1 .. MaxCached /\ MaxCached < Len(list)
  BY <1>2 DEF Looked
<1> DEFINE I == 1 .. MaxCached
           T == iter[t].since \ {node[n].id}
           f == [j \in I |-> vle[list[j]].id]
<1>4. \A j \in I : j \in 1 .. Len(list) /\ j < p /\ vle[list[j]].id # node[n].id
  BY <1>2, <1>3 DEF Hits
<1>5. f \in Injection(I, T)
  <2>1. \A j \in I : f[j] \in T
    BY <1>4
  <2>2. \A j, k \in I : f[j] = f[k] => j = k
    BY <1>1, <1>4 DEF ListInv
  <2> QED
    BY <2>1, <2>2 DEF Injection, IsInjective
<1>6. IsFiniteSet(T) /\ Cardinality(T) \in Nat
  BY <1>1, FS_Difference, FS_CardinalityType
<1> HIDE DEF f, T
<1>7. Cardinality(I) <= Cardinality(T)
  BY <1>5, <1>6, FS_Injection
<1>8. Cardinality(I) = MaxCached
  BY <1>2, FS_Interval
<1>9. /\ T \cup {node[n].id} = iter[t].since \cup {node[n].id}
      /\ node[n].id \notin T
  BY DEF T
<1>10. Cardinality(T \cup {node[n].id}) = Cardinality(T) + 1
  BY <1>6, <1>9, FS_AddElement
<1>11. MaxCached <= Cardinality(T)
  BY <1>7, <1>8
<1>12. Cardinality(T) + 1 <= MaxCached
  BY <1>9, <1>10
<1> QED
  BY <1>2, <1>6, <1>11, <1>12

\* No context with the number is found, and those beyond are freed.
LEMMA PurgeKeeps ==
    ASSUME IInv, NEW s \in Scans, NEW n \in Nodes, Purge(s, n)
    PROVE  IInv'
<1>1. TypeOK /\ ListInv /\ \A t \in Scans : ScanInv(t)
  BY DEF IInv
<1>2. /\ Opens(s, n) /\ building' = <<s, n>> /\ iter' = Noted(n) /\ node[n] # None
      /\ UNCHANGED <<unique_counter, next_id, node, clock, ggctx, made>> /\ Hits(n) = {}
  BY DEF Purge, Opens
<1>3. /\ Len(list) \in Nat /\ MaxCached \in Nat /\ list \in Seq(VleAddrs)
      /\ \A j \in 1 .. Len(list) : list[j] \in VleAddrs
  BY <1>1, ListFacts DEF TypeOK
<1>4. PICK K \in 0 .. Len(list) : K = KeptSize
  BY <1>3 DEF KeptSize
<1>5. /\ K <= MaxCached /\ Looked = 1 .. K
      /\ \A p \in 1 .. Len(list) : p <= MaxCached => p <= K
  BY <1>3, <1>4 DEF KeptSize, Looked
<1>6. /\ vle' = [a \in VleAddrs |-> IF a \in {list[i] : i \in K + 1 .. Len(list)} THEN Free ELSE vle[a]]
      /\ list' = SubSeq(list, 1, K)
  BY <1>4 DEF Purge
<1>7. /\ list' \in Seq(VleAddrs) /\ Len(list') = K
      /\ \A j \in 1 .. K : list'[j] = list[j]
  BY <1>3, <1>6, PrefixIs
<1>8. PICK H : H = [j \in 1 .. Len(list') |-> j]
  OBVIOUS
<1>9. /\ H \in [1 .. Len(list') -> 1 .. Len(list)]
      /\ \A j \in 1 .. Len(list') : H[j] = j
      /\ \A j, k \in 1 .. Len(list') : j < k => H[j] < H[k]
  <2>1. \A j \in 1 .. Len(list') : H[j] = j /\ j \in 1 .. Len(list)
    BY <1>3, <1>7, <1>8
  <2> QED
    BY <1>8, <2>1
<1>10. /\ vle' \in [VleAddrs -> VleType \cup {Free}]
       /\ \A b \in VleAddrs : vle'[b] = Free \/ vle'[b] = vle[b]
       /\ \A b \in VleAddrs : (\A i \in K + 1 .. Len(list) : b # list[i]) => vle'[b] = vle[b]
  BY <1>1, <1>6 DEF TypeOK
<1>11. \A j \in 1 .. Len(list') :
           /\ list'[j] = list[H[j]] /\ vle'[list[H[j]]] # Free
           /\ vle[list[H[j]]].id # node[n].id
  <2> SUFFICES ASSUME NEW j \in 1 .. K
               PROVE  vle'[list[j]] # Free /\ vle[list[j]].id # node[n].id
    BY <1>7, <1>9
  <2>1. j \in 1 .. Len(list) /\ \A i \in K + 1 .. Len(list) : i \in 1 .. Len(list) /\ i # j
    BY <1>3
  <2>2. \A i \in K + 1 .. Len(list) : list[j] # list[i]
    BY <1>1, <2>1 DEF ListInv
  <2>3. vle[list[j]] # Free
    BY <1>1, <2>1 DEF ListInv
  <2>4. vle[list[j]].id # node[n].id
    BY <1>2, <1>5 DEF Hits
  <2> QED
    BY <1>3, <1>10, <2>1, <2>2, <2>3, <2>4
<1>12. ASSUME NEW t \in Scans, iter[t] # None, Undisturbed(t)', Placed(t)
       PROVE  \E k \in 1 .. Len(list') : list'[k] = iter[t].ctx
  <2>1. PICK p \in 1 .. Len(list) :
            /\ list[p] = iter[t].ctx
            /\ \A j \in 1 .. Len(list) : j < p => vle[list[j]].id \in iter[t].since
    BY <1>12 DEF Placed
  <2>2. Cardinality(iter[t].since \cup {node[n].id}) <= MaxCached
    BY <1>1, <1>2, <1>12, StillUndisturbed DEF ScanInv
  <2>3. p <= MaxCached
    BY <1>2, <1>12, <2>1, <2>2, KeptIfPlaced
  <2>4. p \in 1 .. K
    BY <1>5, <2>3
  <2> QED
    BY <1>7, <2>1, <2>4
<1>13. Len(list') \in Nat /\ Len(list') <= MaxCached
  BY <1>5, <1>7
<1> QED
  BY <1>2, <1>7, <1>9, <1>10, <1>11, <1>12, <1>13, CutKeeps, ZenonT(60)

\* A context is built and linked at the head.
LEMMA BuildKeeps ==
    ASSUME IInv, NEW s \in Scans, NEW n \in Nodes, Build(s, n)
    PROVE  IInv'
<1>1. /\ TypeOK /\ NodeInv /\ ListInv /\ CtxInv
      /\ \A t \in Scans : ScanInv(t)
  BY DEF IInv
<1>2. /\ building' = None /\ UNCHANGED <<unique_counter, next_id, node, clock, ops>>
  BY DEF Build
<1>3. /\ node[n] # None /\ iter[s] = None /\ Len(list) <= MaxCached
      /\ \A i \in 1 .. Len(list) : vle[list[i]].id # node[n].id
      /\ \A t \in Scans : iter[t] # None => node[n].id \in iter[t].since
  <2>1. BuildInv /\ building = <<s, n>> /\ building # None
    BY NoneAssumption DEF IInv, Build
  <2>2. building[1] = s /\ building[2] = n
    BY <2>1
  <2> QED
    BY <2>1, <2>2 DEF BuildInv
<1>4. PICK g \in GraphAddrs, a \in VleAddrs :
          /\ Manage(node[n].scope, g)
          /\ vle[a] = Free
          /\ vle' = [vle EXCEPT ![a] =
                 [id |-> node[n].id, for |-> n, by |-> s, ptr |-> g,
                  made |-> ggctx'[g].no, dirty |-> TRUE, changed |-> FALSE]]
          /\ list' = <<a>> \o list
          /\ iter' = [iter EXCEPT ![s] = [node |-> n, ctx |-> a, since |-> {}]]
  BY DEF Build
<1>5. node[n].id \in Int /\ node[n].scope \in Scopes
  BY <1>1, <1>3, NodeFacts
<1>6. /\ ggctx' \in [GraphAddrs -> GraphType \cup {Free}]
      /\ made' \in 0 .. MaxMade
      /\ \A x \in GraphAddrs : ggctx[x] # Free /\ Valid(ggctx[x]) => ggctx'[x] = ggctx[x]
      /\ ggctx'[g] # Free /\ ggctx'[g] \in GraphType /\ Valid(ggctx'[g])
      /\ ggctx'[g].scope = node[n].scope
  BY <1>1, <1>4, <1>5, ManageIs
<1>7. ggctx'[g].no \in 1 .. MaxMade
  BY <1>6 DEF GraphType
<1>8. PICK c : c = [id |-> node[n].id, for |-> n, by |-> s, ptr |-> g,
                    made |-> ggctx'[g].no, dirty |-> TRUE, changed |-> FALSE]
  OBVIOUS
<1>9. /\ c \in VleType /\ c.id = node[n].id /\ c.for = n /\ c.by = s /\ c.ptr = g
      /\ c.made = ggctx'[g].no /\ c.dirty
  BY <1>5, <1>7, <1>8 DEF VleType
<1>10. c # Free
  BY <1>9, FreeAssumption
<1>11. /\ vle'[a] = c /\ \A b \in VleAddrs : b # a => vle'[b] = vle[b]
       /\ vle' \in [VleAddrs -> VleType \cup {Free}]
  BY <1>1, <1>4, <1>8, <1>9 DEF TypeOK
<1>12. /\ Len(list) \in Nat /\ MaxCached \in Nat
       /\ \A j \in 1 .. Len(list) : list[j] \in VleAddrs
  BY <1>1, ListFacts
<1>13. /\ list' \in Seq(VleAddrs) /\ Len(list') = Len(list) + 1 /\ list'[1] = a
       /\ \A j \in 2 .. Len(list) + 1 : list'[j] = list[j - 1]
  <2>1. list \in Seq(VleAddrs)
    BY <1>1 DEF TypeOK
  <2> QED
    BY <1>4, <2>1, ConsIs
<1>14. \A j \in 2 .. Len(list) + 1 :
           /\ j - 1 \in 1 .. Len(list)
           /\ list'[j] # a /\ vle'[list'[j]] # Free
           /\ vle'[list'[j]] = vle[list[j - 1]] /\ vle'[list'[j]].id # node[n].id
  <2> SUFFICES ASSUME NEW j \in 2 .. Len(list) + 1
               PROVE  /\ j - 1 \in 1 .. Len(list)
                      /\ list'[j] # a /\ vle'[list'[j]] # Free
                      /\ vle'[list'[j]] = vle[list[j - 1]] /\ vle'[list'[j]].id # node[n].id
    OBVIOUS
  <2>1. j - 1 \in 1 .. Len(list) /\ list'[j] = list[j - 1]
    BY <1>12, <1>13
  <2>2. vle[list[j - 1]] # Free /\ vle[list[j - 1]].id # node[n].id /\ list[j - 1] \in VleAddrs
    BY <1>1, <1>3, <1>12, <2>1 DEF ListInv
  <2>3. list[j - 1] # a
    BY <1>4, <2>2
  <2> QED
    BY <1>11, <2>1, <2>2, <2>3
<1>15. /\ iter' \in [Scans -> IterType \cup {None}]
       /\ \A t \in Scans : t # s => iter'[t] = iter[t]
       /\ iter'[s].node = n /\ iter'[s].ctx = a /\ iter'[s].since = {}
  <2>1. PICK r : r = [node |-> n, ctx |-> a, since |-> {}]
    OBVIOUS
  <2>2. r \in IterType /\ r.node = n /\ r.ctx = a /\ r.since = {}
    BY <2>1 DEF IterType
  <2> QED
    BY <1>1, <1>4, <2>1, <2>2 DEF TypeOK
<1>16. TypeOK'
  BY <1>1, <1>2, <1>6, <1>11, <1>13, <1>15 DEF TypeOK, clock
<1>17. NodeInv' /\ BuildInv'
  BY <1>1, <1>2 DEF NodeInv, BuildInv
<1>18. ListInv'
  <2>1. ASSUME NEW j \in 1 .. Len(list) + 1
        PROVE  vle'[list'[j]] # Free /\ (j # 1 => j \in 2 .. Len(list) + 1)
    <3>1. j # 1 => j \in 2 .. Len(list) + 1
      BY <1>12
    <3> QED
      BY <1>10, <1>11, <1>13, <1>14, <3>1
  <2>2. ASSUME NEW j \in 1 .. Len(list) + 1, NEW k \in 1 .. Len(list) + 1, j # k
        PROVE  list'[j] # list'[k] /\ vle'[list'[j]].id # vle'[list'[k]].id
    <3>1. CASE j = 1
      BY <1>9, <1>11, <1>13, <1>14, <2>1, <2>2, <3>1
    <3>2. CASE k = 1
      BY <1>9, <1>11, <1>13, <1>14, <2>1, <2>2, <3>2
    <3>3. CASE j # 1 /\ k # 1
      <4>1. j - 1 \in 1 .. Len(list) /\ k - 1 \in 1 .. Len(list) /\ j - 1 # k - 1
        BY <1>12, <2>2, <3>3
      <4>2. list[j - 1] # list[k - 1] /\ vle[list[j - 1]].id # vle[list[k - 1]].id
        BY <1>1, <4>1 DEF ListInv
      <4> QED
        BY <1>13, <1>14, <2>1, <3>3, <4>2
    <3> QED
      BY <3>1, <3>2, <3>3
  <2>3. Len(list') <= MaxCached + 1
    BY <1>3, <1>12, <1>13
  <2> QED
    BY <1>13, <2>1, <2>2, <2>3 DEF ListInv
<1>19. CtxInv'
  <2>1. ASSUME NEW b \in VleAddrs, vle'[b] # Free
        PROVE  /\ node[vle'[b].for] # None /\ vle'[b].id = node[vle'[b].for].id
               /\ ~vle'[b].changed =>
                      /\ ggctx'[vle'[b].ptr] # Free /\ Valid(ggctx'[vle'[b].ptr])
                      /\ ggctx'[vle'[b].ptr].no = vle'[b].made
                      /\ ggctx'[vle'[b].ptr].scope = node[vle'[b].for].scope
    <3>1. CASE b = a
      BY <1>3, <1>6, <1>9, <1>11, <3>1
    <3>2. CASE b # a
      <4>1. vle'[b] = vle[b] /\ vle[b].ptr \in GraphAddrs
        BY <1>1, <1>11, <2>1, <3>2, VleFacts
      <4>2. /\ node[vle[b].for] # None /\ vle[b].id = node[vle[b].for].id
            /\ ~vle[b].changed =>
                   /\ ggctx[vle[b].ptr] # Free /\ Valid(ggctx[vle[b].ptr])
                   /\ ggctx[vle[b].ptr].no = vle[b].made
                   /\ ggctx[vle[b].ptr].scope = node[vle[b].for].scope
        BY <1>1, <2>1, <4>1 DEF CtxInv
      <4>3. ~vle[b].changed => ggctx'[vle[b].ptr] = ggctx[vle[b].ptr]
        BY <1>6, <4>1, <4>2
      <4> QED
        BY <4>1, <4>2, <4>3
    <3> QED
      BY <3>1, <3>2
  <2> QED
    BY <1>2, <2>1, ClockKeeps DEF CtxInv
<1>20. ASSUME NEW t \in Scans, t # s, iter[t] # None PROVE ScanInv(t)'
  <2>1. /\ iter[t].node \in Nodes /\ iter[t].ctx \in VleAddrs /\ iter'[t] = iter[t]
        /\ node[iter[t].node] # None /\ IsFiniteSet(iter[t].since)
        /\ HasContext(t) => ContextOf(t).id = node[iter[t].node].id
        /\ Undisturbed(t) => HasContext(t) /\ ContextOf(t).dirty /\ Placed(t)
    BY <1>1, <1>15, <1>20, IterFacts DEF ScanInv
  <2>2. Undisturbed(t)' <=> Undisturbed(t)
    BY <1>2, <2>1 DEF Undisturbed
  <2>3. HasContext(t)' <=> HasContext(t)
    BY <1>4, <1>9, <1>11, <1>20, <2>1 DEF HasContext, ContextOf
  <2>4. HasContext(t) => ContextOf(t)' = ContextOf(t)
    BY <1>4, <1>11, <2>1 DEF HasContext, ContextOf
  <2>5. ASSUME Placed(t) PROVE Placed(t)'
    <3>1. PICK p \in 1 .. Len(list) :
              /\ list[p] = iter[t].ctx
              /\ \A j \in 1 .. Len(list) : j < p => vle[list[j]].id \in iter[t].since
      BY <2>5 DEF Placed
    <3>2. p + 1 \in 1 .. Len(list') /\ p + 1 \in 2 .. Len(list) + 1 /\ (p + 1) - 1 = p
      BY <1>12, <1>13
    <3>3. list'[p + 1] = iter'[t].ctx
      BY <1>13, <2>1, <3>1, <3>2
    <3>4. ASSUME NEW j \in 1 .. Len(list'), j < p + 1 PROVE vle'[list'[j]].id \in iter'[t].since
      <4>1. CASE j = 1
        BY <1>3, <1>9, <1>11, <1>13, <1>20, <2>1, <4>1
      <4>2. CASE j # 1
        <5>1. j \in 2 .. Len(list) + 1 /\ j - 1 \in 1 .. Len(list) /\ j - 1 < p
          BY <1>12, <1>13, <3>4, <4>2
        <5> QED
          BY <1>14, <2>1, <3>1, <5>1
      <4> QED
        BY <4>1, <4>2
    <3> QED
      BY <3>2, <3>3, <3>4 DEF Placed
  <2> QED
    BY <1>2, <2>1, <2>2, <2>3, <2>4, <2>5 DEF ScanInv
<1>21. ScanInv(s)'
  <2>1. HasContext(s)' /\ ContextOf(s)'.dirty /\ ContextOf(s)'.id = node[n].id
    BY <1>9, <1>10, <1>11, <1>15 DEF HasContext, ContextOf
  <2>2. Placed(s)'
    <3>1. 1 \in 1 .. Len(list') /\ \A j \in 1 .. Len(list') : ~(j < 1)
      BY <1>12, <1>13
    <3> QED
      BY <1>13, <1>15, <3>1 DEF Placed
  <2> QED
    BY <1>2, <1>3, <1>15, <2>1, <2>2, FS_EmptySet DEF ScanInv
<1>22. ASSUME NEW t \in Scans PROVE ScanInv(t)'
  <2>1. CASE t = s
    BY <1>21, <2>1
  <2>2. CASE t # s /\ iter[t] # None
    BY <1>20, <2>2
  <2>3. CASE t # s /\ iter[t] = None
    BY <1>15, <2>3 DEF ScanInv
  <2> QED
    BY <2>1, <2>2, <2>3
<1> QED
  BY <1>16, <1>17, <1>18, <1>19, <1>22 DEF IInv

-----------------------------------------------------------------------------
(* The theorems.                                                             *)

\* The empty list of a session that begins.
LEMMA InitIInv == Init => IInv
<1> SUFFICES ASSUME Init PROVE IInv
  OBVIOUS
<1> USE DEF Init
<1>1. TypeOK
  BY BoundAssumption DEF TypeOK
<1>2. Len(list) = 0 /\ MaxCached \in Nat
  BY SizeAssumption
<1>3. NodeInv /\ BuildInv /\ CtxInv
  BY DEF NodeInv, BuildInv, CtxInv
<1>4. ListInv
  <2>1. \A i \in 1 .. Len(list) : FALSE
    BY <1>2
  <2> QED
    BY <1>2, <2>1 DEF ListInv
<1>5. \A s \in Scans : ScanInv(s)
  BY DEF ScanInv
<1> QED
  BY <1>1, <1>3, <1>4, <1>5 DEF IInv

\* Every step keeps the invariant.
LEMMA StepIInv == IInv /\ [Next]_vars => IInv'
<1> SUFFICES ASSUME IInv, [Next]_vars PROVE IInv'
  OBVIOUS
<1>1. CASE UNCHANGED vars
  BY <1>1, StutterKeeps
<1>2. ASSUME NEW n \in Nodes, NEW form \in Forms, NEW sc \in Scopes, Parse(n, form, sc) PROVE IInv'
  BY <1>2, ParseKeeps
<1>3. ASSUME NEW s \in Scans, NEW n \in Nodes, NEW started \in BOOLEAN, Reuse(s, n, started)
      PROVE  IInv'
  BY <1>3, ReuseKeeps
<1>4. ASSUME NEW s \in Scans, NEW n \in Nodes, Discard(s, n) PROVE IInv'
  BY <1>4, DiscardKeeps
<1>5. ASSUME NEW s \in Scans, NEW n \in Nodes, Purge(s, n) PROVE IInv'
  BY <1>5, PurgeKeeps
<1>6. ASSUME NEW s \in Scans, NEW n \in Nodes, Build(s, n) PROVE IInv'
  BY <1>6, BuildKeeps
<1>7. ASSUME NEW s \in Scans, NEW clean \in BOOLEAN, Finish(s, clean) PROVE IInv'
  BY <1>7, FinishKeeps
<1>8. ASSUME NEW S \in SUBSET Scans, Error(S) PROVE IInv'
  BY <1>8, ErrorKeeps
<1>9. ASSUME NEW g \in Graphs, Change(g) \/ RemoveVersion(g) PROVE IInv'
  BY <1>9, ChangeKeeps
<1>10. ASSUME NEW g \in Graphs, Delete(g) PROVE IInv'
  BY <1>10, DeleteKeeps
<1>11. ASSUME NEW sc \in Scopes, Other(sc) PROVE IInv'
  BY <1>11, OtherKeeps
<1>12. CASE Quiesce
  BY <1>12, StutterKeeps DEF Quiesce
<1>13. ASSUME NEW sn \in Snaps, TakeSnapshot(sn) PROVE IInv'
  BY <1>13, SnapshotKeeps
<1> QED
  BY <1>1, <1>2, <1>3, <1>4, <1>5, <1>6, <1>7, <1>8, <1>9, <1>10, <1>11, <1>12, <1>13 DEF Next

\* The invariant that the properties of the kept contexts follow from: where the
\* context of each open scan stands in the list, and what the list holds.
THEOREM Invariance == Spec => []IInv
<1>1. Init => IInv
  BY InitIInv
<1>2. IInv /\ [Next]_vars => IInv'
  BY StepIInv
<1> QED
  BY <1>1, <1>2, PTL DEF Spec

\* The list holds contexts in memory only, each once and one for a number, and at
\* most one more than MAXIMUM_NUMBER_OF_CACHED_LOCAL_CONTEXTS, whatever queries
\* get_cached_VLE_local_context serves and whatever errors break them off.
THEOREM ListIsSoundAlways == Spec => []ListIsSound
<1>1. IInv => ListIsSound
  BY DEF IInv, ListInv, ListIsSound
<1> QED
  BY <1>1, Invariance, PTL

\* A scan that stays open keeps its context, in the list and marked dirty, until
\* its own number or more than MaxCached other numbers are looked for.
THEOREM ActiveIsProtectedAlways == Spec => []ActiveIsProtected
<1>1. IInv => ActiveIsProtected
  <2> SUFFICES ASSUME IInv, NEW s \in Scans, Open(s), Undisturbed(s)
               PROVE  /\ HasContext(s) /\ ContextOf(s).dirty
                      /\ \E i \in 1 .. Len(list) : list[i] = iter[s].ctx
    BY DEF ActiveIsProtected
  <2>1. HasContext(s) /\ ContextOf(s).dirty /\ Placed(s)
    BY DEF IInv, ScanInv, Open
  <2> QED
    BY <2>1 DEF Placed
<1> QED
  BY <1>1, Invariance, PTL

\* The global context an open scan works on is the very one it was given, as long
\* as nothing changed that is_ggctx_invalid judges it by: its graph's counter,
\* or the snapshot where no counter decides; and its graph was not deleted.
THEOREM ExactGraphAlways == Spec => []ExactGraphIfUnchanged
<1>1. IInv => ExactGraphIfUnchanged
  <2> SUFFICES ASSUME IInv, NEW s \in Scans, Open(s), HasContext(s), ~ContextOf(s).changed
               PROVE  ggctx[ContextOf(s).ptr] # Free /\ ggctx[ContextOf(s).ptr].no = ContextOf(s).made
    BY DEF ExactGraphIfUnchanged
  <2>1. iter[s].ctx \in VleAddrs
    BY IterFacts DEF IInv, Open
  <2> QED
    BY <2>1 DEF IInv, CtxInv, HasContext, ContextOf
<1> QED
  BY <1>1, Invariance, PTL

\* A scan works on the context of its own edge, unless a written edge and a
\* rewritten chain have the same number from their two counters.
THEOREM ContextIsOwnAlways == Spec => []ContextIsOwn
<1>1. IInv => ContextIsOwn
  <2> SUFFICES ASSUME IInv, NEW s \in Scans, Open(s), HasContext(s),
                      ContextOf(s).for # iter[s].node
               PROVE  (node[ContextOf(s).for].form = "chain") # (node[iter[s].node].form = "chain")
    BY DEF ContextIsOwn
  <2>1. iter[s].ctx \in VleAddrs /\ iter[s].node \in Nodes
    BY IterFacts DEF IInv, Open
  <2>2. ContextOf(s).for \in Nodes
    BY <2>1, VleFacts DEF IInv, HasContext, ContextOf
  <2>3. /\ node[ContextOf(s).for] # None /\ ContextOf(s).id = node[ContextOf(s).for].id
    BY <2>1 DEF IInv, CtxInv, HasContext, ContextOf
  <2>4. node[iter[s].node] # None /\ ContextOf(s).id = node[iter[s].node].id
    BY DEF IInv, ScanInv, Open
  <2> QED
    BY <2>1, <2>2, <2>3, <2>4, ZenonT(60) DEF IInv, NodeInv
<1> QED
  BY <1>1, Invariance, PTL
=================================================================================
