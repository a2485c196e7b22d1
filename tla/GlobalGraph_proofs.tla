-------------------------- MODULE GlobalGraph_proofs --------------------------
(***************************************************************************)
(* The properties of GlobalGraph, for any number of backends, graphs,       *)
(* labels, transactions and statements.  IInv is the inductive invariant;   *)
(* what its parts say is explained where they are defined.                  *)
(***************************************************************************)
EXTENDS GlobalGraph, WellFoundedInduction, TLAPS

Over == {"committed", "aborted"}

\* A backend that is in a statement has an active snapshot.
Active(b) == pc[b] \in {"stmt", "bump", "end", "load", "returned"}

\* A backend that has changed rows and not ended its statement.
Writing == {"bump", "end"}

\* Transaction ids: those given out, those that are over, and whose they are.
XactInv ==
    /\ latest < next_xid
    /\ \A x \in Xids :
           /\ xact[x] = "unused" <=> x >= next_xid
           /\ xact[x] \in Over => x <= latest
    /\ \A b \in Backends :
           /\ xid[b] # 0 => xact[xid[b]] = "running"
           /\ cid[b] > 0 \/ pc[b] \in Writing => xid[b] # 0
    /\ \A b, d \in Backends : b # d /\ xid[b] = xid[d] => xid[b] = 0
    /\ \A ch \in changes : xact[ch.xid] # "unused"

\* A transaction of somebody else that is not over is invisible, and stays so.
\* With xmin = xmax every transaction below xmax is over.
SnapInv(b) ==
    Active(b) =>
        /\ \A x \in Xids : xact[x] \notin Over /\ x # xid[b] =>
               x >= snap[b].xmax \/ x \in snap[b].xip
        /\ snap[b].curcid = cid[b]
        /\ snap[b].xmax <= latest + 1
        /\ snap[b].xmin = snap[b].xmax =>
               /\ snap[b].xip = {}
               /\ \A x \in Xids : x < snap[b].xmax => xact[x] \in Over

\* The list: stamps are bounded and differ; only a load in progress, or one
\* that failed and left the mutex locked, has a context that is not loaded.
ListInv(b) ==
    /\ \E n \in Nat : \A c \in contexts[b] : c.stamp <= n
    /\ \A c, d \in contexts[b] : c.stamp = d.stamp => c = d
    /\ ~mutex[b] => \A c \in contexts[b] : c.loaded

\* What was asked for.
Asked == [label : Labels \cup {NoLabel}, parts : SUBSET Parts]

\* The context that is being loaded is the newest, and was asked for.
LoadInv(b) ==
    /\ pc[b] = "returned" => ~mutex[b]
    /\ pc[b] = "load" =>
           /\ mutex[b]
           /\ ret[b][1] \in contexts[b] /\ ret[b][1].graph = target[b]
           /\ ret[b][2] \in Asked
           /\ ret[b][4] = "new"
           /\ ~ret[b][1].loaded /\ ret[b][1].content = {}
           /\ ret[b][1].xmin = snap[b].xmin /\ ret[b][1].xmax = snap[b].xmax
           /\ ret[b][1].curcid = snap[b].curcid
           /\ \A c \in contexts[b] : c # ret[b][1] => c.loaded /\ c.stamp < ret[b][1].stamp

\* A context that has the whole graph satisfies every request, so none of the
\* graph is made after it while it is valid.
IsWhole(c) == c.label = NoLabel /\ c.parts = Parts
WholeInv(b) ==
    \A c, d \in contexts[b] : c.graph = d.graph /\ IsWhole(c) => d.stamp <= c.stamp

\* ReturnedUsable and StatsReloads, for one backend.
UsableInv(b) ==
    pc[b] = "returned" =>
        /\ Given(b) \in contexts[b] /\ Given(b).loaded
        /\ Given(b).graph = target[b] /\ Satisfies(Given(b), ret[b][2])
        /\ ret[b][2] \in Asked
        /\ ret[b][3] = "stats" => ret[b][4] = "new"

\* The life of the counter a context was built in is over or goes on.
EpochInv(b) == \A c \in contexts[b] : c.epoch <= removals[c.graph]

\* A change is in the tables and its counter is not raised yet.
Pending(ch) ==
    \E d \in Backends : /\ pc[d] = "bump"
                        /\ xid[d] = ch.xid /\ cid[d] = ch.cid /\ target[d] = ch.graph

Matches(c, ch) == ch.graph = c.graph /\ (c.label = NoLabel \/ ch.label = c.label)

\* A change of c's graph the counter is told of.
Counts(c, ch) == ch.graph = c.graph /\ ch.kind = "clause"

\* Context c of b has change ch, or will have it when it is loaded.
Known(b, c, ch) ==
    IF c.loaded THEN c.parts # {} /\ Matches(c, ch) => ch \in c.content
    ELSE Visible(b, ch) /\ ch.xid # xid[b]

\* With the counter, in the life of it a quiet context was built in: as long as
\* it stands where it stood then, every counted change of the graph is in the
\* context, was rolled back, or is about to raise the counter.  The counted
\* changes in the context are committed.
QuietCtx(b, c) ==
    /\ c.epoch = removals[c.graph] /\ c.quiet
    /\ c.loaded \/ (pc[b] = "load" /\ c = ret[b][1])
    =>
        /\ c.version <= version[c.graph]
        /\ \A ch \in c.content :
               /\ ch \in changes /\ Matches(c, ch)
               /\ Counts(c, ch) =>
                      xact[ch.xid] = "committed" /\ (Active(b) => Visible(b, ch))
        /\ ~c.loaded => \A ch \in changes : Counts(c, ch) => ch.xid # xid[b]
        /\ c.version = version[c.graph] => \A ch \in changes : Counts(c, ch) =>
               xact[ch.xid] = "aborted" \/ Pending(ch) \/ Known(b, c, ch)
QuietInv(b) == Counting => \A c \in contexts[b] : QuietCtx(b, c)

\* Without it: a context with xmin = xmax has what was committed below xmax and
\* the changes of its own transaction before curcid; and this is what a snapshot
\* with the same identifiers shows.
NoneCtx(b, c) ==
    c.loaded /\ c.parts # {} /\ c.xmin = c.xmax =>
        /\ c.xmax <= latest + 1
        /\ \A ch \in c.content : ch \in changes /\ Matches(c, ch)
        /\ c.xmax = latest + 1 =>
               /\ \A x \in Xids : x < c.xmax => xact[x] \in Over
               /\ c.curcid > 0 => xid[b] # 0 /\ cid[b] >= c.curcid
               /\ \A ch \in changes : Matches(c, ch) =>
                      (ch \in c.content <=>
                          \/ xact[ch.xid] = "committed" /\ ch.xid < c.xmax
                          \/ ch.xid = xid[b] /\ ch.cid < c.curcid)
        /\ Active(b) /\ c.xmax = snap[b].xmax /\ c.curcid = snap[b].curcid =>
               \A ch \in changes : Matches(c, ch) => (ch \in c.content <=> Visible(b, ch))
NoneInv(b) == ~Counting => \A c \in contexts[b] : NoneCtx(b, c)

\* ExactIfQuiet and ExactIfNoneRunning, for one backend.
ExactInv(b) ==
    pc[b] = "returned" =>
        /\ Counting /\ Given(b).quiet /\ SameEpoch(b) => ExactCounted(b)
        /\ ~Counting /\ Given(b).xmin = Given(b).xmax => Exact(b)

\* The inductive invariant: of the transactions, and of each backend.
BackendInv(b) ==
    /\ SnapInv(b)
    /\ ListInv(b) /\ LoadInv(b) /\ WholeInv(b) /\ UsableInv(b)
    /\ EpochInv(b) /\ QuietInv(b) /\ NoneInv(b) /\ ExactInv(b)
IInv ==
    /\ TypeOK /\ XactInv
    /\ ret = [b \in Backends |-> ret[b]]
    /\ \A b \in Backends : BackendInv(b)

-----------------------------------------------------------------------------
(* The least and the greatest of a set of numbers, and the newest context.   *)

\* A nonempty set of natural numbers has a least element.
LEMMA LeastNat ==
    ASSUME NEW S \in SUBSET Nat, S # {}
    PROVE  \E x \in S : \A y \in S : x <= y
<1> DEFINE R == OpToRel(<, Nat)
<1>1. PICK x \in S : \A y \in S : ~ (<<y, x>> \in R)
  BY NatLessThanWellFounded, WFMin
<1>2. \A m, n \in Nat : n < m => <<n, m>> \in R
  BY DEF OpToRel
<1>3. \A y \in S : x <= y
  <2> TAKE y \in S
  <2>1. x \in Nat /\ y \in Nat
    OBVIOUS
  <2>2. ~(y < x)
    BY <1>1, <1>2, <2>1
  <2> QED
    BY <2>1, <2>2
<1> QED
  BY <1>3

\* The oldest running transaction, in GetSnapshotData.
LEMMA LeastIs ==
    ASSUME NEW S \in SUBSET Nat, S # {}
    PROVE  Least(S) \in S /\ \A y \in S : Least(S) <= y
BY LeastNat DEF Least

\* A nonempty set of natural numbers with a bound has a greatest element.
LEMMA GreatestNat ==
    ASSUME NEW S \in SUBSET Nat, S # {}, NEW n \in Nat, \A x \in S : x <= n
    PROVE  \E x \in S : \A y \in S : y <= x
<1> DEFINE T == {m \in Nat : \A x \in S : x <= m}
<1>1. T \in SUBSET Nat /\ T # {}
  OBVIOUS
<1>2. PICK m \in T : \A y \in T : m <= y
  BY <1>1, LeastNat
<1>3. m \in S
  <2> SUFFICES ASSUME m \notin S PROVE FALSE
    OBVIOUS
  <2>1. \A x \in S : x < m
    OBVIOUS
  <2>2. PICK s \in S : s < m
    BY <2>1
  <2>3. m - 1 \in Nat /\ \A x \in S : x <= m - 1
    BY <2>1, <2>2
  <2>4. m - 1 \in T
    BY <2>3
  <2> QED
    BY <1>2, <2>4
<1> QED
  BY <1>3

\* The first context of a list: the one with the greatest stamp.
LEMMA NewestIs ==
    ASSUME NEW S, S # {}, NEW n \in Nat, \A c \in S : c.stamp \in Nat /\ c.stamp <= n
    PROVE  Newest(S) \in S /\ \A d \in S : d.stamp <= Newest(S).stamp
<1> DEFINE T == {c.stamp : c \in S}
<1>1. T \in SUBSET Nat /\ T # {} /\ \A x \in T : x <= n
  OBVIOUS
<1>2. PICK x \in T : \A y \in T : y <= x
  BY <1>1, GreatestNat
<1>3. PICK c \in S : c.stamp = x
  OBVIOUS
<1>4. \A d \in S : d.stamp <= c.stamp
  BY <1>2, <1>3
<1> QED
  BY <1>4 DEF Newest

-----------------------------------------------------------------------------
(* Types.                                                                   *)

SnapType == [xmin : Nat, xmax : Nat, xip : SUBSET Xids, curcid : Nat]

\* What TypeOK says of a snapshot, field by field.
LEMMA SnapFacts ==
    ASSUME TypeOK, NEW b \in Backends
    PROVE  /\ snap[b].xmin \in Nat /\ snap[b].xmax \in Nat /\ snap[b].curcid \in Nat
           /\ snap[b].xip \subseteq Xids
BY DEF TypeOK

\* The fields of a row change.
LEMMA ChangeFacts ==
    ASSUME TypeOK, NEW ch \in changes
    PROVE  /\ ch.graph \in Graphs /\ ch.label \in Labels /\ ch.xid \in Xids /\ ch.cid \in Nat
           /\ ch.kind \in Kinds
BY DEF TypeOK, Changes

\* The fields of a context in a list.
LEMMA ContextFacts ==
    ASSUME TypeOK, NEW b \in Backends, NEW c \in contexts[b]
    PROVE  /\ c \in Contexts
           /\ c.graph \in Graphs /\ c.label \in Labels \cup {NoLabel} /\ c.parts \subseteq Parts
           /\ c.version \in Nat /\ c.xmin \in Nat /\ c.xmax \in Nat /\ c.curcid \in Nat
           /\ c.stamp \in Nat /\ c.epoch \in Nat /\ c.loaded \in BOOLEAN /\ c.quiet \in BOOLEAN
           /\ c.content \subseteq Changes
<1>1. c \in Contexts
  BY DEF TypeOK
<1> QED
  BY <1>1 DEF Contexts

\* Transaction ids are the numbers from 1 to MaxXid; 0 is none.
LEMMA XidFacts ==
    /\ Xids \subseteq Nat /\ 0 \notin Xids
    /\ 0 .. MaxXid = Xids \cup {0}
    /\ \A n \in Nat : n \in Xids <=> 1 <= n /\ n <= MaxXid
BY BoundAssumption DEF Xids

\* GetSnapshotData, with the facts about it that SnapInv keeps.
LEMMA SnapshotIs ==
    ASSUME TypeOK, XactInv, NEW b \in Backends
    PROVE  /\ Snapshot(b) \in SnapType
           /\ Snapshot(b).xmax = latest + 1
           /\ Snapshot(b).curcid = cid[b]
           /\ Snapshot(b).xip = {x \in Running : x < latest + 1 /\ x # xid[b]}
           /\ Snapshot(b).xmin = Snapshot(b).xmax =>
                  \A x \in Running : ~(x < latest + 1)
<1> DEFINE S == {x \in Running : x < latest + 1} \cup {latest + 1}
<1>1. latest \in Nat /\ S \in SUBSET Nat /\ S # {} /\ Running \subseteq Xids /\ cid[b] \in Nat
  BY BoundAssumption DEF TypeOK, Running, Xids
<1>2. Least(S) \in S /\ \A y \in S : Least(S) <= y
  BY <1>1, LeastIs
<1>3. Least(S) \in Nat /\ (Least(S) = latest + 1 => \A x \in Running : ~(x < latest + 1))
  BY <1>1, <1>2
<1> HIDE DEF S
<1>4. Snapshot(b) = [xmin |-> Least(S), xmax |-> latest + 1,
                     xip |-> {x \in Running : x < latest + 1 /\ x # xid[b]},
                     curcid |-> cid[b]]
  BY DEF Snapshot, S
<1> QED
  BY <1>1, <1>3, <1>4 DEF SnapType

\* A context that is created, and one that is loaded, has its type.
LEMMA NewContextType ==
    ASSUME TypeOK, NEW b \in Backends, NEW g \in Graphs, NEW S \in SUBSET Contexts,
           NEW n \in Nat, \A c \in S : c.stamp <= n
    PROVE  /\ NewContext(b, S, g) \in Contexts
           /\ \A c \in S : c.stamp < NewContext(b, S, g).stamp
           /\ NewContext(b, S, g).graph = g /\ ~NewContext(b, S, g).loaded
           /\ NewContext(b, S, g).content = {}
           /\ NewContext(b, S, g).label = NoLabel /\ NewContext(b, S, g).parts = {}
           /\ NewContext(b, S, g).xmin = snap[b].xmin /\ NewContext(b, S, g).xmax = snap[b].xmax
           /\ NewContext(b, S, g).curcid = snap[b].curcid
           /\ Counting => NewContext(b, S, g).version = version[g]
           /\ NewContext(b, S, g).epoch = removals[g]
           /\ NewContext(b, S, g).quiet => \A ch \in changes : ch.graph = g /\ ch.kind = "clause" =>
                  xact[ch.xid] = "aborted" \/ (Visible(b, ch) /\ ch.xid # xid[b])
<1> DEFINE st == IF S = {} THEN 1 ELSE Newest(S).stamp + 1
           q == \A ch \in Counted(Of(g, NoLabel, changes)) :
                    xact[ch.xid] = "aborted" \/ (Visible(b, ch) /\ ch.xid # xid[b])
           v == IF Counting THEN version[g] ELSE 0
<1>1. \A c \in S : c.stamp \in Nat
  BY DEF Contexts
<1>2. S # {} => Newest(S) \in S /\ \A d \in S : d.stamp <= Newest(S).stamp
  BY <1>1, NewestIs
<1>3. st \in Nat /\ \A c \in S : c.stamp < st
  BY <1>1, <1>2
<1>4. q \in BOOLEAN /\ v \in Nat /\ (Counting => v = version[g]) /\ removals[g] \in Nat
  BY DEF TypeOK
<1>5. q => \A ch \in changes : ch.graph = g /\ ch.kind = "clause" =>
              xact[ch.xid] = "aborted" \/ (Visible(b, ch) /\ ch.xid # xid[b])
  BY DEF Of, Counted
<1>6. snap[b].xmin \in Nat /\ snap[b].xmax \in Nat /\ snap[b].curcid \in Nat
  BY DEF TypeOK
<1> HIDE DEF st, q, v
<1>7. NewContext(b, S, g) =
        [graph |-> g, label |-> NoLabel, parts |-> {}, version |-> v,
         xmin |-> snap[b].xmin, xmax |-> snap[b].xmax, curcid |-> snap[b].curcid,
         content |-> {}, loaded |-> FALSE, stamp |-> st, epoch |-> removals[g],
         quiet |-> q]
  BY DEF NewContext, st, q, v
<1>8. NewContext(b, S, g) \in Contexts
  BY <1>3, <1>4, <1>6, <1>7 DEF Contexts
<1> QED
  BY <1>3, <1>4, <1>5, <1>7, <1>8

-----------------------------------------------------------------------------
(* What a step of backend d does to the others.                              *)

OthersSame(d) ==
    \A b \in Backends : b # d =>
        /\ pc'[b] = pc[b] /\ xid'[b] = xid[b] /\ cid'[b] = cid[b] /\ snap'[b] = snap[b]
        /\ target'[b] = target[b] /\ mutex'[b] = mutex[b] /\ contexts'[b] = contexts[b]
        /\ ret'[b] = ret[b]

\* Only d's transaction changes its state, a new change is d's and is pending if
\* it is counted, a counter that is not given up does not fall, and a change is
\* no longer pending only when the counter is raised or given up or it was rolled
\* back.
Frame(d) ==
    /\ OthersSame(d)
    /\ version_mode' = version_mode
    /\ latest <= latest'
    /\ \A x \in Xids : xact'[x] # xact[x] =>
           xact[x] \notin Over /\ \A b \in Backends : b # d => xid[b] # x
    /\ changes \subseteq changes'
    /\ \A ch \in changes' : ch \notin changes =>
           /\ ch.xid = xid'[d] /\ xid'[d] # 0 /\ xact[ch.xid] \notin Over
           /\ ch.kind = "clause" => Pending(ch)'
    /\ \A g \in Graphs :
           /\ removals[g] <= removals'[g]
           /\ removals'[g] = removals[g] => version[g] <= version'[g]
    /\ Counting => \A ch \in changes : Pending(ch) =>
           \/ Pending(ch)' \/ xact'[ch.xid] = "aborted"
           \/ removals'[ch.graph] # removals[ch.graph]
           \/ version[ch.graph] < version'[ch.graph]

\* A context that stays keeps its place in the lives of the counter.
LEMMA EpochKeeps ==
    ASSUME IInv, TypeOK', NEW d \in Backends, Frame(d), NEW b \in Backends,
           contexts'[b] \subseteq contexts[b]
    PROVE  EpochInv(b)'
<1> SUFFICES ASSUME NEW c \in contexts[b] PROVE c.epoch <= removals'[c.graph]
  BY DEF EpochInv
<1>1. TypeOK /\ c.epoch <= removals[c.graph]
  BY DEF IInv, BackendInv, EpochInv
<1>2. c.epoch \in Nat /\ c.graph \in Graphs
  BY <1>1, ContextFacts
<1>3. removals[c.graph] \in Nat /\ removals'[c.graph] \in Nat /\ removals[c.graph] <= removals'[c.graph]
  BY <1>1, <1>2 DEF TypeOK, Frame
<1> QED
  BY <1>1, <1>2, <1>3

\* The counter of a context whose life goes on: it went on before the step, too.
LEMMA EpochSame ==
    ASSUME IInv, TypeOK', NEW d \in Backends, Frame(d), NEW b \in Backends,
           NEW c \in contexts[b], c.epoch = removals'[c.graph]
    PROVE  /\ c.epoch = removals[c.graph] /\ removals'[c.graph] = removals[c.graph]
           /\ version[c.graph] <= version'[c.graph]
<1>1. TypeOK /\ c.epoch <= removals[c.graph]
  BY DEF IInv, BackendInv, EpochInv
<1>2. c.epoch \in Nat /\ c.graph \in Graphs
  BY <1>1, ContextFacts
<1>3. removals[c.graph] \in Nat /\ removals'[c.graph] \in Nat /\ removals[c.graph] <= removals'[c.graph]
  BY <1>1, <1>2 DEF TypeOK, Frame
<1>4. c.epoch = removals[c.graph] /\ removals'[c.graph] = removals[c.graph]
  BY <1>1, <1>2, <1>3
<1> QED
  BY <1>2, <1>4 DEF Frame

\* What another backend sees under its snapshot does not change.
LEMMA VisibleStable ==
    ASSUME TypeOK, TypeOK', XactInv', NEW d \in Backends, Frame(d),
           NEW b \in Backends, b # d, Active(b), SnapInv(b)
    PROVE  /\ \A ch \in changes : Visible(b, ch)' <=> Visible(b, ch)
           /\ \A ch \in changes' : ch \notin changes => ~Visible(b, ch)'
<1>1. snap'[b] = snap[b] /\ xid'[b] = xid[b]
  BY DEF Frame, OthersSame
<1>2. \A ch \in changes : ch.xid \in Xids
  BY DEF TypeOK, Changes
<1>3. \A ch \in changes' : ch.xid \in Xids
  BY DEF TypeOK, Changes
<1>4. \A x \in Xids : xact'[x] # xact[x] =>
          x # xid[b] /\ (x >= snap[b].xmax \/ x \in snap[b].xip)
  BY DEF Frame, SnapInv
<1>5. snap[b].xmax \in Nat /\ Xids \subseteq Nat
  BY SnapFacts, XidFacts
<1>6. ASSUME NEW ch \in changes PROVE Visible(b, ch)' <=> Visible(b, ch)
  <2>1. CASE ch.xid = xid[b]
    BY <1>1, <2>1 DEF Visible
  <2>2. CASE ch.xid # xid[b] /\ xact'[ch.xid] = xact[ch.xid]
    BY <1>1, <2>2 DEF Visible
  <2>3. CASE ch.xid # xid[b] /\ xact'[ch.xid] # xact[ch.xid]
    <3>1. ch.xid \in Nat /\ (ch.xid >= snap[b].xmax \/ ch.xid \in snap[b].xip)
      BY <1>2, <1>4, <1>5, <2>3
    <3>2. ~(ch.xid < snap[b].xmax /\ ch.xid \notin snap[b].xip)
      BY <1>5, <3>1
    <3> QED
      BY <1>1, <2>3, <3>2 DEF Visible
  <2> QED
    BY <2>1, <2>2, <2>3
<1>7. ASSUME NEW ch \in changes', ch \notin changes PROVE ~Visible(b, ch)'
  <2>1. ch.xid = xid'[d] /\ xid'[d] # 0 /\ xact[ch.xid] \notin Over
    BY <1>7 DEF Frame
  <2>2. ch.xid # xid'[b]
    BY <2>1 DEF XactInv
  <2>3. ch.xid >= snap[b].xmax \/ ch.xid \in snap[b].xip
    BY <1>1, <1>3, <2>1, <2>2 DEF SnapInv
  <2>4. ~(ch.xid < snap[b].xmax /\ ch.xid \notin snap[b].xip)
    <3>1. ch.xid \in Nat
      BY <1>3, <1>5, <1>7
    <3> QED
      BY <1>5, <2>3, <3>1
  <2> QED
    BY <1>1, <2>2, <2>4 DEF Visible
<1> QED
  BY <1>6, <1>7

\* What such a snapshot shows of a graph does not change either.
LEMMA ContentStable ==
    ASSUME TypeOK, TypeOK', XactInv', NEW d \in Backends, Frame(d),
           NEW b \in Backends, b # d, Active(b), SnapInv(b)
    PROVE  \A g, l : Content(b, g, l)' = Content(b, g, l)
<1>1. changes \subseteq changes'
  BY DEF Frame
<1>2. /\ \A ch \in changes : Visible(b, ch)' <=> Visible(b, ch)
      /\ \A ch \in changes' : ch \notin changes => ~Visible(b, ch)'
  BY VisibleStable
<1>3. ASSUME NEW g, NEW l, NEW ch
      PROVE  ch \in Content(b, g, l)' <=> ch \in Content(b, g, l)
  <2>1. ch \in Content(b, g, l) <=>
            ch \in changes /\ ch.graph = g /\ (l = NoLabel \/ ch.label = l) /\ Visible(b, ch)
    BY DEF Content, Of
  <2>2. ch \in Content(b, g, l)' <=>
            ch \in changes' /\ ch.graph = g /\ (l = NoLabel \/ ch.label = l) /\ Visible(b, ch)'
    BY DEF Content, Of
  <2> QED
    BY <1>1, <1>2, <2>1, <2>2
<1>4. ASSUME NEW g, NEW l PROVE Content(b, g, l)' = Content(b, g, l)
  <2>1. \A ch : ch \in Content(b, g, l)' <=> ch \in Content(b, g, l)
    BY <1>3
  <2> QED
    BY <2>1
<1> QED
  BY <1>4

\* The other backends keep their part of the invariant.
LEMMA OthersKeep ==
    ASSUME IInv, TypeOK', XactInv', NEW d \in Backends, Frame(d),
           NEW b \in Backends, b # d
    PROVE  BackendInv(b)'
<1> USE DEF IInv
<1>1. BackendInv(b) /\ TypeOK
  OBVIOUS
<1>2. /\ pc'[b] = pc[b] /\ xid'[b] = xid[b] /\ cid'[b] = cid[b] /\ snap'[b] = snap[b]
      /\ target'[b] = target[b] /\ mutex'[b] = mutex[b] /\ contexts'[b] = contexts[b]
      /\ ret'[b] = ret[b]
  BY DEF Frame, OthersSame
<1>3. \A x \in Xids : xact[x] \in Over => xact'[x] = xact[x]
  BY DEF Frame
<1>4. /\ snap[b].xmax \in Nat /\ latest \in Nat /\ latest' \in Nat /\ latest <= latest'
      /\ Xids \subseteq Nat
  BY <1>1, SnapFacts, XidFacts DEF Frame, TypeOK
<1>5. (Counting' <=> Counting) /\ (Active(b)' <=> Active(b))
  BY <1>2 DEF Frame, Counting, Active
<1>6. changes \subseteq changes' /\ \A ch \in changes' : ch \notin changes =>
           /\ ch.xid = xid'[d] /\ xid'[d] # 0 /\ xact[ch.xid] \notin Over
           /\ ch.kind = "clause" => Pending(ch)'
  BY DEF Frame
<1>7. \A ch \in changes' : ch.xid \in Xids /\ ch.cid \in Nat
  BY ChangeFacts DEF TypeOK, Changes
<1>8. SnapInv(b)'
  <2>1. SUFFICES ASSUME Active(b) PROVE SnapInv(b)'
    BY <1>5 DEF SnapInv
  <2>2. /\ \A x \in Xids : xact[x] \notin Over /\ x # xid[b] =>
               x >= snap[b].xmax \/ x \in snap[b].xip
        /\ snap[b].curcid = cid[b]
        /\ snap[b].xmax <= latest + 1
        /\ snap[b].xmin = snap[b].xmax =>
               /\ snap[b].xip = {}
               /\ \A x \in Xids : x < snap[b].xmax => xact[x] \in Over
    BY <1>1, <2>1 DEF BackendInv, SnapInv
  <2>3. \A x \in Xids : xact'[x] \notin Over => xact[x] \notin Over
    BY <1>3
  <2>4. snap[b].xmax <= latest' + 1
    BY <1>4, <2>2
  <2>5. snap[b].xmin = snap[b].xmax => \A x \in Xids : x < snap[b].xmax => xact'[x] \in Over
    BY <1>3, <2>2
  <2> QED
    BY <1>2, <2>2, <2>3, <2>4, <2>5 DEF SnapInv
<1>9. ListInv(b)' /\ LoadInv(b)' /\ WholeInv(b)'
  <2>1. ListInv(b) /\ LoadInv(b) /\ WholeInv(b)
    BY <1>1 DEF BackendInv
  <2>2. ListInv(b)'
    BY <1>2, <2>1 DEF ListInv
  <2>3. LoadInv(b)'
    BY <1>2, <2>1 DEF LoadInv
  <2>4. WholeInv(b)'
    BY <1>2, <2>1 DEF WholeInv
  <2> QED
    BY <2>2, <2>3, <2>4
<1>10. UsableInv(b)'
  BY <1>1, <1>2 DEF BackendInv, UsableInv, Given
<1>11. Active(b) =>
          /\ \A ch \in changes : Visible(b, ch)' <=> Visible(b, ch)
          /\ \A ch \in changes' : ch \notin changes => ~Visible(b, ch)'
  BY <1>1, VisibleStable DEF BackendInv
<1>12. QuietInv(b)'
  <2> SUFFICES ASSUME Counting, NEW c \in contexts[b], c.epoch = removals'[c.graph], c.quiet,
                      c.loaded \/ (pc[b] = "load" /\ c = ret[b][1])
               PROVE  /\ c.version <= version'[c.graph]
                      /\ \A ch \in c.content :
                             /\ ch \in changes' /\ Matches(c, ch)
                             /\ Counts(c, ch) =>
                                    xact'[ch.xid] = "committed" /\ (Active(b) => Visible(b, ch)')
                      /\ ~c.loaded => \A ch \in changes' : Counts(c, ch) => ch.xid # xid'[b]
                      /\ c.version = version'[c.graph] => \A ch \in changes' : Counts(c, ch) =>
                             xact'[ch.xid] = "aborted" \/ Pending(ch)' \/ Known(b, c, ch)'
    BY <1>2, <1>5 DEF QuietInv, QuietCtx
  <2>1. c.graph \in Graphs /\ c.version \in Nat
    BY <1>1, ContextFacts
  <2>2. /\ c.epoch = removals[c.graph] /\ removals'[c.graph] = removals[c.graph]
        /\ version[c.graph] <= version'[c.graph]
    BY EpochSame
  <2>3. version[c.graph] \in Nat /\ version'[c.graph] \in Nat
    BY <1>1, <2>1 DEF TypeOK
  <2>4. /\ c.version <= version[c.graph]
        /\ \A ch \in c.content :
               /\ ch \in changes /\ Matches(c, ch)
               /\ Counts(c, ch) =>
                      xact[ch.xid] = "committed" /\ (Active(b) => Visible(b, ch))
        /\ ~c.loaded => \A ch \in changes : Counts(c, ch) => ch.xid # xid[b]
        /\ c.version = version[c.graph] => \A ch \in changes : Counts(c, ch) =>
               xact[ch.xid] = "aborted" \/ Pending(ch) \/ Known(b, c, ch)
    BY <1>1, <2>2 DEF BackendInv, QuietInv, QuietCtx
  <2>5. c.version <= version'[c.graph]
    BY <2>1, <2>2, <2>3, <2>4
  <2>6. ASSUME NEW ch \in c.content
        PROVE  /\ ch \in changes' /\ Matches(c, ch)
               /\ Counts(c, ch) =>
                      xact'[ch.xid] = "committed" /\ (Active(b) => Visible(b, ch)')
    <3>1. ch \in changes /\ Matches(c, ch) /\ (Counts(c, ch) => xact[ch.xid] = "committed")
      BY <2>4
    <3>2. ch.xid \in Xids
      BY <1>6, <1>7, <3>1
    <3>3. Counts(c, ch) => xact'[ch.xid] = "committed"
      BY <1>3, <3>1, <3>2 DEF Over
    <3> QED
      BY <1>6, <1>11, <2>4, <3>1, <3>3
  <2>7. ASSUME c.version = version'[c.graph], NEW ch \in changes', Counts(c, ch)
        PROVE  xact'[ch.xid] = "aborted" \/ Pending(ch)' \/ Known(b, c, ch)'
    <3>1. c.version = version[c.graph] /\ ~(version[c.graph] < version'[c.graph])
      BY <2>1, <2>2, <2>3, <2>4, <2>7
    <3>2. CASE ch \notin changes
      BY <1>6, <2>7, <3>2 DEF Counts
    <3>3. CASE ch \in changes
      <4>1. xact[ch.xid] = "aborted" \/ Pending(ch) \/ Known(b, c, ch)
        BY <2>4, <2>7, <3>1, <3>3
      <4>2. CASE xact[ch.xid] = "aborted"
        BY <1>3, <1>7, <4>2 DEF Over
      <4>3. CASE Pending(ch)
        BY <2>2, <2>7, <3>1, <3>3, <4>3 DEF Frame, Counts
      <4>4. CASE Known(b, c, ch)
        <5>1. CASE c.loaded
          BY <4>4, <5>1 DEF Known
        <5>2. CASE ~c.loaded
          <6>1. Active(b)
            BY <5>2 DEF Active
          <6>2. Visible(b, ch) /\ ch.xid # xid[b]
            BY <4>4, <5>2 DEF Known
          <6>3. Visible(b, ch)' /\ ch.xid # xid'[b]
            BY <1>2, <1>11, <3>3, <6>1, <6>2
          <6> QED
            BY <5>2, <6>3 DEF Known
        <5> QED
          BY <5>1, <5>2
      <4> QED
        BY <4>1, <4>2, <4>3, <4>4
    <3> QED
      BY <3>2, <3>3
  <2>8. ASSUME ~c.loaded, NEW ch \in changes', Counts(c, ch) PROVE ch.xid # xid'[b]
    <3>1. CASE ch \in changes
      BY <1>2, <2>4, <2>8, <3>1
    <3>2. CASE ch \notin changes
      BY <1>6, <3>2 DEF XactInv
    <3> QED
      BY <3>1, <3>2
  <2> QED
    BY <2>5, <2>6, <2>7, <2>8
<1>13. NoneInv(b)'
  <2> SUFFICES ASSUME ~Counting, NEW c \in contexts[b], c.loaded, c.parts # {}, c.xmin = c.xmax
               PROVE  /\ c.xmax <= latest' + 1
                      /\ \A ch \in c.content : ch \in changes' /\ Matches(c, ch)
                      /\ c.xmax = latest' + 1 =>
                             /\ \A x \in Xids : x < c.xmax => xact'[x] \in Over
                             /\ c.curcid > 0 => xid'[b] # 0 /\ cid'[b] >= c.curcid
                             /\ \A ch \in changes' : Matches(c, ch) =>
                                    (ch \in c.content <=>
                                        \/ xact'[ch.xid] = "committed" /\ ch.xid < c.xmax
                                        \/ ch.xid = xid'[b] /\ ch.cid < c.curcid)
                      /\ Active(b) /\ c.xmax = snap[b].xmax /\ c.curcid = snap[b].curcid =>
                             \A ch \in changes' : Matches(c, ch) => (ch \in c.content <=> Visible(b, ch)')
    BY <1>2, <1>5 DEF NoneInv, NoneCtx
  <2>1. c.xmax \in Nat
    BY <1>1, ContextFacts
  <2>2. /\ c.xmax <= latest + 1
        /\ \A ch \in c.content : ch \in changes /\ Matches(c, ch)
        /\ c.xmax = latest + 1 =>
               /\ \A x \in Xids : x < c.xmax => xact[x] \in Over
               /\ c.curcid > 0 => xid[b] # 0 /\ cid[b] >= c.curcid
               /\ \A ch \in changes : Matches(c, ch) =>
                      (ch \in c.content <=>
                          \/ xact[ch.xid] = "committed" /\ ch.xid < c.xmax
                          \/ ch.xid = xid[b] /\ ch.cid < c.curcid)
        /\ Active(b) /\ c.xmax = snap[b].xmax /\ c.curcid = snap[b].curcid =>
               \A ch \in changes : Matches(c, ch) => (ch \in c.content <=> Visible(b, ch))
    BY <1>1 DEF BackendInv, NoneInv, NoneCtx
  <2>3. c.xmax <= latest' + 1 /\ (c.xmax = latest' + 1 => c.xmax = latest + 1)
    BY <1>4, <2>1, <2>2
  <2>4. \A ch \in c.content : ch \in changes' /\ Matches(c, ch)
    BY <1>6, <2>2
  <2>5. ASSUME c.xmax = latest + 1
        PROVE  /\ \A x \in Xids : x < c.xmax => xact'[x] \in Over
               /\ c.curcid > 0 => xid'[b] # 0 /\ cid'[b] >= c.curcid
               /\ \A ch \in changes' : Matches(c, ch) =>
                      (ch \in c.content <=>
                          \/ xact'[ch.xid] = "committed" /\ ch.xid < c.xmax
                          \/ ch.xid = xid'[b] /\ ch.cid < c.curcid)
    <3>1. \A x \in Xids : x < c.xmax => xact[x] \in Over /\ xact'[x] = xact[x]
      BY <1>3, <2>2, <2>5
    <3>2. ASSUME NEW ch \in changes', Matches(c, ch)
          PROVE  ch \in c.content <=>
                     \/ xact'[ch.xid] = "committed" /\ ch.xid < c.xmax
                     \/ ch.xid = xid'[b] /\ ch.cid < c.curcid
      <4>1. CASE ch \in changes
        <5>1. ch \in c.content <=>
                  \/ xact[ch.xid] = "committed" /\ ch.xid < c.xmax
                  \/ ch.xid = xid[b] /\ ch.cid < c.curcid
          BY <2>2, <2>5, <3>2, <4>1
        <5>2. ch.xid < c.xmax => xact'[ch.xid] = xact[ch.xid]
          BY <1>7, <3>1
        <5> QED
          BY <1>2, <5>1, <5>2
      <4>2. CASE ch \notin changes
        <5>1. ch \notin c.content /\ ch.xid = xid'[d] /\ xid'[d] # 0 /\ xact[ch.xid] \notin Over
          BY <1>6, <2>2, <4>2
        <5>2. ~(ch.xid < c.xmax)
          BY <1>7, <3>1, <5>1
        <5>3. ch.xid # xid'[b]
          BY <5>1 DEF XactInv
        <5> QED
          BY <5>1, <5>2, <5>3
      <4> QED
        BY <4>1, <4>2
    <3> QED
      BY <1>2, <2>2, <2>5, <3>1, <3>2
  <2>6. ASSUME Active(b), c.xmax = snap[b].xmax, c.curcid = snap[b].curcid,
               NEW ch \in changes', Matches(c, ch)
        PROVE  ch \in c.content <=> Visible(b, ch)'
    BY <1>11, <2>2, <2>6
  <2> QED
    BY <2>3, <2>4, <2>5, <2>6
<1>14. ExactInv(b)'
  <2> SUFFICES ASSUME pc[b] = "returned"
               PROVE  /\ Counting /\ Given(b).quiet /\ SameEpoch(b)' => ExactCounted(b)'
                      /\ ~Counting /\ Given(b).xmin = Given(b).xmax => Exact(b)'
    BY <1>2, <1>5 DEF ExactInv, Given
  <2>1. Active(b)
    BY DEF Active
  <2>2. \A g, l : Content(b, g, l)' = Content(b, g, l)
    BY <1>1, <2>1, ContentStable DEF BackendInv
  <2>3. (Exact(b) => Exact(b)') /\ (ExactCounted(b) => ExactCounted(b)')
    BY <1>2, <2>2 DEF Exact, ExactCounted, Given, AskedLabel, Of, Counted
  <2>4. SameEpoch(b)' => SameEpoch(b)
    <3>1. Given(b) \in contexts[b] /\ Given(b).graph = target[b]
      BY <1>1 DEF BackendInv, UsableInv
    <3> QED
      BY <1>2, <3>1, EpochSame DEF SameEpoch, Given
  <2> QED
    BY <1>1, <2>3, <2>4 DEF BackendInv, ExactInv
<1>15. EpochInv(b)'
  BY <1>2, EpochKeeps
<1> QED
  BY <1>8, <1>9, <1>10, <1>12, <1>13, <1>14, <1>15 DEF BackendInv

-----------------------------------------------------------------------------
(* What a step of d does to d's own contexts.                                *)

\* A loaded context stays as good as it was: with the counter, as long as what
\* was committed and visible to d stays visible to d.
LEMMA OwnQuiet ==
    ASSUME IInv, TypeOK', XactInv', NEW d \in Backends, Frame(d), Counting,
           NEW c \in contexts[d], c.loaded,
           \A ch \in changes : xact[ch.xid] = "committed" /\ Active(d)' =>
               ((Active(d) => Visible(d, ch)) => Visible(d, ch)')
    PROVE  QuietCtx(d, c)'
<1>1. BackendInv(d) /\ TypeOK
  BY DEF IInv
<1>2. SUFFICES ASSUME c.epoch = removals'[c.graph], c.quiet
               PROVE  /\ c.version <= version'[c.graph]
                      /\ \A ch \in c.content :
                             /\ ch \in changes' /\ Matches(c, ch)
                             /\ Counts(c, ch) =>
                                    xact'[ch.xid] = "committed" /\ (Active(d)' => Visible(d, ch)')
                      /\ c.version = version'[c.graph] => \A ch \in changes' : Counts(c, ch) =>
                             xact'[ch.xid] = "aborted" \/ Pending(ch)' \/ Known(d, c, ch)'
  BY DEF QuietCtx
<1>3. c.graph \in Graphs /\ c.version \in Nat
  BY <1>1, ContextFacts
<1>4. /\ c.epoch = removals[c.graph] /\ removals'[c.graph] = removals[c.graph]
      /\ version[c.graph] <= version'[c.graph]
  BY <1>2, EpochSame
<1>5. version[c.graph] \in Nat /\ version'[c.graph] \in Nat
  BY <1>1, <1>3 DEF TypeOK
<1>6. /\ c.version <= version[c.graph]
      /\ \A ch \in c.content :
             /\ ch \in changes /\ Matches(c, ch)
             /\ Counts(c, ch) =>
                    xact[ch.xid] = "committed" /\ (Active(d) => Visible(d, ch))
      /\ c.version = version[c.graph] => \A ch \in changes : Counts(c, ch) =>
             xact[ch.xid] = "aborted" \/ Pending(ch) \/ Known(d, c, ch)
  BY <1>1, <1>2, <1>4 DEF BackendInv, QuietInv, QuietCtx
<1>7. \A x \in Xids : xact[x] \in Over => xact'[x] = xact[x]
  BY DEF Frame
<1>8. \A ch \in changes : ch.xid \in Xids
  BY <1>1, ChangeFacts
<1>9. /\ changes \subseteq changes'
      /\ \A ch \in changes' : ch \notin changes /\ Counts(c, ch) => Pending(ch)'
  BY DEF Frame, Counts
<1>10. c.version <= version'[c.graph]
  BY <1>3, <1>4, <1>5, <1>6
<1>11. ASSUME NEW ch \in c.content
       PROVE  /\ ch \in changes' /\ Matches(c, ch)
              /\ Counts(c, ch) =>
                     xact'[ch.xid] = "committed" /\ (Active(d)' => Visible(d, ch)')
  <2>1. ch \in changes /\ Matches(c, ch) /\ (Counts(c, ch) => xact[ch.xid] = "committed")
    BY <1>6
  <2>2. Counts(c, ch) => xact'[ch.xid] = "committed"
    BY <1>7, <1>8, <2>1 DEF Over
  <2> QED
    BY <1>6, <1>9, <2>1, <2>2
<1>12. ASSUME c.version = version'[c.graph], NEW ch \in changes', Counts(c, ch)
       PROVE  xact'[ch.xid] = "aborted" \/ Pending(ch)' \/ Known(d, c, ch)'
  <2>1. c.version = version[c.graph] /\ ~(version[c.graph] < version'[c.graph])
    BY <1>3, <1>4, <1>5, <1>6, <1>12
  <2>2. CASE ch \notin changes
    BY <1>9, <1>12, <2>2
  <2>3. CASE ch \in changes
    <3>1. xact[ch.xid] = "aborted" \/ Pending(ch) \/ Known(d, c, ch)
      BY <1>6, <1>12, <2>1, <2>3
    <3>2. CASE xact[ch.xid] = "aborted"
      BY <1>7, <1>8, <2>3, <3>2 DEF Over
    <3>3. CASE Pending(ch)
      BY <1>4, <1>12, <2>1, <2>3, <3>3 DEF Frame, Counts
    <3>4. CASE Known(d, c, ch)
      BY <3>4 DEF Known
    <3> QED
      BY <3>1, <3>2, <3>3, <3>4
  <2> QED
    BY <2>2, <2>3
<1> QED
  BY <1>10, <1>11, <1>12

\* Without it, as long as d keeps its transaction while no transaction ends, and
\* its snapshot is a new one or shows what it showed.
LEMMA OwnNone ==
    ASSUME IInv, TypeOK', XactInv', NEW d \in Backends, Frame(d), ~Counting,
           NEW c \in contexts[d], c.loaded,
           latest' = latest /\ xid[d] > latest => xid'[d] = xid[d] /\ cid'[d] >= cid[d],
           xid[d] = 0 => xid'[d] = 0 \/ xact[xid'[d]] = "unused",
           \A ch \in changes' : ch \notin changes => ch.cid >= cid[d],
           \/ ~Active(d)'
           \/ /\ Active(d) /\ snap'[d] = snap[d]
              /\ \A ch \in changes : Visible(d, ch)' <=> Visible(d, ch)
              /\ \A ch \in changes' : ch \notin changes => ~Visible(d, ch)'
           \/ /\ snap'[d].xmax = latest' + 1
              /\ \A x \in snap'[d].xip : xact'[x] \notin Over
    PROVE  NoneCtx(d, c)'
<1>1. BackendInv(d) /\ TypeOK /\ XactInv
  BY DEF IInv
<1>2. SUFFICES ASSUME c.parts # {}, c.xmin = c.xmax
               PROVE  /\ c.xmax <= latest' + 1
                      /\ \A ch \in c.content : ch \in changes' /\ Matches(c, ch)
                      /\ c.xmax = latest' + 1 =>
                             /\ \A x \in Xids : x < c.xmax => xact'[x] \in Over
                             /\ c.curcid > 0 => xid'[d] # 0 /\ cid'[d] >= c.curcid
                             /\ \A ch \in changes' : Matches(c, ch) =>
                                    (ch \in c.content <=>
                                        \/ xact'[ch.xid] = "committed" /\ ch.xid < c.xmax
                                        \/ ch.xid = xid'[d] /\ ch.cid < c.curcid)
                      /\ Active(d)' /\ c.xmax = snap'[d].xmax /\ c.curcid = snap'[d].curcid =>
                             \A ch \in changes' : Matches(c, ch) => (ch \in c.content <=> Visible(d, ch)')
  BY DEF NoneCtx
<1>3. c.xmax \in Nat /\ c.curcid \in Nat
  BY <1>1, ContextFacts
<1>4. /\ c.xmax <= latest + 1
      /\ \A ch \in c.content : ch \in changes /\ Matches(c, ch)
      /\ c.xmax = latest + 1 =>
             /\ \A x \in Xids : x < c.xmax => xact[x] \in Over
             /\ c.curcid > 0 => xid[d] # 0 /\ cid[d] >= c.curcid
             /\ \A ch \in changes : Matches(c, ch) =>
                    (ch \in c.content <=>
                        \/ xact[ch.xid] = "committed" /\ ch.xid < c.xmax
                        \/ ch.xid = xid[d] /\ ch.cid < c.curcid)
      /\ Active(d) /\ c.xmax = snap[d].xmax /\ c.curcid = snap[d].curcid =>
             \A ch \in changes : Matches(c, ch) => (ch \in c.content <=> Visible(d, ch))
  BY <1>1, <1>2 DEF BackendInv, NoneInv, NoneCtx
<1>5. latest \in Nat /\ latest' \in Nat /\ latest <= latest' /\ Xids \subseteq Nat /\ 0 \notin Xids
  BY <1>1, XidFacts DEF Frame, TypeOK
<1>6. \A x \in Xids : xact[x] \in Over => xact'[x] = xact[x]
  BY DEF Frame
<1>7. /\ changes \subseteq changes'
      /\ \A ch \in changes' : ch \notin changes =>
             ch.xid = xid'[d] /\ xid'[d] # 0 /\ xact[ch.xid] \notin Over
  BY DEF Frame
<1>8. \A ch \in changes' : ch.xid \in Xids /\ ch.cid \in Nat
  BY ChangeFacts DEF TypeOK, Changes
<1>9. xid[d] \in Xids \cup {0} /\ cid[d] \in Nat /\ cid'[d] \in Nat /\ xid'[d] \in Xids \cup {0}
  BY <1>1, XidFacts DEF TypeOK
<1>10. c.xmax <= latest' + 1 /\ (c.xmax = latest' + 1 => c.xmax = latest + 1 /\ latest' = latest)
  BY <1>3, <1>4, <1>5
<1>11. \A ch \in c.content : ch \in changes' /\ Matches(c, ch)
  BY <1>4, <1>7
<1>12. ASSUME c.xmax = latest' + 1
       PROVE  /\ \A x \in Xids : x < c.xmax => xact'[x] \in Over
              /\ c.curcid > 0 => xid'[d] # 0 /\ cid'[d] >= c.curcid
              /\ \A ch \in changes' : Matches(c, ch) =>
                     (ch \in c.content <=>
                         \/ xact'[ch.xid] = "committed" /\ ch.xid < c.xmax
                         \/ ch.xid = xid'[d] /\ ch.cid < c.curcid)
  <2>1. \A x \in Xids : x < c.xmax => xact[x] \in Over /\ xact'[x] = xact[x]
    BY <1>4, <1>6, <1>10, <1>12
  <2>2. xid[d] # 0 => xid'[d] = xid[d] /\ cid'[d] >= cid[d]
    <3> SUFFICES ASSUME xid[d] # 0 PROVE xid'[d] = xid[d] /\ cid'[d] >= cid[d]
      OBVIOUS
    <3>1. xact[xid[d]] = "running" /\ xid[d] \in Xids
      BY <1>1, <1>9 DEF XactInv
    <3>2. ~(xid[d] < c.xmax)
      BY <2>1, <3>1 DEF Over
    <3>3. xid[d] > latest
      <4>1. xid[d] \in Nat /\ c.xmax = latest + 1
        BY <1>5, <1>10, <1>12, <3>1
      <4> QED
        BY <1>5, <3>2, <4>1
    <3> QED
      BY <1>10, <1>12, <3>3
  <2>3. c.curcid > 0 => xid'[d] # 0 /\ cid'[d] >= c.curcid
    BY <1>3, <1>4, <1>9, <1>10, <1>12, <2>2
  <2>4. ASSUME NEW ch \in changes', Matches(c, ch)
        PROVE  ch \in c.content <=>
                   \/ xact'[ch.xid] = "committed" /\ ch.xid < c.xmax
                   \/ ch.xid = xid'[d] /\ ch.cid < c.curcid
    <3>1. CASE ch \in changes
      <4>1. ch \in c.content <=>
                \/ xact[ch.xid] = "committed" /\ ch.xid < c.xmax
                \/ ch.xid = xid[d] /\ ch.cid < c.curcid
        BY <1>4, <1>10, <1>12, <2>4, <3>1
      <4>2. ch.xid < c.xmax => xact'[ch.xid] = xact[ch.xid]
        BY <1>8, <2>1
      <4>3. ch.xid = xid[d] <=> ch.xid = xid'[d]
        <5>1. CASE xid[d] # 0
          BY <2>2, <5>1
        <5>2. CASE xid[d] = 0
          <6>1. ch.xid # 0 /\ xact[ch.xid] # "unused"
            BY <1>1, <1>5, <1>8, <3>1 DEF XactInv
          <6> QED
            BY <5>2, <6>1
        <5> QED
          BY <5>1, <5>2
      <4> QED
        BY <4>1, <4>2, <4>3
    <3>2. CASE ch \notin changes
      <4>1. ch \notin c.content /\ xact[ch.xid] \notin Over
        BY <1>4, <1>7, <3>2
      <4>2. ~(ch.xid < c.xmax)
        BY <1>8, <2>1, <4>1
      <4>3. ch.cid \in Nat /\ ch.cid >= cid[d]
        BY <1>8, <3>2
      <4>4. ~(ch.cid < c.curcid)
        <5>1. CASE c.curcid > 0
          BY <1>3, <1>4, <1>9, <1>10, <1>12, <4>3, <5>1
        <5>2. CASE ~(c.curcid > 0)
          BY <1>3, <4>3, <5>2
        <5> QED
          BY <5>1, <5>2
      <4> QED
        BY <4>1, <4>2, <4>4
    <3> QED
      BY <3>1, <3>2
  <2> QED
    BY <2>1, <2>3, <2>4
<1>13. ASSUME Active(d)', c.xmax = snap'[d].xmax, c.curcid = snap'[d].curcid,
              NEW ch \in changes', Matches(c, ch)
       PROVE  ch \in c.content <=> Visible(d, ch)'
  <2>1. CASE /\ Active(d) /\ snap'[d] = snap[d]
             /\ \A e \in changes : Visible(d, e)' <=> Visible(d, e)
             /\ \A e \in changes' : e \notin changes => ~Visible(d, e)'
    BY <1>4, <1>13, <2>1
  <2>2. CASE /\ snap'[d].xmax = latest' + 1
             /\ \A x \in snap'[d].xip : xact'[x] \notin Over
    <3>1. ch \in c.content <=>
              \/ xact'[ch.xid] = "committed" /\ ch.xid < c.xmax
              \/ ch.xid = xid'[d] /\ ch.cid < c.curcid
      BY <1>12, <1>13, <2>2
    <3>2. CASE ch.xid = xid'[d]
      <4>1. xact'[ch.xid] = "running"
        BY <1>5, <1>8, <3>2 DEF XactInv
      <4> QED
        BY <1>13, <3>1, <3>2, <4>1 DEF Visible
    <3>3. CASE ch.xid # xid'[d]
      <4>1. xact'[ch.xid] = "committed" => ch.xid \notin snap'[d].xip
        BY <2>2 DEF Over
      <4> QED
        BY <1>13, <3>1, <3>3, <4>1 DEF Visible
    <3> QED
      BY <3>2, <3>3
  <2> QED
    BY <1>13, <2>1, <2>2
<1> QED
  BY <1>10, <1>11, <1>12, <1>13

\* A list that only loses contexts keeps what is said of the list.
LEMMA SubList ==
    ASSUME NEW d \in Backends, ListInv(d), WholeInv(d),
           contexts'[d] \subseteq contexts[d], mutex'[d] = mutex[d]
    PROVE  ListInv(d)' /\ WholeInv(d)'
<1>1. ListInv(d)'
  BY DEF ListInv
<1>2. WholeInv(d)'
  BY DEF WholeInv
<1> QED
  BY <1>1, <1>2

\* The end of a statement or of a transaction: d has no snapshot any more, its
\* list is the same or shorter, and a context whose load failed is never used.
LEMMA OwnInactive ==
    ASSUME IInv, TypeOK', XactInv', NEW d \in Backends, Frame(d),
           pc'[d] \in {"idle", "open"},
           contexts'[d] \subseteq contexts[d], mutex'[d] = mutex[d],
           latest' = latest /\ xid[d] > latest => xid'[d] = xid[d] /\ cid'[d] >= cid[d],
           xid[d] = 0 => xid'[d] = 0 \/ xact[xid'[d]] = "unused",
           changes' = changes
    PROVE  BackendInv(d)'
<1>1. BackendInv(d) /\ TypeOK
  BY DEF IInv
<1>2. ~Active(d)' /\ (Counting' <=> Counting)
  BY DEF Active, Frame, Counting
<1>3. SnapInv(d)'
  BY <1>2 DEF SnapInv
<1>4. ListInv(d)' /\ WholeInv(d)'
  BY <1>1, SubList DEF BackendInv
<1>5. LoadInv(d)' /\ UsableInv(d)' /\ ExactInv(d)'
  BY DEF LoadInv, UsableInv, ExactInv
<1>6. QuietInv(d)'
  <2> SUFFICES ASSUME Counting, NEW c \in contexts'[d] PROVE QuietCtx(d, c)'
    BY <1>2 DEF QuietInv
  <2>1. CASE c.loaded
    BY <1>2, <2>1, OwnQuiet
  <2>2. CASE ~c.loaded
    BY <2>2 DEF QuietCtx
  <2> QED
    BY <2>1, <2>2
<1>7. NoneInv(d)'
  <2> SUFFICES ASSUME ~Counting, NEW c \in contexts'[d] PROVE NoneCtx(d, c)'
    BY <1>2 DEF NoneInv
  <2>1. CASE c.loaded
    BY <1>2, <2>1, OwnNone
  <2>2. CASE ~c.loaded
    BY <2>2 DEF NoneCtx
  <2> QED
    BY <2>1, <2>2
<1>8. EpochInv(d)'
  BY EpochKeeps
<1> QED
  BY <1>3, <1>4, <1>5, <1>6, <1>7, <1>8 DEF BackendInv

\* A step of d keeps the invariant when it is within the frame and d keeps its
\* own part.
LEMMA StepKeeps ==
    ASSUME IInv, TypeOK', XactInv', NEW d \in Backends, Frame(d), BackendInv(d)',
           ret' = [b \in Backends |-> ret'[b]]
    PROVE  IInv'
<1>1. \A b \in Backends : b # d => BackendInv(b)'
  BY OthersKeep
<1> QED
  BY <1>1 DEF IInv

-----------------------------------------------------------------------------
(* The actions.                                                              *)

\* A statement takes its snapshot.
LEMMA StartKeeps ==
    ASSUME IInv, NEW b \in Backends, NEW g \in Graphs, StartStatement(b, g)
    PROVE  IInv'
<1> USE DEF StartStatement, db, Goto
<1>1. TypeOK /\ XactInv /\ BackendInv(b)
  BY DEF IInv
<1>2. TypeOK'
  <2>1. Snapshot(b) \in [xmin : Nat, xmax : Nat, xip : SUBSET Xids, curcid : Nat]
    BY <1>1, SnapshotIs DEF SnapType
  <2> QED
    BY <1>1, <2>1 DEF TypeOK, States
<1>3. XactInv'
  BY <1>1 DEF XactInv, TypeOK, Writing
<1>4. \A ch : Pending(ch)' <=> Pending(ch)
  BY <1>1 DEF Pending, TypeOK
<1>5. Frame(b)
  BY <1>1, <1>4 DEF Frame, OthersSame, TypeOK
<1>6. /\ pc'[b] = "stmt" /\ snap'[b] = Snapshot(b) /\ Active(b)'
      /\ (Counting' <=> Counting)
  BY <1>1 DEF TypeOK, Active, Counting
<1>7. /\ snap'[b].xmax = latest + 1
      /\ snap'[b].curcid = cid[b]
      /\ snap'[b].xip = {x \in Running : x < latest + 1 /\ x # xid[b]}
      /\ snap'[b].xmin = snap'[b].xmax => \A x \in Running : ~(x < latest + 1)
  BY <1>1, <1>6, SnapshotIs
<1>8. latest \in Nat /\ next_xid \in Nat /\ Xids \subseteq Nat /\ latest < next_xid
  BY <1>1, XidFacts, BoundAssumption DEF TypeOK, XactInv
<1>9. \A x \in Xids : xact[x] \in Over \/ x \in Running \/ (xact[x] = "unused" /\ x >= next_xid)
  BY <1>1 DEF TypeOK, XactInv, Running, Over
<1>10. SnapInv(b)'
  <2>1. ASSUME NEW x \in Xids, xact[x] \notin Over, x # xid[b]
        PROVE  x >= snap'[b].xmax \/ x \in snap'[b].xip
    BY <1>7, <1>8, <1>9, <2>1
  <2>2. ASSUME snap'[b].xmin = snap'[b].xmax
        PROVE  /\ snap'[b].xip = {}
               /\ \A x \in Xids : x < snap'[b].xmax => xact[x] \in Over
    BY <1>7, <1>8, <1>9, <2>2
  <2> QED
    BY <1>7, <1>8, <2>1, <2>2 DEF SnapInv
<1>11. ListInv(b)' /\ WholeInv(b)'
  BY <1>1, SubList DEF BackendInv
<1>12. LoadInv(b)' /\ UsableInv(b)' /\ ExactInv(b)'
  BY <1>6 DEF LoadInv, UsableInv, ExactInv
<1>13. QuietInv(b)'
  <2> SUFFICES ASSUME Counting, NEW c \in contexts[b] PROVE QuietCtx(b, c)'
    BY <1>6 DEF QuietInv
  <2>1. CASE c.loaded
    <3>1. ASSUME NEW ch \in changes, xact[ch.xid] = "committed"
          PROVE  Visible(b, ch)'
      <4>1. ch.xid \in Xids /\ ch.xid <= latest
        BY <1>1, <3>1, ChangeFacts DEF XactInv, Over
      <4>2. ch.xid # xid[b] /\ ch.xid \notin Running
        BY <1>1, <3>1, <4>1, XidFacts DEF XactInv, Running
      <4>3. ch.xid \in Nat
        BY <1>8, <4>1
      <4>4. ch.xid < snap'[b].xmax
        BY <1>7, <1>8, <4>1, <4>3
      <4>5. ch.xid \notin snap'[b].xip
        BY <1>7, <4>2
      <4> QED
        BY <3>1, <4>2, <4>4, <4>5 DEF Visible
    <3> QED
      BY <1>2, <1>3, <1>5, <2>1, <3>1, OwnQuiet
  <2>2. CASE ~c.loaded
    BY <1>6, <2>2 DEF QuietCtx
  <2> QED
    BY <2>1, <2>2
<1>14. NoneInv(b)'
  <2> SUFFICES ASSUME ~Counting, NEW c \in contexts[b] PROVE NoneCtx(b, c)'
    BY <1>6 DEF NoneInv
  <2>1. CASE c.loaded
    <3>1. snap'[b].xmax = latest' + 1 /\ \A x \in snap'[b].xip : xact'[x] \notin Over
      BY <1>7 DEF Running, Over
    <3>2. cid'[b] >= cid[b]
      BY <1>1 DEF TypeOK
    <3> QED
      BY <1>2, <1>3, <1>5, <2>1, <3>1, <3>2, OwnNone
  <2>2. CASE ~c.loaded
    BY <2>2 DEF NoneCtx
  <2> QED
    BY <2>1, <2>2
<1>15. ret' = [e \in Backends |-> ret'[e]] /\ EpochInv(b)'
  BY <1>2, <1>5, EpochKeeps DEF IInv
<1> QED
  BY <1>2, <1>3, <1>5, <1>10, <1>11, <1>12, <1>13, <1>14, <1>15, StepKeeps DEF BackendInv

\* The id of a transaction that writes: the one it has, or an unused one.
LEMMA AssignIs ==
    ASSUME TypeOK, XactInv, NEW b \in Backends, AssignXid(b)
    PROVE  /\ xact' \in [Xids -> {"unused", "running", "committed", "aborted"}]
           /\ next_xid' \in 1 .. MaxXid + 1
           /\ xid' \in [Backends -> 0 .. MaxXid]
           /\ xid'[b] \in Xids
           /\ \A e \in Backends : e # b => xid'[e] = xid[e]
           /\ \A x \in Xids : xact'[x] # xact[x] =>
                  x = xid'[b] /\ xact[x] = "unused" /\ xact'[x] = "running"
           /\ xid[b] # 0 => xid'[b] = xid[b]
           /\ xid[b] = 0 => xact[xid'[b]] = "unused"
           /\ latest < next_xid'
           /\ \A x \in Xids : xact'[x] = "unused" <=> x >= next_xid'
           /\ \A e \in Backends : xid'[e] # 0 => xact'[xid'[e]] = "running"
           /\ \A e, d \in Backends : e # d /\ xid'[e] = xid'[d] => xid'[e] = 0
<1>1. /\ Xids \subseteq Nat /\ 0 \notin Xids /\ 0 .. MaxXid = Xids \cup {0}
      /\ \A n \in Nat : n \in Xids <=> 1 <= n /\ n <= MaxXid
  BY XidFacts
<1>2. latest \in Nat /\ next_xid \in Nat /\ next_xid >= 1 /\ MaxXid \in Nat /\ xid[b] \in Xids \cup {0}
  BY <1>1, BoundAssumption DEF TypeOK
<1>3. CASE xid[b] # 0
  <2>1. xact' = xact /\ next_xid' = next_xid /\ xid' = xid
    BY <1>3 DEF AssignXid
  <2> QED
    BY <1>2, <1>3, <2>1 DEF TypeOK, XactInv
<1>4. CASE xid[b] = 0
  <2>1. /\ next_xid <= MaxXid
        /\ xact' = [xact EXCEPT ![next_xid] = "running"]
        /\ next_xid' = next_xid + 1
        /\ xid' = [xid EXCEPT ![b] = next_xid]
    BY <1>4 DEF AssignXid
  <2>2. next_xid \in Xids
    BY <1>1, <1>2, <2>1
  <2>3. xact[next_xid] = "unused"
    BY <1>2, <2>2 DEF XactInv
  <2>4. /\ xact' \in [Xids -> {"unused", "running", "committed", "aborted"}]
        /\ xact'[next_xid] = "running" /\ \A x \in Xids : x # next_xid => xact'[x] = xact[x]
    BY <2>1, <2>2 DEF TypeOK
  <2>5. /\ xid' \in [Backends -> 0 .. MaxXid] /\ xid'[b] = next_xid
        /\ \A e \in Backends : e # b => xid'[e] = xid[e]
    BY <1>1, <2>1, <2>2 DEF TypeOK
  <2>6. \A x \in Xids : xact'[x] = "unused" <=> x >= next_xid'
    <3> SUFFICES ASSUME NEW x \in Xids PROVE xact'[x] = "unused" <=> x >= next_xid + 1
      BY <2>1
    <3>1. x \in Nat /\ (xact[x] = "unused" <=> x >= next_xid)
      BY <1>1 DEF XactInv
    <3> QED
      BY <1>2, <2>4, <3>1
  <2>7. \A e \in Backends : xid'[e] # 0 => xact'[xid'[e]] = "running"
    <3> SUFFICES ASSUME NEW e \in Backends, xid'[e] # 0 PROVE xact'[xid'[e]] = "running"
      OBVIOUS
    <3>1. CASE e = b
      BY <2>4, <2>5, <3>1
    <3>2. CASE e # b
      <4>1. xid'[e] = xid[e] /\ xact[xid[e]] = "running" /\ xid[e] \in Xids
        BY <1>1, <2>5, <3>2 DEF XactInv, TypeOK
      <4> QED
        BY <2>3, <2>4, <4>1
    <3> QED
      BY <3>1, <3>2
  <2>8. \A e \in Backends : xid[e] # next_xid
    BY <1>1, <2>2, <2>3 DEF XactInv
  <2>9. \A e, d \in Backends : e # d /\ xid'[e] = xid'[d] => xid'[e] = 0
    BY <2>5, <2>8 DEF XactInv
  <2>10. next_xid' \in 1 .. MaxXid + 1 /\ latest < next_xid'
    BY <1>2, <2>1 DEF XactInv
  <2> QED
    BY <1>4, <2>2, <2>3, <2>4, <2>5, <2>6, <2>7, <2>9, <2>10
<1> QED
  BY <1>3, <1>4

\* Rows change; a change that is counted is pending until the counter is raised.
LEMMA WriteKeeps ==
    ASSUME IInv, NEW b \in Backends, NEW l \in Labels, NEW kind \in Kinds,
           NEW next \in Writing, kind = "clause" => next = "bump",
           WriteRows(b, l, kind, next)
    PROVE  IInv'
<1> USE DEF WriteRows, Goto
<1>1. TypeOK /\ XactInv /\ BackendInv(b) /\ AssignXid(b)
  BY DEF IInv
<1>2. /\ xact' \in [Xids -> {"unused", "running", "committed", "aborted"}]
      /\ next_xid' \in 1 .. MaxXid + 1
      /\ xid' \in [Backends -> 0 .. MaxXid]
      /\ xid'[b] \in Xids
      /\ \A e \in Backends : e # b => xid'[e] = xid[e]
      /\ \A x \in Xids : xact'[x] # xact[x] =>
             x = xid'[b] /\ xact[x] = "unused" /\ xact'[x] = "running"
      /\ xid[b] # 0 => xid'[b] = xid[b]
      /\ xid[b] = 0 => xact[xid'[b]] = "unused"
      /\ latest < next_xid'
      /\ \A x \in Xids : xact'[x] = "unused" <=> x >= next_xid'
      /\ \A e \in Backends : xid'[e] # 0 => xact'[xid'[e]] = "running"
      /\ \A e, d \in Backends : e # d /\ xid'[e] = xid'[d] => xid'[e] = 0
  BY <1>1, AssignIs
<1>2a. PICK new : new = [graph |-> target[b], label |-> l, xid |-> xid'[b], cid |-> cid[b],
                         kind |-> kind]
  OBVIOUS
<1>3. /\ new \in Changes /\ new.graph = target[b] /\ new.xid = xid'[b] /\ new.cid = cid[b]
      /\ new.kind = kind
  BY <1>1, <1>2, <1>2a DEF Changes, TypeOK
<1>4. changes' = changes \cup {new}
  BY <1>2a
<1>5. TypeOK'
  BY <1>1, <1>2, <1>3, <1>4 DEF TypeOK, States, Writing
<1>6. /\ pc'[b] = next /\ Active(b) /\ Active(b)' /\ (Counting' <=> Counting)
      /\ snap'[b] = snap[b] /\ cid' = cid /\ snap[b].curcid = cid[b] /\ cid[b] \in Nat
      /\ \A e \in Backends : e # b => pc'[e] = pc[e]
  BY <1>1 DEF TypeOK, Active, Counting, BackendInv, SnapInv, Writing
<1>7. /\ Xids \subseteq Nat /\ 0 \notin Xids
      /\ \A ch \in changes : ch.xid \in Xids
  BY <1>1, XidFacts, ChangeFacts
<1>8. \A x \in Xids : (xact'[x] \in Over <=> xact[x] \in Over) /\ (xact[x] \in Over => xact'[x] = xact[x])
  BY <1>2 DEF Over
<1>9. xact'[xid'[b]] = "running" /\ xact[xid'[b]] \notin Over /\ xid'[b] # 0
  BY <1>2, <1>7, <1>8 DEF Over
<1>10. XactInv'
  <2>1. \A x \in Xids : xact'[x] \in Over => x <= latest
    BY <1>1, <1>8 DEF XactInv
  <2>2. \A e \in Backends : cid[e] > 0 \/ pc'[e] \in Writing => xid'[e] # 0
    <3> SUFFICES ASSUME NEW e \in Backends, cid[e] > 0 \/ pc'[e] \in Writing PROVE xid'[e] # 0
      OBVIOUS
    <3>1. CASE e = b
      BY <1>9, <3>1
    <3>2. CASE e # b
      BY <1>1, <1>2, <1>6, <3>2 DEF XactInv
    <3> QED
      BY <3>1, <3>2
  <2>3. \A ch \in changes' : xact'[ch.xid] # "unused"
    <3> SUFFICES ASSUME NEW ch \in changes' PROVE xact'[ch.xid] # "unused"
      OBVIOUS
    <3>1. CASE ch = new
      BY <1>3, <1>9, <3>1
    <3>2. CASE ch \in changes
      <4>1. xact[ch.xid] # "unused" /\ ch.xid \in Xids
        BY <1>1, <1>7, <3>2 DEF XactInv
      <4> QED
        BY <1>2, <4>1
    <3> QED
      BY <1>4, <3>1, <3>2
  <2> QED
    BY <1>2, <2>1, <2>2, <2>3 DEF XactInv
<1>11. kind = "clause" => Pending(new)'
  BY <1>3, <1>6 DEF Pending
<1>12. \A ch \in changes : Pending(ch) => Pending(ch)'
  <2> SUFFICES ASSUME NEW ch \in changes, NEW e \in Backends, pc[e] = "bump",
                      xid[e] = ch.xid, cid[e] = ch.cid, target[e] = ch.graph
               PROVE  Pending(ch)'
    BY DEF Pending
  <2>1. e # b
    OBVIOUS
  <2>2. pc'[e] = "bump" /\ xid'[e] = ch.xid /\ cid'[e] = ch.cid /\ target'[e] = ch.graph
    BY <1>2, <1>6, <2>1
  <2> QED
    BY <2>2 DEF Pending
<1>13. Frame(b)
  <2>1. OthersSame(b)
    BY <1>2, <1>6 DEF OthersSame
  <2>2. \A x \in Xids : xact'[x] # xact[x] =>
           xact[x] \notin Over /\ \A e \in Backends : e # b => xid[e] # x
    <3> SUFFICES ASSUME NEW x \in Xids, xact'[x] # xact[x], NEW e \in Backends, xid[e] = x
                 PROVE  FALSE \/ e = b
      BY <1>8
    <3> QED
      BY <1>1, <1>2, <1>7 DEF XactInv
  <2>3. \A ch \in changes' : ch \notin changes =>
           /\ ch.xid = xid'[b] /\ xid'[b] # 0 /\ xact[ch.xid] \notin Over
           /\ ch.kind = "clause" => Pending(ch)'
    BY <1>3, <1>4, <1>9, <1>11
  <2>4. \A g \in Graphs : removals[g] <= removals'[g] /\ version[g] <= version'[g]
    BY <1>1 DEF TypeOK
  <2>5. latest <= latest'
    BY <1>1, BoundAssumption DEF TypeOK
  <2> QED
    BY <1>4, <1>12, <2>1, <2>2, <2>3, <2>4, <2>5 DEF Frame
<1>14. \A ch \in changes : Visible(b, ch)' <=> Visible(b, ch)
  <2> SUFFICES ASSUME NEW ch \in changes PROVE Visible(b, ch)' <=> Visible(b, ch)
    OBVIOUS
  <2>1. ch.xid \in Xids /\ xact[ch.xid] # "unused" /\ xact'[ch.xid] = xact[ch.xid]
    BY <1>1, <1>2, <1>7, ZenonT(60) DEF XactInv
  <2>2. ch.xid = xid[b] <=> ch.xid = xid'[b]
    BY <1>2, <1>7, <2>1
  <2> QED
    BY <1>6, <2>1, <2>2 DEF Visible
<1>15. \A ch \in changes' : ch \notin changes => ~Visible(b, ch)' /\ ch.cid >= cid[b]
  <2>1. ~Visible(b, new)'
    <3>1. ~(new.cid < snap'[b].curcid)
      BY <1>3, <1>6
    <3> QED
      BY <1>3, <3>1 DEF Visible
  <2>2. new.cid >= cid[b]
    BY <1>3, <1>6
  <2> QED
    BY <1>4, <2>1, <2>2
<1>16. SnapInv(b)'
  <2>1. \A x \in Xids : xact'[x] \notin Over /\ x # xid'[b] =>
            xact[x] \notin Over /\ x # xid[b]
    BY <1>2, <1>7, <1>8
  <2> QED
    BY <1>1, <1>6, <1>8, <2>1 DEF BackendInv, SnapInv
<1>17. ListInv(b)' /\ WholeInv(b)'
  BY <1>1, SubList DEF BackendInv
<1>18. LoadInv(b)' /\ UsableInv(b)' /\ ExactInv(b)'
  BY <1>6 DEF LoadInv, UsableInv, ExactInv, Writing
<1>19. QuietInv(b)'
  <2> SUFFICES ASSUME Counting, NEW c \in contexts[b] PROVE QuietCtx(b, c)'
    BY <1>6 DEF QuietInv
  <2>1. CASE c.loaded
    BY <1>5, <1>6, <1>10, <1>13, <1>14, <2>1, OwnQuiet
  <2>2. CASE ~c.loaded
    BY <1>6, <2>2 DEF QuietCtx, Writing
  <2> QED
    BY <2>1, <2>2
<1>20. NoneInv(b)'
  <2> SUFFICES ASSUME ~Counting, NEW c \in contexts[b] PROVE NoneCtx(b, c)'
    BY <1>6 DEF NoneInv
  <2>1. CASE c.loaded
    <3>1. xid[b] > latest => xid[b] # 0
      BY <1>1, BoundAssumption DEF TypeOK
    <3>2. cid'[b] >= cid[b]
      BY <1>6
    <3> QED
      BY <1>2, <1>5, <1>6, <1>10, <1>13, <1>14, <1>15, <2>1, <3>1, <3>2, OwnNone
  <2>2. CASE ~c.loaded
    BY <2>2 DEF NoneCtx
  <2> QED
    BY <2>1, <2>2
<1>21. ret' = [e \in Backends |-> ret'[e]] /\ EpochInv(b)'
  BY <1>5, <1>13, EpochKeeps DEF IInv
<1> QED
  BY <1>5, <1>10, <1>13, <1>16, <1>17, <1>18, <1>19, <1>20, <1>21, StepKeeps DEF BackendInv

\* A statement that wrote ends: what was pending is counted.
LEMMA BumpKeeps ==
    ASSUME IInv, NEW b \in Backends, BumpVersion(b) \/ EndCommand(b)
    PROVE  IInv'
<1> USE DEF EndsStatement, db, Goto
<1>1. TypeOK /\ XactInv /\ BackendInv(b)
  BY DEF IInv
<1>1a. /\ pc[b] \in Writing /\ EndsStatement(b) /\ cid' = [cid EXCEPT ![b] = @ + 1]
       /\ UNCHANGED <<db, xid, target, mutex, contexts, ret, stmts>>
       /\ version' \in [Graphs -> Nat]
       /\ \A g \in Graphs : version[g] <= version'[g]
       /\ Counting /\ pc[b] = "bump" => version'[target[b]] = version[target[b]] + 1
  <2>1. CASE BumpVersion(b)
    BY <1>1, <2>1 DEF BumpVersion, Writing, TypeOK
  <2>2. CASE EndCommand(b)
    BY <1>1, <2>2 DEF EndCommand, Writing, TypeOK
  <2> QED
    BY <2>1, <2>2
<1>2. /\ pc'[b] = "open" /\ cid'[b] = cid[b] + 1 /\ cid[b] \in Nat /\ target[b] \in Graphs
      /\ \A e \in Backends : e # b => pc'[e] = pc[e] /\ cid'[e] = cid[e] /\ snap'[e] = snap[e]
      /\ \A g \in Graphs : version[g] \in Nat /\ version[g] <= version'[g]
  BY <1>1, <1>1a DEF TypeOK
<1>3. TypeOK'
  <2>1. NoSnapshot \in [xmin : Nat, xmax : Nat, xip : SUBSET Xids, curcid : Nat]
    BY DEF NoSnapshot
  <2> QED
    BY <1>1, <1>1a, <2>1 DEF TypeOK, States
<1>4. XactInv'
  <2>1. \A e \in Backends : cid'[e] > 0 \/ pc'[e] \in Writing => xid[e] # 0
    BY <1>1, <1>1a, <1>2 DEF XactInv, Writing
  <2> QED
    BY <1>1, <1>1a, <2>1 DEF XactInv
<1>5. Counting => \A ch \in changes : Pending(ch) =>
           Pending(ch)' \/ version[ch.graph] < version'[ch.graph]
  <2> SUFFICES ASSUME Counting, NEW ch \in changes, NEW e \in Backends, pc[e] = "bump",
                      xid[e] = ch.xid, cid[e] = ch.cid, target[e] = ch.graph
               PROVE  Pending(ch)' \/ version[ch.graph] < version'[ch.graph]
    BY DEF Pending
  <2>1. CASE e = b
    BY <1>1a, <1>2, <2>1
  <2>2. CASE e # b
    <3>1. pc'[e] = "bump" /\ xid'[e] = ch.xid /\ cid'[e] = ch.cid /\ target'[e] = ch.graph
      BY <1>1a, <1>2, <2>2
    <3> QED
      BY <3>1 DEF Pending
  <2> QED
    BY <2>1, <2>2
<1>6. Frame(b)
  <2>1. OthersSame(b)
    BY <1>1a, <1>2 DEF OthersSame
  <2>2. latest <= latest' /\ \A g \in Graphs : removals[g] <= removals'[g]
    BY <1>1, <1>1a, BoundAssumption DEF TypeOK
  <2> QED
    BY <1>1a, <1>2, <1>5, <2>1, <2>2 DEF Frame
<1>7. BackendInv(b)'
  <2>1. cid'[b] >= cid[b]
    BY <1>2
  <2> QED
    BY <1>1a, <1>2, <1>3, <1>4, <1>6, <2>1, OwnInactive
<1>8. ret' = [e \in Backends |-> ret'[e]]
  BY <1>1a DEF IInv
<1> QED
  BY <1>3, <1>4, <1>6, <1>7, <1>8, StepKeeps

\* A statement ends without having written: the lists may have become shorter.
LEMMA EndKeeps ==
    ASSUME IInv, NEW b \in Backends, pc[b] \notin Writing,
           EndsStatement(b), UNCHANGED <<db, version, xid, cid, target, mutex, stmts>>,
           contexts' \in [Backends -> SUBSET Contexts],
           contexts'[b] \subseteq contexts[b],
           ret' = [e \in Backends |-> ret'[e]],
           \A e \in Backends : e # b => contexts'[e] = contexts[e] /\ ret'[e] = ret[e]
    PROVE  IInv'
<1> USE DEF EndsStatement, db, Goto
<1>1. TypeOK /\ XactInv /\ BackendInv(b)
  BY DEF IInv
<1>2. /\ pc'[b] = "open" /\ cid[b] \in Nat
      /\ \A e \in Backends : e # b => pc'[e] = pc[e] /\ snap'[e] = snap[e]
      /\ \A g \in Graphs : version[g] \in Nat
  BY <1>1 DEF TypeOK
<1>3. TypeOK'
  <2>1. NoSnapshot \in [xmin : Nat, xmax : Nat, xip : SUBSET Xids, curcid : Nat]
    BY DEF NoSnapshot
  <2> QED
    BY <1>1, <2>1 DEF TypeOK, States
<1>4. XactInv'
  <2>1. \A e \in Backends : cid[e] > 0 \/ pc'[e] \in Writing => xid[e] # 0
    BY <1>1, <1>2 DEF XactInv, Writing
  <2> QED
    BY <1>1, <2>1 DEF XactInv
<1>5. \A ch \in changes : Pending(ch) => Pending(ch)'
  BY <1>2 DEF Pending, Writing
<1>6. Frame(b)
  <2>1. OthersSame(b)
    BY <1>2 DEF OthersSame
  <2>2. latest <= latest' /\ \A g \in Graphs : version[g] <= version'[g] /\ removals[g] <= removals'[g]
    BY <1>1, <1>2, BoundAssumption DEF TypeOK
  <2> QED
    BY <1>5, <2>1, <2>2 DEF Frame
<1>7. BackendInv(b)'
  <2>1. cid'[b] >= cid[b]
    BY <1>2
  <2> QED
    BY <1>2, <1>3, <1>4, <1>6, <2>1, OwnInactive
<1> QED
  BY <1>3, <1>4, <1>6, <1>7, StepKeeps

\* The three operations that end a statement so.
LEMMA EndStatementKeeps ==
    ASSUME IInv, NEW b \in Backends, EndStatement(b) \/ DeleteGraphContext(b) \/ DeleteAllContexts(b)
    PROVE  IInv'
<1>1. TypeOK /\ ret = [e \in Backends |-> ret[e]]
  BY DEF IInv
<1>2. WithoutFirst(contexts[b], target[b]) \subseteq contexts[b]
  BY DEF WithoutFirst
<1>3. CASE EndStatement(b)
  BY <1>1, <1>3, EndKeeps DEF EndStatement, TypeOK, Writing
<1>4. CASE DeleteGraphContext(b)
  BY <1>1, <1>2, <1>4, EndKeeps DEF DeleteGraphContext, TypeOK, Writing
<1>5. CASE DeleteAllContexts(b)
  BY <1>1, <1>5, EndKeeps DEF DeleteAllContexts, TypeOK, Writing
<1> QED
  BY <1>3, <1>4, <1>5

\* A graph is dropped and its counter given up.
LEMMA DropKeeps ==
    ASSUME IInv, NEW b \in Backends, DropGraph(b)
    PROVE  IInv'
<1> USE DEF DropGraph, EndsStatement, Goto
<1>1. TypeOK /\ XactInv /\ BackendInv(b) /\ AssignXid(b)
  BY DEF IInv
<1>2. /\ xact' \in [Xids -> {"unused", "running", "committed", "aborted"}]
      /\ next_xid' \in 1 .. MaxXid + 1
      /\ xid' \in [Backends -> 0 .. MaxXid]
      /\ xid'[b] \in Xids
      /\ \A e \in Backends : e # b => xid'[e] = xid[e]
      /\ \A x \in Xids : xact'[x] # xact[x] =>
             x = xid'[b] /\ xact[x] = "unused" /\ xact'[x] = "running"
      /\ xid[b] # 0 => xid'[b] = xid[b]
      /\ xid[b] = 0 => xact[xid'[b]] = "unused"
      /\ latest < next_xid'
      /\ \A x \in Xids : xact'[x] = "unused" <=> x >= next_xid'
      /\ \A e \in Backends : xid'[e] # 0 => xact'[xid'[e]] = "running"
      /\ \A e, d \in Backends : e # d /\ xid'[e] = xid'[d] => xid'[e] = 0
  BY <1>1, AssignIs
<1>3. /\ pc'[b] = "open" /\ cid'[b] = cid[b] + 1 /\ cid[b] \in Nat /\ target[b] \in Graphs
      /\ \A e \in Backends : e # b => pc'[e] = pc[e] /\ cid'[e] = cid[e] /\ snap'[e] = snap[e]
      /\ removals'[target[b]] = removals[target[b]] + 1
      /\ \A g \in Graphs : version[g] \in Nat /\ removals[g] \in Nat
      /\ \A g \in Graphs : g # target[b] => removals'[g] = removals[g] /\ version'[g] = version[g]
  BY <1>1 DEF TypeOK
<1>4. TypeOK'
  <2>1. NoSnapshot \in [xmin : Nat, xmax : Nat, xip : SUBSET Xids, curcid : Nat]
    BY DEF NoSnapshot
  <2>2. xid'[b] \in 0 .. MaxXid
    BY <1>2
  <2> QED
    BY <1>1, <1>2, <2>1, <2>2 DEF TypeOK, States
<1>5. Xids \subseteq Nat /\ 0 \notin Xids /\ \A ch \in changes : ch.xid \in Xids /\ ch.graph \in Graphs
  BY <1>1, XidFacts, ChangeFacts
<1>6. \A x \in Xids : xact'[x] # xact[x] => xact[x] \notin Over /\ xact'[x] \notin Over
  BY <1>2 DEF Over
<1>7. XactInv'
  <2>1. \A x \in Xids : xact'[x] \in Over => x <= latest
    BY <1>1, <1>6 DEF XactInv
  <2>2. \A e \in Backends : cid'[e] > 0 \/ pc'[e] \in Writing => xid'[e] # 0
    <3> SUFFICES ASSUME NEW e \in Backends, cid'[e] > 0 \/ pc'[e] \in Writing PROVE xid'[e] # 0
      OBVIOUS
    <3>1. CASE e = b
      BY <1>2, <1>5, <3>1
    <3>2. CASE e # b
      BY <1>1, <1>2, <1>3, <3>2 DEF XactInv
    <3> QED
      BY <3>1, <3>2
  <2>3. \A ch \in changes : xact'[ch.xid] # "unused"
    <3> SUFFICES ASSUME NEW ch \in changes PROVE xact'[ch.xid] # "unused"
      OBVIOUS
    <3>1. ch.xid \in Xids /\ xact[ch.xid] # "unused"
      BY <1>1, <1>5 DEF XactInv
    <3> QED
      BY <1>2, <3>1
  <2> QED
    BY <1>2, <2>1, <2>2, <2>3 DEF XactInv
<1>8. \A ch \in changes : Pending(ch) => Pending(ch)'
  <2> SUFFICES ASSUME NEW ch \in changes, NEW e \in Backends, pc[e] = "bump",
                      xid[e] = ch.xid, cid[e] = ch.cid, target[e] = ch.graph
               PROVE  Pending(ch)'
    BY DEF Pending
  <2>1. pc'[e] = "bump" /\ xid'[e] = ch.xid /\ cid'[e] = ch.cid /\ target'[e] = ch.graph
    BY <1>2, <1>3
  <2> QED
    BY <2>1 DEF Pending
<1>9. Frame(b)
  <2>1. OthersSame(b)
    BY <1>2, <1>3 DEF OthersSame
  <2>2. \A x \in Xids : xact'[x] # xact[x] =>
           xact[x] \notin Over /\ \A e \in Backends : e # b => xid[e] # x
    <3> SUFFICES ASSUME NEW x \in Xids, xact'[x] # xact[x], NEW e \in Backends, xid[e] = x
                 PROVE  FALSE \/ e = b
      BY <1>6
    <3> QED
      BY <1>1, <1>2, <1>5 DEF XactInv
  <2>3. \A g \in Graphs :
            /\ removals[g] <= removals'[g]
            /\ removals'[g] = removals[g] => version[g] <= version'[g]
    BY <1>3
  <2>4. latest <= latest'
    BY <1>1, BoundAssumption DEF TypeOK
  <2> QED
    BY <1>8, <2>1, <2>2, <2>3, <2>4 DEF Frame
<1>10. BackendInv(b)'
  <2>1. cid'[b] >= cid[b] /\ (xid[b] > latest => xid[b] # 0)
    BY <1>1, <1>3, BoundAssumption DEF TypeOK
  <2> QED
    BY <1>2, <1>3, <1>4, <1>7, <1>9, <2>1, OwnInactive
<1>11. ret' = [e \in Backends |-> ret'[e]]
  BY DEF IInv
<1> QED
  BY <1>4, <1>7, <1>9, <1>10, <1>11, StepKeeps

\* A transaction commits or is rolled back, anywhere in a statement.
LEMMA FinishKeeps ==
    ASSUME IInv, NEW b \in Backends, NEW outcome \in Over, Finish(b, outcome),
           pc[b] = "bump" => outcome = "aborted"
    PROVE  IInv'
<1> USE DEF Finish, Goto
<1>1. TypeOK /\ XactInv /\ BackendInv(b)
  BY DEF IInv
<1>2. /\ Xids \subseteq Nat /\ 0 \notin Xids /\ 0 .. MaxXid = Xids \cup {0}
      /\ latest \in Nat /\ latest \in Xids \cup {0} /\ xid[b] \in Xids \cup {0}
      /\ next_xid \in Nat /\ xid[b] \in Nat
      /\ \A ch \in changes : ch.xid \in Xids
  <2>1. Xids \subseteq Nat /\ 0 \notin Xids /\ 0 .. MaxXid = Xids \cup {0}
    BY XidFacts, Zenon
  <2>2. latest \in 0 .. MaxXid /\ xid[b] \in 0 .. MaxXid /\ next_xid \in 1 .. MaxXid + 1
    BY <1>1, Zenon DEF TypeOK
  <2>3. latest \in Nat /\ next_xid \in Nat /\ xid[b] \in Nat
    BY <2>2, BoundAssumption
  <2>4. \A ch \in changes : ch.xid \in Xids
    BY <1>1, ChangeFacts, Zenon
  <2> QED
    BY <2>1, <2>2, <2>3, <2>4, Zenon
<1>3. /\ pc'[b] = "idle" /\ cid'[b] = 0 /\ xid'[b] = 0 /\ mutex' = mutex
      /\ \A e \in Backends : e # b => /\ pc'[e] = pc[e] /\ cid'[e] = cid[e] /\ snap'[e] = snap[e]
                                      /\ xid'[e] = xid[e] /\ ret'[e] = ret[e]
      /\ ret' = [e \in Backends |-> ret'[e]]
  BY <1>1 DEF TypeOK, IInv
<1>4. /\ xid[b] # 0 => xact'[xid[b]] = outcome /\ xact[xid[b]] = "running"
      /\ \A x \in Xids : x # xid[b] => xact'[x] = xact[x]
      /\ xact' \in [Xids -> {"unused", "running", "committed", "aborted"}]
  BY <1>1, <1>2 DEF TypeOK, XactInv, Over
<1>5. /\ latest' \in Nat /\ latest' \in 0 .. MaxXid /\ latest <= latest' /\ xid[b] <= latest'
      /\ latest' = latest => ~(xid[b] > latest)
  BY <1>1, <1>2 DEF TypeOK
<1>6. TypeOK'
  <2>1. NoSnapshot \in [xmin : Nat, xmax : Nat, xip : SUBSET Xids, curcid : Nat]
    BY DEF NoSnapshot
  <2>2. 0 \in 0 .. MaxXid
    BY <1>2
  <2> QED
    BY <1>1, <1>4, <1>5, <2>1, <2>2 DEF TypeOK, States
<1>7. XactInv'
  <2>1. latest' < next_xid
    <3>1. xid[b] # 0 => xid[b] < next_xid
      BY <1>1, <1>2, <1>4 DEF XactInv
    <3> QED
      BY <1>1, <1>2, <3>1 DEF XactInv
  <2>2. ASSUME NEW x \in Xids
        PROVE  (xact'[x] = "unused" <=> x >= next_xid) /\ (xact'[x] \in Over => x <= latest')
    <3>1. CASE x = xid[b]
      <4>1. xact[x] = "running" /\ xact'[x] = outcome /\ x # 0
        BY <1>2, <1>4, <3>1
      <4>2. xact'[x] # "unused" /\ ~(x >= next_xid)
        BY <1>1, <4>1 DEF XactInv, Over
      <4> QED
        BY <1>5, <3>1, <4>2
    <3>2. CASE x # xid[b]
      <4>1. x \in Nat /\ xact'[x] = xact[x]
        BY <1>2, <1>4, <3>2
      <4>2. (xact[x] = "unused" <=> x >= next_xid) /\ (xact[x] \in Over => x <= latest)
        BY <1>1 DEF XactInv
      <4> QED
        BY <1>2, <1>5, <4>1, <4>2
    <3> QED
      BY <3>1, <3>2
  <2>3. ASSUME NEW e \in Backends
        PROVE  /\ xid'[e] # 0 => xact'[xid'[e]] = "running"
               /\ cid'[e] > 0 \/ pc'[e] \in Writing => xid'[e] # 0
    <3>1. CASE e = b
      BY <1>3, <3>1 DEF Writing
    <3>2. CASE e # b
      <4>1. xid[e] \in Xids \cup {0} /\ (xid[e] # 0 => xid[e] # xid[b])
        BY <1>1, <1>2, <3>2 DEF TypeOK, XactInv
      <4> QED
        BY <1>1, <1>3, <1>4, <3>2, <4>1 DEF XactInv
    <3> QED
      BY <3>1, <3>2
  <2>4. \A e, d \in Backends : e # d /\ xid'[e] = xid'[d] => xid'[e] = 0
    BY <1>1, <1>3 DEF XactInv
  <2>5. \A ch \in changes : xact'[ch.xid] # "unused"
    BY <1>1, <1>2, <1>4 DEF XactInv, Over
  <2> QED
    BY <2>1, <2>2, <2>3, <2>4, <2>5 DEF XactInv
<1>8. \A ch \in changes : Pending(ch) => Pending(ch)' \/ xact'[ch.xid] = "aborted"
  <2> SUFFICES ASSUME NEW ch \in changes, NEW e \in Backends, pc[e] = "bump",
                      xid[e] = ch.xid, cid[e] = ch.cid, target[e] = ch.graph
               PROVE  Pending(ch)' \/ xact'[ch.xid] = "aborted"
    BY DEF Pending
  <2>1. CASE e = b
    BY <1>2, <1>4, <2>1
  <2>2. CASE e # b
    <3>1. pc'[e] = "bump" /\ xid'[e] = ch.xid /\ cid'[e] = ch.cid /\ target'[e] = ch.graph
      BY <1>3, <2>2
    <3> QED
      BY <3>1 DEF Pending
  <2> QED
    BY <2>1, <2>2
<1>9. Frame(b)
  <2>1. OthersSame(b)
    BY <1>3 DEF OthersSame
  <2>2. \A x \in Xids : xact'[x] # xact[x] =>
           xact[x] \notin Over /\ \A e \in Backends : e # b => xid[e] # x
    BY <1>1, <1>2, <1>4 DEF XactInv, Over
  <2>3. \A g \in Graphs : version[g] <= version'[g] /\ removals[g] <= removals'[g]
    BY <1>1 DEF TypeOK
  <2> QED
    BY <1>5, <1>8, <2>1, <2>2, <2>3 DEF Frame
<1>10. BackendInv(b)'
  BY <1>3, <1>5, <1>6, <1>7, <1>9, OwnInactive
<1> QED
  BY <1>3, <1>6, <1>7, <1>9, <1>10, StepKeeps

\* A change that is aborted or pending is not visible to a backend that is not
\* itself about to raise the counter.
LEMMA UnseenIs ==
    ASSUME TypeOK, XactInv, NEW b \in Backends, pc[b] # "bump", NEW ch \in changes,
           xact[ch.xid] = "aborted" \/ Pending(ch)
    PROVE  ~Visible(b, ch)
<1>1. ch.xid \in Xids /\ 0 \notin Xids
  BY ChangeFacts, XidFacts
<1>2. CASE xact[ch.xid] = "aborted"
  <2>1. ch.xid # xid[b]
    BY <1>1, <1>2 DEF XactInv
  <2> QED
    BY <1>2, <2>1 DEF Visible
<1>3. CASE Pending(ch)
  <2>1. PICK d \in Backends : pc[d] = "bump" /\ xid[d] = ch.xid
    BY <1>3 DEF Pending
  <2>2. xact[ch.xid] = "running" /\ d # b
    BY <1>1, <2>1 DEF XactInv
  <2>3. ch.xid # xid[b]
    BY <1>1, <2>1, <2>2 DEF XactInv
  <2> QED
    BY <2>2, <2>3 DEF Visible
<1> QED
  BY <1>2, <1>3

\* The label and the parts a context has cover the ones that were asked for.
LEMMA CoveredIs ==
    ASSUME NEW c, NEW r, Satisfies(c, r), r.parts # {}, NEW ch, ch.graph = c.graph,
           r.label = NoLabel \/ ch.label = r.label
    PROVE  c.parts # {} /\ Matches(c, ch)
BY DEF Satisfies, Matches

\* A context that passes the test of validity has the same changes of a kind as
\* the snapshot shows: by QuietInv with the counter, and by NoneInv without.
LEMMA ValidIsExact ==
    ASSUME IInv, NEW b \in Backends, pc[b] = "stmt", NEW c \in contexts[b], c.loaded,
           ~is_ggctx_invalid(b, c), NEW r \in Asked, Satisfies(c, r), r.parts # {}, NEW ch,
           \/ Counting /\ c.epoch = removals[c.graph] /\ c.quiet /\ Counts(c, ch)
           \/ ~Counting /\ c.xmin = c.xmax
    PROVE  ch \in Of(c.graph, r.label, c.content) <=> ch \in Content(b, c.graph, r.label)
<1>1. TypeOK /\ XactInv /\ BackendInv(b) /\ Active(b)
  BY DEF IInv, Active
<1>2. c.graph \in Graphs /\ c.version \in Nat /\ version[c.graph] \in Nat
  BY <1>1, ContextFacts DEF TypeOK
<1>3. c.parts # {}
  BY DEF Satisfies
<1>4. ch \in c.content => ch \in changes /\ Visible(b, ch)
  <2>1. CASE Counting /\ c.epoch = removals[c.graph] /\ c.quiet /\ Counts(c, ch)
    BY <1>1, <2>1 DEF BackendInv, QuietInv, QuietCtx
  <2>2. CASE ~Counting /\ c.xmin = c.xmax
    <3>1. c.xmax = snap[b].xmax /\ c.curcid = snap[b].curcid
      BY <2>2 DEF is_ggctx_invalid
    <3>2. NoneCtx(b, c)
      BY <1>1, <2>2 DEF BackendInv, NoneInv
    <3> QED
      BY <1>1, <1>3, <2>2, <3>1, <3>2 DEF NoneCtx
  <2> QED
    BY <2>1, <2>2
<1>5. ASSUME ch \in changes, Matches(c, ch), Visible(b, ch)
      PROVE  ch \in c.content
  <2>1. CASE Counting /\ c.epoch = removals[c.graph] /\ c.quiet /\ Counts(c, ch)
    <3>1. QuietCtx(b, c)
      BY <1>1, <2>1 DEF BackendInv, QuietInv
    <3>2. c.version <= version[c.graph]
      BY <2>1, <3>1 DEF QuietCtx
    <3>3. c.version = version[c.graph]
      <4>1. version[c.graph] > 0 => c.version = version[c.graph]
        BY <2>1 DEF is_ggctx_invalid
      <4> QED
        BY <1>2, <3>2, <4>1
    <3>5. xact[ch.xid] = "aborted" \/ Pending(ch) \/ Known(b, c, ch)
      BY <1>5, <2>1, <3>1, <3>3 DEF QuietCtx
    <3>6. Known(b, c, ch)
      BY <1>1, <1>5, <3>5, UnseenIs
    <3> QED
      BY <1>3, <1>5, <3>6 DEF Known
  <2>2. CASE ~Counting /\ c.xmin = c.xmax
    <3>1. c.xmax = snap[b].xmax /\ c.curcid = snap[b].curcid
      BY <2>2 DEF is_ggctx_invalid
    <3>2. NoneCtx(b, c)
      BY <1>1, <2>2 DEF BackendInv, NoneInv
    <3> QED
      BY <1>1, <1>3, <1>5, <2>2, <3>1, <3>2 DEF NoneCtx
  <2> QED
    BY <2>1, <2>2
<1>6. ch \in Of(c.graph, r.label, c.content) <=>
          ch \in c.content /\ ch.graph = c.graph /\ (r.label = NoLabel \/ ch.label = r.label)
  BY DEF Of
<1>7. ch \in Content(b, c.graph, r.label) <=>
          /\ ch \in changes /\ ch.graph = c.graph /\ (r.label = NoLabel \/ ch.label = r.label)
          /\ Visible(b, ch)
  BY DEF Content, Of
<1>8. ch.graph = c.graph /\ (r.label = NoLabel \/ ch.label = r.label) => Matches(c, ch)
  BY CoveredIs
<1> QED
  BY <1>4, <1>5, <1>6, <1>7, <1>8

\* manage_GRAPH_global_contexts_internal finds a context, or links a new one.
LEMMA ManageKeeps ==
    ASSUME IInv, NEW b \in Backends, pc[b] = "stmt",
           NEW S \in SUBSET contexts[b], NEW r \in Asked, NEW kind,
           kind = "stats" => Found(b, S, target[b], r) = {},
           Manage(b, S, r, kind)
    PROVE  IInv'
<1> DEFINE g == target[b]
           f == Found(b, S, g, r)
           K == Kept(b, S)
<1>1. TypeOK /\ XactInv /\ BackendInv(b) /\ g \in Graphs
  BY DEF IInv, TypeOK
<1>2. /\ ~mutex[b] /\ UNCHANGED <<db, version, local, stmts>>
      /\ \/ /\ f # {}
            /\ contexts' = [contexts EXCEPT ![b] = K]
            /\ ret' = [ret EXCEPT ![b] = <<Newest(f), r, kind, "cached">>]
            /\ Goto(b, "returned")
            /\ UNCHANGED mutex
         \/ /\ f = {} /\ Exists(g)
            /\ contexts' = [contexts EXCEPT ![b] = K \cup {NewContext(b, K, g)}]
            /\ ret' = [ret EXCEPT ![b] = <<NewContext(b, K, g), r, kind, "new">>]
            /\ mutex' = [mutex EXCEPT ![b] = TRUE]
            /\ Goto(b, "load")
  BY DEF Manage
<1>3. /\ K \subseteq contexts[b] /\ f \subseteq K /\ contexts[b] \in SUBSET Contexts
      /\ \A c \in f : c.graph = g /\ Satisfies(c, r)
      /\ \A c \in K : ~is_ggctx_invalid(b, c)
      /\ \A c \in K : c.graph = g /\ Satisfies(c, r) => c \in f
  BY <1>1 DEF Kept, Found, TypeOK
<1>4. \A c \in contexts[b] : c.loaded /\ c.stamp \in Nat
  BY <1>1, <1>2, ContextFacts DEF BackendInv, ListInv
<1>5. PICK n \in Nat : \A c \in contexts[b] : c.stamp <= n
  BY <1>1 DEF BackendInv, ListInv
<1> HIDE DEF f, K
<1>6. SUFFICES ASSUME NEW state \in {"returned", "load"}, pc' = [pc EXCEPT ![b] = state],
                      NEW C \in SUBSET Contexts, contexts' = [contexts EXCEPT ![b] = C],
                      NEW R, ret' = [ret EXCEPT ![b] = R],
                      NEW m \in BOOLEAN, mutex' = [mutex EXCEPT ![b] = m],
                      \/ /\ f # {} /\ state = "returned" /\ ~m
                         /\ C = K /\ R = <<Newest(f), r, kind, "cached">>
                      \/ /\ f = {} /\ state = "load" /\ m
                         /\ C = K \cup {NewContext(b, K, g)}
                         /\ R = <<NewContext(b, K, g), r, kind, "new">>
               PROVE  IInv'
  <2>1. CASE f # {}
    <3>1. mutex' = [mutex EXCEPT ![b] = FALSE]
      BY <1>1, <1>2, <2>1 DEF TypeOK
    <3>2. K \in SUBSET Contexts
      BY <1>3
    <3> QED
      BY <1>2, <1>6, <2>1, <3>1, <3>2 DEF Goto
  <2>2. CASE f = {}
    <3>1. K \cup {NewContext(b, K, g)} \in SUBSET Contexts
      BY <1>1, <1>3, <1>5, NewContextType
    <3> QED
      BY <1>2, <1>6, <2>2, <3>1 DEF Goto
  <2> QED
    BY <2>1, <2>2
<1>7. /\ pc'[b] = state /\ contexts'[b] = C /\ ret'[b] = R /\ mutex'[b] = m
      /\ \A e \in Backends : e # b => /\ pc'[e] = pc[e] /\ contexts'[e] = contexts[e]
                                      /\ ret'[e] = ret[e] /\ mutex'[e] = mutex[e]
      /\ ret' = [e \in Backends |-> ret'[e]]
      /\ Active(b) /\ Active(b)' /\ (Counting' <=> Counting)
      /\ UNCHANGED <<xact, next_xid, latest, changes, drop, removals, version, version_mode, xid, cid,
                     snap, target, stmts>>
  BY <1>1, <1>2, <1>6, Zenon DEF TypeOK, IInv, Active, Counting, db, local
<1>8. TypeOK'
  BY <1>1, <1>6, <1>7 DEF TypeOK, States
<1>9. XactInv'
  <2>1. \A e \in Backends : pc'[e] \in Writing => pc[e] \in Writing
    BY <1>6, <1>7 DEF Writing
  <2> QED
    BY <1>1, <1>7, <2>1 DEF XactInv
<1>10. \A ch : Pending(ch) => Pending(ch)'
  BY <1>7 DEF Pending
<1>11. Frame(b)
  <2>1. OthersSame(b)
    BY <1>7 DEF OthersSame
  <2>2. latest <= latest' /\ \A h \in Graphs : version[h] <= version'[h] /\ removals[h] <= removals'[h]
    BY <1>1, <1>7, BoundAssumption DEF TypeOK
  <2> QED
    BY <1>7, <1>10, <2>1, <2>2 DEF Frame
<1>12. \A ch : Visible(b, ch)' <=> Visible(b, ch)
  BY <1>7 DEF Visible
<1>13. SnapInv(b)'
  BY <1>1, <1>7 DEF BackendInv, SnapInv
<1>14. Counting => \A c \in K : QuietCtx(b, c)'
  BY <1>3, <1>4, <1>7, <1>8, <1>9, <1>11, <1>12, OwnQuiet
<1>15. ~Counting => \A c \in K : NoneCtx(b, c)'
  <2>1. cid'[b] >= cid[b]
    BY <1>1, <1>7 DEF TypeOK
  <2> QED
    BY <1>3, <1>4, <1>7, <1>8, <1>9, <1>11, <1>12, <2>1, OwnNone
<1>16. CASE f # {}
  <2>1. C = K /\ R = <<Newest(f), r, kind, "cached">> /\ state = "returned" /\ ~m
    BY <1>6, <1>16
  <2>2. Newest(f) \in f
    <3>1. \A c \in f : c.stamp \in Nat /\ c.stamp <= n
      BY <1>3, <1>4, <1>5
    <3> QED
      BY <1>16, <3>1, NewestIs
  <2>3. PICK c \in f : c = Newest(f)
    BY <2>2
  <2>4. /\ c \in K /\ c \in contexts[b] /\ c.loaded /\ c.graph = g /\ Satisfies(c, r)
        /\ ~is_ggctx_invalid(b, c)
    BY <1>3, <1>4
  <2>5. ret'[b][1] = c /\ ret'[b][2] = r /\ ret'[b][3] = kind /\ ret'[b][4] = "cached"
    BY <1>7, <2>1, <2>3
  <2>6. ListInv(b)' /\ WholeInv(b)'
    <3>1. mutex'[b] = mutex[b]
      BY <1>1, <1>2, <1>7, <2>1 DEF TypeOK
    <3> QED
      BY <1>1, <1>3, <1>7, <2>1, <3>1, SubList DEF BackendInv
  <2>7. LoadInv(b)'
    BY <1>7, <2>1 DEF LoadInv
  <2>8. UsableInv(b)'
    <3>1. kind # "stats"
      BY <1>16 DEF f
    <3> QED
      BY <1>7, <2>1, <2>4, <2>5, <3>1 DEF UsableInv, Given
  <2>9. QuietInv(b)' /\ NoneInv(b)'
    BY <1>7, <1>14, <1>15, <2>1 DEF QuietInv, NoneInv
  <2>10. ExactInv(b)'
    <3>1. ASSUME r.parts # {}, NEW ch,
                 \/ Counting /\ c.epoch = removals[c.graph] /\ c.quiet /\ Counts(c, ch)
                 \/ ~Counting /\ c.xmin = c.xmax
          PROVE  ch \in Of(g, r.label, c.content) <=> ch \in Content(b, g, r.label)
      BY <2>4, <3>1, ValidIsExact
    <3>2. Content(b, g, r.label)' = Content(b, g, r.label)
      BY <1>7, <1>12 DEF Content, Of
    <3>3. ~Counting /\ c.xmin = c.xmax => Exact(b)'
      <4>1. Exact(b)' <=> (r.parts # {} => Of(g, r.label, c.content) = Content(b, g, r.label)')
        BY <1>7, <2>5 DEF Exact, Given, AskedLabel, Of
      <4>2. ASSUME r.parts # {}, ~Counting, c.xmin = c.xmax
            PROVE  \A ch : ch \in Of(g, r.label, c.content) <=> ch \in Content(b, g, r.label)
        BY <3>1, <4>2
      <4> QED
        BY <3>2, <4>1, <4>2
    <3>4. ASSUME Counting, c.epoch = removals[g], c.quiet PROVE ExactCounted(b)'
      <4> DEFINE A == Counted(Of(g, r.label, c.content))
                 B == Counted(Content(b, g, r.label))
      <4>1. ExactCounted(b)' <=> (r.parts # {} => A = Counted(Content(b, g, r.label)'))
        BY <1>7, <2>5 DEF ExactCounted, Given, AskedLabel, Of, Counted
      <4>2. ASSUME r.parts # {}, NEW ch PROVE ch \in A <=> ch \in B
        <5>1. /\ ch \in A <=> ch \in Of(g, r.label, c.content) /\ ch.kind = "clause"
              /\ ch \in B <=> ch \in Content(b, g, r.label) /\ ch.kind = "clause"
          BY DEF Counted
        <5>2. ch \in Of(g, r.label, c.content) \/ ch \in Content(b, g, r.label) => ch.graph = g
          BY DEF Of, Content
        <5>3. ch.graph = g /\ ch.kind = "clause" => Counts(c, ch)
          BY <2>4 DEF Counts
        <5>4. Counts(c, ch) => (ch \in Of(g, r.label, c.content) <=> ch \in Content(b, g, r.label))
          BY <2>4, <3>1, <3>4, <4>2
        <5> QED
          BY <5>1, <5>2, <5>3, <5>4
      <4>3. r.parts # {} => \A ch : ch \in A <=> ch \in B
        BY <4>2
      <4> HIDE DEF A
      <4>4. r.parts # {} => A = B
        BY <4>3
      <4> QED
        BY <3>2, <4>1, <4>4
    <3> QED
      BY <1>7, <2>5, <3>3, <3>4 DEF ExactInv, Given, SameEpoch
  <2>11. EpochInv(b)'
    BY <1>3, <1>7, <1>8, <1>11, <2>1, EpochKeeps
  <2> QED
    BY <1>7, <1>8, <1>9, <1>11, <1>13, <2>6, <2>7, <2>8, <2>9, <2>10, <2>11, StepKeeps DEF BackendInv
<1>17. CASE f = {}
  <2>1. PICK c : c = NewContext(b, K, g)
    OBVIOUS
  <2>2. C = K \cup {c} /\ R = <<c, r, kind, "new">> /\ state = "load" /\ m
    BY <1>6, <1>17, <2>1
  <2>3. /\ c \in Contexts
        /\ \A d \in K : d.stamp < c.stamp
        /\ c.graph = g /\ ~c.loaded
        /\ c.content = {}
        /\ c.xmin = snap[b].xmin /\ c.xmax = snap[b].xmax
        /\ c.curcid = snap[b].curcid
        /\ Counting => c.version = version[g]
        /\ c.epoch = removals[g]
        /\ c.quiet => \A ch \in changes : ch.graph = g /\ ch.kind = "clause" =>
               xact[ch.xid] = "aborted" \/ (Visible(b, ch) /\ ch.xid # xid[b])
    <3>1. K \in SUBSET Contexts /\ \A d \in K : d.stamp <= n
      BY <1>3, <1>5
    <3> QED
      BY <1>1, <2>1, <3>1, NewContextType
  <2>4. ret'[b][1] = c /\ ret'[b][2] = r /\ ret'[b][3] = kind /\ ret'[b][4] = "new"
    BY <1>7, <2>2
  <2>5. c.stamp \in Nat
    BY <2>3 DEF Contexts
  <2>6. ListInv(b)'
    <3>1. \A d \in C : d.stamp <= c.stamp
      BY <1>3, <1>4, <2>2, <2>3, <2>5
    <3>2. \A d, e \in C : d.stamp = e.stamp => d = e
      <4>1. \A d, e \in K : d.stamp = e.stamp => d = e
        BY <1>1, <1>3 DEF BackendInv, ListInv
      <4>2. \A d \in K : d.stamp # c.stamp
        BY <1>3, <1>4, <2>3, <2>5
      <4> QED
        BY <2>2, <4>1, <4>2
    <3> QED
      BY <1>7, <2>2, <2>5, <3>1, <3>2 DEF ListInv
  <2>7. LoadInv(b)'
    <3>1. \A d \in C : d # c => d.loaded /\ d.stamp < c.stamp
      BY <1>3, <1>4, <2>2, <2>3
    <3> QED
      BY <1>7, <2>2, <2>3, <2>4, <3>1 DEF LoadInv
  <2>8. WholeInv(b)'
    <3> SUFFICES ASSUME NEW d \in C, NEW e \in C, d.graph = e.graph, IsWhole(d)
                 PROVE  e.stamp <= d.stamp
      BY <1>7 DEF WholeInv
    <3>1. CASE d \in K /\ e \in K
      BY <1>1, <1>3, <3>1 DEF BackendInv, WholeInv
    <3>2. CASE d = c
      BY <1>3, <1>4, <2>2, <2>3, <2>5, <3>2
    <3>3. CASE d \in K /\ e = c
      <4>1. d.graph = g /\ Satisfies(d, r)
        BY <2>3, <3>3 DEF Asked, IsWhole, Satisfies
      <4> QED
        BY <1>3, <1>17, <3>3, <4>1
    <3> QED
      BY <2>2, <3>1, <3>2, <3>3
  <2>9. UsableInv(b)' /\ ExactInv(b)'
    BY <1>7, <2>2 DEF UsableInv, ExactInv
  <2>10. QuietInv(b)'
    <3>1. ASSUME Counting PROVE QuietCtx(b, c)'
      <4> SUFFICES ASSUME c.quiet
                   PROVE  /\ c.version <= version[c.graph]
                          /\ \A ch \in changes : Counts(c, ch) => ch.xid # xid[b]
                          /\ \A ch \in changes : Counts(c, ch) =>
                                 xact[ch.xid] = "aborted" \/ Known(b, c, ch)'
        BY <1>7, <2>3 DEF QuietCtx
      <4>1. c.version <= version[c.graph]
        BY <1>1, <2>3, <3>1 DEF TypeOK
      <4>2. ASSUME NEW ch \in changes, Counts(c, ch)
            PROVE  ch.xid # xid[b] /\ (xact[ch.xid] = "aborted" \/ Known(b, c, ch)')
        <5>1. xact[ch.xid] = "aborted" \/ (Visible(b, ch) /\ ch.xid # xid[b])
          BY <2>3, <4>2 DEF Counts
        <5>2. xact[ch.xid] = "aborted" => ch.xid # xid[b]
          <6>1. ch.xid # 0
            BY <1>1, ChangeFacts, XidFacts
          <6> QED
            BY <1>1, <6>1 DEF XactInv
        <5>3. Visible(b, ch) /\ ch.xid # xid[b] => Known(b, c, ch)'
          BY <1>7, <1>12, <2>3 DEF Known
        <5> QED
          BY <5>1, <5>2, <5>3
      <4> QED
        BY <4>1, <4>2
    <3> QED
      BY <1>7, <1>14, <2>2, <3>1 DEF QuietInv
  <2>11. NoneInv(b)'
    <3>1. NoneCtx(b, c)'
      BY <2>3 DEF NoneCtx
    <3> QED
      BY <1>7, <1>15, <2>2, <3>1 DEF NoneInv
  <2>12. EpochInv(b)'
    <3>1. \A d \in K : d.epoch <= removals[d.graph]
      BY <1>1, <1>3 DEF BackendInv, EpochInv
    <3>2. c.epoch <= removals[c.graph]
      BY <1>1, <2>3 DEF TypeOK
    <3> QED
      BY <1>7, <2>2, <3>1, <3>2 DEF EpochInv
  <2> QED
    BY <1>7, <1>8, <1>9, <1>11, <1>13, <2>6, <2>7, <2>8, <2>9, <2>10, <2>11, <2>12, StepKeeps
       DEF BackendInv
<1> QED
  BY <1>16, <1>17

\* A query asks with one of the requests of the callers.
LEMMA QueryKeeps ==
    ASSUME IInv, NEW b \in Backends, NEW r \in Requests, Query(b, r)
    PROVE  IInv'
<1>1. r \in Asked
  BY RequestAssumption DEF Asked
<1>2. contexts[b] \in SUBSET contexts[b] /\ "vle" # "stats"
  OBVIOUS
<1> QED
  BY <1>1, <1>2, ManageKeeps DEF Query

\* graph_stats deletes the first context of the graph, and finds none of those
\* that are left: one that has the whole graph would have been the first.
LEMMA StatsKeeps ==
    ASSUME IInv, NEW b \in Backends, GraphStats(b)
    PROVE  IInv'
<1> DEFINE g == target[b]
           r == [label |-> NoLabel, parts |-> Parts]
           S == WithoutFirst(contexts[b], g)
           T == {c \in contexts[b] : c.graph = g}
<1>1. BackendInv(b) /\ TypeOK
  BY DEF IInv
<1>2. r \in Asked /\ S \in SUBSET contexts[b]
  BY DEF Asked, WithoutFirst
<1>3. Found(b, S, g, r) = {}
  <2> SUFFICES ASSUME NEW c \in Found(b, S, g, r) PROVE FALSE
    OBVIOUS
  <2>1. c \in S /\ c \in contexts[b] /\ c.graph = g /\ Satisfies(c, r)
    BY <1>2 DEF Found, Kept
  <2>2. IsWhole(c)
    <3>1. c.parts \subseteq Parts
      BY <1>1, <2>1, ContextFacts
    <3> QED
      BY <2>1, <3>1 DEF Satisfies, IsWhole
  <2>3. c \in T /\ S = contexts[b] \ {Newest(T)}
    BY <2>1 DEF WithoutFirst
  <2>4. PICK n \in Nat : \A d \in contexts[b] : d.stamp <= n
    BY <1>1 DEF BackendInv, ListInv
  <2>5. \A d \in T : d.stamp \in Nat /\ d.stamp <= n
    BY <1>1, <2>4, ContextFacts
  <2>6. Newest(T) \in T /\ \A d \in T : d.stamp <= Newest(T).stamp
    BY <2>3, <2>5, NewestIs
  <2>7. Newest(T).stamp <= c.stamp
    BY <1>1, <2>1, <2>2, <2>6 DEF BackendInv, WholeInv
  <2>8. Newest(T).stamp = c.stamp
    BY <2>3, <2>5, <2>6, <2>7
  <2>9. Newest(T) = c
    BY <1>1, <2>1, <2>6, <2>8 DEF BackendInv, ListInv
  <2> QED
    BY <2>1, <2>3, <2>9
<1> QED
  BY <1>2, <1>3, ManageKeeps DEF GraphStats

\* The load fills the new context under the snapshot of the statement.
LEMMA LoadKeeps ==
    ASSUME IInv, NEW b \in Backends, Load(b)
    PROVE  IInv'
<1>1. TypeOK /\ XactInv /\ BackendInv(b) /\ pc[b] = "load"
  BY DEF IInv, Load
<1> DEFINE n == ret[b][1]
           r == ret[b][2]
           g == target[b]
           seen == IF r.parts = {} THEN {} ELSE Content(b, n.graph, r.label)
<1>2. /\ mutex[b] /\ n \in contexts[b] /\ n.graph = g /\ r \in Asked /\ ret[b][4] = "new"
      /\ ~n.loaded /\ n.content = {}
      /\ n.xmin = snap[b].xmin /\ n.xmax = snap[b].xmax
      /\ n.curcid = snap[b].curcid
      /\ \A c \in contexts[b] : c # n => c.loaded /\ c.stamp < n.stamp
  BY <1>1 DEF BackendInv, LoadInv
<1>3. PICK m : m = [n EXCEPT !.content = seen, !.loaded = TRUE,
                             !.label = r.label, !.parts = r.parts]
  BY Zenon
<1>4. PICK C : C = (contexts[b] \ {n}) \cup {m}
  OBVIOUS
<1>5. /\ contexts' = [contexts EXCEPT ![b] = C]
      /\ ret' = [ret EXCEPT ![b] = <<m, ret[b][2], ret[b][3], ret[b][4]>>]
      /\ mutex' = [mutex EXCEPT ![b] = FALSE]
      /\ pc' = [pc EXCEPT ![b] = "returned"]
      /\ UNCHANGED <<xact, next_xid, latest, changes, drop, removals, version, version_mode, xid, cid,
                     snap, target, stmts>>
  BY <1>3, <1>4, Zenon DEF Load, Goto, db, local
<1>6. /\ r.label \in Labels \cup {NoLabel} /\ r.parts \subseteq Parts
      /\ seen \subseteq changes /\ seen \in SUBSET Changes
  BY <1>1, <1>2 DEF Asked, Content, Of, TypeOK
<1>7. n \in Contexts
  BY <1>1, <1>2, ContextFacts
<1> HIDE DEF seen
<1>8. /\ m \in Contexts /\ m.graph = g /\ m.label = r.label /\ m.parts = r.parts
      /\ m.version = n.version /\ m.xmin = n.xmin /\ m.xmax = n.xmax /\ m.curcid = n.curcid
      /\ m.content = seen /\ m.loaded /\ m.stamp = n.stamp /\ m.quiet = n.quiet
      /\ m.epoch = n.epoch
  BY <1>2, <1>3, <1>6, <1>7, Zenon DEF Contexts
<1>9. /\ C \in SUBSET Contexts /\ m \in C
      /\ \A c \in C : c = m \/ (c \in contexts[b] /\ c # n)
  BY <1>1, <1>4, <1>8 DEF TypeOK
<1>10. /\ pc'[b] = "returned" /\ contexts'[b] = C /\ mutex'[b] = FALSE
       /\ ret'[b] = <<m, ret[b][2], ret[b][3], ret[b][4]>>
       /\ \A e \in Backends : e # b => /\ pc'[e] = pc[e] /\ contexts'[e] = contexts[e]
                                       /\ ret'[e] = ret[e] /\ mutex'[e] = mutex[e]
       /\ ret' = [e \in Backends |-> ret'[e]]
       /\ Active(b) /\ Active(b)' /\ (Counting' <=> Counting)
  BY <1>1, <1>5 DEF TypeOK, IInv, Active, Counting
<1>11. ret'[b][1] = m /\ ret'[b][2] = r /\ ret'[b][4] = "new"
  BY <1>2, <1>10
<1>12. TypeOK'
  BY <1>1, <1>5, <1>9 DEF TypeOK, States
<1>13. XactInv'
  <2>1. \A e \in Backends : pc'[e] \in Writing => pc[e] \in Writing
    BY <1>10 DEF Writing
  <2> QED
    BY <1>1, <1>5, <2>1 DEF XactInv
<1>14. \A ch : Pending(ch) <=> Pending(ch)'
  BY <1>1, <1>5, <1>10 DEF Pending
<1>15. Frame(b)
  <2>1. OthersSame(b)
    BY <1>5, <1>10 DEF OthersSame
  <2>2. latest <= latest' /\ \A h \in Graphs : version[h] <= version'[h] /\ removals[h] <= removals'[h]
    BY <1>1, <1>5, BoundAssumption DEF TypeOK
  <2> QED
    BY <1>5, <1>14, <2>1, <2>2 DEF Frame
<1>16. \A ch : Visible(b, ch)' <=> Visible(b, ch)
  BY <1>5 DEF Visible
<1>17. SnapInv(b)'
  BY <1>1, <1>5, <1>10 DEF BackendInv, SnapInv
<1>18. m.stamp \in Nat /\ \A c \in contexts[b] : c.stamp \in Nat
  BY <1>1, <1>8, ContextFacts DEF Contexts
<1>19. ListInv(b)'
  <2>1. \A c \in C : c.loaded /\ c.stamp <= m.stamp
    BY <1>2, <1>8, <1>9, <1>18
  <2>2. \A c, e \in C : c.stamp = e.stamp => c = e
    <3>1. \A c, e \in contexts[b] : c.stamp = e.stamp => c = e
      BY <1>1 DEF BackendInv, ListInv
    <3>2. \A c \in contexts[b] : c # n => c.stamp # m.stamp
      BY <1>2, <1>8, <1>18
    <3> QED
      BY <1>9, <3>1, <3>2
  <2> QED
    BY <1>10, <1>18, <2>1, <2>2 DEF ListInv
<1>20. LoadInv(b)'
  BY <1>10 DEF LoadInv
<1>21. WholeInv(b)'
  <2> SUFFICES ASSUME NEW c \in C, NEW e \in C, c.graph = e.graph, IsWhole(c)
               PROVE  e.stamp <= c.stamp
    BY <1>10 DEF WholeInv
  <2>1. CASE c = m
    BY <1>2, <1>8, <1>9, <1>18, <2>1
  <2>2. CASE c # m /\ e # m
    BY <1>1, <1>9, <2>2 DEF BackendInv, WholeInv
  <2>3. CASE c # m /\ e = m
    <3>1. c \in contexts[b] /\ c.stamp < n.stamp
      BY <1>2, <1>9, <2>3
    <3>2. n.stamp <= c.stamp
      BY <1>1, <1>2, <1>8, <2>3, <3>1 DEF BackendInv, WholeInv
    <3> QED
      BY <1>2, <1>18, <3>1, <3>2
  <2> QED
    BY <2>1, <2>2, <2>3
<1>22. UsableInv(b)'
  <2>1. Satisfies(m, r)
    BY <1>8 DEF Satisfies
  <2> QED
    BY <1>2, <1>5, <1>8, <1>9, <1>10, <1>11, <2>1 DEF UsableInv, Given
<1>23. \A ch : ch \in seen <=> r.parts # {} /\ ch \in changes /\ Matches(m, ch) /\ Visible(b, ch)
  BY <1>2, <1>8 DEF seen, Content, Of, Matches
<1>24. QuietInv(b)'
  <2>1. ASSUME Counting PROVE QuietCtx(b, m)'
    <3> SUFFICES ASSUME m.epoch = removals[g], m.quiet
                 PROVE  /\ m.version <= version[g]
                        /\ \A ch \in seen :
                               /\ ch \in changes /\ Matches(m, ch)
                               /\ Counts(m, ch) => xact[ch.xid] = "committed" /\ Visible(b, ch)'
                        /\ m.version = version[g] => \A ch \in changes : Counts(m, ch) =>
                               xact[ch.xid] = "aborted" \/ Pending(ch)' \/ Known(b, m, ch)'
      BY <1>5, <1>8 DEF QuietCtx
    <3>1. QuietCtx(b, n)
      BY <1>1, <1>2, <2>1 DEF BackendInv, QuietInv
    <3>2. /\ n.version <= version[g]
          /\ \A ch \in changes : Counts(n, ch) => ch.xid # xid[b]
          /\ n.version = version[g] => \A ch \in changes : Counts(n, ch) =>
                 xact[ch.xid] = "aborted" \/ Pending(ch) \/ Known(b, n, ch)
      BY <1>1, <1>2, <1>8, <3>1 DEF QuietCtx
    <3>3. ASSUME NEW ch \in seen
          PROVE  /\ ch \in changes /\ Matches(m, ch)
                 /\ Counts(m, ch) => xact[ch.xid] = "committed" /\ Visible(b, ch)'
      <4>1. ch \in changes /\ Matches(m, ch) /\ Visible(b, ch)
        BY <1>23
      <4>2. Counts(m, ch) => ch.xid # xid[b]
        BY <1>2, <1>8, <3>2, <4>1 DEF Counts
      <4> QED
        BY <1>16, <4>1, <4>2 DEF Visible
    <3>4. ASSUME m.version = version[g], NEW ch \in changes, Counts(m, ch)
          PROVE  xact[ch.xid] = "aborted" \/ Pending(ch)' \/ Known(b, m, ch)'
      <4>1. xact[ch.xid] = "aborted" \/ Pending(ch) \/ Known(b, n, ch)
        BY <1>2, <1>8, <3>2, <3>4 DEF Counts
      <4>2. Known(b, n, ch) => Visible(b, ch)
        BY <1>2 DEF Known
      <4>3. Visible(b, ch) => Known(b, m, ch)'
        BY <1>8, <1>23 DEF Known
      <4> QED
        BY <1>14, <4>1, <4>2, <4>3
    <3> QED
      BY <1>8, <3>2, <3>3, <3>4
  <2>2. ASSUME Counting, NEW c \in contexts[b], c # n PROVE QuietCtx(b, c)'
    BY <1>2, <1>10, <1>12, <1>13, <1>15, <1>16, <2>2, OwnQuiet
  <2> QED
    BY <1>9, <1>10, <2>1, <2>2 DEF QuietInv
<1>25. NoneInv(b)'
  <2>1. NoneCtx(b, m)'
    <3> SUFFICES ASSUME r.parts # {}, snap[b].xmin = snap[b].xmax
                 PROVE  /\ snap[b].xmax <= latest + 1
                        /\ \A ch \in seen : ch \in changes /\ Matches(m, ch)
                        /\ \A x \in Xids : x < snap[b].xmax => xact[x] \in Over
                        /\ snap[b].curcid > 0 => xid[b] # 0 /\ cid[b] >= snap[b].curcid
                        /\ \A ch \in changes : Matches(m, ch) =>
                               (ch \in seen <=>
                                   \/ xact[ch.xid] = "committed" /\ ch.xid < snap[b].xmax
                                   \/ ch.xid = xid[b] /\ ch.cid < snap[b].curcid)
                        /\ \A ch \in changes : Matches(m, ch) => (ch \in seen <=> Visible(b, ch)')
      BY <1>2, <1>5, <1>8 DEF NoneCtx
    <3>1. /\ snap[b].xmax <= latest + 1 /\ snap[b].curcid = cid[b] /\ snap[b].xip = {}
          /\ \A x \in Xids : x < snap[b].xmax => xact[x] \in Over
      BY <1>1, <1>10 DEF BackendInv, SnapInv
    <3>2. snap[b].curcid > 0 => xid[b] # 0 /\ cid[b] >= snap[b].curcid
      BY <1>1, <3>1 DEF XactInv, TypeOK
    <3>3. ASSUME NEW ch \in changes, Matches(m, ch)
          PROVE  Visible(b, ch) <=> \/ xact[ch.xid] = "committed" /\ ch.xid < snap[b].xmax
                                    \/ ch.xid = xid[b] /\ ch.cid < snap[b].curcid
      <4>1. ch.xid = xid[b] => xact[ch.xid] = "running"
        BY <1>1, ChangeFacts, XidFacts DEF XactInv
      <4> QED
        BY <3>1, <4>1 DEF Visible
    <3> QED
      BY <1>16, <1>23, <3>1, <3>2, <3>3
  <2>2. ASSUME ~Counting, NEW c \in contexts[b], c # n PROVE NoneCtx(b, c)'
    <3>1. cid'[b] >= cid[b]
      BY <1>1, <1>5 DEF TypeOK
    <3> QED
      BY <1>2, <1>5, <1>10, <1>12, <1>13, <1>15, <1>16, <2>2, <3>1, OwnNone
  <2> QED
    BY <1>9, <1>10, <2>1, <2>2 DEF NoneInv
<1>26. ExactInv(b)'
  <2>1. Exact(b)' <=> (r.parts # {} => Of(g, r.label, seen) = Content(b, g, r.label)')
    BY <1>5, <1>8, <1>11 DEF Exact, Given, AskedLabel, Of
  <2>2. Content(b, g, r.label)' = Content(b, g, r.label)
    BY <1>5, <1>16 DEF Content, Of
  <2>3. r.parts # {} => Of(g, r.label, seen) = Content(b, g, r.label)
    BY <1>2 DEF seen, Content, Of
  <2>4. Exact(b)'
    BY <2>1, <2>2, <2>3
  <2>5. Exact(b)' => ExactCounted(b)'
    BY DEF Exact, ExactCounted
  <2> QED
    BY <2>4, <2>5 DEF ExactInv
<1>27. EpochInv(b)'
  <2>1. \A c \in contexts[b] : c.epoch <= removals[c.graph]
    BY <1>1 DEF BackendInv, EpochInv
  <2> QED
    BY <1>2, <1>5, <1>8, <1>9, <1>10, <2>1 DEF EpochInv
<1> QED
  BY <1>10, <1>12, <1>13, <1>15, <1>17, <1>19, <1>20, <1>21, <1>22, <1>24, <1>25, <1>26, <1>27,
     StepKeeps
     DEF BackendInv

-----------------------------------------------------------------------------
(* The theorems.                                                             *)

\* The initial states satisfy the inductive invariant.
LEMMA InitIInv == Init => IInv
<1> SUFFICES ASSUME Init PROVE IInv
  OBVIOUS
<1>1. TypeOK
  <2>1. (CHOOSE g \in Graphs : TRUE) \in Graphs
    BY GraphAssumption
  <2>2. NoSnapshot \in [xmin : Nat, xmax : Nat, xip : SUBSET Xids, curcid : Nat]
    BY DEF NoSnapshot
  <2>3. 0 \in 0 .. MaxXid /\ 1 \in 1 .. MaxXid + 1
    BY BoundAssumption
  <2>4. version \in [Graphs -> Nat]
    BY BoundAssumption DEF Init
  <2> QED
    BY <2>1, <2>2, <2>3, <2>4 DEF Init, TypeOK, States
<1>2. XactInv
  BY XidFacts DEF Init, XactInv, Over, Writing
<1>3. ASSUME NEW b \in Backends PROVE BackendInv(b)
  <2>1. pc[b] = "idle" /\ contexts[b] = {}
    BY DEF Init
  <2>2. ListInv(b)
    <3>1. 0 \in Nat
      OBVIOUS
    <3> QED
      BY <2>1, <3>1 DEF ListInv
  <2> QED
    BY <2>1, <2>2 DEF BackendInv, SnapInv, Active, LoadInv, WholeInv, UsableInv, EpochInv, QuietInv,
                      NoneInv, ExactInv
<1>4. ret = [b \in Backends |-> ret[b]]
  BY DEF Init
<1> QED
  BY <1>1, <1>2, <1>3, <1>4 DEF IInv

\* The state does not change.
LEMMA StutterIInv == ASSUME IInv, UNCHANGED vars PROVE IInv'
<1>1. TypeOK' /\ XactInv' /\ ret' = [b \in Backends |-> ret'[b]]
  BY DEF IInv, vars, TypeOK, XactInv
<1>2. ASSUME NEW b \in Backends PROVE BackendInv(b)'
  <2>1. \A ch : (Visible(b, ch)' <=> Visible(b, ch)) /\ (Pending(ch)' <=> Pending(ch))
    BY DEF vars, Visible, Pending
  <2>2. (Active(b)' <=> Active(b)) /\ (Counting' <=> Counting)
    BY DEF vars, Active, Counting
  <2>3. BackendInv(b)
    BY DEF IInv
  <2>4. SnapInv(b)' /\ ListInv(b)' /\ LoadInv(b)' /\ WholeInv(b)' /\ EpochInv(b)'
    BY <2>2, <2>3 DEF BackendInv, SnapInv, ListInv, LoadInv, WholeInv, EpochInv, vars
  <2>5. UsableInv(b)'
    BY <2>3 DEF BackendInv, UsableInv, Given, vars
  <2>6. \A c \in contexts[b] : QuietCtx(b, c) => QuietCtx(b, c)'
    BY <2>1, <2>2 DEF QuietCtx, Known, vars
  <2>7. QuietInv(b)'
    BY <2>2, <2>3, <2>6 DEF BackendInv, QuietInv, vars
  <2>8. \A c \in contexts[b] : NoneCtx(b, c) => NoneCtx(b, c)'
    BY <2>1, <2>2 DEF NoneCtx, vars
  <2>9. NoneInv(b)'
    BY <2>2, <2>3, <2>8 DEF BackendInv, NoneInv, vars
  <2>10. \A g, l : Content(b, g, l)' = Content(b, g, l)
    BY <2>1 DEF Content, Of, vars
  <2>11. (Exact(b)' <=> Exact(b)) /\ (ExactCounted(b)' <=> ExactCounted(b)) /\ (SameEpoch(b)' <=> SameEpoch(b))
    BY <2>10 DEF Exact, ExactCounted, SameEpoch, Given, AskedLabel, Of, Counted, vars
  <2>12. ExactInv(b)'
    BY <2>2, <2>3, <2>11 DEF BackendInv, ExactInv, Given, vars
  <2> QED
    BY <2>4, <2>5, <2>7, <2>9, <2>12 DEF BackendInv
<1> QED
  BY <1>1, <1>2 DEF IInv

\* Every step of every backend keeps it.
LEMMA StepIInv == IInv /\ [Next]_vars => IInv'
<1> SUFFICES ASSUME IInv, [Next]_vars PROVE IInv'
  OBVIOUS
<1>1. CASE UNCHANGED vars
  BY <1>1, StutterIInv
<1>2. CASE Quiesce
  BY <1>2, StutterIInv DEF Quiesce
<1>3. ASSUME NEW b \in Backends, Step(b) PROVE IInv'
  <2>1. ASSUME NEW g \in Graphs, StartStatement(b, g) PROVE IInv'
    BY <2>1, StartKeeps
  <2>2. ASSUME NEW l \in Labels, ChangeRows(b, l) \/ LoadRows(b, l) \/ DropLabel(b, l) PROVE IInv'
    <3>1. CASE ChangeRows(b, l)
      BY <3>1, WriteKeeps DEF ChangeRows, Kinds, Writing
    <3>2. CASE LoadRows(b, l)
      BY <3>2, WriteKeeps DEF LoadRows, Kinds, Writing
    <3>3. CASE DropLabel(b, l)
      BY <3>3, WriteKeeps DEF DropLabel, Kinds, Writing
    <3> QED
      BY <2>2, <3>1, <3>2, <3>3
  <2>3. CASE BumpVersion(b) \/ EndCommand(b)
    BY <2>3, BumpKeeps
  <2>4. ASSUME NEW r \in Requests, Query(b, r) PROVE IInv'
    BY <2>4, QueryKeeps
  <2>5. CASE GraphStats(b)
    BY <2>5, StatsKeeps
  <2>6. CASE Load(b)
    BY <2>6, LoadKeeps
  <2>7. CASE EndStatement(b) \/ DeleteGraphContext(b) \/ DeleteAllContexts(b)
    BY <2>7, EndStatementKeeps
  <2>8. CASE DropGraph(b)
    BY <2>8, DropKeeps
  <2>9. CASE Commit(b)
    BY <2>9, FinishKeeps DEF Commit, Over
  <2>10. CASE Abort(b)
    BY <2>10, FinishKeeps DEF Abort, Over
  <2> QED
    BY <1>3, <2>1, <2>2, <2>3, <2>4, <2>5, <2>6, <2>7, <2>8, <2>9, <2>10 DEF Step
<1> QED
  BY <1>1, <1>2, <1>3 DEF Next

\* The inductive invariant holds in every reachable state.
THEOREM Invariance == Spec => []IInv
BY InitIInv, StepIInv, PTL DEF Spec

\* Whatever the backends do, and wherever a statement fails, the context a caller
\* gets is for its graph, has what was asked for, is in the list and is loaded.
THEOREM ReturnedUsableAlways == Spec => []ReturnedUsable
<1>1. IInv => ReturnedUsable
  BY DEF IInv, BackendInv, UsableInv, ReturnedUsable
<1> QED
  BY <1>1, Invariance, PTL

\* With the counter, and until drop_graph gives it up, a context built while no
\* counted change of the graph was unfinished or unseen is given out only while
\* it shows the counted changes that the caller's snapshot shows.  The changes of
\* bulk loading and drop_label are in the model and are not counted.
THEOREM ExactIfQuietAlways == Spec => []ExactIfQuiet
<1>1. IInv => ExactIfQuiet
  BY DEF IInv, BackendInv, ExactInv, ExactIfQuiet
<1> QED
  BY <1>1, Invariance, PTL

\* Without it, the identifiers of the snapshot are enough for a context built
\* while no transaction below xmax was running.
THEOREM ExactIfNoneRunningAlways == Spec => []ExactIfNoneRunning
<1>1. IInv => ExactIfNoneRunning
  BY DEF IInv, BackendInv, ExactInv, ExactIfNoneRunning
<1> QED
  BY <1>1, Invariance, PTL

\* graph_stats always loads the graph anew, although it deletes only the first
\* context of the graph.
THEOREM StatsReloadsAlways == Spec => []StatsReloads
<1>1. IInv => StatsReloads
  BY DEF IInv, BackendInv, UsableInv, StatsReloads
<1> QED
  BY <1>1, Invariance, PTL
===============================================================================
