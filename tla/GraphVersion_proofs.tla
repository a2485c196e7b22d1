------------------------- MODULE GraphVersion_proofs -------------------------
EXTENDS GraphVersion, FunctionTheorems, FiniteSetTheorems, TLAPS

USE DEF shared, private, history, Goto, Remember, Forget

\* What the provers need to know of array indexes (AGE_MAX_GRAPHS is positive).
LEMMA SlotFacts ==
    /\ MaxSlots \in Nat /\ MaxSlots > 0
    /\ \A i \in Slots : i \in 0 .. MaxSlots /\ i + 1 \in 0 .. MaxSlots
                        /\ i >= 0 /\ i < MaxSlots /\ i \in Int
    /\ \A n \in 0 .. MaxSlots : n \in Int /\ n >= 0 /\ (n < MaxSlots => n \in Slots)
    /\ 0 \in 0 .. MaxSlots /\ -1 \notin Slots
BY SlotAssumption DEF Slots

\* InvalidOid is no graph, and NoBackend no backend.
LEMMA OidFacts ==
    /\ InvalidOid \in Oids /\ InvalidOid \notin Graphs
    /\ \A g \in Graphs : g \in Oids
    /\ \A g \in Oids : g # InvalidOid => g \in Graphs
    /\ NoBackend \notin Backends
BY OidAssumption, BackendAssumption DEF Oids

\* The labels of the steps.
LEMMA PcFacts ==
    /\ {"idle", "fast", "fastProbe", "scan", "probe", "touch", "acquire"} \subseteq PCs
    /\ {"recheck", "init", "publish", "extend"} \subseteq PCs
    /\ {"unpublish", "zero", "shrink", "release", "done"} \subseteq PCs
BY DEF PCs, Locked, LockFree

\* What a scan of the visible slots finds is the counter of one of them.
LEMMA VisibleType ==
    ASSUME TypeOK, NEW g \in Graphs
    PROVE  /\ Visible(g) \in Nat
           /\ Visible(g) >= 1 => \E i \in Slots : /\ i < num_entries /\ oid[i] = g
                                                 /\ version[i] = Visible(g)
<1>1. CASE \E i \in Slots : i < num_entries /\ oid[i] = g
  <2> DEFINE w == CHOOSE i \in Slots : i < num_entries /\ oid[i] = g
  <2>1. w \in Slots /\ w < num_entries /\ oid[w] = g
    BY <1>1
  <2>2. Visible(g) = version[w]
    BY <1>1 DEF Visible
  <2> HIDE DEF w
  <2> QED
    BY <2>1, <2>2 DEF TypeOK
<1>2. CASE ~ \E i \in Slots : i < num_entries /\ oid[i] = g
  BY <1>2 DEF Visible
<1> QED
  BY <1>1, <1>2

\* Entering a call keeps the invariant: the history variables start afresh.
LEMMA CallStep ==
    ASSUME IInv, NEW b \in Backends, NEW o \in {"get", "inc", "rem"},
           NEW g \in Graphs, Call(b, o, g)
    PROVE  IInv'
<1>1. /\ TypeOK /\ LockInv /\ OpInv /\ IdxInv /\ MarkInv
      /\ SlotUnique /\ NewOidNeverStale /\ WindowInv
  BY DEF IInv
<1>2. TypeOK'
  BY <1>1, OidFacts, PcFacts, VisibleType DEF Call, TypeOK
<1>3. LockInv'
  BY <1>1 DEF Call, LockInv, Locked
<1>4. OpInv'
  BY <1>1 DEF Call, OpInv, TypeOK
<1>5. IdxInv'
  BY <1>1 DEF Call, IdxInv
<1>6. MarkInv'
  BY <1>1 DEF Call, MarkInv
<1>7. SlotUnique'
  BY <1>1 DEF Call, SlotUnique
<1>8. NewOidNeverStale'
  BY <1>1 DEF Call, NewOidNeverStale
<1>9. WindowInv'
  <2> SUFFICES ASSUME NEW c \in Backends, Undisturbed(c)'
               PROVE  (StillVisible(c) /\ StillFound(c) /\ Incremented(c) /\ GotWithin(c))'
    BY DEF WindowInv
  <2>1. StillVisible(c)'
    BY <1>1, VisibleType DEF Call, WindowInv, Undisturbed, StillVisible, TypeOK
  <2>2. StillFound(c)'
    BY <1>1 DEF Call, WindowInv, Undisturbed, StillFound
  <2>3. Incremented(c)'
    BY <1>1 DEF Call, WindowInv, Undisturbed, Incremented
  <2>4. GotWithin(c)'
    BY <1>1 DEF Call, WindowInv, Undisturbed, GotWithin
  <2> QED
    BY <2>1, <2>2, <2>3, <2>4
<1> QED
  BY <1>2, <1>3, <1>4, <1>5, <1>6, <1>7, <1>8, <1>9 DEF IInv

\* The bound test of the fast path keeps the invariant.
LEMMA FastBoundStep ==
    ASSUME IInv, NEW b \in Backends, FastBound(b)
    PROVE  IInv'
<1>1. /\ TypeOK /\ LockInv /\ OpInv /\ IdxInv /\ MarkInv
      /\ SlotUnique /\ NewOidNeverStale /\ WindowInv
  BY DEF IInv
<1>2. TypeOK'
  BY <1>1, SlotFacts, PcFacts, SMTT(60) DEF FastBound, TypeOK
<1>3. LockInv'
  BY <1>1 DEF FastBound, LockInv, Locked, TypeOK
<1>4. OpInv'
  BY <1>1 DEF FastBound, OpInv, LockFree, TypeOK
<1>5. IdxInv'
  BY <1>1 DEF FastBound, IdxInv, TypeOK
<1>6. MarkInv'
  BY <1>1 DEF FastBound, MarkInv, TypeOK
<1>7. SlotUnique'
  BY <1>1 DEF FastBound, SlotUnique
<1>8. NewOidNeverStale'
  BY <1>1 DEF FastBound, NewOidNeverStale
<1>9. WindowInv'
  <2> SUFFICES ASSUME NEW c \in Backends, Undisturbed(c)'
               PROVE  (StillVisible(c) /\ StillFound(c) /\ Incremented(c) /\ GotWithin(c))'
    BY DEF WindowInv
  <2>1. StillVisible(c)'
    BY <1>1, SlotFacts
       DEF FastBound, WindowInv, Undisturbed, StillVisible, TypeOK
  <2>2. StillFound(c)'
    BY <1>1 DEF FastBound, WindowInv, Undisturbed, StillFound, TypeOK
  <2>3. Incremented(c)'
    BY <1>1 DEF FastBound, WindowInv, Undisturbed, Incremented, TypeOK
  <2>4. GotWithin(c)'
    BY <1>1 DEF FastBound, WindowInv, Undisturbed, GotWithin, TypeOK
  <2> QED
    BY <2>1, <2>2, <2>3, <2>4
<1> QED
  BY <1>2, <1>3, <1>4, <1>5, <1>6, <1>7, <1>8, <1>9 DEF IInv

\* The OID test of the fast path does: what it finds is the graph's slot.
LEMMA FastProbeStep ==
    ASSUME IInv, NEW b \in Backends, FastProbe(b)
    PROVE  IInv'
<1>1. /\ TypeOK /\ LockInv /\ OpInv /\ IdxInv /\ MarkInv
      /\ SlotUnique /\ NewOidNeverStale /\ WindowInv
  BY DEF IInv
<1>2. TypeOK'
  BY <1>1, SlotFacts, PcFacts, SMTT(60) DEF FastProbe, TypeOK
<1>3. LockInv'
  BY <1>1 DEF FastProbe, LockInv, Locked, TypeOK
<1>4. OpInv'
  BY <1>1 DEF FastProbe, OpInv, LockFree, TypeOK
<1>5. IdxInv'
  BY <1>1 DEF FastProbe, IdxInv, TypeOK
<1>6. MarkInv'
  BY <1>1 DEF FastProbe, MarkInv, TypeOK
<1>7. SlotUnique'
  BY <1>1 DEF FastProbe, SlotUnique
<1>8. NewOidNeverStale'
  BY <1>1 DEF FastProbe, NewOidNeverStale
<1>9. WindowInv'
  <2> SUFFICES ASSUME NEW c \in Backends, Undisturbed(c)'
               PROVE  (StillVisible(c) /\ StillFound(c) /\ Incremented(c) /\ GotWithin(c))'
    BY DEF WindowInv
  <2>1. StillVisible(c)'
    BY <1>1, SlotFacts
       DEF FastProbe, WindowInv, Undisturbed, StillVisible, TypeOK
  <2>2. StillFound(c)'
    BY <1>1 DEF FastProbe, WindowInv, Undisturbed, StillFound, TypeOK
  <2>3. Incremented(c)'
    BY <1>1 DEF FastProbe, WindowInv, Undisturbed, Incremented, TypeOK
  <2>4. GotWithin(c)'
    BY <1>1 DEF FastProbe, WindowInv, Undisturbed, GotWithin, TypeOK
  <2> QED
    BY <2>1, <2>2, <2>3, <2>4
<1> QED
  BY <1>2, <1>3, <1>4, <1>5, <1>6, <1>7, <1>8, <1>9 DEF IInv

\* The loop test of the lock-free scan does: a visible graph is not passed.
LEMMA ScanBoundStep ==
    ASSUME IInv, NEW b \in Backends, ScanBound(b)
    PROVE  IInv'
<1>1. /\ TypeOK /\ LockInv /\ OpInv /\ IdxInv /\ MarkInv
      /\ SlotUnique /\ NewOidNeverStale /\ WindowInv
  BY DEF IInv
<1>2. TypeOK'
  BY <1>1, OidFacts, PcFacts DEF ScanBound, TypeOK
<1>3. LockInv'
  BY <1>1 DEF ScanBound, LockInv, Locked, TypeOK
<1>4. OpInv'
  BY <1>1 DEF ScanBound, OpInv, LockFree, TypeOK
<1>5. IdxInv'
  BY <1>1, SlotFacts DEF ScanBound, IdxInv, TypeOK
<1>6. MarkInv'
  BY <1>1 DEF ScanBound, MarkInv, TypeOK
<1>7. SlotUnique'
  BY <1>1 DEF ScanBound, SlotUnique
<1>8. NewOidNeverStale'
  BY <1>1 DEF ScanBound, NewOidNeverStale
<1>9. WindowInv'
  <2> SUFFICES ASSUME NEW c \in Backends, Undisturbed(c)'
               PROVE  (StillVisible(c) /\ StillFound(c) /\ Incremented(c) /\ GotWithin(c))'
    BY DEF WindowInv
  <2>1. StillVisible(c)'
    BY <1>1 DEF ScanBound, WindowInv, Undisturbed, StillVisible, TypeOK
  <2>2. StillFound(c)'
    BY <1>1 DEF ScanBound, WindowInv, Undisturbed, StillFound, TypeOK
  <2>3. Incremented(c)'
    BY <1>1 DEF ScanBound, WindowInv, Undisturbed, Incremented, TypeOK
  <2>4. GotWithin(c)'
    BY <1>1, SlotFacts, SMTT(60)
       DEF ScanBound, WindowInv, Undisturbed, GotWithin, StillVisible, TypeOK
  <2> QED
    BY <2>1, <2>2, <2>3, <2>4
<1> QED
  BY <1>2, <1>3, <1>4, <1>5, <1>6, <1>7, <1>8, <1>9 DEF IInv

\* The loop body of the lock-free scan does, for the same reason.
LEMMA ScanProbeStep ==
    ASSUME IInv, NEW b \in Backends, ScanProbe(b)
    PROVE  IInv'
<1>1. /\ TypeOK /\ LockInv /\ OpInv /\ IdxInv /\ MarkInv
      /\ SlotUnique /\ NewOidNeverStale /\ WindowInv
  BY DEF IInv
<1>2. TypeOK'
  BY <1>1, SlotFacts, PcFacts, SMTT(60) DEF ScanProbe, TypeOK, IdxInv
<1>3. LockInv'
  BY <1>1 DEF ScanProbe, LockInv, Locked, TypeOK
<1>4. OpInv'
  BY <1>1 DEF ScanProbe, OpInv, LockFree, TypeOK
<1>5. IdxInv'
  BY <1>1 DEF ScanProbe, IdxInv, TypeOK
<1>6. MarkInv'
  BY <1>1 DEF ScanProbe, MarkInv, TypeOK
<1>7. SlotUnique'
  BY <1>1 DEF ScanProbe, SlotUnique, TypeOK
<1>8. NewOidNeverStale'
  BY <1>1 DEF ScanProbe, NewOidNeverStale, TypeOK
<1>9. WindowInv'
  <2> SUFFICES ASSUME NEW c \in Backends, Undisturbed(c)'
               PROVE  (StillVisible(c) /\ StillFound(c) /\ Incremented(c) /\ GotWithin(c))'
    BY DEF WindowInv
  <2>1. StillVisible(c)'
    <3> SUFFICES ASSUME start'[c] >= 1 PROVE StillVisible(c)'
      BY DEF StillVisible
    <3>1. Undisturbed(c) /\ start[c] >= 1
      BY <1>1 DEF ScanProbe, Undisturbed, TypeOK
    <3>2. PICK i \in Slots :
              /\ i < num_entries /\ oid[i] = arg[c] /\ version[i] >= start[c]
              /\ pc[c] \in {"scan", "probe"} => idx[c] <= i
      BY <1>1, <3>1 DEF WindowInv, StillVisible
    <3>3. pc'[c] \in {"scan", "probe"} => idx'[c] <= i
      <4>1. CASE c # b
        BY <1>1, <3>2, <4>1 DEF ScanProbe, TypeOK
      <4>2. CASE c = b /\ oid[idx[b]] = arg[b]
        BY <1>1, <4>2 DEF ScanProbe, TypeOK
      <4>3. CASE c = b /\ oid[idx[b]] # arg[b]
        <5>1. idx[b] <= i /\ idx[b] # i /\ idx[b] \in Int /\ i \in Int
          BY <1>1, <3>2, <4>3, SlotFacts DEF ScanProbe, TypeOK
        <5>2. idx'[c] = idx[b] + 1
          BY <1>1, <4>3 DEF ScanProbe, TypeOK
        <5> QED
          BY <5>1, <5>2
      <4> QED
        BY <4>1, <4>2, <4>3
    <3> QED
      BY <3>2, <3>3 DEF ScanProbe, StillVisible
  <2>2. StillFound(c)'
    BY <1>1 DEF ScanProbe, WindowInv, Undisturbed, StillFound, TypeOK
  <2>3. Incremented(c)'
    BY <1>1 DEF ScanProbe, WindowInv, Undisturbed, Incremented, TypeOK
  <2>4. GotWithin(c)'
    BY <1>1 DEF ScanProbe, WindowInv, Undisturbed, GotWithin, TypeOK
  <2> QED
    BY <2>1, <2>2, <2>3, <2>4
<1> QED
  BY <1>2, <1>3, <1>4, <1>5, <1>6, <1>7, <1>8, <1>9 DEF IInv

\* The read and the fetch-and-add of the slot found do.
LEMMA TouchStep ==
    ASSUME IInv, NEW b \in Backends, Touch(b)
    PROVE  IInv'
<1>1. /\ TypeOK /\ LockInv /\ OpInv /\ IdxInv /\ MarkInv
      /\ SlotUnique /\ NewOidNeverStale /\ WindowInv
  BY DEF IInv
<1>2. TypeOK'
  BY <1>1, PcFacts DEF Touch, TypeOK, IdxInv
<1>3. LockInv'
  BY <1>1 DEF Touch, LockInv, Locked, TypeOK
<1>4. OpInv'
  BY <1>1 DEF Touch, OpInv, LockFree, TypeOK
<1>5. IdxInv'
  BY <1>1 DEF Touch, IdxInv, TypeOK
<1>6. MarkInv'
  BY <1>1 DEF Touch, MarkInv, TypeOK
<1>7. SlotUnique'
  BY <1>1 DEF Touch, SlotUnique, TypeOK
<1>8. NewOidNeverStale'
  BY <1>1 DEF Touch, NewOidNeverStale, TypeOK
<1>9. WindowInv'
  <2> SUFFICES ASSUME NEW c \in Backends, Undisturbed(c)'
               PROVE  (StillVisible(c) /\ StillFound(c) /\ Incremented(c) /\ GotWithin(c))'
    BY DEF WindowInv
  <2>1. StillVisible(c)'
    BY <1>1 DEF Touch, WindowInv, Undisturbed, StillVisible, TypeOK
  <2>2. StillFound(c)'
    BY <1>1 DEF Touch, WindowInv, Undisturbed, StillFound, TypeOK
  <2>3. Incremented(c)'
    <3>1. /\ StillVisible(c) /\ StillFound(c) /\ Incremented(c)
          /\ arg' = arg /\ op' = op /\ full' = full /\ start' = start /\ oid' = oid
      BY <1>1 DEF Touch, WindowInv, Undisturbed, TypeOK
    <3>2. CASE c = b
      <4>1. idx[b] \in Slots /\ oid[idx[b]] = arg[b] /\ start[b] \in Nat
        BY <1>1, <3>1, <3>2 DEF Touch, IdxInv, StillFound, TypeOK
      <4>2. version[idx[b]] \in Nat /\ version[idx[b]] >= start[b]
        <5>1. start[b] >= 1 => \E i \in Slots : oid[i] = arg[b] /\ version[i] >= start[b]
          BY <3>1, <3>2 DEF StillVisible
        <5>2. arg[b] \in Graphs /\ version \in [Slots -> Nat]
          BY <1>1 DEF TypeOK, OpInv, Touch
        <5> QED
          BY <1>1, <4>1, <5>1, <5>2 DEF SlotUnique
      <4>3. op[b] = "inc" => version'[idx[b]] = version[idx[b]] + 1
        BY <1>1, <4>1 DEF Touch, TypeOK
      <4> QED
        BY <3>1, <3>2, <4>1, <4>2, <4>3 DEF Incremented
    <3>3. CASE c # b
      <4>1. pc'[c] = pc[c]
        BY <1>1, <3>3 DEF Touch, TypeOK
      <4>2. \A i \in Slots : version'[i] \in Nat /\ version[i] \in Nat
                              /\ start[c] \in Nat /\ version'[i] >= version[i]
        BY <1>1 DEF Touch, TypeOK, IdxInv
      <4> QED
        BY <3>1, <4>1, <4>2 DEF Incremented
    <3> QED
      BY <3>2, <3>3
  <2>4. GotWithin(c)'
    BY <1>1
       DEF Touch, WindowInv, Undisturbed, GotWithin, StillFound,
         StillVisible, IdxInv, OpInv, SlotUnique, TypeOK
  <2> QED
    BY <2>1, <2>2, <2>3, <2>4
<1> QED
  BY <1>2, <1>3, <1>4, <1>5, <1>6, <1>7, <1>8, <1>9 DEF IInv

\* Taking the LWLock does: nobody else holds it.
LEMMA AcquireStep ==
    ASSUME IInv, NEW b \in Backends, Acquire(b)
    PROVE  IInv'
<1>1. /\ TypeOK /\ LockInv /\ OpInv /\ IdxInv /\ MarkInv
      /\ SlotUnique /\ NewOidNeverStale /\ WindowInv
  BY DEF IInv
<1>2. TypeOK'
  BY <1>1, PcFacts DEF Acquire, TypeOK
<1>3. LockInv'
  BY <1>1, OidFacts DEF Acquire, LockInv, Locked, TypeOK
<1>4. OpInv'
  BY <1>1 DEF Acquire, OpInv, LockFree, TypeOK
<1>5. IdxInv'
  BY <1>1 DEF Acquire, IdxInv, TypeOK
<1>6. MarkInv'
  BY <1>1, OidFacts DEF Acquire, MarkInv, TypeOK
<1>7. SlotUnique'
  BY <1>1 DEF Acquire, SlotUnique, TypeOK
<1>8. NewOidNeverStale'
  BY <1>1 DEF Acquire, NewOidNeverStale, TypeOK
<1>9. WindowInv'
  <2> SUFFICES ASSUME NEW c \in Backends, Undisturbed(c)'
               PROVE  (StillVisible(c) /\ StillFound(c) /\ Incremented(c) /\ GotWithin(c))'
    BY DEF WindowInv
  <2>1. StillVisible(c)'
    BY <1>1 DEF Acquire, WindowInv, Undisturbed, StillVisible, TypeOK
  <2>2. StillFound(c)'
    BY <1>1 DEF Acquire, WindowInv, Undisturbed, StillFound, TypeOK
  <2>3. Incremented(c)'
    BY <1>1 DEF Acquire, WindowInv, Undisturbed, Incremented, TypeOK
  <2>4. GotWithin(c)'
    BY <1>1 DEF Acquire, WindowInv, Undisturbed, GotWithin, TypeOK
  <2> QED
    BY <2>1, <2>2, <2>3, <2>4
<1> QED
  BY <1>2, <1>3, <1>4, <1>5, <1>6, <1>7, <1>8, <1>9 DEF IInv

\* The scan under the lock does: a slot is chosen for an absent graph only.
LEMMA RecheckIncrementStep ==
    ASSUME IInv, NEW b \in Backends, RecheckIncrement(b)
    PROVE  IInv'
<1>1. /\ TypeOK /\ LockInv /\ OpInv /\ IdxInv /\ MarkInv
      /\ SlotUnique /\ NewOidNeverStale /\ WindowInv
  BY DEF IInv
<1>2. TypeOK'
  <2>1. /\ oid' = oid /\ version' = version /\ num_entries' = num_entries
        /\ calls' = calls /\ start' = start /\ removed' = removed
        /\ op' = op /\ arg' = arg /\ result' = result
    BY DEF RecheckIncrement
  <2>2. lock' \in Backends \cup {NoBackend}
    BY <1>1 DEF RecheckIncrement, TypeOK
  <2>3. pc' \in [Backends -> PCs]
    BY <1>1, PcFacts DEF RecheckIncrement, TypeOK
  <2>4. idx' \in [Backends -> 0 .. MaxSlots]
    BY <1>1, SlotFacts DEF RecheckIncrement, TypeOK
  <2>5. /\ cached_oid' \in [Backends -> Oids]
        /\ cached_index' \in [Backends -> Slots \cup {-1}]
    BY <1>1 DEF RecheckIncrement, TypeOK
  <2>6. full' \in [Backends -> BOOLEAN]
    BY <1>1 DEF RecheckIncrement, TypeOK
  <2> QED
    BY <1>1, <2>1, <2>2, <2>3, <2>4, <2>5, <2>6 DEF TypeOK
<1>3. LockInv'
  BY <1>1, OidFacts DEF RecheckIncrement, LockInv, Locked, TypeOK
<1>4. OpInv'
  <2>1. op' = op /\ arg' = arg /\ op[b] = "inc" /\ pc[b] = "recheck"
    BY DEF RecheckIncrement
  <2>2. /\ \A c \in Backends \ {b} : pc'[c] = pc[c] /\ full'[c] = full[c]
        /\ pc'[b] \in {"touch", "init", "release"}
        /\ pc'[b] # "release" => full' = full
    BY <1>1 DEF RecheckIncrement, TypeOK
  <2>3. ~full[b]
    BY <1>1, <2>1 DEF OpInv
  <2> QED
    BY <1>1, <2>1, <2>2, <2>3 DEF OpInv, LockFree
<1>5. IdxInv'
  BY <1>1, SlotFacts, OidFacts
     DEF RecheckIncrement, IdxInv, LockInv, Locked, OpInv, MarkInv, TypeOK,
       Holes, IsLeast
<1>6. MarkInv'
  BY <1>1, SlotFacts, OidFacts
     DEF RecheckIncrement, MarkInv, IdxInv, LockInv, Locked, TypeOK
<1>7. SlotUnique'
  BY <1>1 DEF RecheckIncrement, SlotUnique, TypeOK
<1>8. NewOidNeverStale'
  BY <1>1 DEF RecheckIncrement, NewOidNeverStale, TypeOK
<1>9. WindowInv'
  <2> SUFFICES ASSUME NEW c \in Backends, Undisturbed(c)'
               PROVE  (StillVisible(c) /\ StillFound(c) /\ Incremented(c) /\ GotWithin(c))'
    BY DEF WindowInv
  <2>1. StillVisible(c)'
    BY <1>1 DEF RecheckIncrement, WindowInv, Undisturbed, StillVisible, TypeOK
  <2>2. StillFound(c)'
    BY <1>1 DEF RecheckIncrement, WindowInv, Undisturbed, StillFound, TypeOK
  <2>3. Incremented(c)'
    BY <1>1 DEF RecheckIncrement, WindowInv, Undisturbed, Incremented, TypeOK
  <2>4. GotWithin(c)'
    BY <1>1 DEF RecheckIncrement, WindowInv, Undisturbed, GotWithin, TypeOK
  <2> QED
    BY <2>1, <2>2, <2>3, <2>4
<1> QED
  BY <1>2, <1>3, <1>4, <1>5, <1>6, <1>7, <1>8, <1>9 DEF IInv

\* Initialising the counter of a slot nobody can see yet does.
LEMMA InitVersionStep ==
    ASSUME IInv, NEW b \in Backends, InitVersion(b)
    PROVE  IInv'
<1>1. /\ TypeOK /\ LockInv /\ OpInv /\ IdxInv /\ MarkInv
      /\ SlotUnique /\ NewOidNeverStale /\ WindowInv
  BY DEF IInv
<1>2. TypeOK'
  BY <1>1, PcFacts DEF InitVersion, TypeOK
<1>3. LockInv'
  BY <1>1 DEF InitVersion, LockInv, Locked, TypeOK
<1>4. OpInv'
  BY <1>1 DEF InitVersion, OpInv, LockFree, TypeOK
<1>5. IdxInv'
  BY <1>1 DEF InitVersion, IdxInv, TypeOK
<1>6. MarkInv'
  BY <1>1 DEF InitVersion, MarkInv, TypeOK
<1>7. SlotUnique'
  BY <1>1 DEF InitVersion, SlotUnique, TypeOK
<1>8. NewOidNeverStale'
  BY <1>1 DEF InitVersion, NewOidNeverStale, TypeOK
<1>9. WindowInv'
  <2> SUFFICES ASSUME NEW c \in Backends, Undisturbed(c)'
               PROVE  (StillVisible(c) /\ StillFound(c) /\ Incremented(c) /\ GotWithin(c))'
    BY DEF WindowInv
  <2>1. StillVisible(c)'
    BY <1>1, OidFacts
       DEF InitVersion, WindowInv, Undisturbed, StillVisible, IdxInv, OpInv
  <2>2. StillFound(c)'
    BY <1>1 DEF InitVersion, WindowInv, Undisturbed, StillFound, TypeOK
  <2>3. Incremented(c)'
    BY <1>1, OidFacts
       DEF InitVersion, WindowInv, Undisturbed, Incremented, IdxInv, OpInv
  <2>4. GotWithin(c)'
    BY <1>1, OidFacts
       DEF InitVersion, WindowInv, Undisturbed, GotWithin, IdxInv, OpInv
  <2> QED
    BY <2>1, <2>2, <2>3, <2>4
<1> QED
  BY <1>2, <1>3, <1>4, <1>5, <1>6, <1>7, <1>8, <1>9 DEF IInv

\* Publishing the OID does: the counter is already there, the graph is new.
LEMMA PublishOidStep ==
    ASSUME IInv, NEW b \in Backends, PublishOid(b)
    PROVE  IInv'
<1>1. /\ TypeOK /\ LockInv /\ OpInv /\ IdxInv /\ MarkInv
      /\ SlotUnique /\ NewOidNeverStale /\ WindowInv
  BY DEF IInv
<1>2. TypeOK'
  <2>1. pc' \in [Backends -> PCs]
    BY <1>1, PcFacts DEF PublishOid, TypeOK
  <2>2. oid' \in [Slots -> Oids]
    BY <1>1 DEF PublishOid, TypeOK
  <2>3. /\ cached_oid' \in [Backends -> Oids]
        /\ cached_index' \in [Backends -> Slots \cup {-1}]
    BY <1>1 DEF PublishOid, TypeOK, IdxInv
  <2> QED
    BY <1>1, <2>1, <2>2, <2>3 DEF PublishOid, TypeOK
<1>3. LockInv'
  BY <1>1 DEF PublishOid, LockInv, Locked, TypeOK
<1>4. OpInv'
  BY <1>1 DEF PublishOid, OpInv, LockFree, TypeOK
<1>5. IdxInv'
  BY <1>1, SlotFacts, OidFacts DEF PublishOid, IdxInv, LockInv, Locked, TypeOK
<1>6. MarkInv'
  BY <1>1, SlotFacts, OidFacts
     DEF PublishOid, MarkInv, IdxInv, LockInv, Locked, TypeOK
<1>7. SlotUnique'
  BY <1>1 DEF PublishOid, SlotUnique, IdxInv, TypeOK
<1>8. NewOidNeverStale'
  BY <1>1 DEF PublishOid, NewOidNeverStale, IdxInv, TypeOK
<1>9. WindowInv'
  <2> SUFFICES ASSUME NEW c \in Backends, Undisturbed(c)'
               PROVE  (StillVisible(c) /\ StillFound(c) /\ Incremented(c) /\ GotWithin(c))'
    BY DEF WindowInv
  <2>1. StillVisible(c)'
    BY <1>1, OidFacts
       DEF PublishOid, WindowInv, Undisturbed, StillVisible, IdxInv, OpInv
  <2>2. StillFound(c)'
    BY <1>1, OidFacts
       DEF PublishOid, WindowInv, Undisturbed, StillFound, IdxInv, OpInv
  <2>3. Incremented(c)'
    BY <1>1, OidFacts
       DEF PublishOid, WindowInv, Undisturbed, Incremented, StillVisible,
         IdxInv, OpInv, TypeOK
  <2>4. GotWithin(c)'
    BY <1>1, OidFacts
       DEF PublishOid, WindowInv, Undisturbed, GotWithin, IdxInv, OpInv
  <2> QED
    BY <2>1, <2>2, <2>3, <2>4
<1> QED
  BY <1>2, <1>3, <1>4, <1>5, <1>6, <1>7, <1>8, <1>9 DEF IInv

\* num_entries++ does: the new slot becomes visible.
LEMMA ExtendStep ==
    ASSUME IInv, NEW b \in Backends, Extend(b)
    PROVE  IInv'
<1>1. /\ TypeOK /\ LockInv /\ OpInv /\ IdxInv /\ MarkInv
      /\ SlotUnique /\ NewOidNeverStale /\ WindowInv
  BY DEF IInv
<1>2. TypeOK'
  BY <1>1, SlotFacts, PcFacts DEF Extend, TypeOK, IdxInv
<1>3. LockInv'
  BY <1>1 DEF Extend, LockInv, Locked, TypeOK
<1>4. OpInv'
  BY <1>1 DEF Extend, OpInv, LockFree, TypeOK
<1>5. IdxInv'
  BY <1>1, SlotFacts, OidFacts DEF Extend, IdxInv, LockInv, Locked, TypeOK
<1>6. MarkInv'
  BY <1>1, SlotFacts, OidFacts
     DEF Extend, MarkInv, LockInv, Locked, IdxInv, OpInv, TypeOK
<1>7. SlotUnique'
  BY <1>1 DEF Extend, SlotUnique, TypeOK
<1>8. NewOidNeverStale'
  BY <1>1 DEF Extend, NewOidNeverStale, TypeOK
<1>9. WindowInv'
  <2> SUFFICES ASSUME NEW c \in Backends, Undisturbed(c)'
               PROVE  (StillVisible(c) /\ StillFound(c) /\ Incremented(c) /\ GotWithin(c))'
    BY DEF WindowInv
  <2>1. StillVisible(c)'
    BY <1>1, SlotFacts DEF Extend, WindowInv, Undisturbed, StillVisible, TypeOK
  <2>2. StillFound(c)'
    BY <1>1 DEF Extend, WindowInv, Undisturbed, StillFound, TypeOK
  <2>3. Incremented(c)'
    BY <1>1 DEF Extend, WindowInv, Undisturbed, Incremented, TypeOK
  <2>4. GotWithin(c)'
    BY <1>1 DEF Extend, WindowInv, Undisturbed, GotWithin, TypeOK
  <2> QED
    BY <2>1, <2>2, <2>3, <2>4
<1> QED
  BY <1>2, <1>3, <1>4, <1>5, <1>6, <1>7, <1>8, <1>9 DEF IInv

\* The scan of remove_graph_version does.
LEMMA RecheckRemoveStep ==
    ASSUME IInv, NEW b \in Backends, RecheckRemove(b)
    PROVE  IInv'
<1>1. /\ TypeOK /\ LockInv /\ OpInv /\ IdxInv /\ MarkInv
      /\ SlotUnique /\ NewOidNeverStale /\ WindowInv
  BY DEF IInv
<1>2. TypeOK'
  BY <1>1, SlotFacts, PcFacts DEF RecheckRemove, TypeOK
<1>3. LockInv'
  BY <1>1 DEF RecheckRemove, LockInv, Locked, TypeOK
<1>4. OpInv'
  BY <1>1 DEF RecheckRemove, OpInv, LockFree, TypeOK
<1>5. IdxInv'
  BY <1>1 DEF RecheckRemove, IdxInv, TypeOK
<1>6. MarkInv'
  BY <1>1 DEF RecheckRemove, MarkInv, TypeOK
<1>7. SlotUnique'
  BY <1>1 DEF RecheckRemove, SlotUnique, TypeOK
<1>8. NewOidNeverStale'
  BY <1>1 DEF RecheckRemove, NewOidNeverStale, TypeOK
<1>9. WindowInv'
  <2> SUFFICES ASSUME NEW c \in Backends, Undisturbed(c)'
               PROVE  (StillVisible(c) /\ StillFound(c) /\ Incremented(c) /\ GotWithin(c))'
    BY DEF WindowInv
  <2>1. StillVisible(c)'
    BY <1>1 DEF RecheckRemove, WindowInv, Undisturbed, StillVisible, TypeOK
  <2>2. StillFound(c)'
    BY <1>1 DEF RecheckRemove, WindowInv, Undisturbed, StillFound, TypeOK
  <2>3. Incremented(c)'
    BY <1>1 DEF RecheckRemove, WindowInv, Undisturbed, Incremented, TypeOK
  <2>4. GotWithin(c)'
    BY <1>1 DEF RecheckRemove, WindowInv, Undisturbed, GotWithin, TypeOK
  <2> QED
    BY <2>1, <2>2, <2>3, <2>4
<1> QED
  BY <1>2, <1>3, <1>4, <1>5, <1>6, <1>7, <1>8, <1>9 DEF IInv

\* Clearing the OID does: calls for this graph are marked as disturbed.
LEMMA UnpublishStep ==
    ASSUME IInv, NEW b \in Backends, Unpublish(b)
    PROVE  IInv'
<1>1. /\ TypeOK /\ LockInv /\ OpInv /\ IdxInv /\ MarkInv
      /\ SlotUnique /\ NewOidNeverStale /\ WindowInv
  BY DEF IInv
<1>2. TypeOK'
  BY <1>1, OidFacts, PcFacts DEF Unpublish, TypeOK
<1>3. LockInv'
  BY <1>1 DEF Unpublish, LockInv, Locked, TypeOK
<1>4. OpInv'
  BY <1>1 DEF Unpublish, OpInv, LockFree, TypeOK
<1>5. IdxInv'
  BY <1>1, SlotFacts, OidFacts DEF Unpublish, IdxInv, LockInv, Locked, TypeOK
<1>6. MarkInv'
  BY <1>1, SlotFacts, OidFacts
     DEF Unpublish, MarkInv, IdxInv, LockInv, Locked, TypeOK
<1>7. SlotUnique'
  BY <1>1, OidFacts DEF Unpublish, SlotUnique, TypeOK
<1>8. NewOidNeverStale'
  BY <1>1, OidFacts DEF Unpublish, NewOidNeverStale, TypeOK
<1>9. WindowInv'
  <2> SUFFICES ASSUME NEW c \in Backends, Undisturbed(c)'
               PROVE  (StillVisible(c) /\ StillFound(c) /\ Incremented(c) /\ GotWithin(c))'
    BY DEF WindowInv
  <2>0. /\ Undisturbed(c) /\ arg[c] # arg[b] /\ c # b
        /\ pc'[c] = pc[c] /\ op' = op /\ arg' = arg /\ idx' = idx /\ start' = start
        /\ full' = full /\ result' = result /\ num_entries' = num_entries
        /\ version' = version
        /\ idx[b] \in Slots /\ oid[idx[b]] = arg[b]
        /\ oid' = [oid EXCEPT ![idx[b]] = InvalidOid]
    BY <1>1 DEF Unpublish, Undisturbed, TypeOK, IdxInv
  <2>1. StillVisible(c)'
    BY <1>1, <2>0 DEF WindowInv, StillVisible, TypeOK
  <2>2. StillFound(c)'
    BY <1>1, <2>0 DEF WindowInv, StillFound, TypeOK, IdxInv
  <2>3. Incremented(c)'
    BY <1>1, <2>0 DEF WindowInv, Incremented, TypeOK
  <2>4. GotWithin(c)'
    BY <1>1, <2>0, ZenonT(60) DEF WindowInv, GotWithin, TypeOK
  <2> QED
    BY <2>1, <2>2, <2>3, <2>4
<1> QED
  BY <1>2, <1>3, <1>4, <1>5, <1>6, <1>7, <1>8, <1>9 DEF IInv

\* Resetting the counter does: the slot has no OID any more.
LEMMA ZeroVersionStep ==
    ASSUME IInv, NEW b \in Backends, ZeroVersion(b)
    PROVE  IInv'
<1>1. /\ TypeOK /\ LockInv /\ OpInv /\ IdxInv /\ MarkInv
      /\ SlotUnique /\ NewOidNeverStale /\ WindowInv
  BY DEF IInv
<1>2. TypeOK'
  <2>1. pc' \in [Backends -> PCs]
    BY <1>1, PcFacts DEF ZeroVersion, TypeOK
  <2>2. version' \in [Slots -> Nat]
    BY <1>1 DEF ZeroVersion, TypeOK
  <2>3. /\ cached_oid' \in [Backends -> Oids]
        /\ cached_index' \in [Backends -> Slots \cup {-1}]
    BY <1>1, OidFacts DEF ZeroVersion, TypeOK
  <2> QED
    BY <1>1, <2>1, <2>2, <2>3 DEF ZeroVersion, TypeOK
<1>3. LockInv'
  BY <1>1 DEF ZeroVersion, LockInv, Locked, TypeOK
<1>4. OpInv'
  BY <1>1 DEF ZeroVersion, OpInv, LockFree, TypeOK
<1>5. IdxInv'
  BY <1>1, SlotFacts, OidFacts DEF ZeroVersion, IdxInv, LockInv, Locked, TypeOK
<1>6. MarkInv'
  BY <1>1 DEF ZeroVersion, MarkInv, TypeOK
<1>7. SlotUnique'
  BY <1>1 DEF ZeroVersion, SlotUnique, TypeOK
<1>8. NewOidNeverStale'
  BY <1>1, OidFacts DEF ZeroVersion, NewOidNeverStale, IdxInv, TypeOK
<1>9. WindowInv'
  <2> SUFFICES ASSUME NEW c \in Backends, Undisturbed(c)'
               PROVE  (StillVisible(c) /\ StillFound(c) /\ Incremented(c) /\ GotWithin(c))'
    BY DEF WindowInv
  <2>1. StillVisible(c)'
    BY <1>1, OidFacts
       DEF ZeroVersion, WindowInv, Undisturbed, StillVisible, IdxInv, OpInv
  <2>2. StillFound(c)'
    BY <1>1 DEF ZeroVersion, WindowInv, Undisturbed, StillFound, TypeOK
  <2>3. Incremented(c)'
    BY <1>1, OidFacts
       DEF ZeroVersion, WindowInv, Undisturbed, Incremented, IdxInv, OpInv
  <2>4. GotWithin(c)'
    BY <1>1, OidFacts
       DEF ZeroVersion, WindowInv, Undisturbed, GotWithin, IdxInv, OpInv
  <2> QED
    BY <2>1, <2>2, <2>3, <2>4
<1> QED
  BY <1>2, <1>3, <1>4, <1>5, <1>6, <1>7, <1>8, <1>9 DEF IInv

\* Lowering num_entries does: only holes are cut off.
LEMMA ShrinkStep ==
    ASSUME IInv, NEW b \in Backends, Shrink(b)
    PROVE  IInv'
<1>1. /\ TypeOK /\ LockInv /\ OpInv /\ IdxInv /\ MarkInv
      /\ SlotUnique /\ NewOidNeverStale /\ WindowInv
  BY DEF IInv
<1>2. TypeOK'
  BY <1>1, SlotFacts, PcFacts DEF Shrink, TypeOK
<1>3. LockInv'
  BY <1>1 DEF Shrink, LockInv, Locked, TypeOK
<1>4. OpInv'
  BY <1>1 DEF Shrink, OpInv, LockFree, TypeOK
<1>5. IdxInv'
  BY <1>1, SlotFacts, OidFacts DEF Shrink, IdxInv, LockInv, Locked, TypeOK
<1>6. MarkInv'
  BY <1>1, SlotFacts DEF Shrink, MarkInv, TypeOK
<1>7. SlotUnique'
  BY <1>1 DEF Shrink, SlotUnique, TypeOK
<1>8. NewOidNeverStale'
  BY <1>1 DEF Shrink, NewOidNeverStale, TypeOK
<1>9. WindowInv'
  <2> SUFFICES ASSUME NEW c \in Backends, Undisturbed(c)'
               PROVE  (StillVisible(c) /\ StillFound(c) /\ Incremented(c) /\ GotWithin(c))'
    BY DEF WindowInv
  <2>1. StillVisible(c)'
    BY <1>1, SlotFacts, OidFacts
       DEF Shrink, WindowInv, Undisturbed, StillVisible, OpInv, TypeOK
  <2>2. StillFound(c)'
    BY <1>1 DEF Shrink, WindowInv, Undisturbed, StillFound, TypeOK
  <2>3. Incremented(c)'
    BY <1>1 DEF Shrink, WindowInv, Undisturbed, Incremented, OpInv, TypeOK
  <2>4. GotWithin(c)'
    BY <1>1 DEF Shrink, WindowInv, Undisturbed, GotWithin, TypeOK
  <2> QED
    BY <2>1, <2>2, <2>3, <2>4
<1> QED
  BY <1>2, <1>3, <1>4, <1>5, <1>6, <1>7, <1>8, <1>9 DEF IInv

\* Releasing the LWLock does.
LEMMA ReleaseStep ==
    ASSUME IInv, NEW b \in Backends, Release(b)
    PROVE  IInv'
<1>1. /\ TypeOK /\ LockInv /\ OpInv /\ IdxInv /\ MarkInv
      /\ SlotUnique /\ NewOidNeverStale /\ WindowInv
  BY DEF IInv
<1>2. TypeOK'
  BY <1>1, PcFacts DEF Release, TypeOK
<1>3. LockInv'
  BY <1>1, OidFacts DEF Release, LockInv, Locked, TypeOK
<1>4. OpInv'
  BY <1>1 DEF Release, OpInv, LockFree, TypeOK
<1>5. IdxInv'
  BY <1>1 DEF Release, IdxInv, TypeOK
<1>6. MarkInv'
  BY <1>1, SlotFacts, OidFacts
     DEF Release, MarkInv, IdxInv, LockInv, Locked, TypeOK
<1>7. SlotUnique'
  BY <1>1 DEF Release, SlotUnique, TypeOK
<1>8. NewOidNeverStale'
  BY <1>1 DEF Release, NewOidNeverStale, TypeOK
<1>9. WindowInv'
  <2> SUFFICES ASSUME NEW c \in Backends, Undisturbed(c)'
               PROVE  (StillVisible(c) /\ StillFound(c) /\ Incremented(c) /\ GotWithin(c))'
    BY DEF WindowInv
  <2>1. StillVisible(c)'
    BY <1>1 DEF Release, WindowInv, Undisturbed, StillVisible, TypeOK
  <2>2. StillFound(c)'
    BY <1>1 DEF Release, WindowInv, Undisturbed, StillFound, TypeOK
  <2>3. Incremented(c)'
    BY <1>1 DEF Release, WindowInv, Undisturbed, Incremented, TypeOK
  <2>4. GotWithin(c)'
    BY <1>1 DEF Release, WindowInv, Undisturbed, GotWithin, OpInv, TypeOK
  <2> QED
    BY <2>1, <2>2, <2>3, <2>4
<1> QED
  BY <1>2, <1>3, <1>4, <1>5, <1>6, <1>7, <1>8, <1>9 DEF IInv

\* Returning to the caller does.
LEMMA ReturnStep ==
    ASSUME IInv, NEW b \in Backends, Return(b)
    PROVE  IInv'
<1>1. /\ TypeOK /\ LockInv /\ OpInv /\ IdxInv /\ MarkInv
      /\ SlotUnique /\ NewOidNeverStale /\ WindowInv
  BY DEF IInv
<1>2. TypeOK'
  BY <1>1, PcFacts DEF Return, TypeOK
<1>3. LockInv'
  BY <1>1 DEF Return, LockInv, Locked, TypeOK
<1>4. OpInv'
  BY <1>1 DEF Return, OpInv, LockFree, TypeOK
<1>5. IdxInv'
  BY <1>1 DEF Return, IdxInv, TypeOK
<1>6. MarkInv'
  BY <1>1 DEF Return, MarkInv, TypeOK
<1>7. SlotUnique'
  BY <1>1 DEF Return, SlotUnique, TypeOK
<1>8. NewOidNeverStale'
  BY <1>1 DEF Return, NewOidNeverStale, TypeOK
<1>9. WindowInv'
  <2> SUFFICES ASSUME NEW c \in Backends, Undisturbed(c)'
               PROVE  (StillVisible(c) /\ StillFound(c) /\ Incremented(c) /\ GotWithin(c))'
    BY DEF WindowInv
  <2>1. StillVisible(c)'
    BY <1>1 DEF Return, WindowInv, Undisturbed, StillVisible, TypeOK
  <2>2. StillFound(c)'
    BY <1>1 DEF Return, WindowInv, Undisturbed, StillFound, TypeOK
  <2>3. Incremented(c)'
    BY <1>1 DEF Return, WindowInv, Undisturbed, Incremented, TypeOK
  <2>4. GotWithin(c)'
    BY <1>1 DEF Return, WindowInv, Undisturbed, GotWithin, TypeOK
  <2> QED
    BY <2>1, <2>2, <2>3, <2>4
<1> QED
  BY <1>2, <1>3, <1>4, <1>5, <1>6, <1>7, <1>8, <1>9 DEF IInv

\* The empty table of age_dsm_init_callback satisfies the invariant.
LEMMA InitInv == Init => IInv
<1> SUFFICES ASSUME Init PROVE IInv
  OBVIOUS
<1>1. TypeOK
  BY SlotFacts, OidFacts, PcFacts DEF Init, TypeOK
<1>2. LockInv /\ OpInv /\ IdxInv
  BY OidFacts DEF Init, LockInv, OpInv, IdxInv, Locked, LockFree
<1>3. MarkInv /\ SlotUnique /\ NewOidNeverStale
  BY SlotFacts, OidFacts DEF Init, MarkInv, SlotUnique, NewOidNeverStale
<1>4. WindowInv
  BY DEF Init, WindowInv, Undisturbed
<1> QED
  BY <1>1, <1>2, <1>3, <1>4 DEF IInv

\* A step that changes nothing keeps the invariant.
LEMMA StutterStep == IInv /\ UNCHANGED vars => IInv'
<1> SUFFICES ASSUME IInv, UNCHANGED vars PROVE IInv'
  OBVIOUS
<1>1. /\ TypeOK' /\ LockInv' /\ OpInv' /\ IdxInv' /\ MarkInv'
      /\ SlotUnique' /\ NewOidNeverStale'
  BY DEF IInv, vars, TypeOK, LockInv, OpInv, IdxInv, MarkInv, SlotUnique,
         NewOidNeverStale
<1>2. WindowInv'
  BY DEF IInv, vars, WindowInv, Undisturbed, StillVisible, StillFound,
         Incremented, GotWithin
<1> QED
  BY <1>1, <1>2 DEF IInv

\* Every step of every backend keeps the invariant.
LEMMA NextStep == IInv /\ [Next]_vars => IInv'
<1> SUFFICES ASSUME IInv, [Next]_vars PROVE IInv'
  OBVIOUS
<1>1. ASSUME NEW b \in Backends, NEW o \in {"get", "inc", "rem"},
             NEW g \in Graphs, Call(b, o, g)
      PROVE  IInv'
  BY <1>1, CallStep
<1>2. ASSUME NEW b \in Backends, Step(b) PROVE IInv'
  BY <1>2, FastBoundStep, FastProbeStep, ScanBoundStep, ScanProbeStep,
     TouchStep, AcquireStep, RecheckIncrementStep, InitVersionStep,
     PublishOidStep, ExtendStep, RecheckRemoveStep, UnpublishStep,
     ZeroVersionStep, ShrinkStep, ReleaseStep, ReturnStep DEF Step
<1>3. CASE Quiesce \/ UNCHANGED vars
  BY <1>3, StutterStep DEF Quiesce
<1> QED
  BY <1>1, <1>2, <1>3 DEF Next

-----------------------------------------------------------------------------

\* The inductive invariant holds of every behaviour of the table, for every
\* number of backends, graphs, slots and calls.
THEOREM Invariance == Spec => []IInv
<1> QED
  BY InitInv, NextStep, PTL DEF Spec

\* Indexes stay inside the array and every variable keeps its type, in every
\* interleaving of the lock-free and the locked paths.
THEOREM TypeCorrectness == Spec => []TypeOK
<1>1. IInv => TypeOK
  BY DEF IInv
<1> QED
  BY <1>1, Invariance, PTL

\* increment_graph_version never gives a graph two slots.
THEOREM OneSlotPerGraph == Spec => []SlotUnique
<1>1. IInv => SlotUnique
  BY DEF IInv
<1> QED
  BY <1>1, Invariance, PTL

\* A published OID always comes with a counter that has been initialised.
THEOREM PublishedIsFresh == Spec => []NewOidNeverStale
<1>1. IInv => NewOidNeverStale
  BY DEF IInv
<1> QED
  BY <1>1, Invariance, PTL

\* num_entries is exact whenever the lock is free.
THEOREM MarkIsExact == Spec => []HighWaterMark
<1>1. IInv => HighWaterMark
  BY SlotFacts, OidFacts DEF IInv, HighWaterMark, MarkInv, TypeOK
<1> QED
  BY <1>1, Invariance, PTL

\* Published(g) is the counter of the one slot that carries g.
LEMMA PublishedOfSlot ==
    ASSUME SlotUnique, NEW g \in Graphs, NEW i \in Slots, oid[i] = g
    PROVE  Published(g) = version[i]
<1> DEFINE w == CHOOSE j \in Slots : oid[j] = g
<1>1. w \in Slots /\ oid[w] = g
  OBVIOUS
<1>2. w = i
  BY <1>1 DEF SlotUnique
<1>3. Published(g) = version[w]
  BY DEF Published
<1> QED
  BY <1>2, <1>3

\* The counter of a published slot, or 0.
LEMMA PublishedType ==
    ASSUME TypeOK, SlotUnique, NEW g \in Graphs
    PROVE  Published(g) \in Nat
<1>1. CASE \E i \in Slots : oid[i] = g
  BY <1>1, PublishedOfSlot DEF TypeOK
<1>2. CASE ~ \E i \in Slots : oid[i] = g
  BY <1>2 DEF Published
<1> QED
  BY <1>1, <1>2

\* A lock-free read that overlaps no removal of its graph returns a version the
\* graph had during the call.
THEOREM GetIsLinearizable == Spec => []GetWithinWindow
<1>1. ASSUME IInv PROVE GetWithinWindow
  <2> SUFFICES ASSUME NEW b \in Backends, pc[b] = "done", op[b] = "get", ~removed[b]
               PROVE  start[b] <= result[b] /\ result[b] <= Published(arg[b])
    BY DEF GetWithinWindow
  <2>1. TypeOK /\ SlotUnique /\ arg[b] \in Graphs /\ GotWithin(b)
    BY <1>1 DEF IInv, OpInv, WindowInv, Undisturbed
  <2>2. CASE result[b] = 0
    BY <2>1, <2>2, PublishedType DEF GotWithin, TypeOK
  <2>3. CASE \E i \in Slots : oid[i] = arg[b] /\ version[i] >= result[b]
    BY <2>1, <2>3, PublishedOfSlot DEF GotWithin
  <2> QED
    BY <2>1, <2>2, <2>3 DEF GotWithin
<1> QED
  BY <1>1, Invariance, PTL

\* No completed increment is lost, unless the graph is removed meanwhile or the
\* table is full.
THEOREM NoLostIncrement == Spec => []IncrementTakesEffect
<1>1. ASSUME IInv PROVE IncrementTakesEffect
  <2> SUFFICES ASSUME NEW b \in Backends, pc[b] = "done", op[b] = "inc",
                      ~removed[b], ~full[b]
               PROVE  start[b] < Published(arg[b])
    BY DEF IncrementTakesEffect
  <2>1. TypeOK /\ SlotUnique /\ arg[b] \in Graphs /\ Incremented(b)
    BY <1>1 DEF IInv, OpInv, WindowInv, Undisturbed
  <2>2. PICK i \in Slots : oid[i] = arg[b] /\ version[i] > start[b]
    BY <2>1 DEF Incremented
  <2> QED
    BY <2>1, <2>2, PublishedOfSlot DEF TypeOK
<1> QED
  BY <1>1, Invariance, PTL

\* The counter of a graph that keeps its slot never goes down.
THEOREM CounterIsMonotonic == Spec => VersionMonotonic
<1> DEFINE Mono == \A i \in Slots : oid[i] \in Graphs /\ oid'[i] = oid[i] =>
                       version'[i] >= version[i]
<1>1. ASSUME IInv, [Next]_vars PROVE Mono
  <2> SUFFICES ASSUME NEW i \in Slots, oid[i] \in Graphs, oid'[i] = oid[i]
               PROVE  version'[i] >= version[i]
    OBVIOUS
  <2>0. TypeOK /\ IdxInv
    BY <1>1 DEF IInv
  <2>1. ASSUME version' = version PROVE version'[i] >= version[i]
    BY <2>0, <2>1 DEF TypeOK
  <2>2. ASSUME NEW b \in Backends, Touch(b) PROVE version'[i] >= version[i]
    BY <2>0, <2>2 DEF Touch, TypeOK, IdxInv
  <2>3. ASSUME NEW b \in Backends, InitVersion(b) PROVE version'[i] >= version[i]
    BY <2>0, <2>3, OidFacts DEF InitVersion, TypeOK, IdxInv
  <2>4. ASSUME NEW b \in Backends, ZeroVersion(b) PROVE version'[i] >= version[i]
    BY <2>0, <2>4, OidFacts DEF ZeroVersion, TypeOK, IdxInv
  <2>5. ASSUME NEW b \in Backends, Step(b)
        PROVE  version' = version \/ Touch(b) \/ InitVersion(b) \/ ZeroVersion(b)
    BY <2>5 DEF Step, FastBound, FastProbe, ScanBound, ScanProbe, Acquire,
       RecheckIncrement, PublishOid, Extend, RecheckRemove, Unpublish, Shrink,
       Release, Return
  <2> QED
    BY <1>1, <2>1, <2>2, <2>3, <2>4, <2>5 DEF Next, Call, Quiesce, vars
<1>2. IInv /\ [Next]_vars => [Mono]_vars
  BY <1>1
<1> QED
  BY <1>2, Invariance, PTL DEF Spec, VersionMonotonic

-----------------------------------------------------------------------------
(* The table implements VersionCounter.                                      *)

\* The slot that carries an OID determines the counter, in any state.
LEMMA PublishedIn ==
    ASSUME NEW o, NEW v, NEW g, NEW i \in Slots, o[i] = g,
           \A j \in Slots : o[j] = g => j = i
    PROVE  (IF \E j \in Slots : o[j] = g THEN v[CHOOSE j \in Slots : o[j] = g] ELSE 0) = v[i]
<1>1. (CHOOSE j \in Slots : o[j] = g) = i
  OBVIOUS
<1> QED
  BY <1>1

\* The counter that the mapping gives a graph.
LEMMA CounterNow ==
    ASSUME IInv, NEW g \in Graphs
    PROVE  /\ Published(g) \in Nat
           /\ \A i \in Slots : oid[i] = g => Published(g) = version[i] /\ version[i] >= 1
           /\ (\A i \in Slots : oid[i] # g) => Published(g) = 0
<1>1. TypeOK /\ SlotUnique /\ NewOidNeverStale
  BY DEF IInv
<1>2. ASSUME NEW i \in Slots, oid[i] = g PROVE Published(g) = version[i] /\ version[i] >= 1
  BY <1>1, <1>2, PublishedOfSlot DEF NewOidNeverStale
<1>3. ASSUME \A i \in Slots : oid[i] # g PROVE Published(g) = 0
  BY <1>3 DEF Published
<1> QED
  BY <1>1, <1>2, <1>3, PublishedType

\* The same of the state that a step leads to.
LEMMA CounterNext ==
    ASSUME IInv', NEW g \in Graphs
    PROVE  /\ Published(g)' \in Nat
           /\ \A i \in Slots : oid'[i] = g => Published(g)' = version'[i] /\ version'[i] >= 1
           /\ (\A i \in Slots : oid'[i] # g) => Published(g)' = 0
<1>1. /\ version' \in [Slots -> Nat]
      /\ \A i, j \in Slots : oid'[i] \in Graphs /\ oid'[i] = oid'[j] => i = j
      /\ \A i \in Slots : oid'[i] \in Graphs => version'[i] >= 1
  BY DEF IInv, TypeOK, SlotUnique, NewOidNeverStale
<1>2. ASSUME NEW i \in Slots, oid'[i] = g
      PROVE  Published(g)' = version'[i] /\ version'[i] >= 1 /\ version'[i] \in Nat
  <2>1. \A j \in Slots : oid'[j] = g => j = i
    BY <1>1, <1>2
  <2>2. Published(g)' = version'[i]
    BY <1>2, <2>1, PublishedIn DEF Published
  <2> QED
    BY <1>1, <1>2, <2>2
<1>3. ASSUME \A i \in Slots : oid'[i] # g PROVE Published(g)' = 0
  BY <1>3 DEF Published
<1> QED
  BY <1>2, <1>3

\* Steps that change no counter a graph has, and no phase, are no steps there.
LEMMA RefineStutter ==
    ASSUME IInv, IInv',
           \A i \in Slots : oid'[i] = oid[i] /\ (oid[i] \in Graphs => version'[i] = version[i]),
           \A c \in Backends : Phase(c)' = Phase(c),
           UNCHANGED <<op, arg, start, removed, full, result>>
    PROVE  UNCHANGED Abstract!vars
<1>1. ASSUME NEW g \in Graphs PROVE Published(g)' = Published(g)
  <2>1. CASE \E i \in Slots : oid[i] = g
    BY <2>1, CounterNow, CounterNext
  <2>2. CASE \A i \in Slots : oid[i] # g
    BY <2>2, CounterNow, CounterNext
  <2> QED
    BY <2>1, <2>2
<1> QED
  BY <1>1 DEF Abstract!vars

\* The steps that are hidden there.
LEMMA RefineHidden ==
    ASSUME IInv, IInv', NEW b \in Backends,
           \/ FastBound(b) \/ FastProbe(b) \/ ScanProbe(b) \/ Acquire(b) \/ InitVersion(b)
           \/ Extend(b) \/ ZeroVersion(b) \/ Shrink(b) \/ Release(b)
    PROVE  UNCHANGED Abstract!vars
<1>0. TypeOK /\ OpInv /\ IdxInv
  BY DEF IInv
<1>1. UNCHANGED <<op, arg, start, removed, full, result>>
  BY DEF FastBound, FastProbe, ScanProbe, Acquire, InitVersion, Extend, ZeroVersion, Shrink, Release
<1>2. \A c \in Backends : Phase(c)' = Phase(c)
  BY <1>0 DEF FastBound, FastProbe, ScanProbe, Acquire, InitVersion, Extend, ZeroVersion, Shrink, Release, Phase, TypeOK
<1>3. \A i \in Slots : oid'[i] = oid[i] /\ (oid[i] \in Graphs => version'[i] = version[i])
  <2>1. CASE InitVersion(b) \/ ZeroVersion(b)
    BY <1>0, <2>1, OidFacts DEF InitVersion, ZeroVersion, TypeOK, IdxInv
  <2>2. CASE ~(InitVersion(b) \/ ZeroVersion(b))
    BY <2>2 DEF FastBound, FastProbe, ScanProbe, Acquire, Extend, Shrink, Release
  <2> QED
    BY <2>1, <2>2
<1> QED
  BY <1>1, <1>2, <1>3, RefineStutter

\* The phase of a backend at a label.
PhaseAt(l) ==
    IF l = "idle" THEN "idle"
    ELSE IF l \in {"extend", "zero", "shrink", "release", "done"} THEN "applied" ELSE "pending"

\* Only its phase changes.
LEMMA PhaseMove ==
    ASSUME TypeOK, NEW b \in Backends, NEW l, pc' = [pc EXCEPT ![b] = l]
    PROVE  /\ Phase(b) = PhaseAt(pc[b])
           /\ [c \in Backends |-> Phase(c)]' = [[c \in Backends |-> Phase(c)] EXCEPT ![b] = PhaseAt(l)]
<1>1. \A c \in Backends : Phase(c)' = IF c = b THEN PhaseAt(l) ELSE Phase(c)
  BY DEF TypeOK, Phase, PhaseAt
<1>2. Phase(b) = PhaseAt(pc[b])
  BY DEF Phase, PhaseAt
<1> QED
  BY <1>1, <1>2

\* The counters, when the slots of one graph only are written.
LEMMA CounterMove ==
    ASSUME IInv, IInv', NEW g \in Graphs,
           \A i \in Slots : oid[i] # g /\ oid'[i] # g =>
               /\ oid'[i] = oid[i]
               /\ oid[i] \in Graphs => version'[i] = version[i],
           \A i \in Slots : oid[i] = g => oid'[i] \in {g, InvalidOid},
           \A i \in Slots : oid'[i] = g => oid[i] \in {g, InvalidOid}
    PROVE  [h \in Graphs |-> Published(h)]' =
               [[h \in Graphs |-> Published(h)] EXCEPT ![g] = Published(g)']
<1>1. ASSUME NEW h \in Graphs, h # g PROVE Published(h)' = Published(h)
  <2>1. CASE \E i \in Slots : oid[i] = h
    <3>1. PICK i \in Slots : oid[i] = h
      BY <2>1
    <3>2. oid'[i] = h /\ version'[i] = version[i]
      BY <1>1, <3>1, OidFacts
    <3> QED
      BY <3>1, <3>2, CounterNow, CounterNext
  <2>2. CASE \A i \in Slots : oid[i] # h
    <3>1. \A i \in Slots : oid'[i] # h
      BY <1>1, <2>2, OidFacts
    <3> QED
      BY <2>2, <3>1, CounterNow, CounterNext
  <2> QED
    BY <2>1, <2>2
<1> QED
  BY <1>1

\* A call begins there when it begins here.
LEMMA RefineCall ==
    ASSUME IInv, IInv', NEW b \in Backends, NEW o \in {"get", "inc", "rem"}, NEW g \in Graphs,
           Call(b, o, g)
    PROVE  Abstract!Call(b, o, g)
<1>0. TypeOK
  BY DEF IInv
<1>1. /\ pc[b] = "idle" /\ oid' = oid /\ version' = version /\ result' = result
      /\ op' = [op EXCEPT ![b] = o] /\ arg' = [arg EXCEPT ![b] = g]
      /\ start' = [start EXCEPT ![b] = Visible(g)]
      /\ removed' = [removed EXCEPT ![b] = FALSE] /\ full' = [full EXCEPT ![b] = FALSE]
      /\ pc' = [pc EXCEPT ![b] = IF o = "rem" THEN "acquire" ELSE "fast"]
  BY DEF Call
<1>2. /\ Phase(b) = "idle"
      /\ [c \in Backends |-> Phase(c)]' = [[c \in Backends |-> Phase(c)] EXCEPT ![b] = "pending"]
  BY <1>0, <1>1, PhaseMove DEF PhaseAt
<1>3. \A h \in Graphs : Published(h)' = Published(h)
  BY <1>1 DEF Published
<1>4. Visible(g) \in {0, Published(g)}
  <2>1. CASE Visible(g) >= 1
    <3>1. PICK i \in Slots : oid[i] = g /\ version[i] = Visible(g)
      BY <1>0, <2>1, VisibleType
    <3> QED
      BY <3>1, CounterNow
  <2>2. CASE ~(Visible(g) >= 1)
    BY <1>0, <2>2, VisibleType
  <2> QED
    BY <2>1, <2>2
<1> QED
  BY <1>1, <1>2, <1>3, <1>4 DEF Abstract!Call

\* get_graph_version takes effect when it reads the counter, or finds no slot.
LEMMA RefineGet ==
    ASSUME IInv, IInv', NEW b \in Backends, op[b] = "get", NEW r \in Nat,
           PhaseAt(pc[b]) = "pending", pc' = [pc EXCEPT ![b] = "done"],
           result' = [result EXCEPT ![b] = r],
           UNCHANGED <<oid, version, op, arg, start, removed, full>>,
           removed[b] \/ (start[b] <= r /\ r <= Published(arg[b])), arg[b] \in Graphs
    PROVE  Abstract!Get(b)
<1>0. TypeOK
  BY DEF IInv
<1>2. /\ Phase(b) = "pending"
      /\ [c \in Backends |-> Phase(c)]' = [[c \in Backends |-> Phase(c)] EXCEPT ![b] = "applied"]
  BY <1>0, PhaseMove DEF PhaseAt
<1>3. \A h \in Graphs : Published(h)' = Published(h)
  BY DEF Published
<1>4. result' = [result EXCEPT ![b] = result'[b]] /\ result'[b] = r
  BY <1>0 DEF TypeOK
<1> QED
  BY <1>2, <1>3, <1>4 DEF Abstract!Get, Abstract!Apply

\* The end of the lock-free scan.
LEMMA RefineScanBound ==
    ASSUME IInv, IInv', NEW b \in Backends, ScanBound(b)
    PROVE  Abstract!Get(b) \/ UNCHANGED Abstract!vars
<1>0. TypeOK /\ OpInv /\ WindowInv /\ pc[b] = "scan" /\ arg[b] \in Graphs
  BY DEF IInv, ScanBound, OpInv
<1>1. UNCHANGED <<oid, version, num_entries, op, arg, idx, start, removed, full>>
  BY DEF ScanBound
<1>2. CASE idx[b] >= num_entries /\ op[b] = "get"
  <2>1. pc' = [pc EXCEPT ![b] = "done"] /\ result' = [result EXCEPT ![b] = 0]
    BY <1>0, <1>2 DEF ScanBound, TypeOK
  <2>2. ~removed[b] => start[b] <= 0
    <3>1. ~removed[b] => StillVisible(b)
      BY <1>0, <1>2 DEF WindowInv, Undisturbed
    <3>2. start[b] \in Nat /\ idx[b] \in Int /\ num_entries \in Int /\ \A i \in Slots : i \in Int
      BY <1>0, SlotFacts DEF TypeOK
    <3> QED
      BY <1>0, <1>2, <3>1, <3>2 DEF StillVisible
  <2>3. 0 <= Published(arg[b])
    BY <1>0, CounterNow
  <2> QED
    BY <1>0, <1>1, <1>2, <2>1, <2>2, <2>3, RefineGet DEF PhaseAt
<1>3. CASE ~(idx[b] >= num_entries /\ op[b] = "get")
  <2>1. UNCHANGED result /\ (pc' = [pc EXCEPT ![b] = "probe"] \/ pc' = [pc EXCEPT ![b] = "acquire"])
    BY <1>3 DEF ScanBound
  <2>2. \A c \in Backends : Phase(c)' = Phase(c)
    BY <1>0, <2>1 DEF Phase, TypeOK
  <2> QED
    BY <1>1, <2>1, <2>2, RefineStutter
<1> QED
  BY <1>2, <1>3

\* The read or the fetch-and-add of the slot found.
LEMMA RefineTouch ==
    ASSUME IInv, IInv', NEW b \in Backends, Touch(b)
    PROVE  Abstract!Get(b) \/ Abstract!Increment(b)
<1>0. /\ TypeOK /\ OpInv /\ IdxInv /\ WindowInv /\ pc[b] = "touch" /\ arg[b] \in Graphs
      /\ idx[b] \in Slots
  BY DEF IInv, Touch, OpInv, IdxInv
<1>1. /\ pc' = [pc EXCEPT ![b] = "done"]
      /\ UNCHANGED <<oid, op, arg, start, removed, full>>
      /\ oid \in [Slots -> Oids] /\ version \in [Slots -> Nat]
  BY <1>0 DEF Touch, TypeOK
<1>2. ~removed[b] => StillFound(b) /\ StillVisible(b)
  BY <1>0 DEF WindowInv, Undisturbed, OpInv, LockFree
<1>3. ~removed[b] => oid[idx[b]] = arg[b]
  BY <1>0, <1>2 DEF StillFound
<1>4. CASE op[b] = "get"
  <2>1. result' = [result EXCEPT ![b] = version[idx[b]]] /\ UNCHANGED version
    BY <1>4 DEF Touch
  <2>2. ~removed[b] => start[b] <= version[idx[b]] /\ version[idx[b]] <= Published(arg[b])
    <3> SUFFICES ASSUME ~removed[b]
                 PROVE  start[b] <= version[idx[b]] /\ version[idx[b]] <= Published(arg[b])
      OBVIOUS
    <3>1. Published(arg[b]) = version[idx[b]] /\ version[idx[b]] \in Nat /\ version[idx[b]] >= 1
      BY <1>0, <1>1, <1>3, CounterNow
    <3>2. start[b] \in Nat
      BY <1>0 DEF TypeOK
    <3>3. start[b] >= 1 => start[b] <= Published(arg[b])
      BY <1>0, <1>2, CounterNow DEF StillVisible
    <3> QED
      BY <3>1, <3>2, <3>3
  <2>3. version[idx[b]] \in Nat
    BY <1>0, <1>1
  <2> QED
    BY <1>0, <1>1, <1>4, <2>1, <2>2, <2>3, RefineGet DEF PhaseAt
<1>5. CASE op[b] = "inc"
  <2>1. version' = [version EXCEPT ![idx[b]] = @ + 1] /\ UNCHANGED result
    BY <1>5 DEF Touch
  <2>2. /\ version'[idx[b]] = version[idx[b]] + 1
        /\ \A i \in Slots : i # idx[b] => version'[i] = version[i]
    BY <1>0, <1>1, <2>1
  <2>3. /\ Phase(b) = "pending"
        /\ [c \in Backends |-> Phase(c)]' = [[c \in Backends |-> Phase(c)] EXCEPT ![b] = "applied"]
    BY <1>0, <1>1, PhaseMove DEF PhaseAt
  <2>4. CASE oid[idx[b]] = InvalidOid
    <3>1. \A h \in Graphs : Published(h)' = Published(h)
      <4> SUFFICES ASSUME NEW h \in Graphs PROVE Published(h)' = Published(h)
        OBVIOUS
      <4>1. CASE \E i \in Slots : oid[i] = h
        BY <1>1, <2>2, <2>4, <4>1, OidFacts, CounterNow, CounterNext
      <4>2. CASE \A i \in Slots : oid[i] # h
        BY <1>1, <4>2, CounterNow, CounterNext
      <4> QED
        BY <4>1, <4>2
    <3>2. removed[b]
      BY <1>0, <1>3, <2>4, OidFacts
    <3> QED
      BY <1>1, <1>5, <2>1, <2>3, <3>1, <3>2 DEF Abstract!Increment, Abstract!Apply
  <2>5. CASE oid[idx[b]] \in Graphs
    <3>1. PICK h \in Graphs : h = oid[idx[b]]
      BY <2>5
    <3>2. \A i \in Slots : oid[i] = h => i = idx[b]
      BY <1>0, <3>1 DEF IInv, SlotUnique
    <3>3. [k \in Graphs |-> Published(k)]' =
              [[k \in Graphs |-> Published(k)] EXCEPT ![h] = Published(h)']
      BY <1>0, <1>1, <2>2, <3>1, <3>2, CounterMove
    <3>4. Published(h)' = Published(h) + 1 /\ Published(h) > 0 /\ Published(h) \in Nat
      BY <1>0, <1>1, <2>2, <3>1, CounterNow, CounterNext
    <3>5. Abstract!Raised(h) /\ Published(h) > 0
      BY <3>3, <3>4 DEF Abstract!Raised
    <3>6. h = arg[b] \/ removed[b]
      BY <1>3, <3>1
    <3> QED
      BY <1>1, <1>5, <2>1, <2>3, <3>5, <3>6 DEF Abstract!Increment, Abstract!Apply
  <2> QED
    BY <1>0, <1>1, <2>4, <2>5, OidFacts
<1> QED
  BY <1>4, <1>5 DEF Touch

\* The scan under the lock: nothing yet, or the table is full.
LEMMA RefineRecheckIncrement ==
    ASSUME IInv, IInv', NEW b \in Backends, RecheckIncrement(b)
    PROVE  Abstract!TableFull(b) \/ UNCHANGED Abstract!vars
<1>0. /\ TypeOK /\ OpInv /\ SlotUnique /\ NewOidNeverStale /\ pc[b] = "recheck" /\ op[b] = "inc"
      /\ arg[b] \in Graphs
  BY DEF IInv, RecheckIncrement, OpInv
<1>1. UNCHANGED <<oid, version, num_entries, op, arg, start, removed, result>>
  BY DEF RecheckIncrement
<1>2. CASE pc' = [pc EXCEPT ![b] = "touch"] \/ pc' = [pc EXCEPT ![b] = "init"]
  <2>1. full' = full
    <3>1. pc'[b] \in {"touch", "init"}
      BY <1>0, <1>2 DEF TypeOK
    <3> QED
      BY <1>0, <3>1 DEF RecheckIncrement, TypeOK
  <2>2. \A c \in Backends : Phase(c)' = Phase(c)
    BY <1>0, <1>2 DEF Phase, TypeOK
  <2> QED
    BY <1>1, <2>1, <2>2, RefineStutter
<1>3. CASE /\ \A i \in Slots : i < num_entries => oid[i] # arg[b]
           /\ Holes = {} /\ num_entries = MaxSlots
           /\ full' = [full EXCEPT ![b] = TRUE]
           /\ pc' = [pc EXCEPT ![b] = "release"]
  <2>1. /\ Phase(b) = "pending"
        /\ [c \in Backends |-> Phase(c)]' = [[c \in Backends |-> Phase(c)] EXCEPT ![b] = "applied"]
    BY <1>0, <1>3, PhaseMove DEF PhaseAt
  <2>2. \A h \in Graphs : Published(h)' = Published(h)
    BY <1>1 DEF Published
  <2>3. \A i \in Slots : oid[i] # arg[b] /\ oid[i] \in Graphs
    <3>1. \A i \in Slots : i < num_entries
      BY <1>3, SlotFacts
    <3> QED
      BY <1>0, <1>3, <3>1, OidFacts DEF Holes, TypeOK
  <2>4. Published(arg[b]) = 0
    BY <1>0, <2>3, CounterNow
  <2> DEFINE T == {g \in Graphs : Published(g) > 0}
             f == [i \in Slots |-> oid[i]]
  <2>5. f \in Bijection(Slots, T)
    <3>1. \A i \in Slots : f[i] \in T
      BY <2>3, CounterNow
    <3>2. \A i, j \in Slots : f[i] = f[j] => i = j
      BY <1>0, <2>3 DEF SlotUnique
    <3>3. \A g \in T : \E i \in Slots : f[i] = g
      BY CounterNow
    <3>4. f \in [Slots -> T] /\ DOMAIN f = Slots
      BY <3>1
    <3> HIDE DEF f, T
    <3> QED
      BY <3>2, <3>3, <3>4 DEF Bijection, Injection, Surjection, IsInjective
  <2>6. IsFiniteSet(Slots) /\ Cardinality(Slots) = MaxSlots
    <3>1. MaxSlots \in Nat /\ MaxSlots > 0
      BY SlotFacts
    <3>2. /\ IsFiniteSet(0 .. MaxSlots - 1)
          /\ Cardinality(0 .. MaxSlots - 1) = IF 0 > MaxSlots - 1 THEN 0 ELSE (MaxSlots - 1) - 0 + 1
      BY <3>1, FS_Interval
    <3> QED
      BY <3>1, <3>2 DEF Slots
  <2>7. Cardinality(T) = MaxSlots
    <3> HIDE DEF f, T
    <3> QED
      BY <2>5, <2>6, FS_Bijection DEF ExistsBijection
  <2>8. Cardinality({g \in Graphs : [h \in Graphs |-> Published(h)][g] > 0}) = MaxSlots
    <3>1. {g \in Graphs : [h \in Graphs |-> Published(h)][g] > 0} = T
      OBVIOUS
    <3> QED
      BY <2>7, <3>1
  <2>9. Abstract!Cardinality({g \in Graphs : [h \in Graphs |-> Published(h)][g] > 0}) = MaxSlots
    <3>1. \A S : Abstract!Cardinality(S) = Cardinality(S)
      BY Zenon DEF Abstract!Cardinality, Cardinality
    <3> QED
      BY <2>8, <3>1
  <2>10. Abstract!Apply(b, "inc")
    BY <1>0, <1>1, <2>1 DEF Abstract!Apply
  <2>11. [h \in Graphs |-> Published(h)][arg[b]] = 0
    BY <1>0, <2>4
  <2>12. UNCHANGED [h \in Graphs |-> Published(h)]
    BY <2>2
  <2> HIDE DEF T, f
  <2> QED
    BY <1>1, <1>3, <2>10, <2>11, <2>12, <2>9 DEF Abstract!TableFull
<1> QED
  BY <1>2, <1>3 DEF RecheckIncrement

\* A new slot becomes visible as the graph's.
LEMMA RefinePublishOid ==
    ASSUME IInv, IInv', NEW b \in Backends, PublishOid(b)
    PROVE  Abstract!Increment(b)
<1>0. /\ TypeOK /\ pc[b] = "publish" /\ op[b] = "inc" /\ arg[b] \in Graphs
      /\ idx[b] \in Slots /\ oid[idx[b]] = InvalidOid
      /\ \A i \in Slots : oid[i] # arg[b]
  BY DEF IInv, PublishOid, OpInv, IdxInv
<1>1. /\ UNCHANGED <<version, op, arg, start, removed, full, result>>
      /\ oid' = [oid EXCEPT ![idx[b]] = arg[b]]
      /\ pc' = [pc EXCEPT ![b] = IF idx[b] = num_entries THEN "extend" ELSE "release"]
  BY DEF PublishOid
<1>2. /\ Phase(b) = "pending"
      /\ [c \in Backends |-> Phase(c)]' = [[c \in Backends |-> Phase(c)] EXCEPT ![b] = "applied"]
  BY <1>0, <1>1, PhaseMove DEF PhaseAt
<1>3. oid'[idx[b]] = arg[b] /\ \A i \in Slots : i # idx[b] => oid'[i] = oid[i]
  BY <1>0, <1>1 DEF TypeOK
<1>4. [h \in Graphs |-> Published(h)]' =
          [[h \in Graphs |-> Published(h)] EXCEPT ![arg[b]] = Published(arg[b])']
  <2>1. PICK g \in Graphs : g = arg[b]
    BY <1>0
  <2> QED
    BY <1>0, <1>1, <1>3, <2>1, CounterMove
<1>5. Published(arg[b]) = 0 /\ Published(arg[b])' >= 1 /\ Published(arg[b])' \in Nat
  <2>1. PICK g \in Graphs : g = arg[b]
    BY <1>0
  <2>2. Published(g) = 0 /\ Published(g)' >= 1 /\ Published(g)' \in Nat
    BY <1>0, <1>3, <2>1, CounterNow, CounterNext
  <2>3. Published(arg[b])' = Published(g)'
    BY <1>1, <2>1 DEF Published
  <2> QED
    BY <2>1, <2>2, <2>3
<1> QED
  BY <1>0, <1>1, <1>2, <1>4, <1>5 DEF Abstract!Increment, Abstract!Apply, Abstract!Raised

\* The removal's scan under the lock: nothing to remove, or not yet.
LEMMA RefineRecheckRemove ==
    ASSUME IInv, IInv', NEW b \in Backends, RecheckRemove(b)
    PROVE  Abstract!Remove(b) \/ UNCHANGED Abstract!vars
<1>0. /\ TypeOK /\ MarkInv /\ LockInv /\ pc[b] = "recheck" /\ op[b] = "rem"
      /\ arg[b] \in Graphs
  BY DEF IInv, RecheckRemove, OpInv
<1>1. UNCHANGED <<oid, version, num_entries, op, arg, start, removed, full, result>>
  BY DEF RecheckRemove
<1>2. \A h \in Graphs : Published(h)' = Published(h)
  BY <1>1 DEF Published
<1>3. CASE pc' = [pc EXCEPT ![b] = "unpublish"]
  <2>1. \A c \in Backends : Phase(c)' = Phase(c)
    BY <1>0, <1>3 DEF Phase, TypeOK
  <2> QED
    BY <1>1, <2>1, RefineStutter
<1>4. CASE /\ \A i \in Slots : i < num_entries => oid[i] # arg[b]
           /\ pc' = [pc EXCEPT ![b] = "release"]
  <2>1. /\ Phase(b) = "pending"
        /\ [c \in Backends |-> Phase(c)]' = [[c \in Backends |-> Phase(c)] EXCEPT ![b] = "applied"]
    BY <1>0, <1>4, PhaseMove DEF PhaseAt
  <2>2. lock = b
    BY <1>0 DEF LockInv, Locked
  <2>3. \A i \in Slots : oid[i] # arg[b]
    <3>1. \A i \in Slots : i < num_entries \/ i >= num_entries
      BY <1>0, SlotFacts DEF TypeOK
    <3> QED
      BY <1>0, <1>4, <2>2, <3>1, OidFacts DEF MarkInv
  <2>4. Published(arg[b]) = 0
    BY <1>0, <2>3, CounterNow
  <2>5. Abstract!Apply(b, "rem")
    BY <1>0, <1>1, <2>1 DEF Abstract!Apply
  <2>6. [h \in Graphs |-> Published(h)]' = [[h \in Graphs |-> Published(h)] EXCEPT ![arg[b]] = 0]
    BY <1>0, <1>2, <2>4
  <2>7. removed' = [c \in Backends |-> removed[c] \/ (Published(arg[b]) > 0 /\ arg[c] = arg[b])]
    <3>1. removed = [c \in Backends |-> removed[c]] /\ \A c \in Backends : removed[c] \in BOOLEAN
      BY <1>0 DEF TypeOK
    <3> QED
      BY <1>1, <2>4, <3>1
  <2>8. [h \in Graphs |-> Published(h)][arg[b]] = Published(arg[b])
    BY <1>0
  <2> QED
    BY <1>1, <2>5, <2>6, <2>7, <2>8 DEF Abstract!Remove
<1> QED
  BY <1>3, <1>4 DEF RecheckRemove

\* The slot's OID goes: the graph has no counter any more.
LEMMA RefineUnpublish ==
    ASSUME IInv, IInv', NEW b \in Backends, Unpublish(b)
    PROVE  Abstract!Remove(b)
<1>0. /\ TypeOK /\ SlotUnique /\ pc[b] = "unpublish" /\ op[b] = "rem" /\ arg[b] \in Graphs
      /\ idx[b] \in Slots /\ oid[idx[b]] = arg[b]
  BY DEF IInv, Unpublish, OpInv, IdxInv
<1>1. /\ UNCHANGED <<version, op, arg, start, full, result>>
      /\ oid' = [oid EXCEPT ![idx[b]] = InvalidOid]
      /\ removed' = [c \in Backends |-> removed[c] \/ arg[c] = arg[b]]
      /\ pc' = [pc EXCEPT ![b] = "zero"]
  BY DEF Unpublish
<1>2. /\ Phase(b) = "pending"
      /\ [c \in Backends |-> Phase(c)]' = [[c \in Backends |-> Phase(c)] EXCEPT ![b] = "applied"]
  BY <1>0, <1>1, PhaseMove DEF PhaseAt
<1>3. oid'[idx[b]] = InvalidOid /\ \A i \in Slots : i # idx[b] => oid'[i] = oid[i]
  BY <1>0, <1>1 DEF TypeOK
<1>4. PICK g \in Graphs : g = arg[b]
  BY <1>0
<1>5. \A i \in Slots : oid'[i] # g
  BY <1>0, <1>3, <1>4, OidFacts DEF SlotUnique
<1>6. Published(g)' = 0 /\ Published(g) > 0
  BY <1>0, <1>4, <1>5, CounterNow, CounterNext
<1>7. [h \in Graphs |-> Published(h)]' =
          [[h \in Graphs |-> Published(h)] EXCEPT ![g] = Published(g)']
  BY <1>0, <1>1, <1>3, <1>4, <1>5, CounterMove
<1>8. Abstract!Apply(b, "rem")
  BY <1>0, <1>1, <1>2 DEF Abstract!Apply
<1>9. [h \in Graphs |-> Published(h)]' = [[h \in Graphs |-> Published(h)] EXCEPT ![arg[b]] = 0]
  BY <1>4, <1>6, <1>7
<1>10. [h \in Graphs |-> Published(h)][arg[b]] > 0
  BY <1>4, <1>6
<1>11. removed' = [c \in Backends |->
           removed[c] \/ ([h \in Graphs |-> Published(h)][arg[b]] > 0 /\ arg[c] = arg[b])]
  BY <1>1, <1>10
<1> QED
  BY <1>1, <1>8, <1>9, <1>11 DEF Abstract!Remove

\* A call returns there when it returns here.
LEMMA RefineReturn ==
    ASSUME IInv, IInv', NEW b \in Backends, Return(b)
    PROVE  Abstract!Return(b)
<1>0. TypeOK /\ pc[b] = "done"
  BY DEF IInv, Return
<1>1. /\ UNCHANGED <<oid, version, op, arg, start, removed, full, result>>
      /\ pc' = [pc EXCEPT ![b] = "idle"]
  BY DEF Return
<1>2. /\ Phase(b) = "applied"
      /\ [c \in Backends |-> Phase(c)]' = [[c \in Backends |-> Phase(c)] EXCEPT ![b] = "idle"]
  BY <1>0, <1>1, PhaseMove DEF PhaseAt
<1>3. \A h \in Graphs : Published(h)' = Published(h)
  BY <1>1 DEF Published
<1> QED
  BY <1>1, <1>2, <1>3 DEF Abstract!Return

\* The empty table has no counters.
LEMMA RefineInit == Init => Abstract!Init
<1> SUFFICES ASSUME Init PROVE Abstract!Init
  OBVIOUS
<1>1. \A g \in Graphs : Published(g) = 0
  BY OidFacts DEF Init, Published
<1>2. \A b \in Backends : Phase(b) = "idle"
  BY DEF Init, Phase
<1> QED
  BY <1>1, <1>2 DEF Init, Abstract!Init

\* Every access to shared memory is a step of VersionCounter or hidden from it.
LEMMA RefineNext == IInv /\ IInv' /\ [Next]_vars => [Abstract!Next]_(Abstract!vars)
<1> SUFFICES ASSUME IInv, IInv', [Next]_vars PROVE Abstract!Next \/ UNCHANGED Abstract!vars
  OBVIOUS
<1>1. ASSUME NEW b \in Backends, NEW o \in {"get", "inc", "rem"}, NEW g \in Graphs, Call(b, o, g)
      PROVE  Abstract!Next
  BY <1>1, RefineCall DEF Abstract!Next
<1>2. ASSUME NEW b \in Backends, Step(b)
      PROVE  Abstract!Next \/ UNCHANGED Abstract!vars
  <2>1. CASE \/ FastBound(b) \/ FastProbe(b) \/ ScanProbe(b) \/ Acquire(b) \/ InitVersion(b)
             \/ Extend(b) \/ ZeroVersion(b) \/ Shrink(b) \/ Release(b)
    BY <2>1, RefineHidden
  <2>2. CASE ScanBound(b)
    BY <2>2, RefineScanBound DEF Abstract!Next
  <2>3. CASE Touch(b)
    BY <2>3, RefineTouch DEF Abstract!Next
  <2>4. CASE RecheckIncrement(b)
    BY <2>4, RefineRecheckIncrement DEF Abstract!Next
  <2>5. CASE PublishOid(b)
    BY <2>5, RefinePublishOid DEF Abstract!Next
  <2>6. CASE RecheckRemove(b)
    BY <2>6, RefineRecheckRemove DEF Abstract!Next
  <2>7. CASE Unpublish(b)
    BY <2>7, RefineUnpublish DEF Abstract!Next
  <2>8. CASE Return(b)
    BY <2>8, RefineReturn DEF Abstract!Next
  <2> QED
    BY <1>2, <2>1, <2>2, <2>3, <2>4, <2>5, <2>6, <2>7, <2>8 DEF Step
<1>3. CASE UNCHANGED vars
  <2>1. \A c \in Backends : Phase(c)' = Phase(c)
    BY <1>3 DEF Phase, vars
  <2> QED
    BY <1>3, <2>1, RefineStutter DEF vars
<1> QED
  BY <1>1, <1>2, <1>3 DEF Next, Quiesce

\* The lock-free table of age_global_graph.c implements one atomic counter for
\* each graph: every get, increment and removal takes effect in one step between
\* its call and its return, for any number of backends, graphs and slots.
THEOREM Refinement == Spec => ImplementsCounter
<1>1. Init => Abstract!Init
  BY RefineInit
<1>2. IInv /\ IInv' /\ [Next]_vars => [Abstract!Next]_(Abstract!vars)
  BY RefineNext
<1> QED
  BY <1>1, <1>2, Invariance, PTL DEF Spec, ImplementsCounter, Abstract!Spec
=============================================================================
