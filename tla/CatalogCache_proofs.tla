------------------------- MODULE CatalogCache_proofs -------------------------
(***************************************************************************)
(* IInv is inductive.  Every action that removes entries from a backend's   *)
(* hash tables does it as Shrinks says: an entry is removed only together   *)
(* with a raise of the generation, so that no slot of the array is left     *)
(* pointing at it.  MCCatalogCache is the graph caches or the label caches: *)
(* what is shown of the former is carried over to it at the end.            *)
(***************************************************************************)
EXTENDS MCCatalogCache, TLAPS

Messages == Oids \cup {Everything}

\* The places a backend can be at.
LEMMA PcFacts == "idle" \in PCs /\ "scan" \in PCs /\ "returned" \in PCs /\ "send" \in PCs
BY DEF PCs

\* A backend that is in no lookup.
LEMMA NoCallType == NoCall \in CallType
BY DEF NoCall, CallType, Kinds

\* What applying messages M does to the caches of b.
Shrinks(b, M) ==
    /\ hash' \in HashType
    /\ generation' \in [Backends -> Nat]
    /\ \A c \in Backends : c # b =>
           hash'[c] = hash[c] /\ generation'[c] = generation[c]
    /\ \A k \in Kinds, a \in Addrs :
           /\ hash'[b][k][a] = Free \/ hash'[b][k][a] = hash[b][k][a]
           /\ hash'[b][k][a] # Free =>
                  hash[b][k][a].oid \notin M /\ Everything \notin M
    /\ \/ generation'[b] > generation[b]
       \/ /\ generation'[b] = generation[b]
          /\ FlushAll => M = {}
          /\ \A k \in Kinds, a \in Addrs : hash'[b][k][a] = hash[b][k][a]

\* invalidate_label_caches and invalidate_graph_caches shrink.
LEMMA InvalidateShrinks ==
    ASSUME TypeOK, NEW b \in Backends, NEW M \in SUBSET Messages, Invalidate(b, M)
    PROVE  Shrinks(b, M)
<1>1. /\ hash \in HashType
      /\ generation \in [Backends -> Nat]
  BY DEF TypeOK
<1>2. hash' = [hash EXCEPT ![b] =
           [k \in Kinds |-> [a \in Addrs |->
               IF M # {} /\ Hit(b, M, k, a) THEN Free ELSE hash[b][k][a]]]]
  BY DEF Invalidate
<1>3. \A k \in Kinds, a \in Addrs :
          hash'[b][k][a] = IF M # {} /\ Hit(b, M, k, a) THEN Free ELSE hash[b][k][a]
  BY <1>1, <1>2 DEF HashType
<1>4. hash' \in HashType
  BY <1>1, <1>2 DEF HashType
<1>5. \A c \in Backends : c # b => hash'[c] = hash[c]
  BY <1>1, <1>2 DEF HashType
<1>6. \A k \in Kinds, a \in Addrs :
           /\ hash'[b][k][a] = Free \/ hash'[b][k][a] = hash[b][k][a]
           /\ hash'[b][k][a] # Free =>
                  hash[b][k][a].oid \notin M /\ Everything \notin M
  BY <1>3 DEF Hit
<1>7. /\ generation' \in [Backends -> Nat]
      /\ \A c \in Backends : c # b => generation'[c] = generation[c]
      /\ \/ generation'[b] > generation[b]
         \/ /\ generation'[b] = generation[b]
            /\ M # {} => ~FlushAll /\ \A k \in Kinds, a \in Addrs : ~Hit(b, M, k, a)
  BY <1>1 DEF Invalidate
<1> QED
  BY <1>3, <1>4, <1>5, <1>6, <1>7 DEF Shrinks

\* A change of the catalog shrinks too, and always raises the generation.
LEMMA RegistersShrinks ==
    ASSUME TypeOK, NEW b \in Backends, NEW o \in Oids, Registers(b, o)
    PROVE  /\ Shrinks(b, {o})
           /\ generation'[b] > generation[b]
           /\ registered' = [registered EXCEPT ![b] = @ \cup {o}]
<1>1. /\ hash \in HashType
      /\ generation \in [Backends -> Nat]
  BY DEF TypeOK
<1>2. hash' = [hash EXCEPT ![b] =
           [k \in Kinds |-> [a \in Addrs |->
               IF Hit(b, {o}, k, a) THEN Free ELSE hash[b][k][a]]]]
  BY DEF Registers
<1>3. \A k \in Kinds, a \in Addrs :
          hash'[b][k][a] = IF Hit(b, {o}, k, a) THEN Free ELSE hash[b][k][a]
  BY <1>1, <1>2 DEF HashType
<1>4. hash' \in HashType
  BY <1>1, <1>2 DEF HashType
<1>5. \A c \in Backends : c # b => hash'[c] = hash[c]
  BY <1>1, <1>2 DEF HashType
<1>6. \A k \in Kinds, a \in Addrs :
           /\ hash'[b][k][a] = Free \/ hash'[b][k][a] = hash[b][k][a]
           /\ hash'[b][k][a] # Free =>
                  hash[b][k][a].oid \notin {o} /\ Everything \notin {o}
  BY <1>3, MessageAssumption DEF Hit
<1>7. /\ generation' \in [Backends -> Nat]
      /\ \A c \in Backends : c # b => generation'[c] = generation[c]
      /\ generation'[b] > generation[b]
  BY <1>1 DEF Registers
<1> QED
  BY <1>4, <1>5, <1>6, <1>7 DEF Shrinks, Registers

\* Shrinking, with the arrays left alone, keeps the pointers of the arrays live,
\* the keys unique, the slots of known generations, and a scan's key missing.
LEMMA ShrinkPreserves ==
    ASSUME IInv, NEW b \in Backends, NEW M, Shrinks(b, M), last' = last
    PROVE  /\ NoDanglingPointer' /\ OneEntryPerKey'
           /\ \A c \in Backends, k \in Kinds, i \in Slots :
                  last'[c][k][i].valid =>
                      last'[c][k][i].generation <= generation'[c]
           /\ \A c \in Backends, k \in Kinds, key \in Keys \cup {Null} :
                  Entry(c, k, key) = {} => Entry(c, k, key)' = {}
           /\ \A c \in Backends : generation[c] <= generation'[c]
<1>1. TypeOK /\ GenerationInv /\ NoDanglingPointer /\ OneEntryPerKey
  BY DEF IInv
<1>2. \A c \in Backends : generation[c] <= generation'[c]
                          /\ generation[c] \in Nat /\ generation'[c] \in Nat
  <2>1. generation \in [Backends -> Nat] /\ generation' \in [Backends -> Nat]
    BY <1>1 DEF Shrinks, TypeOK
  <2>2. generation'[b] >= generation[b]
    BY <2>1 DEF Shrinks
  <2>3. \A c \in Backends : c # b => generation'[c] = generation[c]
    BY DEF Shrinks
  <2> QED
    BY <2>1, <2>2, <2>3
<1>3. \A c \in Backends, k \in Kinds, a \in Addrs :
          hash'[c][k][a] = Free \/ hash'[c][k][a] = hash[c][k][a]
  BY DEF Shrinks
<1>4. \A c \in Backends : generation'[c] = generation[c] =>
          \A k \in Kinds, a \in Addrs : hash'[c][k][a] = hash[c][k][a]
  BY <1>2 DEF Shrinks
<1>5. \A c \in Backends, k \in Kinds, i \in Slots :
          /\ last[c][k][i].generation \in Nat
          /\ last[c][k][i].ptr \in Addrs \cup {Null}
          /\ last[c][k][i].valid => last[c][k][i].generation <= generation[c]
  BY <1>1 DEF TypeOK, LastType, SlotType, GenerationInv
<1>6. NoDanglingPointer'
  <2> SUFFICES ASSUME NEW c \in Backends, NEW k \in Kinds, NEW i \in Slots,
                      last[c][k][i].valid,
                      last[c][k][i].generation = generation'[c],
                      last[c][k][i].ptr # Null
               PROVE  /\ hash'[c][k][last[c][k][i].ptr] # Free
                      /\ KeyOf(k, hash'[c][k][last[c][k][i].ptr]) = last[c][k][i].key
    BY DEF NoDanglingPointer
  <2>1. generation'[c] = generation[c]
    BY <1>2, <1>5
  <2>2. /\ hash[c][k][last[c][k][i].ptr] # Free
        /\ KeyOf(k, hash[c][k][last[c][k][i].ptr]) = last[c][k][i].key
    BY <1>1, <2>1, Zenon DEF NoDanglingPointer
  <2>3. hash'[c][k][last[c][k][i].ptr] = hash[c][k][last[c][k][i].ptr]
    BY <1>4, <1>5, <2>1
  <2> QED
    BY <2>2, <2>3
<1>7. OneEntryPerKey'
  BY <1>1, <1>3 DEF OneEntryPerKey
<1>8. \A c \in Backends, k \in Kinds, key \in Keys \cup {Null} :
          Entry(c, k, key) = {} => Entry(c, k, key)' = {}
  BY <1>3 DEF Entry
<1>9. \A c \in Backends, k \in Kinds, i \in Slots :
          last'[c][k][i].valid => last'[c][k][i].generation <= generation'[c]
  BY <1>2, <1>5
<1> QED
  BY <1>2, <1>6, <1>7, <1>8, <1>9

\* A row that stays visible, or whose message stays on its way, may stay cached.
LEMMA ShrinkKeepsCurrent ==
    ASSUME IInv, NEW b \in Backends, NEW M, Shrinks(b, M),
           \A c \in Backends, r \in Rows :
               /\ r \in Seen(c) \/ OnItsWay(c, r)
               /\ c = b => r.oid \notin M /\ Everything \notin M
               => (r \in Seen(c) \/ OnItsWay(c, r))'
    PROVE  CachedRowIsCurrent'
<1>1. /\ CachedRowIsCurrent
      /\ hash \in HashType
  BY DEF IInv, TypeOK
<1> SUFFICES ASSUME NEW c \in Backends, NEW k \in Kinds, NEW a \in Addrs,
                    hash'[c][k][a] # Free
             PROVE  (hash[c][k][a] \in Seen(c) \/ OnItsWay(c, hash[c][k][a]))'
  BY DEF CachedRowIsCurrent
<1>2. hash'[c][k][a] = hash[c][k][a]
  BY DEF Shrinks
<1>3. hash[c][k][a] \in Rows
  BY <1>1, <1>2 DEF HashType
<1>4. hash[c][k][a] \in Seen(c) \/ OnItsWay(c, hash[c][k][a])
  BY <1>1, <1>2 DEF CachedRowIsCurrent
<1>5. c = b => hash[c][k][a].oid \notin M /\ Everything \notin M
  BY DEF Shrinks
<1> DEFINE row == hash[c][k][a]
<1>6. (\E r \in Rows : r = row /\ (r \in Seen(c) \/ OnItsWay(c, r))
                      /\ (c = b => r.oid \notin M /\ Everything \notin M))
  BY <1>3, <1>4, <1>5
<1>7. PICK r \in Rows : /\ r = row /\ (r \in Seen(c) \/ OnItsWay(c, r))
                        /\ (c = b => r.oid \notin M /\ Everything \notin M)
  BY <1>6
<1>8. (r \in Seen(c) \/ OnItsWay(c, r))'
  BY <1>7
<1> QED
  BY <1>2, <1>7, <1>8 DEF OnItsWay, Seen

\* In the graph caches, what makes a slot's "not found" true stays true where no
\* message is applied.
LEMMA ShrinkKeepsNotFound ==
    ASSUME IInv, NEW b \in Backends, NEW M, Shrinks(b, M), last' = last,
           \A c \in Backends : c # b \/ M = {} =>
               Seen(c)' = Seen(c) /\ (queue[c] # {} => queue'[c] # {}),
           \A c \in Backends : pc[c] = "send" => pc'[c] = "send"
    PROVE  NotFoundInv'
<1>1. TypeOK /\ GenerationInv /\ NotFoundInv
  BY DEF IInv
<1> SUFFICES ASSUME FlushAll, NEW c \in Backends, NEW k \in Kinds, NEW i \in Slots,
                    last[c][k][i].valid,
                    last[c][k][i].generation = generation'[c],
                    last[c][k][i].ptr = Null
             PROVE  \/ \A r \in Seen(c)' : KeyOf(k, r) # last[c][k][i].key
                    \/ queue'[c] # {}
                    \/ \E d \in Backends : pc'[d] = "send"
  BY DEF NotFoundInv
<1>2. generation'[c] = generation[c] /\ (c # b \/ M = {})
  <2>1. /\ last[c][k][i].generation \in Nat /\ generation[c] \in Nat
        /\ last[c][k][i].generation <= generation[c]
    BY <1>1 DEF TypeOK, LastType, SlotType, GenerationInv
  <2>2. c # b => generation'[c] = generation[c]
    BY DEF Shrinks
  <2>3. c = b => generation'[b] > generation[b] \/ (generation'[b] = generation[b] /\ M = {})
    BY DEF Shrinks
  <2>4. ~(generation'[c] > generation[c])
    BY <2>1
  <2> QED
    BY <2>2, <2>3, <2>4
<1>3. \/ \A r \in Seen(c) : KeyOf(k, r) # last[c][k][i].key
      \/ queue[c] # {}
      \/ \E d \in Backends : pc[d] = "send"
  BY <1>1, <1>2 DEF NotFoundInv
<1> QED
  BY <1>2, <1>3

\* What Fill writes: one slot of one array.
LEMMA FillFacts ==
    ASSUME TypeOK, NEW b \in Backends, NEW k \in Kinds, NEW key \in Keys \cup {Null},
           NEW g \in Nat, NEW ptr \in Addrs \cup {Null}, Fill(b, k, key, g, ptr)
    PROVE  /\ last' \in LastType
           /\ next_slot' \in NextSlotType
           /\ \A c \in Backends, j \in Kinds, i \in Slots :
                  \/ last'[c][j][i] = last[c][j][i]
                  \/ /\ c = b /\ j = k
                     /\ last'[c][j][i].valid /\ last'[c][j][i].key = key
                     /\ last'[c][j][i].generation = g /\ last'[c][j][i].ptr = ptr
<1>1. /\ last \in LastType
      /\ next_slot \in NextSlotType
  BY DEF TypeOK
<1> DEFINE s == [valid |-> TRUE, key |-> key, generation |-> g, ptr |-> ptr]
<1>2. s \in SlotType
  BY DEF SlotType
<1>3. PICK v \in Slots : last' = [last EXCEPT ![b][k][v] = s]
  BY DEF Fill
<1> HIDE DEF s
<1>4. last' \in LastType
  BY <1>1, <1>2, <1>3 DEF LastType
<1>5. \A c \in Backends, j \in Kinds, i \in Slots :
          last'[c][j][i] = last[c][j][i] \/ (c = b /\ j = k /\ last'[c][j][i] = s)
  BY <1>1, <1>3 DEF LastType
<1>6. next_slot' \in NextSlotType
  <2>1. (next_slot[b][k] + 1) % LastSize \in Slots
    BY <1>1, SizeAssumption DEF Slots, NextSlotType
  <2> QED
    BY <1>1, <2>1 DEF Fill, NextSlotType
<1> QED
  BY <1>4, <1>5, <1>6 DEF s

\* A result returned from the array changes no cache.
LEMMA LastHitStep ==
    ASSUME IInv, NEW b \in Backends, NEW k \in Kinds, NEW key \in KeysOf(k),
           LastHit(b, k, key)
    PROVE  IInv'
<1>1. /\ TypeOK /\ GenerationInv /\ MessageInv /\ NoDanglingPointer
      /\ CachedRowIsCurrent /\ OneEntryPerKey /\ NotFoundInv
  BY DEF IInv
<1>2. PICK i \in Slots : Returns(b, k, key, generation[b], last[b][k][i].ptr)
  BY DEF LastHit
<1>3. /\ pc[b] = "idle" /\ pc' = [pc EXCEPT ![b] = "returned"]
      /\ ops' = ops + 1
      /\ UNCHANGED <<committed, created, dropped, used, registered, queue, hash,
                     generation, last, next_slot>>
  BY <1>2 DEF LastHit, Returns, Op, catalog, caches
<1>4. key \in Keys
  BY DEF Keys, KeysOf
<1>5. call' \in [Backends -> CallType]
  <2>1. last[b][k][i].ptr \in Addrs \cup {Null} /\ generation[b] \in Nat
    BY <1>1 DEF TypeOK, LastType, SlotType
  <2> QED
    BY <1>1, <1>2, <1>4, <2>1 DEF Returns, TypeOK, CallType
<1>6. TypeOK'
  <2>1. pc' \in [Backends -> PCs] /\ ops' \in Nat
    BY <1>1, <1>3, PcFacts DEF TypeOK
  <2> QED
    BY <1>1, <1>3, <1>5, <2>1 DEF TypeOK
<1>7. GenerationInv'
  BY <1>1, <1>2, <1>3 DEF GenerationInv, Returns, Entry, TypeOK
<1>8. MessageInv'
  BY <1>1, <1>3 DEF MessageInv, TypeOK
<1>9. NoDanglingPointer' /\ OneEntryPerKey'
  BY <1>1, <1>3, SMTT(60) DEF NoDanglingPointer, OneEntryPerKey
<1>10. CachedRowIsCurrent'
  BY <1>1, <1>3 DEF CachedRowIsCurrent, OnItsWay, Seen, TypeOK
<1>11. NotFoundInv'
  BY <1>1, <1>3 DEF NotFoundInv, Seen, TypeOK
<1> QED
  BY <1>6, <1>7, <1>8, <1>9, <1>10, <1>11 DEF IInv

\* A result returned from a hash table puts a live pointer in the array.
LEMMA HashHitStep ==
    ASSUME IInv, NEW b \in Backends, NEW k \in Kinds, NEW key \in KeysOf(k),
           HashHit(b, k, key)
    PROVE  IInv'
<1>1. /\ TypeOK /\ GenerationInv /\ MessageInv /\ NoDanglingPointer
      /\ CachedRowIsCurrent /\ OneEntryPerKey /\ NotFoundInv
  BY DEF IInv
<1>2. PICK a \in Entry(b, k, key) : /\ Fill(b, k, key, generation[b], a)
                                    /\ Returns(b, k, key, generation[b], a)
  BY DEF HashHit
<1>3. /\ pc[b] = "idle" /\ pc' = [pc EXCEPT ![b] = "returned"]
      /\ ops' = ops + 1
      /\ UNCHANGED <<committed, created, dropped, used, registered, queue, hash,
                     generation>>
  BY <1>2 DEF HashHit, Returns, Op, catalog
<1>4. /\ key \in Keys /\ a \in Addrs /\ generation[b] \in Nat /\ a # Null
      /\ hash[b][k][a] # Free /\ KeyOf(k, hash[b][k][a]) = key
  BY <1>1, NullAssumption DEF Keys, KeysOf, Entry, TypeOK
<1>5. /\ last' \in LastType
      /\ next_slot' \in NextSlotType
      /\ \A c \in Backends, j \in Kinds, i \in Slots :
             \/ last'[c][j][i] = last[c][j][i]
             \/ /\ c = b /\ j = k
                /\ last'[c][j][i].valid /\ last'[c][j][i].key = key
                /\ last'[c][j][i].generation = generation[b] /\ last'[c][j][i].ptr = a
  BY <1>1, <1>2, <1>4, FillFacts
<1>6. call' \in [Backends -> CallType]
  BY <1>1, <1>2, <1>4 DEF Returns, TypeOK, CallType
<1>7. TypeOK'
  <2>1. pc' \in [Backends -> PCs] /\ ops' \in Nat
    BY <1>1, <1>3, PcFacts DEF TypeOK
  <2> QED
    BY <1>1, <1>3, <1>5, <1>6, <2>1 DEF TypeOK
<1>8. GenerationInv'
  <2>1. \A c \in Backends : generation[c] \in Nat
    BY <1>1 DEF TypeOK
  <2>2. \A c \in Backends, j \in Kinds, i \in Slots :
            last'[c][j][i].valid => last'[c][j][i].generation <= generation'[c]
    BY <1>1, <1>3, <1>5, <2>1 DEF GenerationInv
  <2>3. \A c \in Backends : pc'[c] = "scan" => pc[c] = "scan" /\ call'[c] = call[c]
    BY <1>1, <1>2, <1>3 DEF Returns, TypeOK
  <2> QED
    BY <1>1, <1>3, <2>2, <2>3 DEF GenerationInv, Entry
<1>9. MessageInv'
  BY <1>1, <1>3 DEF MessageInv, TypeOK
<1>10. NoDanglingPointer'
  <2> SUFFICES ASSUME NEW c \in Backends, NEW j \in Kinds, NEW i \in Slots,
                      last'[c][j][i].valid, last'[c][j][i].generation = generation'[c],
                      last'[c][j][i].ptr # Null
               PROVE  /\ hash'[c][j][last'[c][j][i].ptr] # Free
                      /\ KeyOf(j, hash'[c][j][last'[c][j][i].ptr]) = last'[c][j][i].key
    BY Zenon DEF NoDanglingPointer
  <2>1. /\ last[c][j][i].valid /\ last[c][j][i].generation = generation[c] /\ last[c][j][i].ptr # Null
        => /\ hash[c][j][last[c][j][i].ptr] # Free
           /\ KeyOf(j, hash[c][j][last[c][j][i].ptr]) = last[c][j][i].key
    BY <1>1, Zenon DEF NoDanglingPointer
  <2>2. hash' = hash /\ generation' = generation
    BY <1>3
  <2>3. CASE last'[c][j][i] = last[c][j][i]
    BY <2>1, <2>2, <2>3
  <2>4. CASE c = b /\ j = k /\ last'[c][j][i].key = key /\ last'[c][j][i].ptr = a
    BY <1>4, <2>2, <2>4
  <2> QED
    BY <1>5, <2>3, <2>4, Zenon
<1>11. OneEntryPerKey'
  BY <1>1, <1>3 DEF OneEntryPerKey
<1>12. CachedRowIsCurrent'
  BY <1>1, <1>3 DEF CachedRowIsCurrent, OnItsWay, Seen, TypeOK
<1>13. NotFoundInv'
  <2>1. \A c \in Backends : pc[c] = "send" => pc'[c] = "send"
    BY <1>1, <1>3 DEF TypeOK
  <2> QED
    BY <1>1, <1>3, <1>4, <1>5, <2>1 DEF NotFoundInv, Seen
<1> QED
  BY <1>7, <1>8, <1>9, <1>10, <1>11, <1>12, <1>13 DEF IInv

\* A miss receives the pending messages and keeps the generation it had.
LEMMA MissStep ==
    ASSUME IInv, NEW b \in Backends, NEW k \in Kinds, NEW key \in KeysOf(k),
           Miss(b, k, key)
    PROVE  IInv'
<1>1. /\ TypeOK /\ GenerationInv /\ MessageInv /\ NoDanglingPointer
      /\ CachedRowIsCurrent /\ OneEntryPerKey /\ NotFoundInv
  BY DEF IInv
<1>2. queue[b] \in SUBSET Messages
  BY <1>1 DEF TypeOK, Messages
<1>3. Shrinks(b, queue[b])
  BY <1>1, <1>2, InvalidateShrinks DEF Miss
<1>4. /\ pc[b] = "idle" /\ pc' = [pc EXCEPT ![b] = "scan"] /\ ops' = ops + 1
      /\ queue' = [queue EXCEPT ![b] = {}]
      /\ UNCHANGED <<committed, created, dropped, used, registered, last, next_slot>>
      /\ Entry(b, k, key) = {}
      /\ call' = [call EXCEPT ![b] = [kind |-> k, key |-> key,
                                      generation |-> generation[b], ptr |-> Null]]
  BY DEF Miss, Op, catalog
<1>5. key \in Keys /\ generation[b] \in Nat
  BY <1>1 DEF Keys, KeysOf, TypeOK
<1>6. call' \in [Backends -> CallType]
  BY <1>1, <1>4, <1>5 DEF TypeOK, CallType
<1>7. TypeOK'
  BY <1>1, <1>3, <1>4, <1>6, PcFacts DEF TypeOK, Shrinks
<1>8. /\ NoDanglingPointer' /\ OneEntryPerKey'
      /\ \A c \in Backends, j \in Kinds, i \in Slots :
             last'[c][j][i].valid => last'[c][j][i].generation <= generation'[c]
      /\ \A c \in Backends, j \in Kinds, x \in Keys \cup {Null} :
             Entry(c, j, x) = {} => Entry(c, j, x)' = {}
      /\ \A c \in Backends : generation[c] <= generation'[c]
  BY <1>3, <1>4, ShrinkPreserves
<1>9. GenerationInv'
  <2> SUFFICES ASSUME NEW c \in Backends, pc'[c] = "scan"
               PROVE  (/\ call[c].generation <= generation[c]
                       /\ Entry(c, call[c].kind, call[c].key) = {})'
    BY <1>8 DEF GenerationInv
  <2>1. CASE c = b
    <3>1. /\ call'[b].kind = k /\ call'[b].key = key
          /\ call'[b].generation = generation[b] /\ Entry(b, k, key)' = {}
      BY <1>1, <1>4, <1>5, <1>8 DEF TypeOK
    <3> QED
      BY <1>8, <2>1, <3>1 DEF Entry
  <2>2. CASE c # b
    <3>1. /\ pc[c] = "scan" /\ call'[c] = call[c] /\ call[c] \in CallType
          /\ generation[c] \in Nat /\ generation'[c] \in Nat
      BY <1>1, <1>4, <1>7, <2>2 DEF TypeOK
    <3>2. call[c].generation <= generation[c] /\ Entry(c, call[c].kind, call[c].key) = {}
      BY <1>1, <3>1 DEF GenerationInv
    <3>3. Entry(c, call[c].kind, call[c].key)' = {}
      BY <1>8, <3>1, <3>2 DEF CallType, Entry
    <3> QED
      BY <1>8, <3>1, <3>2, <3>3 DEF CallType, Entry
  <2> QED
    BY <2>1, <2>2
<1>10. MessageInv'
  BY <1>1, <1>4 DEF MessageInv, TypeOK
<1>11. CachedRowIsCurrent'
  <2>1. \A c \in Backends : pc[c] = "send" => pc'[c] = "send"
    BY <1>1, <1>4 DEF TypeOK
  <2>2. \A c \in Backends, r \in Rows :
            /\ r \in Seen(c) \/ OnItsWay(c, r)
            /\ c = b => r.oid \notin queue[b] /\ Everything \notin queue[b]
            => (r \in Seen(c) \/ OnItsWay(c, r))'
    BY <1>1, <1>4, <2>1 DEF Seen, OnItsWay, TypeOK
  <2> QED
    BY <1>3, <2>2, ShrinkKeepsCurrent
<1>12. NotFoundInv'
  <2>1. \A c \in Backends : pc[c] = "send" => pc'[c] = "send"
    BY <1>1, <1>4 DEF TypeOK
  <2>2. \A c \in Backends : c # b \/ queue[b] = {} =>
            Seen(c)' = Seen(c) /\ (queue[c] # {} => queue'[c] # {})
    BY <1>1, <1>4 DEF Seen, TypeOK
  <2> QED
    BY <1>3, <1>4, <2>1, <2>2, ShrinkKeepsNotFound
<1> QED
  BY <1>7, <1>8, <1>9, <1>10, <1>11, <1>12 DEF IInv
\* The caller being done with a row changes no cache.
LEMMA UseStep ==
    ASSUME IInv, NEW b \in Backends, Use(b)
    PROVE  IInv'
<1>1. /\ TypeOK /\ GenerationInv /\ MessageInv /\ NoDanglingPointer
      /\ CachedRowIsCurrent /\ OneEntryPerKey /\ NotFoundInv
  BY DEF IInv
<1>2. /\ pc[b] = "returned" /\ pc' = [pc EXCEPT ![b] = "idle"]
      /\ call' = [call EXCEPT ![b] = NoCall]
      /\ UNCHANGED <<committed, created, dropped, used, registered, queue, hash,
                     generation, last, next_slot, ops>>
  BY DEF Use, catalog, caches
<1>3. TypeOK'
  <2>1. pc' \in [Backends -> PCs] /\ call' \in [Backends -> CallType]
    BY <1>1, <1>2, PcFacts, NoCallType DEF TypeOK
  <2> QED
    BY <1>1, <1>2, <2>1 DEF TypeOK
<1>4. GenerationInv'
  BY <1>1, <1>2 DEF GenerationInv, Entry, TypeOK
<1>5. MessageInv'
  BY <1>1, <1>2 DEF MessageInv, TypeOK
<1>6. NoDanglingPointer' /\ OneEntryPerKey'
  BY <1>1, <1>2, SMTT(60) DEF NoDanglingPointer, OneEntryPerKey
<1>7. CachedRowIsCurrent'
  BY <1>1, <1>2 DEF CachedRowIsCurrent, OnItsWay, Seen, TypeOK
<1>8. NotFoundInv'
  BY <1>1, <1>2 DEF NotFoundInv, Seen, TypeOK
<1> QED
  BY <1>3, <1>4, <1>5, <1>6, <1>7, <1>8 DEF IInv

\* An action that shrinks the caches of b, leaves the arrays alone and leaves b
\* where it is, or idle, preserves the invariant if its changes of the catalog
\* and of the messages agree with what it removes.
LEMMA ShrinkStep ==
    ASSUME IInv, NEW b \in Backends, NEW M, Shrinks(b, M), pc[b] # "send",
           UNCHANGED <<last, next_slot>>,
           committed' \in SUBSET Rows, created' \in ChangeType,
           dropped' \in ChangeType, used' \in SUBSET Oids,
           registered' \in [Backends -> SUBSET Oids],
           queue' \in [Backends -> SUBSET (Oids \cup {Everything})],
           ops' \in Nat, MessageInv',
           \/ UNCHANGED <<pc, call>>
           \/ /\ pc' = [pc EXCEPT ![b] = "idle"]
              /\ call' = [call EXCEPT ![b] = NoCall],
           \A c \in Backends, r \in Rows :
               /\ r \in Seen(c) \/ OnItsWay(c, r)
               /\ c = b => r.oid \notin M /\ Everything \notin M
               => (r \in Seen(c) \/ OnItsWay(c, r))',
           \A c \in Backends : c # b \/ M = {} =>
               Seen(c)' = Seen(c) /\ (queue[c] # {} => queue'[c] # {})
    PROVE  IInv'
<1>1. /\ TypeOK /\ GenerationInv /\ MessageInv /\ NoDanglingPointer
      /\ CachedRowIsCurrent /\ OneEntryPerKey /\ NotFoundInv
  BY DEF IInv
<1>2. pc' \in [Backends -> PCs] /\ call' \in [Backends -> CallType]
  BY <1>1, PcFacts, NoCallType DEF TypeOK
<1>3. TypeOK'
  BY <1>1, <1>2 DEF TypeOK, Shrinks
<1>4. \A c \in Backends : /\ pc[c] = "send" => pc'[c] = "send"
                          /\ pc'[c] = "scan" => pc[c] = "scan" /\ call'[c] = call[c]
  BY <1>1 DEF TypeOK
<1>5. /\ NoDanglingPointer' /\ OneEntryPerKey'
      /\ \A c \in Backends, j \in Kinds, i \in Slots :
             last'[c][j][i].valid => last'[c][j][i].generation <= generation'[c]
      /\ \A c \in Backends, j \in Kinds, x \in Keys \cup {Null} :
             Entry(c, j, x) = {} => Entry(c, j, x)' = {}
      /\ \A c \in Backends : generation[c] <= generation'[c]
  BY ShrinkPreserves
<1>6. GenerationInv'
  <2> SUFFICES ASSUME NEW c \in Backends, pc'[c] = "scan"
               PROVE  (/\ call[c].generation <= generation[c]
                       /\ Entry(c, call[c].kind, call[c].key) = {})'
    BY <1>5 DEF GenerationInv
  <2>1. /\ pc[c] = "scan" /\ call'[c] = call[c] /\ call[c] \in CallType
        /\ generation[c] \in Nat /\ generation'[c] \in Nat
    BY <1>1, <1>3, <1>4 DEF TypeOK
  <2>2. call[c].generation <= generation[c] /\ Entry(c, call[c].kind, call[c].key) = {}
    BY <1>1, <2>1 DEF GenerationInv
  <2>3. Entry(c, call[c].kind, call[c].key)' = {}
    <3>1. PICK j \in Kinds, x \in Keys \cup {Null} : j = call[c].kind /\ x = call[c].key
      BY <2>1 DEF CallType
    <3>2. Entry(c, j, x)' = {}
      BY <1>5, <2>2, <3>1, Zenon
    <3> QED
      BY <2>1, <3>1, <3>2, Zenon DEF Entry
  <2> QED
    BY <1>5, <2>1, <2>2, <2>3 DEF CallType, Entry
<1>7. CachedRowIsCurrent'
  BY ShrinkKeepsCurrent
<1>8. NotFoundInv'
  BY <1>4, ShrinkKeepsNotFound
<1> QED
  BY <1>3, <1>5, <1>6, <1>7, <1>8 DEF IInv
\* insert_label, insert_graph: only the inserting backend sees the row, and it
\* has raised its generation.
LEMMA CreateStep ==
    ASSUME IInv, NEW b \in Backends, NEW n \in Names, NEW o \in Oids, Create(b, n, o)
    PROVE  IInv'
<1>1. TypeOK /\ MessageInv
  BY DEF IInv
<1> DEFINE row == [name |-> n, oid |-> o]
<1>2. row \in Rows /\ row.oid = o
  BY DEF Rows
<1>3. /\ pc[b] = "idle" /\ ops' = ops + 1 /\ used' = used \cup {o}
      /\ created' = [created EXCEPT ![b] = @ \cup {row}]
      /\ UNCHANGED <<committed, dropped, queue, last, next_slot, pc, call>>
  BY DEF Create, Op
<1> HIDE DEF row
<1>4. /\ Shrinks(b, {o})
      /\ registered' = [registered EXCEPT ![b] = @ \cup {o}]
  BY <1>1, RegistersShrinks DEF Create
<1>5. /\ committed' \in SUBSET Rows /\ created' \in ChangeType
      /\ dropped' \in ChangeType /\ used' \in SUBSET Oids
      /\ registered' \in [Backends -> SUBSET Oids]
      /\ queue' \in [Backends -> SUBSET (Oids \cup {Everything})] /\ ops' \in Nat
  BY <1>1, <1>2, <1>3, <1>4 DEF TypeOK, ChangeType
<1>6. MessageInv'
  BY <1>1, <1>2, <1>3, <1>4 DEF MessageInv, TypeOK, ChangeType
<1>7. \A c \in Backends, r \in Rows :
          /\ r \in Seen(c) \/ OnItsWay(c, r)
          /\ c = b => r.oid \notin {o} /\ Everything \notin {o}
          => (r \in Seen(c) \/ OnItsWay(c, r))'
  BY <1>1, <1>3, <1>4 DEF Seen, OnItsWay, TypeOK, ChangeType
<1>8. \A c \in Backends : c # b \/ {o} = {} =>
          Seen(c)' = Seen(c) /\ (queue[c] # {} => queue'[c] # {})
  BY <1>1, <1>3 DEF Seen, TypeOK, ChangeType
<1>9. /\ pc[b] # "send" /\ Shrinks(b, {o}) /\ UNCHANGED <<last, next_slot>>
      /\ UNCHANGED <<pc, call>>
  BY <1>3, <1>4
<1> QED
  BY <1>5, <1>6, <1>7, <1>8, <1>9, ShrinkStep

\* delete_label, delete_graph: the row leaves the deleting backend's caches, and
\* the others still see it.
LEMMA DropStep ==
    ASSUME IInv, NEW b \in Backends, NEW x \in Rows, Drop(b, x)
    PROVE  IInv'
<1>1. TypeOK /\ MessageInv /\ x.oid \in Oids
  BY DEF IInv, Rows
<1>2. /\ pc[b] = "idle" /\ ops' = ops + 1
      /\ created' = [created EXCEPT ![b] = @ \ {x}]
      /\ dropped' = [dropped EXCEPT ![b] = @ \cup ({x} \ created[b])]
      /\ UNCHANGED <<committed, used, queue, last, next_slot, pc, call>>
  BY DEF Drop, Op
<1>3. /\ Shrinks(b, {x.oid})
      /\ registered' = [registered EXCEPT ![b] = @ \cup {x.oid}]
  BY <1>1, RegistersShrinks DEF Drop
<1>4. /\ committed' \in SUBSET Rows /\ created' \in ChangeType
      /\ dropped' \in ChangeType /\ used' \in SUBSET Oids
      /\ registered' \in [Backends -> SUBSET Oids]
      /\ queue' \in [Backends -> SUBSET (Oids \cup {Everything})] /\ ops' \in Nat
  BY <1>1, <1>2, <1>3 DEF TypeOK, ChangeType
<1>5. MessageInv'
  BY <1>1, <1>2, <1>3 DEF MessageInv, TypeOK, ChangeType
<1>6. \A c \in Backends, r \in Rows :
          /\ r \in Seen(c) \/ OnItsWay(c, r)
          /\ c = b => r.oid \notin {x.oid} /\ Everything \notin {x.oid}
          => (r \in Seen(c) \/ OnItsWay(c, r))'
  BY <1>1, <1>2, <1>3 DEF Seen, OnItsWay, TypeOK, ChangeType
<1>7. \A c \in Backends : c # b \/ {x.oid} = {} =>
          Seen(c)' = Seen(c) /\ (queue[c] # {} => queue'[c] # {})
  BY <1>1, <1>2 DEF Seen, TypeOK, ChangeType
<1>8. /\ pc[b] # "send" /\ Shrinks(b, {x.oid}) /\ UNCHANGED <<last, next_slot>>
      /\ UNCHANGED <<pc, call>>
  BY <1>2, <1>3
<1> QED
  BY <1>4, <1>5, <1>6, <1>7, <1>8, ShrinkStep

\* rename_graph: both rows are of the same namespace, whose message is sent.
LEMMA RenameStep ==
    ASSUME IInv, NEW b \in Backends, NEW x \in Rows, NEW n \in Names, Rename(b, x, n)
    PROVE  IInv'
<1>1. TypeOK /\ MessageInv /\ x.oid \in Oids
  BY DEF IInv, Rows
<1> DEFINE y == [x EXCEPT !.name = n]
<1>2. y \in Rows /\ y.oid = x.oid
  BY DEF Rows
<1>3. /\ pc[b] = "idle" /\ ops' = ops + 1
      /\ created' = [created EXCEPT ![b] = (@ \ {x}) \cup ({y} \ dropped[b])]
      /\ dropped' = [dropped EXCEPT ![b] = (@ \ {y}) \cup ({x} \ created[b])]
      /\ UNCHANGED <<committed, used, queue, last, next_slot, pc, call>>
  BY DEF Rename, Op
<1> HIDE DEF y
<1>4. /\ Shrinks(b, {x.oid})
      /\ registered' = [registered EXCEPT ![b] = @ \cup {x.oid}]
  BY <1>1, RegistersShrinks DEF Rename
<1>5. /\ committed' \in SUBSET Rows /\ created' \in ChangeType
      /\ dropped' \in ChangeType /\ used' \in SUBSET Oids
      /\ registered' \in [Backends -> SUBSET Oids]
      /\ queue' \in [Backends -> SUBSET (Oids \cup {Everything})] /\ ops' \in Nat
  BY <1>1, <1>2, <1>3, <1>4 DEF TypeOK, ChangeType
<1>6. MessageInv'
  BY <1>1, <1>2, <1>3, <1>4 DEF MessageInv, TypeOK, ChangeType
<1>7. \A c \in Backends, r \in Rows :
          /\ r \in Seen(c) \/ OnItsWay(c, r)
          /\ c = b => r.oid \notin {x.oid} /\ Everything \notin {x.oid}
          => (r \in Seen(c) \/ OnItsWay(c, r))'
  BY <1>1, <1>2, <1>3, <1>4 DEF Seen, OnItsWay, TypeOK, ChangeType
<1>8. \A c \in Backends : c # b \/ {x.oid} = {} =>
          Seen(c)' = Seen(c) /\ (queue[c] # {} => queue'[c] # {})
  BY <1>1, <1>3 DEF Seen, TypeOK, ChangeType
<1>9. /\ pc[b] # "send" /\ Shrinks(b, {x.oid}) /\ UNCHANGED <<last, next_slot>>
      /\ UNCHANGED <<pc, call>>
  BY <1>3, <1>4
<1> QED
  BY <1>5, <1>6, <1>7, <1>8, <1>9, ShrinkStep

\* Other DDL changes no row.
LEMMA AlterStep ==
    ASSUME IInv, NEW b \in Backends, NEW x \in Rows, Alter(b, x)
    PROVE  IInv'
<1>1. TypeOK /\ MessageInv /\ x.oid \in Oids
  BY DEF IInv, Rows
<1>2. /\ pc[b] = "idle" /\ ops' = ops + 1
      /\ registered' = [registered EXCEPT ![b] = @ \cup {x.oid}]
      /\ UNCHANGED <<committed, created, dropped, used, queue, last, next_slot,
                     pc, call>>
  BY DEF Alter, Op
<1>3. Shrinks(b, {x.oid})
  BY <1>1, InvalidateShrinks DEF Alter, Messages
<1>4. /\ committed' \in SUBSET Rows /\ created' \in ChangeType
      /\ dropped' \in ChangeType /\ used' \in SUBSET Oids
      /\ registered' \in [Backends -> SUBSET Oids]
      /\ queue' \in [Backends -> SUBSET (Oids \cup {Everything})] /\ ops' \in Nat
  BY <1>1, <1>2 DEF TypeOK
<1>5. MessageInv'
  BY <1>1, <1>2 DEF MessageInv, TypeOK
<1>6. \A c \in Backends, r \in Rows :
          r \in Seen(c) \/ OnItsWay(c, r) => (r \in Seen(c) \/ OnItsWay(c, r))'
  BY <1>1, <1>2 DEF Seen, OnItsWay, TypeOK
<1>7. \A c \in Backends : Seen(c)' = Seen(c)
  BY <1>2 DEF Seen
<1> QED
  BY <1>2, <1>3, <1>4, <1>5, <1>6, <1>7, ShrinkStep

\* A rollback removes from the caches every row its transaction had changed.
LEMMA AbortStep ==
    ASSUME IInv, NEW b \in Backends, Abort(b)
    PROVE  IInv'
<1>1. TypeOK /\ MessageInv
  BY DEF IInv
<1>2. registered[b] \in SUBSET Oids /\ registered[b] \in SUBSET Messages
  BY <1>1 DEF TypeOK, Messages
<1>3. /\ pc[b] # "send" /\ registered[b] # {}
      /\ created' = [created EXCEPT ![b] = {}]
      /\ dropped' = [dropped EXCEPT ![b] = {}]
      /\ registered' = [registered EXCEPT ![b] = {}]
      /\ pc' = [pc EXCEPT ![b] = "idle"]
      /\ call' = [call EXCEPT ![b] = NoCall]
      /\ UNCHANGED <<committed, used, queue, last, next_slot, ops>>
  BY DEF Abort
<1>4. Shrinks(b, registered[b])
  BY <1>1, <1>2, InvalidateShrinks DEF Abort
<1>5. /\ committed' \in SUBSET Rows /\ created' \in ChangeType
      /\ dropped' \in ChangeType /\ used' \in SUBSET Oids
      /\ registered' \in [Backends -> SUBSET Oids]
      /\ queue' \in [Backends -> SUBSET (Oids \cup {Everything})] /\ ops' \in Nat
  BY <1>1, <1>3 DEF TypeOK, ChangeType
<1>6. MessageInv'
  BY <1>1, <1>3 DEF MessageInv, TypeOK, ChangeType
<1>7. \A c \in Backends, r \in Rows :
          /\ r \in Seen(c) \/ OnItsWay(c, r)
          /\ c = b => r.oid \notin registered[b] /\ Everything \notin registered[b]
          => (r \in Seen(c) \/ OnItsWay(c, r))'
  BY <1>1, <1>3 DEF MessageInv, Seen, OnItsWay, TypeOK, ChangeType
<1>8. \A c \in Backends : c # b \/ registered[b] = {} =>
          Seen(c)' = Seen(c) /\ (queue[c] # {} => queue'[c] # {})
  BY <1>1, <1>3 DEF Seen, TypeOK, ChangeType
<1>9. /\ pc[b] # "send" /\ Shrinks(b, registered[b]) /\ UNCHANGED <<last, next_slot>>
      /\ pc' = [pc EXCEPT ![b] = "idle"] /\ call' = [call EXCEPT ![b] = NoCall]
  BY <1>3, <1>4
<1> QED
  BY <1>5, <1>6, <1>7, <1>8, <1>9, ShrinkStep, Zenon

\* Receiving the pending messages changes nothing but the caches.
LEMMA ReceiveStep ==
    ASSUME IInv, NEW b \in Backends, Receive(b)
    PROVE  IInv'
<1>1. TypeOK /\ MessageInv
  BY DEF IInv
<1>2. queue[b] \in SUBSET Messages
  BY <1>1 DEF TypeOK, Messages
<1>3. /\ pc[b] = "idle" /\ queue[b] # {} /\ queue' = [queue EXCEPT ![b] = {}]
      /\ UNCHANGED <<committed, created, dropped, used, registered, last,
                     next_slot, pc, call, ops>>
  BY DEF Receive, catalog
<1>4. Shrinks(b, queue[b])
  BY <1>1, <1>2, InvalidateShrinks DEF Receive
<1>5. /\ committed' \in SUBSET Rows /\ created' \in ChangeType
      /\ dropped' \in ChangeType /\ used' \in SUBSET Oids
      /\ registered' \in [Backends -> SUBSET Oids]
      /\ queue' \in [Backends -> SUBSET (Oids \cup {Everything})] /\ ops' \in Nat
  BY <1>1, <1>3 DEF TypeOK
<1>6. MessageInv'
  BY <1>1, <1>3 DEF MessageInv
<1>7. \A c \in Backends, r \in Rows :
          /\ r \in Seen(c) \/ OnItsWay(c, r)
          /\ c = b => r.oid \notin queue[b] /\ Everything \notin queue[b]
          => (r \in Seen(c) \/ OnItsWay(c, r))'
  BY <1>1, <1>3 DEF Seen, OnItsWay, TypeOK
<1>8. \A c \in Backends : c # b =>
          Seen(c)' = Seen(c) /\ (queue[c] # {} => queue'[c] # {})
  BY <1>1, <1>3 DEF Seen, TypeOK
<1> QED
  BY <1>3, <1>4, <1>5, <1>6, <1>7, <1>8, ShrinkStep
\* A commit: a row it removes is in a message that is about to be sent, and the
\* rows it adds make no cached row wrong.
LEMMA CommitStep ==
    ASSUME IInv, NEW b \in Backends, Commit(b)
    PROVE  IInv'
<1>1. /\ TypeOK /\ GenerationInv /\ MessageInv /\ NoDanglingPointer
      /\ CachedRowIsCurrent /\ OneEntryPerKey /\ NotFoundInv
  BY DEF IInv
<1>2. /\ pc[b] = "idle" /\ registered[b] # {}
      /\ committed' = (committed \ dropped[b]) \cup created[b]
      /\ created' = [created EXCEPT ![b] = {}]
      /\ dropped' = [dropped EXCEPT ![b] = {}]
      /\ pc' = [pc EXCEPT ![b] = "send"]
      /\ UNCHANGED <<used, registered, queue, hash, generation, last, next_slot,
                     call, ops>>
  BY DEF Commit, Seen, caches
<1>3. TypeOK'
  <2>1. /\ committed' \in SUBSET Rows /\ created' \in ChangeType
        /\ dropped' \in ChangeType
    BY <1>1, <1>2 DEF TypeOK, ChangeType
  <2>2. pc' \in [Backends -> PCs]
    BY <1>1, <1>2, PcFacts DEF TypeOK
  <2> QED
    BY <1>1, <1>2, <2>1, <2>2 DEF TypeOK
<1>4. GenerationInv'
  BY <1>1, <1>2 DEF GenerationInv, Entry, TypeOK
<1>5. MessageInv'
  BY <1>1, <1>2 DEF MessageInv, TypeOK, ChangeType
<1>6. NoDanglingPointer' /\ OneEntryPerKey'
  BY <1>1, <1>2, SMTT(60) DEF NoDanglingPointer, OneEntryPerKey
<1>7. pc'[b] = "send" /\ \A c \in Backends : pc[c] = "send" => pc'[c] = "send"
  BY <1>1, <1>2 DEF TypeOK
<1>8. CachedRowIsCurrent'
  <2> SUFFICES ASSUME NEW c \in Backends, NEW k \in Kinds, NEW a \in Addrs,
                      hash[c][k][a] # Free
               PROVE  (hash[c][k][a] \in Seen(c) \/ OnItsWay(c, hash[c][k][a]))'
    BY <1>2 DEF CachedRowIsCurrent
  <2>1. hash[c][k][a] \in Seen(c) \/ OnItsWay(c, hash[c][k][a])
    BY <1>1 DEF CachedRowIsCurrent
  <2>2. CASE OnItsWay(c, hash[c][k][a])
    BY <1>2, <1>7, <2>2 DEF OnItsWay
  <2>3. CASE hash[c][k][a] \in Seen(c) /\ hash[c][k][a] \in dropped[b]
    BY <1>1, <1>2, <1>7, <2>3 DEF OnItsWay, MessageInv
  <2>4. CASE hash[c][k][a] \in Seen(c) /\ hash[c][k][a] \notin dropped[b]
    BY <1>1, <1>2, <2>4 DEF Seen, TypeOK, ChangeType
  <2> QED
    BY <2>1, <2>2, <2>3, <2>4
<1>9. NotFoundInv'
  BY <1>7 DEF NotFoundInv
<1> QED
  BY <1>3, <1>4, <1>5, <1>6, <1>8, <1>9 DEF IInv

\* Sending: what was about to be sent is in every queue.
LEMMA SendStep ==
    ASSUME IInv, NEW b \in Backends, Send(b)
    PROVE  IInv'
<1>1. /\ TypeOK /\ GenerationInv /\ MessageInv /\ NoDanglingPointer
      /\ CachedRowIsCurrent /\ OneEntryPerKey /\ NotFoundInv
  BY DEF IInv
<1>2. /\ pc[b] = "send" /\ pc' = [pc EXCEPT ![b] = "idle"]
      /\ queue' = [c \in Backends |-> queue[c] \cup registered[b]]
      /\ registered' = [registered EXCEPT ![b] = {}]
      /\ UNCHANGED <<committed, created, dropped, used, hash, generation, last,
                     next_slot, call, ops>>
  BY DEF Send, caches
<1>3. TypeOK'
  <2>1. /\ queue' \in [Backends -> SUBSET (Oids \cup {Everything})]
        /\ registered' \in [Backends -> SUBSET Oids]
    BY <1>1, <1>2 DEF TypeOK
  <2>2. pc' \in [Backends -> PCs]
    BY <1>1, <1>2, PcFacts DEF TypeOK
  <2> QED
    BY <1>1, <1>2, <2>1, <2>2 DEF TypeOK
<1>4. GenerationInv'
  BY <1>1, <1>2 DEF GenerationInv, Entry, TypeOK
<1>5. MessageInv'
  BY <1>1, <1>2 DEF MessageInv, TypeOK
<1>6. NoDanglingPointer' /\ OneEntryPerKey'
  BY <1>1, <1>2, SMTT(60) DEF NoDanglingPointer, OneEntryPerKey
<1>7. CachedRowIsCurrent'
  BY <1>1, <1>2 DEF CachedRowIsCurrent, OnItsWay, Seen, TypeOK
<1>8. NotFoundInv'
  <2>1. \A c \in Backends : queue'[c] # {}
    BY <1>1, <1>2 DEF MessageInv, TypeOK
  <2> QED
    BY <2>1 DEF NotFoundInv
<1> QED
  BY <1>3, <1>4, <1>5, <1>6, <1>7, <1>8 DEF IInv

\* One message in the place of all removes whatever they would have removed.
LEMMA OverflowStep ==
    ASSUME IInv, NEW b \in Backends, Overflow(b)
    PROVE  IInv'
<1>1. /\ TypeOK /\ GenerationInv /\ MessageInv /\ NoDanglingPointer
      /\ CachedRowIsCurrent /\ OneEntryPerKey /\ NotFoundInv
  BY DEF IInv
<1>2. /\ queue' = [queue EXCEPT ![b] = {Everything}]
      /\ UNCHANGED <<committed, created, dropped, used, registered, hash,
                     generation, last, next_slot, pc, call, ops>>
  BY DEF Overflow, catalog, caches
<1>3. TypeOK'
  <2>1. queue' \in [Backends -> SUBSET (Oids \cup {Everything})]
    BY <1>1, <1>2 DEF TypeOK
  <2> QED
    BY <1>1, <1>2, <2>1 DEF TypeOK
<1>4. GenerationInv' /\ MessageInv'
  BY <1>1, <1>2 DEF GenerationInv, MessageInv, Entry
<1>5. NoDanglingPointer' /\ OneEntryPerKey'
  BY <1>1, <1>2, SMTT(60) DEF NoDanglingPointer, OneEntryPerKey
<1>6. CachedRowIsCurrent'
  BY <1>1, <1>2 DEF CachedRowIsCurrent, OnItsWay, Seen, TypeOK
<1>7. NotFoundInv'
  BY <1>1, <1>2, ZenonT(60) DEF NotFoundInv, Seen, TypeOK
<1> QED
  BY <1>3, <1>4, <1>5, <1>6, <1>7 DEF IInv

\* The first case of Scan: row x is found and entered at addresses at.
Found(b, x, at) ==
    /\ pc[b] = "scan"
    /\ x \in Seen(b)
    /\ at \in [Kinds -> Addrs]
    /\ KeyOf(call[b].kind, x) = call[b].key
    /\ \A j \in Kinds : hash[b][j][at[j]] = Free
    /\ hash' = [hash EXCEPT ![b] = Entered(b, x, at)]
    /\ Fill(b, call[b].kind, call[b].key, call[b].generation, at[call[b].kind])
    /\ Returns(b, call[b].kind, call[b].key, call[b].generation, at[call[b].kind])
    /\ UNCHANGED <<committed, created, dropped, used, registered, queue,
                   generation, ops>>

\* What a scan that finds row x puts into b's hash tables: x, at addresses that
\* were free and only where its key was missing.
LEMMA EnteredFacts ==
    ASSUME TypeOK, NEW b \in Backends, NEW x \in Rows, NEW at, Found(b, x, at)
    PROVE  /\ hash' \in HashType
           /\ \A c \in Backends : c # b => hash'[c] = hash[c]
           /\ \A j \in Kinds, a \in Addrs :
                  \/ hash'[b][j][a] = hash[b][j][a]
                  \/ /\ a = at[j] /\ hash[b][j][a] = Free /\ hash'[b][j][a] = x
                     /\ Entry(b, j, KeyOf(j, x)) = {}
           /\ \A j \in Kinds : Entry(b, j, KeyOf(j, x)) = {} =>
                  hash'[b][j][at[j]] = x
<1>1. /\ hash \in HashType /\ at \in [Kinds -> Addrs]
      /\ \A j \in Kinds : hash[b][j][at[j]] = Free
      /\ hash' = [hash EXCEPT ![b] = Entered(b, x, at)]
  BY DEF TypeOK, Found
<1>2. \A j \in Kinds : Entered(b, x, at)[j] =
          IF Entry(b, j, KeyOf(j, x)) # {} THEN hash[b][j]
          ELSE [hash[b][j] EXCEPT ![at[j]] = x]
  BY DEF Entered
<1>3. Entered(b, x, at) \in [Kinds -> [Addrs -> Rows \cup {Free}]]
  BY <1>1 DEF Entered, HashType
<1>4. hash' \in HashType /\ hash'[b] = Entered(b, x, at)
  BY <1>1, <1>3 DEF HashType
<1>5. \A c \in Backends : c # b => hash'[c] = hash[c]
  BY <1>1 DEF HashType
<1>6. \A j \in Kinds, a \in Addrs :
          \/ hash'[b][j][a] = hash[b][j][a]
          \/ /\ a = at[j] /\ hash[b][j][a] = Free /\ hash'[b][j][a] = x
             /\ Entry(b, j, KeyOf(j, x)) = {}
  <2> SUFFICES ASSUME NEW j \in Kinds, NEW a \in Addrs, Entry(b, j, KeyOf(j, x)) = {}
               PROVE  \/ hash'[b][j][a] = hash[b][j][a]
                      \/ a = at[j] /\ hash[b][j][a] = Free /\ hash'[b][j][a] = x
    BY <1>2, <1>4
  <2>1. hash[b][j] \in [Addrs -> Rows \cup {Free}]
    BY <1>1 DEF HashType
  <2>2. hash'[b][j] = [hash[b][j] EXCEPT ![at[j]] = x]
    BY <1>2, <1>4
  <2>3. at[j] \in Addrs /\ hash[b][j][at[j]] = Free
    BY <1>1
  <2> QED
    BY <2>1, <2>2, <2>3
<1>7. \A j \in Kinds : Entry(b, j, KeyOf(j, x)) = {} => hash'[b][j][at[j]] = x
  BY <1>1, <1>2, <1>4 DEF HashType
<1> QED
  BY <1>4, <1>5, <1>6, <1>7

\* A scan that finds a row: the row is visible, its entries are at addresses no
\* current slot points to, and the new slot points to one of them.
LEMMA FoundStep ==
    ASSUME IInv, NEW b \in Backends, NEW x \in Rows, NEW at, Found(b, x, at)
    PROVE  IInv'
<1>1. /\ TypeOK /\ GenerationInv /\ MessageInv /\ NoDanglingPointer
      /\ CachedRowIsCurrent /\ OneEntryPerKey /\ NotFoundInv
  BY DEF IInv
<1> DEFINE k == call[b].kind
           key == call[b].key
           g == call[b].generation
<1>2. /\ k \in Kinds /\ key \in Keys \cup {Null} /\ g \in Nat
      /\ at[k] \in Addrs /\ at[k] # Null /\ x \in Seen(b)
      /\ g <= generation[b] /\ Entry(b, k, key) = {} /\ KeyOf(k, x) = key
      /\ Fill(b, k, key, g, at[k]) /\ Returns(b, k, key, g, at[k])
  <2>1. call[b] \in CallType
    BY <1>1 DEF TypeOK
  <2> QED
    BY <1>1, <2>1, NullAssumption, Zenon DEF CallType, GenerationInv, Found
<1> HIDE DEF k, key, g
<1>3. /\ hash' \in HashType
      /\ \A c \in Backends : c # b => hash'[c] = hash[c]
      /\ \A j \in Kinds, a \in Addrs :
             \/ hash'[b][j][a] = hash[b][j][a]
             \/ /\ a = at[j] /\ hash[b][j][a] = Free /\ hash'[b][j][a] = x
                /\ Entry(b, j, KeyOf(j, x)) = {}
      /\ \A j \in Kinds : Entry(b, j, KeyOf(j, x)) = {} => hash'[b][j][at[j]] = x
  BY <1>1, EnteredFacts
<1>4. /\ last' \in LastType
      /\ next_slot' \in NextSlotType
      /\ \A c \in Backends, j \in Kinds, i \in Slots :
             \/ last'[c][j][i] = last[c][j][i]
             \/ /\ c = b /\ j = k
                /\ last'[c][j][i].valid /\ last'[c][j][i].key = key
                /\ last'[c][j][i].generation = g /\ last'[c][j][i].ptr = at[k]
  BY <1>1, <1>2, FillFacts
<1>5. /\ pc[b] = "scan" /\ pc' = [pc EXCEPT ![b] = "returned"]
      /\ call' = [call EXCEPT ![b] =
             [kind |-> k, key |-> key, generation |-> g, ptr |-> at[k]]]
      /\ UNCHANGED <<committed, created, dropped, used, registered, queue,
                     generation, ops>>
  BY <1>2 DEF Returns, Found
<1>6. \A c \in Backends : /\ pc[c] = "send" <=> pc'[c] = "send"
                          /\ pc'[c] = "scan" => /\ c # b /\ pc[c] = "scan"
                                                /\ call'[c] = call[c]
  BY <1>1, <1>5 DEF TypeOK
<1>7. call' \in [Backends -> CallType]
  BY <1>1, <1>2, <1>5 DEF TypeOK, CallType
<1>8. hash'[b][k][at[k]] = x
  BY <1>2, <1>3
<1>9. x # Free
  BY FreeAssumption
<1>10. TypeOK'
  <2>1. pc' \in [Backends -> PCs]
    BY <1>1, <1>5, PcFacts DEF TypeOK
  <2> QED
    BY <1>1, <1>3, <1>4, <1>5, <1>7, <2>1 DEF TypeOK
<1>11. GenerationInv'
  <2>1. \A c \in Backends, j \in Kinds, i \in Slots :
            last'[c][j][i].valid => last'[c][j][i].generation <= generation'[c]
    BY <1>1, <1>2, <1>4, <1>5 DEF GenerationInv
  <2> SUFFICES ASSUME NEW c \in Backends, pc'[c] = "scan"
               PROVE  (/\ call[c].generation <= generation[c]
                       /\ Entry(c, call[c].kind, call[c].key) = {})'
    BY <2>1 DEF GenerationInv
  <2>2. /\ pc[c] = "scan" /\ call'[c] = call[c] /\ hash'[c] = hash[c]
    BY <1>3, <1>6
  <2> QED
    BY <1>1, <1>5, <2>2 DEF GenerationInv, Entry
<1>12. MessageInv'
  BY <1>1, <1>5, <1>6 DEF MessageInv
<1>13. NoDanglingPointer'
  <2> SUFFICES ASSUME NEW c \in Backends, NEW j \in Kinds, NEW i \in Slots,
                      last'[c][j][i].valid,
                      last'[c][j][i].generation = generation[c],
                      last'[c][j][i].ptr # Null
               PROVE  /\ hash'[c][j][last'[c][j][i].ptr] # Free
                      /\ KeyOf(j, hash'[c][j][last'[c][j][i].ptr]) = last'[c][j][i].key
    BY <1>5, Zenon DEF NoDanglingPointer
  <2>1. CASE last'[c][j][i] = last[c][j][i]
    <3>1. last[c][j][i].ptr \in Addrs
      BY <1>1, <2>1 DEF TypeOK, LastType, SlotType
    <3>2. /\ hash[c][j][last[c][j][i].ptr] # Free
          /\ KeyOf(j, hash[c][j][last[c][j][i].ptr]) = last[c][j][i].key
      BY <1>1, <2>1, SMTT(60) DEF NoDanglingPointer
    <3>3. hash'[c][j][last[c][j][i].ptr] = hash[c][j][last[c][j][i].ptr]
      BY <1>3, <3>1, <3>2
    <3> QED
      BY <2>1, <3>2, <3>3
  <2>2. CASE /\ c = b /\ j = k /\ last'[c][j][i].key = key
             /\ last'[c][j][i].ptr = at[k]
    BY <1>2, <1>8, <1>9, <2>2
  <2> QED
    BY <1>4, <2>1, <2>2
<1>14. OneEntryPerKey'
  <2> SUFFICES ASSUME NEW c \in Backends, NEW j \in Kinds, NEW a1 \in Addrs,
                      NEW a2 \in Addrs, a1 # a2,
                      hash'[c][j][a1] # Free, hash'[c][j][a2] # Free
               PROVE  KeyOf(j, hash'[c][j][a1]) # KeyOf(j, hash'[c][j][a2])
    BY DEF OneEntryPerKey
  <2>1. CASE hash'[c][j][a1] = hash[c][j][a1] /\ hash'[c][j][a2] = hash[c][j][a2]
    BY <1>1, <2>1 DEF OneEntryPerKey
  <2>2. CASE c = b /\ hash'[c][j][a1] # hash[c][j][a1]
    BY <1>3, <2>2 DEF Entry
  <2>3. CASE c = b /\ hash'[c][j][a2] # hash[c][j][a2]
    BY <1>3, <2>3 DEF Entry
  <2> QED
    BY <1>3, <2>1, <2>2, <2>3
<1>15. CachedRowIsCurrent'
  <2> SUFFICES ASSUME NEW c \in Backends, NEW j \in Kinds, NEW a \in Addrs,
                      hash'[c][j][a] # Free
               PROVE  (hash[c][j][a] \in Seen(c) \/ OnItsWay(c, hash[c][j][a]))'
    BY DEF CachedRowIsCurrent
  <2>1. CASE hash'[c][j][a] = hash[c][j][a]
    BY <1>1, <1>5, <1>6, <2>1 DEF CachedRowIsCurrent, Seen, OnItsWay
  <2>2. CASE c = b /\ hash'[c][j][a] = x
    BY <1>2, <1>5, <2>2 DEF Seen
  <2> QED
    BY <1>3, <2>1, <2>2
<1>16. NotFoundInv'
  BY <1>1, <1>2, <1>4, <1>5, <1>6 DEF NotFoundInv, Seen
<1> QED
  BY <1>10, <1>11, <1>12, <1>13, <1>14, <1>15, <1>16 DEF IInv
\* The second case of Scan: no visible row has the key.
NotFound(b) ==
    /\ pc[b] = "scan"
    /\ \A r \in Seen(b) : KeyOf(call[b].kind, r) # call[b].key
    /\ Fill(b, call[b].kind, call[b].key, call[b].generation, Null)
    /\ Returns(b, call[b].kind, call[b].key, call[b].generation, Null)
    /\ UNCHANGED <<committed, created, dropped, used, registered, queue, hash,
                   generation, ops>>

\* A scan that finds nothing remembers that, and it is true of what b sees.
LEMMA NotFoundStep ==
    ASSUME IInv, NEW b \in Backends, NotFound(b)
    PROVE  IInv'
<1>1. /\ TypeOK /\ GenerationInv /\ MessageInv /\ NoDanglingPointer
      /\ CachedRowIsCurrent /\ OneEntryPerKey /\ NotFoundInv
  BY DEF IInv
<1> DEFINE k == call[b].kind
           key == call[b].key
           g == call[b].generation
<1>2. /\ k \in Kinds /\ key \in Keys \cup {Null} /\ g \in Nat /\ g <= generation[b]
      /\ Fill(b, k, key, g, Null) /\ Returns(b, k, key, g, Null)
      /\ \A r \in Seen(b) : KeyOf(k, r) # key
  <2>1. call[b] \in CallType
    BY <1>1 DEF TypeOK
  <2> QED
    BY <1>1, <2>1 DEF CallType, GenerationInv, NotFound
<1> HIDE DEF k, key, g
<1>3. /\ last' \in LastType
      /\ next_slot' \in NextSlotType
      /\ \A c \in Backends, j \in Kinds, i \in Slots :
             \/ last'[c][j][i] = last[c][j][i]
             \/ /\ c = b /\ j = k
                /\ last'[c][j][i].valid /\ last'[c][j][i].key = key
                /\ last'[c][j][i].generation = g /\ last'[c][j][i].ptr = Null
  BY <1>1, <1>2, FillFacts
<1>4. /\ pc[b] = "scan" /\ pc' = [pc EXCEPT ![b] = "returned"]
      /\ call' = [call EXCEPT ![b] =
             [kind |-> k, key |-> key, generation |-> g, ptr |-> Null]]
      /\ UNCHANGED <<committed, created, dropped, used, registered, queue, hash,
                     generation, ops>>
  BY <1>2 DEF Returns, NotFound
<1>5. \A c \in Backends : /\ pc[c] = "send" <=> pc'[c] = "send"
                          /\ pc'[c] = "scan" => pc[c] = "scan" /\ call'[c] = call[c]
  BY <1>1, <1>4 DEF TypeOK
<1>6. call' \in [Backends -> CallType]
  BY <1>1, <1>2, <1>4 DEF TypeOK, CallType
<1>7. TypeOK'
  <2>1. pc' \in [Backends -> PCs]
    BY <1>1, <1>4, PcFacts DEF TypeOK
  <2> QED
    BY <1>1, <1>3, <1>4, <1>6, <2>1 DEF TypeOK
<1>8. GenerationInv'
  <2>1. \A c \in Backends, j \in Kinds, i \in Slots :
            last'[c][j][i].valid => last'[c][j][i].generation <= generation'[c]
    BY <1>1, <1>2, <1>3, <1>4 DEF GenerationInv
  <2> QED
    BY <1>1, <1>4, <1>5, <2>1 DEF GenerationInv, Entry
<1>9. MessageInv'
  BY <1>1, <1>4, <1>5 DEF MessageInv
<1>10. NoDanglingPointer'
  <2> SUFFICES ASSUME NEW c \in Backends, NEW j \in Kinds, NEW i \in Slots,
                      last'[c][j][i].valid, last'[c][j][i].generation = generation'[c],
                      last'[c][j][i].ptr # Null
               PROVE  /\ hash'[c][j][last'[c][j][i].ptr] # Free
                      /\ KeyOf(j, hash'[c][j][last'[c][j][i].ptr]) = last'[c][j][i].key
    BY Zenon DEF NoDanglingPointer
  <2>1. /\ last[c][j][i].valid /\ last[c][j][i].generation = generation[c] /\ last[c][j][i].ptr # Null
        => /\ hash[c][j][last[c][j][i].ptr] # Free
           /\ KeyOf(j, hash[c][j][last[c][j][i].ptr]) = last[c][j][i].key
    BY <1>1, Zenon DEF NoDanglingPointer
  <2>2. hash' = hash /\ generation' = generation
    BY <1>4
  <2> QED
    BY <1>3, <2>1, <2>2, Zenon
<1>11. OneEntryPerKey'
  BY <1>1, <1>4 DEF OneEntryPerKey
<1>12. CachedRowIsCurrent'
  BY <1>1, <1>4, <1>5 DEF CachedRowIsCurrent, OnItsWay, Seen
<1>13. NotFoundInv'
  BY <1>1, <1>2, <1>3, <1>4, <1>5 DEF NotFoundInv, Seen
<1> QED
  BY <1>7, <1>8, <1>9, <1>10, <1>11, <1>12, <1>13 DEF IInv

\* The scan of the catalog: one of the two.
LEMMA ScanStep ==
    ASSUME IInv, NEW b \in Backends, Scan(b)
    PROVE  IInv'
<1>1. TypeOK
  BY DEF IInv
<1>2. \/ \E x \in Seen(b), at \in [Kinds -> Addrs] : Found(b, x, at)
      \/ NotFound(b)
  BY DEF Scan, Found, NotFound, catalog
<1>3. Seen(b) \subseteq Rows
  BY <1>1 DEF Seen, TypeOK, ChangeType
<1> QED
  BY <1>2, <1>3, FoundStep, NotFoundStep

\* The caches are empty when a backend starts.
LEMMA InitIInv == Init => IInv
<1> SUFFICES ASSUME Init PROVE IInv
  OBVIOUS
<1>1. TypeOK
  <2>1. last \in LastType /\ call \in [Backends -> CallType]
    BY NoCallType DEF Init, LastType, SlotType, NoSlot
  <2>2. hash \in HashType /\ generation \in [Backends -> Nat] /\ ops \in Nat
    BY DEF Init, HashType
  <2>3. next_slot \in NextSlotType
    BY SizeAssumption DEF Init, NextSlotType, Slots
  <2>4. /\ committed \in SUBSET Rows /\ used \in SUBSET Oids
        /\ created \in ChangeType /\ dropped \in ChangeType
    BY DEF Init, ChangeType, Rows
  <2>5. /\ registered \in [Backends -> SUBSET Oids]
        /\ queue \in [Backends -> SUBSET (Oids \cup {Everything})]
        /\ pc \in [Backends -> PCs]
    BY PcFacts DEF Init
  <2> QED
    BY <2>1, <2>2, <2>3, <2>4, <2>5 DEF TypeOK
<1>2. GenerationInv /\ MessageInv
  BY DEF Init, GenerationInv, MessageInv, NoSlot
<1>3. NoDanglingPointer /\ NotFoundInv
  BY DEF Init, NoDanglingPointer, NotFoundInv, NoSlot
<1>4. CachedRowIsCurrent /\ OneEntryPerKey
  BY DEF Init, CachedRowIsCurrent, OneEntryPerKey
<1> QED
  BY <1>1, <1>2, <1>3, <1>4 DEF IInv

\* A step that changes no variable.
LEMMA StutterStep ==
    ASSUME IInv, UNCHANGED vars
    PROVE  IInv'
<1>1. /\ UNCHANGED <<committed, created, dropped, used, registered, queue>>
      /\ UNCHANGED <<hash, generation, last, next_slot, pc, call, ops>>
  BY DEF vars, catalog, caches
<1>2. TypeOK'
  <2>1. TypeOK
    BY DEF IInv
  <2> QED
    BY <1>1, <2>1, ZenonT(60) DEF TypeOK
<1>3. GenerationInv'
  BY <1>1, Zenon DEF IInv, GenerationInv, Entry
<1>4. MessageInv'
  BY <1>1, Zenon DEF IInv, MessageInv
<1>5. NoDanglingPointer' /\ OneEntryPerKey'
  BY <1>1, ZenonT(60) DEF IInv, NoDanglingPointer, OneEntryPerKey
<1>6. CachedRowIsCurrent'
  BY <1>1, Zenon DEF IInv, CachedRowIsCurrent, Seen, OnItsWay
<1>7. NotFoundInv'
  BY <1>1, Zenon DEF IInv, NotFoundInv, Seen
<1> QED
  BY <1>2, <1>3, <1>4, <1>5, <1>6, <1>7 DEF IInv

\* Every step, of any backend, keeps the invariant.
LEMMA InvarianceStep == IInv /\ [Next]_vars => IInv'
<1> SUFFICES ASSUME IInv, [Next]_vars PROVE IInv'
  OBVIOUS
<1>1. CASE UNCHANGED vars
  BY <1>1, StutterStep
<1>2. CASE Quiesce
  BY <1>2, StutterStep DEF Quiesce
<1>3. ASSUME NEW b \in Backends, Step(b) PROVE IInv'
  <2>1. CASE \E k \in Kinds : \E key \in KeysOf(k) :
                 LastHit(b, k, key) \/ HashHit(b, k, key) \/ Miss(b, k, key)
    BY <2>1, LastHitStep, HashHitStep, MissStep
  <2>2. CASE Scan(b) \/ Use(b)
    BY <2>2, ScanStep, UseStep
  <2>3. CASE \E n \in Names, o \in Oids : Create(b, n, o)
    BY <2>3, CreateStep
  <2>4. CASE \E r \in Rows : Drop(b, r) \/ Alter(b, r)
    BY <2>4, DropStep, AlterStep
  <2>5. CASE \E r \in Rows, n \in Names : Rename(b, r, n)
    BY <2>5, RenameStep
  <2>6. CASE Commit(b) \/ Send(b) \/ Abort(b) \/ Receive(b) \/ Overflow(b)
    BY <2>6, CommitStep, SendStep, AbortStep, ReceiveStep, OverflowStep
  <2> QED
    BY <1>3, <2>1, <2>2, <2>3, <2>4, <2>5, <2>6 DEF Step
<1> QED
  BY <1>1, <1>2, <1>3 DEF Next

\* The conjunction IInv of the invariants below with what they need to be
\* inductive holds in every state of ag_cache.c's caches.
THEOREM Invariance == Spec => []IInv
BY InitIInv, InvarianceStep, PTL DEF Spec

\* Every variable of the caches keeps its type: the arrays are never indexed
\* past LAST_LABEL_CACHE_SIZE or LAST_GRAPH_CACHE_SIZE.
THEOREM TypeCorrectness == Spec => []TypeOK
BY Invariance, PTL DEF IInv

\* A pointer the arrays hand out under the current generation is to a live entry
\* with the key that was asked for, for any number of backends, keys and slots:
\* search_label_*_cached and search_graph_*_cached never read freed memory.
THEOREM PointersAreLive == Spec => []NoDanglingPointer
BY Invariance, PTL DEF IInv

\* A row in a hash table is visible to its backend, or the message that removes
\* it is on its way: the caches are as coherent as PostgreSQL's own.
THEOREM CacheCoherence == Spec => []CachedRowIsCurrent
BY Invariance, PTL DEF IInv

\* cache_label_data_in_all_caches and cache_graph_data_in_all_caches keep at most
\* one entry per key.
THEOREM UniqueEntries == Spec => []OneEntryPerKey
BY Invariance, PTL DEF IInv

\* In the graph caches, which raise the generation with every message, a name or
\* OID remembered as missing is missing once the messages have been received.
THEOREM MissingIsMissing == (FlushAll /\ Spec) => []NotFoundIsTrue
<1>1. FlushAll /\ IInv => NotFoundIsTrue
  BY DEF IInv, NotFoundInv, NotFoundIsTrue
<1>2. CASE FlushAll
  <2>1. IInv => NotFoundIsTrue
    BY <1>1, <1>2
  <2> QED
    BY <2>1, Invariance, PTL
<1>3. CASE ~FlushAll
  BY <1>3
<1> QED
  BY <1>2, <1>3

------------------------------------------------------------------------------
\* While the behaviour is one of the graph caches, the inductive invariant of
\* ag_cache.c's caches holds; the label caches keep kind as it is.
LEMMA GraphInvariance == MCSpec => [](kind = "graph" => IInv)
<1> DEFINE GraphInv == kind = "graph" => IInv
<1>1. MCInit => GraphInv
  BY InitIInv DEF MCInit
<1>2. GraphInv /\ [MCNext]_<<vars, kind>> => GraphInv'
  <2> SUFFICES ASSUME GraphInv, [MCNext]_<<vars, kind>>, kind' = "graph"
               PROVE  IInv'
    OBVIOUS
  <2>1. kind = "graph" /\ [Next]_vars
    BY DEF MCNext
  <2> HIDE DEF GraphInv
  <2>2. IInv
    BY <2>1 DEF GraphInv
  <2> QED
    BY <2>1, <2>2, InvarianceStep
<1> QED
  BY <1>1, <1>2, PTL DEF MCSpec

\* The graph caches, which raise the generation with every message, for any
\* backends, names, OIDs, addresses and array sizes: a graph that
\* search_graph_name_cache_cached or its sibling remembers as missing is missing in
\* the catalog, once the messages for it have been received.
THEOREM GraphNotFoundIsTrueAlways == (FlushAll /\ MCSpec) => []GraphNotFoundIsTrue
<1>1. FlushAll /\ (kind = "graph" => IInv) => GraphNotFoundIsTrue
  BY DEF GraphNotFoundIsTrue, NotFoundIsTrue, IInv, NotFoundInv
<1>2. CASE FlushAll
  <2>1. (kind = "graph" => IInv) => GraphNotFoundIsTrue
    BY <1>1, <1>2
  <2> QED
    BY <2>1, GraphInvariance, PTL
<1>3. CASE ~FlushAll
  BY <1>3
<1> QED
  BY <1>2, <1>3
=============================================================================
