----------------------------- MODULE CatalogCache -----------------------------
(***************************************************************************)
(* The per-backend caches of the catalogs ag_label and ag_graph that        *)
(* ag_cache.c keeps.  For each key of the catalog there is a hash table of   *)
(* rows and, in front of it, an array of the last lookups: the key, the      *)
(* generation it was made under and a pointer into the hash table, or NULL   *)
(* for a key that was not found.  A slot of the array is used while its      *)
(* generation is the current one.                                           *)
(*                                                                         *)
(* A row here is [name, oid]: oid is ag_label.relation or ag_graph.namespace.*)
(* The hash tables on (graph, id) and (seq_name, graph) have the code, and   *)
(* their keys the role, of those on relation and (name, graph).             *)
(*                                                                         *)
(* PostgreSQL invalidates by messages about a relation (for labels) or a    *)
(* namespace (for graphs), sent after a commit is visible, received when a   *)
(* backend opens a table or starts a statement.                            *)
(***************************************************************************)
EXTENDS Integers, FiniteSets

CONSTANTS
    Backends,
    Names,
    Oids,        \* OIDs that can be given to new relations or namespaces
    Addrs,       \* addresses of the entries of a hash table
    LastSize,    \* LAST_LABEL_CACHE_SIZE, LAST_GRAPH_CACHE_SIZE
    FlushAll,    \* FALSE: the label caches; TRUE: the graph caches
    Everything,  \* the message that stands for all relations (InvalidOid)
    Free,        \* an address that holds no entry
    Null,        \* the pointer of a key that was not found
    MaxOps       \* bound: lookups and catalog changes in one behaviour

ASSUME FlushAssumption == FlushAll \in BOOLEAN
ASSUME SizeAssumption == LastSize \in Nat /\ LastSize > 0
ASSUME BoundAssumption == MaxOps \in Nat
ASSUME NullAssumption == Null \notin Addrs
ASSUME MessageAssumption == Everything \notin Oids

Kinds == {"name", "oid"}
Rows == [name : Names, oid : Oids]
ASSUME FreeAssumption == Free \notin Rows

Slots == 0 .. LastSize - 1
KeyOf(k, r) == IF k = "name" THEN r.name ELSE r.oid
KeysOf(k) == IF k = "name" THEN Names ELSE Oids
Keys == Names \cup Oids

VARIABLES
    committed,   \* the rows of the catalog that are committed
    created,     \* the rows each backend's transaction adds to the catalog
    dropped,     \* the committed rows it removes
    used,        \* OIDs given out so far
    registered,  \* messages its transaction sends when it commits
    queue,       \* messages each backend has still to receive
    hash,        \* hash[b][k][a]: the entry of b's hash table on k at address a
    generation,  \* label_cache_generation, graph_cache_generation
    last,        \* last[b][k]: the arrays cached_names, cached_generations, ...
    next_slot,   \* next_slot[b][k]
    pc,          \* what each backend is doing
    call,        \* the lookup it is in: kind, key, generation, result
    ops          \* lookups and catalog changes so far (bounded)

catalog == <<committed, created, dropped, used, registered>>
caches == <<hash, generation, last, next_slot>>
vars == <<committed, created, dropped, used, registered, queue, hash,
          generation, last, next_slot, pc, call, ops>>

\* What a scan of the catalog shows: it takes a snapshot of its own.
Seen(b) == (committed \ dropped[b]) \cup created[b]

-----------------------------------------------------------------------------
(* Invalidation.                                                             *)

\* Mutant: only the hash table on the relation is searched for the OID.
Hit_OidOnly(b, M, k, a) ==
    /\ hash[b][k][a] # Free
    /\ k = "oid"
    /\ FlushAll \/ Everything \in M \/ hash[b][k][a].oid \in M

\* The entries that messages M make b remove.  A relation has one row at a time
\* in ag_label, so the first match is the only one in a hash table.
Hit(b, M, k, a) ==
    /\ hash[b][k][a] # Free
    /\ FlushAll \/ Everything \in M \/ hash[b][k][a].oid \in M

\* Mutant: entries are removed under the same generation.
Invalidate_NoBump(b, M) ==
    /\ hash' = [hash EXCEPT ![b] =
           [k \in Kinds |-> [a \in Addrs |->
               IF M # {} /\ Hit(b, M, k, a) THEN Free ELSE hash[b][k][a]]]]
    /\ UNCHANGED generation

\* Mutant: the generation is raised only if an entry was removed.
Invalidate_OnlyIfRemoved(b, M) ==
    /\ hash' = [hash EXCEPT ![b] =
           [k \in Kinds |-> [a \in Addrs |->
               IF M # {} /\ Hit(b, M, k, a) THEN Free ELSE hash[b][k][a]]]]
    /\ generation' =
           IF M # {} /\ \E k \in Kinds, a \in Addrs : Hit(b, M, k, a)
           THEN [generation EXCEPT ![b] = @ + 1]
           ELSE generation

\* invalidate_label_caches and invalidate_graph_caches: remove, and raise the
\* generation if anything was removed (the graph caches always do).
Invalidate(b, M) ==
    /\ hash' = [hash EXCEPT ![b] =
           [k \in Kinds |-> [a \in Addrs |->
               IF M # {} /\ Hit(b, M, k, a) THEN Free ELSE hash[b][k][a]]]]
    /\ generation' =
           IF M # {} /\ \/ FlushAll \/ Everything \in M
                        \/ \E k \in Kinds, a \in Addrs : Hit(b, M, k, a)
           THEN [generation EXCEPT ![b] = @ + 1]
           ELSE generation

-----------------------------------------------------------------------------

NoSlot == [valid |-> FALSE, key |-> Null, generation |-> 0, ptr |-> Null]
NoCall == [kind |-> "name", key |-> Null, generation |-> 0, ptr |-> Null]

\* The catalog holds some rows, with the uniqueness its indexes give it, and no
\* backend has looked at it yet.
Init ==
    /\ committed \in SUBSET Rows
    /\ \A r, s \in committed : r # s => r.name # s.name /\ r.oid # s.oid
    /\ created = [b \in Backends |-> {}]
    /\ dropped = [b \in Backends |-> {}]
    /\ used = {r.oid : r \in committed}
    /\ registered = [b \in Backends |-> {}]
    /\ queue = [b \in Backends |-> {}]
    /\ hash = [b \in Backends |-> [k \in Kinds |-> [a \in Addrs |-> Free]]]
    /\ generation = [b \in Backends |-> 1]
    /\ last = [b \in Backends |-> [k \in Kinds |-> [i \in Slots |-> NoSlot]]]
    /\ next_slot = [b \in Backends |-> [k \in Kinds |-> 0]]
    /\ pc = [b \in Backends |-> "idle"]
    /\ call = [b \in Backends |-> NoCall]
    /\ ops = 0

Op == ops < MaxOps /\ ops' = ops + 1

Matches(b, k, key, i) ==
    LET s == last[b][k][i]
    IN  s.valid /\ s.generation = generation[b] /\ s.key = key

\* The slot for a new lookup made under generation g: the first one that is
\* empty or of another generation, otherwise the next in turn.
Outdated(b, k, g) == {i \in Slots : ~last[b][k][i].valid \/ last[b][k][i].generation # g}

IsVictim(b, k, g, i) ==
    IF Outdated(b, k, g) = {}
    THEN i = next_slot[b][k]
    ELSE i \in Outdated(b, k, g) /\ \A j \in Outdated(b, k, g) : i <= j

\* The slot is filled and the result returned.
Fill(b, k, key, g, ptr) ==
    /\ \E i \in Slots :
           /\ IsVictim(b, k, g, i)
           /\ last' = [last EXCEPT ![b][k][i] =
                  [valid |-> TRUE, key |-> key, generation |-> g, ptr |-> ptr]]
    /\ next_slot' = IF Outdated(b, k, g) # {} THEN next_slot
                    ELSE [next_slot EXCEPT ![b][k] = (@ + 1) % LastSize]

Returns(b, k, key, g, ptr) ==
    /\ call' = [call EXCEPT ![b] =
           [kind |-> k, key |-> key, generation |-> g, ptr |-> ptr]]
    /\ pc' = [pc EXCEPT ![b] = "returned"]

Entry(b, k, key) == {a \in Addrs : hash[b][k][a] # Free /\ KeyOf(k, hash[b][k][a]) = key}

\* search_label_name_graph_cache_cached and its siblings.  First the array,
LastHit(b, k, key) ==
    /\ pc[b] = "idle" /\ Op
    /\ \E i \in Slots :
           /\ Matches(b, k, key, i)
           /\ \A j \in Slots : j < i => ~Matches(b, k, key, j)
           /\ Returns(b, k, key, generation[b], last[b][k][i].ptr)
    /\ UNCHANGED <<catalog, queue, caches>>

\* then the hash table,
HashHit(b, k, key) ==
    /\ pc[b] = "idle" /\ Op
    /\ \A i \in Slots : ~Matches(b, k, key, i)
    /\ \E a \in Entry(b, k, key) :
           /\ Fill(b, k, key, generation[b], a)
           /\ Returns(b, k, key, generation[b], a)
    /\ UNCHANGED <<catalog, queue, hash, generation>>

\* then a scan of the catalog, for which table_open receives the messages that
\* are there.  The generation is the one read before.
Miss(b, k, key) ==
    /\ pc[b] = "idle" /\ Op
    /\ \A i \in Slots : ~Matches(b, k, key, i)
    /\ Entry(b, k, key) = {}
    /\ Invalidate(b, queue[b])
    /\ queue' = [queue EXCEPT ![b] = {}]
    /\ call' = [call EXCEPT ![b] = [kind |-> k, key |-> key,
                                    generation |-> generation[b], ptr |-> Null]]
    /\ pc' = [pc EXCEPT ![b] = "scan"]
    /\ UNCHANGED <<catalog, last, next_slot>>

\* A new entry goes to a free address, in every hash table that has none for the
\* row's key (cache_label_data_in_all_caches, cache_graph_data_in_all_caches).
Entered(b, r, at) ==
    [k \in Kinds |-> IF Entry(b, k, KeyOf(k, r)) # {} THEN hash[b][k]
                     ELSE [hash[b][k] EXCEPT ![at[k]] = r]]

Scan(b) ==
    /\ pc[b] = "scan"
    /\ LET k == call[b].kind
           key == call[b].key
           g == call[b].generation
       IN  \/ \E r \in Seen(b), at \in [Kinds -> Addrs] :
                  /\ KeyOf(k, r) = key
                  /\ \A j \in Kinds : hash[b][j][at[j]] = Free
                  /\ hash' = [hash EXCEPT ![b] = Entered(b, r, at)]
                  /\ Fill(b, k, key, g, at[k])
                  /\ Returns(b, k, key, g, at[k])
           \/ /\ \A r \in Seen(b) : KeyOf(k, r) # key
              /\ Fill(b, k, key, g, Null)
              /\ Returns(b, k, key, g, Null)
              /\ UNCHANGED hash
    /\ UNCHANGED <<catalog, queue, generation, ops>>

\* The caller is done with the row.
Use(b) ==
    /\ pc[b] = "returned"
    /\ pc' = [pc EXCEPT ![b] = "idle"]
    /\ call' = [call EXCEPT ![b] = NoCall]
    /\ UNCHANGED <<catalog, queue, caches, ops>>

-----------------------------------------------------------------------------
(* Changes of the catalog, in a transaction.                                 *)

\* A name that is free: the unique index makes a second inserter wait.
NameFree(b, n) ==
    \A r \in committed \cup UNION {created[c] : c \in Backends} :
        r.name = n => r \in dropped[b]

\* The change registers a message, which the backend itself applies when the
\* command counter is incremented, and raises the generation
\* (invalidate_label_cache, invalidate_graph_cache).
Registers(b, o) ==
    /\ registered' = [registered EXCEPT ![b] = @ \cup {o}]
    /\ hash' = [hash EXCEPT ![b] =
           [k \in Kinds |-> [a \in Addrs |->
               IF Hit(b, {o}, k, a) THEN Free ELSE hash[b][k][a]]]]
    /\ generation' = [generation EXCEPT ![b] = @ + 1]

\* insert_label, insert_graph.
Create(b, n, o) ==
    /\ pc[b] = "idle" /\ Op
    /\ o \notin used /\ used' = used \cup {o}
    /\ NameFree(b, n)
    /\ created' = [created EXCEPT ![b] = @ \cup {[name |-> n, oid |-> o]}]
    /\ Registers(b, o)
    /\ UNCHANGED <<committed, dropped, queue, last, next_slot, pc, call>>

\* r is visible and no other transaction is about to delete it (it holds the
\* lock of r's relation until it ends).
Lockable(b, r) ==
    r \in Seen(b) /\ \A c \in Backends \ {b} : r \notin dropped[c]

\* delete_label, delete_graph.
Drop(b, r) ==
    /\ pc[b] = "idle" /\ Op
    /\ Lockable(b, r)
    /\ created' = [created EXCEPT ![b] = @ \ {r}]
    /\ dropped' = [dropped EXCEPT ![b] = @ \cup ({r} \ created[b])]
    /\ Registers(b, r.oid)
    /\ UNCHANGED <<committed, used, queue, last, next_slot, pc, call>>

\* rename_graph: the row is replaced by one with another name.
Rename(b, r, n) ==
    /\ FlushAll
    /\ pc[b] = "idle" /\ Op
    /\ Lockable(b, r) /\ NameFree(b, n)
    /\ LET s == [r EXCEPT !.name = n]
       IN  /\ created' = [created EXCEPT ![b] = (@ \ {r}) \cup ({s} \ dropped[b])]
           /\ dropped' = [dropped EXCEPT ![b] = (@ \ {s}) \cup ({r} \ created[b])]
    /\ Registers(b, r.oid)
    /\ UNCHANGED <<committed, used, queue, last, next_slot, pc, call>>

\* Any other DDL on the table or the schema, with a message and no new row.
Alter(b, r) ==
    /\ pc[b] = "idle" /\ Op
    /\ Lockable(b, r)
    /\ registered' = [registered EXCEPT ![b] = @ \cup {r.oid}]
    /\ Invalidate(b, {r.oid})
    /\ UNCHANGED <<committed, created, dropped, used, queue, last, next_slot,
                   pc, call>>

\* The transaction commits: its changes are visible first,
Commit(b) ==
    /\ pc[b] = "idle" /\ registered[b] # {}
    /\ committed' = Seen(b)
    /\ created' = [created EXCEPT ![b] = {}]
    /\ dropped' = [dropped EXCEPT ![b] = {}]
    /\ pc' = [pc EXCEPT ![b] = "send"]
    /\ UNCHANGED <<used, registered, queue, caches, call, ops>>

\* and its messages are sent next, to itself too.
Send(b) ==
    /\ pc[b] = "send"
    /\ queue' = [c \in Backends |-> queue[c] \cup registered[b]]
    /\ registered' = [registered EXCEPT ![b] = {}]
    /\ pc' = [pc EXCEPT ![b] = "idle"]
    /\ UNCHANGED <<committed, created, dropped, used, caches, call, ops>>

\* It rolls back, or fails in a lookup: its own messages are applied again.
Abort(b) ==
    /\ pc[b] # "send" /\ registered[b] # {}
    /\ created' = [created EXCEPT ![b] = {}]
    /\ dropped' = [dropped EXCEPT ![b] = {}]
    /\ registered' = [registered EXCEPT ![b] = {}]
    /\ Invalidate(b, registered[b])
    /\ pc' = [pc EXCEPT ![b] = "idle"]
    /\ call' = [call EXCEPT ![b] = NoCall]
    /\ UNCHANGED <<committed, used, queue, last, next_slot, ops>>

\* Messages are received at the start of a statement or with a lock.
Receive(b) ==
    /\ pc[b] = "idle" /\ queue[b] # {}
    /\ Invalidate(b, queue[b])
    /\ queue' = [queue EXCEPT ![b] = {}]
    /\ UNCHANGED <<catalog, last, next_slot, pc, call, ops>>

\* A backend that is too slow finds one message in the place of all.
Overflow(b) ==
    /\ queue[b] # {} /\ Everything \notin queue[b]
    /\ queue' = [queue EXCEPT ![b] = {Everything}]
    /\ UNCHANGED <<catalog, caches, pc, call, ops>>

Quiesce ==
    /\ ops = MaxOps
    /\ \A b \in Backends : pc[b] = "idle" /\ registered[b] = {} /\ queue[b] = {}
    /\ UNCHANGED vars

Step(b) ==
    \/ \E k \in Kinds : \E key \in KeysOf(k) :
           LastHit(b, k, key) \/ HashHit(b, k, key) \/ Miss(b, k, key)
    \/ Scan(b) \/ Use(b)
    \/ \E n \in Names, o \in Oids : Create(b, n, o)
    \/ \E r \in Rows : Drop(b, r) \/ Alter(b, r)
    \/ \E r \in Rows, n \in Names : Rename(b, r, n)
    \/ Commit(b) \/ Send(b) \/ Abort(b) \/ Receive(b) \/ Overflow(b)

Next == (\E b \in Backends : Step(b)) \/ Quiesce

Spec == Init /\ [][Next]_vars

-----------------------------------------------------------------------------

SlotType == [valid : BOOLEAN, key : Keys \cup {Null}, generation : Nat,
             ptr : Addrs \cup {Null}]
CallType == [kind : Kinds, key : Keys \cup {Null}, generation : Nat,
             ptr : Addrs \cup {Null}]
PCs == {"idle", "scan", "returned", "send"}
ChangeType == [Backends -> SUBSET Rows]
HashType == [Backends -> [Kinds -> [Addrs -> Rows \cup {Free}]]]
LastType == [Backends -> [Kinds -> [Slots -> SlotType]]]
NextSlotType == [Backends -> [Kinds -> Slots]]

\* Every variable has its type.
TypeOK ==
    /\ committed \in SUBSET Rows
    /\ created \in ChangeType
    /\ dropped \in ChangeType
    /\ used \in SUBSET Oids
    /\ registered \in [Backends -> SUBSET Oids]
    /\ queue \in [Backends -> SUBSET (Oids \cup {Everything})]
    /\ hash \in HashType
    /\ generation \in [Backends -> Nat]
    /\ last \in LastType
    /\ next_slot \in NextSlotType
    /\ pc \in [Backends -> PCs]
    /\ call \in [Backends -> CallType]
    /\ ops \in Nat

\* A pointer that a slot of the current generation holds is to an entry that is
\* still in the hash table and has the slot's key: removed entries, whose memory
\* is given to the next entry, are never reached through the array.
NoDanglingPointer ==
    \A b \in Backends, k \in Kinds, i \in Slots :
        LET s == last[b][k][i]
        IN  s.valid /\ s.generation = generation[b] /\ s.ptr # Null =>
                hash[b][k][s.ptr] # Free /\ KeyOf(k, hash[b][k][s.ptr]) = s.key

\* The message that will remove an entry of row r from b's caches is on its way.
OnItsWay(b, r) ==
    \/ r.oid \in queue[b] \/ Everything \in queue[b]
    \/ \E c \in Backends : pc[c] = "send" /\ r.oid \in registered[c]

\* A cached row is one the backend would find in the catalog now, or the message
\* that removes it is on its way: no commit, rollback or race of a scan with a
\* commit leaves a row in a cache for good.
CachedRowIsCurrent ==
    \A b \in Backends, k \in Kinds, a \in Addrs :
        LET r == hash[b][k][a]
        IN  r # Free => r \in Seen(b) \/ OnItsWay(b, r)

\* A hash table has one entry per key.
OneEntryPerKey ==
    \A b \in Backends, k \in Kinds, a1, a2 \in Addrs :
        /\ a1 # a2 /\ hash[b][k][a1] # Free /\ hash[b][k][a2] # Free
        => KeyOf(k, hash[b][k][a1]) # KeyOf(k, hash[b][k][a2])

\* A key that the array says is not in the catalog is not in the catalog, once
\* the messages have been received: "create the label entry if it does not
\* exist" and "Check if label with the input name already exists" rest on it.
NotFoundIsTrue ==
    \A b \in Backends, k \in Kinds, i \in Slots :
        LET s == last[b][k][i]
        IN  /\ s.valid /\ s.generation = generation[b] /\ s.ptr = Null
            /\ queue[b] = {} /\ \A c \in Backends : pc[c] # "send"
            => \A r \in Seen(b) : KeyOf(k, r) # s.key

-----------------------------------------------------------------------------
(* The inductive invariant.                                                  *)

\* No slot is of a generation that is still to come, and a scan does not know
\* one either; what it scans for is not in the hash table.
GenerationInv ==
    \A b \in Backends :
        /\ \A k \in Kinds, i \in Slots :
               last[b][k][i].valid => last[b][k][i].generation <= generation[b]
        /\ pc[b] = "scan" =>
               /\ call[b].generation <= generation[b]
               /\ Entry(b, call[b].kind, call[b].key) = {}

\* Every row a transaction has changed will be sent in a message; a backend that
\* is sending has a message to send, and its changes are committed.
MessageInv ==
    \A b \in Backends :
        /\ \A r \in created[b] \cup dropped[b] : r.oid \in registered[b]
        /\ pc[b] = "send" =>
               registered[b] # {} /\ created[b] = {} /\ dropped[b] = {}

\* A graph that the array says is not there is not there, or a message (any one
\* will do) is on its way.
NotFoundInv ==
    FlushAll =>
        \A b \in Backends, k \in Kinds, i \in Slots :
            LET s == last[b][k][i]
            IN  s.valid /\ s.generation = generation[b] /\ s.ptr = Null =>
                    \/ \A r \in Seen(b) : KeyOf(k, r) # s.key
                    \/ queue[b] # {}
                    \/ \E c \in Backends : pc[c] = "send"

IInv ==
    /\ TypeOK /\ GenerationInv /\ MessageInv
    /\ NoDanglingPointer /\ CachedRowIsCurrent /\ OneEntryPerKey /\ NotFoundInv
=============================================================================
