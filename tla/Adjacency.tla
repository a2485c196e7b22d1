----------------------------- MODULE Adjacency -----------------------------
(***************************************************************************)
(* An age_adjacency index in use (access/age_adjacency.c): writers insert, *)
(* update and delete edges, VACUUM removes dead ones, the index is rebuilt, the   *)
(* server crashes, and scans - one after another, or several workers that  *)
(* share one scan (executor/cypher_adjacency_match.c) - read the index one *)
(* page at a time while all this goes on.                                  *)
(*                                                                         *)
(* The heap is PostgreSQL's: rows at row pointers (tids), each with the    *)
(* commits that created and ended it, and the visibility map.  A commit    *)
(* is a tick of clock; a snapshot is a value of clock.  Every access to an *)
(* index page is one step, since the code holds that page's lock for it;   *)
(* locks that are held over several steps are part of the state.           *)
(***************************************************************************)
EXTENDS AdjacencyIndex, FiniteSets

CONSTANTS Vertices,        \* graphids of vertices
          ScanKeys,        \* the ones that are scanned for
          Tids,            \* row pointers of the heap, 1..n
          HeapRows,        \* rows per heap page
          InitialLoads,    \* rows [key, next], by tid, a run may start with, how
                           \* many of them were there when the index was built, and
                           \* whether a crash has left an empty page in the index
          NewEdges,        \* [key, next] of the edges that are inserted
          Scanners,        \* backends that scan; the workers of a shared scan
          Modes,           \* what a scan may be: see Modes below
          MaxWrites,       \* inserts and deletes
          MaxCommits,      \* commits
          MaxScans,        \* scans (a shared scan is one)
          MaxUpkeep        \* VACUUMs, rebuilds, crashes and shared scans

\* "fetch": a scan that fetches each row; "ids": one that only wants ids and
\* skips the fetch on all-visible heap pages; "count": count_visible_payloads;
\* "shared": an "ids" scan shared by all workers.
ASSUME AdjacencyAssumption ==
    /\ Modes \subseteq {"fetch", "ids", "count", "shared"}
    /\ HeapRows \in Nat \ {0} /\ Vertices \subseteq Nat

VARIABLES heap,      \* the rows
          vm,        \* visibility map: is every row of the page visible to all?
          clock,     \* commits so far
          edges,     \* edges created so far
          pending,   \* rows whose index entry is not written yet
          index,     \* the index
          vac,       \* the VACUUM that is running
          scan,      \* each backend's scan
          claim,     \* shared cursors of a shared scan
          used       \* operations used up

vars == <<heap, vm, clock, edges, pending, index, vac, scan, claim, used>>

-----------------------------------------------------------------------------
(* PostgreSQL's heap.                                                      *)

NoRow == [edge |-> 0]
Open == -1        \* by a transaction that is still running
Aborted == -2
Never == -3
Redirected == -4  \* xmin of a row pointer that only leads on to later versions

IsRow(t) == heap[t] # NoRow
HeapBlock(t) == (t - 1) \div HeapRows
HeapBlocks == {HeapBlock(t) : t \in Tids}

\* Is a row visible to a snapshot?
Visible(row, snap) ==
    /\ row # NoRow
    /\ row.xmin \in 0..snap
    /\ row.xmax \notin 1..snap

Running == {s \in Scanners : scan[s].pc # "idle"}

\* The oldest snapshot anyone may still use.
Horizon == Min({clock} \cup {scan[s].snap : s \in Running})

DeadToAll(t) == IsRow(t) /\ (heap[t].xmin \in {Aborted, Redirected} \/ heap[t].xmax \in 1..Horizon)

\* The versions of a row that are reached from a row pointer: the row and the
\* heap-only ones that updates on the same page have put behind it.  Index
\* entries name the first, its root.
Chain(t) == {u \in Tids : IsRow(u) /\ heap[u].root = t}
HeapOnly(t) == heap[t].root # t

\* Is every row of a heap page visible to everyone, now and later?
AllVisible(rows, blk) ==
    \A t \in Tids : HeapBlock(t) = blk /\ rows[t] # NoRow /\ rows[t].xmin # Redirected =>
        rows[t].xmin \in 0..Horizon /\ rows[t].xmax = Never

Unset(t) == [vm EXCEPT ![HeapBlock(t)] = FALSE]

Posting(t) == [key |-> heap[t].key, tid |-> heap[t].root, edge |-> heap[t].edge, next |-> heap[t].next]

-----------------------------------------------------------------------------
(* Scans.                                                                  *)

Idle == [pc |-> "idle", mode |-> "fetch", key |-> 0, snap |-> 0, remaining |-> 0,
         blk |-> 0, off |-> 1, cache |-> <<>>, next |-> 0,
         pending |-> TRUE, page |-> 0, claimed |-> 0,
         dblk |-> 0, doff |-> 1, dcur |-> 1, dord |-> 0, dclaimed |-> 0,
         vmblk |-> -1, vmval |-> FALSE, out |-> <<>>, sum |-> 0, seen |-> {}]

\* Something happens to the index or the heap under the scans that are open.
Note(event) == [s \in Scanners |-> IF scan[s].pc = "idle" THEN scan[s]
                                   ELSE [scan[s] EXCEPT !.seen = @ \cup {event}]]

\* Pages a scan has share-locked, and whether one holds the metapage.
LockedPages == {scan[s].dblk : s \in {r \in Scanners : scan[r].pc = "locked"}}
MetaShared == \E s \in Scanners : scan[s].pc = "vm"
MetaExclusive == vac.pc = "index"

\* A row that is inserted at t; "old" is the version an open update replaces.
Row(new, e, t) == [edge |-> e, key |-> new.key, next |-> new.next, xmin |-> 0, xmax |-> Never,
                   root |-> t, old |-> 0]

NoVacuum == [pc |-> "idle", dead |-> {}, blk |-> 1]

Init ==
    \E load \in InitialLoads :
        LET h     == load.rows
            posting(t) == [key |-> h[t].key, tid |-> t, edge |-> t, next |-> h[t].next]
            built == FoldLeft(append_delta_posting,
                              build_main_runs({posting(t) : t \in 1..load.built}),
                              [i \in 1..(Len(h) - load.built) |-> posting(load.built + i)])
        IN  /\ heap = [t \in Tids |-> IF t \in DOMAIN h THEN Row(h[t], t, t) ELSE NoRow]
            /\ vm = [b \in HeapBlocks |-> TRUE]
            /\ edges = Cardinality(DOMAIN h)
            /\ index = IF load.torn THEN [built EXCEPT !.pages = Append(@, ZeroPage)] ELSE built
            /\ clock = 0 /\ pending = {}
            /\ vac = NoVacuum
            /\ scan = [s \in Scanners |-> Idle]
            /\ claim = [main |-> 0, delta |-> 0]
            /\ used = [writes |-> 0, scans |-> 0, upkeep |-> 0]

-----------------------------------------------------------------------------
(* Writers.  The executor writes the row, then the index entry, then the   *)
(* transaction ends.                                                       *)

\* The row goes to the first free row pointer, which may be one that VACUUM
\* has reclaimed.
HeapInsert(t, new) ==
    /\ used.writes < MaxWrites
    /\ ~IsRow(t) /\ \A u \in Tids : u < t => IsRow(u)
    /\ heap' = [heap EXCEPT ![t] = [Row(new, edges + 1, t) EXCEPT !.xmin = Open]]
    /\ vm' = Unset(t)
    /\ edges' = edges + 1
    /\ pending' = pending \cup {t}
    /\ scan' = Note("insert")
    /\ used' = [used EXCEPT !.writes = @ + 1]
    /\ UNCHANGED <<clock, index, vac, claim>>

\* age_adjacency_insert.
IndexInsert(t) ==
    /\ t \in pending
    /\ ~MetaExclusive /\ ~MetaShared
    /\ index.meta.last.delta \notin LockedPages
    /\ index' = append_delta_posting(index, Posting(t))
    /\ pending' = pending \ {t}
    /\ UNCHANGED <<heap, vm, clock, edges, vac, scan, claim, used>>

\* A transaction commits: the row is there, and the version it replaces has ended.
CommitInsert(t) ==
    /\ clock < MaxCommits
    /\ IsRow(t) /\ heap[t].xmin = Open /\ t \notin pending
    /\ clock' = clock + 1
    /\ heap' = [u \in Tids |->
                   IF u = t THEN [heap[t] EXCEPT !.xmin = clock + 1, !.old = 0]
                   ELSE IF u = heap[t].old THEN [heap[u] EXCEPT !.xmax = clock + 1]
                   ELSE heap[u]]
    /\ UNCHANGED <<vm, edges, pending, index, vac, scan, claim, used>>

\* The transaction rolls back, with or without the index entry written.
AbortInsert(t) ==
    /\ IsRow(t) /\ heap[t].xmin = Open
    /\ heap' = [u \in Tids |->
                   IF u = t THEN [heap[t] EXCEPT !.xmin = Aborted, !.old = 0]
                   ELSE IF u = heap[t].old THEN [heap[u] EXCEPT !.xmax = Never]
                   ELSE heap[u]]
    /\ pending' = pending \ {t}
    /\ UNCHANGED <<vm, clock, edges, index, vac, scan, claim, used>>

\* Rows that may be updated or deleted.
Latest(t) == IsRow(t) /\ heap[t].xmin \in 0..clock /\ heap[t].xmax = Never

FreeOn(blk) == {u \in Tids : ~IsRow(u) /\ HeapBlock(u) = blk}

\* SET on an edge (update_entity_tuple): its properties change, and no column of
\* the index does.  If its heap page has room the new version goes there as
\* a heap-only one and table_tuple_update asks for no index entries
\* (TU_None); if not it is a row like any other, with a posting of its own.
HeapUpdate(t) ==
    /\ used.writes < MaxWrites
    /\ Latest(t)
    /\ LET hot  == FreeOn(HeapBlock(t)) # {}
           room == IF hot THEN FreeOn(HeapBlock(t)) ELSE {u \in Tids : ~IsRow(u)}
           u    == Min(room)
       IN  /\ room # {}
           /\ heap' = [heap EXCEPT
                  ![t].xmax = Open,
                  ![u] = [heap[t] EXCEPT !.xmin = Open, !.old = t, !.root = IF hot THEN @ ELSE u]]
           /\ vm' = [vm EXCEPT ![HeapBlock(t)] = FALSE, ![HeapBlock(u)] = FALSE]
           /\ pending' = IF hot THEN pending ELSE pending \cup {u}
           /\ scan' = IF hot THEN scan ELSE Note("insert")
    /\ used' = [used EXCEPT !.writes = @ + 1]
    /\ UNCHANGED <<clock, edges, index, vac, claim>>

\* The row is being replaced by an update that is still open.
Replaced(t) == \E u \in Tids : IsRow(u) /\ heap[u].xmin = Open /\ heap[u].old = t

HeapDelete(t) ==
    /\ used.writes < MaxWrites
    /\ Latest(t)
    /\ heap' = [heap EXCEPT ![t].xmax = Open]
    /\ vm' = Unset(t)
    /\ used' = [used EXCEPT !.writes = @ + 1]
    /\ UNCHANGED <<clock, edges, pending, index, vac, scan, claim>>

CommitDelete(t) ==
    /\ clock < MaxCommits
    /\ IsRow(t) /\ heap[t].xmax = Open /\ ~Replaced(t)
    /\ clock' = clock + 1
    /\ heap' = [heap EXCEPT ![t].xmax = clock + 1]
    /\ UNCHANGED <<vm, edges, pending, index, vac, scan, claim, used>>

AbortDelete(t) ==
    /\ IsRow(t) /\ heap[t].xmax = Open /\ ~Replaced(t)
    /\ heap' = [heap EXCEPT ![t].xmax = Never]
    /\ UNCHANGED <<vm, clock, edges, pending, index, vac, scan, claim, used>>

-----------------------------------------------------------------------------
(* Building and vacuuming.                                                 *)

\* Rows the build takes over: the callback skips a tuple that is not alive,
\* also one that an old snapshot still sees.
\* A heap-only row is given to it with the row pointer of its root.
Alive(t) == IsRow(t) /\ heap[t].xmin \notin {Aborted, Redirected} /\ heap[t].xmax = Never

\* age_adjacency_build, for REINDEX: the lock on the table waits for writers,
\* the one on the index for scans and VACUUM.
Build ==
    /\ used.upkeep < MaxUpkeep
    /\ pending = {} /\ vac.pc = "idle"
    /\ \A t \in Tids : IsRow(t) => heap[t].xmin # Open /\ heap[t].xmax # Open
    /\ \A s \in Scanners : scan[s].pc \in {"idle", "snap"}
    /\ index' = build_main_runs({Posting(t) : t \in {u \in Tids : Alive(u)}})
    /\ scan' = Note("build")
    /\ used' = [used EXCEPT !.upkeep = @ + 1]
    /\ UNCHANGED <<heap, vm, clock, edges, pending, vac, claim>>

\* Mutant: a row that has ended is dead, whatever versions are behind it.
DeadChains_Roots == {t \in Tids : IsRow(t) /\ ~HeapOnly(t) /\ DeadToAll(t)}

\* Row pointers whose whole chain is dead to all: index entries may name them.
DeadChains == {t \in Tids : IsRow(t) /\ ~HeapOnly(t) /\ \A u \in Chain(t) : DeadToAll(u)}

\* Pruning: dead heap-only rows are gone at once, a dead root leads on to the
\* versions behind it, or waits for its index entries to be removed.
Pruned(dead) ==
    [t \in Tids |-> IF DeadToAll(t) /\ HeapOnly(t) THEN NoRow
                    ELSE IF t \in dead THEN [heap[t] EXCEPT !.xmin = Aborted]
                    ELSE IF DeadToAll(t) THEN [heap[t] EXCEPT !.xmin = Redirected]
                    ELSE heap[t]]

\* VACUUM's first pass over the heap: it prunes the pages, collects the dead row
\* pointers, and marks the pages that have none and hold only rows everyone
\* sees.
VacuumHeap ==
    /\ used.upkeep < MaxUpkeep
    /\ vac.pc = "idle"
    /\ heap' = Pruned(DeadChains)
    /\ vac' = IF DeadChains = {} THEN NoVacuum
              ELSE [pc |-> "lock", dead |-> DeadChains, blk |-> 1]
    /\ vm' = [b \in HeapBlocks |-> vm[b] \/ AllVisible(heap', b)]
    /\ used' = [used EXCEPT !.upkeep = @ + 1]
    /\ UNCHANGED <<clock, edges, pending, index, scan, claim>>

\* bulk_delete locks the metapage for as long as it runs.
VacuumLockMeta ==
    /\ vac.pc = "lock"
    /\ ~MetaShared
    /\ vac' = [vac EXCEPT !.pc = "index"]
    /\ UNCHANGED <<heap, vm, clock, edges, pending, index, scan, claim, used>>

\* One page.  A page that was never initialised is an error, and ends the
\* VACUUM.
VacuumPage ==
    /\ vac.pc = "index"
    /\ vac.blk <= Len(index.pages)
    /\ vac.blk \notin LockedPages
    /\ \/ /\ index.pages[vac.blk] = ZeroPage
          /\ vac' = NoVacuum
          /\ UNCHANGED <<index, scan>>
       \/ /\ index.pages[vac.blk] # ZeroPage
          /\ index' = bulk_delete_page(index, vac.blk, vac.dead)
          /\ vac' = [vac EXCEPT !.blk = @ + 1]
          /\ scan' = IF index' = index THEN scan ELSE Note("remove")
    /\ UNCHANGED <<heap, vm, clock, edges, pending, claim, used>>

VacuumUnlockMeta ==
    /\ vac.pc = "index"
    /\ vac.blk > Len(index.pages)
    /\ vac' = [vac EXCEPT !.pc = "heap"]
    /\ UNCHANGED <<heap, vm, clock, edges, pending, index, scan, claim, used>>

\* VACUUM's second pass over the heap: the rows are gone from the index, so
\* their row pointers can be used again.
VacuumReap ==
    /\ vac.pc = "heap"
    /\ LET rows == [t \in Tids |-> IF t \in vac.dead THEN NoRow ELSE heap[t]]
       IN  /\ heap' = rows
           /\ vm' = [b \in HeapBlocks |->
                        vm[b] \/ (AllVisible(rows, b) /\ \E t \in vac.dead : HeapBlock(t) = b)]
    /\ vac' = NoVacuum
    /\ UNCHANGED <<clock, edges, pending, index, scan, claim, used>>

\* The server crashes: running transactions are gone, every WAL record is in
\* place or not at all.  If it was about to add a page to the index, the file
\* is longer and the page is empty.
Crash ==
    /\ used.upkeep < MaxUpkeep
    /\ \/ UNCHANGED index
       \/ /\ pending # {}
          /\ index' = [index EXCEPT !.pages = Append(@, ZeroPage)]
    /\ heap' = [t \in Tids |->
                    IF ~IsRow(t) THEN NoRow
                    ELSE [heap[t] EXCEPT !.xmin = IF @ = Open THEN Aborted ELSE @,
                                         !.xmax = IF @ = Open THEN Never ELSE @,
                                         !.old = 0]]
    /\ pending' = {} /\ vac' = NoVacuum
    /\ scan' = [s \in Scanners |-> Idle]
    /\ used' = [used EXCEPT !.upkeep = @ + 1]
    /\ UNCHANGED <<vm, clock, edges, claim>>

\* Where a scan goes next on its own: from the copied postings to the next
\* page, from the run to the delta pages, from the last of them to the end.
Turn(rec) ==
    LET r1 == IF rec.pc = "emit" /\ rec.cache = <<>>
              THEN [rec EXCEPT !.pc = "main", !.blk = rec.next, !.off = 1, !.pending = TRUE]
              ELSE rec
        r2 == IF r1.pc = "main" /\ (r1.remaining = 0 \/ r1.blk = 0)
              THEN [r1 EXCEPT !.pc = "delta"] ELSE r1
    IN  IF r2.pc = "delta" /\ r2.dblk = 0 THEN [r2 EXCEPT !.pc = "done"] ELSE r2

-----------------------------------------------------------------------------
(* Scans: begin.                                                           *)

\* A statement takes its snapshot; the scan begins later.
TakeSnapshot(s, k, mode) ==
    /\ used.scans < MaxScans
    /\ mode \in Modes \ {"shared"}
    /\ scan[s].pc = "idle"
    /\ \A r \in Running : scan[r].mode # "shared"
    /\ scan' = [scan EXCEPT ![s] = [Idle EXCEPT !.pc = IF mode = "count" THEN "count" ELSE "snap",
                                                !.mode = mode, !.key = k, !.snap = clock]]
    /\ used' = [used EXCEPT !.scans = @ + 1]
    /\ UNCHANGED <<heap, vm, clock, edges, pending, index, vac, claim>>

\* A shared scan: the leader initialises the shared cursors, and all workers
\* run with its snapshot.
LaunchShared(k) ==
    /\ used.scans < MaxScans /\ used.upkeep < MaxUpkeep
    /\ "shared" \in Modes
    /\ Running = {}
    /\ scan' = [s \in Scanners |-> [Idle EXCEPT !.pc = "snap", !.mode = "shared",
                                                !.key = k, !.snap = clock]]
    /\ claim' = [main |-> 0, delta |-> 0]
    /\ used' = [used EXCEPT !.scans = @ + 1, !.upkeep = @ + 1]
    /\ UNCHANGED <<heap, vm, clock, edges, pending, index, vac>>

\* begin_visible_payload_scan and begin_key: the metapage is read once, the
\* directory is searched.
Begin(s) ==
    /\ scan[s].pc = "snap"
    /\ ~MetaExclusive
    /\ LET entry == search_directory(index, scan[s].key)
       IN  scan' = [scan EXCEPT ![s] = Turn([@ EXCEPT !.pc = "main",
                        !.remaining = entry.count, !.blk = entry.blk, !.off = entry.off,
                        !.dblk = index.meta.first.delta, !.doff = 1])]
    /\ UNCHANGED <<heap, vm, clock, edges, pending, index, vac, claim, used>>

\* Mutant: the metapage is unlocked before the visibility map is looked at.
CountMeta_Unlock(s) ==
    /\ scan[s].pc = "count"
    /\ ~MetaExclusive
    /\ LET safe == index.meta.exact /\ index.meta.delta_postings = 0
                                    /\ index.meta.first.delta = 0
       IN  scan' = [scan EXCEPT ![s].pc = IF safe THEN "unlocked" ELSE "snap"]
    /\ UNCHANGED <<heap, vm, clock, edges, pending, index, vac, claim, used>>

\* count_visible_payloads: the metapage stays locked while the visibility map
\* and the directory are looked at.
CountMeta(s) ==
    /\ scan[s].pc = "count"
    /\ ~MetaExclusive
    /\ LET safe == index.meta.exact /\ index.meta.delta_postings = 0
                                    /\ index.meta.first.delta = 0
       IN  scan' = [scan EXCEPT ![s].pc = IF safe THEN "vm" ELSE "snap"]
    /\ UNCHANGED <<heap, vm, clock, edges, pending, index, vac, claim, used>>

CountSummary(s) ==
    /\ scan[s].pc \in {"vm", "unlocked"}
    /\ scan' = [scan EXCEPT ![s] =
                    IF \A b \in HeapBlocks : vm[b]
                    THEN [@ EXCEPT !.pc = "summary",
                                   !.sum = search_directory(index, scan[s].key).count]
                    ELSE [@ EXCEPT !.pc = "snap"]]
    /\ UNCHANGED <<heap, vm, clock, edges, pending, index, vac, claim, used>>

-----------------------------------------------------------------------------
(* Scans: the run of main pages.                                           *)

MainLeft(s) == scan[s].pc = "main" /\ scan[s].remaining > 0 /\ scan[s].blk # 0
Shares(s) == scan[s].mode = "shared"

\* The number a worker gets from a shared cursor when it is past the one it
\* has: it takes numbers until one is not behind it.
NextClaim(cursor, at) == Max({cursor, at}) + 1

\* Mutant: the cursor is read and written in two steps, so two workers may
\* get the same page.
ClaimPage_Lost(s) ==
    /\ MainLeft(s) /\ Shares(s) /\ scan[s].pending
    /\ LET at      == scan[s].page
           claimed == IF at < scan[s].claimed THEN scan[s].claimed
                      ELSE NextClaim(claim.main, at)
       IN  /\ scan' = [scan EXCEPT ![s] =
                    LET rec == [@ EXCEPT !.claimed = claimed, !.page = @ + 1]
                    IN  IF at = claimed - 1 THEN [rec EXCEPT !.pending = FALSE]
                        ELSE Turn([rec EXCEPT !.blk = index.pages[@].next, !.off = 1])]
           /\ claim' \in {claim, [claim EXCEPT !.main = Max({@, claimed})]}
    /\ UNCHANGED <<heap, vm, clock, edges, pending, index, vac, used>>

\* accept_main_page: a worker takes the next page number from the shared
\* cursor once it is past the one it has.  The page it is at is its own, or it
\* is stepped over: only its link is read, and nothing is taken off the
\* postings that remain.
ClaimPage(s) ==
    /\ MainLeft(s) /\ Shares(s) /\ scan[s].pending
    /\ LET at      == scan[s].page
           claimed == IF at < scan[s].claimed THEN scan[s].claimed
                      ELSE NextClaim(claim.main, at)
       IN  /\ scan' = [scan EXCEPT ![s] =
                    LET rec == [@ EXCEPT !.claimed = claimed, !.page = @ + 1]
                    IN  IF at = claimed - 1 THEN [rec EXCEPT !.pending = FALSE]
                        ELSE Turn([rec EXCEPT !.blk = index.pages[@].next, !.off = 1])]
           /\ claim' = [claim EXCEPT !.main = Max({@, claimed})]
    /\ UNCHANGED <<heap, vm, clock, edges, pending, index, vac, used>>

\* load_main_cache: the postings of a page, up to what remains, are copied.
LoadMain(s) ==
    /\ MainLeft(s)
    /\ Shares(s) => ~scan[s].pending
    /\ LET page == index.pages[scan[s].blk]
       IN  scan' = [scan EXCEPT ![s] = Turn([@ EXCEPT !.pc = "emit", !.next = page.next,
                        !.cache = FirstN(MainPostings(page, scan[s].off), scan[s].remaining)])]
    /\ UNCHANGED <<heap, vm, clock, edges, pending, index, vac, claim, used>>

\* Does posting_visible_payload let a posting pass, and what does the scan
\* remember of the visibility map?
MapSays(s, t) == IF scan[s].vmblk = HeapBlock(t) THEN scan[s].vmval ELSE vm[HeapBlock(t)]

\* Mutant: the visibility map is asked about the heap page after the row's.
Passes_NextBlock(s, t) ==
    \/ scan[s].mode # "fetch" /\ MapSays(s, IF t + HeapRows \in Tids THEN t + HeapRows ELSE t)
    \/ Visible(heap[t], scan[s].snap)

Passes(s, t) ==
    \/ scan[s].mode # "fetch" /\ MapSays(s, t)
    \/ Visible(heap[t], scan[s].snap)

\* The scan record after a posting was looked at.
Examined(s, rec, posting) ==
    [rec EXCEPT !.out = IF Passes(s, posting.tid) THEN Append(@, posting.edge) ELSE @,
                !.vmblk = IF scan[s].mode = "fetch" THEN @ ELSE HeapBlock(posting.tid),
                !.vmval = IF scan[s].mode = "fetch" THEN @ ELSE MapSays(s, posting.tid)]

\* One posting of the copied ones is handed on if its row is visible.
EmitMain(s) ==
    /\ scan[s].pc = "emit" /\ scan[s].cache # <<>>
    /\ scan' = [scan EXCEPT ![s] =
                    Turn(Examined(s, [@ EXCEPT !.cache = Tail(@), !.remaining = @ - 1],
                                  Head(scan[s].cache)))]
    /\ UNCHANGED <<heap, vm, clock, edges, pending, index, vac, claim, used>>

-----------------------------------------------------------------------------
(* Scans: the chain of delta pages.                                        *)

\* The page is locked, or passed over if its key range rules it out.
DeltaPage(s) ==
    /\ scan[s].pc = "delta" /\ scan[s].dblk # 0
    /\ LET page == index.pages[scan[s].dblk]
       IN  scan' = [scan EXCEPT ![s] =
                        IF delta_page_may_contain_key(page, scan[s].key)
                        THEN [@ EXCEPT !.pc = "locked", !.dcur = scan[s].doff]
                        ELSE Turn([@ EXCEPT !.dblk = page.next, !.doff = 1])]
    /\ UNCHANGED <<heap, vm, clock, edges, pending, index, vac, claim, used>>

\* Offsets from the scan's on at which the page has a posting of the key.
Matching(s) ==
    LET page == index.pages[scan[s].dblk]
    IN  {i \in scan[s].dcur..Len(page.items) : DeltaPosting(page, i).key = scan[s].key}

\* Where the scan goes on after the posting at an offset.
Resume(s, i) ==
    LET page == index.pages[scan[s].dblk]
    IN  IF i + 1 > Len(page.items) THEN [blk |-> page.next, off |-> 1]
        ELSE [blk |-> scan[s].dblk, off |-> i + 1]

\* The next posting of the key, which a worker of a shared scan passes over if
\* it does not get its number.  If it is handed on the page is unlocked and the
\* scan comes back to the offset behind it; if not the page stays locked.
DeltaNext(s) ==
    /\ scan[s].pc = "locked" /\ Matching(s) # {}
    /\ LET i       == Min(Matching(s))
           p       == DeltaPosting(index.pages[scan[s].dblk], i)
           claimed == IF ~Shares(s) \/ scan[s].dord < scan[s].dclaimed THEN scan[s].dclaimed
                      ELSE NextClaim(claim.delta, scan[s].dord)
           mine    == Shares(s) => scan[s].dord = claimed - 1
           rec     == [scan[s] EXCEPT !.dord = @ + 1, !.dcur = i + 1, !.dclaimed = claimed]
           seen    == IF mine THEN Examined(s, rec, p) ELSE rec
           at      == Resume(s, i)
       IN  /\ scan' = [scan EXCEPT ![s] =
                        IF mine /\ Passes(s, p.tid)
                        THEN Turn([seen EXCEPT !.pc = "delta", !.dblk = at.blk, !.doff = at.off])
                        ELSE seen]
           /\ claim' = [claim EXCEPT !.delta = Max({@, claimed})]
    /\ UNCHANGED <<heap, vm, clock, edges, pending, index, vac, used>>

DeltaPageDone(s) ==
    /\ scan[s].pc = "locked" /\ Matching(s) = {}
    /\ scan' = [scan EXCEPT ![s] = Turn([@ EXCEPT !.pc = "delta", !.doff = 1,
                                                  !.dblk = index.pages[scan[s].dblk].next])]
    /\ UNCHANGED <<heap, vm, clock, edges, pending, index, vac, claim, used>>

\* The statement ends; a shared scan when all its workers are done.
End(s) ==
    /\ scan[s].pc \in {"done", "summary"}
    /\ Shares(s) => \A r \in Scanners : scan[r].pc = "done"
    /\ scan' = [r \in Scanners |-> IF r = s \/ Shares(s) THEN Idle ELSE scan[r]]
    /\ UNCHANGED <<heap, vm, clock, edges, pending, index, vac, claim, used>>

-----------------------------------------------------------------------------
ScanStep(s) ==
    \/ Begin(s) \/ CountMeta(s) \/ CountSummary(s)
    \/ ClaimPage(s) \/ LoadMain(s) \/ EmitMain(s)
    \/ DeltaPage(s) \/ DeltaNext(s) \/ DeltaPageDone(s)
    \/ End(s)

VacuumStep == VacuumLockMeta \/ VacuumPage \/ VacuumUnlockMeta \/ VacuumReap

Next ==
    \/ \E t \in Tids : \/ \E new \in NewEdges : HeapInsert(t, new)
                       \/ IndexInsert(t) \/ CommitInsert(t) \/ AbortInsert(t)
                       \/ HeapUpdate(t) \/ HeapDelete(t) \/ CommitDelete(t) \/ AbortDelete(t)
    \/ Build \/ VacuumHeap \/ VacuumStep \/ Crash
    \/ \E k \in ScanKeys : \/ \E s \in Scanners, m \in Modes : TakeSnapshot(s, k, m)
                           \/ LaunchShared(k)
    \/ \E s \in Scanners : ScanStep(s)

Spec == Init /\ [][Next]_vars

-----------------------------------------------------------------------------
(* Properties.                                                             *)

\* The type invariant: what each variable holds; scans and VACUUM refer to
\* pages the index has.
TypeOK ==
    /\ \A t \in Tids : IsRow(t) => /\ heap[t].xmin \in {Open, Aborted, Redirected} \cup 0..clock
                                   /\ heap[t].xmax \in {Open, Never} \cup 1..clock
    /\ vm \in [HeapBlocks -> BOOLEAN]
    /\ pending \subseteq {t \in Tids : IsRow(t)}
    /\ \A s \in Scanners : {scan[s].blk, scan[s].dblk, scan[s].next} \subseteq 0..Len(index.pages)
    /\ \A s \in Scanners : scan[s].remaining \in Nat
    /\ \A i \in DOMAIN index.pages : index.pages[i] # ZeroPage =>
            index.pages[i].count \in Nat /\ index.pages[i].next \in {0} \cup (i + 1)..Len(index.pages)

DirectoryCount ==
    FoldSet(LAMBDA i, n : n + (IF index.pages[i].type # "dir" THEN 0
                               ELSE FoldSeq(LAMBDA e, m : m + e.count, 0, index.pages[i].items)),
            0, DOMAIN index.pages)

\* No posting of the main pages was removed since the index was built.
MainIntact == DirectoryCount = index.meta.postings - index.meta.delta_postings

\* The rows of a key that a snapshot shows.
Shown(k, snap) == {t \in Tids : Visible(heap[t], snap) /\ heap[t].key = k}
ShownEdges(k, snap) == {heap[t].edge : t \in Shown(k, snap)}

\* The edges of which it shows a heap-only version: their postings name a version
\* that has ended, posting_visible_payload fetches that one alone, and so they
\* are not handed on, unless the visibility map says that no fetch is needed.
UpdatedEdges(k, snap) == {heap[t].edge : t \in {u \in Shown(k, snap) : HeapOnly(u)}}

\* A bitmap scan (age_adjacency_get_bitmap hands row pointers on without a
\* recheck of the key, and the heap is read through the chains behind them)
\* finds every live row of its key once and no row of another key, and no row
\* pointer that has been given to another row - through inserts, updates,
\* rollbacks, crashes, pruning, vacuuming of delta pages and rebuilds, for as
\* long as no posting of the main pages was removed.
BitmapExact ==
    MainIntact => \A k \in Vertices :
        LET found == scan_payload(index, k)
        IN  /\ IsInjective(found)
            /\ \A i \in DOMAIN found : IsRow(found[i]) /\ ~HeapOnly(found[i])
                                                     /\ heap[found[i]].key = k
            /\ \A t \in Tids \ pending : Alive(t) /\ heap[t].key = k =>
                   heap[t].root \in Range(found)

\* The numbers the index keeps about itself are true: the postings on each
\* page (a delta page that says 0 is not read at all), in the index and on its
\* delta pages (age_adjacency_append_item, age_adjacency_bulk_delete).
\* The state is well formed (TypeOK), and that holds in it.
CountsTrue ==
    LET Real(i) == IF index.pages[i].type \in {"main", "delta"} THEN PostingsOn(index.pages[i]) ELSE 0
        Delta   == {i \in DOMAIN index.pages : index.pages[i].type = "delta"}
    IN  /\ TypeOK
        /\ \A i \in DOMAIN index.pages :
               index.pages[i].type \in {"main", "delta"} => index.pages[i].count = Real(i)
        /\ index.meta.postings = FoldSet(LAMBDA i, n : n + Real(i), 0, DOMAIN index.pages)
        /\ index.meta.delta_postings = FoldSet(LAMBDA i, n : n + Real(i), 0, Delta)

\* Nothing happened under a scan that the scan does not cope with: neither a
\* rebuild since its snapshot, nor VACUUM at a page, nor, if it relies on the
\* visibility map, an insert.
Undisturbed(s) ==
    /\ MainIntact
    /\ scan[s].seen \cap {"build", "remove"} = {}
    /\ scan[s].mode = "fetch" \/ "insert" \notin scan[s].seen

\* A scan that ends has handed on each edge of its key that its snapshot shows
\* once, and nothing else, whatever was inserted, updated, deleted, committed
\* and rolled back meanwhile (age_adjacency_visible_payload_scan_next).  What
\* it may miss are the edges that were updated on their own heap page.  One that
\* fetches rows has at no time handed on an edge twice, or one its snapshot does
\* not show, also if VACUUM is at work on the delta pages it reads.
ScanExact ==
    \A s \in Scanners :
        LET shown   == ShownEdges(scan[s].key, scan[s].snap)
            updated == UpdatedEdges(scan[s].key, scan[s].snap)
        IN  /\ scan[s].pc = "done" /\ ~Shares(s) /\ Undisturbed(s) =>
                   /\ IsInjective(scan[s].out)
                   /\ shown \ updated \subseteq Range(scan[s].out)
                   /\ Range(scan[s].out) \subseteq shown
            /\ scan[s].pc # "idle" /\ scan[s].mode = "fetch" /\ MainIntact =>
                   IsInjective(scan[s].out) /\ Range(scan[s].out) \subseteq shown

\* A count that is answered from the directory is the number of edges the
\* snapshot shows (age_adjacency_count_visible_payloads: "Without this lock,
\* VACUUM could clear the flag, remove a posting, and set the heap page
\* all-visible between our two observations").
SummaryExact ==
    \A s \in Scanners : scan[s].pc = "summary" /\ "build" \notin scan[s].seen =>
        scan[s].sum = Cardinality(Shown(scan[s].key, scan[s].snap))

AllDone == \A s \in Scanners : scan[s].pc = "done" /\ Shares(s)
Handed(e) == {<<s, i>> \in Scanners \X (1..edges) : i \in DOMAIN scan[s].out /\ scan[s].out[i] = e}

\* The workers of a shared scan hand on each edge of the key between them
\* exactly once, whatever pages and postings each of them claims
\* (age_adjacency_scan_accept_main_page), or, if it was updated on its own heap
\* page, at most once.  They may hand on edges of another key too: a worker
\* that has stepped over pages of others does not take their postings off
\* main_remaining and walks on into the run of the next key.
SharedOnce ==
    AllDone /\ (\A s \in Scanners : Undisturbed(s)) =>
        \A s \in Scanners : \A e \in ShownEdges(scan[s].key, scan[s].snap) :
            /\ Cardinality(Handed(e)) <= 1
            /\ e \notin UpdatedEdges(scan[s].key, scan[s].snap) => Cardinality(Handed(e)) = 1

\* The test of count(*) says that after changes the count keeps its
\* "correctness through the visible-posting fallback": a count that no VACUUM,
\* insert or rebuild ran beside, of a key none of whose edges was updated on its
\* own heap page, is the number of edges the snapshot shows
\* (age_adjacency_count_visible_payloads).
CountIsExact ==
    \A s \in Scanners :
        /\ scan[s].pc = "done" /\ scan[s].mode = "count" /\ scan[s].seen = {}
        /\ UpdatedEdges(scan[s].key, scan[s].snap) = {}
        => Len(scan[s].out) = Cardinality(Shown(scan[s].key, scan[s].snap))
=============================================================================
