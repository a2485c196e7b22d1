--------------------------- MODULE AdjacencyIndex ---------------------------
(***************************************************************************)
(* The pages of an age_adjacency index (access/age_adjacency.c) as values. *)
(*                                                                         *)
(* An index is a metapage and a sequence of pages, addressed by block      *)
(* number (0 stands for InvalidBlockNumber; the metapage is kept apart).   *)
(* Main pages hold blocks of postings, in the order of their keys; a block *)
(* does not say which key it belongs to.  Directory pages, contiguous and  *)
(* written last, say for each key where its run of postings starts and how *)
(* many postings it has.  Delta pages hold the postings inserted since the *)
(* index was built.                                                        *)
(*                                                                         *)
(* A graphid is a label and an entry packed in one number.  Blocks and     *)
(* delta pages store entries only and give the label once, so a posting is *)
(* put together again from its page, as in the code.  Sizes in bytes are   *)
(* replaced by numbers of items.                                           *)
(***************************************************************************)
EXTENDS Integers, Sequences, SequencesExt, FiniteSetsExt

CONSTANTS Entries,         \* entries per label: 2^48 in the code
          BlockPostings,   \* postings that fit one main block
          PageItems        \* items that fit one page, for each type of page

ASSUME SizesAssumption ==
    /\ Entries \in Nat \ {0} /\ BlockPostings \in Nat \ {0}
    /\ PageItems \in [{"main", "dir", "delta"} -> Nat \ {0}]

LabelOf(id) == id \div Entries
EntryOf(id) == id % Entries
make_graphid(label, entry) == label * Entries + entry

-----------------------------------------------------------------------------
(* Pages and the metapage.                                                 *)

\* A page the file was extended by and that was never initialised.
ZeroPage == [type |-> "zero"]

init_page(type) == [type |-> type, items |-> <<>>, next |-> 0, count |-> 0,
                    min |-> 0, max |-> 0, klabel |-> 0, nlabel |-> 0]

init_metapage == [first |-> [dir |-> 0, main |-> 0, delta |-> 0],
                  last |-> [dir |-> 0, main |-> 0, delta |-> 0],
                  postings |-> 0, delta_postings |-> 0, exact |-> TRUE]

EmptyIndex == [meta |-> init_metapage, pages |-> <<>>]

\* Mutant: a delta page is filled up whatever the labels of its postings are.
NoRoom_AnyLabel(page, item) == Len(page.items) >= PageItems[page.type]

\* A delta page gives its labels once, so only a posting with the same labels
\* goes on it while it holds any.
NoRoom(page, item) ==
    \/ Len(page.items) >= PageItems[page.type]
    \/ /\ page.type = "delta"
       /\ page.count > 0
       /\ <<page.klabel, page.nlabel>> # <<item.klabel, item.nlabel>>

\* The page with the item on it.  A page without postings takes over the
\* item's labels and key; vacuum may have emptied it.
Added(page, item) ==
    [page EXCEPT !.items = Append(@, item.data), !.count = @ + item.units,
                 !.klabel = IF page.count = 0 THEN item.klabel ELSE @,
                 !.nlabel = IF page.count = 0 THEN item.nlabel ELSE @,
                 !.min = IF page.count = 0 THEN item.key ELSE Min({@, item.key}),
                 !.max = IF page.count = 0 THEN item.key ELSE Max({@, item.key})]

\* Puts an item on the last page of its type, or on a new page linked behind
\* it.  The metapage is locked throughout and one WAL record covers the
\* metapage, the page and the page before it.
append_item(index, type, item) ==
    LET last  == index.meta.last[type]
        fresh == IF last = 0 THEN TRUE ELSE NoRoom(index.pages[last], item)
        blk   == IF fresh THEN Len(index.pages) + 1 ELSE last
        pages == IF ~fresh THEN index.pages
                 ELSE Append(IF last = 0 THEN index.pages
                             ELSE [index.pages EXCEPT ![last].next = blk],
                             init_page(type))
        units == IF type = "dir" THEN 0 ELSE item.units
    IN  [meta |-> [index.meta EXCEPT
                     !.first[type] = IF @ = 0 THEN blk ELSE @,
                     !.last[type] = blk,
                     !.postings = @ + units,
                     !.delta_postings = IF type = "delta" THEN @ + units ELSE @,
                     !.exact = @ /\ type # "delta"],
         pages |-> [pages EXCEPT ![blk] = Added(@, item)]]

-----------------------------------------------------------------------------
(* Building: a posting is [key, tid, edge, next].                          *)

compare_postings(p, q) ==
    \/ p.key < q.key
    \/ /\ p.key = q.key
       /\ \/ LabelOf(p.next) < LabelOf(q.next)
          \/ LabelOf(p.next) = LabelOf(q.next) /\ p.tid < q.tid

\* A main block: the label of its postings' ends, and their entries.
Block(p) == [label |-> LabelOf(p.next),
             list |-> <<[tid |-> p.tid, edge |-> p.edge, entry |-> EntryOf(p.next)]>>]

\* The blocks of a run with one more posting: in the last block if it fits
\* and has the same label, else in a block of its own.
Chunked(blocks, p) ==
    LET n == Len(blocks)
    IN  IF n > 0 /\ Len(blocks[n].list) < BlockPostings
                 /\ blocks[n].label = LabelOf(p.next)
        THEN [blocks EXCEPT ![n].list = Append(@, Block(p).list[1])]
        ELSE Append(blocks, Block(p))

append_main_run_block(index, block, key) ==
    append_item(index, "main", [data |-> block, units |-> Len(block.list),
                                key |-> key, klabel |-> 0, nlabel |-> 0])

append_directory_entry(index, entry) ==
    append_item(index, "dir", [data |-> entry, units |-> 1, key |-> entry.key,
                               klabel |-> 0, nlabel |-> 0])

\* The run of one key: its blocks are appended, and its directory entry
\* remembers where the first one went.
BuildRun(built, run) ==
    LET blocks == FoldLeft(Chunked, <<>>, run)
        key    == run[1].key
        app(i, b) == append_main_run_block(i, b, key)
        one    == app(built.index, blocks[1])
        blk    == one.meta.last.main
    IN  [index |-> FoldLeft(app, one, Tail(blocks)),
         entries |-> Append(built.entries,
                        [key |-> key, blk |-> blk,
                         off |-> Len(one.pages[blk].items), count |-> Len(run)])]

\* The index of a set of postings: all main pages, then all directory pages,
\* which are therefore contiguous.
build_main_runs(postings) ==
    LET keys   == SetToSortSeq({p.key : p \in postings}, <)
        Run(k) == SetToSortSeq({p \in postings : p.key = k}, compare_postings)
        app(built, k) == BuildRun(built, Run(k))
        built  == FoldLeft(app, [index |-> EmptyIndex, entries |-> <<>>], keys)
    IN  FoldLeft(append_directory_entry, built.index, built.entries)

-----------------------------------------------------------------------------
(* Inserting.                                                              *)

form_delta_posting(p) == [tid |-> p.tid, edge |-> p.edge,
                          key |-> EntryOf(p.key), next |-> EntryOf(p.next)]

append_delta_posting(index, p) ==
    append_item(index, "delta",
                [data |-> form_delta_posting(p), units |-> 1, key |-> p.key,
                 klabel |-> LabelOf(p.key), nlabel |-> LabelOf(p.next)])

-----------------------------------------------------------------------------
(* Reading.                                                                *)

NoEntry == [key |-> 0, blk |-> 0, off |-> 1, count |-> 0]

\* Binary search over the block numbers of the directory pages by their key
\* ranges, then a linear search of the one page that may hold the key.
search_directory(index, key) ==
    LET n == Len(index.pages)
        Search[low \in 0..(n + 1), high \in 0..n] ==
            IF low > high THEN NoEntry
            ELSE LET mid  == low + (high - low) \div 2
                     page == index.pages[mid]
                 IN  CASE key < page.min -> Search[low, mid - 1]
                       [] key > page.max -> Search[mid + 1, high]
                       [] OTHER -> IF \E i \in DOMAIN page.items : page.items[i].key = key
                                   THEN page.items[CHOOSE i \in DOMAIN page.items :
                                                       page.items[i].key = key]
                                   ELSE NoEntry
    IN  IF index.meta.first.dir = 0 THEN NoEntry
        ELSE Search[index.meta.first.dir, index.meta.last.dir]

\* The postings of a main block, with the key the reader asked for.
BlockPostingsOf(block) ==
    [i \in DOMAIN block.list |->
        [tid |-> block.list[i].tid, edge |-> block.list[i].edge,
         next |-> make_graphid(block.label, block.list[i].entry)]]

\* The postings on a main page from an offset on.
MainPostings(page, off) ==
    FlattenSeq([i \in 1..Max({0, Len(page.items) - off + 1}) |->
                    BlockPostingsOf(page.items[off + i - 1])])

\* A posting on a delta page, put together with the labels of the page.
DeltaPosting(page, i) ==
    LET d == page.items[i]
    IN  [tid |-> d.tid, edge |-> d.edge, key |-> make_graphid(page.klabel, d.key),
         next |-> make_graphid(page.nlabel, d.next)]

delta_page_may_contain_key(page, key) ==
    page.count > 0 /\ key >= page.min /\ key <= page.max

FirstN(s, n) == SubSeq(s, 1, Min({n, Len(s)}))

\* What a scan that reads the run page by page meets: as many postings as the
\* directory says, wherever the pages then end.
RunPostings(index, entry) ==
    LET n == Len(index.pages)
        Walk[blk \in 0..n, left \in 0..entry.count] ==
            IF blk = 0 \/ left = 0 THEN <<>>
            ELSE LET off  == IF blk = entry.blk THEN entry.off ELSE 1
                     here == FirstN(MainPostings(index.pages[blk], off), left)
                 IN  here \o Walk[index.pages[blk].next, left - Len(here)]
    IN  Walk[entry.blk, entry.count]

\* The postings of a key in the chain of delta pages.
DeltaPostings(index, key) ==
    LET n == Len(index.pages)
        On(page) == IF ~delta_page_may_contain_key(page, key) THEN <<>>
                    ELSE SelectSeq([i \in DOMAIN page.items |-> DeltaPosting(page, i)],
                                   LAMBDA p : p.key = key)
        Walk[blk \in 0..n] == IF blk = 0 THEN <<>>
                              ELSE On(index.pages[blk]) \o Walk[index.pages[blk].next]
    IN  Walk[index.meta.first.delta]

\* get_bitmap: the row pointers of a key, handed on without a recheck.
scan_payload(index, key) ==
    LET run   == RunPostings(index, search_directory(index, key))
        delta == DeltaPostings(index, key)
    IN  [i \in DOMAIN run |-> run[i].tid] \o [i \in DOMAIN delta |-> delta[i].tid]

-----------------------------------------------------------------------------
(* Vacuum: one page.                                                       *)

Keep(block, dead) == [block EXCEPT !.list = SelectSeq(@, LAMBDA p : p.tid \notin dead)]

\* The items of a page without the dead postings; a block that is left empty
\* is deleted, which moves the blocks behind it up.
Surviving(page, dead) ==
    IF page.type = "main"
    THEN SelectSeq([i \in DOMAIN page.items |-> Keep(page.items[i], dead)],
                   LAMBDA b : b.list # <<>>)
    ELSE SelectSeq(page.items, LAMBDA d : d.tid \notin dead)

PostingsOn(page) ==
    IF page.type = "main" THEN Len(MainPostings(page, 1)) ELSE Len(page.items)

\* Mutant: the page keeps its number of postings.
bulk_delete_page_KeepCount(index, blk, dead) ==
    LET page    == index.pages[blk]
        after   == [page EXCEPT !.items = Surviving(page, dead)]
        removed == PostingsOn(page) - PostingsOn(after)
    IN  IF page.type = "dir" \/ removed = 0 THEN index
        ELSE [meta |-> [index.meta EXCEPT !.exact = FALSE,
                         !.postings = Max({0, @ - removed}),
                         !.delta_postings = IF page.type = "delta"
                                            THEN Max({0, @ - removed}) ELSE @],
              pages |-> [index.pages EXCEPT ![blk] = after]]

\* The index after vacuum has been at one page: directory pages are left
\* alone, the counts follow the postings, the directory does not.
bulk_delete_page(index, blk, dead) ==
    LET page    == index.pages[blk]
        after   == [page EXCEPT !.items = Surviving(page, dead)]
        removed == PostingsOn(page) - PostingsOn(after)
    IN  IF page.type = "dir" \/ removed = 0 THEN index
        ELSE [meta |-> [index.meta EXCEPT !.exact = FALSE,
                         !.postings = Max({0, @ - removed}),
                         !.delta_postings = IF page.type = "delta"
                                            THEN Max({0, @ - removed}) ELSE @],
              pages |-> [index.pages EXCEPT ![blk] = [after EXCEPT !.count = @ - removed]]]
=============================================================================
