-------------------------------- MODULE Heap --------------------------------
(***************************************************************************)
(* The kernel heap of src/kernel/memory/heap.c: first fit over a free list *)
(* sorted by address, splitting on kmalloc, coalescing on kfree, growing   *)
(* by pages of the page allocator and never shrinking.                     *)
(*                                                                         *)
(* The heap is one record h: the free list, the block headers by address,  *)
(* the pages the page allocator still has, and the pages the heap took.    *)
(* As in the code, a header that is joined to another block loses its      *)
(* magic number, so the blocks are the addresses with a magic number.      *)
(***************************************************************************)
EXTENDS Integers, Sequences, FiniteSets, FiniteSetsExt, SequencesExt

CONSTANTS
  HeapPage,  \* PAGE_SIZE, in the units of this module
  Hdr,       \* sizeof(heap_block_t)
  Align,     \* HEAP_ALIGN
  InitPages, \* HEAP_INIT_PAGES
  Pages,     \* bound: the numbers of the pages free when init_heap runs
  Sizes,     \* the sizes asked for, none near the end of size_t
  MaxLive,   \* bound: allocations alive at a time
  NULL

ASSUME HeapAssumption ==
  /\ HeapPage \in Nat /\ Hdr \in Nat /\ Align \in Nat \ {0}
  /\ Hdr % Align = 0 /\ HeapPage % Align = 0 /\ Hdr + Align <= HeapPage
  /\ InitPages \in Nat \ {0} /\ MaxLive \in Nat
  /\ Pages \subseteq Nat /\ IsFiniteSet(Pages) /\ Cardinality(Pages) >= InitPages
  /\ Sizes \subseteq Nat
  /\ NULL \notin Nat

VARIABLES
  h,      \* [free, hdr, pool, own, fault]
  live    \* live[p]: size asked for, for every payload p in use

heapVars == <<h, live>>

HeapMinTotal == Hdr + Align

\* The addresses of a page, those in reach, and those where a block may start.
PageAddr(p) == p * HeapPage .. p * HeapPage + HeapPage - 1
Addr == UNION {PageAddr(p) : p \in Pages}
Aligned == {a \in Addr : a % Align = 0}

\* Memory that is not a header; what else it holds is not looked at.
NoHeader == [size |-> 0, magic |-> FALSE, used |-> FALSE]

\* The header of a new block.
FreeHeader(size) == [size |-> size, magic |-> TRUE, used |-> FALSE]

Blocks == {a \in Addr : h.hdr[a].magic}
UsedBlocks == {a \in Blocks : h.hdr[a].used}

align_up(v) == ((v + Align - 1) \div Align) * Align

-----------------------------------------------------------------------------
(* The free list.                                                          *)

\* The loop of freelist_insert: how many blocks come before b.
before(list, b) ==
  CHOOSE k \in 0 .. Len(list) :
    /\ \A j \in 1 .. k : list[j] < b
    /\ k < Len(list) => list[k + 1] >= b

\* The headers when block c, behind block b, becomes a part of it: its header is
\* no header any more.
merged(hdr, b, c) == [hdr EXCEPT ![b].size = @ + hdr[c].size, ![c] = NoHeader]

\* Block n of the list is joined with the one after it if they are adjacent.
join(g, n) ==
  LET b == g.free[n]
      next == g.free[n + 1]
  IN IF n \in 1 .. Len(g.free) - 1 /\ b + g.hdr[b].size = next
     THEN [g EXCEPT !.free = RemoveAt(@, n + 1),
                    !.hdr = merged(@, b, next)]
     ELSE g

\* The block b becomes number k + 1 of the list.
link(g, k, b) ==
  [g EXCEPT !.free = InsertAt(@, k + 1, b), !.hdr = [@ EXCEPT ![b].used = FALSE]]

\* freelist_insert: sorted by address; joined with the next block, then with
\* the one before.
freelist_insert(g, b) ==
  LET k == before(g.free, b) IN join(join(link(g, k, b), k + 1), k)

\* heap_add_page: alloc_page answers with the lowest free page.  With none left
\* it answers PMM_INVALID_ADDR, which is not NULL: the header is written there
\* and the kernel faults.
heap_add_page(g) ==
  IF g.fault \/ g.pool = {}
  THEN [g EXCEPT !.fault = TRUE]
  ELSE LET b == Min(g.pool) * HeapPage IN
       freelist_insert(
         [g EXCEPT !.pool = @ \ {Min(@)},
                   !.own = @ \cup {Min(g.pool)},
                   !.hdr = [@ EXCEPT ![b] = FreeHeader(HeapPage)]],
         b)

\* n calls of heap_add_page.
add_pages(g, n) ==
  LET f[i \in 0 .. n] == IF i = 0 THEN g ELSE heap_add_page(f[i - 1])
  IN f[n]

ExpandOnePage(g, need) == add_pages(g, need \div HeapPage)

\* heap_expand.
heap_expand(g, need) ==
  add_pages(g, (need + HeapPage - 1) \div HeapPage)

\* freelist_find_fit: the first block of the list that is large enough.
freelist_find_fit(g, need) ==
  LET large == {n \in DOMAIN g.free : ~g.hdr[g.free[n]].used
                                        /\ g.hdr[g.free[n]].size >= need}
  IN IF large = {} THEN NULL ELSE g.free[Min(large)]

\* freelist_remove of a block on the list.
freelist_remove(g, b) ==
  [g EXCEPT !.free = RemoveAt(@, CHOOSE n \in DOMAIN @ : @[n] = b)]

SplitDropsRest(g, b, need) ==
  IF g.hdr[b].size < need + HeapMinTotal THEN g ELSE [g EXCEPT !.hdr[b].size = need]

\* block_split: what is left over goes back to the list if a block fits in it.
block_split(g, b, need) ==
  LET rest == b + need
      remain == g.hdr[b].size - need
  IN IF g.hdr[b].size < need + HeapMinTotal
     THEN g
     ELSE freelist_insert(
            [g EXCEPT !.hdr = [@ EXCEPT ![b].size = need,
                                        ![rest] = FreeHeader(remain)]],
            rest)

-----------------------------------------------------------------------------
(* The interface.                                                          *)

\* After init_heap.
HeapInit ==
  /\ h = add_pages([free |-> <<>>,
                    hdr |-> [a \in Addr |-> NoHeader],
                    pool |-> Pages,
                    own |-> {},
                    fault |-> FALSE], InitPages)
  /\ live = << >>

\* The size of the block for a request.
need_total(size) ==
  LET n == align_up(Hdr + size) IN IF n < HeapMinTotal THEN HeapMinTotal ELSE n

\* The heap after the search, grown if nothing was found.
grown(need) == IF freelist_find_fit(h, need) = NULL THEN heap_expand(h, need) ELSE h

\* The heap after block b of it was taken for a request that fits.
taken(g, b, need) ==
  LET s == block_split(freelist_remove(g, b), b, need)
  IN [s EXCEPT !.hdr = [@ EXCEPT ![b].used = TRUE]]

\* kmalloc answers the payload of the block, or NULL: for no bytes, and when the
\* pages it took do not lie side by side; those stay in the heap.
kmalloc(size) ==
  /\ ~h.fault
  /\ size > 0
  /\ Cardinality(DOMAIN live) < MaxLive
  /\ LET need == need_total(size)
         g == grown(need)
         b == freelist_find_fit(g, need)
     IN IF g.fault \/ b = NULL
        THEN h' = g /\ UNCHANGED live
        ELSE /\ h' = taken(g, b, need)
             /\ live' = [q \in DOMAIN live \cup {b + Hdr} |->
                           IF q = b + Hdr THEN size ELSE live[q]]

FreeTrusts(b) == h.hdr[b].magic

\* block_valid and the test of used.
block_valid(b) ==
  h.hdr[b].magic /\ h.hdr[b].size >= HeapMinTotal /\ h.hdr[b].used

\* kfree of a payload in use, of any other address, or of NULL.  Memory inside a
\* block that is in use is taken not to look like a header.
kfree(p) ==
  /\ ~h.fault
  /\ h' = IF p = NULL \/ ~block_valid(p - Hdr) THEN h
                                               ELSE freelist_insert(h, p - Hdr)
  /\ live' = [q \in DOMAIN live \ {p} |-> live[q]]

Payload == {b + Hdr : b \in Aligned}

\* Another part of the kernel takes a page.
pmm_other ==
  /\ ~h.fault
  /\ h.pool # {}
  /\ h' = [h EXCEPT !.pool = @ \ {Min(@)}]
  /\ UNCHANGED live

HeapNext ==
  \/ \E size \in Sizes : kmalloc(size)
  \/ \E p \in Payload \cup {NULL} : kfree(p)
  \/ pmm_other

HeapSpec == HeapInit /\ [][HeapNext]_heapVars

-----------------------------------------------------------------------------
(* Properties.                                                             *)

\* Type invariant: what is on the list or handed out is aligned (heap.h), and a
\* header counts its block's bytes.
HeapTypeOK ==
  /\ h.free \in Seq(Aligned)
  /\ h.hdr \in [Addr -> [size : Nat, magic : BOOLEAN, used : BOOLEAN]]
  /\ h.pool \subseteq Pages
  /\ h.own \subseteq Pages \ h.pool
  /\ h.fault \in BOOLEAN
  /\ DOMAIN live \subseteq Aligned
  /\ live \in [DOMAIN live -> Sizes]

Covers(b, a) == b <= a /\ a < b + h.hdr[b].size

\* The blocks tile the pages the heap took: every byte of them is in exactly one
\* block and no block reaches beyond, however often blocks are split and joined,
\* across page borders too.  No byte leaks, none is handed out twice.
BlocksTile ==
  \A a \in Addr : Cardinality({b \in Blocks : Covers(b, a)}) =
                    IF \E p \in h.own : a \in PageAddr(p) THEN 1 ELSE 0

\* The free list is sorted, holds exactly the blocks not in use, and never two
\* that touch: coalescing is complete.
FreeListExact ==
  /\ {h.free[i] : i \in DOMAIN h.free} = Blocks \ UsedBlocks
  /\ \A i \in 1 .. Len(h.free) - 1 :
       h.free[i] + h.hdr[h.free[i]].size < h.free[i + 1]

\* Every allocation in use has a block of its own that is large enough, aligned
\* and marked used; no other block is marked used.
LiveIntact ==
  /\ UsedBlocks = {p - Hdr : p \in DOMAIN live}
  /\ \A p \in DOMAIN live : h.hdr[p - Hdr].size >= Hdr + live[p]

\* After any sequence of kmalloc and kfree the heap is whole: everything handed
\* out is aligned (heap.h), blocks neither overlap nor leave gaps, the free list
\* is complete and joined, and every allocation still has its own block.
HeapSound == HeapTypeOK /\ BlocksTile /\ FreeListExact /\ LiveIntact

\* kfree of a pointer that is not in use changes nothing, as heap.h promises:
\* one that was freed before, wherever its old header has gone by now.
StaleFreeIgnored ==
  [][\A p \in Payload : kfree(p) => p \in DOMAIN live]_heapVars

\* A request that fits in a page is never answered with NULL: a heap that is
\* too fragmented grows by enough.
SmallNeverNull ==
  ~h.fault =>
    \A size \in Sizes \ {0} :
      LET need == need_total(size)
          g == grown(need)
      IN need <= HeapPage => g.fault \/ freelist_find_fit(g, need) # NULL

=============================================================================
