-------------------------------- MODULE Pmm --------------------------------
(***************************************************************************)
(* The physical page allocator: src/kernel/memory/pmm.c with its bitmap    *)
(* back end pmm_allocator_bitmap.c and bitmap.c.                           *)
(*                                                                         *)
(* init_pmm walks over the memory map that the boot loader passes and over *)
(* the ranges to reserve; each range is one step.  Afterwards the kernel   *)
(* asks for pages and gives them back.  There is no lock: boot code, and   *)
(* then the one user task, are the only callers.                           *)
(***************************************************************************)
EXTENDS Integers, Sequences, FiniteSets

CONSTANTS
  PageSize,    \* PAGE_SIZE, in address units
  MaxPages,    \* PMM_MAX_PAGES
  MemMaps,     \* the memory maps the firmware may report
  KernelStart, \* __bootstrap_start
  KernelEnd,   \* __kernel_phys_end
  BootInfo,    \* CSOS_BOOT_INFO_ADDR
  MapAddr,     \* boot->memory_map
  MapSize,     \* boot->memory_map_size
  Trampoline,  \* SMP_TRAMPOLINE_PHYS, where start_one_ap copies the AP's code
  Invalid      \* PMM_INVALID_ADDR

\* A descriptor of the memory map: `usable' stands for the types that
\* region_is_usable accepts.
Descriptor == [start : Nat, pages : Nat, usable : BOOLEAN]

ASSUME PmmAssumption ==
  /\ PageSize \in Nat \ {0}
  /\ MaxPages \in Nat
  /\ MemMaps \subseteq Seq(Descriptor)
  /\ KernelStart \in Nat /\ KernelEnd \in Nat
  /\ BootInfo \in Nat /\ MapAddr \in Nat /\ MapSize \in Nat
  /\ Trampoline \in Nat
  /\ Invalid \notin Nat

VARIABLES
  memmap,        \* the memory map at boot->memory_map
  phase,         \* how far init_pmm is
  max_end,       \* local of init_pmm: end of the highest usable region so far
  pos,           \* the descriptor, or the range to reserve, that is next
  used,          \* the pages whose bit in page_bitmap is 1
  managed_pages, \* also page_bitmap.size
  free_pages,
  grants,        \* grants[p]: times p was handed out and not given back
  result         \* what alloc_page returned, if it was called last, else 0

vars == <<memmap, phase, max_end, pos, used, managed_pages, free_pages, grants,
          result>>

Page == 0 .. MaxPages-1

page_align_down(a) == a \div PageSize
page_align_up(a) == (a + PageSize - 1) \div PageSize

\* The pages a range covers wholly, and those it touches, below managed_pages.
Inside(start, end) ==
  {p \in Page : page_align_up(start) <= p /\ p < page_align_down(end)
                  /\ p < managed_pages}
Touched(start, end) ==
  {p \in Page : page_align_down(start) <= p /\ p < page_align_up(end)
                  /\ p < managed_pages}

-----------------------------------------------------------------------------
(* The bitmap back end.                                                    *)

bitmap_test(p) == p >= managed_pages \/ p \in used

MarkUsedInside(start, end) ==
  LET pages == {p \in Inside(start, end) : ~bitmap_test(p)} IN
  /\ used' = used \cup pages
  /\ free_pages' = free_pages - Cardinality(pages)

bitmap_mark_used(start, end) ==
  LET pages == {p \in Touched(start, end) : ~bitmap_test(p)} IN
  /\ used' = used \cup pages
  /\ free_pages' = IF free_pages >= Cardinality(pages)
                   THEN free_pages - Cardinality(pages) ELSE 0

bitmap_mark_free(start, end) ==
  LET pages == {p \in Inside(start, end) : bitmap_test(p)} IN
  /\ used' = used \ pages
  /\ free_pages' = free_pages + Cardinality(pages)

ClearButLast == {p \in Page : p + 1 < managed_pages /\ ~bitmap_test(p)}

\* The pages bitmap_find_first_clear chooses from.
Clear == {p \in Page : ~bitmap_test(p)}

-----------------------------------------------------------------------------
(* init_pmm.                                                               *)

RegionEnd(d) == d.start + d.pages * PageSize

\* What init_pmm reserves, in this order: page 0, the kernel image, the boot
\* information and the memory map itself.
Ranges == << [start |-> 0, end |-> PageSize],
             [start |-> KernelStart, end |-> KernelEnd],
             [start |-> BootInfo, end |-> BootInfo + PageSize],
             [start |-> MapAddr, end |-> MapAddr + MapSize] >>

Init ==
  /\ memmap \in MemMaps
  /\ phase = "scan"
  /\ max_end = 0
  /\ pos = 1
  /\ used = {}
  /\ managed_pages = 0
  /\ free_pages = 0
  /\ grants = [p \in Page |-> 0]
  /\ result = 0

\* bitmap_allocator_init: every page is used until a usable region says else.
bitmap_allocator_init(pages) ==
  /\ used' = Page
  /\ free_pages' = 0
  /\ managed_pages' = pages

\* init_pmm gives up on a bad boot_info: nothing is managed.
init_refuse ==
  /\ phase = "scan" /\ pos = 1
  /\ phase' = "ready"
  /\ UNCHANGED <<memmap, max_end, pos, used, managed_pages, free_pages, grants,
                 result>>

\* init_pmm, first pass over the memory map: one descriptor.
init_scan ==
  /\ phase = "scan"
  /\ pos <= Len(memmap)
  /\ LET d == memmap[pos] IN
       max_end' = IF d.usable /\ RegionEnd(d) > max_end THEN RegionEnd(d)
                                                        ELSE max_end
  /\ pos' = pos + 1
  /\ UNCHANGED <<memmap, phase, used, managed_pages, free_pages, grants, result>>

\* max_end is cut at PMM_MAX_PHYS.
managed == IF max_end > MaxPages * PageSize THEN MaxPages
                                            ELSE max_end \div PageSize

init_scan_done ==
  /\ phase = "scan"
  /\ pos > Len(memmap)
  /\ bitmap_allocator_init(managed)
  /\ phase' = "free"
  /\ pos' = 1
  /\ UNCHANGED <<memmap, max_end, grants, result>>

\* init_pmm, second pass: one descriptor.
init_free ==
  /\ phase = "free"
  /\ pos <= Len(memmap)
  /\ IF memmap[pos].usable
     THEN bitmap_mark_free(memmap[pos].start, RegionEnd(memmap[pos]))
     ELSE UNCHANGED <<used, free_pages>>
  /\ pos' = pos + 1
  /\ UNCHANGED <<memmap, phase, max_end, managed_pages, grants, result>>

init_free_done ==
  /\ phase = "free"
  /\ pos > Len(memmap)
  /\ phase' = "reserve"
  /\ pos' = 1
  /\ UNCHANGED <<memmap, max_end, used, managed_pages, free_pages, grants,
                 result>>

\* init_pmm: one mark_used of a range the kernel needs.
init_reserve ==
  /\ phase = "reserve"
  /\ bitmap_mark_used(Ranges[pos].start, Ranges[pos].end)
  /\ IF pos = Len(Ranges)
     THEN phase' = "ready" /\ pos' = 1
     ELSE phase' = phase /\ pos' = pos + 1
  /\ UNCHANGED <<memmap, max_end, managed_pages, grants, result>>

-----------------------------------------------------------------------------
(* The kernel's use of it.                                                 *)

TakeKeepsBit(p) == UNCHANGED <<used, free_pages>>

\* The page found is marked.
take(p) ==
  /\ used' = used \cup {p}
  /\ free_pages' = free_pages - 1

\* alloc_page: the first clear page, or PMM_INVALID_ADDR.
alloc_page ==
  /\ phase = "ready"
  /\ IF Clear = {}
     THEN /\ result' = Invalid
          /\ UNCHANGED <<used, free_pages, grants>>
     ELSE \E p \in Clear :
          /\ \A q \in Clear : p <= q
          /\ take(p)
          /\ result' = p * PageSize
          /\ grants' = [grants EXCEPT ![p] = @ + 1]
  /\ UNCHANGED <<memmap, phase, max_end, pos, managed_pages>>

FreeCountsAlways(p) == used' = used \ {p} /\ free_pages' = free_pages + 1

\* The bit of a page that is given back: freeing a free page changes nothing.
give_back(p) ==
  IF bitmap_test(p)
  THEN used' = used \ {p} /\ free_pages' = free_pages + 1
  ELSE UNCHANGED <<used, free_pages>>

\* PMM_INVALID_ADDR, an address that is not a page's or is not managed.
ignored(a) ==
  a = Invalid \/ (a \in Nat /\ (a % PageSize # 0 \/ a \div PageSize >= managed_pages))

\* free_page of an address the caller holds, of one that is free already (it
\* was given back before), or of one that is ignored.
free_page(a) ==
  /\ phase = "ready"
  /\ IF ignored(a)
     THEN UNCHANGED <<used, free_pages, grants>>
     ELSE LET p == a \div PageSize IN
          /\ grants[p] > 0 \/ p \notin used
          /\ give_back(p)
          /\ grants' = [grants EXCEPT ![p] = IF @ > 0 THEN @ - 1 ELSE 0]
  /\ result' = 0
  /\ UNCHANGED <<memmap, phase, max_end, pos, managed_pages>>

\* The addresses free_page is called with.
Address == 0 .. MaxPages * PageSize

Next ==
  \/ init_refuse
  \/ init_scan
  \/ init_scan_done
  \/ init_free
  \/ init_free_done
  \/ init_reserve
  \/ alloc_page
  \/ \E a \in Address \cup {Invalid} : free_page(a)

Spec == Init /\ [][Next]_vars

-----------------------------------------------------------------------------
(* Properties.                                                             *)

\* Type invariant.
TypeOK ==
  /\ memmap \in MemMaps
  /\ phase \in {"scan", "free", "reserve", "ready"}
  /\ max_end \in Nat
  /\ pos \in Nat \ {0}
  /\ used \subseteq Page
  /\ managed_pages \in 0 .. MaxPages
  /\ free_pages \in Nat
  /\ grants \in [Page -> Nat]
  /\ result \in Nat \cup {Invalid}

\* free_pages, which alloc_page decrements without looking and pmm_free_pages
\* reports, is the number of clear bits below managed_pages in every state.
FreeCountExact ==
  free_pages = Cardinality({p \in Page : p < managed_pages /\ p \notin used})

\* No page is handed out twice: whoever holds a page is the only one.
GrantedOnce ==
  \A p \in Page : grants[p] <= 1 /\ (grants[p] = 1 => p \in used)

\* No page that init_pmm reserves is ever handed out, whatever is freed: page
\* 0, which would read as NULL, the kernel, the boot information, the map.
ReservedKept ==
  phase = "ready" =>
    \A i \in DOMAIN Ranges : \A p \in Touched(Ranges[i].start, Ranges[i].end) :
      p \in used /\ grants[p] = 0

\* What alloc_page answers is true: a page that lies wholly inside one usable
\* region, or PMM_INVALID_ADDR only when nothing is free, so that the search
\* reaches every managed page and none beyond.
AnswersTrue ==
  /\ \A p \in Page : grants[p] > 0 =>
       \E i \in DOMAIN memmap : /\ memmap[i].usable
                                /\ memmap[i].start <= p * PageSize
                                /\ (p + 1) * PageSize <= RegionEnd(memmap[i])
  /\ result = Invalid => free_pages = 0

\* The page the application processors start from is one the kernel occupies,
\* so alloc_page does not hand it out.
TrampolineSpared ==
  \A p \in Page : p = Trampoline \div PageSize => grants[p] = 0

=============================================================================
