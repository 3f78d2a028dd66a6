----------------------------- MODULE CoreProofs -----------------------------
(***************************************************************************)
(* Proofs about the parts of the kernel below the scheduler, which MCCore  *)
(* instantiates for TLC:                                                   *)
(*  - the page allocator, for every memory map and page size;              *)
(*  - the heap, for every page and header size and every set of requests;  *)
(*  - the bring-up of processors, for every number of them and every set   *)
(*    of dead ones, as long as only the last may be late: the start of a   *)
(*    next processor would overwrite the record a late one still reads.    *)
(***************************************************************************)
EXTENDS Pmm, Heap, Smp, Iteration, SequenceTheorems, FiniteSetTheorems, TLAPS

-----------------------------------------------------------------------------
(* The page allocator.                                                     *)

USE PmmAssumption DEF Page

\* The managed pages that are free: what free_pages counts.
FreeSet == {p \in Page : p < managed_pages /\ p \notin used}

\* The ranges that have been reserved so far are.
ReservedSoFar ==
  /\ phase = "reserve" =>
       /\ pos \in 1 .. 4
       /\ \A k \in 1 .. pos - 1 : Touched(Ranges[k].start, Ranges[k].end) \subseteq used
  /\ phase = "ready" =>
       \A k \in 1 .. 4 : Touched(Ranges[k].start, Ranges[k].end) \subseteq used

\* Nothing is handed out before init_pmm is done, and what is handed out is
\* managed, used, handed out once and not reserved.
GrantInv ==
  \A p \in Page :
    /\ grants[p] \in {0, 1}
    /\ grants[p] = 1 =>
         /\ phase = "ready"
         /\ p \in used
         /\ p < managed_pages
         /\ \A k \in 1 .. 4 : p \notin Touched(Ranges[k].start, Ranges[k].end)

\* Before the scan is over nothing is managed, and the map is walked from 1 on.
ScanInv == phase = "scan" => managed_pages = 0 /\ free_pages = 0

\* The inductive invariant.  FreeCountExact needs no more than types; that a
\* page is handed out once needs to know that a granted page is marked used.
PmmInv == TypeOK /\ FreeCountExact /\ ReservedSoFar /\ GrantInv /\ ScanInv

\* Any set of pages is finite and can be counted.
LEMMA PagesFinite ==
  ASSUME NEW S, S \subseteq Page
  PROVE  IsFiniteSet(S) /\ Cardinality(S) \in Nat
<1>1. IsFiniteSet(Page)
  BY FS_Interval
<1>2. IsFiniteSet(S)
  BY <1>1, FS_Subset
<1> QED
  BY <1>2, FS_CardinalityType

\* Counting after a set of free pages is taken away.
LEMMA CountMinus ==
  ASSUME NEW S, S \subseteq Page, NEW T, T \subseteq S
  PROVE  /\ Cardinality(S \ T) = Cardinality(S) - Cardinality(T)
         /\ Cardinality(T) <= Cardinality(S)
<1>1. /\ IsFiniteSet(S \ T) /\ IsFiniteSet(T) /\ IsFiniteSet(S)
      /\ Cardinality(S \ T) \in Nat
      /\ Cardinality(S) \in Nat /\ Cardinality(T) \in Nat
  BY PagesFinite
<1>2. /\ (S \ T) \cup T = S
      /\ (S \ T) \cap T = {}
  OBVIOUS
<1>3. Cardinality((S \ T) \cup T) =
        Cardinality(S \ T) + Cardinality(T) - Cardinality((S \ T) \cap T)
  BY <1>1, FS_Union
<1>4. Cardinality({}) = 0
  BY FS_EmptySet
<1>5. Cardinality(S) = Cardinality(S \ T) + Cardinality(T) - Cardinality({})
  BY <1>2, <1>3, Zenon
<1> QED
  BY <1>1, <1>4, <1>5

\* Reserving a range takes exactly its free pages out of the count.
LEMMA MarkUsedCount ==
  ASSUME TypeOK, FreeCountExact, NEW s, NEW e, bitmap_mark_used(s, e),
         UNCHANGED managed_pages
  PROVE  /\ FreeCountExact'
         /\ free_pages' \in Nat
         /\ used' = used \cup Touched(s, e)
         /\ used' \subseteq Page
<1> DEFINE T == {p \in Touched(s, e) : ~bitmap_test(p)}
           n == Cardinality(T)
<1>1. /\ used' = used \cup T
      /\ free_pages' = IF free_pages >= n THEN free_pages - n ELSE 0
  BY DEF bitmap_mark_used
<1>2. T \subseteq FreeSet /\ FreeSet \subseteq Page
  BY DEF FreeSet, Touched, bitmap_test
<1>3. used' = used \cup Touched(s, e)
  BY <1>1 DEF Touched, bitmap_test, TypeOK
<1>4. FreeSet' = FreeSet \ T
  BY <1>1 DEF FreeSet
<1>5. free_pages = Cardinality(FreeSet)
  BY DEF FreeCountExact, FreeSet
<1> HIDE DEF T
<1>6. /\ Cardinality(FreeSet \ T) = Cardinality(FreeSet) - n
      /\ n <= Cardinality(FreeSet) /\ n \in Nat
  BY <1>2, CountMinus, PagesFinite
<1>7. free_pages' = free_pages - n /\ free_pages' \in Nat
  BY <1>1, <1>5, <1>6 DEF TypeOK
<1>8. free_pages' = Cardinality(FreeSet')
  BY <1>4, <1>5, <1>6, <1>7
<1>9. used' \subseteq Page
  BY <1>1, <1>2 DEF TypeOK
<1> QED
  BY <1>3, <1>7, <1>8, <1>9 DEF FreeCountExact, FreeSet

\* Freeing a range adds exactly its used pages to the count.
LEMMA MarkFreeCount ==
  ASSUME TypeOK, FreeCountExact, NEW s, NEW e, bitmap_mark_free(s, e),
         UNCHANGED managed_pages
  PROVE  /\ FreeCountExact'
         /\ free_pages' \in Nat
         /\ used' \subseteq used
<1> DEFINE T == {p \in Inside(s, e) : bitmap_test(p)}
           n == Cardinality(T)
<1>1. /\ used' = used \ T
      /\ free_pages' = free_pages + n
  BY DEF bitmap_mark_free
<1>2. /\ T \subseteq Page /\ T \cap FreeSet = {} /\ FreeSet \subseteq Page
      /\ \A p \in T : p < managed_pages
  BY DEF FreeSet, Inside, bitmap_test, TypeOK
<1>3. FreeSet' = FreeSet \cup T
  BY <1>1, <1>2 DEF FreeSet
<1>4. free_pages = Cardinality(FreeSet)
  BY DEF FreeCountExact, FreeSet
<1> HIDE DEF T
<1>5. /\ FreeSet' \ T = FreeSet
      /\ T \subseteq FreeSet'
      /\ FreeSet' \subseteq Page
  BY <1>2, <1>3
<1>6. /\ Cardinality(FreeSet' \ T) = Cardinality(FreeSet') - n
      /\ n \in Nat /\ Cardinality(FreeSet') \in Nat
  BY <1>5, CountMinus, PagesFinite
<1>9. Cardinality(FreeSet) = Cardinality(FreeSet') - n
  BY <1>5, <1>6, Zenon
<1>7. free_pages' = Cardinality(FreeSet')
  BY <1>1, <1>4, <1>6, <1>9
<1>8. free_pages' \in Nat
  BY <1>6, <1>7
<1> QED
  BY <1>1, <1>7, <1>8 DEF FreeCountExact, FreeSet

\* What bitmap_find_first_clear finds is free.
LEMMA ClearIsFree ==
  ASSUME TypeOK PROVE Clear = FreeSet
BY DEF Clear, FreeSet, bitmap_test, TypeOK

\* The four ranges init_pmm reserves.
LEMMA RangesLength == Len(Ranges) = 4 /\ DOMAIN Ranges = 1 .. 4
BY DEF Ranges

\* The initial state.
LEMMA InitPmm == Init => PmmInv
<1> SUFFICES ASSUME Init PROVE PmmInv
  OBVIOUS
<1>1. TypeOK
  BY DEF Init, TypeOK
<1>2. FreeSet = {}
  BY DEF Init, FreeSet
<1>3. FreeCountExact
  BY <1>2, FS_EmptySet DEF Init, FreeCountExact, FreeSet
<1>4. ReservedSoFar /\ GrantInv /\ ScanInv
  BY DEF Init, ReservedSoFar, GrantInv, ScanInv
<1> QED
  BY <1>1, <1>3, <1>4 DEF PmmInv

\* The steps of init_pmm that only look at the memory map.
LEMMA ScanStep ==
  ASSUME PmmInv, init_refuse \/ init_scan \/ init_free_done PROVE PmmInv'
<1> USE DEF PmmInv
<1>0. memmap \in Seq(Descriptor)
  BY DEF TypeOK
<1>1. CASE init_refuse
  <2>1. \A s, e : Touched(s, e)' = {}
    BY <1>1 DEF ScanInv, init_refuse, Touched
  <2> QED
    BY <1>1, <2>1 DEF init_refuse, TypeOK, FreeCountExact, ReservedSoFar,
                      GrantInv, ScanInv
<1>2. CASE init_scan
  <2>1. memmap[pos] \in Descriptor
    BY <1>0, <1>2 DEF init_scan, TypeOK
  <2>2. RegionEnd(memmap[pos]) \in Nat
    BY <2>1 DEF Descriptor, RegionEnd
  <2>3. max_end' \in Nat
    BY <1>2, <2>2 DEF init_scan, TypeOK
  <2> QED
    BY <1>2, <2>3 DEF init_scan, TypeOK, FreeCountExact, ReservedSoFar,
                      GrantInv, ScanInv, Touched
<1>3. CASE init_free_done
  BY <1>3 DEF init_free_done, TypeOK, FreeCountExact, ReservedSoFar,
              GrantInv, ScanInv, Touched
<1> QED
  BY <1>1, <1>2, <1>3

\* The number of managed pages fits the bitmap.
LEMMA ManagedType == ASSUME TypeOK PROVE managed \in 0 .. MaxPages
<1>1. CASE max_end > MaxPages * PageSize
  BY <1>1 DEF managed
<1>2. CASE ~(max_end > MaxPages * PageSize)
  <2>1. max_end \in Nat /\ max_end <= MaxPages * PageSize
    BY <1>2 DEF TypeOK
  <2>2. max_end \div PageSize \in Nat
    BY <2>1
  <2>3. max_end \div PageSize <= MaxPages
    BY <2>1, SMTT(30)
  <2> QED
    BY <1>2, <2>2, <2>3 DEF managed
<1> QED
  BY <1>1, <1>2

\* bitmap_allocator_init: nothing is free yet.
LEMMA ScanDoneStep == ASSUME PmmInv, init_scan_done PROVE PmmInv'
<1> USE DEF PmmInv
<1>0. managed \in 0 .. MaxPages
  BY ManagedType
<1>1. /\ used' = Page /\ free_pages' = 0 /\ managed_pages' = managed
      /\ phase = "scan" /\ phase' = "free" /\ pos' = 1
      /\ UNCHANGED <<memmap, max_end, grants, result>>
  BY DEF init_scan_done, bitmap_allocator_init
<1>2. TypeOK'
  BY <1>0, <1>1 DEF TypeOK
<1>3. FreeSet' = {}
  BY <1>1 DEF FreeSet
<1>4. FreeCountExact'
  BY <1>1, <1>3, FS_EmptySet DEF FreeCountExact, FreeSet
<1>5. GrantInv'
  BY <1>1 DEF GrantInv
<1>6. ReservedSoFar' /\ ScanInv'
  BY <1>1 DEF ReservedSoFar, ScanInv
<1> QED
  BY <1>2, <1>4, <1>5, <1>6

\* The second pass over the memory map.
LEMMA FreeStep == ASSUME PmmInv, init_free PROVE PmmInv'
<1> USE DEF PmmInv
<1>1. /\ phase = "free" /\ pos' = pos + 1
      /\ UNCHANGED <<memmap, phase, max_end, managed_pages, grants, result>>
  BY DEF init_free
<1>2. FreeCountExact' /\ free_pages' \in Nat /\ used' \subseteq used
  <2>1. CASE memmap[pos].usable
    BY <1>1, <2>1, MarkFreeCount DEF init_free
  <2>2. CASE ~memmap[pos].usable
    BY <1>1, <2>2 DEF init_free, FreeCountExact, TypeOK
  <2> QED
    BY <2>1, <2>2
<1>3. TypeOK'
  BY <1>1, <1>2 DEF TypeOK
<1>4. ReservedSoFar' /\ GrantInv' /\ ScanInv'
  BY <1>1 DEF ReservedSoFar, GrantInv, ScanInv
<1> QED
  BY <1>2, <1>3, <1>4

\* Reserving a range.
LEMMA ReserveStep == ASSUME PmmInv, init_reserve PROVE PmmInv'
<1> USE DEF PmmInv
<1> DEFINE s == Ranges[pos].start
           e == Ranges[pos].end
<1>1. /\ phase = "reserve" /\ pos \in 1 .. 4
      /\ UNCHANGED <<memmap, max_end, managed_pages, grants, result>>
      /\ bitmap_mark_used(s, e)
      /\ pos = 4 => phase' = "ready" /\ pos' = 1
      /\ pos # 4 => phase' = "reserve" /\ pos' = pos + 1
  BY RangesLength DEF init_reserve, ReservedSoFar
<1>2. /\ FreeCountExact' /\ free_pages' \in Nat
      /\ used' = used \cup Touched(s, e)
      /\ used' \subseteq Page
  BY <1>1, MarkUsedCount
<1>3. TypeOK'
  BY <1>1, <1>2 DEF TypeOK
<1>4. \A k \in 1 .. pos : Touched(Ranges[k].start, Ranges[k].end)' \subseteq used'
  <2>1. \A k \in 1 .. pos : Touched(Ranges[k].start, Ranges[k].end)'
                              = Touched(Ranges[k].start, Ranges[k].end)
    BY <1>1 DEF Touched
  <2>2. \A k \in 1 .. pos - 1 :
          Touched(Ranges[k].start, Ranges[k].end) \subseteq used
    BY <1>1 DEF ReservedSoFar
  <2>3. \A k \in 1 .. pos : k \in 1 .. pos - 1 \/ k = pos
    BY <1>1
  <2> QED
    BY <1>2, <2>1, <2>2, <2>3
<1>5. ReservedSoFar'
  BY <1>1, <1>4 DEF ReservedSoFar
<1>6. GrantInv' /\ ScanInv'
  BY <1>1 DEF GrantInv, ScanInv
<1> QED
  BY <1>2, <1>3, <1>5, <1>6

\* alloc_page.
LEMMA AllocStep == ASSUME PmmInv, alloc_page PROVE PmmInv'
<1> USE DEF PmmInv
<1>0. /\ phase = "ready"
      /\ UNCHANGED <<memmap, phase, max_end, pos, managed_pages>>
  BY DEF alloc_page
<1>t. \A x, y : Touched(x, y)' = Touched(x, y)
  BY <1>0 DEF Touched
<1>1. CASE Clear = {}
  <2>1. result' = Invalid /\ UNCHANGED <<used, free_pages, grants>>
    BY <1>1 DEF alloc_page
  <2> QED
    BY <1>0, <1>t, <2>1 DEF TypeOK, FreeCountExact, ReservedSoFar, GrantInv,
                            ScanInv
<1>2. CASE Clear # {}
  <2>1. PICK p \in Clear :
          /\ take(p)
          /\ result' = p * PageSize
          /\ grants' = [grants EXCEPT ![p] = grants[p] + 1]
    BY <1>2 DEF alloc_page
  <2>2. p \in FreeSet /\ p \in Page
    BY ClearIsFree DEF FreeSet
  <2>3. grants[p] = 0
    BY <2>2 DEF GrantInv, FreeSet
  <2>4. /\ used' = used \cup {p}
        /\ free_pages' = free_pages - 1
    BY <2>1 DEF take
  <2>5. FreeSet' = FreeSet \ {p}
    BY <1>0, <2>4 DEF FreeSet
  <2>6. /\ Cardinality(FreeSet') = Cardinality(FreeSet) - 1
        /\ Cardinality(FreeSet') \in Nat
    <3>1. {p} \subseteq FreeSet /\ FreeSet \subseteq Page /\ FreeSet' \subseteq Page
      BY <2>2 DEF FreeSet
    <3>2. Cardinality(FreeSet \ {p}) = Cardinality(FreeSet) - Cardinality({p})
      BY <3>1, CountMinus
    <3>3. Cardinality({p}) = 1
      BY FS_Singleton
    <3>4. Cardinality(FreeSet') \in Nat
      BY <3>1, PagesFinite
    <3> QED
      BY <2>5, <3>2, <3>3, <3>4
  <2>7. FreeCountExact' /\ free_pages' \in Nat
    BY <2>4, <2>6 DEF FreeCountExact, FreeSet
  <2>8. p * PageSize \in Nat
    BY <2>2
  <2>9. TypeOK'
    BY <1>0, <2>1, <2>2, <2>4, <2>7, <2>8 DEF TypeOK
  <2>10. ReservedSoFar'
    BY <1>0, <1>t, <2>4 DEF ReservedSoFar
  <2>11. \A k \in 1 .. 4 : p \notin Touched(Ranges[k].start, Ranges[k].end)
    BY <1>0, <2>2 DEF ReservedSoFar, FreeSet
  <2>12. ASSUME NEW q \in Page
         PROVE  /\ grants'[q] \in {0, 1}
                /\ grants'[q] = 1 =>
                     /\ q \in used' /\ q < managed_pages'
                     /\ \A k \in 1 .. 4 :
                          q \notin Touched(Ranges[k].start, Ranges[k].end)'
    <3>1. CASE q = p
      BY <1>0, <1>t, <2>1, <2>2, <2>3, <2>4, <2>11, <3>1 DEF TypeOK, FreeSet
    <3>2. CASE q # p
      BY <1>0, <1>t, <2>1, <2>4, <3>2 DEF TypeOK, GrantInv
    <3> QED
      BY <3>1, <3>2
  <2>13. GrantInv' /\ ScanInv'
    BY <1>0, <2>12 DEF GrantInv, ScanInv
  <2> QED
    BY <2>7, <2>9, <2>10, <2>13
<1> QED
  BY <1>1, <1>2

\* free_page.
LEMMA FreePageStep ==
  ASSUME PmmInv, NEW a \in Address \cup {Invalid}, free_page(a) PROVE PmmInv'
<1> USE DEF PmmInv
<1>0. /\ phase = "ready" /\ result' = 0
      /\ UNCHANGED <<memmap, phase, max_end, pos, managed_pages>>
  BY DEF free_page
<1>t. \A x, y : Touched(x, y)' = Touched(x, y)
  BY <1>0 DEF Touched
<1>1. CASE ignored(a)
  <2>1. UNCHANGED <<used, free_pages, grants>>
    BY <1>1 DEF free_page
  <2> QED
    BY <1>0, <1>t, <2>1 DEF TypeOK, FreeCountExact, ReservedSoFar, GrantInv,
                            ScanInv
<1>2. CASE ~ignored(a)
  <2> DEFINE p == a \div PageSize
  <2>1. a \in Nat
    <3>1. a # Invalid
      BY <1>2 DEF ignored
    <3> QED
      BY <3>1 DEF Address
  <2>2. p \in Nat /\ p < managed_pages
    <3>1. p \in Nat
      BY <2>1
    <3>2. ~(p >= managed_pages)
      BY <1>2, <2>1 DEF ignored
    <3> QED
      BY <3>1, <3>2 DEF TypeOK
  <2>3. p \in Page
    BY <2>2 DEF TypeOK
  <2>4. /\ grants[p] > 0 \/ p \notin used
        /\ give_back(p)
        /\ grants' = [grants EXCEPT ![p] = IF grants[p] > 0 THEN grants[p] - 1
                                                           ELSE 0]
    BY <1>2 DEF free_page
  <2> HIDE DEF p
  <2>5. bitmap_test(p) <=> p \in used
    BY <2>2 DEF bitmap_test, TypeOK
  <2>6. /\ grants'[p] = 0
        /\ grants' \in [Page -> Nat]
        /\ \A q \in Page \ {p} : grants'[q] = grants[q]
    <3>1. grants[p] \in {0, 1}
      BY <2>3 DEF GrantInv
    <3> QED
      BY <2>3, <2>4, <3>1 DEF TypeOK
  <2>7. CASE p \in used
    <3>1. used' = used \ {p} /\ free_pages' = free_pages + 1
      BY <2>4, <2>5, <2>7 DEF give_back
    <3>2. FreeSet' = FreeSet \cup {p} /\ p \notin FreeSet /\ FreeSet \subseteq Page
      BY <1>0, <2>2, <2>3, <2>7, <3>1 DEF FreeSet
    <3>3. Cardinality(FreeSet') = Cardinality(FreeSet) + 1
      BY <3>2, PagesFinite, FS_AddElement
    <3>4. FreeCountExact' /\ free_pages' \in Nat
      BY <3>1, <3>3 DEF FreeCountExact, FreeSet, TypeOK
    <3>5. TypeOK'
      BY <1>0, <2>6, <3>1, <3>4 DEF TypeOK
    <3>6. grants[p] = 1
      BY <2>3, <2>4, <2>7 DEF GrantInv
    <3>7. \A k \in 1 .. 4 : p \notin Touched(Ranges[k].start, Ranges[k].end)
      BY <2>3, <3>6 DEF GrantInv
    <3>8. ReservedSoFar'
      BY <1>0, <1>t, <3>1, <3>7 DEF ReservedSoFar
    <3>9. ASSUME NEW q \in Page
          PROVE  /\ grants'[q] \in {0, 1}
                 /\ grants'[q] = 1 =>
                      /\ q \in used' /\ q < managed_pages'
                      /\ \A k \in 1 .. 4 :
                           q \notin Touched(Ranges[k].start, Ranges[k].end)'
      <4>1. CASE q = p
        BY <2>6, <4>1
      <4>2. CASE q # p
        BY <1>0, <1>t, <2>6, <3>1, <4>2 DEF GrantInv
      <4> QED
        BY <4>1, <4>2
    <3>10. GrantInv' /\ ScanInv'
      BY <1>0, <3>9 DEF GrantInv, ScanInv
    <3> QED
      BY <3>4, <3>5, <3>8, <3>10
  <2>8. CASE p \notin used
    <3>1. UNCHANGED <<used, free_pages>>
      BY <2>4, <2>5, <2>8 DEF give_back
    <3>2. grants[p] = 0
      BY <2>3, <2>8 DEF GrantInv
    <3>3. grants' = grants
      BY <2>4, <3>2, <2>3 DEF TypeOK
    <3> QED
      BY <1>0, <1>t, <3>1, <3>3 DEF TypeOK, FreeCountExact, ReservedSoFar,
                                    GrantInv, ScanInv
  <2> QED
    BY <2>7, <2>8
<1> QED
  BY <1>1, <1>2

\* Every step keeps the invariant.
LEMMA NextPmm == PmmInv /\ [Next]_vars => PmmInv'
<1> SUFFICES ASSUME PmmInv, [Next]_vars PROVE PmmInv'
  OBVIOUS
<1>1. CASE UNCHANGED vars
  <2>1. \A x, y : Touched(x, y)' = Touched(x, y)
    BY <1>1 DEF vars, Touched
  <2> QED
    BY <1>1, <2>1 DEF vars, PmmInv, TypeOK, FreeCountExact, ReservedSoFar,
                      GrantInv, ScanInv
<1> QED
  BY <1>1, ScanStep, ScanDoneStep, FreeStep, ReserveStep, AllocStep,
     FreePageStep DEF Next

\* The inductive invariant holds in every state of the allocator.
THEOREM PmmInvariant == Spec => []PmmInv
BY InitPmm, NextPmm, PTL DEF Spec

\* The types hold: the count never goes below zero and no page beyond the
\* bitmap is managed, whatever the memory map.
THEOREM PmmTypeCorrect == Spec => []TypeOK
<1>1. PmmInv => TypeOK
  BY DEF PmmInv
<1> QED
  BY <1>1, PmmInvariant, PTL

\* pmm_free_pages is exact for every memory map, through init_pmm and any
\* sequence of alloc_page and free_page, repeated frees included.
THEOREM FreeCountCorrect == Spec => []FreeCountExact
<1>1. PmmInv => FreeCountExact
  BY DEF PmmInv
<1> QED
  BY <1>1, PmmInvariant, PTL

\* No page is handed out twice.
THEOREM GrantedOnceCorrect == Spec => []GrantedOnce
<1>1. PmmInv => GrantedOnce
  BY DEF PmmInv, GrantInv, GrantedOnce
<1> QED
  BY <1>1, PmmInvariant, PTL

\* The pages init_pmm reserves are never handed out.
THEOREM ReservedKeptCorrect == Spec => []ReservedKept
<1>1. PmmInv => ReservedKept
  <2> SUFFICES ASSUME PmmInv, phase = "ready", NEW k \in 1 .. 4,
                      NEW p \in Touched(Ranges[k].start, Ranges[k].end)
               PROVE  p \in used /\ grants[p] = 0
    BY RangesLength DEF ReservedKept
  <2>1. p \in Page
    BY DEF Touched
  <2> QED
    BY <2>1 DEF PmmInv, ReservedSoFar, GrantInv
<1> QED
  BY <1>1, PmmInvariant, PTL

-----------------------------------------------------------------------------
(* What alloc_page answers.  PmmInv says which pages are free; that a free *)
(* page is memory at all comes from the second pass over the memory map,   *)
(* and from the rounding of bitmap_mark_free.                              *)

\* A start rounded up to a page is not before the start.
LEMMA DivUp ==
  ASSUME NEW S \in Nat \ {0}, NEW a \in Nat, NEW p \in Nat,
         (a + S - 1) \div S <= p
  PROVE  a <= p * S
<1> DEFINE q == (a + S - 1) \div S
           r == (a + S - 1) % S
<1>1. q \in Nat /\ r \in 0 .. S - 1 /\ a + S - 1 = S * q + r
  <2>1. a + S - 1 \in Nat
    OBVIOUS
  <2> QED
    BY <2>1, SMTT(30)
<1> HIDE DEF q, r
<1>2. q <= p
  BY DEF q
<1>3. S * q <= S * p
  BY <1>1, <1>2, SMTT(30)
<1>4. p * S = S * p /\ S * p \in Nat /\ S * q \in Nat
  BY <1>1, SMTT(30)
<1> QED
  BY <1>1, <1>3, <1>4

\* An end rounded down to a page is not after the end.
LEMMA DivDown ==
  ASSUME NEW S \in Nat \ {0}, NEW b \in Nat, NEW p \in Nat,
         p < b \div S
  PROVE  (p + 1) * S <= b
<1> DEFINE q == b \div S
           r == b % S
<1>1. q \in Nat /\ r \in 0 .. S - 1 /\ b = S * q + r
  BY SMTT(30)
<1> HIDE DEF q, r
<1>2. p + 1 <= q
  BY <1>1 DEF q
<1>3. S * (p + 1) <= S * q
  BY <1>1, <1>2, SMTT(30)
<1>4. (p + 1) * S = S * (p + 1) /\ S * (p + 1) \in Nat /\ S * q \in Nat
  BY <1>1, SMTT(30)
<1> QED
  BY <1>1, <1>3, <1>4

\* The page lies wholly inside one usable region.
Backed(p) ==
  \E k \in DOMAIN memmap : /\ memmap[k].usable
                           /\ memmap[k].start <= p * PageSize
                           /\ (p + 1) * PageSize <= RegionEnd(memmap[k])

\* What is free or handed out is memory, and after a refusal nothing is free.
AnswerInv ==
  /\ \A p \in Page : p < managed_pages /\ (p \notin used \/ grants[p] > 0) => Backed(p)
  /\ result = Invalid => phase = "ready" /\ free_pages = 0

\* init_pmm frees only pages that lie in the region it is looking at.
LEMMA FreedIsBacked ==
  ASSUME TypeOK, pos <= Len(memmap), memmap[pos].usable,
         NEW p \in Inside(memmap[pos].start, RegionEnd(memmap[pos]))
  PROVE  Backed(p)
<1> DEFINE d == memmap[pos]
<1>1. pos \in DOMAIN memmap /\ d \in Descriptor
  <2>1. memmap \in Seq(Descriptor)
    BY DEF TypeOK
  <2> QED
    BY <2>1 DEF TypeOK
<1>2. d.start \in Nat /\ RegionEnd(d) \in Nat
  BY <1>1 DEF Descriptor, RegionEnd
<1> HIDE DEF d
<1>3. p \in Nat /\ page_align_up(d.start) <= p /\ p < page_align_down(RegionEnd(d))
  BY DEF Inside, d
<1>4. d.start <= p * PageSize
  BY <1>2, <1>3, DivUp DEF page_align_up
<1>5. (p + 1) * PageSize <= RegionEnd(d)
  BY <1>2, <1>3, DivDown DEF page_align_down
<1> QED
  BY <1>1, <1>4, <1>5 DEF Backed, d

\* Every step keeps it.
LEMMA NextAnswer ==
  ASSUME PmmInv, PmmInv', AnswerInv, [Next]_vars PROVE AnswerInv'
<1> USE DEF PmmInv
<1>g. phase # "ready" => \A p \in Page : ~(grants[p] > 0)
  BY DEF GrantInv
<1>1. CASE UNCHANGED vars
  BY <1>1 DEF vars, AnswerInv, Backed
<1>2. CASE init_refuse \/ init_scan \/ init_free_done
  <2>1. /\ UNCHANGED <<memmap, used, managed_pages, free_pages, grants, result>>
        /\ phase # "ready"
    BY <1>2 DEF init_refuse, init_scan, init_free_done
  <2> QED
    BY <2>1 DEF AnswerInv, Backed
<1>3. CASE init_scan_done
  <2>1. used' = Page /\ UNCHANGED <<grants, result>> /\ phase = "scan"
    BY <1>3 DEF init_scan_done, bitmap_allocator_init
  <2> QED
    BY <1>g, <2>1 DEF AnswerInv
<1>4. CASE init_free
  <2>1. /\ phase = "free" /\ pos <= Len(memmap)
        /\ UNCHANGED <<memmap, phase, managed_pages, grants, result>>
    BY <1>4 DEF init_free
  <2>2. ASSUME NEW p \in Page, p < managed_pages, p \notin used' PROVE Backed(p)
    <3>1. CASE p \notin used
      BY <2>2, <3>1 DEF AnswerInv
    <3>2. CASE p \in used
      <4>1. /\ memmap[pos].usable
            /\ p \in Inside(memmap[pos].start, RegionEnd(memmap[pos]))
        BY <1>4, <2>2, <3>2 DEF init_free, bitmap_mark_free
      <4> QED
        BY <2>1, <4>1, FreedIsBacked
    <3> QED
      BY <3>1, <3>2
  <2>3. \A p : Backed(p)' <=> Backed(p)
    BY <2>1 DEF Backed
  <2> QED
    BY <1>g, <2>1, <2>2, <2>3 DEF AnswerInv
<1>5. CASE init_reserve
  <2>1. /\ phase = "reserve" /\ used \subseteq used'
        /\ UNCHANGED <<memmap, managed_pages, grants, result>>
    BY <1>5 DEF init_reserve, bitmap_mark_used
  <2>2. \A p : Backed(p)' <=> Backed(p)
    BY <2>1 DEF Backed
  <2> QED
    BY <1>g, <2>1, <2>2 DEF AnswerInv
<1>6. CASE alloc_page
  <2>1. phase = "ready" /\ UNCHANGED <<memmap, phase, managed_pages>>
    BY <1>6 DEF alloc_page
  <2>2. \A p : Backed(p)' <=> Backed(p)
    BY <2>1 DEF Backed
  <2>3. CASE Clear = {}
    <3>1. UNCHANGED <<used, free_pages, grants>>
      BY <1>6, <2>3 DEF alloc_page
    <3>2. FreeSet = {}
      BY <2>3, ClearIsFree
    <3>3. free_pages = 0
      BY <3>2, FS_EmptySet DEF FreeCountExact, FreeSet
    <3> QED
      BY <2>1, <2>2, <3>1, <3>3 DEF AnswerInv
  <2>4. CASE Clear # {}
    <3>1. PICK p \in Clear : /\ take(p) /\ result' = p * PageSize
                             /\ grants' = [grants EXCEPT ![p] = grants[p] + 1]
      BY <1>6, <2>4 DEF alloc_page
    <3>2. p \in FreeSet /\ p \in Page
      BY ClearIsFree DEF FreeSet
    <3>3. Backed(p)
      BY <3>2 DEF AnswerInv, FreeSet
    <3>4. used \subseteq used' /\ \A q \in Page \ {p} : grants'[q] = grants[q]
      BY <3>1 DEF take, TypeOK
    <3>5. result' # Invalid
      <4>1. p * PageSize \in Nat
        BY <3>2
      <4> QED
        BY <3>1, <4>1
    <3> QED
      BY <2>1, <2>2, <3>3, <3>4, <3>5 DEF AnswerInv
  <2> QED
    BY <2>3, <2>4
<1>7. ASSUME NEW a \in Address \cup {Invalid}, free_page(a) PROVE AnswerInv'
  <2>1. result' = 0 /\ UNCHANGED <<memmap, managed_pages>>
    BY <1>7 DEF free_page
  <2>2. \A p : Backed(p)' <=> Backed(p)
    BY <2>1 DEF Backed
  <2>3. CASE ignored(a)
    <3>1. UNCHANGED <<used, grants>>
      BY <1>7, <2>3 DEF free_page
    <3> QED
      BY <2>1, <2>2, <3>1 DEF AnswerInv
  <2>4. CASE ~ignored(a)
    <3> DEFINE p == a \div PageSize
    <3>1. /\ grants[p] > 0 \/ p \notin used
          /\ give_back(p)
          /\ grants' = [grants EXCEPT ![p] = IF grants[p] > 0 THEN grants[p] - 1 ELSE 0]
      BY <1>7, <2>4 DEF free_page
    <3> HIDE DEF p
    <3>2. ASSUME NEW q \in Page, q < managed_pages, q \notin used' \/ grants'[q] > 0
          PROVE  q \notin used \/ grants[q] > 0
      <4>1. CASE q = p
        BY <3>1, <4>1
      <4>2. CASE q # p
        <5>1. grants'[q] = grants[q]
          BY <3>1, <4>2 DEF TypeOK
        <5>2. q \notin used' => q \notin used
          BY <3>1, <4>2 DEF give_back
        <5> QED
          BY <3>2, <5>1, <5>2
      <4> QED
        BY <4>1, <4>2
    <3> QED
      BY <2>1, <2>2, <3>2 DEF AnswerInv
  <2> QED
    BY <2>3, <2>4
<1> QED
  BY <1>1, <1>2, <1>3, <1>4, <1>5, <1>6, <1>7 DEF Next

\* alloc_page hands out only memory that one usable region of the map holds
\* wholly, and says there is none only when there is none.
THEOREM AnswersCorrect == Spec => []AnswersTrue
<1>1. Init => AnswerInv
  BY DEF Init, AnswerInv
<1>2. PmmInv /\ PmmInv' /\ AnswerInv /\ [Next]_vars => AnswerInv'
  BY NextAnswer
<1>3. PmmInv /\ AnswerInv => AnswersTrue
  <2> SUFFICES ASSUME PmmInv, AnswerInv PROVE AnswersTrue
    OBVIOUS
  <2>1. ASSUME NEW p \in Page, grants[p] > 0 PROVE Backed(p)
    BY <2>1 DEF PmmInv, GrantInv, AnswerInv
  <2> QED
    BY <2>1 DEF AnswersTrue, AnswerInv, Backed
<1> QED
  BY <1>1, <1>2, <1>3, PmmInvariant, PTL DEF Spec

HIDE PmmAssumption DEF Page

-----------------------------------------------------------------------------
(* The arithmetic of the heap.                                             *)

\* What divides two sizes divides their sum and their difference.
LEMMA AlignAdd ==
  ASSUME NEW A \in Nat \ {0}, NEW a \in Int, NEW b \in Int, a % A = 0, b % A = 0
  PROVE  (a + b) % A = 0 /\ (a - b) % A = 0
<1> DEFINE q == a \div A
           r == b \div A
<1>1. q \in Int /\ r \in Int /\ a = A * q /\ b = A * r
  BY SMTT(30)
<1> HIDE DEF q, r
<1>2. a + b = A * (q + r) /\ a - b = A * (q - r)
  BY <1>1, SMTT(30)
<1>3. \A n \in Int : (A * n) % A = 0
  BY SMTT(30)
<1> QED
  BY <1>1, <1>2, <1>3

\* align_up rounds up to a multiple.
LEMMA AlignUp ==
  ASSUME NEW A \in Nat \ {0}, NEW v \in Nat
  PROVE  /\ ((v + A - 1) \div A) * A \in Nat
         /\ ((v + A - 1) \div A) * A >= v
         /\ (((v + A - 1) \div A) * A) % A = 0
<1> DEFINE q == (v + A - 1) \div A
           r == (v + A - 1) % A
<1>1. q \in Nat /\ r \in 0 .. A - 1 /\ v + A - 1 = A * q + r
  <2>1. v + A - 1 \in Nat
    OBVIOUS
  <2> QED
    BY <2>1, SMTT(30)
<1> HIDE DEF q, r
<1>2. A * q = q * A /\ A * q \in Nat
  BY <1>1, SMTT(30)
<1>3. (A * q) % A = 0
  BY <1>1, SMTT(30)
<1>4. A * q >= v
  BY <1>1, <1>2
<1>5. q * A \in Nat /\ q * A >= v /\ (q * A) % A = 0
  BY <1>2, <1>3, <1>4
<1> QED
  BY <1>5 DEF q

\* A page starts at an aligned address.
LEMMA PageStart ==
  ASSUME NEW p \in Nat
  PROVE  p * HeapPage \in Nat /\ (p * HeapPage) % Align = 0
<1> DEFINE q == HeapPage \div Align
<1>1. HeapPage \in Nat /\ Align \in Nat \ {0} /\ HeapPage % Align = 0
  BY HeapAssumption
<1>2. q \in Int /\ HeapPage = Align * q
  BY <1>1, SMTT(30)
<1> HIDE DEF q
<1>3. p * HeapPage = Align * (p * q) /\ p * q \in Int
  BY <1>1, <1>2, SMTT(30)
<1>4. \A n \in Int : (Align * n) % Align = 0
  BY <1>1, SMTT(30)
<1>5. p * HeapPage \in Nat
  BY <1>1, SMTT(30)
<1> QED
  BY <1>3, <1>4, <1>5

\* Two pages have no address in common.
LEMMA PagesApart ==
  ASSUME NEW p \in Nat, NEW q \in Nat, p # q, NEW x \in PageAddr(p)
  PROVE  x \notin PageAddr(q)
<1>1. HeapPage \in Nat /\ p * HeapPage \in Nat /\ q * HeapPage \in Nat
  BY HeapAssumption, PageStart
<1>2. x \in Nat /\ p * HeapPage <= x /\ x < p * HeapPage + HeapPage
  BY <1>1 DEF PageAddr
<1>3. CASE p < q
  <2>1. (p + 1) * HeapPage <= q * HeapPage
    BY <1>1, <1>3, SMTT(30)
  <2>2. (p + 1) * HeapPage = p * HeapPage + HeapPage
    BY <1>1, SMTT(30)
  <2> QED
    BY <1>1, <1>2, <2>1, <2>2 DEF PageAddr
<1>4. CASE q < p
  <2>1. (q + 1) * HeapPage <= p * HeapPage
    BY <1>1, <1>4, SMTT(30)
  <2>2. (q + 1) * HeapPage = q * HeapPage + HeapPage
    BY <1>1, SMTT(30)
  <2> QED
    BY <1>1, <1>2, <2>1, <2>2 DEF PageAddr
<1> QED
  BY <1>3, <1>4

\* What is known of the sizes.
LEMMA HeapSizes ==
  /\ HeapPage \in Nat /\ Hdr \in Nat /\ Align \in Nat \ {0} /\ HeapMinTotal \in Nat
  /\ HeapMinTotal = Hdr + Align /\ HeapMinTotal <= HeapPage
  /\ Hdr % Align = 0 /\ HeapPage % Align = 0
  /\ InitPages \in Nat /\ Pages \subseteq Nat /\ Sizes \subseteq Nat /\ NULL \notin Nat
BY HeapAssumption DEF HeapMinTotal

\* Addresses are natural numbers.
LEMMA AddrNat == Addr \subseteq Nat /\ Aligned \subseteq Addr
<1>1. ASSUME NEW p \in Pages, NEW x \in PageAddr(p) PROVE x \in Nat
  BY HeapSizes, PageStart DEF PageAddr
<1> QED
  BY <1>1 DEF Addr, Aligned

-----------------------------------------------------------------------------
(* The blocks.  hd is the map of headers, own the pages of the heap.       *)

Header == [size : Nat, magic : BOOLEAN, used : BOOLEAN]

Blk(hd) == {a \in Addr : hd[a].magic}
Busy(hd) == {a \in Blk(hd) : hd[a].used}

\* Byte x is in block b; it is in some block; it is in a page of the heap.
Spans(hd, b, x) == b <= x /\ x < b + hd[b].size
InBlock(hd, x) == \E b \in Blk(hd) : Spans(hd, b, x)
InOwned(own, x) == \E p \in own : x \in PageAddr(p)

\* Every block is aligned and holds at least a header and a unit.
Framed(hd) ==
  \A b \in Blk(hd) : /\ b % Align = 0
                     /\ hd[b].size >= HeapMinTotal
                     /\ hd[b].size % Align = 0

\* No block reaches into another.
Apart(hd) == \A a, b \in Blk(hd) : a < b => a + hd[a].size <= b

\* The blocks are, together, the pages of the heap.
Fills(hd, own) == \A x \in Nat : InBlock(hd, x) <=> InOwned(own, x)

Memory(hd, own) ==
  hd \in [Addr -> Header] /\ Framed(hd) /\ Apart(hd) /\ Fills(hd, own)

\* The types of a block's header.
LEMMA BlockType ==
  ASSUME NEW hd \in [Addr -> Header], NEW b \in Blk(hd)
  PROVE  b \in Addr /\ b \in Nat /\ hd[b] \in Header /\ hd[b].size \in Nat
BY AddrNat DEF Blk, Header

\* A byte of a block is an address, if the heap's pages are.
LEMMA InReach ==
  ASSUME NEW hd, NEW own, own \subseteq Pages, Memory(hd, own), NEW b \in Blk(hd), NEW x \in Nat,
         Spans(hd, b, x)
  PROVE  x \in Addr
<1>1. InOwned(own, x)
  BY DEF Memory, Fills, InBlock
<1> QED
  BY <1>1 DEF InOwned, Addr

\* A byte is in one block only.
LEMMA OneBlock ==
  ASSUME NEW hd \in [Addr -> Header], Apart(hd), NEW a \in Blk(hd), NEW b \in Blk(hd),
         NEW x \in Nat, Spans(hd, a, x), Spans(hd, b, x)
  PROVE  a = b
<1>1. /\ a \in Nat /\ hd[a].size \in Nat
      /\ b \in Nat /\ hd[b].size \in Nat
  BY BlockType
<1>2. (a < b => a + hd[a].size <= b) /\ (b < a => b + hd[b].size <= a)
  BY DEF Apart
<1> QED
  BY <1>1, <1>2 DEF Spans

-----------------------------------------------------------------------------
(* Joining two blocks.                                                     *)

\* Block c has become a part of block b.
Absorbs(hd, j, b, c) ==
  /\ j \in [Addr -> Header]
  /\ j[c] = NoHeader
  /\ j[b].size = hd[b].size + hd[c].size
  /\ j[b].magic = hd[b].magic /\ j[b].used = hd[b].used
  /\ \A a \in Addr \ {b, c} : j[a] = hd[a]
  /\ Blk(j) = Blk(hd) \ {c}

\* The headers after a join.
LEMMA JoinedAt ==
  ASSUME NEW hd \in [Addr -> Header], NEW b \in Blk(hd), NEW c \in Blk(hd), b # c
  PROVE  Absorbs(hd, merged(hd, b, c), b, c)
<1> DEFINE j == merged(hd, b, c)
           m == [hd[b] EXCEPT !.size = @ + hd[c].size]
<1>1. /\ b \in Addr /\ hd[b] \in Header /\ hd[b].size \in Nat
      /\ c \in Addr /\ hd[c] \in Header /\ hd[c].size \in Nat
  BY BlockType
<1>2. m \in Header /\ m.size = hd[b].size + hd[c].size /\ m.magic = hd[b].magic
      /\ m.used = hd[b].used
  BY <1>1 DEF Header
<1>3. NoHeader \in Header /\ ~NoHeader.magic
  BY DEF Header, NoHeader
<1> HIDE DEF m
<1>4. j = [hd EXCEPT ![b] = m, ![c] = NoHeader]
  BY DEF m, merged
<1>5. j \in [Addr -> Header] /\ j[c] = NoHeader /\ j[b] = m
      /\ \A a \in Addr \ {b, c} : j[a] = hd[a]
  BY <1>1, <1>2, <1>3, <1>4
<1> HIDE DEF j
<1>6. hd[b].magic = TRUE
  BY <1>1 DEF Blk, Header
<1>7. Blk(j) = Blk(hd) \ {c}
  <2>1. ASSUME NEW a \in Addr PROVE j[a].magic <=> (hd[a].magic /\ a # c)
    <3>1. CASE a = b
      BY <1>2, <1>5, <1>6, <3>1
    <3>2. CASE a = c
      BY <1>3, <1>5, <3>2
    <3>3. CASE a # b /\ a # c
      BY <1>5, <3>3
    <3> QED
      BY <3>1, <3>2, <3>3
  <2> QED
    BY <2>1 DEF Blk
<1>8. j[b].size = hd[b].size + hd[c].size /\ j[b].magic = hd[b].magic
      /\ j[b].used = hd[b].used
  BY <1>2, <1>5
<1> QED
  BY <1>5, <1>7, <1>8 DEF j, Absorbs

\* The blocks still are the pages of the heap after two that touch are joined.
LEMMA JoinedMemory ==
  ASSUME NEW hd, NEW own, Memory(hd, own), NEW b \in Blk(hd), NEW c \in Blk(hd),
         b + hd[b].size = c
  PROVE  Memory(merged(hd, b, c), own)
<1> DEFINE j == merged(hd, b, c)
<1>1. hd \in [Addr -> Header] /\ Framed(hd) /\ Apart(hd) /\ Fills(hd, own)
  BY DEF Memory
<1>2. /\ b \in Addr /\ b \in Nat /\ hd[b].size \in Nat
      /\ c \in Addr /\ c \in Nat /\ hd[c].size \in Nat
  BY <1>1, BlockType
<1>3. hd[b].size > 0 /\ hd[c].size > 0 /\ b < c
  BY <1>1, <1>2, HeapSizes DEF Framed
<1>4. /\ j \in [Addr -> Header]
      /\ j[b].size = hd[b].size + hd[c].size
      /\ \A a \in Addr \ {b, c} : j[a] = hd[a]
      /\ Blk(j) = Blk(hd) \ {c}
  <2>1. Absorbs(hd, j, b, c)
    BY <1>1, <1>2, <1>3, JoinedAt
  <2> QED
    BY <2>1 DEF Absorbs
<1> HIDE DEF j
<1>5. Framed(j)
  <2>1. ASSUME NEW a \in Blk(j)
        PROVE  a % Align = 0 /\ j[a].size >= HeapMinTotal /\ j[a].size % Align = 0
    <3>1. CASE a = b
      <4>1. /\ b % Align = 0 /\ hd[b].size >= HeapMinTotal /\ hd[b].size % Align = 0
            /\ hd[c].size >= HeapMinTotal /\ hd[c].size % Align = 0
        BY <1>1 DEF Framed
      <4>2. (hd[b].size + hd[c].size) % Align = 0
        BY <1>2, <4>1, AlignAdd, HeapSizes
      <4> QED
        BY <1>2, <1>4, <3>1, <4>1, <4>2, HeapSizes
    <3>2. CASE a # b
      <4>1. a \in Blk(hd) /\ a \in Addr \ {b, c}
        BY <1>4, <3>2 DEF Blk
      <4> QED
        BY <1>1, <1>4, <4>1 DEF Framed
    <3> QED
      BY <3>1, <3>2
  <2> QED
    BY <2>1 DEF Framed
<1>6. Apart(j)
  <2>1. ASSUME NEW a \in Blk(j), NEW e \in Blk(j), a < e PROVE a + j[a].size <= e
    <3>1. /\ a \in Blk(hd) /\ e \in Blk(hd) /\ e # c /\ a # c
          /\ a \in Nat /\ e \in Nat
      BY <1>1, <1>4, BlockType
    <3>2. CASE a = b
      <4>1. b < e /\ b + hd[b].size <= e
        BY <1>1, <2>1, <3>1, <3>2 DEF Apart
      <4>2. c < e
        BY <3>1, <4>1, <1>2
      <4>3. c + hd[c].size <= e
        BY <1>1, <3>1, <4>2 DEF Apart
      <4> QED
        BY <1>2, <1>4, <3>1, <3>2, <4>3
    <3>3. CASE a # b
      <4>1. j[a] = hd[a]
        BY <1>4, <3>1, <3>3 DEF Blk
      <4> QED
        BY <1>1, <2>1, <3>1, <4>1 DEF Apart
    <3> QED
      BY <3>2, <3>3
  <2> QED
    BY <2>1 DEF Apart
<1>7. ASSUME NEW x \in Nat PROVE InBlock(j, x) <=> InBlock(hd, x)
  <2>1. ASSUME NEW a \in Blk(hd), Spans(hd, a, x) PROVE InBlock(j, x)
    <3>1. CASE a = b \/ a = c
      <4>1. Spans(j, b, x)
        BY <1>2, <1>4, <2>1, <3>1 DEF Spans
      <4>2. b \in Blk(j)
        BY <1>3, <1>4, <1>2
      <4> QED
        BY <4>1, <4>2 DEF InBlock
    <3>2. CASE a # b /\ a # c
      <4>1. a \in Blk(j) /\ j[a] = hd[a]
        BY <1>4, <3>2 DEF Blk
      <4> QED
        BY <2>1, <4>1 DEF InBlock, Spans
    <3> QED
      BY <3>1, <3>2
  <2>2. ASSUME NEW a \in Blk(j), Spans(j, a, x) PROVE InBlock(hd, x)
    <3>1. CASE a = b
      <4>1. Spans(hd, b, x) \/ Spans(hd, c, x)
        BY <1>2, <1>4, <2>2, <3>1 DEF Spans
      <4> QED
        BY <4>1 DEF InBlock
    <3>2. CASE a # b
      <4>1. a \in Blk(hd) /\ j[a] = hd[a]
        BY <1>4, <3>2 DEF Blk
      <4> QED
        BY <2>2, <4>1 DEF InBlock, Spans
    <3> QED
      BY <3>1, <3>2
  <2> QED
    BY <2>1, <2>2 DEF InBlock
<1>8. Fills(j, own)
  BY <1>1, <1>7 DEF Fills
<1>9. Memory(j, own)
  BY <1>4, <1>5, <1>6, <1>8 DEF Memory
<1> QED
  BY <1>9 DEF j

-----------------------------------------------------------------------------
(* The free list.                                                          *)

OnList(list) == {list[n] : n \in 1 .. Len(list)}

Sorted(list) == \A m, n \in 1 .. Len(list) : m < n => list[m] < list[n]

\* The list is sorted and holds the blocks that are neither in use nor off it.
Listed(list, hd, off) ==
  /\ list \in Seq(Aligned)
  /\ Sorted(list)
  /\ OnList(list) = (Blk(hd) \ Busy(hd)) \ off

\* No block touches the next one on the list, but perhaps those at E.
Gaps(list, hd, E) ==
  \A n \in 1 .. Len(list) - 1 : n \notin E => list[n] + hd[list[n]].size < list[n + 1]

\* What stands on the list is a block.
LEMMA ListedBlock ==
  ASSUME NEW hd \in [Addr -> Header], NEW list, NEW off, Listed(list, hd, off),
         NEW n \in 1 .. Len(list)
  PROVE  /\ list[n] \in Aligned /\ list[n] \in Addr /\ list[n] \in Nat
         /\ list[n] \in Blk(hd) \ Busy(hd) /\ list[n] \notin off
         /\ hd[list[n]].size \in Nat
<1>1. list[n] \in OnList(list) /\ list[n] \in Aligned
  BY DEF OnList, Listed
<1>2. list[n] \in (Blk(hd) \ Busy(hd)) \ off
  BY <1>1 DEF Listed
<1> QED
  BY <1>1, <1>2, AddrNat, BlockType

\* Taking number p off a sorted list takes that block off and no other, and the
\* list stays sorted.
LEMMA RemoveSorted ==
  ASSUME NEW list \in Seq(Aligned), Sorted(list), NEW p \in 1 .. Len(list)
  PROVE  LET r == RemoveAt(list, p) IN
         /\ r \in Seq(Aligned) /\ Sorted(r)
         /\ OnList(r) = OnList(list) \ {list[p]}
<1> DEFINE r == RemoveAt(list, p)
<1>1. /\ r \in Seq(Aligned) /\ Len(r) = Len(list) - 1 /\ Len(list) \in Nat
      /\ \A n \in 1 .. Len(list) - 1 : r[n] = IF n < p THEN list[n] ELSE list[n + 1]
  BY RemoveAtProperties
<1> HIDE DEF r
<1>2. ASSUME NEW n \in 1 .. Len(list) PROVE list[n] \in Nat
  <2>1. list[n] \in Aligned
    OBVIOUS
  <2> QED
    BY <2>1, AddrNat
<1>3. Sorted(r)
  <2>1. ASSUME NEW m \in 1 .. Len(r), NEW n \in 1 .. Len(r), m < n PROVE r[m] < r[n]
    <3> DEFINE m1 == IF m < p THEN m ELSE m + 1
               n1 == IF n < p THEN n ELSE n + 1
    <3>1. m1 \in 1 .. Len(list) /\ n1 \in 1 .. Len(list) /\ m1 < n1
      BY <1>1, <2>1
    <3>2. r[m] = list[m1] /\ r[n] = list[n1]
      BY <1>1
    <3> QED
      BY <3>1, <3>2 DEF Sorted
  <2> QED
    BY <2>1 DEF Sorted
<1>4. ASSUME NEW n \in 1 .. Len(list), n # p PROVE list[n] # list[p]
  <2>1. list[n] \in Nat /\ list[p] \in Nat
    BY <1>2
  <2>2. (n < p => list[n] < list[p]) /\ (p < n => list[p] < list[n])
    BY DEF Sorted
  <2>3. n < p \/ p < n
    BY <1>1, <1>4
  <2> QED
    BY <2>1, <2>2, <2>3
<1>5. ASSUME NEW x \in OnList(r) PROVE x \in OnList(list) \ {list[p]}
  <2>1. PICK n \in 1 .. Len(r) : x = r[n]
    BY DEF OnList
  <2> DEFINE n1 == IF n < p THEN n ELSE n + 1
  <2>2. n1 \in 1 .. Len(list) /\ n1 # p /\ x = list[n1]
    BY <1>1, <2>1
  <2> HIDE DEF n1
  <2> QED
    BY <1>4, <2>2 DEF OnList
<1>6. ASSUME NEW x \in OnList(list), x # list[p] PROVE x \in OnList(r)
  <2>1. PICK n \in 1 .. Len(list) : x = list[n]
    BY DEF OnList
  <2> DEFINE n1 == IF n < p THEN n ELSE n - 1
  <2>2. n # p
    BY <1>6, <2>1
  <2>3. n1 \in 1 .. Len(r) /\ r[n1] = x
    BY <1>1, <2>1, <2>2
  <2> HIDE DEF n1
  <2> QED
    BY <2>3 DEF OnList
<1>7. OnList(r) = OnList(list) \ {list[p]}
  BY <1>5, <1>6
<1> QED
  BY <1>1, <1>3, <1>7 DEF r

\* Block n of the list touches the next, and only there and one before may two
\* blocks of the list touch.
Touching(list, hd, off, n, E) ==
  /\ n \in 1 .. Len(list) - 1
  /\ E \subseteq {n - 1, n}
  /\ Listed(list, hd, off)
  /\ Gaps(list, hd, E)
  /\ list[n] + hd[list[n]].size = list[n + 1]

\* The list r with the headers j, in which block n touches no other any more.
Shorter(list, r, hd, j, off, n, E) ==
  /\ Listed(r, j, off) /\ Gaps(r, j, E \ {n})
  /\ Busy(j) = Busy(hd)
  /\ OnList(r) = OnList(list) \ {list[n + 1]}

\* The list after block n of it was joined with the next.
LEMMA JoinedList ==
  ASSUME NEW hd \in [Addr -> Header], NEW list, NEW off, NEW n, NEW E,
         Touching(list, hd, off, n, E)
  PROVE  Shorter(list, RemoveAt(list, n + 1), hd, merged(hd, list[n], list[n + 1]), off, n, E)
<1> DEFINE b == list[n]
           c == list[n + 1]
           j == merged(hd, b, c)
           r == RemoveAt(list, n + 1)
<1> USE DEF Touching
<1>0. list \in Seq(Aligned) /\ Sorted(list) /\ Len(list) \in Nat
      /\ OnList(list) = (Blk(hd) \ Busy(hd)) \ off
  BY DEF Listed
<1>1. n \in 1 .. Len(list) /\ n + 1 \in 1 .. Len(list)
  BY <1>0
<1>2. /\ b \in Blk(hd) \ Busy(hd) /\ b \in Nat /\ b \in Addr /\ hd[b].size \in Nat
      /\ c \in Blk(hd) \ Busy(hd) /\ c \in Nat /\ c \in Addr /\ hd[c].size \in Nat
  BY <1>1, ListedBlock
<1>3. b # c
  BY <1>0, <1>1, <1>2 DEF Sorted
<1>4. /\ j \in [Addr -> Header]
      /\ j[c] = NoHeader
      /\ j[b].size = hd[b].size + hd[c].size
      /\ j[b].used = hd[b].used
      /\ \A a \in Addr \ {b, c} : j[a] = hd[a]
      /\ Blk(j) = Blk(hd) \ {c}
  <2>1. Absorbs(hd, j, b, c)
    BY <1>2, <1>3, JoinedAt
  <2> HIDE DEF j
  <2> QED
    BY <2>1 DEF Absorbs
<1>5. r \in Seq(Aligned) /\ Sorted(r) /\ OnList(r) = OnList(list) \ {c}
  BY <1>0, <1>1, RemoveSorted
<1>6. /\ Len(r) = Len(list) - 1
      /\ \A m \in 1 .. Len(list) - 1 : r[m] = IF m < n + 1 THEN list[m] ELSE list[m + 1]
  BY <1>0, <1>1, RemoveAtProperties
<1> HIDE DEF j, r
<1>7. Busy(j) = Busy(hd)
  <2>1. ASSUME NEW a \in Addr, a # c PROVE j[a].used = hd[a].used
    BY <1>4, <2>1
  <2>2. ASSUME NEW a PROVE a \in Busy(j) <=> a \in Busy(hd)
    BY <1>2, <1>4, <2>1 DEF Busy, Blk
  <2> QED
    BY <2>2
<1>8. OnList(r) = (Blk(j) \ Busy(j)) \ off
  BY <1>0, <1>4, <1>5, <1>7
<1>9. Listed(r, j, off)
  BY <1>5, <1>8 DEF Listed
<1>10. ASSUME NEW m \in 1 .. Len(r) - 1, m \notin E \ {n}
       PROVE  r[m] + j[r[m]].size < r[m + 1]
  <2>1. /\ m \in 1 .. Len(list) - 1 /\ m + 1 \in 1 .. Len(list) - 1
        /\ m + 1 \in 1 .. Len(list) /\ m + 2 \in 1 .. Len(list) /\ m \in 1 .. Len(list)
    BY <1>0, <1>6
  <2>2. CASE m < n
    <3>1. r[m] = list[m] /\ r[m + 1] = list[m + 1]
      BY <1>6, <2>1, <2>2
    <3>2. list[m] # b /\ list[m] # c
      <4>1. list[m] < b /\ list[m] < c /\ list[m] \in Nat
        BY <1>0, <1>1, <2>1, <2>2, ListedBlock DEF Sorted
      <4> QED
        BY <1>2, <4>1
    <3>3. j[list[m]] = hd[list[m]]
      BY <1>4, <2>1, <3>2, ListedBlock
    <3>4. m \notin E
      BY <1>10, <2>2
    <3>5. list[m] + hd[list[m]].size < list[m + 1]
      BY <2>1, <3>4 DEF Gaps
    <3> QED
      BY <3>1, <3>3, <3>5
  <2>3. CASE m = n
    <3>1. r[m] = b /\ r[m + 1] = list[n + 2]
      BY <1>6, <2>1, <2>3
    <3>2. n + 1 \notin E /\ n + 1 \in 1 .. Len(list) - 1
      BY <2>1, <2>3
    <3>3. c + hd[c].size < list[(n + 1) + 1]
      BY <3>2 DEF Gaps
    <3>4. list[n + 2] \in Nat
      BY <2>1, <2>3, ListedBlock
    <3> QED
      BY <1>2, <1>4, <3>1, <3>3, <3>4, <2>3
  <2>4. CASE m > n
    <3>1. r[m] = list[m + 1] /\ r[m + 1] = list[m + 2]
      BY <1>6, <2>1, <2>4
    <3>2. list[m + 1] # b /\ list[m + 1] # c
      <4>1. b < list[m + 1] /\ c < list[m + 1] /\ list[m + 1] \in Nat
        BY <1>0, <1>1, <2>1, <2>4, ListedBlock DEF Sorted
      <4> QED
        BY <1>2, <4>1
    <3>3. j[list[m + 1]] = hd[list[m + 1]]
      BY <1>4, <2>1, <3>2, ListedBlock
    <3>4. m + 1 \notin E
      BY <2>4
    <3>5. list[m + 1] + hd[list[m + 1]].size < list[(m + 1) + 1]
      BY <2>1, <3>4 DEF Gaps
    <3>6. (m + 1) + 1 = m + 2
      OBVIOUS
    <3> QED
      BY <3>1, <3>3, <3>5, <3>6
  <2> QED
    BY <2>2, <2>3, <2>4
<1>11. Gaps(r, j, E \ {n})
  BY <1>10 DEF Gaps
<1> QED
  BY <1>5, <1>7, <1>9, <1>11 DEF j, r, Shorter

-----------------------------------------------------------------------------
(* The heap: what every operation on it keeps.                             *)

HeapRec == [free : Seq(Aligned), hdr : [Addr -> Header], pool : SUBSET Pages,
            own : SUBSET Pages, fault : BOOLEAN]

\* The blocks are whole, the list holds those not in use but for the ones in
\* off, and only at E may two blocks of the list touch.
Part(g, off, E) ==
  /\ g \in HeapRec
  /\ Memory(g.hdr, g.own)
  /\ Listed(g.free, g.hdr, off)
  /\ Gaps(g.free, g.hdr, E)
  /\ off \subseteq Blk(g.hdr)

\* A block of the list is large enough for s.
Room(g, s) == \E f \in OnList(g.free) : g.hdr[f].size >= s

\* Only blocks of the list are joined: what is in use or off the list is left
\* alone, and no room is lost.
Stays(g, k, off) ==
  /\ k.pool = g.pool /\ k.own = g.own /\ k.fault = g.fault
  /\ Busy(k.hdr) = Busy(g.hdr)
  /\ \A a \in Busy(g.hdr) \cup off : k.hdr[a] = g.hdr[a]
  /\ \A s \in Nat : Room(g, s) => Room(k, s)

\* The parts of a heap record.
LEMMA RecFields ==
  ASSUME NEW g \in HeapRec
  PROVE  /\ g.free \in Seq(Aligned) /\ g.hdr \in [Addr -> Header]
         /\ g.pool \subseteq Pages /\ g.own \subseteq Pages /\ g.fault \in BOOLEAN
BY DEF HeapRec

\* A heap record with another list and other headers.
WithBlocks(g, f, d) == [g EXCEPT !.free = f, !.hdr = d]

\* It is a heap record again.
LEMMA RecUpdate ==
  ASSUME NEW g \in HeapRec, NEW f \in Seq(Aligned), NEW d \in [Addr -> Header]
  PROVE  LET k == WithBlocks(g, f, d) IN
         /\ k \in HeapRec /\ k.free = f /\ k.hdr = d
         /\ k.pool = g.pool /\ k.own = g.own /\ k.fault = g.fault
BY DEF HeapRec, WithBlocks

\* The joining of freelist_insert keeps the heap whole.
LEMMA JoinPart ==
  ASSUME NEW g, NEW off, NEW n \in Nat, NEW E, E \subseteq {n - 1, n}, Part(g, off, E)
  PROVE  Part(join(g, n), off, E \ {n}) /\ Stays(g, join(g, n), off)
<1> DEFINE b == g.free[n]
           c == g.free[n + 1]
           k == join(g, n)
<1>1. /\ g \in HeapRec /\ Memory(g.hdr, g.own) /\ Listed(g.free, g.hdr, off)
      /\ Gaps(g.free, g.hdr, E) /\ off \subseteq Blk(g.hdr)
      /\ g.hdr \in [Addr -> Header] /\ g.free \in Seq(Aligned) /\ Len(g.free) \in Nat
  BY RecFields DEF Part
<1>2. CASE n \in 1 .. Len(g.free) - 1 /\ b + g.hdr[b].size = c
  <2> DEFINE j == merged(g.hdr, b, c)
             r == RemoveAt(g.free, n + 1)
  <2>1. n \in 1 .. Len(g.free) /\ n + 1 \in 1 .. Len(g.free)
    BY <1>1, <1>2
  <2>2. /\ b \in Blk(g.hdr) \ Busy(g.hdr) /\ b \in Nat /\ b \in Addr /\ b \notin off
        /\ c \in Blk(g.hdr) \ Busy(g.hdr) /\ c \in Nat /\ c \in Addr /\ c \notin off
        /\ g.hdr[b].size \in Nat /\ g.hdr[c].size \in Nat
    BY <1>1, <2>1, ListedBlock
  <2>3. b # c
    BY <1>1, <2>1, <2>2 DEF Listed, Sorted
  <2>4. /\ j \in [Addr -> Header]
        /\ j[b].size = g.hdr[b].size + g.hdr[c].size
        /\ \A a \in Addr \ {b, c} : j[a] = g.hdr[a]
        /\ Blk(j) = Blk(g.hdr) \ {c}
    <3>1. Absorbs(g.hdr, j, b, c)
      BY <1>1, <2>2, <2>3, JoinedAt
    <3> HIDE DEF j
    <3> QED
      BY <3>1 DEF Absorbs
  <2>5. Memory(j, g.own)
    BY <1>1, <1>2, <2>2, JoinedMemory
  <2>6. /\ Listed(r, j, off) /\ Gaps(r, j, E \ {n}) /\ Busy(j) = Busy(g.hdr)
        /\ OnList(r) = OnList(g.free) \ {c}
    <3>1. Touching(g.free, g.hdr, off, n, E)
      BY <1>1, <1>2 DEF Touching
    <3>2. Shorter(g.free, r, g.hdr, j, off, n, E)
      BY <1>1, <3>1, JoinedList
    <3> HIDE DEF r, j
    <3> QED
      BY <3>2 DEF Shorter
  <2>7. k = WithBlocks(g, r, j)
    BY <1>2 DEF join, WithBlocks
  <2>8. r \in Seq(Aligned)
    BY <2>6 DEF Listed
  <2> HIDE DEF j, r, k
  <2>9. /\ k \in HeapRec /\ k.free = r /\ k.hdr = j
        /\ k.pool = g.pool /\ k.own = g.own /\ k.fault = g.fault
    BY <1>1, <2>4, <2>7, <2>8, RecUpdate
  <2>10. off \subseteq Blk(j)
    BY <1>1, <2>2, <2>4
  <2>11. Part(k, off, E \ {n})
    BY <2>5, <2>6, <2>9, <2>10 DEF Part
  <2>12. ASSUME NEW a \in Busy(g.hdr) \cup off PROVE j[a] = g.hdr[a]
    <3>1. a \in Blk(g.hdr) /\ a # b /\ a # c
      BY <1>1, <2>2 DEF Busy
    <3> QED
      BY <2>4, <3>1 DEF Blk
  <2>13. ASSUME NEW s \in Nat, Room(g, s) PROVE Room(k, s)
    <3>1. PICK f \in OnList(g.free) : g.hdr[f].size >= s
      BY <2>13 DEF Room
    <3>2. f \in Addr /\ g.hdr[f].size \in Nat
      BY <1>1, ListedBlock DEF OnList
    <3>3. b \in OnList(r)
      BY <2>1, <2>3, <2>6 DEF OnList
    <3>4. CASE f = b \/ f = c
      <4>1. j[b].size >= s
        BY <2>2, <2>4, <3>1, <3>4
      <4> QED
        BY <2>9, <3>3, <4>1 DEF Room
    <3>5. CASE f # b /\ f # c
      <4>1. f \in OnList(r) /\ j[f] = g.hdr[f]
        BY <2>4, <2>6, <3>2, <3>5
      <4> QED
        BY <2>9, <3>1, <4>1 DEF Room
    <3> QED
      BY <3>4, <3>5
  <2>14. Stays(g, k, off)
    BY <2>6, <2>9, <2>12, <2>13 DEF Stays
  <2> QED
    BY <2>11, <2>14 DEF k
<1>3. CASE ~(n \in 1 .. Len(g.free) - 1 /\ b + g.hdr[b].size = c)
  <2>1. k = g
    BY <1>3 DEF join
  <2>2. ASSUME NEW m \in 1 .. Len(g.free) - 1, m \notin E \ {n}
        PROVE  g.free[m] + g.hdr[g.free[m]].size < g.free[m + 1]
    <3>1. CASE m # n
      BY <1>1, <2>2, <3>1 DEF Gaps
    <3>2. CASE m = n
      <4>1. n \in 1 .. Len(g.free) - 1 /\ n \in 1 .. Len(g.free) /\ n + 1 \in 1 .. Len(g.free)
        BY <1>1, <2>2, <3>2
      <4>2. /\ b \in Blk(g.hdr) /\ b \in Nat /\ g.hdr[b].size \in Nat
            /\ c \in Blk(g.hdr) /\ c \in Nat
        BY <1>1, <4>1, ListedBlock
      <4>3. b < c
        BY <1>1, <4>1 DEF Listed, Sorted
      <4>4. b + g.hdr[b].size <= c
        BY <1>1, <4>2, <4>3 DEF Memory, Apart
      <4>5. b + g.hdr[b].size # c
        BY <1>3, <4>1
      <4>6. b + g.hdr[b].size < c
        <5> DEFINE x == b + g.hdr[b].size
        <5>1. x \in Nat
          BY <4>2
        <5>a. x <= c /\ x # c
          BY <4>4, <4>5
        <5> HIDE DEF x
        <5>2. x < c
          BY <4>2, <5>1, <5>a
        <5> QED
          BY <5>2 DEF x
      <4> QED
        BY <3>2, <4>6
    <3> QED
      BY <3>1, <3>2
  <2>3. Gaps(g.free, g.hdr, E \ {n})
    BY <2>2 DEF Gaps
  <2>4. Part(g, off, E \ {n})
    BY <1>1, <2>3 DEF Part
  <2>5. Stays(g, g, off)
    BY DEF Stays
  <2> QED
    BY <2>1, <2>4, <2>5
<1> QED
  BY <1>2, <1>3

\* One join after another.
LEMMA StaysTwice ==
  ASSUME NEW g, NEW k, NEW m, NEW off, Stays(g, k, off), Stays(k, m, off)
  PROVE  Stays(g, m, off)
BY DEF Stays

-----------------------------------------------------------------------------
(* freelist_insert.                                                        *)

\* The loop stops before the first block that is not below b.
LEMMA BeforeStops ==
  ASSUME NEW list \in Seq(Aligned), NEW b \in Nat
  PROVE  LET k == before(list, b) IN
         /\ k \in 0 .. Len(list)
         /\ \A j \in 1 .. k : list[j] < b
         /\ k < Len(list) => list[k + 1] >= b
<1> DEFINE T == {n \in 0 .. Len(list) : n < Len(list) => list[n + 1] >= b}
<1>1. Len(list) \in Nat
  OBVIOUS
<1>2. T \subseteq Nat /\ Len(list) \in T
  BY <1>1
<1>3. PICK x \in T : \A y \in T : x <= y
  BY <1>2, LeastNatural
<1>4. x \in 0 .. Len(list) /\ (x < Len(list) => list[x + 1] >= b)
  OBVIOUS
<1>5. ASSUME NEW j \in 1 .. x PROVE list[j] < b
  <2>1. j \in 1 .. Len(list) /\ j - 1 \in 0 .. Len(list) /\ j - 1 < Len(list) /\ j - 1 + 1 = j
    BY <1>1, <1>4
  <2>2. list[j] \in Nat
    <3>1. list[j] \in Aligned
      BY <2>1
    <3> QED
      BY <3>1, AddrNat
  <2>3. j - 1 \notin T
    BY <1>3, <1>4, <2>1
  <2>4. ~(list[j] >= b)
    BY <2>1, <2>3
  <2> QED
    BY <2>2, <2>4
<1> HIDE DEF T
<1> QED
  BY <1>4, <1>5 DEF before

\* The list with b put in where the loop stops.
LEMMA InsertSorted ==
  ASSUME NEW list \in Seq(Aligned), Sorted(list), NEW b \in Aligned, b \notin OnList(list)
  PROVE  LET k == before(list, b)
             l == InsertAt(list, k + 1, b)
         IN /\ l \in Seq(Aligned) /\ Sorted(l) /\ OnList(l) = OnList(list) \cup {b}
            /\ k \in 0 .. Len(list) /\ Len(l) = Len(list) + 1
            /\ \A m \in 1 .. Len(list) + 1 :
                 l[m] = IF m < k + 1 THEN list[m] ELSE IF m = k + 1 THEN b ELSE list[m - 1]
<1> DEFINE k == before(list, b)
           l == InsertAt(list, k + 1, b)
<1>1. /\ k \in 0 .. Len(list) /\ Len(list) \in Nat /\ b \in Nat
      /\ \A j \in 1 .. k : list[j] < b
      /\ k < Len(list) => list[k + 1] >= b
  <2>1. b \in Nat /\ Len(list) \in Nat
    BY AddrNat
  <2> QED
    BY <2>1, BeforeStops
<1> HIDE DEF k
<1>2. /\ l \in Seq(Aligned) /\ Len(l) = Len(list) + 1
      /\ \A m \in 1 .. Len(list) + 1 :
           l[m] = IF m < k + 1 THEN list[m] ELSE IF m = k + 1 THEN b ELSE list[m - 1]
  <2> DEFINE q == k + 1
  <2>1. q \in 1 .. Len(list) + 1
    BY <1>1
  <2>2. l = InsertAt(list, q, b)
    OBVIOUS
  <2> HIDE DEF q, l
  <2>3. /\ l \in Seq(Aligned) /\ Len(l) = Len(list) + 1
        /\ \A m \in 1 .. Len(list) + 1 :
             l[m] = IF m < q THEN list[m] ELSE IF m = q THEN b ELSE list[m - 1]
    BY <2>1, <2>2, InsertAtProperties, SMTT(30)
  <2> QED
    BY <2>3 DEF q
<1> HIDE DEF l
<1>3. ASSUME NEW m \in 1 .. Len(list) PROVE list[m] \in Nat /\ list[m] # b
  <2>1. list[m] \in Aligned /\ list[m] \in OnList(list)
    BY DEF OnList
  <2> QED
    BY <2>1, AddrNat
<1>4. ASSUME NEW m \in 1 .. Len(list), m > k PROVE b < list[m]
  <2>1. k + 1 \in 1 .. Len(list) /\ k < Len(list)
    BY <1>1, <1>4
  <2>2. list[k + 1] >= b /\ list[k + 1] \in Nat /\ list[k + 1] # b
    BY <1>1, <1>3, <2>1
  <2>3. m = k + 1 \/ list[k + 1] < list[m]
    BY <1>1, <1>4, <2>1 DEF Sorted
  <2> QED
    BY <1>1, <1>3, <2>2, <2>3
<1>5. Sorted(l)
  <2>1. ASSUME NEW m \in 1 .. Len(l), NEW n \in 1 .. Len(l), m < n PROVE l[m] < l[n]
    <3>1. m \in 1 .. Len(list) + 1 /\ n \in 1 .. Len(list) + 1 /\ m < n
      BY <1>2, <2>1
    <3>2. CASE n < k + 1
      <4>1. l[m] = list[m] /\ l[n] = list[n] /\ m \in 1 .. Len(list) /\ n \in 1 .. Len(list)
        BY <1>1, <1>2, <3>1, <3>2
      <4> QED
        BY <3>1, <4>1 DEF Sorted
    <3>3. CASE n = k + 1
      <4>1. l[m] = list[m] /\ l[n] = b /\ m \in 1 .. k
        BY <1>1, <1>2, <3>1, <3>3
      <4> QED
        BY <1>1, <4>1
    <3>4. CASE n > k + 1
      <4>1. l[n] = list[n - 1] /\ n - 1 \in 1 .. Len(list) /\ n - 1 > k
        BY <1>1, <1>2, <3>1, <3>4
      <4>2. CASE m < k + 1
        <5>1. l[m] = list[m] /\ m \in 1 .. Len(list) /\ m < n - 1
          BY <1>1, <1>2, <3>1, <3>4, <4>2
        <5> QED
          BY <4>1, <5>1 DEF Sorted
      <4>3. CASE m = k + 1
        <5>1. l[m] = b
          BY <1>2, <3>1, <4>3
        <5> QED
          BY <1>4, <4>1, <5>1
      <4>4. CASE m > k + 1
        <5>1. l[m] = list[m - 1] /\ m - 1 \in 1 .. Len(list) /\ m - 1 < n - 1
          BY <1>1, <1>2, <3>1, <4>4
        <5> QED
          BY <4>1, <5>1 DEF Sorted
      <4> QED
        BY <1>1, <3>1, <4>2, <4>3, <4>4
    <3> QED
      BY <1>1, <3>1, <3>2, <3>3, <3>4
  <2> QED
    BY <2>1 DEF Sorted
<1>6. ASSUME NEW x \in OnList(l) PROVE x \in OnList(list) \cup {b}
  <2>1. PICK m \in 1 .. Len(l) : x = l[m]
    BY DEF OnList
  <2>2. \/ x = b
        \/ x = list[m] /\ m \in 1 .. Len(list)
        \/ x = list[m - 1] /\ m - 1 \in 1 .. Len(list)
    BY <1>1, <1>2, <2>1
  <2> QED
    BY <2>2 DEF OnList
<1>7. ASSUME NEW x \in OnList(list) PROVE x \in OnList(l)
  <2>1. PICK m \in 1 .. Len(list) : x = list[m]
    BY DEF OnList
  <2> DEFINE n == IF m < k + 1 THEN m ELSE m + 1
  <2>2. n \in 1 .. Len(l) /\ l[n] = x
    BY <1>1, <1>2, <2>1
  <2> HIDE DEF n
  <2> QED
    BY <2>2 DEF OnList
<1>8. b \in OnList(l)
  <2>1. k + 1 \in 1 .. Len(l) /\ l[k + 1] = b
    BY <1>1, <1>2
  <2> QED
    BY <2>1 DEF OnList
<1>9. OnList(l) = OnList(list) \cup {b}
  BY <1>6, <1>7, <1>8
<1> QED
  BY <1>1, <1>2, <1>5, <1>9 DEF k, l

\* The mark of a block says nothing about where the blocks are.
Flagged(hd, b, v) == [hd EXCEPT ![b].used = v]

\* Only the mark of b differs, and is v now.
Marks(hd, d, b, v) ==
  /\ d \in [Addr -> Header]
  /\ d[b].used = v /\ d[b].size = hd[b].size
  /\ \A a \in Addr \ {b} : d[a] = hd[a]
  /\ Blk(d) = Blk(hd)
  /\ Busy(d) = IF v THEN Busy(hd) \cup {b} ELSE Busy(hd) \ {b}

\* The headers after one was marked.
LEMMA FlaggedAt ==
  ASSUME NEW hd \in [Addr -> Header], NEW b \in Blk(hd), NEW v \in BOOLEAN
  PROVE  Marks(hd, Flagged(hd, b, v), b, v)
<1> DEFINE d == Flagged(hd, b, v)
           m == [hd[b] EXCEPT !.used = v]
<1>1. b \in Addr /\ hd[b] \in Header
  BY BlockType
<1>2. m \in Header /\ m.size = hd[b].size /\ m.magic = hd[b].magic /\ m.used = v
  BY <1>1 DEF Header
<1> HIDE DEF m
<1>3. d = [hd EXCEPT ![b] = m]
  BY DEF m, Flagged
<1>4. d \in [Addr -> Header] /\ d[b] = m /\ \A a \in Addr \ {b} : d[a] = hd[a]
  BY <1>1, <1>2, <1>3
<1> HIDE DEF d
<1>5. ASSUME NEW a \in Addr PROVE d[a].magic = hd[a].magic
  BY <1>2, <1>4
<1>6. Blk(d) = Blk(hd)
  BY <1>5 DEF Blk
<1>7. ASSUME NEW a PROVE a \in Busy(d) <=> IF v THEN a \in Busy(hd) \cup {b}
                                               ELSE a \in Busy(hd) \ {b}
  <2>1. CASE a = b
    BY <1>2, <1>4, <1>6, <2>1 DEF Busy
  <2>2. CASE a # b
    <3>1. a \in Blk(hd) => d[a] = hd[a]
      BY <1>4, <2>2 DEF Blk
    <3> QED
      BY <1>6, <2>2, <3>1 DEF Busy
  <2> QED
    BY <2>1, <2>2
<1>8. Busy(d) = IF v THEN Busy(hd) \cup {b} ELSE Busy(hd) \ {b}
  BY <1>7
<1> QED
  BY <1>2, <1>4, <1>6, <1>8 DEF d, Marks

\* Blocks that are where they were still fill the pages of the heap.
LEMMA SameBlocks ==
  ASSUME NEW hd, NEW own, Memory(hd, own), NEW d \in [Addr -> Header], Blk(d) = Blk(hd),
         \A a \in Blk(hd) : d[a].size = hd[a].size
  PROVE  Memory(d, own)
<1>1. Framed(d)
  BY DEF Memory, Framed
<1>2. Apart(d)
  BY DEF Memory, Apart
<1>3. ASSUME NEW x PROVE InBlock(d, x) <=> InBlock(hd, x)
  BY DEF InBlock, Spans
<1>4. Fills(d, own)
  BY <1>3 DEF Memory, Fills
<1> QED
  BY <1>1, <1>2, <1>4 DEF Memory

\* The heap is whole but for block b, which is to go on the list.
Loose(g, off, b) ==
  /\ g \in HeapRec
  /\ Memory(g.hdr, g.own)
  /\ Listed(g.free, g.hdr, off \cup {b})
  /\ Gaps(g.free, g.hdr, {})
  /\ off \subseteq Blk(g.hdr)
  /\ b \in Blk(g.hdr) \ off

\* Block b has gone on the list of g, and k is the heap now.
Inserted(g, k, off, b) ==
  /\ k.pool = g.pool /\ k.own = g.own /\ k.fault = g.fault
  /\ Busy(k.hdr) = Busy(g.hdr) \ {b}
  /\ \A a \in (Busy(g.hdr) \ {b}) \cup off : k.hdr[a] = g.hdr[a]
  /\ Room(k, g.hdr[b].size)

\* Linking b in puts it in its place; it may touch its neighbours.
LEMMA LinkPart ==
  ASSUME NEW g, NEW off, NEW b, Loose(g, off, b)
  PROVE  LET k == before(g.free, b)
             m == link(g, k, b)
         IN k \in Nat /\ Part(m, off, {k, k + 1}) /\ Inserted(g, m, off, b)
<1> DEFINE k == before(g.free, b)
           m == link(g, k, b)
           l == InsertAt(g.free, k + 1, b)
           d == Flagged(g.hdr, b, FALSE)
<1>1. /\ g \in HeapRec /\ Memory(g.hdr, g.own) /\ Listed(g.free, g.hdr, off \cup {b})
      /\ Gaps(g.free, g.hdr, {}) /\ off \subseteq Blk(g.hdr) /\ b \in Blk(g.hdr) /\ b \notin off
      /\ g.hdr \in [Addr -> Header] /\ g.free \in Seq(Aligned) /\ Len(g.free) \in Nat
  BY RecFields DEF Loose
<1>2. /\ Sorted(g.free) /\ OnList(g.free) = (Blk(g.hdr) \ Busy(g.hdr)) \ (off \cup {b})
      /\ b \in Addr /\ b \in Nat /\ g.hdr[b].size \in Nat
  BY <1>1, BlockType DEF Listed
<1>3. b \in Aligned /\ b \notin OnList(g.free)
  BY <1>1, <1>2 DEF Memory, Framed, Aligned
<1>4. /\ l \in Seq(Aligned) /\ Sorted(l) /\ OnList(l) = OnList(g.free) \cup {b}
      /\ k \in 0 .. Len(g.free) /\ Len(l) = Len(g.free) + 1
      /\ \A n \in 1 .. Len(g.free) + 1 :
           l[n] = IF n < k + 1 THEN g.free[n] ELSE IF n = k + 1 THEN b ELSE g.free[n - 1]
  BY <1>1, <1>2, <1>3, InsertSorted
<1>5. /\ d \in [Addr -> Header]
      /\ d[b].size = g.hdr[b].size
      /\ \A a \in Addr \ {b} : d[a] = g.hdr[a]
      /\ Blk(d) = Blk(g.hdr)
      /\ Busy(d) = Busy(g.hdr) \ {b}
  <2>1. Marks(g.hdr, d, b, FALSE)
    BY <1>1, FlaggedAt
  <2> HIDE DEF d
  <2> QED
    BY <2>1 DEF Marks
<1>6. m = WithBlocks(g, l, d)
  BY DEF link, WithBlocks, Flagged
<1> HIDE DEF k, m, l, d
<1>7. /\ m \in HeapRec /\ m.free = l /\ m.hdr = d
      /\ m.pool = g.pool /\ m.own = g.own /\ m.fault = g.fault
  BY <1>1, <1>4, <1>5, <1>6, RecUpdate
<1>8. ASSUME NEW a \in Blk(g.hdr) PROVE d[a].size = g.hdr[a].size
  BY <1>5 DEF Blk
<1>9. Memory(d, g.own)
  BY <1>1, <1>5, <1>8, SameBlocks
<1>10. Listed(l, d, off)
  <2>1. OnList(l) = (Blk(d) \ Busy(d)) \ off
    BY <1>1, <1>2, <1>4, <1>5
  <2> QED
    BY <1>4, <2>1 DEF Listed
<1>11. ASSUME NEW n \in 1 .. Len(l) - 1, n \notin {k, k + 1}
       PROVE  l[n] + d[l[n]].size < l[n + 1]
  <2>1. CASE n < k
    <3>1. /\ n \in 1 .. Len(g.free) - 1 /\ n \in 1 .. Len(g.free)
          /\ n + 1 \in 1 .. Len(g.free) + 1 /\ n \in 1 .. Len(g.free) + 1
      BY <1>1, <1>4, <2>1
    <3>2. l[n] = g.free[n] /\ l[n + 1] = g.free[n + 1]
      BY <1>4, <2>1, <3>1
    <3>3. g.free[n] + g.hdr[g.free[n]].size < g.free[n + 1]
      BY <1>1, <3>1 DEF Gaps
    <3>4. d[g.free[n]].size = g.hdr[g.free[n]].size
      BY <1>1, <1>8, <3>1, ListedBlock
    <3> QED
      BY <3>2, <3>3, <3>4
  <2>2. CASE n > k + 1
    <3>1. /\ n - 1 \in 1 .. Len(g.free) - 1 /\ n - 1 \in 1 .. Len(g.free) /\ n - 1 + 1 = n
          /\ n + 1 \in 1 .. Len(g.free) + 1 /\ n \in 1 .. Len(g.free) + 1 /\ n + 1 - 1 = n
      BY <1>1, <1>4, <2>2
    <3>2. l[n] = g.free[n - 1] /\ l[n + 1] = g.free[n]
      <4>1. l[n] = g.free[n - 1]
        BY <1>4, <2>2, <3>1
      <4>2. l[n + 1] = g.free[n + 1 - 1]
        <5>1. ~(n + 1 < k + 1) /\ n + 1 # k + 1
          BY <1>4, <2>2
        <5> QED
          BY <1>4, <3>1, <5>1
      <4> QED
        BY <3>1, <4>1, <4>2
    <3>3. g.free[n - 1] + g.hdr[g.free[n - 1]].size < g.free[n]
      BY <1>1, <3>1 DEF Gaps
    <3>4. d[g.free[n - 1]].size = g.hdr[g.free[n - 1]].size
      BY <1>1, <1>8, <3>1, ListedBlock
    <3> QED
      BY <3>2, <3>3, <3>4
  <2> QED
    BY <1>4, <1>11, <2>1, <2>2
<1>12. Gaps(l, d, {k, k + 1})
  BY <1>11 DEF Gaps
<1>13. Part(m, off, {k, k + 1})
  BY <1>1, <1>5, <1>7, <1>9, <1>10, <1>12 DEF Part
<1>14. ASSUME NEW a \in (Busy(g.hdr) \ {b}) \cup off PROVE m.hdr[a] = g.hdr[a]
  <2>1. a \in Blk(g.hdr) /\ a # b
    BY <1>1 DEF Busy
  <2> QED
    BY <1>5, <1>7, <2>1 DEF Blk
<1>15. Room(m, g.hdr[b].size)
  <2>1. b \in OnList(m.free) /\ m.hdr[b].size >= g.hdr[b].size
    BY <1>2, <1>4, <1>5, <1>7
  <2> QED
    BY <2>1 DEF Room
<1>16. Inserted(g, m, off, b)
  BY <1>5, <1>7, <1>14, <1>15 DEF Inserted
<1>17. k \in Nat
  BY <1>4
<1> QED
  BY <1>13, <1>16, <1>17 DEF k, m

\* What one step inserted is still there after what only joins.
LEMMA InsertedStays ==
  ASSUME NEW g, NEW k, NEW m, NEW off, NEW b, Inserted(g, k, off, b), Stays(k, m, off),
         g.hdr[b].size \in Nat
  PROVE  Inserted(g, m, off, b)
<1>1. ASSUME NEW a \in (Busy(g.hdr) \ {b}) \cup off PROVE m.hdr[a] = g.hdr[a]
  BY DEF Inserted, Stays
<1> QED
  BY <1>1 DEF Inserted, Stays

\* freelist_insert keeps the heap whole and touches nothing but blocks of the
\* list.
LEMMA InsertPart ==
  ASSUME NEW g, NEW off, NEW b, Loose(g, off, b)
  PROVE  LET m == freelist_insert(g, b) IN Part(m, off, {}) /\ Inserted(g, m, off, b)
<1> DEFINE k == before(g.free, b)
           l == link(g, k, b)
           j == join(l, k + 1)
           m == join(j, k)
<1>1. k \in Nat /\ Part(l, off, {k, k + 1}) /\ Inserted(g, l, off, b)
  BY LinkPart
<1>2. g.hdr[b].size \in Nat
  BY BlockType, RecFields DEF Loose
<1>3. m = freelist_insert(g, b)
  BY DEF freelist_insert
<1> HIDE DEF k, l
<1>4. Part(j, off, {k}) /\ Stays(l, j, off)
  <2> DEFINE n == k + 1
             E == {k, k + 1}
  <2>1. n \in Nat /\ E \subseteq {n - 1, n} /\ E \ {n} = {k}
    BY <1>1
  <2>2. Part(l, off, E)
    BY <1>1
  <2> HIDE DEF E, n
  <2>3. Part(join(l, n), off, E \ {n}) /\ Stays(l, join(l, n), off)
    BY <2>1, <2>2, JoinPart
  <2> QED
    BY <2>1, <2>3 DEF n
<1> HIDE DEF j
<1>5. Part(m, off, {}) /\ Stays(j, m, off)
  <2> DEFINE E == {k}
  <2>1. E \subseteq {k - 1, k} /\ E \ {k} = {}
    OBVIOUS
  <2>2. Part(j, off, E)
    BY <1>4
  <2> HIDE DEF E
  <2>3. Part(join(j, k), off, E \ {k}) /\ Stays(j, join(j, k), off)
    BY <1>1, <2>1, <2>2, JoinPart
  <2> QED
    BY <2>1, <2>3
<1>6. Inserted(g, m, off, b)
  BY <1>1, <1>2, <1>4, <1>5, InsertedStays, StaysTwice
<1> QED
  BY <1>3, <1>5, <1>6

-----------------------------------------------------------------------------
(* Growing the heap.                                                       *)

\* A whole heap.
Good(g) == Part(g, {}, {}) /\ g.pool \cap g.own = {}

\* The blocks in use are those of g, and their headers too.
KeepsBusy(g, k) ==
  /\ Busy(k.hdr) = Busy(g.hdr)
  /\ \A a \in Busy(g.hdr) : k.hdr[a] = g.hdr[a]

\* A block appears at b, with s bytes.
NewBlock(hd, b, s) == [hd EXCEPT ![b] = FreeHeader(s)]

\* Only the header at b differs.
Appears(hd, d, b, s) ==
  /\ d \in [Addr -> Header]
  /\ d[b].size = s
  /\ \A a \in Addr \ {b} : d[a] = hd[a]
  /\ Blk(d) = Blk(hd) \cup {b}
  /\ Busy(d) = Busy(hd) \ {b}

\* The headers after a new one was written.
LEMMA NewBlockAt ==
  ASSUME NEW hd \in [Addr -> Header], NEW b \in Addr, NEW s \in Nat
  PROVE  Appears(hd, NewBlock(hd, b, s), b, s)
<1> DEFINE d == NewBlock(hd, b, s)
           m == FreeHeader(s)
<1>1. m \in Header /\ m.size = s /\ m.magic /\ ~m.used
  BY DEF Header, FreeHeader
<1> HIDE DEF m
<1>2. d \in [Addr -> Header] /\ d[b] = m /\ \A a \in Addr \ {b} : d[a] = hd[a]
  BY <1>1 DEF NewBlock, m
<1> HIDE DEF d
<1>3. ASSUME NEW a \in Addr
      PROVE  /\ d[a].magic <=> (hd[a].magic \/ a = b)
             /\ a # b => d[a].used = hd[a].used
  BY <1>1, <1>2
<1>4. Blk(d) = Blk(hd) \cup {b}
  BY <1>3 DEF Blk
<1>5. Busy(d) = Busy(hd) \ {b}
  BY <1>1, <1>2, <1>3, <1>4 DEF Busy, Blk
<1> QED
  BY <1>1, <1>2, <1>4, <1>5 DEF d, Appears

\* alloc_page answers with a page that is free.
LEMMA MinIn ==
  ASSUME NEW T, T \subseteq Nat, T # {}
  PROVE  Min(T) \in T
BY LeastNatural DEF Min

\* The heap that has taken page p as a block, not yet on its list.
Taking(g, p) ==
  [g EXCEPT !.pool = @ \ {p}, !.own = @ \cup {p},
            !.hdr = NewBlock(g.hdr, p * HeapPage, HeapPage)]

\* The fields of it.
LEMMA TakingFields ==
  ASSUME NEW g \in HeapRec, NEW p \in Pages,
         NewBlock(g.hdr, p * HeapPage, HeapPage) \in [Addr -> Header]
  PROVE  LET k == Taking(g, p) IN
         /\ k \in HeapRec /\ k.free = g.free /\ k.fault = g.fault
         /\ k.pool = g.pool \ {p} /\ k.own = g.own \cup {p}
         /\ k.hdr = NewBlock(g.hdr, p * HeapPage, HeapPage)
<1> DEFINE d == NewBlock(g.hdr, p * HeapPage, HeapPage)
<1> HIDE DEF d
<1>1. LET k == [g EXCEPT !.pool = @ \ {p}, !.own = @ \cup {p}, !.hdr = d] IN
      /\ d \in [Addr -> Header] =>
           /\ k \in HeapRec /\ k.free = g.free /\ k.fault = g.fault
           /\ k.pool = g.pool \ {p} /\ k.own = g.own \cup {p} /\ k.hdr = d
  BY DEF HeapRec
<1> QED
  BY <1>1 DEF Taking, d

\* A free page is a block that no other one reaches into.
LEMMA TakingLoose ==
  ASSUME NEW g, Good(g), NEW p \in g.pool
  PROVE  /\ Loose(Taking(g, p), {}, p * HeapPage)
         /\ Taking(g, p).pool \cap Taking(g, p).own = {}
         /\ KeepsBusy(g, Taking(g, p))
         /\ Taking(g, p).hdr[p * HeapPage].size = HeapPage
         /\ p * HeapPage \notin Busy(Taking(g, p).hdr)
<1> DEFINE b == p * HeapPage
           d == NewBlock(g.hdr, b, HeapPage)
           k == Taking(g, p)
<1>1. /\ g \in HeapRec /\ Memory(g.hdr, g.own) /\ Listed(g.free, g.hdr, {})
      /\ Gaps(g.free, g.hdr, {}) /\ g.pool \cap g.own = {}
      /\ g.hdr \in [Addr -> Header] /\ g.own \subseteq Pages /\ p \in Pages
  BY RecFields DEF Good, Part
<1>2. g.hdr \in [Addr -> Header] /\ Framed(g.hdr) /\ Apart(g.hdr) /\ Fills(g.hdr, g.own)
  BY <1>1 DEF Memory
<1>3. /\ p \in Nat /\ b \in Nat /\ b % Align = 0
      /\ PageAddr(p) = b .. b + HeapPage - 1
  BY <1>1, HeapSizes, PageStart DEF PageAddr
<1> HIDE DEF b
<1>4. b \in PageAddr(p) /\ b \in Addr
  <2>1. b \in PageAddr(p)
    BY <1>3, HeapSizes
  <2> QED
    BY <1>1, <2>1 DEF Addr
<1>5. ASSUME NEW a \in Blk(g.hdr), NEW x \in PageAddr(p) PROVE ~Spans(g.hdr, a, x)
  <2> SUFFICES ASSUME Spans(g.hdr, a, x) PROVE FALSE
    OBVIOUS
  <2>1. x \in Nat
    BY <1>3
  <2>2. InOwned(g.own, x)
    BY <1>2, <2>1 DEF Fills, InBlock
  <2>3. PICK q \in g.own : x \in PageAddr(q)
    BY <2>2 DEF InOwned
  <2>4. q \in Nat /\ q # p
    BY <1>1, HeapSizes
  <2> QED
    BY <1>3, <2>3, <2>4, PagesApart
<1>6. ASSUME NEW a \in Blk(g.hdr)
      PROVE  /\ a \in Nat /\ g.hdr[a].size \in Nat /\ g.hdr[a].size > 0
             /\ a # b /\ (a < b => a + g.hdr[a].size <= b) /\ (b < a => b + HeapPage <= a)
  <2>1. a \in Nat /\ g.hdr[a].size \in Nat /\ g.hdr[a].size > 0
    BY <1>2, BlockType, HeapSizes DEF Framed
  <2>2. ~Spans(g.hdr, a, b)
    BY <1>4, <1>5
  <2>3. a \notin PageAddr(p)
    BY <1>5, <2>1 DEF Spans
  <2>4. a # b /\ (a < b => a + g.hdr[a].size <= b)
    BY <1>3, <2>1, <2>2 DEF Spans
  <2>5. b < a => b + HeapPage <= a
    BY <1>3, <2>1, <2>3, HeapSizes
  <2> QED
    BY <2>1, <2>4, <2>5
<1>7. b \notin Blk(g.hdr)
  BY <1>6
<1>8. Appears(g.hdr, d, b, HeapPage)
  BY <1>1, <1>4, NewBlockAt, HeapSizes
<1> HIDE DEF d
<1>9. /\ d \in [Addr -> Header] /\ d[b].size = HeapPage
      /\ \A a \in Blk(g.hdr) : d[a] = g.hdr[a]
      /\ Blk(d) = Blk(g.hdr) \cup {b}
      /\ Busy(d) = Busy(g.hdr)
  BY <1>7, <1>8 DEF Appears, Blk, Busy
<1>10. Framed(d)
  <2>1. ASSUME NEW a \in Blk(d)
        PROVE  a % Align = 0 /\ d[a].size >= HeapMinTotal /\ d[a].size % Align = 0
    <3>1. CASE a = b
      BY <1>3, <1>9, <3>1, HeapSizes
    <3>2. CASE a # b
      BY <1>2, <1>9, <3>2 DEF Framed
    <3> QED
      BY <3>1, <3>2
  <2> QED
    BY <2>1 DEF Framed
<1>11. Apart(d)
  <2>1. ASSUME NEW a \in Blk(d), NEW e \in Blk(d), a < e PROVE a + d[a].size <= e
    <3>1. CASE a = b
      <4>1. e \in Blk(g.hdr)
        BY <1>3, <1>9, <2>1, <3>1
      <4> QED
        BY <1>6, <1>9, <2>1, <3>1, <4>1
    <3>2. CASE a # b /\ e = b
      <4>1. a \in Blk(g.hdr)
        BY <1>9, <3>2
      <4> QED
        BY <1>6, <1>9, <2>1, <3>2, <4>1
    <3>3. CASE a # b /\ e # b
      BY <1>2, <1>9, <2>1, <3>3 DEF Apart
    <3> QED
      BY <3>1, <3>2, <3>3
  <2> QED
    BY <2>1 DEF Apart
<1>12. Fills(d, g.own \cup {p})
  <2>1. ASSUME NEW x \in Nat PROVE InBlock(d, x) <=> (InBlock(g.hdr, x) \/ Spans(d, b, x))
    <3>1. \A a \in Blk(g.hdr) : Spans(d, a, x) <=> Spans(g.hdr, a, x)
      BY <1>9 DEF Spans
    <3> QED
      BY <1>9, <3>1 DEF InBlock
  <2>2. ASSUME NEW x \in Nat PROVE Spans(d, b, x) <=> x \in PageAddr(p)
    BY <1>3, <1>9, HeapSizes DEF Spans
  <2>3. ASSUME NEW x \in Nat
        PROVE  InOwned(g.own \cup {p}, x) <=> (InOwned(g.own, x) \/ x \in PageAddr(p))
    BY DEF InOwned
  <2> QED
    BY <1>2, <2>1, <2>2, <2>3 DEF Fills
<1>13. Memory(d, g.own \cup {p})
  BY <1>9, <1>10, <1>11, <1>12 DEF Memory
<1>14. /\ k \in HeapRec /\ k.free = g.free /\ k.fault = g.fault
       /\ k.pool = g.pool \ {p} /\ k.own = g.own \cup {p} /\ k.hdr = d
  BY <1>1, <1>9, TakingFields DEF d, b
<1> HIDE DEF k
<1>15. Listed(g.free, d, {} \cup {b})
  BY <1>1, <1>7, <1>9 DEF Listed
<1>16. Gaps(g.free, d, {})
  <2>1. ASSUME NEW n \in 1 .. Len(g.free) - 1
        PROVE  g.free[n] + d[g.free[n]].size < g.free[n + 1]
    <3>1. n \in 1 .. Len(g.free)
      BY <1>1 DEF Listed
    <3>2. g.free[n] \in Blk(g.hdr)
      BY <1>1, <3>1, ListedBlock
    <3> QED
      BY <1>1, <1>9, <3>2 DEF Gaps
  <2> QED
    BY <2>1 DEF Gaps
<1>17. Loose(k, {}, b)
  BY <1>9, <1>13, <1>14, <1>15, <1>16 DEF Loose
<1>18. k.pool \cap k.own = {}
  BY <1>1, <1>14
<1>19. KeepsBusy(g, k)
  BY <1>9, <1>14 DEF KeepsBusy, Busy
<1>20. b \notin Busy(k.hdr)
  BY <1>7, <1>9, <1>14 DEF Busy
<1> QED
  BY <1>9, <1>14, <1>17, <1>18, <1>19, <1>20 DEF b, k

\* heap_add_page.
LEMMA AddPage ==
  ASSUME NEW g, Good(g)
  PROVE  LET k == heap_add_page(g) IN
         Good(k) /\ KeepsBusy(g, k) /\ (k.fault \/ Room(k, HeapPage))
<1> DEFINE k == heap_add_page(g)
<1>1. g \in HeapRec /\ g.pool \subseteq Pages
  BY RecFields DEF Good, Part
<1>2. CASE g.fault \/ g.pool = {}
  <2>1. k = [g EXCEPT !.fault = TRUE]
    BY <1>2 DEF heap_add_page
  <2>2. /\ k \in HeapRec /\ k.free = g.free /\ k.hdr = g.hdr
        /\ k.pool = g.pool /\ k.own = g.own /\ k.fault
    BY <1>1, <2>1 DEF HeapRec
  <2> HIDE DEF k
  <2>3. Good(k) /\ KeepsBusy(g, k)
    BY <2>2 DEF Good, Part, KeepsBusy
  <2> QED
    BY <2>2, <2>3 DEF k
<1>3. CASE ~(g.fault \/ g.pool = {})
  <2> DEFINE p == Min(g.pool)
             b == p * HeapPage
             t == Taking(g, p)
  <2>1. p \in g.pool
    BY <1>1, <1>3, HeapSizes, MinIn
  <2>2. k = freelist_insert(t, b)
    BY <1>3 DEF heap_add_page, Taking, NewBlock
  <2>3. /\ Loose(t, {}, b) /\ t.pool \cap t.own = {} /\ KeepsBusy(g, t)
        /\ t.hdr[b].size = HeapPage /\ b \notin Busy(t.hdr)
    BY <2>1, TakingLoose
  <2> HIDE DEF k, b, t, p
  <2>4. Part(k, {}, {}) /\ Inserted(t, k, {}, b)
    BY <2>2, <2>3, InsertPart
  <2>5. Good(k)
    BY <2>3, <2>4 DEF Good, Inserted
  <2>6. KeepsBusy(g, k)
    <3>1. Busy(t.hdr) = Busy(g.hdr) /\ Busy(k.hdr) = Busy(t.hdr)
      BY <2>3, <2>4 DEF KeepsBusy, Inserted
    <3>2. ASSUME NEW a \in Busy(g.hdr) PROVE k.hdr[a] = g.hdr[a]
      BY <2>3, <2>4, <3>1 DEF KeepsBusy, Inserted
    <3> QED
      BY <3>1, <3>2 DEF KeepsBusy
  <2>7. Room(k, HeapPage)
    BY <2>3, <2>4 DEF Inserted
  <2> QED
    BY <2>5, <2>6, <2>7 DEF k
<1> QED
  BY <1>2, <1>3

\* heap_expand and init_heap: any number of pages.
LEMMA AddPages ==
  ASSUME NEW g, Good(g), NEW n \in Nat
  PROVE  LET k == add_pages(g, n) IN
         /\ Good(k) /\ KeepsBusy(g, k)
         /\ n > 0 => k.fault \/ Room(k, HeapPage)
<1> DEFINE A == {k \in HeapRec : Good(k) /\ KeepsBusy(g, k)}
           F == [m \in 1 .. n |-> [a \in A |-> heap_add_page(a)]]
           Loop(f) == [m \in 0 .. n |-> IF m = 0 THEN g ELSE heap_add_page(f[m - 1])]
           L == CHOOSE f : f = Loop(f)
<1>1. g \in A
  BY DEF Good, Part, KeepsBusy
<1>2. ASSUME NEW a \in A
      PROVE  heap_add_page(a) \in A /\ (heap_add_page(a).fault \/ Room(heap_add_page(a), HeapPage))
  <2> DEFINE k == heap_add_page(a)
  <2>1. Good(a) /\ KeepsBusy(g, a)
    OBVIOUS
  <2>2. Good(k) /\ KeepsBusy(a, k) /\ (k.fault \/ Room(k, HeapPage))
    BY <2>1, AddPage
  <2> HIDE DEF k
  <2>3. KeepsBusy(g, k) /\ k \in HeapRec
    BY <2>1, <2>2 DEF KeepsBusy, Good, Part
  <2> QED
    BY <2>2, <2>3 DEF k
<1>3. F \in Rounds(A, n)
  BY <1>2 DEF Rounds
<1>4. \A a \in A, m \in 1 .. n : F[m][a] = heap_add_page(a)
  OBVIOUS
<1>5. add_pages(g, n) = L[n]
  BY DEF add_pages
<1>6. L = CHOOSE f : f = Loop(f)
  OBVIOUS
<1> HIDE DEF A, F, L
<1>7. PICK f \in [0 .. n -> A] : f[0] = g /\ \A m \in 1 .. n : f[m] = F[m][f[m - 1]]
  <2>1. Runs(A, n, F, g)
    BY <1>1, <1>3, LoopRuns
  <2> QED
    BY <2>1 DEF Runs
<1>8. f = Loop(f)
  <2>1. ASSUME NEW m \in 0 .. n PROVE f[m] = Loop(f)[m]
    <3>1. CASE m = 0
      BY <1>7, <3>1
    <3>2. CASE m # 0
      <4>1. m \in 1 .. n /\ m - 1 \in 0 .. n
        BY <3>2
      <4>2. f[m] = heap_add_page(f[m - 1])
        BY <1>4, <1>7, <4>1
      <4> QED
        BY <3>2, <4>2
    <3> QED
      BY <3>1, <3>2
  <2> QED
    BY <2>1
<1>9. L = Loop(L)
  BY <1>6, <1>8
<1> DEFINE G == {m \in Nat : L[m] \in A /\ (m > 0 => L[m].fault \/ Room(L[m], HeapPage))}
<1>10. 0 \in G
  BY <1>1, <1>9
<1>11. ASSUME NEW m \in 1 .. n, m - 1 \in G PROVE m \in G
  <2>1. L[m] = heap_add_page(L[m - 1])
    BY <1>9
  <2>2. L[m - 1] \in A
    BY <1>11
  <2>3. L[m] \in A /\ (L[m].fault \/ Room(L[m], HeapPage))
    BY <1>2, <2>1, <2>2
  <2> QED
    BY <2>3
<1> HIDE DEF G
<1>12. \A m \in 0 .. n : m \in G
  BY <1>10, <1>11, UpTo, Zenon
<1>13. n \in G
  BY <1>12
<1> QED
  BY <1>5, <1>13 DEF G, A

-----------------------------------------------------------------------------
(* Taking a block off the list, and splitting it.                          *)

\* freelist_find_fit answers a block of the list that is large enough, if there
\* is one.
LEMMA FindFit ==
  ASSUME NEW g, Good(g), NEW need \in Nat
  PROVE  LET b == freelist_find_fit(g, need) IN
         IF Room(g, need) THEN b \in OnList(g.free) /\ g.hdr[b].size >= need /\ b # NULL
                          ELSE b = NULL
<1> DEFINE large == {n \in DOMAIN g.free : ~g.hdr[g.free[n]].used
                                             /\ g.hdr[g.free[n]].size >= need}
<1>1. /\ g \in HeapRec /\ Listed(g.free, g.hdr, {}) /\ g.hdr \in [Addr -> Header]
      /\ g.free \in Seq(Aligned) /\ DOMAIN g.free = 1 .. Len(g.free)
  BY RecFields DEF Good, Part
<1>2. ASSUME NEW n \in DOMAIN g.free
      PROVE  ~g.hdr[g.free[n]].used /\ g.free[n] \in Nat /\ g.free[n] \in OnList(g.free)
  BY <1>1, ListedBlock DEF Busy, OnList
<1>3. freelist_find_fit(g, need) = IF large = {} THEN NULL ELSE g.free[Min(large)]
  BY DEF freelist_find_fit
<1>4. Room(g, need) <=> large # {}
  BY <1>1, <1>2 DEF Room, OnList
<1>5. CASE large # {}
  <2>1. Min(large) \in large
    <3>1. large \subseteq Nat
      BY <1>1
    <3> HIDE DEF large
    <3> QED
      BY <1>5, <3>1, MinIn
  <2> DEFINE n == Min(large)
  <2>2. n \in DOMAIN g.free /\ g.hdr[g.free[n]].size >= need
    BY <2>1
  <2>3. freelist_find_fit(g, need) = g.free[n]
    BY <1>3, <1>5
  <2> HIDE DEF n, large
  <2>4. g.free[n] \in OnList(g.free) /\ g.free[n] \in Nat
    BY <1>2, <2>2
  <2>5. g.free[n] # NULL
    <3>1. NULL \notin Nat
      BY HeapSizes
    <3> QED
      BY <2>4, <3>1, Zenon
  <2> QED
    BY <1>4, <1>5, <2>2, <2>3, <2>4, <2>5
<1>6. CASE large = {}
  BY <1>3, <1>4, <1>6
<1> QED
  BY <1>5, <1>6

\* k is g with block b off the list.
Off(g, k, b) ==
  /\ k.hdr = g.hdr /\ k.pool = g.pool /\ k.own = g.own /\ k.fault = g.fault
  /\ Part(k, {b}, {})

\* freelist_remove.
LEMMA RemovePart ==
  ASSUME NEW g, Good(g), NEW b \in OnList(g.free)
  PROVE  Off(g, freelist_remove(g, b), b)
<1> DEFINE p == CHOOSE n \in DOMAIN g.free : g.free[n] = b
           r == RemoveAt(g.free, p)
           k == freelist_remove(g, b)
<1>1. /\ g \in HeapRec /\ Memory(g.hdr, g.own) /\ Listed(g.free, g.hdr, {})
      /\ Gaps(g.free, g.hdr, {}) /\ g.hdr \in [Addr -> Header]
      /\ g.free \in Seq(Aligned) /\ DOMAIN g.free = 1 .. Len(g.free) /\ Len(g.free) \in Nat
  BY RecFields DEF Good, Part
<1>2. p \in 1 .. Len(g.free) /\ g.free[p] = b
  BY <1>1 DEF OnList
<1>3. k = [g EXCEPT !.free = r]
  BY DEF freelist_remove
<1> HIDE DEF p
<1>4. Sorted(g.free) /\ OnList(g.free) = (Blk(g.hdr) \ Busy(g.hdr)) \ {}
  BY <1>1 DEF Listed
<1>5. r \in Seq(Aligned) /\ Sorted(r) /\ OnList(r) = OnList(g.free) \ {b}
  BY <1>1, <1>2, <1>4, RemoveSorted
<1>6. /\ Len(r) = Len(g.free) - 1
      /\ \A n \in 1 .. Len(g.free) - 1 : r[n] = IF n < p THEN g.free[n] ELSE g.free[n + 1]
  BY <1>1, <1>2, RemoveAtProperties
<1> HIDE DEF r, k
<1>7. /\ k \in HeapRec /\ k.free = r /\ k.hdr = g.hdr
      /\ k.pool = g.pool /\ k.own = g.own /\ k.fault = g.fault
  BY <1>1, <1>3, <1>5 DEF HeapRec
<1>8. Listed(r, g.hdr, {b})
  BY <1>4, <1>5 DEF Listed
<1>9. ASSUME NEW n \in 1 .. Len(r) - 1 PROVE r[n] + g.hdr[r[n]].size < r[n + 1]
  <2>1. /\ n \in 1 .. Len(g.free) - 1 /\ n + 1 \in 1 .. Len(g.free) - 1 /\ n + 1 + 1 = n + 2
        /\ n \in 1 .. Len(g.free) /\ n + 1 \in 1 .. Len(g.free) /\ n + 2 \in 1 .. Len(g.free)
    BY <1>1, <1>6
  <2>2. /\ g.free[n] + g.hdr[g.free[n]].size < g.free[n + 1]
        /\ g.free[n + 1] + g.hdr[g.free[n + 1]].size < g.free[n + 1 + 1]
    BY <1>1, <2>1 DEF Gaps
  <2>3. /\ g.free[n] \in Nat /\ g.hdr[g.free[n]].size \in Nat
        /\ g.free[n + 1] \in Nat /\ g.free[n + 2] \in Nat
    BY <1>1, <2>1, ListedBlock
  <2>4. CASE n + 1 < p
    <3>1. r[n] = g.free[n] /\ r[n + 1] = g.free[n + 1]
      BY <1>2, <1>6, <2>1, <2>4
    <3> QED
      BY <2>2, <3>1
  <2>5. CASE n + 1 = p
    <3>1. r[n] = g.free[n] /\ r[n + 1] = g.free[n + 2]
      BY <1>2, <1>6, <2>1, <2>5
    <3>2. g.free[n + 1] < g.free[n + 2]
      BY <1>4, <2>1 DEF Sorted
    <3> QED
      BY <2>2, <2>3, <3>1, <3>2
  <2>6. CASE n + 1 > p
    <3>1. r[n] = g.free[n + 1] /\ r[n + 1] = g.free[n + 2]
      BY <1>2, <1>6, <2>1, <2>6
    <3> QED
      BY <2>1, <2>2, <3>1
  <2> QED
    BY <1>2, <2>1, <2>4, <2>5, <2>6
<1>10. Gaps(r, g.hdr, {})
  BY <1>9 DEF Gaps
<1>11. b \in Blk(g.hdr)
  BY <1>4
<1>12. Part(k, {b}, {})
  BY <1>1, <1>7, <1>8, <1>10, <1>11 DEF Part
<1> QED
  BY <1>7, <1>12 DEF k, Off

\* Block b is cut to need bytes, and the rest becomes a block.
Cut(hd, b, need) ==
  [hd EXCEPT ![b].size = need, ![b + need] = FreeHeader(hd[b].size - need)]

\* What the cut does to the headers.
CutTo(hd, d, b, need) ==
  /\ d \in [Addr -> Header]
  /\ d[b].size = need /\ d[b + need].size = hd[b].size - need
  /\ \A a \in Addr \ {b, b + need} : d[a] = hd[a]
  /\ Blk(d) = Blk(hd) \cup {b + need}
  /\ Busy(d) = Busy(hd)

\* The block has room for the cut.
Cuttable(hd, own, b, need) ==
  /\ own \subseteq Pages
  /\ Memory(hd, own)
  /\ b \in Blk(hd)
  /\ need \in Nat /\ need >= HeapMinTotal /\ need % Align = 0
  /\ hd[b].size >= need + HeapMinTotal

\* The rest starts inside the block that is cut, where no other block starts.
LEMMA RestInside ==
  ASSUME NEW hd, NEW own, NEW b, NEW need, Cuttable(hd, own, b, need)
  PROVE  /\ b \in Nat /\ hd[b].size \in Nat /\ hd[b].size - need \in Nat
         /\ b + need \in Addr /\ b + need # b /\ b + need \notin Blk(hd)
<1>1. /\ Memory(hd, own) /\ hd \in [Addr -> Header] /\ Apart(hd) /\ b \in Blk(hd)
      /\ need \in Nat /\ need >= HeapMinTotal /\ hd[b].size >= need + HeapMinTotal
      /\ own \subseteq Pages
  BY DEF Cuttable, Memory
<1>2. b \in Nat /\ hd[b].size \in Nat
  BY <1>1, BlockType
<1>3. need > 0 /\ need < hd[b].size /\ hd[b].size - need \in Nat
  BY <1>1, <1>2, HeapSizes
<1> DEFINE x == b + need
<1>4. x \in Nat /\ b < x /\ x < b + hd[b].size
  BY <1>1, <1>2, <1>3
<1>5. Spans(hd, b, x)
  BY <1>2, <1>4 DEF Spans
<1> HIDE DEF x
<1>6. x \in Addr
  BY <1>1, <1>4, <1>5, InReach
<1>7. x \notin Blk(hd)
  BY <1>1, <1>2, <1>4 DEF Apart
<1> QED
  BY <1>2, <1>3, <1>4, <1>6, <1>7 DEF x

\* The headers after the cut.
LEMMA CutAt ==
  ASSUME NEW hd, NEW own, NEW b, NEW need, Cuttable(hd, own, b, need)
  PROVE  CutTo(hd, Cut(hd, b, need), b, need)
<1> DEFINE d == Cut(hd, b, need)
           x == b + need
           m == [hd[b] EXCEPT !.size = need]
           n == FreeHeader(hd[b].size - need)
<1>1. /\ b \in Nat /\ hd[b].size \in Nat /\ hd[b].size - need \in Nat
      /\ x \in Addr /\ x # b /\ x \notin Blk(hd)
  BY RestInside
<1>2. hd \in [Addr -> Header] /\ b \in Blk(hd) /\ b \in Addr /\ hd[b] \in Header /\ need \in Nat
  BY BlockType DEF Cuttable, Memory
<1>3. m \in Header /\ m.size = need /\ m.magic = hd[b].magic /\ m.used = hd[b].used
  BY <1>2 DEF Header
<1>4. n \in Header /\ n.size = hd[b].size - need /\ n.magic /\ ~n.used
  BY <1>1 DEF Header, FreeHeader
<1>5. d = [hd EXCEPT ![b] = m, ![x] = n]
  BY DEF Cut
<1> HIDE DEF d, m, n, x
<1>6. /\ d \in [Addr -> Header] /\ d[b] = m /\ d[x] = n
      /\ \A a \in Addr \ {b, x} : d[a] = hd[a]
  BY <1>1, <1>2, <1>3, <1>4, <1>5
<1>7. ASSUME NEW a \in Addr
      PROVE  /\ d[a].magic <=> (hd[a].magic \/ a = x)
             /\ a # x => d[a].used = hd[a].used
  BY <1>3, <1>4, <1>6
<1>8. Blk(d) = Blk(hd) \cup {x}
  BY <1>1, <1>7 DEF Blk
<1>9. Busy(d) = Busy(hd)
  <2>1. ASSUME NEW a PROVE a \in Busy(d) <=> a \in Busy(hd)
    <3>1. CASE a = x
      BY <1>1, <1>4, <1>6, <3>1 DEF Busy
    <3>2. CASE a # x
      BY <1>7, <1>8, <3>2 DEF Busy, Blk
    <3> QED
      BY <3>1, <3>2
  <2> QED
    BY <2>1
<1>10. d[b].size = need /\ d[x].size = hd[b].size - need
  BY <1>3, <1>4, <1>6
<1> QED
  BY <1>6, <1>8, <1>9, <1>10 DEF d, x, CutTo

\* Two blocks in the place of one fill the same bytes.
LEMMA CutMemory ==
  ASSUME NEW hd, NEW own, NEW b, NEW need, Cuttable(hd, own, b, need)
  PROVE  Memory(Cut(hd, b, need), own)
<1> DEFINE d == Cut(hd, b, need)
           x == b + need
           z == hd[b].size
<1>1. /\ b \in Nat /\ z \in Nat /\ z - need \in Nat
      /\ x \in Addr /\ x # b /\ x \notin Blk(hd)
  BY RestInside
<1>2. /\ hd \in [Addr -> Header] /\ Framed(hd) /\ Apart(hd) /\ Fills(hd, own)
      /\ b \in Blk(hd) /\ b \in Addr /\ need \in Nat
      /\ need >= HeapMinTotal /\ need % Align = 0 /\ z >= need + HeapMinTotal
  BY BlockType DEF Cuttable, Memory
<1>3. CutTo(hd, d, b, need)
  BY CutAt
<1> HIDE DEF d
<1>4. /\ d \in [Addr -> Header]
      /\ d[b].size = need /\ d[x].size = z - need
      /\ \A a \in Blk(hd) \ {b} : d[a] = hd[a]
      /\ Blk(d) = Blk(hd) \cup {x}
  BY <1>1, <1>3 DEF CutTo, Blk
<1>5. x \in Nat /\ x = b + need /\ b < x /\ x < b + z /\ x + (z - need) = b + z
  BY <1>1, <1>2, HeapSizes
<1> HIDE DEF x, z
<1>6. Framed(d)
  <2>1. ASSUME NEW a \in Blk(d)
        PROVE  a % Align = 0 /\ d[a].size >= HeapMinTotal /\ d[a].size % Align = 0
    <3>1. b % Align = 0 /\ z % Align = 0
      BY <1>2 DEF Framed, z
    <3>2. CASE a = b
      BY <1>2, <1>4, <3>1, <3>2
    <3>3. CASE a = x
      <4>a. b \in Int /\ z \in Int /\ need \in Int /\ need % Align = 0 /\ Align \in Nat \ {0}
        BY <1>1, <1>2, HeapSizes
      <4>1. (b + need) % Align = 0 /\ (z - need) % Align = 0
        BY <3>1, <4>a, AlignAdd
      <4>2. z - need >= HeapMinTotal
        BY <1>1, <1>2, HeapSizes
      <4> QED
        BY <1>4, <1>5, <3>3, <4>1, <4>2
    <3>4. CASE a # b /\ a # x
      BY <1>2, <1>4, <3>4 DEF Framed
    <3> QED
      BY <3>2, <3>3, <3>4
  <2> QED
    BY <2>1 DEF Framed
<1>7. ASSUME NEW a \in Blk(hd), a # b
      PROVE  /\ a \in Nat /\ hd[a].size \in Nat
             /\ (a < b => a + hd[a].size <= b) /\ (b < a => b + z <= a)
  <2>1. a \in Nat /\ hd[a].size \in Nat
    BY <1>2, BlockType
  <2> QED
    BY <1>2, <2>1 DEF Apart, z
<1>8. Apart(d)
  <2>1. ASSUME NEW a \in Blk(d), NEW e \in Blk(d), a < e PROVE a + d[a].size <= e
    <3>1. CASE a \in Blk(hd) \ {b} /\ e \in Blk(hd) \ {b}
      BY <1>2, <1>4, <2>1, <3>1 DEF Apart
    <3>2. CASE a \in Blk(hd) \ {b} /\ (e = b \/ e = x)
      <4>1. a < b
        BY <1>1, <1>5, <1>7, <2>1, <3>2
      <4>2. a + hd[a].size <= b /\ a \in Nat /\ hd[a].size \in Nat
        BY <1>7, <3>2, <4>1
      <4>3. d[a] = hd[a]
        BY <1>4, <3>2
      <4> QED
        BY <1>1, <1>5, <3>2, <4>2, <4>3
    <3>3. CASE (a = b \/ a = x) /\ e \in Blk(hd) \ {b}
      <4>1. b < e /\ e \in Nat
        BY <1>1, <1>5, <1>7, <2>1, <3>3
      <4>2. b + z <= e
        BY <1>7, <3>3, <4>1
      <4> QED
        BY <1>1, <1>2, <1>4, <1>5, <3>3, <4>1, <4>2
    <3>4. CASE (a = b \/ a = x) /\ (e = b \/ e = x)
      <4>1. a = b /\ e = x
        BY <1>1, <1>5, <2>1, <3>4
      <4> QED
        BY <1>1, <1>2, <1>4, <1>5, <4>1
    <3> QED
      BY <1>4, <3>1, <3>2, <3>3, <3>4
  <2> QED
    BY <2>1 DEF Apart
<1>9. ASSUME NEW y \in Nat PROVE InBlock(d, y) <=> InBlock(hd, y)
  <2>1. Spans(hd, b, y) <=> (Spans(d, b, y) \/ Spans(d, x, y))
    BY <1>1, <1>2, <1>4, <1>5 DEF Spans, z
  <2>2. \A a \in Blk(hd) \ {b} : Spans(d, a, y) <=> Spans(hd, a, y)
    BY <1>4 DEF Spans
  <2> QED
    BY <1>2, <1>4, <2>1, <2>2 DEF InBlock
<1>10. Fills(d, own)
  BY <1>2, <1>9 DEF Fills
<1>11. Memory(d, own)
  BY <1>4, <1>6, <1>8, <1>10 DEF Memory
<1> QED
  BY <1>11 DEF d

\* Block b of k is large enough for need, off the list and not in use; nothing
\* in use has changed.
Split(g, k, b, need) ==
  /\ Part(k, {b}, {})
  /\ KeepsBusy(g, k)
  /\ k.pool = g.pool /\ k.own = g.own /\ k.fault = g.fault
  /\ k.hdr[b].size >= need
  /\ b \notin Busy(k.hdr)

\* The size of a block, as need_total computes it.
BlockSize(need) == need \in Nat /\ need >= HeapMinTotal /\ need % Align = 0

\* block_split.
LEMMA SplitPart ==
  ASSUME NEW g, NEW b, NEW need, Part(g, {b}, {}), b \notin Busy(g.hdr), BlockSize(need),
         g.hdr[b].size >= need
  PROVE  Split(g, block_split(g, b, need), b, need)
<1> DEFINE k == block_split(g, b, need)
<1>1. /\ g \in HeapRec /\ Memory(g.hdr, g.own) /\ Listed(g.free, g.hdr, {b})
      /\ Gaps(g.free, g.hdr, {}) /\ b \in Blk(g.hdr) /\ g.own \subseteq Pages
      /\ g.hdr \in [Addr -> Header] /\ g.free \in Seq(Aligned) /\ Len(g.free) \in Nat
  BY RecFields DEF Part
<1>2. g.hdr[b].size \in Nat /\ need \in Nat /\ HeapMinTotal \in Nat
  BY <1>1, BlockType, HeapSizes DEF BlockSize
<1>3. CASE g.hdr[b].size < need + HeapMinTotal
  <2>1. k = g
    BY <1>3 DEF block_split
  <2>2. KeepsBusy(g, g)
    BY DEF KeepsBusy
  <2> QED
    BY <2>1, <2>2 DEF Split
<1>4. CASE ~(g.hdr[b].size < need + HeapMinTotal)
  <2> DEFINE x == b + need
             d == Cut(g.hdr, b, need)
             t == WithBlocks(g, g.free, d)
  <2>1. Cuttable(g.hdr, g.own, b, need)
    BY <1>1, <1>2, <1>4 DEF Cuttable, BlockSize
  <2>2. x \in Addr /\ x # b /\ x \notin Blk(g.hdr)
    BY <2>1, RestInside
  <2>3. CutTo(g.hdr, d, b, need) /\ Memory(d, g.own)
    BY <2>1, CutAt, CutMemory
  <2>4. k = freelist_insert([g EXCEPT !.hdr = d], x)
    BY <1>4 DEF block_split, Cut
  <2>5. [g EXCEPT !.hdr = d] = t
    <3> HIDE DEF d
    <3> QED
      BY <1>1 DEF WithBlocks, HeapRec
  <2> HIDE DEF d, x, k
  <2>6. /\ d \in [Addr -> Header] /\ d[b].size = need
        /\ \A a \in Blk(g.hdr) \ {b} : d[a] = g.hdr[a]
        /\ Blk(d) = Blk(g.hdr) \cup {x} /\ Busy(d) = Busy(g.hdr)
    BY <2>2, <2>3 DEF CutTo, Blk, x
  <2>7. /\ t \in HeapRec /\ t.free = g.free /\ t.hdr = d
        /\ t.pool = g.pool /\ t.own = g.own /\ t.fault = g.fault
    BY <1>1, <2>6, RecUpdate
  <2> HIDE DEF t
  <2>8. Listed(g.free, d, {b} \cup {x})
    <3>1. OnList(g.free) = (Blk(d) \ Busy(d)) \ ({b} \cup {x})
      BY <1>1, <2>2, <2>6 DEF Listed
    <3> QED
      BY <1>1, <3>1 DEF Listed
  <2>9. Gaps(g.free, d, {})
    <3>1. ASSUME NEW n \in 1 .. Len(g.free) - 1
          PROVE  g.free[n] + d[g.free[n]].size < g.free[n + 1]
      <4>1. n \in 1 .. Len(g.free)
        BY <1>1
      <4>2. g.free[n] \in Blk(g.hdr) \ {b}
        BY <1>1, <4>1, ListedBlock
      <4> QED
        BY <1>1, <2>6, <4>2 DEF Gaps
    <3> QED
      BY <3>1 DEF Gaps
  <2>10. Loose(t, {b}, x)
    BY <1>1, <2>2, <2>3, <2>6, <2>7, <2>8, <2>9 DEF Loose
  <2>11. k = freelist_insert(t, x)
    BY <2>4, <2>5
  <2>12. Part(k, {b}, {}) /\ Inserted(t, k, {b}, x)
    BY <2>10, <2>11, InsertPart
  <2>13. /\ k.pool = g.pool /\ k.own = g.own /\ k.fault = g.fault
         /\ Busy(k.hdr) = Busy(d) \ {x}
         /\ \A a \in (Busy(d) \ {x}) \cup {b} : k.hdr[a] = d[a]
    BY <2>7, <2>12 DEF Inserted
  <2>14. Busy(g.hdr) \subseteq Blk(g.hdr)
    BY DEF Busy
  <2>15. KeepsBusy(g, k)
    BY <2>2, <2>6, <2>13, <2>14 DEF KeepsBusy
  <2>16. k.hdr[b].size >= need /\ b \notin Busy(k.hdr)
    BY <1>2, <2>6, <2>13
  <2> QED
    BY <2>12, <2>13, <2>15, <2>16 DEF Split, k
<1> QED
  BY <1>3, <1>4

\* The heap k is g with block b in use, which has need bytes.
Took(g, k, b, need) ==
  /\ Good(k)
  /\ Busy(k.hdr) = Busy(g.hdr) \cup {b} /\ b \notin Busy(g.hdr)
  /\ \A a \in Busy(g.hdr) : k.hdr[a] = g.hdr[a]
  /\ k.hdr[b].size >= need

\* kmalloc takes a block of the list.
LEMMA TakenGood ==
  ASSUME NEW g, Good(g), NEW b \in OnList(g.free), NEW need, BlockSize(need),
         g.hdr[b].size >= need
  PROVE  Took(g, taken(g, b, need), b, need)
<1> DEFINE r == freelist_remove(g, b)
           s == block_split(r, b, need)
           d == Flagged(s.hdr, b, TRUE)
           k == taken(g, b, need)
<1>1. Off(g, r, b) /\ b \notin Busy(g.hdr)
  BY RemovePart DEF Good, Part, Listed
<1> HIDE DEF r
<1>2. Part(r, {b}, {}) /\ r.hdr = g.hdr /\ r.pool = g.pool /\ r.own = g.own
  BY <1>1 DEF Off
<1>3. Split(r, s, b, need)
  BY <1>1, <1>2, SplitPart
<1>4. k = [s EXCEPT !.hdr = d]
  BY DEF taken, Flagged, r
<1> HIDE DEF s, k
<1>5. /\ s \in HeapRec /\ Memory(s.hdr, s.own) /\ Listed(s.free, s.hdr, {b})
      /\ Gaps(s.free, s.hdr, {}) /\ b \in Blk(s.hdr) /\ b \notin Busy(s.hdr)
      /\ s.hdr \in [Addr -> Header] /\ s.free \in Seq(Aligned) /\ Len(s.free) \in Nat
      /\ s.pool = g.pool /\ s.own = g.own /\ s.hdr[b].size >= need
      /\ KeepsBusy(r, s)
  BY <1>2, <1>3, RecFields DEF Split, Part
<1>6. Marks(s.hdr, d, b, TRUE)
  BY <1>5, FlaggedAt
<1> HIDE DEF d
<1>7. /\ d \in [Addr -> Header] /\ d[b].size = s.hdr[b].size
      /\ \A a \in Addr \ {b} : d[a] = s.hdr[a]
      /\ Blk(d) = Blk(s.hdr) /\ Busy(d) = Busy(s.hdr) \cup {b}
  BY <1>6 DEF Marks
<1>8. k = WithBlocks(s, s.free, d)
  BY <1>4, <1>5 DEF WithBlocks, HeapRec
<1>9. /\ k \in HeapRec /\ k.free = s.free /\ k.hdr = d
      /\ k.pool = s.pool /\ k.own = s.own /\ k.fault = s.fault
  BY <1>5, <1>7, <1>8, RecUpdate
<1>10. \A a \in Blk(s.hdr) : d[a].size = s.hdr[a].size
  BY <1>7 DEF Blk
<1>11. Memory(d, s.own)
  BY <1>5, <1>7, <1>10, SameBlocks
<1>12. Listed(s.free, d, {})
  <2>1. OnList(s.free) = (Blk(d) \ Busy(d)) \ {}
    BY <1>5, <1>7 DEF Listed
  <2> QED
    BY <1>5, <2>1 DEF Listed
<1>13. Gaps(s.free, d, {})
  <2>1. ASSUME NEW n \in 1 .. Len(s.free) - 1
        PROVE  s.free[n] + d[s.free[n]].size < s.free[n + 1]
    <3>1. n \in 1 .. Len(s.free)
      BY <1>5
    <3>2. s.free[n] \in Blk(s.hdr)
      BY <1>5, <3>1, ListedBlock
    <3> QED
      BY <1>5, <1>10, <3>2 DEF Gaps
  <2> QED
    BY <2>1 DEF Gaps
<1>14. Good(k)
  BY <1>5, <1>9, <1>11, <1>12, <1>13 DEF Good, Part
<1>15. Busy(s.hdr) = Busy(g.hdr) /\ \A a \in Busy(g.hdr) : s.hdr[a] = g.hdr[a]
  BY <1>2, <1>5 DEF KeepsBusy
<1>16. ASSUME NEW a \in Busy(g.hdr) PROVE k.hdr[a] = g.hdr[a]
  <2>1. a # b /\ a \in Addr
    BY <1>1 DEF Busy, Blk
  <2> QED
    BY <1>7, <1>9, <1>15, <2>1
<1>17. k.hdr[b].size >= need
  BY <1>5, <1>7, <1>9
<1>18. Busy(k.hdr) = Busy(g.hdr) \cup {b}
  BY <1>7, <1>9, <1>15
<1> QED
  BY <1>1, <1>14, <1>16, <1>17, <1>18 DEF Took, k

-----------------------------------------------------------------------------
(* The actions.                                                            *)

\* The allocations lv are the blocks in use, each large enough.
LiveIn(hd, lv) ==
  /\ lv \in [DOMAIN lv -> Sizes]
  /\ DOMAIN lv \subseteq Aligned
  /\ Busy(hd) = {p - Hdr : p \in DOMAIN lv}
  /\ \A p \in DOMAIN lv : hd[p - Hdr].size >= Hdr + lv[p]

\* The inductive invariant.
HeapInv == Good(h) /\ LiveIn(h.hdr, live)

\* Allocations do not notice what happens to other blocks.
LEMMA LiveKept ==
  ASSUME NEW g, NEW k, NEW lv, KeepsBusy(g, k), LiveIn(g.hdr, lv)
  PROVE  LiveIn(k.hdr, lv)
<1>1. ASSUME NEW p \in DOMAIN lv PROVE k.hdr[p - Hdr] = g.hdr[p - Hdr]
  BY DEF KeepsBusy, LiveIn
<1> QED
  BY <1>1 DEF KeepsBusy, LiveIn

\* init_heap makes a whole heap.
LEMMA HeapInitInv == HeapInit => HeapInv
<1> SUFFICES ASSUME HeapInit PROVE HeapInv
  OBVIOUS
<1> DEFINE z == [a \in Addr |-> NoHeader]
           e == [free |-> <<>>, hdr |-> z, pool |-> Pages, own |-> {}, fault |-> FALSE]
<1>1. NoHeader \in Header /\ ~NoHeader.magic
  BY DEF Header, NoHeader
<1>2. z \in [Addr -> Header] /\ \A a \in Addr : z[a] = NoHeader
  BY <1>1
<1> HIDE DEF z
<1>3. Blk(z) = {} /\ Busy(z) = {}
  BY <1>1, <1>2 DEF Blk, Busy
<1>4. /\ e \in HeapRec /\ e.free = <<>> /\ e.hdr = z /\ e.pool = Pages
      /\ e.own = {} /\ e.fault = FALSE
  BY <1>2 DEF HeapRec
<1>5. h = add_pages(e, InitPages) /\ live = << >>
  BY DEF HeapInit, z
<1> HIDE DEF e
<1>6. Memory(z, {})
  BY <1>2, <1>3 DEF Memory, Framed, Apart, Fills, InBlock, InOwned
<1>7. Listed(<<>>, z, {}) /\ Gaps(<<>>, z, {})
  BY <1>3 DEF Listed, Gaps, Sorted, OnList
<1>8. Good(e)
  BY <1>4, <1>6, <1>7 DEF Good, Part
<1>9. Good(h) /\ KeepsBusy(e, h)
  BY <1>5, <1>8, AddPages, HeapSizes
<1>10. LiveIn(e.hdr, live)
  <2>1. DOMAIN live = {} /\ live \in [{} -> Sizes]
    BY <1>5
  <2> QED
    BY <1>3, <1>4, <2>1 DEF LiveIn
<1> QED
  BY <1>9, <1>10, LiveKept DEF HeapInv

\* The size of the block that kmalloc looks for.
LEMMA NeedTotal ==
  ASSUME NEW size \in Nat
  PROVE  BlockSize(need_total(size)) /\ need_total(size) >= Hdr + size
<1> DEFINE n == align_up(Hdr + size)
<1>1. Hdr + size \in Nat /\ HeapMinTotal \in Nat /\ Align \in Nat \ {0}
  BY HeapSizes
<1>2. n \in Nat /\ n >= Hdr + size /\ n % Align = 0
  BY <1>1, AlignUp DEF align_up
<1>3. HeapMinTotal % Align = 0
  <2>1. Align % Align = 0 /\ Hdr % Align = 0 /\ Hdr \in Int /\ Align \in Int
    BY HeapSizes
  <2>2. (Hdr + Align) % Align = 0
    BY <1>1, <2>1, AlignAdd
  <2> QED
    BY <2>2, HeapSizes
<1>4. need_total(size) = IF n < HeapMinTotal THEN HeapMinTotal ELSE n
  BY DEF need_total
<1> HIDE DEF n
<1>5. CASE n < HeapMinTotal
  BY <1>1, <1>2, <1>3, <1>4, <1>5, HeapSizes DEF BlockSize
<1>6. CASE ~(n < HeapMinTotal)
  BY <1>1, <1>2, <1>4, <1>6 DEF BlockSize
<1> QED
  BY <1>5, <1>6

\* A number of pages for any request, and one for a request within a page.
LEMMA PagesFor ==
  ASSUME NEW need, BlockSize(need)
  PROVE  /\ (need + HeapPage - 1) \div HeapPage \in Nat
         /\ (need + HeapPage - 1) \div HeapPage > 0
<1>1. need \in Nat \ {0} /\ HeapPage \in Nat \ {0}
  BY HeapSizes DEF BlockSize
<1> DEFINE q == (need + HeapPage - 1) \div HeapPage
           r == (need + HeapPage - 1) % HeapPage
<1>2. q \in Int /\ r \in 0 .. HeapPage - 1 /\ need + HeapPage - 1 = HeapPage * q + r
  <2>1. need + HeapPage - 1 \in Nat
    BY <1>1
  <2> QED
    BY <1>1, <2>1, SMTT(30)
<1> HIDE DEF q, r
<1>3. HeapPage * q > 0
  BY <1>1, <1>2
<1>4. q > 0
  BY <1>1, <1>2, <1>3, SMTT(30)
<1>5. q \in Nat /\ q > 0
  BY <1>2, <1>4
<1> QED
  BY <1>5 DEF q

\* The heap in which kmalloc takes its block.
LEMMA GrownGood ==
  ASSUME Good(h), NEW need, BlockSize(need)
  PROVE  LET g == grown(need) IN
         /\ Good(g) /\ KeepsBusy(h, g)
         /\ freelist_find_fit(g, need) # NULL \/ g.fault \/ Room(g, HeapPage)
<1> DEFINE n == (need + HeapPage - 1) \div HeapPage
<1>1. n \in Nat /\ n > 0
  BY PagesFor
<1>2. CASE freelist_find_fit(h, need) = NULL
  <2>1. grown(need) = add_pages(h, n)
    BY <1>2 DEF grown, heap_expand
  <2> HIDE DEF n
  <2> QED
    BY <1>1, <2>1, AddPages
<1>3. CASE freelist_find_fit(h, need) # NULL
  <2>1. grown(need) = h
    BY <1>3 DEF grown
  <2>2. KeepsBusy(h, h)
    BY DEF KeepsBusy
  <2> QED
    BY <1>3, <2>1, <2>2
<1> QED
  BY <1>2, <1>3

\* A payload is an aligned address, its block's header a unit or more before it.
LEMMA PayloadAligned ==
  ASSUME NEW g, Good(g), NEW b \in Blk(g.hdr)
  PROVE  b + Hdr \in Aligned /\ b \in Nat
<1>1. /\ Memory(g.hdr, g.own) /\ g.own \subseteq Pages /\ g.hdr \in [Addr -> Header]
      /\ b % Align = 0 /\ g.hdr[b].size >= HeapMinTotal
  BY RecFields DEF Good, Part, Memory, Framed
<1>2. b \in Nat /\ g.hdr[b].size \in Nat
  BY <1>1, BlockType
<1> DEFINE x == b + Hdr
<1>3. x \in Nat /\ Spans(g.hdr, b, x)
  BY <1>1, <1>2, HeapSizes DEF Spans
<1>4. x % Align = 0
  <2>1. b \in Int /\ Hdr \in Int /\ Hdr % Align = 0 /\ Align \in Nat \ {0}
    BY <1>2, HeapSizes
  <2> QED
    BY <1>1, <2>1, AlignAdd
<1> HIDE DEF x
<1>5. x \in Addr
  BY <1>1, <1>3, InReach
<1> QED
  BY <1>2, <1>4, <1>5 DEF Aligned, x

\* kmalloc.
LEMMA MallocStep ==
  ASSUME HeapInv, NEW size \in Sizes, kmalloc(size)
  PROVE  HeapInv'
<1> DEFINE need == need_total(size)
           g == grown(need)
           b == freelist_find_fit(g, need)
           p == b + Hdr
<1>1. size \in Nat /\ BlockSize(need) /\ need >= Hdr + size
  BY NeedTotal, HeapSizes
<1>2. Good(h) /\ LiveIn(h.hdr, live)
  BY DEF HeapInv
<1>a. need \in Nat
  BY <1>1 DEF BlockSize
<1>3. IF g.fault \/ b = NULL
      THEN h' = g /\ live' = live
      ELSE /\ h' = taken(g, b, need)
           /\ live' = [q \in DOMAIN live \cup {p} |-> IF q = p THEN size ELSE live[q]]
  BY DEF kmalloc
<1> HIDE DEF need
<1>4. Good(g) /\ KeepsBusy(h, g)
  BY <1>1, <1>2, GrownGood
<1> HIDE DEF g
<1>5. LiveIn(g.hdr, live)
  BY <1>2, <1>4, LiveKept
<1>6. CASE g.fault \/ b = NULL
  BY <1>3, <1>4, <1>5, <1>6 DEF HeapInv
<1>7. CASE ~(g.fault \/ b = NULL)
  <2>1. b \in OnList(g.free) /\ g.hdr[b].size >= need
    BY <1>4, <1>7, <1>a, FindFit
  <2> HIDE DEF b
  <2>2. Took(g, h', b, need)
    BY <1>1, <1>3, <1>4, <1>7, <2>1, TakenGood
  <2>3. /\ Good(h') /\ Busy(h'.hdr) = Busy(g.hdr) \cup {b} /\ b \notin Busy(g.hdr)
        /\ \A a \in Busy(g.hdr) : h'.hdr[a] = g.hdr[a]
        /\ h'.hdr[b].size >= need
    BY <2>2 DEF Took
  <2>4. /\ b \in Blk(h'.hdr) /\ h'.hdr[b].size \in Nat
    BY <2>3, BlockType, RecFields DEF Busy, Good, Part
  <2>5. p \in Aligned /\ b \in Nat /\ p - Hdr = b
    BY <2>3, <2>4, PayloadAligned, HeapSizes
  <2>6. live' = [q \in DOMAIN live \cup {p} |-> IF q = p THEN size ELSE live[q]]
    BY <1>3, <1>7
  <2> HIDE DEF p
  <2>7. /\ live \in [DOMAIN live -> Sizes] /\ DOMAIN live \subseteq Aligned
        /\ Busy(g.hdr) = {q - Hdr : q \in DOMAIN live}
        /\ \A q \in DOMAIN live : g.hdr[q - Hdr].size >= Hdr + live[q]
    BY <1>5 DEF LiveIn
  <2>8. p \notin DOMAIN live
    BY <2>3, <2>5, <2>7
  <2>9. /\ DOMAIN live' = DOMAIN live \cup {p}
        /\ live'[p] = size
        /\ \A q \in DOMAIN live : live'[q] = live[q]
        /\ live' \in [DOMAIN live' -> Sizes]
    BY <2>6, <2>7, <2>8
  <2>10. Busy(h'.hdr) = {q - Hdr : q \in DOMAIN live'}
    BY <2>3, <2>5, <2>7, <2>9
  <2>11. ASSUME NEW q \in DOMAIN live' PROVE h'.hdr[q - Hdr].size >= Hdr + live'[q]
    <3>1. CASE q = p
      BY <1>1, <1>a, <2>3, <2>4, <2>5, <2>9, <3>1, HeapSizes
    <3>2. CASE q # p
      <4>1. q \in DOMAIN live /\ q - Hdr \in Busy(g.hdr)
        BY <2>7, <2>9, <3>2
      <4> QED
        BY <2>3, <2>7, <2>9, <4>1
    <3> QED
      BY <3>1, <3>2
  <2>12. LiveIn(h'.hdr, live')
    BY <2>5, <2>7, <2>9, <2>10, <2>11 DEF LiveIn
  <2> QED
    BY <2>3, <2>12 DEF HeapInv
<1> QED
  BY <1>6, <1>7

\* A block that passes the tests of kfree is one in use.
LEMMA ValidIsLive ==
  ASSUME HeapInv, NEW p \in Payload, block_valid(p - Hdr)
  PROVE  p \in DOMAIN live /\ p - Hdr \in Busy(h.hdr) /\ p \in Int
<1>1. PICK a \in Aligned : p = a + Hdr
  BY DEF Payload
<1>2. a \in Addr /\ a \in Nat /\ p - Hdr = a /\ p \in Int
  BY <1>1, AddrNat, HeapSizes
<1>3. a \in Busy(h.hdr)
  BY <1>2 DEF block_valid, Busy, Blk
<1>4. PICK q \in DOMAIN live : a = q - Hdr
  BY <1>3 DEF HeapInv, LiveIn
<1>5. q \in Nat
  BY AddrNat DEF HeapInv, LiveIn
<1>6. q = p
  <2>1. Hdr \in Nat
    BY HeapSizes
  <2>2. q = a + Hdr
    BY <1>2, <1>4, <1>5, <2>1
  <2> QED
    BY <1>1, <2>2
<1> QED
  BY <1>2, <1>3, <1>4, <1>6

\* kfree.
LEMMA FreeBlockStep ==
  ASSUME HeapInv, NEW p \in Payload \cup {NULL}, kfree(p)
  PROVE  HeapInv' /\ (p \notin DOMAIN live => h' = h /\ live' = live)
<1>1. /\ Good(h) /\ live \in [DOMAIN live -> Sizes] /\ DOMAIN live \subseteq Aligned
      /\ Busy(h.hdr) = {q - Hdr : q \in DOMAIN live}
      /\ \A q \in DOMAIN live : h.hdr[q - Hdr].size >= Hdr + live[q]
  BY DEF HeapInv, LiveIn
<1>2. /\ live' = [q \in DOMAIN live \ {p} |-> live[q]]
      /\ h' = IF p = NULL \/ ~block_valid(p - Hdr) THEN h ELSE freelist_insert(h, p - Hdr)
  BY DEF kfree
<1>3. \A q \in DOMAIN live : q \in Nat
  BY <1>1, AddrNat
<1>4. CASE p \notin DOMAIN live
  <2>1. live' = live
    BY <1>1, <1>2, <1>4
  <2>2. h' = h
    BY <1>2, <1>4, ValidIsLive
  <2> QED
    BY <2>1, <2>2 DEF HeapInv
<1>5. CASE p \in DOMAIN live
  <2> DEFINE b == p - Hdr
  <2>1. p \in Nat /\ p # NULL /\ p \in Payload /\ b \in Busy(h.hdr)
    BY <1>1, <1>3, <1>5, HeapSizes
  <2>2. b \in Blk(h.hdr) /\ h.hdr[b].used
    BY <2>1 DEF Busy
  <2>3. block_valid(b)
    BY <1>1, <2>2 DEF block_valid, Blk, Good, Part, Memory, Framed
  <2>4. h' = freelist_insert(h, b)
    BY <1>2, <2>1, <2>3
  <2> HIDE DEF b
  <2>5. Loose(h, {}, b)
    <3>1. Part(h, {}, {})
      BY <1>1 DEF Good
    <3>2. Listed(h.free, h.hdr, {} \cup {b})
      BY <2>1, <3>1 DEF Part, Listed
    <3> QED
      BY <2>2, <3>1, <3>2 DEF Loose, Part
  <2>6. Part(h', {}, {}) /\ Inserted(h, h', {}, b)
    BY <2>4, <2>5, InsertPart
  <2>7. Good(h')
    BY <1>1, <2>6 DEF Good, Inserted
  <2>8. Busy(h'.hdr) = Busy(h.hdr) \ {b} /\ \A a \in Busy(h.hdr) \ {b} : h'.hdr[a] = h.hdr[a]
    BY <2>6 DEF Inserted
  <2>9. /\ DOMAIN live' = DOMAIN live \ {p} /\ \A q \in DOMAIN live' : live'[q] = live[q]
        /\ live' \in [DOMAIN live' -> Sizes]
    BY <1>1, <1>2
  <2>10. \A q \in DOMAIN live : q # p => q - Hdr # b
    BY <1>3, <2>1, HeapSizes DEF b
  <2>11. Busy(h'.hdr) = {q - Hdr : q \in DOMAIN live'}
    BY <1>1, <2>8, <2>9, <2>10 DEF b
  <2>12. ASSUME NEW q \in DOMAIN live' PROVE h'.hdr[q - Hdr].size >= Hdr + live'[q]
    <3>1. q \in DOMAIN live /\ q - Hdr \in Busy(h.hdr) \ {b}
      BY <1>1, <2>9, <2>10
    <3> QED
      BY <1>1, <2>8, <2>9, <3>1
  <2>13. LiveIn(h'.hdr, live')
    BY <1>1, <2>9, <2>11, <2>12 DEF LiveIn
  <2> QED
    BY <1>5, <2>7, <2>13 DEF HeapInv
<1> QED
  BY <1>4, <1>5

\* A page that someone else takes was not the heap's.
LEMMA OtherStep ==
  ASSUME HeapInv, pmm_other
  PROVE  HeapInv'
<1>1. Good(h) /\ h \in HeapRec
  BY DEF HeapInv, Good, Part
<1>2. h' = [h EXCEPT !.pool = @ \ {Min(@)}] /\ live' = live
  BY DEF pmm_other
<1>3. /\ h' \in HeapRec /\ h'.free = h.free /\ h'.hdr = h.hdr /\ h'.own = h.own
      /\ h'.pool \subseteq h.pool
  BY <1>1, <1>2 DEF HeapRec
<1> QED
  BY <1>1, <1>2, <1>3 DEF HeapInv, Good, Part

\* Every step keeps the heap whole.
LEMMA NextHeap == HeapInv /\ [HeapNext]_heapVars => HeapInv'
<1> SUFFICES ASSUME HeapInv, [HeapNext]_heapVars PROVE HeapInv'
  OBVIOUS
<1>1. CASE \E size \in Sizes : kmalloc(size)
  BY <1>1, MallocStep
<1>2. CASE \E p \in Payload \cup {NULL} : kfree(p)
  BY <1>2, FreeBlockStep
<1>3. CASE pmm_other
  BY <1>3, OtherStep
<1>4. CASE UNCHANGED heapVars
  BY <1>4 DEF heapVars, HeapInv
<1> QED
  BY <1>1, <1>2, <1>3, <1>4 DEF HeapNext

-----------------------------------------------------------------------------
(* The theorems.                                                           *)

\* A whole heap is what HeapSound says.
LEMMA InvSound == HeapInv => HeapSound
<1> SUFFICES ASSUME HeapInv PROVE HeapSound
  OBVIOUS
<1>1. /\ h \in HeapRec /\ Memory(h.hdr, h.own) /\ Listed(h.free, h.hdr, {})
      /\ Gaps(h.free, h.hdr, {}) /\ h.pool \cap h.own = {}
      /\ h.hdr \in [Addr -> Header] /\ h.free \in Seq(Aligned)
      /\ h.pool \subseteq Pages /\ h.own \subseteq Pages /\ h.fault \in BOOLEAN
  BY RecFields DEF HeapInv, Good, Part
<1>2. /\ live \in [DOMAIN live -> Sizes] /\ DOMAIN live \subseteq Aligned
      /\ Busy(h.hdr) = {q - Hdr : q \in DOMAIN live}
      /\ \A q \in DOMAIN live : h.hdr[q - Hdr].size >= Hdr + live[q]
  BY DEF HeapInv, LiveIn
<1>3. Blocks = Blk(h.hdr) /\ UsedBlocks = Busy(h.hdr)
  BY DEF Blocks, UsedBlocks, Blk, Busy
<1>4. HeapTypeOK
  BY <1>1, <1>2 DEF HeapTypeOK, Header
<1>5. BlocksTile
  <2>1. ASSUME NEW a \in Addr
        PROVE  Cardinality({b \in Blocks : Covers(b, a)}) =
                 IF \E p \in h.own : a \in PageAddr(p) THEN 1 ELSE 0
    <3> DEFINE S == {b \in Blocks : Covers(b, a)}
    <3>1. \A b \in Blocks : Covers(b, a) <=> Spans(h.hdr, b, a)
      BY DEF Covers, Spans
    <3>2. a \in Nat /\ (InBlock(h.hdr, a) <=> InOwned(h.own, a)) /\ Apart(h.hdr)
      BY <1>1, AddrNat DEF Memory, Fills
    <3>3. CASE InOwned(h.own, a)
      <4>1. PICK b \in Blocks : Covers(b, a)
        BY <1>3, <3>1, <3>2, <3>3 DEF InBlock
      <4>2. \A c \in S : c = b
        BY <1>1, <1>3, <3>1, <3>2, <4>1, OneBlock
      <4>3. S = {b}
        BY <4>1, <4>2
      <4>4. Cardinality(S) = 1
        BY <4>3, FS_Singleton
      <4> QED
        BY <3>3, <4>4 DEF InOwned
    <3>4. CASE ~InOwned(h.own, a)
      <4>1. S = {}
        BY <1>3, <3>1, <3>2, <3>4 DEF InBlock
      <4>2. Cardinality(S) = 0
        BY <4>1, FS_EmptySet
      <4> QED
        BY <3>4, <4>2 DEF InOwned
    <3> QED
      BY <3>3, <3>4
  <2> QED
    BY <2>1 DEF BlocksTile
<1>6. FreeListExact
  <2>1. DOMAIN h.free = 1 .. Len(h.free)
    BY <1>1
  <2>2. {h.free[n] : n \in DOMAIN h.free} = Blocks \ UsedBlocks
    BY <1>1, <1>3, <2>1 DEF Listed, OnList
  <2> QED
    BY <1>1, <2>2 DEF FreeListExact, Gaps
<1>7. LiveIntact
  BY <1>2, <1>3 DEF LiveIntact
<1> QED
  BY <1>4, <1>5, <1>6, <1>7 DEF HeapSound

\* In a whole heap a request within a page finds a block, if need be in a page
\* that heap_expand adds.
LEMMA InvSmall == HeapInv => SmallNeverNull
<1> SUFFICES ASSUME HeapInv, NEW size \in Sizes, need_total(size) <= HeapPage
             PROVE  \/ grown(need_total(size)).fault
                    \/ freelist_find_fit(grown(need_total(size)), need_total(size)) # NULL
  BY DEF SmallNeverNull
<1> DEFINE need == need_total(size)
           g == grown(need)
<1>1. BlockSize(need) /\ need \in Nat /\ need <= HeapPage
  BY NeedTotal, HeapSizes DEF BlockSize
<1> HIDE DEF need
<1>2. Good(g) /\ (freelist_find_fit(g, need) # NULL \/ g.fault \/ Room(g, HeapPage))
  BY <1>1, GrownGood DEF HeapInv
<1> HIDE DEF g
<1>3. Room(g, HeapPage) => Room(g, need)
  <2> SUFFICES ASSUME Room(g, HeapPage) PROVE Room(g, need)
    OBVIOUS
  <2>1. PICK f \in OnList(g.free) : g.hdr[f].size >= HeapPage
    BY DEF Room
  <2>2. g.hdr[f].size \in Nat
    BY <1>2, ListedBlock, RecFields DEF Good, Part, OnList
  <2>3. g.hdr[f].size >= need
    BY <1>1, <2>1, <2>2, HeapSizes
  <2> QED
    BY <2>3 DEF Room
<1>4. Room(g, need) => freelist_find_fit(g, need) # NULL
  BY <1>1, <1>2, FindFit
<1> QED
  BY <1>2, <1>3, <1>4 DEF g, need

\* The heap stays whole.
THEOREM HeapInvariant == HeapSpec => []HeapInv
BY HeapInitInv, NextHeap, PTL DEF HeapSpec

\* After any sequence of kmalloc and kfree, for every page and header size and every set
\* of requests: the blocks tile the heap's pages, the free list is sorted, complete and
\* joined, and every allocation has an aligned block of its own that is large enough.
THEOREM HeapCorrect == HeapSpec => []HeapSound
BY HeapInvariant, InvSound, PTL

\* kmalloc never answers NULL for a request that fits in a page, however
\* fragmented the heap is: if it finds nothing, heap_expand adds enough.
THEOREM SmallServed == HeapSpec => []SmallNeverNull
BY HeapInvariant, InvSmall, PTL

\* kfree of a pointer that is not in use changes nothing, whatever has become
\* of the memory where its header was.
THEOREM StaleFreeHarmless == HeapSpec => StaleFreeIgnored
<1>1. ASSUME HeapInv, [HeapNext]_heapVars
      PROVE  [\A p \in Payload : kfree(p) => p \in DOMAIN live]_heapVars
  <2> SUFFICES ASSUME NEW p \in Payload, kfree(p), p \notin DOMAIN live
               PROVE  UNCHANGED heapVars
    OBVIOUS
  <2>1. h' = h /\ live' = live
    BY <1>1, FreeBlockStep
  <2> QED
    BY <2>1 DEF heapVars
<1> QED
  BY <1>1, HeapInvariant, PTL DEF HeapSpec, StaleFreeIgnored

-----------------------------------------------------------------------------
(* The bring-up of processors.                                             *)

USE SmpAssumption DEF Ap, ApMain

-----------------------------------------------------------------------------
(* The inductive invariant.                                                *)

\* What the record, and an AP's copy of it, may hold.
Record == [started : 0 .. 1, cr3 : {0, CR3}, stack : 0 .. NAps, entry : {0, ApMain}]

\* AP a is on its way through the trampoline and ap_main.
Starting(a) == ap[a] \in {"real", "pm32", "lm64", "entry", "main"}

\* Where init_smp is: processor i is being started until all have been.
AtInv ==
  /\ i \in 1 .. NAps + 1
  /\ bsp \in BspLocs
  /\ bsp = "done" <=> i = NAps + 1

\* A stack is allocated for every processor, in the order they are started.
StackInv ==
  /\ pages = IF bsp \in {"alloc", "done"} THEN i - 1 ELSE i
  /\ mine = [a \in Ap |-> IF a <= pages THEN a ELSE 0]

\* The record as far as the BSP has written it: behind the copy it is clear,
\* and until an AP answers nobody else writes it.
FilledInv ==
  /\ bi \in Record
  /\ bsp \in {"cr3", "stack", "entry", "sipi"} => bi.started = 0
  /\ bsp \in {"stack", "entry", "sipi", "spin"} => bi.cr3 = CR3
  /\ bsp \in {"entry", "sipi", "spin"} => bi.stack = i
  /\ bsp \in {"sipi", "spin"} => bi.entry = ApMain
  /\ bsp = "spin" /\ bi.started # 0 => ap[i] = "online"
  /\ bsp = "done" /\ NAps # 0 =>
       bi.cr3 = CR3 /\ bi.stack = NAps /\ bi.entry = ApMain

\* A processor runs only once it was started, and while it reads the record
\* the BSP waits for it or is done.
WaitInv ==
  \A a \in Ap :
    /\ ap[a] \in ApLocs /\ ap[a] # "crash"
    /\ ap[a] # "off" => a < i \/ (a = i /\ bsp = "spin")
    /\ ap[a] # "off" => a \notin dead
    /\ Starting(a) => (a = i /\ bsp = "spin") \/ (a = NAps /\ bsp = "done")

\* What a processor has loaded is what was meant for it.
LoadedInv ==
  /\ regs \in [Ap -> Record]
  /\ \A a \in Ap :
       /\ ap[a] = "pm32" => regs[a].cr3 = CR3
       /\ ap[a] \in {"entry", "main", "online"} => regs[a].stack = a

\* A processor that was acknowledged has come up.
AckInv ==
  /\ acked \subseteq Ap /\ timedout \subseteq Ap /\ dead \subseteq Ap
  /\ \A a \in acked : ap[a] = "online" /\ a < i

SmpInv ==
  /\ AtInv /\ StackInv /\ FilledInv /\ WaitInv /\ LoadedInv /\ AckInv
  /\ ap \in [Ap -> ApLocs]

-----------------------------------------------------------------------------
(* The initial state and the steps.                                        *)

\* Nothing is started yet.
LEMMA InitSmp == SmpInit => SmpInv
<1> SUFFICES ASSUME SmpInit PROVE SmpInv
  OBVIOUS
<1>1. bsp = "done" <=> NAps = 0
  BY DEF SmpInit
<1>2. bsp \in {"alloc", "done"} /\ i = 1
  BY DEF SmpInit
<1>3. AtInv /\ StackInv
  BY <1>1, <1>2 DEF SmpInit, AtInv, StackInv, BspLocs
<1>4. FilledInv /\ LoadedInv
  BY <1>1, <1>2 DEF SmpInit, FilledInv, LoadedInv, Cleared, Record
<1>5. WaitInv /\ AckInv /\ ap \in [Ap -> ApLocs]
  BY <1>1, <1>2 DEF SmpInit, WaitInv, AckInv, Starting, ApLocs
<1> QED
  BY <1>3, <1>4, <1>5 DEF SmpInv

\* A stack for the next processor.
LEMMA AllocSmp == ASSUME SmpInv, start_alloc PROVE SmpInv'
<1> USE DEF SmpInv
<1>1. /\ bsp = "alloc" /\ bsp' = "copy" /\ pages' = pages + 1
      /\ mine' = [mine EXCEPT ![i] = pages + 1]
      /\ UNCHANGED <<dead, i, bi, ap, regs, acked, timedout>>
  BY DEF start_alloc, BspGoto
<1>2. AtInv' /\ WaitInv' /\ LoadedInv' /\ AckInv' /\ FilledInv'
  BY <1>1 DEF AtInv, WaitInv, LoadedInv, AckInv, FilledInv, Starting, BspLocs
<1>3. StackInv'
  <2>1. i \in Ap /\ pages = i - 1
    BY <1>1 DEF AtInv, StackInv
  <2>2. mine = [a \in Ap |-> IF a <= i - 1 THEN a ELSE 0]
    BY <2>1 DEF StackInv
  <2>3. ASSUME NEW a \in Ap PROVE mine'[a] = IF a <= i THEN a ELSE 0
    BY <1>1, <2>1, <2>2 DEF AtInv
  <2>4. mine' = [a \in Ap |-> mine'[a]]
    BY <1>1, <2>2
  <2>5. mine' = [a \in Ap |-> IF a <= i THEN a ELSE 0]
    BY <2>3, <2>4
  <2> QED
    BY <1>1, <2>1, <2>5 DEF StackInv
<1> QED
  BY <1>1, <1>2, <1>3

\* The copy and the stores: nobody reads or writes the record meanwhile.
LEMMA StoreSmp ==
  ASSUME SmpInv, \/ start_copy
                 \/ \E f \in {"started", "cr3", "stack", "entry"} : start_store(f)
  PROVE  SmpInv'
<1> USE DEF SmpInv
<1>0. /\ bsp \in {"copy", "started", "cr3", "stack", "entry"}
      /\ bsp' \in {"started", "cr3", "stack", "entry", "sipi"}
      /\ UNCHANGED <<dead, i, pages, mine, ap, regs, acked, timedout>>
  BY DEF start_copy, start_store, BspGoto, after_store
<1>1. AtInv' /\ WaitInv' /\ LoadedInv' /\ AckInv' /\ StackInv'
  BY <1>0 DEF AtInv, WaitInv, LoadedInv, AckInv, StackInv, Starting, BspLocs
<1>2. FilledInv'
  <2>0. i \in Ap /\ mine[i] = i
    BY <1>0 DEF AtInv, StackInv
  <2>1. CASE start_copy
    BY <2>1 DEF start_copy, BspGoto, FilledInv, Cleared, Record
  <2>2. CASE start_store("started")
    BY <2>2 DEF start_store, BspGoto, FilledInv, stored, after_store, Record
  <2>3. CASE start_store("cr3")
    BY <2>3 DEF start_store, BspGoto, FilledInv, stored, after_store, Record
  <2>4. CASE start_store("stack")
    BY <2>0, <2>4 DEF start_store, BspGoto, FilledInv, stored, after_store, Record
  <2>5. CASE start_store("entry")
    BY <2>5 DEF start_store, BspGoto, FilledInv, stored, after_store, Record
  <2> QED
    BY <2>1, <2>2, <2>3, <2>4, <2>5
<1> QED
  BY <1>0, <1>1, <1>2

\* INIT and SIPI: with the record complete, processor i starts.
LEMMA SipiSmp == ASSUME SmpInv, lapic_start_ap PROVE SmpInv'
<1> USE DEF SmpInv
<1>1. /\ bsp = "sipi" /\ bsp' = "spin"
      /\ UNCHANGED <<dead, i, bi, pages, mine, regs, acked, timedout>>
      /\ i \in Ap
  BY DEF lapic_start_ap, BspGoto, AtInv
<1>2. /\ ap' \in [Ap -> ApLocs]
      /\ i \in dead => ap'[i] = "off"
      /\ i \notin dead => ap'[i] = "real"
      /\ \A a \in Ap \ {i} : ap'[a] = ap[a]
  BY <1>1 DEF lapic_start_ap, ApLocs
<1>3. AtInv' /\ StackInv' /\ FilledInv'
  BY <1>1 DEF AtInv, StackInv, FilledInv, BspLocs
<1>4. WaitInv'
  BY <1>1, <1>2 DEF WaitInv, Starting, ApLocs
<1>5. LoadedInv'
  BY <1>1, <1>2 DEF LoadedInv
<1>6. AckInv'
  BY <1>1, <1>2 DEF AckInv, AtInv
<1> QED
  BY <1>1, <1>2, <1>3, <1>4, <1>5, <1>6

\* init_smp goes on, either because processor i has come up or because it has
\* not: then it is dead, or the last one.
LEMMA NextApSmp ==
  ASSUME Late \subseteq {NAps}, SmpInv, start_acked \/ start_timeout PROVE SmpInv'
<1> USE DEF SmpInv
<1>1. /\ bsp = "spin" /\ i \in Ap /\ i' = i + 1
      /\ i' \in Ap => bsp' = "alloc"
      /\ i' \notin Ap => bsp' = "done"
      /\ UNCHANGED <<dead, bi, pages, mine, ap, regs>>
  BY DEF start_acked, start_timeout, next_ap, BspGoto, AtInv
<1>2. bsp' = "alloc" => ~Starting(i)
  <2>1. CASE start_acked
    BY <2>1 DEF start_acked, FilledInv, Starting
  <2>2. CASE start_timeout
    <3>1. i \in dead \/ i = NAps
      BY <2>2 DEF start_timeout, may_time_out
    <3> QED
      BY <1>1, <3>1 DEF WaitInv, Starting
  <2> QED
    BY <2>1, <2>2
<1>3. AtInv' /\ StackInv'
  BY <1>1 DEF AtInv, StackInv, BspLocs
<1>4. FilledInv' /\ LoadedInv'
  BY <1>1 DEF FilledInv, LoadedInv, AtInv
<1>5. WaitInv'
  <2> SUFFICES ASSUME NEW a \in Ap PROVE WaitInv!(a)'
    BY DEF WaitInv
  <2>1. Starting(a)' => Starting(a)
    BY <1>1 DEF Starting
  <2>2. Starting(a) => a = i
    BY <1>1 DEF WaitInv
  <2> QED
    BY <1>1, <1>2, <2>1, <2>2 DEF WaitInv
<1>6. AckInv'
  <2>1. CASE start_acked
    <3>1. acked' = acked \cup {i} /\ timedout' = timedout /\ ap[i] = "online"
      BY <2>1 DEF start_acked, FilledInv
    <3> QED
      BY <1>1, <3>1 DEF AckInv, AtInv
  <2>2. CASE start_timeout
    <3>1. acked' = acked /\ timedout' = timedout \cup {i}
      BY <2>2 DEF start_timeout
    <3> QED
      BY <1>1, <3>1 DEF AckInv, AtInv
  <2> QED
    BY <2>1, <2>2
<1> QED
  BY <1>1, <1>3, <1>4, <1>5, <1>6

\* A processor that starts reads the record that was filled in for it.
LEMMA ReadsOwn ==
  ASSUME SmpInv, NEW a \in Ap, Starting(a)
  PROVE  /\ bi.cr3 = CR3 /\ bi.stack = a /\ bi.entry = ApMain
         /\ bsp \in {"spin", "done"} /\ (bsp = "spin" => a = i)
         /\ a \notin dead /\ a \notin acked
BY DEF SmpInv, WaitInv, FilledInv, Starting, AckInv, AtInv

\* Every step of a processor that comes up.
LEMMA ApSmp ==
  ASSUME SmpInv, NEW a \in Ap,
         \/ tramp_cr3(a) \/ tramp_paging(a) \/ tramp_stack(a) \/ tramp_entry(a)
         \/ ap_main(a)
  PROVE  SmpInv'
<1> USE DEF SmpInv
<1>1. Starting(a)
  BY DEF Starting, tramp_cr3, tramp_paging, tramp_stack, tramp_entry, ap_main
<1>2. /\ bi.cr3 = CR3 /\ bi.stack = a /\ bi.entry = ApMain
      /\ bsp \in {"spin", "done"} /\ (bsp = "spin" => a = i)
      /\ a \notin dead /\ a \notin acked
  BY <1>1, ReadsOwn
<1>3. /\ UNCHANGED <<dead, bsp, i, pages, mine, acked, timedout>>
      /\ ap' \in [Ap -> ApLocs]
      /\ ap'[a] \in {"pm32", "lm64", "entry", "main", "online"}
      /\ \A b \in Ap \ {a} : ap'[b] = ap[b]
  <2>1. CASE tramp_cr3(a)
    BY <2>1 DEF tramp_cr3, ApGoto, ApLocs
  <2>2. CASE tramp_paging(a)
    <3>1. regs[a].cr3 = CR3
      BY <2>2 DEF LoadedInv, tramp_paging
    <3> QED
      BY <2>2, <3>1 DEF tramp_paging, ApGoto, ApLocs
  <2>3. CASE tramp_stack(a)
    BY <2>3 DEF tramp_stack, ApGoto, ApLocs
  <2>4. CASE tramp_entry(a)
    BY <1>2, <2>4 DEF tramp_entry, ApGoto, ApLocs
  <2>5. CASE ap_main(a)
    BY <2>5 DEF ap_main, ApGoto, ApLocs
  <2> QED
    BY <2>1, <2>2, <2>3, <2>4, <2>5
<1>4. AtInv' /\ StackInv' /\ AckInv'
  BY <1>2, <1>3 DEF AtInv, StackInv, AckInv
<1>5. WaitInv'
  BY <1>1, <1>2, <1>3 DEF WaitInv, Starting, ApLocs
<1>6. FilledInv'
  <2>1. CASE ~ap_main(a)
    <3>1. UNCHANGED bi
      BY <2>1 DEF tramp_cr3, tramp_paging, tramp_stack, tramp_entry
    <3>2. bsp = "spin" => bi.started = 0
      BY <1>1, <1>2 DEF FilledInv, Starting
    <3> QED
      BY <1>2, <1>3, <3>1, <3>2 DEF FilledInv
  <2>2. CASE ap_main(a)
    <3>1. bi' = [bi EXCEPT !.started = 1] /\ ap'[a] = "online"
      BY <2>2 DEF ap_main, ApGoto
    <3> QED
      BY <1>2, <1>3, <3>1 DEF FilledInv, Record
  <2> QED
    BY <2>1, <2>2
<1>7. LoadedInv'
  <2>1. CASE tramp_cr3(a)
    BY <1>2, <2>1 DEF tramp_cr3, ApGoto, LoadedInv, Record
  <2>2. CASE tramp_paging(a)
    BY <1>3, <2>2 DEF tramp_paging, ApGoto, LoadedInv, Record
  <2>3. CASE tramp_stack(a)
    <3>1. bi.stack \in {0, ApMain} \cup 0 .. NAps /\ regs[a] \in Record /\ bi \in Record
      BY DEF LoadedInv, FilledInv, Record
    <3>2. /\ regs' \in [Ap -> Record] /\ \A b \in Ap \ {a} : regs'[b] = regs[b]
          /\ regs'[a] = [regs[a] EXCEPT !.stack = bi.stack]
      BY <2>3, <3>1 DEF tramp_stack, LoadedInv, Record
    <3>3. regs'[a].cr3 = regs[a].cr3 /\ ap'[a] # "pm32" /\ regs'[a].stack = a
      BY <1>2, <2>3, <3>1, <3>2 DEF tramp_stack, ApGoto, LoadedInv, Record
    <3> QED
      BY <1>3, <2>3, <3>2, <3>3 DEF LoadedInv
  <2>4. CASE tramp_entry(a)
    <3>1. bi.entry \in {0, ApMain} \cup 0 .. NAps /\ regs[a] \in Record /\ bi \in Record
      BY DEF LoadedInv, FilledInv, Record
    <3>2. /\ regs' \in [Ap -> Record] /\ \A b \in Ap \ {a} : regs'[b] = regs[b]
          /\ regs'[a] = [regs[a] EXCEPT !.entry = bi.entry]
      BY <2>4, <3>1 DEF tramp_entry, LoadedInv, Record
    <3>3. regs'[a].cr3 = regs[a].cr3 /\ ap'[a] # "pm32" /\ regs'[a].stack = a
      BY <1>2, <2>4, <3>1, <3>2 DEF tramp_entry, ApGoto, LoadedInv, Record
    <3> QED
      BY <1>3, <2>4, <3>2, <3>3 DEF LoadedInv
  <2>5. CASE ap_main(a)
    BY <2>5 DEF ap_main, ApGoto, LoadedInv, Record
  <2> QED
    BY <2>1, <2>2, <2>3, <2>4, <2>5
<1> QED
  BY <1>3, <1>4, <1>5, <1>6, <1>7

-----------------------------------------------------------------------------
(* The theorem.                                                            *)

\* For every number of processors, and whichever of them are dead: each that
\* comes up runs ap_main with the BSP's page table on a stack of its own, and
\* what start_one_ap reports as acknowledged is the processor it started.
THEOREM ApsCorrect ==
  ASSUME Late \subseteq {NAps} PROVE SmpSpec => []ApsSound
<1>1. SmpInv /\ [SmpNext]_smpVars => SmpInv'
  <2>1. ASSUME SmpInv, UNCHANGED smpVars PROVE SmpInv'
    BY <2>1 DEF smpVars, SmpInv, AtInv, StackInv, FilledInv, WaitInv, LoadedInv,
                AckInv, Starting
  <2> QED
    BY <2>1, AllocSmp, StoreSmp, SipiSmp, NextApSmp, ApSmp DEF SmpNext
<1>2. SmpInv => ApsSound
  <2> SUFFICES ASSUME SmpInv PROVE ApsSound
    OBVIOUS
  <2>1. pages \in 0 .. NAps /\ mine \in [Ap -> 0 .. NAps]
    BY DEF SmpInv, AtInv, StackInv
  <2>2. bi \in Record /\ regs \in [Ap -> Record]
    BY DEF SmpInv, FilledInv, LoadedInv
  <2>3. SmpTypeOK
    BY <2>1, <2>2 DEF SmpInv, AtInv, AckInv, SmpTypeOK, Record
  <2>4. OwnStack
    <3>1. \A a \in Ap : ap[a] \in {"main", "online"} => mine[a] = a
      BY DEF SmpInv, AtInv, StackInv, WaitInv
    <3> QED
      BY <3>1 DEF SmpInv, LoadedInv, OwnStack
  <2>5. AckIsOnline /\ BootinfoFilled
    BY DEF SmpInv, AckInv, WaitInv, AckIsOnline, BootinfoFilled
  <2> QED
    BY <2>3, <2>4, <2>5 DEF ApsSound
<1> QED
  BY <1>1, <1>2, InitSmp, PTL DEF SmpSpec

=============================================================================
