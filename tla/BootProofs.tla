----------------------------- MODULE BootProofs -----------------------------
(***************************************************************************)
(* Proofs about the way from the firmware to the first program: the loader *)
(* hands over the kernel it read and the memory map of the machine, the    *)
(* search for partitions takes from any table only what lies on the disk,  *)
(* the mounts are those the configuration and the volumes call for, and    *)
(* the program that is entered is the one in its file.                     *)
(***************************************************************************)
EXTENDS Boot, Iteration, SequenceTheorems, FiniteSetTheorems, TLAPS

-----------------------------------------------------------------------------
(* The loader.                                                             *)

\* What an allocation is for, and which of them it is.
Use == {"firmware", "config", "page", "bootinfo", "map"} \X Int

EfiSteps ==
  {"config", "kernel", "segment", "info", "alloc_map", "get_map", "exit", "entered", "fatal"}

EfiTypeOK ==
  /\ kernel \in KernelFile
  /\ efi \in [step : EfiSteps, seg : Nat \ {0}, retry : Nat, key : Nat]
  /\ fw \in [used : SUBSET Use, key : Nat, events : Nat]
  /\ DOMAIN info = {"config", "low", "map"}

\* Segment i of the kernel is in its memory.
InPlace(i) ==
  LET s == kernel.segs[i]
  IN  s.load =>
        /\ SegPages(s) \subseteq fw.used
        /\ \A a \in s.addr .. s.addr + s.memsz - 1 :
             a \in DOMAIN ram /\ ram[a] = IF a < s.addr + s.filesz THEN s.off + (a - s.addr) + 1 ELSE 0

SegmentsInPlace ==
  /\ \A i \in 1 .. Len(kernel.segs) : i < efi.seg => InPlace(i)
  /\ efi.step \in {"info", "alloc_map", "get_map", "exit", "entered"} => efi.seg > Len(kernel.segs)

\* The memory that BootInfo and the map lie in stays allocated until the kernel is
\* entered, that of the maps before is given back.
MapsInPlace ==
  /\ info.config # NoText => <<"config", 0>> \in fw.used
  /\ \A r \in 0 .. efi.retry - 1 : <<"map", r>> \notin fw.used
  /\ efi.step \in {"alloc_map", "get_map", "exit", "entered"} => <<"bootinfo", 0>> \in fw.used
  /\ efi.step \in {"get_map", "exit", "entered"} => <<"map", efi.retry>> \in fw.used

\* The key the loader holds is not ahead of the firmware's, and when they agree so do
\* the maps.
MapCurrent ==
  /\ efi.step \in {"exit", "entered"} => efi.key <= fw.key /\ (efi.key = fw.key => info.map = fw.used)
  /\ efi.step = "entered" => efi.key = fw.key

EfiInv == EfiTypeOK /\ SegmentsInPlace /\ MapsInPlace /\ MapCurrent

\* A page that holds a cell of a segment is one of the segment's pages.
LEMMA CellInPages ==
  ASSUME NEW addr \in Nat, NEW memsz \in Nat, NEW P \in Nat \ {0}, NEW a \in addr .. addr + memsz - 1
  PROVE  a \div P \in (addr \div P) .. ((addr + memsz + P - 1) \div P) - 1
<1> DEFINE q == a \div P
           b == addr \div P
           e == (addr + memsz + P - 1) \div P
<1>1. q \in Int /\ b \in Int /\ e \in Int
  OBVIOUS
<1>2. q * P <= a /\ a < q * P + P
  OBVIOUS
<1>3. b * P <= addr
  OBVIOUS
<1>4. addr + memsz + P - 1 < e * P + P
  OBVIOUS
<1>5. q * P + P <= addr + memsz + P - 1
  BY <1>2
<1> HIDE DEF q, b, e
<1>6. b <= q
  <2>1. SUFFICES ASSUME q + 1 <= b PROVE FALSE
    BY <1>1
  <2>2. (q + 1) * P <= b * P
    BY <2>1, <1>1
  <2> QED
    BY <2>2, <1>1, <1>2, <1>3
<1>7. q + 1 <= e
  <2>1. SUFFICES ASSUME e <= q PROVE FALSE
    BY <1>1
  <2>2. e * P <= q * P
    BY <2>1, <1>1
  <2> QED
    BY <2>2, <1>1, <1>4, <1>5
<1>8. q \in b .. e - 1
  BY <1>1, <1>6, <1>7
<1> QED
  BY <1>8 DEF q, b, e

\* The segments of a kernel are records of natural numbers.
LEMMA SegmentType ==
  ASSUME NEW k \in KernelFile, NEW i \in 1 .. Len(k.segs)
  PROVE  /\ k.segs[i] \in [load : BOOLEAN, addr : Nat, off : Nat, filesz : Nat, memsz : Nat]
         /\ Len(k.segs) \in Nat
<1>1. k.segs \in Seq([load : BOOLEAN, addr : Nat, off : Nat, filesz : Nat, memsz : Nat])
  BY EfiAssumption
<1> HIDE EfiAssumption
<1> QED
  BY <1>1, ElementOfSeq, LenProperties

\* The pages of a segment that have been given out for one that is loaded: no cell of the
\* other lies in the new one.
LEMMA CellsApart ==
  ASSUME NEW s, NEW t, s \in [load : BOOLEAN, addr : Nat, off : Nat, filesz : Nat, memsz : Nat],
         t \in [load : BOOLEAN, addr : Nat, off : Nat, filesz : Nat, memsz : Nat],
         SegPages(s) \cap SegPages(t) = {},
         NEW a \in s.addr .. s.addr + s.memsz - 1
  PROVE  a \notin t.addr .. t.addr + t.memsz - 1
<1>1. SUFFICES ASSUME a \in t.addr .. t.addr + t.memsz - 1
               PROVE  FALSE
  OBVIOUS
<1>2. PageCells \in Nat \ {0}
  BY EfiAssumption
<1> HIDE EfiAssumption
<1>3. /\ a \div PageCells \in (s.addr \div PageCells) .. ((s.addr + s.memsz + PageCells - 1) \div PageCells) - 1
      /\ a \div PageCells \in (t.addr \div PageCells) .. ((t.addr + t.memsz + PageCells - 1) \div PageCells) - 1
  BY <1>1, <1>2, CellInPages
<1> DEFINE q == a \div PageCells
<1> HIDE DEF q
<1>4. <<"page", q>> \in SegPages(s) /\ <<"page", q>> \in SegPages(t)
  BY <1>3, Zenon DEF SegPages, q
<1> QED
  BY <1>4

\* The pages of a segment are memory that is used as pages.
LEMMA PagesAreUses ==
  ASSUME NEW s, s \in [load : BOOLEAN, addr : Nat, off : Nat, filesz : Nat, memsz : Nat]
  PROVE  /\ SegPages(s) \subseteq Use
         /\ \A u \in SegPages(s) : u[1] = "page"
<1>1. PageCells \in Nat \ {0}
  BY EfiAssumption
<1> HIDE EfiAssumption
<1> QED
  BY <1>1 DEF SegPages, Use

\* A segment in its place stays there while nothing is given back.
LEMMA StaysInPlace ==
  ASSUME SegmentsInPlace, kernel' = kernel, efi'.seg = efi.seg, ram' = ram,
         \A u \in fw.used : u[1] = "page" => u \in fw'.used,
         efi'.step \in {"info", "alloc_map", "get_map", "exit", "entered"} => efi.seg > Len(kernel.segs),
         kernel \in KernelFile
  PROVE  SegmentsInPlace'
<1>1. ASSUME NEW i \in 1 .. Len(kernel.segs), i < efi.seg
      PROVE  InPlace(i)'
  <2>1. InPlace(i)
    BY <1>1 DEF SegmentsInPlace
  <2>2. \A u \in SegPages(kernel.segs[i]) : u[1] = "page"
    BY <1>1, SegmentType, PagesAreUses
  <2>3. SegPages(kernel.segs[i])' = SegPages(kernel.segs[i])
    BY DEF SegPages
  <2> QED
    BY <2>1, <2>2, <2>3 DEF InPlace
<1> QED
  BY <1>1 DEF SegmentsInPlace

\* A step of the loader, or of the firmware while it runs.
LEMMA EfiStep ==
  ASSUME EfiInv, NEW text, EfiNext(text)
  PROVE  EfiInv'
<1>i. SegmentsInPlace /\ MapsInPlace /\ MapCurrent
  BY DEF EfiInv
<1>0. kernel \in KernelFile /\ Len(kernel.segs) \in Nat /\ DOMAIN info = {"config", "low", "map"}
  BY EfiAssumption, LenProperties DEF EfiInv, EfiTypeOK
<1>e. /\ efi \in [step : EfiSteps, seg : Nat \ {0}, retry : Nat, key : Nat]
      /\ efi.step \in EfiSteps /\ efi.seg \in Nat \ {0} /\ efi.retry \in Nat /\ efi.key \in Nat
  BY DEF EfiInv, EfiTypeOK
<1>f. /\ fw \in [used : SUBSET Use, key : Nat, events : Nat]
      /\ fw.used \subseteq Use /\ fw.key \in Nat /\ fw.events \in Nat
  BY DEF EfiInv, EfiTypeOK
<1>s. efi.step \in {"info", "alloc_map", "get_map", "exit", "entered"} => efi.seg > Len(kernel.segs)
  BY <1>i DEF SegmentsInPlace
<1>u. /\ \A k \in Int, what \in {"config", "bootinfo", "map", "firmware"} : <<what, k>> \in Use
      /\ \A k, r \in Int : k # r => <<"map", k>> # <<"map", r>>
  BY DEF Use
\* Steps that only move on, and may allocate.
<1> DEFINE Plain(step) ==
             /\ efi' \in [step : EfiSteps, seg : Nat \ {0}, retry : Nat, key : Nat]
             /\ efi'.step = step /\ efi'.seg = efi.seg /\ efi'.retry = efi.retry
             /\ UNCHANGED <<kernel, ram>>
           Grows(what) ==
             /\ fw' \in [used : SUBSET Use, key : Nat, events : Nat]
             /\ fw'.used = fw.used \cup what /\ fw'.key = fw.key + 1
<1>p. ASSUME NEW step \in EfiSteps, efi' = [efi EXCEPT !.step = step], UNCHANGED <<kernel, ram>>
      PROVE  Plain(step) /\ efi'.key = efi.key
  BY <1>p, <1>e
<1>g. ASSUME NEW what \in SUBSET Use, fw' = Allocated(what)
      PROVE  Grows(what)
  <2>1. fw' = [used |-> fw.used \cup what, key |-> fw.key + 1, events |-> fw.events]
    BY <1>g, <1>f DEF Allocated
  <2> QED
    BY <2>1, <1>f
<1>k. ASSUME NEW step, Plain(step),
             step \in {"info", "alloc_map", "get_map", "exit", "entered"} => efi.seg > Len(kernel.segs),
             \A u \in fw.used : u[1] = "page" => u \in fw'.used
      PROVE  SegmentsInPlace'
  BY <1>k, <1>0, <1>i, StaysInPlace
<1> HIDE DEF Plain, Grows
<1>1. ASSUME Fatal PROVE EfiInv'
  <2>1. Plain("fatal") /\ UNCHANGED <<kernel, fw, ram, info>>
    BY <1>1, <1>p DEF Fatal, Step, EfiSteps
  <2>2. SegmentsInPlace'
    BY <2>1, <1>k
  <2>3. MapsInPlace' /\ MapCurrent'
    BY <2>1, <1>i DEF MapsInPlace, MapCurrent, Plain
  <2> QED
    BY <2>1, <2>2, <2>3, <1>0, <1>f DEF EfiInv, EfiTypeOK, Plain
<1>2. CASE LoadBootConfig(text)
  <2>1. Plain("kernel")
    BY <1>2, <1>p DEF LoadBootConfig, Step, EfiSteps
  <2>2. CASE UNCHANGED <<fw, info>>
    <3>2. SegmentsInPlace'
      BY <2>1, <2>2, <1>k
    <3>3. MapsInPlace' /\ MapCurrent'
      BY <2>1, <2>2, <1>i DEF MapsInPlace, MapCurrent, Plain
    <3> QED
      BY <2>1, <2>2, <3>2, <3>3, <1>0, <1>f DEF EfiInv, EfiTypeOK, Plain
  <2>3. CASE fw' = Allocated({<<"config", 0>>}) /\ DOMAIN info' = DOMAIN info
    <3>1. Grows({<<"config", 0>>})
      <4>1. {<<"config", 0>>} \in SUBSET Use
        BY DEF Use
      <4> QED
        BY <2>3, <4>1, <1>g, Zenon
    <3>2. SegmentsInPlace'
      BY <2>1, <3>1, <1>k DEF Grows
    <3>3. MapsInPlace' /\ MapCurrent'
      BY <2>1, <3>1, <1>i DEF MapsInPlace, MapCurrent, Plain, Grows
    <3> QED
      BY <2>1, <2>3, <3>1, <3>2, <3>3, <1>0 DEF EfiInv, EfiTypeOK, Plain, Grows
  <2> QED
    BY <1>2, <2>2, <2>3 DEF LoadBootConfig
<1>3. CASE LoadElf64
  <2>1. CASE efi' = [efi EXCEPT !.step = "segment"] /\ UNCHANGED <<kernel, fw, ram, info>>
    <3>1. Plain("segment")
      BY <2>1, <1>p DEF EfiSteps
    <3>2. SegmentsInPlace'
      BY <2>1, <3>1, <1>k
    <3>3. MapsInPlace' /\ MapCurrent'
      BY <2>1, <3>1, <1>i DEF MapsInPlace, MapCurrent, Plain
    <3> QED
      BY <2>1, <3>1, <3>2, <3>3, <1>0, <1>f DEF EfiInv, EfiTypeOK, Plain
  <2> QED
    BY <1>1, <1>3, <2>1 DEF LoadElf64, Step
<1>4. CASE LoadSegment
  <2> DEFINE s == kernel.segs[efi.seg]
             n == Len(kernel.segs)
  <2>1. CASE efi.seg > n
    <3>1. efi' = [efi EXCEPT !.step = "info"] /\ UNCHANGED <<kernel, fw, ram, info>>
      <4>1. ~(efi.seg <= n)
        BY <2>1, <1>e, <1>0
      <4> QED
        BY <1>4, <2>1, <4>1, Zenon DEF LoadSegment, Step
    <3>2. Plain("info")
      BY <3>1, <1>p DEF EfiSteps
    <3>3. SegmentsInPlace'
      BY <3>1, <3>2, <2>1, <1>k
    <3>4. MapsInPlace' /\ MapCurrent'
      BY <3>1, <3>2, <1>i DEF MapsInPlace, MapCurrent, Plain
    <3> QED
      BY <3>1, <3>2, <3>3, <3>4, <1>0, <1>f DEF EfiInv, EfiTypeOK, Plain
  <2>2. CASE efi.seg <= n /\ ~s.load
    <3>1. efi' = [efi EXCEPT !.seg = @ + 1] /\ UNCHANGED <<kernel, fw, ram, info>> /\ efi.step = "segment"
      <4>1. ~(efi.seg > n)
        BY <2>2, <1>e, <1>0
      <4> QED
        BY <1>4, <2>2, <4>1, Zenon DEF LoadSegment, Step
    <3>2. /\ efi' \in [step : EfiSteps, seg : Nat \ {0}, retry : Nat, key : Nat]
          /\ efi'.step = "segment" /\ efi'.seg = efi.seg + 1 /\ efi'.retry = efi.retry
      BY <3>1, <1>e
    <3>3. ASSUME NEW i \in 1 .. n, i < efi.seg + 1 PROVE InPlace(i)'
      <4>1. CASE i < efi.seg
        <5>1. InPlace(i)
          BY <4>1, <1>i DEF SegmentsInPlace
        <5> QED
          BY <5>1, <3>1 DEF InPlace, SegPages
      <4>2. CASE i = efi.seg
        BY <4>2, <2>2, <3>1 DEF InPlace
      <4> QED
        BY <4>1, <4>2, <3>3, <1>e
    <3>4. SegmentsInPlace'
      BY <3>1, <3>2, <3>3 DEF SegmentsInPlace
    <3>5. MapsInPlace' /\ MapCurrent'
      BY <3>1, <3>2, <1>i DEF MapsInPlace, MapCurrent
    <3> QED
      BY <3>1, <3>2, <3>4, <3>5, <1>0, <1>f DEF EfiInv, EfiTypeOK
  <2>3. CASE /\ efi.seg <= n /\ s.load /\ SegPages(s) \cap fw.used = {}
             /\ fw' = Allocated(SegPages(s))
             /\ ram' = [a \in DOMAIN ram \cup DOMAIN Loaded(s) |->
                          IF a \in DOMAIN Loaded(s) THEN Loaded(s)[a] ELSE ram[a]]
             /\ efi' = [efi EXCEPT !.seg = @ + 1]
             /\ UNCHANGED <<kernel, info>> /\ efi.step = "segment"
    <3>0. efi.seg \in 1 .. n
      BY <2>3, <1>e, <1>0
    <3>1. s \in [load : BOOLEAN, addr : Nat, off : Nat, filesz : Nat, memsz : Nat]
      BY <3>0, <1>0, SegmentType
    <3>2. /\ efi' \in [step : EfiSteps, seg : Nat \ {0}, retry : Nat, key : Nat]
          /\ efi'.step = "segment" /\ efi'.seg = efi.seg + 1 /\ efi'.retry = efi.retry
      BY <2>3, <1>e
    <3> DEFINE new == Loaded(s)
    <3>3. /\ DOMAIN new = s.addr .. s.addr + s.memsz - 1
          /\ \A a \in DOMAIN new : new[a] = IF a < s.addr + s.filesz THEN s.off + (a - s.addr) + 1 ELSE 0
      BY DEF Loaded
    <3>4. /\ fw'.used = fw.used \cup SegPages(s)
          /\ fw' \in [used : SUBSET Use, key : Nat, events : Nat]
      <4>1. fw' = [used |-> fw.used \cup SegPages(s), key |-> fw.key + 1, events |-> fw.events]
        BY <2>3, <1>f DEF Allocated
      <4>2. SegPages(s) \subseteq Use
        BY <3>1, PagesAreUses
      <4> HIDE DEF s
      <4> QED
        BY <4>1, <4>2, <1>f
    <3>5. /\ DOMAIN ram' = DOMAIN ram \cup DOMAIN new
          /\ \A a \in DOMAIN ram' : ram'[a] = IF a \in DOMAIN new THEN new[a] ELSE ram[a]
      BY <2>3
    <3> HIDE DEF new
    <3>6. ASSUME NEW i \in 1 .. n, i < efi.seg + 1 PROVE InPlace(i)'
      <4> DEFINE t == kernel.segs[i]
      <4>1. SegPages(t)' = SegPages(t) /\ t' = t
        BY <2>3 DEF SegPages
      <4>2. CASE i < efi.seg
        <5>1. SUFFICES ASSUME t.load PROVE InPlace(i)'
          BY <4>1 DEF InPlace
        <5>2. t \in [load : BOOLEAN, addr : Nat, off : Nat, filesz : Nat, memsz : Nat]
          BY <1>0, SegmentType
        <5>3. InPlace(i)
          BY <4>2, <1>i DEF SegmentsInPlace
        <5>4. /\ SegPages(t) \subseteq fw.used
              /\ \A a \in t.addr .. t.addr + t.memsz - 1 :
                   a \in DOMAIN ram /\ ram[a] = IF a < t.addr + t.filesz THEN t.off + (a - t.addr) + 1 ELSE 0
          BY <5>1, <5>3 DEF InPlace
        <5>5. SegPages(t) \cap SegPages(s) = {}
          BY <5>4, <2>3
        <5> HIDE DEF s, t
        <5>6. \A a \in t.addr .. t.addr + t.memsz - 1 : a \notin DOMAIN new
          BY <5>2, <5>5, <3>1, <3>3, CellsApart
        <5>7. \A a \in t.addr .. t.addr + t.memsz - 1 :
                   a \in DOMAIN ram' /\ ram'[a] = IF a < t.addr + t.filesz THEN t.off + (a - t.addr) + 1 ELSE 0
          BY <5>4, <5>6, <3>5
        <5>8. SegPages(t) \subseteq fw'.used
          BY <5>4, <3>4
        <5> QED
          BY <5>7, <5>8, <4>1 DEF InPlace, t
      <4>3. CASE i = efi.seg
        <5>1. t = s
          BY <4>3
        <5> HIDE DEF s, t
        <5>2. \A a \in s.addr .. s.addr + s.memsz - 1 :
                   a \in DOMAIN ram' /\ ram'[a] = IF a < s.addr + s.filesz THEN s.off + (a - s.addr) + 1 ELSE 0
          BY <3>3, <3>5
        <5>3. SegPages(t) \subseteq fw'.used
          BY <5>1, <3>4
        <5> QED
          BY <5>1, <5>2, <5>3, <4>1 DEF InPlace, t
      <4> QED
        BY <4>2, <4>3, <3>6, <1>e
    <3>7. SegmentsInPlace'
      BY <2>3, <3>2, <3>6 DEF SegmentsInPlace
    <3>8. \A r : <<"map", r>> \notin SegPages(s)
      BY <3>1, PagesAreUses
    <3> HIDE DEF s
    <3>9. MapsInPlace' /\ MapCurrent'
      BY <2>3, <3>2, <3>4, <3>8, <1>i DEF MapsInPlace, MapCurrent
    <3> QED
      BY <2>3, <3>2, <3>4, <3>7, <3>9, <1>0 DEF EfiInv, EfiTypeOK
  <2>4. Fatal \/ efi.seg > n \/ (efi.seg <= n /\ ~s.load) \/ 
        /\ efi.seg <= n /\ s.load /\ SegPages(s) \cap fw.used = {}
        /\ fw' = Allocated(SegPages(s))
        /\ ram' = [a \in DOMAIN ram \cup DOMAIN Loaded(s) |->
                          IF a \in DOMAIN Loaded(s) THEN Loaded(s)[a] ELSE ram[a]]
        /\ efi' = [efi EXCEPT !.seg = @ + 1]
        /\ UNCHANGED <<kernel, info>> /\ efi.step = "segment"
    <3>1. efi.seg > n \/ efi.seg <= n
      BY <1>e, <1>0
    <3> QED
      BY <3>1, <1>4, Zenon DEF LoadSegment
  <2> QED
    BY <1>1, <2>1, <2>2, <2>3, <2>4
<1>5. CASE AllocateBootInfo
  <2>1. CASE /\ efi' = [efi EXCEPT !.step = "alloc_map"] /\ fw' = Allocated({<<"bootinfo", 0>>})
             /\ UNCHANGED <<kernel, ram, info>> /\ efi.step = "info"
    <3>1. Plain("alloc_map") /\ Grows({<<"bootinfo", 0>>})
      <4>1. Plain("alloc_map")
        BY <2>1, <1>p DEF EfiSteps
      <4>2. {<<"bootinfo", 0>>} \in SUBSET Use
        BY DEF Use
      <4> QED
        BY <2>1, <4>1, <4>2, <1>g, Zenon
    <3>2. SegmentsInPlace'
      BY <2>1, <3>1, <1>k, <1>s DEF Grows
    <3>3. MapsInPlace' /\ MapCurrent'
      BY <2>1, <3>1, <1>i DEF MapsInPlace, MapCurrent, Plain, Grows
    <3> QED
      BY <2>1, <3>1, <3>2, <3>3, <1>0 DEF EfiInv, EfiTypeOK, Plain, Grows
  <2> QED
    BY <1>1, <1>5, <2>1 DEF AllocateBootInfo, Step
<1>6. CASE AllocateMap
  <2>1. CASE /\ efi' = [efi EXCEPT !.step = "get_map"] /\ fw' = Allocated({<<"map", efi.retry>>})
             /\ UNCHANGED <<kernel, ram, info>> /\ efi.step = "alloc_map"
    <3>1. Plain("get_map") /\ Grows({<<"map", efi.retry>>})
      <4>1. Plain("get_map")
        BY <2>1, <1>p DEF EfiSteps
      <4>2. {<<"map", efi.retry>>} \in SUBSET Use
        BY <1>e DEF Use
      <4> QED
        BY <2>1, <4>1, <4>2, <1>g, Zenon
    <3>2. SegmentsInPlace'
      BY <2>1, <3>1, <1>k, <1>s DEF Grows
    <3>3. MapsInPlace' /\ MapCurrent'
      <4>1. \A r \in 0 .. efi.retry - 1 : <<"map", r>> # <<"map", efi.retry>>
        BY <1>e, <1>u
      <4> QED
        BY <2>1, <3>1, <4>1, <1>i DEF MapsInPlace, MapCurrent, Plain, Grows
    <3> QED
      BY <2>1, <3>1, <3>2, <3>3, <1>0 DEF EfiInv, EfiTypeOK, Plain, Grows
  <2> QED
    BY <1>1, <1>6, <2>1 DEF AllocateMap, Step
<1>7. CASE GetMemoryMap
  <2>1. CASE /\ efi' = [efi EXCEPT !.step = "exit", !.key = fw.key]
             /\ info' = [info EXCEPT !.map = fw.used]
             /\ UNCHANGED <<kernel, fw, ram>> /\ efi.step = "get_map"
    <3>1. Plain("exit") /\ efi'.key = fw.key
      <4>1. efi' = [step |-> "exit", seg |-> efi.seg, retry |-> efi.retry, key |-> fw.key]
        BY <2>1, <1>e
      <4> QED
        BY <2>1, <4>1, <1>e, <1>f DEF Plain, EfiSteps
    <3>2. SegmentsInPlace'
      BY <2>1, <3>1, <1>k, <1>s
    <3>3. DOMAIN info' = DOMAIN info /\ info'.config = info.config /\ info'.map = fw.used
      BY <2>1, <1>0
    <3>4. MapsInPlace' /\ MapCurrent'
      BY <2>1, <3>1, <3>3, <1>i, <1>f DEF MapsInPlace, MapCurrent, Plain
    <3> QED
      BY <2>1, <3>1, <3>2, <3>3, <3>4, <1>0, <1>f DEF EfiInv, EfiTypeOK, Plain
  <2> QED
    BY <1>1, <1>7, <2>1 DEF GetMemoryMap
<1>8. CASE ExitBootServices
  <2>1. CASE efi.key = fw.key
    <3>1. efi' = [efi EXCEPT !.step = "entered"] /\ UNCHANGED <<kernel, fw, ram, info>> /\ efi.step = "exit"
      BY <1>8, <2>1 DEF ExitBootServices, Step
    <3>2. Plain("entered") /\ efi'.key = efi.key
      BY <3>1, <1>p DEF EfiSteps
    <3>3. SegmentsInPlace'
      BY <3>1, <3>2, <1>k, <1>s
    <3>4. MapsInPlace' /\ MapCurrent'
      BY <3>1, <3>2, <2>1, <1>i DEF MapsInPlace, MapCurrent, Plain
    <3> QED
      BY <3>1, <3>2, <3>3, <3>4, <1>0, <1>f DEF EfiInv, EfiTypeOK, Plain
  <2>2. CASE efi.key # fw.key
    <3>1. /\ fw' = Freed({<<"map", efi.retry>>})
          /\ efi.step = "exit" /\ UNCHANGED <<kernel, ram, info>>
      BY <1>8, <2>2 DEF ExitBootServices
    <3>2. /\ efi' \in [step : EfiSteps, seg : Nat \ {0}, retry : Nat, key : Nat]
          /\ efi'.step \in {"alloc_map", "fatal"} /\ efi'.retry = efi.retry + 1 /\ efi'.seg = efi.seg
      <4>1. PICK step \in {"alloc_map", "fatal"} : efi' = [efi EXCEPT !.retry = @ + 1, !.step = step]
        BY <1>8, <2>2 DEF ExitBootServices
      <4>2. efi' = [step |-> step, seg |-> efi.seg, retry |-> efi.retry + 1, key |-> efi.key]
        BY <4>1, <1>e
      <4> QED
        BY <4>2, <1>e DEF EfiSteps
    <3>3. /\ fw'.used = fw.used \ {<<"map", efi.retry>>}
          /\ fw' \in [used : SUBSET Use, key : Nat, events : Nat]
      <4>1. fw' = [used |-> fw.used \ {<<"map", efi.retry>>}, key |-> fw.key + 1, events |-> fw.events]
        BY <3>1, <1>f DEF Freed
      <4> QED
        BY <4>1, <1>f
    <3>4. SegmentsInPlace'
      <4>1. \A u \in fw.used : u[1] = "page" => u \in fw'.used
        BY <3>3
      <4> QED
        BY <3>1, <3>2, <4>1, <1>0, <1>i, <1>s, StaysInPlace
    <3>5. MapsInPlace' /\ MapCurrent'
      <4>1. \A r \in 0 .. efi.retry - 1 : <<"map", r>> \notin fw'.used
        BY <3>3, <1>i DEF MapsInPlace
      <4>2. <<"map", efi.retry>> \notin fw'.used /\ 0 .. efi'.retry - 1 = (0 .. efi.retry - 1) \cup {efi.retry}
        BY <3>2, <3>3, <1>e
      <4>3. <<"config", 0>> # <<"map", efi.retry>> /\ <<"bootinfo", 0>> # <<"map", efi.retry>>
        OBVIOUS
      <4> QED
        BY <3>1, <3>2, <3>3, <4>1, <4>2, <4>3, <1>i DEF MapsInPlace, MapCurrent
    <3> QED
      BY <3>1, <3>2, <3>3, <3>4, <3>5, <1>0 DEF EfiInv, EfiTypeOK
  <2> QED
    BY <2>1, <2>2
<1>9. CASE FirmwareEvent
  <2>1. UNCHANGED <<kernel, efi, ram, info>> /\ efi.step \in {"alloc_map", "get_map", "exit"}
    BY <1>9 DEF FirmwareEvent
  <2>2. Grows({<<"firmware", fw.events>>})
    <3>1. fw' = [used |-> fw.used \cup {<<"firmware", fw.events>>}, key |-> fw.key + 1, events |-> fw.events + 1]
      <4> DEFINE e == <<"firmware", fw.events>>
                 f == Allocated({e})
      <4>1. f = [used |-> fw.used \cup {e}, key |-> fw.key + 1, events |-> fw.events]
        <5>1. PICK g : g = f
          OBVIOUS
        <5> HIDE DEF f, e
        <5>2. g = Allocated({e})
          BY <5>1 DEF f
        <5>3. g = [used |-> fw.used \cup {e}, key |-> fw.key + 1, events |-> fw.events]
          BY <5>2, <1>f DEF Allocated
        <5> QED
          BY <5>1, <5>3
      <4>2. fw' = [f EXCEPT !.events = @ + 1]
        BY <1>9 DEF FirmwareEvent
      <4> HIDE DEF e, f
      <4>3. fw' = [used |-> fw.used \cup {e}, key |-> fw.key + 1, events |-> fw.events + 1]
        BY <4>1, <4>2
      <4> QED
        BY <4>3 DEF e
    <3> DEFINE e == <<"firmware", fw.events>>
    <3>2. e \in Use
      BY <1>f DEF Use
    <3> HIDE DEF e
    <3>3. fw' = [used |-> fw.used \cup {e}, key |-> fw.key + 1, events |-> fw.events + 1]
      BY <3>1 DEF e
    <3>4. Grows({e})
      BY <3>2, <3>3, <1>f DEF Grows
    <3> QED
      BY <3>4 DEF e
  <2>3. SegmentsInPlace'
    BY <2>1, <2>2, <1>0, <1>i, <1>s, StaysInPlace DEF Grows
  <2>4. MapsInPlace' /\ MapCurrent'
    BY <2>1, <2>2, <1>i, <1>e, <1>f DEF MapsInPlace, MapCurrent, Grows
  <2> QED
    BY <2>1, <2>2, <2>3, <2>4, <1>0, <1>e DEF EfiInv, EfiTypeOK, Grows
<1> QED
  BY <1>2, <1>3, <1>4, <1>5, <1>6, <1>7, <1>8, <1>9 DEF EfiNext

\* Once the kernel has taken over, the loader's state is gone.
LoaderInv == efi.step = "gone" \/ EfiInv

LEMMA LoaderStart == Init => LoaderInv
<1>1. SUFFICES ASSUME EfiInit PROVE EfiInv
  BY DEF Init, LoaderInv
<1>2. EfiTypeOK
  BY <1>1 DEF EfiInit, EfiTypeOK, EfiSteps
<1> QED
  BY <1>1, <1>2 DEF EfiInit, EfiInv, SegmentsInPlace, MapsInPlace, MapCurrent

LEMMA LoaderStep == LoaderInv /\ [Next]_bootVars => LoaderInv'
<1>1. SUFFICES ASSUME LoaderInv, [Next]_bootVars PROVE LoaderInv'
  OBVIOUS
<1>2. CASE UNCHANGED efiVars
  <2>1. UNCHANGED <<kernel, efi, fw, ram, info>>
    BY <1>2 DEF efiVars
  <2>2. EfiTypeOK => EfiTypeOK'
    BY <2>1 DEF EfiTypeOK
  <2>3. SegmentsInPlace => SegmentsInPlace'
    BY <2>1 DEF SegmentsInPlace, InPlace
  <2>4. (MapsInPlace => MapsInPlace') /\ (MapCurrent => MapCurrent')
    BY <2>1 DEF MapsInPlace, MapCurrent
  <2> QED
    BY <1>1, <2>1, <2>2, <2>3, <2>4 DEF LoaderInv, EfiInv
<1>3. CASE UefiMain
  <2>1. EfiNext(cfg)
    BY <1>3, Zenon DEF UefiMain
  <2>2. efi.step # "gone"
    BY <2>1 DEF EfiNext, LoadBootConfig, LoadElf64, LoadSegment, AllocateBootInfo,
                AllocateMap, GetMemoryMap, ExitBootServices, FirmwareEvent
  <2> QED
    BY <1>1, <2>1, <2>2, EfiStep DEF LoaderInv
<1>4. CASE kernel_main
  BY <1>1, <1>4 DEF LoaderInv, kernel_main, EfiInv, EfiTypeOK
<1> QED
  BY <1>1, <1>2, <1>3, <1>4 DEF Next, bootVars, vmm, init_partitions, make_mounts, user_enter_init

\* When the loader hands over, the kernel finds itself, its configuration and the memory
\* map in memory the map says is used, for any kernel and any doings of the firmware
\* between the tries (ElfLoader.c, Main.c).
THEOREM HandoverCorrect == Spec => []HandedOver
<1>1. LoaderInv => HandedOver
  <2>1. SUFFICES ASSUME EfiInv, efi.step = "entered" PROVE HandedOver
    BY DEF HandedOver, LoaderInv
  <2>2. info.map = fw.used
    BY <2>1 DEF EfiInv, MapCurrent
  <2> USE DEF EfiInv
  <2>3. /\ {<<"bootinfo", 0>>, <<"map", efi.retry>>} \subseteq info.map
        /\ \A r \in 0 .. efi.retry - 1 : <<"map", r>> \notin info.map
        /\ info.config # NoText => <<"config", 0>> \in info.map
    BY <2>1, <2>2 DEF MapsInPlace
  <2>4. \A i \in 1 .. Len(kernel.segs) : InPlace(i)
    <3>1. \A i \in 1 .. Len(kernel.segs) : i < efi.seg
      <4>1. Len(kernel.segs) \in Nat /\ efi.seg \in Nat
        <5>1. kernel \in KernelFile /\ efi.seg \in Nat
          BY <2>1 DEF EfiTypeOK
        <5>2. kernel.segs \in Seq([load : BOOLEAN, addr : Nat, off : Nat, filesz : Nat, memsz : Nat])
          BY <5>1, EfiAssumption
        <5> QED
          BY <5>1, <5>2, LenProperties
      <4>2. efi.seg > Len(kernel.segs)
        BY <2>1 DEF SegmentsInPlace
      <4> QED
        BY <4>1, <4>2
    <3> QED
      BY <2>1, <3>1, Zenon DEF SegmentsInPlace
  <2>5. ASSUME NEW i \in 1 .. Len(kernel.segs), kernel.segs[i].load
        PROVE  /\ SegPages(kernel.segs[i]) \subseteq info.map
               /\ \A a \in kernel.segs[i].addr .. kernel.segs[i].addr + kernel.segs[i].memsz - 1 :
                    ram[a] = IF a < kernel.segs[i].addr + kernel.segs[i].filesz
                             THEN kernel.segs[i].off + (a - kernel.segs[i].addr) + 1 ELSE 0
    BY <2>2, <2>4, <2>5 DEF InPlace
  <2> QED
    BY <2>2, <2>3, <2>5, Zenon DEF HandedOver
<1> QED
  BY <1>1, LoaderStart, LoaderStep, PTL DEF Spec

-----------------------------------------------------------------------------
(* The search for partitions.                                              *)

Partition == [start : Nat, sectors : Nat, table : {"gpt", "mbr"}]
Stage == {"start", "gpt", "mbr", "ext", "done"}
Place == [in : Stage, i : Nat \ {0}, base : Nat, ebr : Nat, guard : Nat]

\* gpt_verdict of any drive.
Verdict(d) ==
  IF ~(1 < disks[d].sectors /\ 1 \notin disks[d].unreadable)
     \/ disks[d].hdr \in {"unreadable", "no_magic"} THEN "mbr"
  ELSE IF disks[d].hdr # "good" \/ disks[d].array = "out_of_range"
       THEN IF \E i \in 1 .. 4 : disks[d].mbr[i].type = "protect" THEN "done" ELSE "mbr"
  ELSE IF disks[d].array # "good" THEN "done" ELSE "gpt"

\* A partition that may be there: on a disk, inside it, from the table that counts.
Sound(d, p) ==
  /\ disks[d] # NoDisk /\ p.start # 0 /\ p.sectors # 0
  /\ p.start + p.sectors <= disks[d].sectors
  /\ p.table = Verdict(d)

FoundInv ==
  /\ parts \in [1 .. 2 -> Seq(Partition)]
  /\ \A d \in 1 .. 2 : /\ Len(parts[d]) <= MaxPerDrive
                       /\ \A k \in 1 .. Len(parts[d]) : Sound(d, parts[d][k])

\* The search is in the table that counts.
PlaceInv ==
  /\ disks \in Disks /\ drive \in 1 .. 3 /\ at \in Place
  /\ at.in \in {"gpt", "mbr", "ext"} =>
       /\ drive \in 1 .. 2 /\ disks[drive] # NoDisk
       /\ Verdict(drive) = IF at.in = "gpt" THEN "gpt" ELSE "mbr"

PartInv == FoundInv /\ PlaceInv

\* What the tables of a drive hold.
LEMMA TableTyped ==
  ASSUME disks \in Disks, NEW d \in 1 .. 2, disks[d] # NoDisk
  PROVE  /\ disks[d].sectors \in Nat
         /\ disks[d].hdr \in {"unreadable", "no_magic", "invalid", "bad_crc", "good"}
         /\ \A i \in 1 .. 4 : /\ disks[d].mbr[i].type \in {"empty", "protect", "ext", "data"}
                              /\ disks[d].mbr[i].lba \in Nat /\ disks[d].mbr[i].cnt \in Nat
         /\ Len(disks[d].gpt) \in Nat
         /\ \A i \in 1 .. Len(disks[d].gpt) :
              disks[d].gpt[i].first \in Nat /\ disks[d].gpt[i].last \in Nat
         /\ \A s \in DOMAIN disks[d].ebrs :
              disks[d].ebrs[s] \in [rel : Nat, cnt : Nat, next : Nat]
<1>1. disks[d] \in {disks[1], disks[2]} \ {NoDisk}
  OBVIOUS
<1> QED
  BY <1>1, PartAssumption

\* part_add takes only what is sound.
LEMMA AddSound ==
  ASSUME PartInv, drive \in 1 .. 2, disks[drive] # NoDisk, disks' = disks,
         NEW start \in Nat, NEW sectors \in Nat, NEW table \in {"gpt", "mbr"},
         table = Verdict(drive), part_add(start, sectors, table)
  PROVE  FoundInv'
<1> DEFINE ps == parts[drive]
           e  == [start |-> start, sectors |-> sectors, table |-> table]
<1>f. \A k \in 1 .. Len(ps) : Sound(drive, ps[k])
  BY DEF PartInv, FoundInv
<1>0. parts \in [1 .. 2 -> Seq(Partition)] /\ ps \in Seq(Partition)
  BY DEF PartInv, FoundInv
<1>1. CASE parts' = parts
  <2>1. \A d, p : Sound(d, p) => Sound(d, p)'
    BY SMTT(20) DEF Sound, Verdict
  <2> QED
    BY <1>1, <2>1 DEF PartInv, FoundInv
<1>2. CASE parts' # parts
  <2>1. /\ Len(ps) < MaxPerDrive /\ Range_ok(start, sectors)
        /\ parts' = [parts EXCEPT ![drive] = Append(ps, e)]
    BY <1>2 DEF part_add
  <2>2. e \in Partition /\ Sound(drive, e)
    BY <2>1 DEF Partition, Sound, Range_ok, disk
  <2> HIDE DEF e
  <2>3. /\ Append(ps, e) \in Seq(Partition) /\ Len(Append(ps, e)) = Len(ps) + 1
        /\ \A k \in 1 .. Len(ps) : Append(ps, e)[k] = ps[k]
        /\ Append(ps, e)[Len(ps) + 1] = e
    <3> HIDE DEF ps
    <3> QED
      BY <1>0, <2>2, AppendProperties
  <2>4. /\ parts' \in [1 .. 2 -> Seq(Partition)]
        /\ parts'[drive] = Append(ps, e)
        /\ \A d \in 1 .. 2 : d # drive => parts'[d] = parts[d]
    BY <1>0, <2>1, <2>3
  <2>5. ASSUME NEW d \in 1 .. 2
        PROVE  Len(parts'[d]) <= MaxPerDrive
               /\ \A k \in 1 .. Len(parts'[d]) : Sound(d, parts'[d][k])
    <3>1. CASE d # drive
      BY <2>4, <3>1 DEF PartInv, FoundInv
    <3>2. CASE d = drive
      <4>1. Len(ps) \in Nat /\ MaxPerDrive \in Nat
        BY <1>0, PartAssumption
      <4>2. Len(parts'[d]) = Len(ps) + 1 /\ Len(parts'[d]) <= MaxPerDrive
        BY <2>1, <2>3, <2>4, <3>2, <4>1
      <4>3. ASSUME NEW k \in 1 .. Len(ps) + 1 PROVE Sound(d, parts'[d][k])
        <5>1. CASE k = Len(ps) + 1
          BY <2>2, <2>3, <2>4, <3>2, <5>1
        <5>2. CASE k # Len(ps) + 1
          <6>1. k \in 1 .. Len(ps)
            BY <4>1, <5>2
          <6>3. parts'[d][k] = ps[k]
            BY <2>3, <2>4, <3>2, <6>1
          <6>2. Sound(d, ps[k])
            BY <1>f, <3>2, <6>1
          <6> QED
            BY <6>2, <6>3
        <5> QED
          BY <5>1, <5>2
      <4> QED
        BY <4>2, <4>3
    <3> QED
      BY <3>1, <3>2
  <2> QED
    BY <2>4, <2>5 DEF FoundInv, Sound, Verdict
<1> QED
  BY <1>1, <1>2

\* Where a search may go on.
LEMMA PlaceEdits ==
  ASSUME NEW a \in Place
  PROVE  /\ \A l \in Stage : [a EXCEPT !.in = l] \in Place
         /\ \A i \in Nat \ {0} : [a EXCEPT !.i = i] \in Place
         /\ \A l \in Stage, i \in Nat \ {0} : [a EXCEPT !.in = l, !.i = i] \in Place
         /\ \A l \in Stage, x \in Nat :
              [a EXCEPT !.in = l, !.base = x, !.ebr = x, !.guard = 0] \in Place
         /\ \A x \in Nat, y \in Nat : [a EXCEPT !.ebr = x, !.guard = y] \in Place
<1> DEFINE N == Nat
           P == Nat \ {0}
<1>1. Place = [in : Stage, i : P, base : N, ebr : N, guard : N] /\ 0 \in N
  BY DEF Place
<1> HIDE DEF N, P
<1>2. /\ \A l \in Stage : [a EXCEPT !.in = l] \in Place
      /\ \A i \in P : [a EXCEPT !.i = i] \in Place
      /\ \A l \in Stage, i \in P : [a EXCEPT !.in = l, !.i = i] \in Place
      /\ \A l \in Stage, x \in N :
           [a EXCEPT !.in = l, !.base = x, !.ebr = x, !.guard = 0] \in Place
      /\ \A x \in N, y \in N : [a EXCEPT !.ebr = x, !.guard = y] \in Place
  BY <1>1
<1> QED
  BY <1>2 DEF N, P

\* Before the search nothing is found.
LEMMA PartStart == PartInit => PartInv
<1> SUFFICES ASSUME PartInit PROVE PartInv
  OBVIOUS
<1>1. /\ <<>> \in Seq(Partition) /\ Len(<<>>) = 0 /\ MaxPerDrive \in Nat
  BY PartAssumption
<1>2. FoundInv
  BY <1>1 DEF PartInit, FoundInv
<1>3. PlaceInv
  BY DEF PartInit, PlaceInv, Place, Stage, NowhereYet
<1> QED
  BY <1>2, <1>3 DEF PartInv

\* What a step finds when it adds nothing.
LEMMA SameParts == ASSUME PartInv, UNCHANGED <<disks, parts>> PROVE FoundInv'
BY DEF PartInv, FoundInv, Sound, Verdict

\* Every entry of every table.
LEMMA PartStep == PartInv /\ [PartNext]_partVars => PartInv'
<1> SUFFICES ASSUME PartInv, [PartNext]_partVars PROVE PartInv'
  OBVIOUS
<1>0. disks \in Disks /\ drive \in 1 .. 3 /\ at \in Place /\ PlaceInv
  BY DEF PartInv, PlaceInv
<1>1. CASE UNCHANGED partVars
  BY <1>1 DEF partVars, PartInv, FoundInv, PlaceInv, Sound, Verdict
<1>2. CASE part_scan_drive
  <2>1. drive \in 1 .. 2 /\ UNCHANGED <<disks, drive, parts>>
    BY <1>0, <1>2 DEF part_scan_drive
  <2>2. gpt_verdict = Verdict(drive) /\ Verdict(drive) \in {"gpt", "mbr", "done"}
    BY DEF gpt_verdict, Verdict, Readable, has_protective, disk
  <2> DEFINE v == IF disk = NoDisk \/ ~Readable(0) \/ ~disk.sig THEN "done" ELSE gpt_verdict
  <2>3. /\ at' = [at EXCEPT !.in = v] /\ v \in {"gpt", "mbr", "done"}
        /\ v # "done" => v = Verdict(drive) /\ disks[drive] # NoDisk
    BY <1>2, <2>2 DEF part_scan_drive, disk
  <2> HIDE DEF v
  <2>4. at' \in Place /\ at'.in = v
    BY <1>0, <2>3 DEF Place, Stage
  <2>5. Verdict(drive)' = Verdict(drive)
    BY <2>1 DEF Verdict
  <2>6. PlaceInv'
    BY <1>0, <2>1, <2>3, <2>4, <2>5 DEF PlaceInv
  <2> QED
    BY <2>1, <2>6, SameParts DEF PartInv
<1>3. CASE part_register
  <2>1. drive' = drive + 1 /\ drive \in 1 .. 2 /\ at' = NowhereYet /\ UNCHANGED <<disks, parts>>
    BY <1>0, <1>3 DEF part_register
  <2>2. PlaceInv'
    BY <1>0, <2>1 DEF PlaceInv, Place, Stage, NowhereYet
  <2> QED
    BY <2>1, <2>2, SameParts DEF PartInv
<1>4. ASSUME UNCHANGED <<disks, drive>>, drive \in 1 .. 2, disks[drive] # NoDisk,
             at' \in Place,
             at'.in \in {"gpt", "mbr", "ext"} =>
               Verdict(drive) = IF at'.in = "gpt" THEN "gpt" ELSE "mbr"
      PROVE  PlaceInv'
  <2>1. Verdict(drive)' = Verdict(drive)
    BY <1>4 DEF Verdict
  <2> QED
    BY <1>0, <1>4, <2>1 DEF PlaceInv
<1>5. CASE part_scan_gpt
  <2>1. /\ UNCHANGED <<disks, drive>> /\ drive \in 1 .. 2 /\ disks[drive] # NoDisk
        /\ Verdict(drive) = "gpt" /\ at.in = "gpt"
    BY <1>0, <1>5 DEF part_scan_gpt, PlaceInv
  <2>2. /\ at' = [at EXCEPT !.in = "done"] \/ at' = [at EXCEPT !.i = at.i + 1]
    BY <1>5 DEF part_scan_gpt
  <2>3. at' \in Place /\ at'.in \in {"done", "gpt"}
    BY <1>0, <2>1, <2>2 DEF Place, Stage
  <2>4. PlaceInv'
    BY <1>4, <2>1, <2>3
  <2>5. FoundInv'
    <3>1. CASE parts' = parts
      BY <2>1, <3>1, SameParts
    <3>2. CASE parts' # parts
      <4> DEFINE e == disks[drive].gpt[at.i]
      <4>1. /\ ~(at.i > Len(disks[drive].gpt)) /\ ~(e.last < e.first)
            /\ part_add(e.first, e.last - e.first + 1, "gpt")
        BY <1>5, <3>2, SMTT(20) DEF part_scan_gpt, disk
      <4>2. at.i \in 1 .. Len(disks[drive].gpt)
        BY <1>0, <2>1, <4>1, TableTyped DEF Place
      <4>3. e.first \in Nat /\ e.last \in Nat
        BY <1>0, <2>1, <4>2, TableTyped
      <4> HIDE DEF e
      <4>4. e.last - e.first + 1 \in Nat
        BY <4>1, <4>3
      <4> QED
        BY <2>1, <4>1, <4>3, <4>4, AddSound
    <3> QED
      BY <3>1, <3>2
  <2> QED
    BY <2>4, <2>5 DEF PartInv
<1>6. CASE part_scan_mbr
  <2>1. /\ UNCHANGED <<disks, drive>> /\ drive \in 1 .. 2 /\ disks[drive] # NoDisk
        /\ Verdict(drive) = "mbr" /\ at.in = "mbr" /\ at.i \in Nat \ {0}
    BY <1>0, <1>6 DEF part_scan_mbr, PlaceInv, Place
  <2> DEFINE e == disks[drive].mbr[at.i]
  <2>3. ASSUME at.i <= 4 PROVE e.lba \in Nat /\ e.cnt \in Nat
    <3>1. at.i \in 1 .. 4
      BY <2>1, <2>3
    <3> QED
      BY <1>0, <2>1, <3>1, TableTyped
  <2>4. \/ at' = [at EXCEPT !.in = "done"] /\ parts' = parts
        \/ at' = [at EXCEPT !.i = at.i + 1] /\ parts' = parts
        \/ /\ e.lba \in Nat /\ parts' = parts
           /\ at' = [at EXCEPT !.in = "ext", !.base = e.lba, !.ebr = e.lba, !.guard = 0]
        \/ /\ e.lba \in Nat /\ e.cnt \in Nat
           /\ at' = [at EXCEPT !.i = at.i + 1] /\ part_add(e.lba, e.cnt, "mbr")
    BY <1>6, <2>3 DEF part_scan_mbr, disk
  <2> HIDE DEF e
  <2>5. at' \in Place /\ at'.in \in {"done", "mbr", "ext"}
    <3> DEFINE j == at.i + 1
               l == e.lba
    <3>1. j \in Nat \ {0} /\ "done" \in Stage /\ "ext" \in Stage
      BY <2>1 DEF Stage
    <3>2. \/ at' = [at EXCEPT !.in = "done"]
          \/ at' = [at EXCEPT !.i = j]
          \/ l \in Nat /\ at' = [at EXCEPT !.in = "ext", !.base = l, !.ebr = l, !.guard = 0]
      BY <2>4
    <3> HIDE DEF j, l
    <3>3. at' \in Place
      <4>1. /\ [at EXCEPT !.in = "done"] \in Place /\ [at EXCEPT !.i = j] \in Place
            /\ l \in Nat => [at EXCEPT !.in = "ext", !.base = l, !.ebr = l, !.guard = 0] \in Place
        BY <1>0, <3>1, PlaceEdits, Zenon
      <4> QED
        BY <3>2, <4>1
    <3>4. at'.in \in {"done", "mbr", "ext"}
      BY <1>0, <2>1, <3>2 DEF Place
    <3> QED
      BY <3>3, <3>4
  <2>6. PlaceInv'
    BY <1>4, <2>1, <2>5
  <2>7. FoundInv'
    BY <2>1, <2>4, SameParts, AddSound
  <2> QED
    BY <2>6, <2>7 DEF PartInv
<1>7. CASE part_scan_ext
  <2>1. /\ UNCHANGED <<disks, drive>> /\ drive \in 1 .. 2 /\ disks[drive] # NoDisk
        /\ Verdict(drive) = "mbr" /\ at.in = "ext"
    BY <1>0, <1>7 DEF part_scan_ext, PlaceInv
  <2> DEFINE r == disks[drive].ebrs[at.ebr]
             back == [at EXCEPT !.in = "mbr", !.i = at.i + 1]
             on == [at EXCEPT !.ebr = at.base + r.next, !.guard = at.guard + 1]
  <2>2. \/ at' = back /\ parts' = parts
        \/ /\ at.ebr \in DOMAIN disks[drive].ebrs
           /\ parts' = parts \/ part_add(at.ebr + r.rel, r.cnt, "mbr")
           /\ at' = back \/ at' = on
    BY <1>7 DEF part_scan_ext, disk, Links
  <2>3. at.ebr \in DOMAIN disks[drive].ebrs => r \in [rel : Nat, cnt : Nat, next : Nat]
    BY <1>0, <2>1, TableTyped
  <2> HIDE DEF r
  <2>4. at.ebr \in DOMAIN disks[drive].ebrs =>
          /\ at.base + r.next \in Nat /\ at.ebr + r.rel \in Nat /\ r.cnt \in Nat
    BY <1>0, <2>3 DEF Place
  <2>5. back \in Place /\ back.in = "mbr"
    <3> DEFINE j == at.i + 1
    <3>1. j \in Nat \ {0} /\ "mbr" \in Stage
      BY <1>0 DEF Place, Stage
    <3>2. back = [at EXCEPT !.in = "mbr", !.i = j]
      OBVIOUS
    <3> HIDE DEF j, back
    <3>3. back \in Place
      BY <1>0, <3>1, <3>2, PlaceEdits, Zenon
    <3>4. back.in = "mbr"
      BY <1>0, <3>2 DEF Place
    <3> QED
      BY <3>3, <3>4
  <2>6. ASSUME at.ebr \in DOMAIN disks[drive].ebrs PROVE on \in Place /\ on.in = "ext"
    <3> DEFINE x == at.base + r.next
               y == at.guard + 1
    <3>1. x \in Nat /\ y \in Nat
      BY <1>0, <2>4, <2>6 DEF Place
    <3>2. on = [at EXCEPT !.ebr = x, !.guard = y]
      OBVIOUS
    <3> HIDE DEF x, y, on
    <3>3. on \in Place
      BY <1>0, <3>1, <3>2, PlaceEdits, Zenon
    <3>4. on.in = "ext"
      BY <1>0, <2>1, <3>2 DEF Place
    <3> QED
      BY <3>3, <3>4
  <2> HIDE DEF back, on
  <2>7. PlaceInv'
    <3>1. at' \in Place /\ at'.in \in {"mbr", "ext"}
      BY <2>2, <2>5, <2>6
    <3> QED
      BY <1>4, <2>1, <3>1
  <2>8. FoundInv'
    <3>1. CASE parts' = parts
      BY <2>1, <3>1, SameParts
    <3>2. CASE parts' # parts
      <4>1. at.ebr \in DOMAIN disks[drive].ebrs /\ part_add(at.ebr + r.rel, r.cnt, "mbr")
        BY <2>2, <3>2
      <4> DEFINE x == at.ebr + r.rel
      <4>2. x \in Nat /\ r.cnt \in Nat /\ part_add(x, r.cnt, "mbr")
        BY <2>4, <4>1
      <4> HIDE DEF x
      <4> QED
        BY <2>1, <4>2, AddSound
    <3> QED
      BY <3>1, <3>2
  <2> QED
    BY <2>7, <2>8 DEF PartInv
<1> QED
  BY <1>1, <1>2, <1>3, <1>5, <1>6, <1>7 DEF PartNext

\* For every pair of disks, whatever is written in their tables: the partitions
\* found lie inside their disk and not over its table, are no more than there are
\* devices for, and all of a drive come from the one table that counts there.
THEOREM PartsCorrect == Spec => []PartsSound
<1>1. PartInv => PartsSound
  <2> SUFFICES ASSUME PartInv, NEW d \in 1 .. 2, NEW i \in 1 .. Len(parts[d])
               PROVE  LET p == parts[d][i]
                      IN  /\ p.start # 0 /\ p.sectors # 0
                          /\ \A s \in p.start .. p.start + p.sectors - 1 : s < disks[d].sectors
                          /\ p.table = parts[d][1].table
                          /\ p.table = "mbr" =>
                               \/ disks[d].hdr # "good" \/ disks[d].array = "out_of_range"
                               \/ 1 \in disks[d].unreadable \/ disks[d].sectors = 1
                          /\ p.table = "gpt" => disks[d].hdr = "good" /\ disks[d].array = "good"
    BY DEF PartInv, FoundInv, PartsSound
  <2> DEFINE p == parts[d][i]
             n == disks[d].sectors
  <2>1. parts[d] \in Seq(Partition) /\ 1 \in 1 .. Len(parts[d])
    BY DEF PartInv, FoundInv
  <2>2. Sound(d, p) /\ Sound(d, parts[d][1]) /\ p \in Partition
    BY <2>1 DEF PartInv, FoundInv
  <2>3. n \in Nat
    BY <2>2, TableTyped DEF PartInv, PlaceInv, Sound
  <2>4. /\ p.start \in Nat /\ p.sectors \in Nat /\ p.start # 0 /\ p.sectors # 0
        /\ p.start + p.sectors <= n /\ p.table = Verdict(d)
    BY <2>2 DEF Sound, Partition
  <2>5. p.table = parts[d][1].table
    BY <2>2 DEF Sound
  <2> HIDE DEF p, n
  <2>6. \A s \in p.start .. p.start + p.sectors - 1 : s < n
    BY <2>3, <2>4
  <2>7. 1 < n
    BY <2>3, <2>4
  <2>8. p.table = "mbr" => \/ disks[d].hdr # "good" \/ disks[d].array = "out_of_range"
                           \/ 1 \in disks[d].unreadable
    BY <2>4, <2>7 DEF Verdict, n
  <2>9. p.table = "gpt" => disks[d].hdr = "good" /\ disks[d].array = "good"
    BY <2>4, <2>7 DEF Verdict, n
  <2> QED
    BY <2>4, <2>5, <2>6, <2>8, <2>9 DEF p, n
<1>2. Init => PartInv
  BY PartStart DEF Init
<1>3. [Next]_bootVars => [PartNext]_partVars
  BY DEF Next, bootVars, UefiMain, kernel_main, vmm, init_partitions, make_mounts, user_enter_init
<1> QED
  BY <1>1, <1>2, <1>3, PartStep, PTL DEF Spec

-----------------------------------------------------------------------------
(* The mounts.                                                             *)

\* The words of a call: those of the configuration and the kernel's own.
Word == STRING \cup {"fat32", "ext4", "ramfs", "devfs", "/", "/dev", "/fat", "/ext4", ""}

MountRec == [fs : Word, mp : Word, dev : Word]

\* Call m is one for mount point mp that can succeed.
Able(m, V, mp) == m.mp = mp /\ Mountable(m, V)

\* Call m is the first of P that can take mount point mp, the devices being V; none can.
Serves(P, V, mp, m) ==
  \E i \in 1 .. Len(P) : P[i] = m /\ Able(m, V, mp) /\ \A j \in 1 .. i - 1 : ~Able(P[j], V, mp)
Barren(P, V, mp) == \A i \in 1 .. Len(P) : ~Able(P[i], V, mp)

LEMMA ServesFirst ==
  ASSUME NEW V, NEW mp, NEW m, NEW P \in Seq(MountRec), NEW Q \in Seq(MountRec), Serves(P, V, mp, m)
  PROVE  Serves(P \o Q, V, mp, m)
<1> DEFINE R == P \o Q
<1>1. /\ Len(R) = Len(P) + Len(Q) /\ Len(P) \in Nat /\ Len(Q) \in Nat
      /\ \A i \in 1 .. Len(P) : i \in 1 .. Len(R) /\ R[i] = P[i]
  BY ConcatProperties
<1>2. PICK i \in 1 .. Len(P) : P[i] = m /\ Able(m, V, mp) /\ \A j \in 1 .. i - 1 : ~Able(P[j], V, mp)
  BY DEF Serves
<1>3. \A j \in 1 .. i - 1 : j \in 1 .. Len(P)
  BY <1>1
<1> HIDE DEF R
<1>4. i \in 1 .. Len(R) /\ R[i] = m /\ \A j \in 1 .. i - 1 : ~Able(R[j], V, mp)
  BY <1>1, <1>2, <1>3
<1> QED
  BY <1>2, <1>4 DEF Serves, R

LEMMA ServesLater ==
  ASSUME NEW V, NEW mp, NEW m, NEW P \in Seq(MountRec), NEW Q \in Seq(MountRec), Barren(P, V, mp),
         Serves(Q, V, mp, m)
  PROVE  Serves(P \o Q, V, mp, m)
<1> DEFINE R == P \o Q
           n == Len(P)
<1>1. /\ Len(R) = n + Len(Q) /\ n \in Nat /\ Len(Q) \in Nat
      /\ \A i \in 1 .. n + Len(Q) : R[i] = IF i <= n THEN P[i] ELSE Q[i - n]
  BY ConcatProperties
<1>2. PICK i \in 1 .. Len(Q) : Q[i] = m /\ Able(m, V, mp) /\ \A j \in 1 .. i - 1 : ~Able(Q[j], V, mp)
  BY DEF Serves
<1>3. \A j \in 1 .. n : ~Able(P[j], V, mp)
  BY DEF Barren
<1> HIDE DEF R, n
<1>4. n + i \in 1 .. Len(R) /\ R[n + i] = m
  <2>1. n + i \in 1 .. n + Len(Q) /\ ~(n + i <= n) /\ (n + i) - n = i
    BY <1>1
  <2> QED
    BY <1>1, <1>2, <2>1
<1>5. ASSUME NEW j \in 1 .. (n + i) - 1 PROVE ~Able(R[j], V, mp)
  <2>0. j \in 1 .. n + Len(Q) /\ (j <= n => j \in 1 .. n) /\ (~(j <= n) => j - n \in 1 .. i - 1)
    BY <1>1
  <2>1. CASE j <= n
    BY <1>1, <1>3, <2>0, <2>1
  <2>2. CASE ~(j <= n)
    BY <1>1, <1>2, <2>0, <2>2
  <2> QED
    BY <2>1, <2>2
<1> QED
  BY <1>2, <1>4, <1>5 DEF Serves, R

LEMMA BarrenBoth ==
  ASSUME NEW V, NEW mp, NEW P \in Seq(MountRec), NEW Q \in Seq(MountRec), Barren(P, V, mp), Barren(Q, V, mp)
  PROVE  Barren(P \o Q, V, mp)
<1> DEFINE R == P \o Q
           n == Len(P)
<1>1. /\ Len(R) = n + Len(Q) /\ n \in Nat /\ Len(Q) \in Nat
      /\ \A i \in 1 .. n + Len(Q) : R[i] = IF i <= n THEN P[i] ELSE Q[i - n]
  BY ConcatProperties
<1>2. (\A j \in 1 .. n : ~Able(P[j], V, mp)) /\ \A j \in 1 .. Len(Q) : ~Able(Q[j], V, mp)
  BY DEF Barren
<1> HIDE DEF R, n
<1>3. ASSUME NEW j \in 1 .. Len(R) PROVE ~Able(R[j], V, mp)
  <2>0. j \in 1 .. n + Len(Q) /\ (j <= n => j \in 1 .. n) /\ (~(j <= n) => j - n \in 1 .. Len(Q))
    BY <1>1
  <2>1. CASE j <= n
    BY <1>1, <1>2, <2>0, <2>1
  <2>2. CASE ~(j <= n)
    BY <1>1, <1>2, <2>0, <2>2
  <2> QED
    BY <2>1, <2>2
<1> QED
  BY <1>3 DEF Barren, R

\* The first call is done with.
LEMMA TailOf ==
  ASSUME NEW P \in Seq(MountRec), P # <<>>
  PROVE  /\ Len(P) \in Nat \ {0} /\ P[1] \in MountRec /\ Head(P) = P[1]
         /\ Tail(P) \in Seq(MountRec) /\ Len(Tail(P)) = Len(P) - 1
         /\ \A i \in 1 .. Len(P) - 1 : Tail(P)[i] = P[i + 1]
BY HeadTailProperties, ElementOfSeq, EmptySeq

LEMMA ServesTail ==
  ASSUME NEW V, NEW mp, NEW m, NEW P \in Seq(MountRec), P # <<>>, Serves(P, V, mp, m)
  PROVE  IF Able(P[1], V, mp) THEN m = P[1] ELSE Serves(Tail(P), V, mp, m)
<1> DEFINE T == Tail(P)
<1>1. Len(P) \in Nat \ {0} /\ Len(T) = Len(P) - 1 /\ \A i \in 1 .. Len(P) - 1 : T[i] = P[i + 1]
  BY TailOf
<1>2. PICK i \in 1 .. Len(P) : P[i] = m /\ Able(m, V, mp) /\ \A j \in 1 .. i - 1 : ~Able(P[j], V, mp)
  BY DEF Serves
<1>3. CASE i = 1
  BY <1>2, <1>3
<1>4. CASE i # 1
  <2>1. 1 \in 1 .. i - 1 /\ i - 1 \in 1 .. Len(P) - 1 /\ (i - 1) + 1 = i
    BY <1>1, <1>4
  <2>2. \A j \in 1 .. (i - 1) - 1 : j \in 1 .. Len(P) - 1 /\ j + 1 \in 1 .. i - 1
    BY <1>1
  <2> HIDE DEF T
  <2>3. T[i - 1] = m /\ \A j \in 1 .. (i - 1) - 1 : ~Able(T[j], V, mp)
    BY <1>1, <1>2, <2>1, <2>2
  <2>4. Serves(T, V, mp, m)
    BY <1>1, <1>2, <2>1, <2>3 DEF Serves
  <2> QED
    BY <1>2, <2>1, <2>4 DEF T
<1> QED
  BY <1>3, <1>4

LEMMA BarrenTail ==
  ASSUME NEW V, NEW mp, NEW P \in Seq(MountRec), P # <<>>, Barren(P, V, mp)
  PROVE  ~Able(P[1], V, mp) /\ Barren(Tail(P), V, mp)
<1>1. /\ Len(P) \in Nat \ {0} /\ Len(Tail(P)) = Len(P) - 1
      /\ \A i \in 1 .. Len(P) - 1 : Tail(P)[i] = P[i + 1]
  BY TailOf
<1>2. 1 \in 1 .. Len(P) /\ \A i \in 1 .. Len(P) - 1 : i + 1 \in 1 .. Len(P)
  BY <1>1
<1> QED
  BY <1>1, <1>2 DEF Barren

\* The mounts M hold call m; they take mount point mp.
Has(M, m) == \E k \in 1 .. Len(M) : M[k] = m
Takes(M, mp) == \E k \in 1 .. Len(M) : M[k].mp = mp

\* Of the calls P, all for mount points in W, those in T are left and the others have
\* made the mounts M: a mount point that some call can take is taken by the first one or
\* is still to be, one that no call can take is free.
Underway(P, V, W, M, T) ==
  /\ M \in Seq(MountRec) /\ T \in Seq(MountRec)
  /\ \A k, l \in 1 .. Len(M) : M[k].mp = M[l].mp => k = l
  /\ \A mp \in Word, m \in MountRec :
       Serves(P, V, mp, m) => Has(M, m) \/ (~Takes(M, mp) /\ Serves(T, V, mp, m))
  /\ \A mp \in Word : Barren(P, V, mp) => ~Takes(M, mp) /\ Barren(T, V, mp)
  /\ \A k \in 1 .. Len(M) : M[k].mp \in W
  /\ \A k \in 1 .. Len(T) : T[k].mp \in W

\* Nothing is mounted yet.
LEMMA UnderwayStart ==
  ASSUME NEW V, NEW W, NEW P \in Seq(MountRec), \A k \in 1 .. Len(P) : P[k].mp \in W
  PROVE  Underway(P, V, W, <<>>, P)
<1>1. <<>> \in Seq(MountRec) /\ Len(<<>>) = 0
  OBVIOUS
<1>2. \A k \in 1 .. Len(<<>>) : FALSE
  BY <1>1
<1>3. \A mp : ~Takes(<<>>, mp)
  BY <1>2 DEF Takes
<1> QED
  BY <1>1, <1>2, <1>3, Zenon DEF Underway

LEMMA UpToSize == ASSUME NEW n \in Nat PROVE IsFiniteSet(1 .. n) /\ Cardinality(1 .. n) = n
<1>1. IsFiniteSet(1 .. n) /\ Cardinality(1 .. n) = IF 1 > n THEN 0 ELSE n - 1 + 1
  BY FS_Interval
<1> QED
  BY <1>1

\* There is a slot for a mount point that is not taken.
LEMMA Room ==
  ASSUME NEW P, NEW V, NEW W, NEW M, NEW T, Underway(P, V, W, M, T), T # <<>>, ~Takes(M, T[1].mp),
         IsFiniteSet(W), NEW N \in Nat, Cardinality(W) <= N
  PROVE  Len(M) < N
<1> DEFINE x == T[1].mp
           n == Len(M)
           f == [k \in 1 .. n |-> M[k].mp]
           U == W \ {x}
<1>1. /\ M \in Seq(MountRec) /\ T \in Seq(MountRec) /\ n \in Nat
      /\ \A k, l \in 1 .. n : M[k].mp = M[l].mp => k = l
      /\ \A k \in 1 .. n : M[k].mp \in W
      /\ \A k \in 1 .. Len(T) : T[k].mp \in W
  BY DEF Underway
<1>2. x \in W
  <2>1. 1 \in 1 .. Len(T)
    BY <1>1, TailOf
  <2> QED
    BY <1>1, <2>1
<1>3. \A k \in 1 .. n : M[k].mp # x
  BY DEF Takes
<1>4. f \in Injection(1 .. n, U)
  <2> HIDE DEF x, n
  <2> QED
    BY <1>1, <1>3 DEF Injection, IsInjective
<1>5. IsFiniteSet(U) /\ Cardinality(U) = Cardinality(W) - 1
  BY <1>2, FS_RemoveElement
<1>6. Cardinality(1 .. n) = n
  BY <1>1, UpToSize
<1> HIDE DEF f, U, n
<1>7. Cardinality(1 .. n) <= Cardinality(U)
  BY <1>4, <1>5, FS_Injection
<1>8. Cardinality(W) \in Nat
  BY FS_CardinalityType
<1> QED
  BY <1>1, <1>5, <1>6, <1>7, <1>8 DEF n

\* A call that fails.
LEMMA CallFails ==
  ASSUME NEW P, NEW V, NEW W, NEW M, NEW T, Underway(P, V, W, M, T), T # <<>>,
         Takes(M, T[1].mp) \/ ~Mountable(T[1], V)
  PROVE  Underway(P, V, W, M, Tail(T))
<1>1. M \in Seq(MountRec) /\ T \in Seq(MountRec)
  BY DEF Underway
<1>2. /\ Tail(T) \in Seq(MountRec) /\ Len(T) \in Nat \ {0} /\ Len(Tail(T)) = Len(T) - 1
      /\ \A i \in 1 .. Len(T) - 1 : Tail(T)[i] = T[i + 1]
  BY <1>1, TailOf
<1>3. ASSUME NEW mp \in Word, NEW m \in MountRec, Serves(P, V, mp, m)
      PROVE  Has(M, m) \/ (~Takes(M, mp) /\ Serves(Tail(T), V, mp, m))
  <2> SUFFICES ASSUME ~Has(M, m) PROVE ~Takes(M, mp) /\ Serves(Tail(T), V, mp, m)
    OBVIOUS
  <2>1. ~Takes(M, mp) /\ Serves(T, V, mp, m)
    BY <1>3 DEF Underway
  <2>2. ~Able(T[1], V, mp)
    BY <2>1 DEF Able
  <2> QED
    BY <1>1, <2>1, <2>2, ServesTail
<1>4. ASSUME NEW mp \in Word, Barren(P, V, mp) PROVE ~Takes(M, mp) /\ Barren(Tail(T), V, mp)
  <2>1. ~Takes(M, mp) /\ Barren(T, V, mp)
    BY <1>4 DEF Underway
  <2> QED
    BY <1>1, <2>1, BarrenTail
<1>5. \A k \in 1 .. Len(Tail(T)) : Tail(T)[k].mp \in W
  <2>1. \A k \in 1 .. Len(T) - 1 : k + 1 \in 1 .. Len(T)
    BY <1>2
  <2> QED
    BY <1>2, <2>1 DEF Underway
<1> QED
  BY <1>1, <1>2, <1>3, <1>4, <1>5 DEF Underway

\* A call that succeeds.
LEMMA CallSucceeds ==
  ASSUME NEW P, NEW V, NEW W, NEW M, NEW T, Underway(P, V, W, M, T), T # <<>>,
         ~Takes(M, T[1].mp), Mountable(T[1], V)
  PROVE  Underway(P, V, W, Append(M, T[1]), Tail(T))
<1> DEFINE h == T[1]
           n == Len(M)
           L == Append(M, h)
<1>1. M \in Seq(MountRec) /\ T \in Seq(MountRec) /\ n \in Nat
  BY DEF Underway
<1>2. /\ Tail(T) \in Seq(MountRec) /\ Len(T) \in Nat \ {0} /\ Len(Tail(T)) = Len(T) - 1
      /\ \A i \in 1 .. Len(T) - 1 : Tail(T)[i] = T[i + 1]
      /\ h \in MountRec
  BY <1>1, TailOf
<1>3. /\ L \in Seq(MountRec) /\ Len(L) = n + 1
      /\ \A k \in 1 .. n : L[k] = M[k]
      /\ L[n + 1] = h
  BY <1>1, <1>2, AppendProperties
<1>4. \A k \in 1 .. n + 1 : k = n + 1 \/ k \in 1 .. n
  BY <1>1
<1>5. n + 1 \in 1 .. n + 1 /\ \A k \in 1 .. n : k \in 1 .. n + 1
  BY <1>1
<1>6. \A k \in 1 .. n : M[k].mp # h.mp
  BY DEF Takes
<1>7. h.mp \in W /\ \A k \in 1 .. Len(Tail(T)) : Tail(T)[k].mp \in W
  <2>1. 1 \in 1 .. Len(T) /\ \A k \in 1 .. Len(T) - 1 : k + 1 \in 1 .. Len(T)
    BY <1>2
  <2> QED
    BY <1>2, <2>1 DEF Underway
<1> HIDE DEF h, n, L
<1>8. \A k, l \in 1 .. Len(L) : L[k].mp = L[l].mp => k = l
  <2>1. \A k, l \in 1 .. n : M[k].mp = M[l].mp => k = l
    BY DEF Underway, n
  <2> QED
    BY <1>3, <1>4, <1>6, <2>1
<1>9. \A k \in 1 .. Len(L) : L[k].mp \in W
  <2>1. \A k \in 1 .. n : M[k].mp \in W
    BY DEF Underway, n
  <2> QED
    BY <1>3, <1>4, <1>7, <2>1
<1>10. Has(L, h) /\ \A m : Has(M, m) => Has(L, m)
  BY <1>3, <1>5 DEF Has, n
<1>11. \A mp : Takes(L, mp) => Takes(M, mp) \/ mp = h.mp
  BY <1>3, <1>4 DEF Takes, n
<1>12. ASSUME NEW mp \in Word, NEW m \in MountRec, Serves(P, V, mp, m)
       PROVE  Has(L, m) \/ (~Takes(L, mp) /\ Serves(Tail(T), V, mp, m))
  <2> SUFFICES ASSUME ~Has(L, m) PROVE ~Takes(L, mp) /\ Serves(Tail(T), V, mp, m)
    OBVIOUS
  <2>1. ~Takes(M, mp) /\ Serves(T, V, mp, m)
    BY <1>10, <1>12 DEF Underway
  <2>2. m # h
    BY <1>10
  <2>3. ~Able(h, V, mp) /\ Serves(Tail(T), V, mp, m)
    BY <1>1, <2>1, <2>2, ServesTail DEF h
  <2>4. mp # h.mp
    BY <2>3 DEF Able, h
  <2> QED
    BY <1>11, <2>1, <2>3, <2>4
<1>13. ASSUME NEW mp \in Word, Barren(P, V, mp) PROVE ~Takes(L, mp) /\ Barren(Tail(T), V, mp)
  <2>1. ~Takes(M, mp) /\ Barren(T, V, mp)
    BY <1>13 DEF Underway
  <2>2. ~Able(h, V, mp) /\ Barren(Tail(T), V, mp)
    BY <1>1, <2>1, BarrenTail DEF h
  <2>3. mp # h.mp
    BY <2>2 DEF Able, h
  <2> QED
    BY <1>11, <2>1, <2>2, <2>3
<1>14. Underway(P, V, W, L, Tail(T))
  BY <1>2, <1>3, <1>7, <1>8, <1>9, <1>12, <1>13 DEF Underway
<1> QED
  BY <1>14 DEF L, h

\* No call is left.
LEMMA UnderwayEnd ==
  ASSUME NEW P, NEW V, NEW W, NEW M, Underway(P, V, W, M, <<>>)
  PROVE  /\ \A mp \in Word, m \in MountRec : Serves(P, V, mp, m) => Has(M, m)
         /\ \A mp \in Word : Barren(P, V, mp) => ~Takes(M, mp)
         /\ \A k, l \in 1 .. Len(M) : M[k].mp = M[l].mp => k = l
<1>1. \A mp, m : ~Serves(<<>>, V, mp, m)
  <2>1. \A i \in 1 .. Len(<<>>) : FALSE
    OBVIOUS
  <2> QED
    BY <2>1, Zenon DEF Serves
<1> QED
  BY <1>1, Zenon DEF Underway

-----------------------------------------------------------------------------
(* The calls init_mounts makes.                                            *)

\* The call that honours line m.
Resolved(m, V) == IF m.fs = "auto" THEN Mount(V[m.dev], m.mp, m.dev) ELSE m

LEMMA MountIs ==
  ASSUME NEW fs \in Word, NEW mp \in Word, NEW dev \in Word
  PROVE  /\ Mount(fs, mp, dev) \in MountRec
         /\ Mount(fs, mp, dev).fs = fs /\ Mount(fs, mp, dev).mp = mp /\ Mount(fs, mp, dev).dev = dev
BY DEF Mount, MountRec

\* One call.
LEMMA OneCall ==
  ASSUME NEW V, NEW m \in MountRec
  PROVE  /\ <<m>> \in Seq(MountRec) /\ Len(<<m>>) = 1 /\ <<m>>[1] = m
         /\ \A mp : Able(m, V, mp) => Serves(<<m>>, V, mp, m)
         /\ \A mp : ~Able(m, V, mp) => Barren(<<m>>, V, mp)
<1>1. <<m>> \in Seq(MountRec) /\ Len(<<m>>) = 1 /\ <<m>>[1] = m
  OBVIOUS
<1>2. 1 \in 1 .. 1 /\ (\A j \in 1 .. 1 - 1 : FALSE) /\ \A i \in 1 .. 1 : i = 1
  OBVIOUS
<1> DEFINE s == <<m>>
<1> HIDE DEF s
<1>3. Len(s) = 1 /\ s[1] = m
  BY <1>1 DEF s
<1>4. \A mp : Able(m, V, mp) => Serves(s, V, mp, m)
  BY <1>2, <1>3, Zenon DEF Serves
<1>5. \A mp : ~Able(m, V, mp) => Barren(s, V, mp)
  BY <1>2, <1>3, Zenon DEF Barren
<1> QED
  BY <1>1, <1>4, <1>5, Zenon DEF s

\* The two calls of a probe.
LEMMA ProbeServes ==
  ASSUME NEW V, NEW p \in Word, NEW dev \in Word
  PROVE  /\ mount_dev_probe(p, dev) \in Seq(MountRec)
         /\ \A k \in 1 .. Len(mount_dev_probe(p, dev)) : mount_dev_probe(p, dev)[k].mp = p
         /\ \A mp : mp # p => Barren(mount_dev_probe(p, dev), V, mp)
         /\ IF dev \in DOMAIN V /\ V[dev] \in {"fat32", "ext4"}
            THEN Mount(V[dev], p, dev) \in MountRec /\ Serves(mount_dev_probe(p, dev), V, p, Mount(V[dev], p, dev))
            ELSE \A mp : Barren(mount_dev_probe(p, dev), V, mp)
<1> DEFINE f == Mount("fat32", p, dev)
           e == Mount("ext4", p, dev)
           s == mount_dev_probe(p, dev)
<1>0. "fat32" \in Word /\ "ext4" \in Word
  BY DEF Word
<1>1. /\ f \in MountRec /\ f.fs = "fat32" /\ f.mp = p /\ f.dev = dev
      /\ e \in MountRec /\ e.fs = "ext4" /\ e.mp = p /\ e.dev = dev
  <2>1. f \in MountRec /\ f.fs = "fat32" /\ f.mp = p /\ f.dev = dev
    BY <1>0, MountIs
  <2>2. e \in MountRec /\ e.fs = "ext4" /\ e.mp = p /\ e.dev = dev
    BY <1>0, MountIs
  <2> QED
    BY <2>1, <2>2
<1>2. s = <<f, e>>
  BY DEF mount_dev_probe
<1> HIDE DEF f, e
<1>3. s \in Seq(MountRec) /\ Len(s) = 2 /\ s[1] = f /\ s[2] = e
  BY <1>1, <1>2
<1> HIDE DEF s
<1>4. \A k \in 1 .. 2 : k = 1 \/ k = 2
  OBVIOUS
<1>5. \A k \in 1 .. Len(s) : s[k].mp = p
  BY <1>1, <1>3, <1>4
<1>6. \A mp : mp # p => Barren(s, V, mp)
  BY <1>5, Zenon DEF Barren, Able
<1>7. (Able(f, V, p) <=> dev \in DOMAIN V /\ V[dev] = "fat32") /\ (Able(e, V, p) <=> dev \in DOMAIN V /\ V[dev] = "ext4")
  BY <1>1 DEF Able, Mountable
<1>8. CASE dev \in DOMAIN V /\ V[dev] = "fat32"
  <2>1. 1 \in 1 .. Len(s) /\ \A j \in 1 .. 1 - 1 : FALSE
    BY <1>3
  <2>2. Serves(s, V, p, f)
    BY <1>3, <1>7, <1>8, <2>1, Zenon DEF Serves
  <2>3. Mount(V[dev], p, dev) = f /\ dev \in DOMAIN V /\ V[dev] \in {"fat32", "ext4"}
    BY <1>8 DEF f
  <2> QED
    BY <1>1, <1>3, <1>5, <1>6, <2>2, <2>3 DEF s
<1>9. CASE dev \in DOMAIN V /\ V[dev] = "ext4"
  <2>1. 2 \in 1 .. Len(s) /\ \A j \in 1 .. 2 - 1 : j = 1
    BY <1>3
  <2>2. ~Able(f, V, p) /\ Able(e, V, p)
    BY <1>7, <1>9
  <2>3. Serves(s, V, p, e)
    BY <1>3, <2>1, <2>2, Zenon DEF Serves
  <2>4. Mount(V[dev], p, dev) = e /\ dev \in DOMAIN V /\ V[dev] \in {"fat32", "ext4"}
    BY <1>9 DEF e
  <2> QED
    BY <1>1, <1>3, <1>5, <1>6, <2>3, <2>4 DEF s
<1>10. CASE ~(dev \in DOMAIN V /\ V[dev] \in {"fat32", "ext4"})
  <2>1. ~Able(f, V, p) /\ ~Able(e, V, p)
    BY <1>7, <1>10
  <2>2. Barren(s, V, p)
    BY <1>3, <1>4, <2>1 DEF Barren
  <2> QED
    BY <1>3, <1>5, <1>6, <1>10, <2>2 DEF s
<1> QED
  BY <1>8, <1>9, <1>10

\* The calls for a line.
LEMMA LineServes ==
  ASSUME NEW V, NEW m \in MountRec
  PROVE  /\ mount_line(m) \in Seq(MountRec)
         /\ \A k \in 1 .. Len(mount_line(m)) : mount_line(m)[k].mp = m.mp
         /\ \A mp : mp # m.mp => Barren(mount_line(m), V, mp)
         /\ IF Asked(m, V)
            THEN Resolved(m, V) \in MountRec /\ Serves(mount_line(m), V, m.mp, Resolved(m, V))
            ELSE \A mp : Barren(mount_line(m), V, mp)
<1>0. m.fs \in Word /\ m.mp \in Word /\ m.dev \in Word
  BY DEF MountRec
<1>1. CASE m.fs = "auto"
  <2>1. mount_line(m) = mount_dev_probe(m.mp, m.dev)
    BY <1>1 DEF mount_line
  <2>2. Resolved(m, V) = Mount(V[m.dev], m.mp, m.dev)
    BY <1>1 DEF Resolved
  <2>3. Asked(m, V) <=> m.dev \in DOMAIN V /\ V[m.dev] \in {"fat32", "ext4"}
    BY <1>1 DEF Asked
  <2> DEFINE a == m.mp
             d == m.dev
             s == mount_dev_probe(a, d)
             r == Mount(V[d], a, d)
  <2> HIDE DEF a, d
  <2>a. a \in Word /\ d \in Word
    BY <1>0 DEF a, d
  <2>4. /\ s \in Seq(MountRec) /\ \A k \in 1 .. Len(s) : s[k].mp = a
        /\ \A mp : mp # a => Barren(s, V, mp)
        /\ IF d \in DOMAIN V /\ V[d] \in {"fat32", "ext4"}
           THEN r \in MountRec /\ Serves(s, V, a, r) ELSE \A mp : Barren(s, V, mp)
    BY <2>a, ProbeServes
  <2> HIDE DEF s, r
  <2>5. mount_line(m) = s /\ Resolved(m, V) = r /\ m.mp = a
        /\ (Asked(m, V) <=> d \in DOMAIN V /\ V[d] \in {"fat32", "ext4"})
    BY <2>1, <2>2, <2>3 DEF s, r, a, d
  <2> QED
    BY <2>4, <2>5
<1>2. CASE m.fs # "auto"
  <2>1. mount_line(m) = <<m>> /\ Resolved(m, V) = m /\ (Asked(m, V) <=> Mountable(m, V))
    BY <1>2 DEF mount_line, Resolved, Asked
  <2>2. (Able(m, V, m.mp) <=> Mountable(m, V)) /\ (\A mp : mp # m.mp => ~Able(m, V, mp))
        /\ (~Mountable(m, V) => \A mp : ~Able(m, V, mp))
    BY DEF Able
  <2>3. \A k \in 1 .. 1 : k = 1
    OBVIOUS
  <2>4. /\ <<m>> \in Seq(MountRec) /\ Len(<<m>>) = 1 /\ <<m>>[1] = m
        /\ \A mp : Able(m, V, mp) => Serves(<<m>>, V, mp, m)
        /\ \A mp : ~Able(m, V, mp) => Barren(<<m>>, V, mp)
    BY OneCall
  <2> DEFINE s == <<m>>
  <2> HIDE DEF s
  <2>5. /\ s \in Seq(MountRec) /\ Len(s) = 1 /\ s[1] = m /\ mount_line(m) = s
        /\ \A mp : Able(m, V, mp) => Serves(s, V, mp, m)
        /\ \A mp : ~Able(m, V, mp) => Barren(s, V, mp)
    BY <2>1, <2>4, Zenon DEF s
  <2>6. \A k \in 1 .. Len(s) : s[k].mp = m.mp
    BY <2>3, <2>5
  <2>7. \A mp : mp # m.mp => Barren(s, V, mp)
    BY <2>2, <2>5, Zenon
  <2>8. IF Mountable(m, V) THEN Serves(s, V, m.mp, m) ELSE \A mp : Barren(s, V, mp)
    BY <2>2, <2>5, Zenon
  <2> QED
    BY <2>1, <2>5, <2>6, <2>7, <2>8
<1> QED
  BY <1>1, <1>2

-----------------------------------------------------------------------------
(* The lines of the configuration.                                         *)

\* What the parser leaves.
BootOK ==
  /\ boot \in [present : BOOLEAN, root : Word, init : Word, mounts : Seq(MountRec)]
  /\ Len(boot.mounts) <= MaxMountLines
  /\ ~boot.present => boot.mounts = <<>>

LEMMA BootFields ==
  ASSUME BootOK
  PROVE  /\ boot.root \in Word /\ boot.mounts \in Seq(MountRec) /\ Len(boot.mounts) \in Nat
         /\ \A i \in 1 .. Len(boot.mounts) : boot.mounts[i] \in MountRec /\ boot.mounts[i].mp \in Word
                                             /\ boot.mounts[i].dev \in Word
<1>1. boot.root \in Word /\ boot.mounts \in Seq(MountRec)
  BY DEF BootOK
<1>2. \A i \in 1 .. Len(boot.mounts) : boot.mounts[i] \in MountRec
  BY <1>1, ElementOfSeq
<1>3. \A m \in MountRec : m.mp \in Word /\ m.dev \in Word
  BY DEF MountRec
<1> QED
  BY <1>1, <1>2, <1>3

\* The calls for line i, unless it is for /.
LineCalls(i) == IF boot.mounts[i].mp = "/" THEN <<>> ELSE mount_line(boot.mounts[i])

LEMMA LineCallsAre ==
  ASSUME BootOK, NEW V, NEW i \in 1 .. Len(boot.mounts)
  PROVE  /\ LineCalls(i) \in Seq(MountRec)
         /\ \A k \in 1 .. Len(LineCalls(i)) : LineCalls(i)[k].mp = boot.mounts[i].mp /\ LineCalls(i)[k].mp # "/"
         /\ \A mp : mp # boot.mounts[i].mp \/ ~Asked(boot.mounts[i], V) => Barren(LineCalls(i), V, mp)
<1> DEFINE m == boot.mounts[i]
<1>1. m \in MountRec
  BY BootFields
<1>2. CASE m.mp = "/"
  <2>1. LineCalls(i) = <<>>
    BY <1>2 DEF LineCalls
  <2>2. <<>> \in Seq(MountRec) /\ \A k \in 1 .. Len(<<>>) : FALSE
    OBVIOUS
  <2>3. \A mp : Barren(<<>>, V, mp)
    BY <2>2, Zenon DEF Barren
  <2> QED
    BY <2>1, <2>2, <2>3, Zenon
<1>3. CASE m.mp # "/"
  <2>1. LineCalls(i) = mount_line(m)
    BY <1>3 DEF LineCalls
  <2> HIDE DEF m
  <2> QED
    BY <1>1, <1>3, <2>1, LineServes DEF m
<1> QED
  BY <1>2, <1>3

\* The calls after each line.
LEMMA LinesRounds ==
  ASSUME BootOK
  PROVE  /\ lines_loop[0] = <<>>
         /\ \A i \in 0 .. Len(boot.mounts) : lines_loop[i] \in Seq(MountRec)
         /\ \A i \in 1 .. Len(boot.mounts) : lines_loop[i] = lines_loop[i - 1] \o LineCalls(i)
<1> DEFINE A == Seq(MountRec)
           n == Len(boot.mounts)
           b == <<>>
           F == [i \in 1 .. n |-> [a \in A |-> a \o LineCalls(i)]]
           Loop(f) == [i \in 0 .. n |-> IF i = 0 THEN b ELSE f[i - 1] \o LineCalls(i)]
           L == lines_loop
<1>1. n \in Nat /\ b \in A
  BY BootFields
<1>2. \A a \in A, i \in 1 .. n : a \o LineCalls(i) \in A
  BY LineCallsAre, ConcatProperties
<1>3. F \in Rounds(A, n)
  BY <1>2 DEF Rounds
<1>4. \A a \in A, i \in 1 .. n : F[i][a] = a \o LineCalls(i)
  OBVIOUS
<1>5. L = CHOOSE f : f = Loop(f)
  BY DEF lines_loop, LineCalls
<1> HIDE DEF A, F, b, n, L
<1>a. \A i \in 0 .. n : i # 0 => i \in 1 .. n
  BY <1>1
<1>6. PICK f \in [0 .. n -> A] : f[0] = b /\ \A i \in 1 .. n : f[i] = F[i][f[i - 1]]
  <2>1. Runs(A, n, F, b)
    BY <1>1, <1>3, LoopRuns
  <2> QED
    BY <2>1 DEF Runs
<1>7. \A i \in 1 .. n : f[i] = f[i - 1] \o LineCalls(i)
  <2> SUFFICES ASSUME NEW i \in 1 .. n PROVE f[i] = f[i - 1] \o LineCalls(i)
    OBVIOUS
  <2>1. f[i - 1] \in A
    BY <1>1
  <2> QED
    BY <1>4, <1>6, <2>1
<1>8. f = Loop(f)
  <2>1. ASSUME NEW i \in 0 .. n PROVE f[i] = Loop(f)[i]
    <3>1. CASE i = 0
      BY <1>6, <3>1
    <3>2. CASE i # 0
      <4>1. i \in 1 .. n
        BY <1>a, <3>2, SMTT(30)
      <4> QED
        BY <1>7, <3>2, <4>1
    <3> QED
      BY <3>1, <3>2
  <2> QED
    BY <2>1
<1>9. L = Loop(L)
  BY <1>5, <1>8
<1>10. L[0] = b /\ \A i \in 1 .. n : L[i] = L[i - 1] \o LineCalls(i)
  <2>1. 0 \in 0 .. n /\ \A i \in 1 .. n : i \in 0 .. n /\ i # 0
    BY <1>1
  <2>2. \A i \in 0 .. n : L[i] = IF i = 0 THEN b ELSE L[i - 1] \o LineCalls(i)
    BY <1>9
  <2> QED
    BY <2>1, <2>2
<1>11. \A i \in 0 .. n : L[i] \in A
  <2> DEFINE G == {i \in Nat : L[i] \in A}
  <2>1. 0 \in G
    BY <1>1, <1>10
  <2>2. \A i \in 1 .. n : i - 1 \in G => i \in G
    <3> SUFFICES ASSUME NEW i \in 1 .. n, L[i - 1] \in A PROVE L[i] \in A
      BY <1>1
    <3>1. L[i] = L[i - 1] \o LineCalls(i)
      BY <1>10
    <3> QED
      BY <1>2, <3>1
  <2> HIDE DEF G
  <2>3. n \in Nat
    BY <1>1
  <2>4. \A i \in 0 .. n : i \in G
    BY <2>1, <2>2, <2>3, UpTo, Zenon
  <2> QED
    BY <1>1, <2>4 DEF G
<1> QED
  BY <1>10, <1>11 DEF A, n, b, L

\* The mount points of the lines.
LinePoints == {boot.mounts[i].mp : i \in 1 .. Len(boot.mounts)}

\* The calls after each line are for the mount points of the lines, and not for /.
LEMMA LinesPoints ==
  ASSUME BootOK, NEW i \in 0 .. Len(boot.mounts)
  PROVE  \A k \in 1 .. Len(lines_loop[i]) : lines_loop[i][k].mp \in LinePoints \ {"/"}
<1> DEFINE n == Len(boot.mounts)
           K == lines_loop
           G == {j \in Nat : \A k \in 1 .. Len(K[j]) : K[j][k].mp \in LinePoints \ {"/"}}
<1>0. n \in Nat
  BY BootFields
<1>1. /\ K[0] = <<>> /\ \A j \in 0 .. n : K[j] \in Seq(MountRec)
      /\ \A j \in 1 .. n : K[j] = K[j - 1] \o LineCalls(j)
  BY LinesRounds
<1> HIDE DEF K
<1>2. 0 \in G
  <2>1. \A k \in 1 .. Len(<<>>) : FALSE
    OBVIOUS
  <2> QED
    BY <1>1, <2>1
<1>3. ASSUME NEW j \in 1 .. n, j - 1 \in G PROVE j \in G
  <2> DEFINE P == K[j - 1]
             Q == LineCalls(j)
             a == Len(P)
  <2>1. j \in Nat /\ P \in Seq(MountRec) /\ K[j] = P \o Q
    <3>1. j \in Nat /\ j - 1 \in 0 .. n
      BY <1>0
    <3> QED
      BY <1>1, <3>1
  <2>2. Q \in Seq(MountRec) /\ \A k \in 1 .. Len(Q) : Q[k].mp = boot.mounts[j].mp /\ Q[k].mp # "/"
    BY LineCallsAre
  <2>3. \A k \in 1 .. a : P[k].mp \in LinePoints \ {"/"}
    BY <1>3
  <2>4. \A k \in 1 .. Len(Q) : Q[k].mp \in LinePoints \ {"/"}
    BY <2>2 DEF LinePoints
  <2> HIDE DEF P, Q
  <2>5. /\ Len(K[j]) = a + Len(Q) /\ a \in Nat /\ Len(Q) \in Nat
        /\ \A k \in 1 .. a + Len(Q) : K[j][k] = IF k <= a THEN P[k] ELSE Q[k - a]
    BY <2>1, <2>2, ConcatProperties
  <2>6. ASSUME NEW k \in 1 .. Len(K[j]) PROVE K[j][k].mp \in LinePoints \ {"/"}
    <3>0. k \in 1 .. a + Len(Q) /\ (k <= a => k \in 1 .. a) /\ (~(k <= a) => k - a \in 1 .. Len(Q))
      BY <2>5
    <3>1. CASE k <= a
      BY <2>3, <2>5, <3>0, <3>1
    <3>2. CASE ~(k <= a)
      BY <2>4, <2>5, <3>0, <3>2
    <3> QED
      BY <3>1, <3>2
  <2> QED
    BY <2>1, <2>6
<1>4. i \in G
  <2> HIDE DEF G, n
  <2>1. n \in Nat /\ \A j \in 1 .. n : j - 1 \in G => j \in G
    BY <1>0, <1>3
  <2>2. \A j \in 0 .. n : j \in G
    BY <1>2, <2>1, UpTo, Zenon
  <2> QED
    BY <2>2 DEF n
<1> QED
  BY <1>4 DEF K

\* Line q can be honoured, and none before it takes its mount point.
Due(q, V) ==
  /\ boot.mounts[q].mp \notin {"/", "/dev"} /\ Asked(boot.mounts[q], V)
  /\ ~\E j \in 1 .. q - 1 : boot.mounts[j].mp = boot.mounts[q].mp /\ Asked(boot.mounts[j], V)

\* Its call is then the first one for that mount point.
LEMMA LineDue ==
  ASSUME BootOK, NEW V, NEW q \in 1 .. Len(boot.mounts), Due(q, V)
  PROVE  Serves(lines_loop[Len(boot.mounts)], V, boot.mounts[q].mp, Resolved(boot.mounts[q], V))
<1> DEFINE n == Len(boot.mounts)
           K == lines_loop
           mp == boot.mounts[q].mp
           m == Resolved(boot.mounts[q], V)
           G == {j \in Nat : IF j < q THEN Barren(K[j], V, mp) ELSE Serves(K[j], V, mp, m)}
<1>0. n \in Nat /\ q \in Nat \ {0} /\ q <= n
  BY BootFields
<1>1. /\ K[0] = <<>> /\ \A j \in 0 .. n : K[j] \in Seq(MountRec)
      /\ \A j \in 1 .. n : K[j] = K[j - 1] \o LineCalls(j)
  BY LinesRounds
<1>a. Serves(LineCalls(q), V, mp, m)
  <2>1. boot.mounts[q] \in MountRec /\ Asked(boot.mounts[q], V) /\ LineCalls(q) = mount_line(boot.mounts[q])
    BY BootFields DEF Due, LineCalls
  <2> QED
    BY <2>1, LineServes
<1>b. \A j \in 1 .. n : LineCalls(j) \in Seq(MountRec) /\ (j < q => Barren(LineCalls(j), V, mp))
  <2> SUFFICES ASSUME NEW j \in 1 .. n PROVE LineCalls(j) \in Seq(MountRec) /\ (j < q => Barren(LineCalls(j), V, mp))
    OBVIOUS
  <2>1. j < q => j \in 1 .. q - 1
    BY <1>0
  <2>2. j < q => mp # boot.mounts[j].mp \/ ~Asked(boot.mounts[j], V)
    BY <2>1 DEF Due
  <2> QED
    BY <2>2, LineCallsAre
<1> HIDE DEF K, mp, m
<1>2. 0 \in G
  <2>1. \A k \in 1 .. Len(<<>>) : FALSE
    OBVIOUS
  <2>2. Barren(<<>>, V, mp)
    BY <2>1, Zenon DEF Barren
  <2> QED
    BY <1>0, <1>1, <2>2
<1>3. ASSUME NEW j \in 1 .. n, j - 1 \in G PROVE j \in G
  <2>1. j \in Nat /\ K[j - 1] \in Seq(MountRec) /\ K[j] = K[j - 1] \o LineCalls(j) /\ LineCalls(j) \in Seq(MountRec)
    <3>1. j \in Nat /\ j - 1 \in 0 .. n
      BY <1>0
    <3> QED
      BY <1>1, <1>b, <3>1
  <2>2. IF j - 1 < q THEN Barren(K[j - 1], V, mp) ELSE Serves(K[j - 1], V, mp, m)
    BY <1>3
  <2>3. CASE j < q
    <3>1. j - 1 < q
      BY <1>0, <2>1, <2>3
    <3>2. Barren(K[j], V, mp)
      BY <1>b, <2>1, <2>2, <2>3, <3>1, BarrenBoth
    <3> QED
      BY <2>1, <2>3, <3>2
  <2>4. CASE j = q
    <3>1. j - 1 < q /\ ~(j < q)
      BY <1>0, <2>1, <2>4
    <3>2. Serves(K[j], V, mp, m)
      BY <1>a, <2>1, <2>2, <2>4, <3>1, ServesLater
    <3> QED
      BY <2>1, <3>1, <3>2
  <2>5. CASE j > q
    <3>1. ~(j - 1 < q) /\ ~(j < q)
      BY <1>0, <2>1, <2>5
    <3>2. Serves(K[j], V, mp, m)
      BY <2>1, <2>2, <3>1, ServesFirst
    <3> QED
      BY <2>1, <3>1, <3>2
  <2>6. j < q \/ j = q \/ j > q
    BY <1>0, <2>1
  <2> QED
    BY <2>3, <2>4, <2>5, <2>6
<1>4. n \in G
  <2> HIDE DEF G, n
  <2>1. n \in Nat /\ \A j \in 1 .. n : j - 1 \in G => j \in G
    BY <1>0, <1>3
  <2>2. \A j \in 0 .. n : j \in G
    BY <1>2, <2>1, UpTo, Zenon
  <2> QED
    BY <1>0, <2>2
<1>5. Serves(K[n], V, mp, m)
  <2>1. ~(n < q)
    BY <1>0
  <2> QED
    BY <1>4, <2>1
<1> QED
  BY <1>5 DEF K, mp, m

\* All calls of P are for mount points in W.
Within(P, W) == \A k \in 1 .. Len(P) : P[k].mp \in W

LEMMA WithinBoth ==
  ASSUME NEW W, NEW P \in Seq(MountRec), NEW Q \in Seq(MountRec), Within(P, W), Within(Q, W)
  PROVE  P \o Q \in Seq(MountRec) /\ Within(P \o Q, W)
<1> DEFINE R == P \o Q
           n == Len(P)
<1>1. /\ R \in Seq(MountRec) /\ Len(R) = n + Len(Q) /\ n \in Nat /\ Len(Q) \in Nat
      /\ \A i \in 1 .. n + Len(Q) : R[i] = IF i <= n THEN P[i] ELSE Q[i - n]
  BY ConcatProperties
<1>2. (\A j \in 1 .. n : P[j].mp \in W) /\ \A j \in 1 .. Len(Q) : Q[j].mp \in W
  BY DEF Within
<1> HIDE DEF R, n
<1>3. ASSUME NEW j \in 1 .. Len(R) PROVE R[j].mp \in W
  <2>0. j \in 1 .. n + Len(Q) /\ (j <= n => j \in 1 .. n) /\ (~(j <= n) => j - n \in 1 .. Len(Q))
    BY <1>1
  <2>1. CASE j <= n
    BY <1>1, <1>2, <2>0, <2>1
  <2>2. CASE ~(j <= n)
    BY <1>1, <1>2, <2>0, <2>2
  <2> QED
    BY <2>1, <2>2
<1> QED
  BY <1>1, <1>3 DEF Within, R

LEMMA WithinMore ==
  ASSUME NEW P, NEW U, NEW W, Within(P, U), U \subseteq W PROVE Within(P, W)
BY DEF Within

LEMMA ElsewhereBarren ==
  ASSUME NEW P, NEW V, NEW W, Within(P, W), NEW mp, mp \notin W PROVE Barren(P, V, mp)
BY DEF Within, Barren, Able

\* A sequence without calls.
LEMMA NoCalls ==
  /\ <<>> \in Seq(MountRec)
  /\ \A W : Within(<<>>, W)
  /\ \A V, mp : Barren(<<>>, V, mp)
<1>1. \A k \in 1 .. Len(<<>>) : FALSE
  OBVIOUS
<1>2. <<>> \in Seq(MountRec)
  OBVIOUS
<1>3. \A W : Within(<<>>, W)
  BY <1>1, Zenon DEF Within
<1>4. \A V, mp : Barren(<<>>, V, mp)
  BY <1>1, Zenon DEF Barren
<1> QED
  BY <1>2, <1>3, <1>4

\* The call for mount point p with a driver that needs no device.
LEMMA SureCall ==
  ASSUME NEW V, NEW fs \in {"ramfs", "devfs"}, NEW p \in Word, NEW dev \in Word
  PROVE  /\ Mount(fs, p, dev) \in MountRec /\ <<Mount(fs, p, dev)>> \in Seq(MountRec)
         /\ Within(<<Mount(fs, p, dev)>>, {p})
         /\ Serves(<<Mount(fs, p, dev)>>, V, p, Mount(fs, p, dev))
         /\ Mount(fs, p, dev).fs = fs /\ Mount(fs, p, dev).mp = p /\ Mount(fs, p, dev).dev = dev
<1> DEFINE m == Mount(fs, p, dev)
<1>0. fs \in Word
  BY DEF Word
<1>1. m \in MountRec /\ m.fs = fs /\ m.mp = p /\ m.dev = dev
  BY <1>0, MountIs
<1>2. Able(m, V, p)
  BY <1>1 DEF Able, Mountable
<1> HIDE DEF m
<1>3. /\ <<m>> \in Seq(MountRec) /\ Len(<<m>>) = 1 /\ <<m>>[1] = m
      /\ \A mp : Able(m, V, mp) => Serves(<<m>>, V, mp, m)
  BY <1>1, OneCall
<1>4. Serves(<<m>>, V, p, m)
  BY <1>2, <1>3, Zenon
<1>5. Within(<<m>>, {p})
  <2>1. \A k \in 1 .. 1 : k = 1
    OBVIOUS
  <2> DEFINE s == <<m>>
  <2>2. Len(s) = 1 /\ s[1] = m
    BY <1>3
  <2> HIDE DEF s
  <2>3. Within(s, {p})
    BY <1>1, <2>1, <2>2 DEF Within
  <2> QED
    BY <2>3 DEF s
<1> QED
  BY <1>1, <1>3, <1>4, <1>5 DEF m

\* The call for / that needs no disk.
LEMMA RamCall ==
  ASSUME NEW V
  PROVE  LET r == Mount("ramfs", "/", "ramfs")
         IN  r \in MountRec /\ r.dev = "ramfs" /\ <<r>> \in Seq(MountRec) /\ Within(<<r>>, {"/"})
             /\ Serves(<<r>>, V, "/", r)
<1> DEFINE x == "ramfs"
           y == "/"
<1>1. x \in {"ramfs", "devfs"} /\ x \in Word /\ y \in Word
  BY DEF Word
<1> HIDE DEF x, y
<1>2. /\ Mount(x, y, x) \in MountRec /\ <<Mount(x, y, x)>> \in Seq(MountRec)
      /\ Within(<<Mount(x, y, x)>>, {y})
      /\ Serves(<<Mount(x, y, x)>>, V, y, Mount(x, y, x)) /\ Mount(x, y, x).dev = x
  BY <1>1, SureCall
<1> QED
  BY <1>2 DEF x, y

\* The first line for /.
LEMMA RootLineIs ==
  ASSUME BootOK, RootLines # {}
  PROVE  RootLine \in MountRec /\ RootLine.mp = "/"
<1> DEFINE c == CHOOSE i \in RootLines : \A j \in RootLines : i <= j
<1>1. RootLines \subseteq Nat
  BY BootFields DEF RootLines
<1>2. \E i \in RootLines : \A j \in RootLines : i <= j
  BY <1>1, LeastNatural
<1>3. c \in RootLines
  BY <1>2
<1>4. RootLine = boot.mounts[c]
  BY DEF RootLine
<1> HIDE DEF c
<1>5. c \in 1 .. Len(boot.mounts) /\ boot.mounts[c].mp = "/"
  BY <1>3 DEF RootLines
<1> QED
  BY <1>4, <1>5, BootFields

\* The line for / can be honoured.
LineWorks(V) == RootLines # {} /\ Asked(RootLine, V)
KeyWorks(V) == boot.root \in DOMAIN V /\ V[boot.root] \in {"fat32", "ext4"}

LEMMA FromLineIs ==
  ASSUME BootOK, NEW V
  PROVE  /\ FromLine \in Seq(MountRec) /\ Within(FromLine, {"/"})
         /\ IF LineWorks(V) THEN \E m \in MountRec : m.dev = RootLine.dev /\ Serves(FromLine, V, "/", m)
            ELSE Barren(FromLine, V, "/")
<1>1. CASE RootLines = {}
  <2>1. FromLine = <<>> /\ ~LineWorks(V)
    BY <1>1 DEF FromLine, LineWorks
  <2> QED
    BY <2>1, NoCalls, Zenon
<1>2. CASE RootLines # {}
  <2> DEFINE l == RootLine
             s == mount_line(l)
             m == Resolved(l, V)
  <2>1. FromLine = s /\ (LineWorks(V) <=> Asked(l, V))
    BY <1>2 DEF FromLine, LineWorks
  <2>2. l \in MountRec /\ l.mp = "/"
    BY <1>2, RootLineIs
  <2> HIDE DEF l
  <2>3. /\ s \in Seq(MountRec) /\ \A k \in 1 .. Len(s) : s[k].mp = "/"
        /\ IF Asked(l, V) THEN m \in MountRec /\ Serves(s, V, "/", m) ELSE \A mp : Barren(s, V, mp)
    BY <2>2, LineServes
  <2>4. Asked(l, V) => m.dev = l.dev
    <3>1. CASE l.fs = "auto"
      BY <3>1 DEF Resolved, Mount
    <3>2. CASE l.fs # "auto"
      BY <3>2 DEF Resolved
    <3> QED
      BY <3>1, <3>2
  <2> HIDE DEF s, m
  <2>5. Within(s, {"/"})
    BY <2>3 DEF Within
  <2> QED
    BY <2>1, <2>3, <2>4, <2>5 DEF l
<1> QED
  BY <1>1, <1>2

LEMMA FromKeyIs ==
  ASSUME BootOK, NEW V, NoRoot \notin DOMAIN V
  PROVE  /\ FromKey \in Seq(MountRec) /\ Within(FromKey, {"/"})
         /\ IF KeyWorks(V) THEN \E m \in MountRec : m.dev = boot.root /\ Serves(FromKey, V, "/", m)
            ELSE Barren(FromKey, V, "/")
<1>1. CASE boot.root = NoRoot
  <2>1. FromKey = <<>> /\ ~KeyWorks(V)
    BY <1>1 DEF FromKey, KeyWorks
  <2> QED
    BY <2>1, NoCalls, Zenon
<1>2. CASE boot.root # NoRoot
  <2> DEFINE d == boot.root
             s == mount_dev_probe("/", d)
             m == Mount(V[d], "/", d)
  <2>1. FromKey = s /\ (KeyWorks(V) <=> d \in DOMAIN V /\ V[d] \in {"fat32", "ext4"})
    BY <1>2 DEF FromKey, KeyWorks
  <2>2. d \in Word /\ "/" \in Word
    BY BootFields DEF Word
  <2> HIDE DEF d
  <2>3. /\ s \in Seq(MountRec) /\ \A k \in 1 .. Len(s) : s[k].mp = "/"
        /\ IF d \in DOMAIN V /\ V[d] \in {"fat32", "ext4"} THEN m \in MountRec /\ Serves(s, V, "/", m)
           ELSE \A mp : Barren(s, V, mp)
    BY <2>2, ProbeServes
  <2>4. m.dev = d
    BY DEF Mount
  <2> HIDE DEF s, m
  <2>5. Within(s, {"/"})
    BY <2>3 DEF Within
  <2> QED
    BY <2>1, <2>3, <2>4, <2>5 DEF d
<1> QED
  BY <1>1, <1>2

\* Where / comes from.
LEMMA RootServes ==
  ASSUME BootOK, boot.present, NEW V, NoRoot \notin DOMAIN V
  PROVE  /\ mount_root \in Seq(MountRec) /\ Within(mount_root, {"/"})
         /\ \E m \in MountRec : m.dev = RootDevice(V) /\ Serves(mount_root, V, "/", m)
<1> DEFINE A == FromLine
           B == FromKey
           r == Mount("ramfs", "/", "ramfs")
           R == <<r>>
           AB == A \o B
<1>1. mount_root = AB \o R
  BY DEF mount_root
<1>2. /\ A \in Seq(MountRec) /\ Within(A, {"/"})
      /\ IF LineWorks(V) THEN \E m \in MountRec : m.dev = RootLine.dev /\ Serves(A, V, "/", m)
         ELSE Barren(A, V, "/")
  BY FromLineIs
<1>3. /\ B \in Seq(MountRec) /\ Within(B, {"/"})
      /\ IF KeyWorks(V) THEN \E m \in MountRec : m.dev = boot.root /\ Serves(B, V, "/", m)
         ELSE Barren(B, V, "/")
  BY FromKeyIs
<1>4. r \in MountRec /\ r.dev = "ramfs" /\ R \in Seq(MountRec) /\ Within(R, {"/"}) /\ Serves(R, V, "/", r)
  BY RamCall
<1> HIDE DEF A, B, r, R
<1>5. AB \in Seq(MountRec) /\ Within(AB, {"/"})
  BY <1>2, <1>3, WithinBoth
<1>6. AB \o R \in Seq(MountRec) /\ Within(AB \o R, {"/"})
  BY <1>4, <1>5, WithinBoth
<1>7. CASE LineWorks(V)
  <2>1. PICK m \in MountRec : m.dev = RootLine.dev /\ Serves(A, V, "/", m)
    BY <1>2, <1>7
  <2>2. Serves(AB, V, "/", m)
    BY <1>2, <1>3, <2>1, ServesFirst
  <2>3. Serves(AB \o R, V, "/", m)
    BY <1>4, <1>5, <2>2, ServesFirst
  <2>4. RootDevice(V) = RootLine.dev
    BY <1>7 DEF RootDevice, LineWorks
  <2> QED
    BY <1>1, <1>6, <2>1, <2>3, <2>4
<1>8. CASE ~LineWorks(V) /\ KeyWorks(V)
  <2>1. PICK m \in MountRec : m.dev = boot.root /\ Serves(B, V, "/", m)
    BY <1>3, <1>8
  <2>2. Serves(AB, V, "/", m)
    BY <1>2, <1>3, <1>8, <2>1, ServesLater
  <2>3. Serves(AB \o R, V, "/", m)
    BY <1>4, <1>5, <2>2, ServesFirst
  <2>4. RootDevice(V) = boot.root
    BY <1>8 DEF RootDevice, LineWorks, KeyWorks
  <2> QED
    BY <1>1, <1>6, <2>1, <2>3, <2>4
<1>9. CASE ~LineWorks(V) /\ ~KeyWorks(V)
  <2>1. Barren(AB, V, "/")
    BY <1>2, <1>3, <1>9, BarrenBoth
  <2>2. Serves(AB \o R, V, "/", r)
    BY <1>4, <1>5, <2>1, ServesLater
  <2>3. RootDevice(V) = "ramfs"
    BY <1>9 DEF RootDevice, LineWorks, KeyWorks
  <2> QED
    BY <1>1, <1>4, <1>6, <2>2, <2>3
<1> QED
  BY <1>7, <1>8, <1>9

\* The volumes of kind fs among the partitions.
Kin(names, V, fs) == {i \in 1 .. Len(names) : V[names[i]] = fs}

\* One partition after the other.
LEMMA AutoServes ==
  ASSUME NEW V, NEW fs \in {"fat32", "ext4"}, NEW p \in Word, NEW names \in Seq(Word),
         \A i \in 1 .. Len(names) : names[i] \in DOMAIN V
  PROVE  /\ mount_auto(fs, p, names) \in Seq(MountRec)
         /\ Within(mount_auto(fs, p, names), {p})
         /\ Kin(names, V, fs) = {} => Barren(mount_auto(fs, p, names), V, p)
         /\ \A i \in Kin(names, V, fs) : (\A j \in Kin(names, V, fs) : i <= j) =>
              Mount(fs, p, names[i]) \in MountRec /\ Serves(mount_auto(fs, p, names), V, p, Mount(fs, p, names[i]))
<1> DEFINE s == mount_auto(fs, p, names)
           n == Len(names)
<1>0. n \in Nat /\ fs \in Word
  <2>1. n \in Nat
    BY LenProperties
  <2>2. fs \in Word
    BY DEF Word
  <2> QED
    BY <2>1, <2>2
<1>1. \A i \in 1 .. n : names[i] \in Word
  BY ElementOfSeq
<1>2. \A i \in 1 .. n : /\ Mount(fs, p, names[i]) \in MountRec /\ Mount(fs, p, names[i]).fs = fs
                        /\ Mount(fs, p, names[i]).mp = p /\ Mount(fs, p, names[i]).dev = names[i]
  <2> SUFFICES ASSUME NEW i \in 1 .. n
               PROVE  /\ Mount(fs, p, names[i]) \in MountRec /\ Mount(fs, p, names[i]).fs = fs
                      /\ Mount(fs, p, names[i]).mp = p /\ Mount(fs, p, names[i]).dev = names[i]
    OBVIOUS
  <2> DEFINE d == names[i]
  <2>1. d \in Word
    BY <1>1
  <2> HIDE DEF d
  <2>2. /\ Mount(fs, p, d) \in MountRec /\ Mount(fs, p, d).fs = fs
        /\ Mount(fs, p, d).mp = p /\ Mount(fs, p, d).dev = d
    BY <1>0, <2>1, MountIs
  <2> QED
    BY <2>2 DEF d
<1>3. s = [i \in 1 .. n |-> Mount(fs, p, names[i])]
  BY DEF mount_auto
<1> HIDE DEF s, n
<1>4. s \in Seq(MountRec) /\ Len(s) = n /\ \A i \in 1 .. n : s[i] = Mount(fs, p, names[i])
  <2> DEFINE c(i) == Mount(fs, p, names[i])
  <2>0. (\A i \in 1 .. n : c(i) \in MountRec) /\ s = [i \in 1 .. n |-> c(i)]
    BY <1>2, <1>3
  <2> HIDE DEF c
  <2>1. s \in [1 .. n -> MountRec]
    BY <2>0
  <2>2. s \in Seq(MountRec)
    BY <1>0, <2>1
  <2>3. DOMAIN s = 1 .. n
    BY <2>1
  <2>4. Len(s) = n
    BY <1>0, <2>2, <2>3
  <2> QED
    BY <1>3, <2>2, <2>4
<1>5. \A i \in 1 .. n : Able(s[i], V, p) <=> V[names[i]] = fs
  <2> SUFFICES ASSUME NEW i \in 1 .. n PROVE Able(s[i], V, p) <=> V[names[i]] = fs
    OBVIOUS
  <2> DEFINE m == s[i]
  <2>1. m.fs = fs /\ m.mp = p /\ m.dev = names[i] /\ names[i] \in DOMAIN V
    BY <1>2, <1>4 DEF n
  <2> HIDE DEF m
  <2>2. Able(m, V, p) <=> V[names[i]] = fs
    BY <2>1 DEF Able, Mountable
  <2> QED
    BY <2>2 DEF m
<1>6. Within(s, {p})
  BY <1>2, <1>4 DEF Within
<1>7. Kin(names, V, fs) = {} => Barren(s, V, p)
  BY <1>4, <1>5 DEF Kin, Barren, n
<1>8. ASSUME NEW i \in Kin(names, V, fs), \A j \in Kin(names, V, fs) : i <= j
      PROVE  Mount(fs, p, names[i]) \in MountRec /\ Serves(s, V, p, Mount(fs, p, names[i]))
  <2>1. i \in 1 .. n /\ V[names[i]] = fs
    BY DEF Kin, n
  <2>2. ASSUME NEW j \in 1 .. i - 1 PROVE ~Able(s[j], V, p)
    <3>1. j \in 1 .. n /\ ~(i <= j)
      BY <1>0, <2>1
    <3>2. j \notin Kin(names, V, fs)
      BY <1>8, <3>1
    <3> QED
      BY <1>5, <3>1, <3>2 DEF Kin, n
  <2>3. Able(s[i], V, p)
    BY <1>5, <2>1
  <2> DEFINE m == Mount(fs, p, names[i])
  <2>4. s[i] = m /\ m \in MountRec
    BY <1>2, <1>4, <2>1
  <2> HIDE DEF m
  <2>5. Serves(s, V, p, m)
    BY <1>4, <2>1, <2>2, <2>3, <2>4 DEF Serves
  <2> QED
    BY <2>4, <2>5 DEF m
<1> QED
  BY <1>4, <1>6, <1>7, <1>8 DEF s

\* Calls in three parts.
LEMMA InThree ==
  ASSUME NEW V, NEW W, NEW A \in Seq(MountRec), NEW B \in Seq(MountRec), NEW C \in Seq(MountRec),
         Within(A, W), Within(B, W), Within(C, W)
  PROVE  /\ A \o (B \o C) \in Seq(MountRec) /\ Within(A \o (B \o C), W)
         /\ \A mp, m : Serves(A, V, mp, m) => Serves(A \o (B \o C), V, mp, m)
         /\ \A mp, m : Barren(A, V, mp) /\ Serves(B, V, mp, m) => Serves(A \o (B \o C), V, mp, m)
         /\ \A mp, m : Barren(A, V, mp) /\ Barren(B, V, mp) /\ Serves(C, V, mp, m) => Serves(A \o (B \o C), V, mp, m)
         /\ \A mp : Barren(A, V, mp) /\ Barren(B, V, mp) /\ Barren(C, V, mp) => Barren(A \o (B \o C), V, mp)
<1> DEFINE D == B \o C
<1>1. D \in Seq(MountRec) /\ Within(D, W)
  BY WithinBoth
<1>2. \A mp, m : Serves(B, V, mp, m) => Serves(D, V, mp, m)
  BY ServesFirst
<1>3. \A mp, m : Barren(B, V, mp) /\ Serves(C, V, mp, m) => Serves(D, V, mp, m)
  BY ServesLater
<1>4. \A mp : Barren(B, V, mp) /\ Barren(C, V, mp) => Barren(D, V, mp)
  BY BarrenBoth
<1> HIDE DEF D
<1> DEFINE P == A \o D
<1>5. P \in Seq(MountRec) /\ Within(P, W)
  BY <1>1, WithinBoth
<1>6. \A mp, m : Serves(A, V, mp, m) => Serves(P, V, mp, m)
  BY <1>1, ServesFirst
<1>7. \A mp, m : Barren(A, V, mp) /\ Serves(D, V, mp, m) => Serves(P, V, mp, m)
  BY <1>1, ServesLater
<1>8. \A mp : Barren(A, V, mp) /\ Barren(D, V, mp) => Barren(P, V, mp)
  BY <1>1, BarrenBoth
<1> HIDE DEF P
<1>9. /\ P \in Seq(MountRec) /\ Within(P, W)
      /\ \A mp, m : Serves(A, V, mp, m) => Serves(P, V, mp, m)
      /\ \A mp, m : Barren(A, V, mp) /\ Serves(B, V, mp, m) => Serves(P, V, mp, m)
      /\ \A mp, m : Barren(A, V, mp) /\ Barren(B, V, mp) /\ Serves(C, V, mp, m) => Serves(P, V, mp, m)
      /\ \A mp : Barren(A, V, mp) /\ Barren(B, V, mp) /\ Barren(C, V, mp) => Barren(P, V, mp)
  BY <1>2, <1>3, <1>4, <1>5, <1>6, <1>7, <1>8, Zenon
<1> QED
  BY <1>9, Zenon DEF P, D

\* The mount points that there may be.
Where == {"/dev", "/"} \cup (IF boot.present THEN LinePoints ELSE {"/fat", "/ext4"})

\* What without a configuration the calls P do for the volumes of kind fs.
AutoRight(P, V, names, fs, mp) ==
  /\ Kin(names, V, fs) = {} => Barren(P, V, mp)
  /\ \A i \in Kin(names, V, fs) : (\A j \in Kin(names, V, fs) : i <= j) =>
       Mount(fs, mp, names[i]) \in MountRec /\ Serves(P, V, mp, Mount(fs, mp, names[i]))

\* The calls P ask for what the configuration and the volumes V call for.
Planned(P, V, names) ==
  /\ P \in Seq(MountRec) /\ Within(P, Where)
  /\ \E m \in MountRec : m.dev = RootDevice(V) /\ Serves(P, V, "/", m)
  /\ \E m \in MountRec : m.fs = "devfs" /\ Serves(P, V, "/dev", m)
  /\ \A q \in 1 .. Len(boot.mounts) : Due(q, V) =>
       /\ Resolved(boot.mounts[q], V) \in MountRec
       /\ Serves(P, V, boot.mounts[q].mp, Resolved(boot.mounts[q], V))
  /\ ~boot.present => AutoRight(P, V, names, "fat32", "/fat") /\ AutoRight(P, V, names, "ext4", "/ext4")

\* The first call, for /dev.
DevCall == <<Mount("devfs", "/dev", "devfs")>>

LEMMA DevCallIs ==
  ASSUME NEW V
  PROVE  /\ DevCall \in Seq(MountRec) /\ Within(DevCall, {"/dev"})
         /\ \E m \in MountRec : m.fs = "devfs" /\ Serves(DevCall, V, "/dev", m)
<1> DEFINE x == "devfs"
           y == "/dev"
<1>1. x \in {"ramfs", "devfs"} /\ x \in Word /\ y \in Word
  BY DEF Word
<1> HIDE DEF x, y
<1>2. /\ Mount(x, y, x) \in MountRec /\ <<Mount(x, y, x)>> \in Seq(MountRec)
      /\ Within(<<Mount(x, y, x)>>, {y})
      /\ Serves(<<Mount(x, y, x)>>, V, y, Mount(x, y, x)) /\ Mount(x, y, x).fs = x
  BY <1>1, SureCall
<1> DEFINE m == Mount(x, y, x)
<1> HIDE DEF m
<1>3. m \in MountRec /\ <<m>> \in Seq(MountRec) /\ Within(<<m>>, {y}) /\ Serves(<<m>>, V, y, m) /\ m.fs = x
  BY <1>2 DEF m
<1>4. DevCall = <<m>> /\ y = "/dev" /\ x = "devfs"
  BY DEF DevCall, m, x, y
<1> QED
  BY <1>3, <1>4

\* With a configuration.
LEMMA ConfigPlanned ==
  ASSUME BootOK, boot.present, NEW V, NoRoot \notin DOMAIN V, NEW names
  PROVE  Planned(Calls(names), V, names)
<1> DEFINE A == DevCall
           B == mount_root
           C == lines_loop[Len(boot.mounts)]
           P == A \o (B \o C)
<1>1. Calls(names) = P
  BY DEF Calls, DevCall, init_mounts_config
<1>2. /\ A \in Seq(MountRec) /\ Within(A, {"/dev"})
      /\ \E m \in MountRec : m.fs = "devfs" /\ Serves(A, V, "/dev", m)
  BY DevCallIs
<1>3. /\ B \in Seq(MountRec) /\ Within(B, {"/"})
      /\ \E m \in MountRec : m.dev = RootDevice(V) /\ Serves(B, V, "/", m)
  BY RootServes
<1>4. C \in Seq(MountRec) /\ Within(C, LinePoints \ {"/"})
  <2> DEFINE n == Len(boot.mounts)
             K == lines_loop
  <2>1. n \in Nat /\ n \in 0 .. n
    BY BootFields
  <2>2. (\A i \in 0 .. n : K[i] \in Seq(MountRec)) /\ \A i \in 0 .. n : \A k \in 1 .. Len(K[i]) : K[i][k].mp \in LinePoints \ {"/"}
    BY LinesRounds, LinesPoints
  <2> QED
    BY <2>1, <2>2 DEF Within
<1>5. \A q \in 1 .. Len(boot.mounts) : Due(q, V) =>
        /\ Resolved(boot.mounts[q], V) \in MountRec
        /\ Serves(C, V, boot.mounts[q].mp, Resolved(boot.mounts[q], V))
  <2> SUFFICES ASSUME NEW q \in 1 .. Len(boot.mounts), Due(q, V)
               PROVE  /\ Resolved(boot.mounts[q], V) \in MountRec
                      /\ Serves(C, V, boot.mounts[q].mp, Resolved(boot.mounts[q], V))
    OBVIOUS
  <2>1. boot.mounts[q] \in MountRec /\ Asked(boot.mounts[q], V)
    BY BootFields DEF Due
  <2>2. Resolved(boot.mounts[q], V) \in MountRec
    BY <2>1, LineServes
  <2> QED
    BY <2>2, LineDue
<1> HIDE DEF A, B, C
<1>6. Within(A, Where) /\ Within(B, Where) /\ Within(C, Where)
  <2>1. {"/dev"} \subseteq Where /\ {"/"} \subseteq Where /\ LinePoints \ {"/"} \subseteq Where
    BY DEF Where
  <2> QED
    BY <1>2, <1>3, <1>4, <2>1, WithinMore
<1>7. /\ \A mp : mp # "/dev" => Barren(A, V, mp)
      /\ \A mp : mp # "/" => Barren(B, V, mp)
  BY <1>2, <1>3, ElsewhereBarren
<1>8. /\ P \in Seq(MountRec) /\ Within(P, Where)
      /\ \A mp, m : Serves(A, V, mp, m) => Serves(P, V, mp, m)
      /\ \A mp, m : Barren(A, V, mp) /\ Serves(B, V, mp, m) => Serves(P, V, mp, m)
      /\ \A mp, m : Barren(A, V, mp) /\ Barren(B, V, mp) /\ Serves(C, V, mp, m) => Serves(P, V, mp, m)
  BY <1>2, <1>3, <1>4, <1>6, InThree
<1> HIDE DEF P
<1>9. \E m \in MountRec : m.dev = RootDevice(V) /\ Serves(P, V, "/", m)
  <2>1. Barren(A, V, "/")
    BY <1>7
  <2> QED
    BY <1>3, <1>8, <2>1
<1>10. \E m \in MountRec : m.fs = "devfs" /\ Serves(P, V, "/dev", m)
  BY <1>2, <1>8
<1>11. \A q \in 1 .. Len(boot.mounts) : Due(q, V) =>
         /\ Resolved(boot.mounts[q], V) \in MountRec
         /\ Serves(P, V, boot.mounts[q].mp, Resolved(boot.mounts[q], V))
  <2>1. \A q \in 1 .. Len(boot.mounts) : Due(q, V) => boot.mounts[q].mp # "/" /\ boot.mounts[q].mp # "/dev"
    BY DEF Due
  <2> QED
    BY <1>5, <1>7, <1>8, <2>1
<1>12. Planned(P, V, names)
  BY <1>8, <1>9, <1>10, <1>11 DEF Planned
<1> QED
  BY <1>1, <1>12

\* Without one.
LEMMA LegacyPlanned ==
  ASSUME BootOK, ~boot.present, NEW V, NEW names \in Seq(Word),
         \A i \in 1 .. Len(names) : names[i] \in DOMAIN V
  PROVE  Planned(Calls(names), V, names)
<1> DEFINE A == DevCall
           r == Mount("ramfs", "/", "ramfs")
           R == <<r>>
           F == mount_auto("fat32", "/fat", names)
           E == mount_auto("ext4", "/ext4", names)
           B == R \o F
           P == A \o (B \o E)
<1>1. Calls(names) = P
  BY DEF Calls, DevCall, init_mounts_legacy
<1>2. /\ A \in Seq(MountRec) /\ Within(A, {"/dev"})
      /\ \E m \in MountRec : m.fs = "devfs" /\ Serves(A, V, "/dev", m)
  BY DevCallIs
<1>3. r \in MountRec /\ r.dev = "ramfs" /\ R \in Seq(MountRec) /\ Within(R, {"/"}) /\ Serves(R, V, "/", r)
  BY RamCall
<1>4. F \in Seq(MountRec) /\ Within(F, {"/fat"}) /\ AutoRight(F, V, names, "fat32", "/fat")
  <2> DEFINE x == "fat32"
             y == "/fat"
  <2>1. x \in {"fat32", "ext4"} /\ y \in Word
    BY DEF Word
  <2> HIDE DEF x, y
  <2>2. /\ mount_auto(x, y, names) \in Seq(MountRec) /\ Within(mount_auto(x, y, names), {y})
        /\ AutoRight(mount_auto(x, y, names), V, names, x, y)
    BY <2>1, AutoServes DEF AutoRight
  <2> QED
    BY <2>2 DEF x, y
<1>5. E \in Seq(MountRec) /\ Within(E, {"/ext4"}) /\ AutoRight(E, V, names, "ext4", "/ext4")
  <2> DEFINE x == "ext4"
             y == "/ext4"
  <2>1. x \in {"fat32", "ext4"} /\ y \in Word
    BY DEF Word
  <2> HIDE DEF x, y
  <2>2. /\ mount_auto(x, y, names) \in Seq(MountRec) /\ Within(mount_auto(x, y, names), {y})
        /\ AutoRight(mount_auto(x, y, names), V, names, x, y)
    BY <2>1, AutoServes DEF AutoRight
  <2> QED
    BY <2>2 DEF x, y
<1> HIDE DEF A, r, R, F, E
<1>6. Within(A, Where) /\ Within(R, Where) /\ Within(F, Where) /\ Within(E, Where)
  <2>1. {"/dev"} \subseteq Where /\ {"/"} \subseteq Where /\ {"/fat"} \subseteq Where /\ {"/ext4"} \subseteq Where
    BY DEF Where
  <2> QED
    BY <1>2, <1>3, <1>4, <1>5, <2>1, WithinMore
<1>7. /\ \A mp : mp # "/dev" => Barren(A, V, mp)
      /\ \A mp : mp # "/" => Barren(R, V, mp)
      /\ \A mp : mp # "/fat" => Barren(F, V, mp)
      /\ \A mp : mp # "/ext4" => Barren(E, V, mp)
  BY <1>2, <1>3, <1>4, <1>5, ElsewhereBarren
<1>8. /\ B \in Seq(MountRec) /\ Within(B, Where)
      /\ \A mp, m : Serves(R, V, mp, m) => Serves(B, V, mp, m)
      /\ \A mp, m : Barren(R, V, mp) /\ Serves(F, V, mp, m) => Serves(B, V, mp, m)
      /\ \A mp : Barren(R, V, mp) /\ Barren(F, V, mp) => Barren(B, V, mp)
  <2>1. B \in Seq(MountRec) /\ Within(B, Where)
    BY <1>3, <1>4, <1>6, WithinBoth
  <2>2. \A mp, m : Serves(R, V, mp, m) => Serves(B, V, mp, m)
    BY <1>3, <1>4, ServesFirst
  <2>3. \A mp, m : Barren(R, V, mp) /\ Serves(F, V, mp, m) => Serves(B, V, mp, m)
    BY <1>3, <1>4, ServesLater
  <2>4. \A mp : Barren(R, V, mp) /\ Barren(F, V, mp) => Barren(B, V, mp)
    BY <1>3, <1>4, BarrenBoth
  <2> QED
    BY <2>1, <2>2, <2>3, <2>4
<1> HIDE DEF B
<1>9. /\ P \in Seq(MountRec) /\ Within(P, Where)
      /\ \A mp, m : Serves(A, V, mp, m) => Serves(P, V, mp, m)
      /\ \A mp, m : Barren(A, V, mp) /\ Serves(B, V, mp, m) => Serves(P, V, mp, m)
      /\ \A mp, m : Barren(A, V, mp) /\ Barren(B, V, mp) /\ Serves(E, V, mp, m) => Serves(P, V, mp, m)
      /\ \A mp : Barren(A, V, mp) /\ Barren(B, V, mp) /\ Barren(E, V, mp) => Barren(P, V, mp)
  BY <1>2, <1>5, <1>6, <1>8, InThree
<1> HIDE DEF P
<1>10. \E m \in MountRec : m.dev = RootDevice(V) /\ Serves(P, V, "/", m)
  <2>1. RootDevice(V) = "ramfs"
    BY DEF RootDevice
  <2>2. Barren(A, V, "/")
    BY <1>7
  <2> QED
    BY <1>3, <1>8, <1>9, <2>1, <2>2
<1>11. \E m \in MountRec : m.fs = "devfs" /\ Serves(P, V, "/dev", m)
  BY <1>2, <1>9
<1>12. AutoRight(P, V, names, "fat32", "/fat")
  <2>1. Barren(A, V, "/fat") /\ Barren(R, V, "/fat") /\ Barren(E, V, "/fat")
    BY <1>7
  <2>2. \A m : Serves(F, V, "/fat", m) => Serves(P, V, "/fat", m)
    BY <1>8, <1>9, <2>1
  <2>3. Barren(F, V, "/fat") => Barren(P, V, "/fat")
    BY <1>8, <1>9, <2>1
  <2> QED
    BY <1>4, <2>2, <2>3 DEF AutoRight
<1>13. AutoRight(P, V, names, "ext4", "/ext4")
  <2>1. Barren(A, V, "/ext4") /\ Barren(R, V, "/ext4") /\ Barren(F, V, "/ext4")
    BY <1>7
  <2>2. \A m : Serves(E, V, "/ext4", m) => Serves(P, V, "/ext4", m)
    BY <1>8, <1>9, <2>1
  <2>3. Barren(E, V, "/ext4") => Barren(P, V, "/ext4")
    BY <1>8, <1>9, <2>1
  <2> QED
    BY <1>5, <2>2, <2>3 DEF AutoRight
<1>14. \A q \in 1 .. Len(boot.mounts) : FALSE
  <2>1. boot.mounts = <<>>
    BY DEF BootOK
  <2> QED
    BY <2>1
<1>15. Planned(P, V, names)
  BY <1>9, <1>10, <1>11, <1>12, <1>13, <1>14 DEF Planned
<1> QED
  BY <1>1, <1>15

\* A set with an element more.
LEMMA OneMore ==
  ASSUME NEW S, NEW x, NEW n \in Nat, IsFiniteSet(S), Cardinality(S) <= n
  PROVE  IsFiniteSet(S \cup {x}) /\ Cardinality(S \cup {x}) <= n + 1
<1>1. Cardinality(S) \in Nat
  BY FS_CardinalityType
<1>2. IsFiniteSet(S \cup {x}) /\ Cardinality(S \cup {x}) = IF x \in S THEN Cardinality(S) ELSE Cardinality(S) + 1
  BY FS_AddElement
<1> QED
  BY <1>1, <1>2

\* There are no more mount points than slots.
LEMMA WhereFits ==
  ASSUME BootOK PROVE IsFiniteSet(Where) /\ Cardinality(Where) <= MaxMounts
<1>0. MaxMountLines \in Nat /\ MaxMounts \in Nat /\ MaxMountLines + 2 <= MaxMounts /\ 4 <= MaxMounts
  BY MountsAssumption
<1> DEFINE S == IF boot.present THEN LinePoints ELSE {"/fat", "/ext4"}
           N == IF boot.present THEN MaxMountLines ELSE 2
<1>1. N \in Nat /\ N + 1 + 1 <= MaxMounts
  BY <1>0
<1>2. IsFiniteSet(S) /\ Cardinality(S) <= N
  <2>1. CASE boot.present
    <3> DEFINE n == Len(boot.mounts)
               f == [i \in 1 .. n |-> boot.mounts[i].mp]
    <3>1. n \in Nat /\ n <= MaxMountLines
      BY BootFields DEF BootOK
    <3>2. f \in Surjection(1 .. n, LinePoints)
      BY DEF Surjection, LinePoints
    <3>3. IsFiniteSet(1 .. n) /\ Cardinality(1 .. n) = n
      BY <3>1, UpToSize
    <3> HIDE DEF f, n
    <3>4. IsFiniteSet(LinePoints) /\ Cardinality(LinePoints) <= n
      BY <3>2, <3>3, FS_Surjection
    <3>5. Cardinality(LinePoints) \in Nat
      BY <3>4, FS_CardinalityType
    <3>6. Cardinality(LinePoints) <= MaxMountLines
      BY <1>0, <3>1, <3>4, <3>5
    <3> QED
      BY <2>1, <3>4, <3>6
  <2>2. CASE ~boot.present
    <3>1. IsFiniteSet({"/fat"}) /\ Cardinality({"/fat"}) <= 1
      BY FS_Singleton
    <3>2. IsFiniteSet({"/fat"} \cup {"/ext4"}) /\ Cardinality({"/fat"} \cup {"/ext4"}) <= 1 + 1
      BY <3>1, OneMore
    <3>3. S = {"/fat"} \cup {"/ext4"} /\ N = 1 + 1
      BY <2>2
    <3> QED
      BY <3>2, <3>3
  <2> QED
    BY <2>1, <2>2
<1>a. Where = (S \cup {"/"}) \cup {"/dev"}
  BY DEF Where
<1> HIDE DEF S, N
<1>3. IsFiniteSet(S \cup {"/"}) /\ Cardinality(S \cup {"/"}) <= N + 1
  BY <1>1, <1>2, OneMore
<1>4. N + 1 \in Nat
  BY <1>1
<1> DEFINE U == S \cup {"/"}
           M == N + 1
<1> HIDE DEF U, M
<1>5. IsFiniteSet(U) /\ Cardinality(U) <= M /\ M \in Nat
  BY <1>3, <1>4 DEF U, M
<1>6. IsFiniteSet(U \cup {"/dev"}) /\ Cardinality(U \cup {"/dev"}) <= M + 1
  BY <1>5, OneMore
<1>7. Cardinality(U \cup {"/dev"}) \in Nat
  BY <1>6, FS_CardinalityType
<1>8. Cardinality(U \cup {"/dev"}) <= MaxMounts
  BY <1>0, <1>1, <1>6, <1>7 DEF M
<1> QED
  BY <1>a, <1>6, <1>8 DEF U

-----------------------------------------------------------------------------
(* The parser.                                                             *)

\* What the parser may have made of the lines so far.
BootRec ==
  {b \in [present : BOOLEAN, root : Word, init : Word, mounts : Seq(MountRec)] : Len(b.mounts) <= MaxMountLines}

LEMMA DefaultsTyped == cfg_set_defaults \in BootRec
<1>1. NoRoot \in Word /\ "/" \in Word
  BY DEF Word, NoRoot
<1>2. <<>> \in Seq(MountRec) /\ Len(<<>>) = 0
  OBVIOUS
<1>3. 0 <= MaxMountLines
  BY MountsAssumption
<1> DEFINE s == <<>>
           r == NoRoot
           i == "/"
<1>4. cfg_set_defaults = [present |-> FALSE, root |-> r, init |-> i, mounts |-> s]
  BY DEF cfg_set_defaults
<1>5. r \in Word /\ i \in Word /\ s \in Seq(MountRec) /\ Len(s) <= MaxMountLines
  BY <1>1, <1>2, <1>3
<1> HIDE DEF s, r, i
<1> QED
  BY <1>4, <1>5 DEF BootRec

\* The words of a line.
LEMMA LineWords ==
  ASSUME NEW l \in ConfigLine
  PROVE  /\ l.kind = "mount" => l.fs \in Word /\ l.mp \in Word /\ l.dev \in Word
         /\ l.kind = "root" => l.dev \in Word
         /\ l.kind = "init" => l.mp \in Word
<1>1. \A x \in STRING : x \in Word
  BY DEF Word
<1>2. \/ l \in [kind : {"mount"}, dev : STRING, mp : STRING, fs : STRING]
      \/ l \in [kind : {"root"}, dev : STRING]
      \/ l \in [kind : {"init"}, mp : STRING]
      \/ l \in [kind : {"other"}]
  BY DEF ConfigLine
<1> QED
  BY <1>1, <1>2

\* One line.
LEMMA LineTyped ==
  ASSUME NEW b \in BootRec, NEW l \in ConfigLine
  PROVE  cfg_parse_line(b, l) \in BootRec
<1>0. /\ b \in [present : BOOLEAN, root : Word, init : Word, mounts : Seq(MountRec)]
      /\ b.mounts \in Seq(MountRec) /\ Len(b.mounts) \in Nat /\ Len(b.mounts) <= MaxMountLines
      /\ MaxMountLines \in Nat
  BY MountsAssumption DEF BootRec
<1>1. CASE l.kind = "mount" /\ Len(b.mounts) < MaxMountLines
  <2> DEFINE m == [fs |-> l.fs, mp |-> l.mp, dev |-> l.dev]
             s == Append(b.mounts, m)
  <2>1. m \in MountRec
    BY <1>1, LineWords DEF MountRec
  <2>2. cfg_parse_line(b, l) = [b EXCEPT !.mounts = s]
    BY <1>1 DEF cfg_parse_line
  <2> HIDE DEF m
  <2>3. s \in Seq(MountRec) /\ Len(s) = Len(b.mounts) + 1
    BY <1>0, <2>1, AppendProperties
  <2> HIDE DEF s
  <2>4. Len(s) <= MaxMountLines
    BY <1>0, <1>1, <2>3
  <2>5. /\ [b EXCEPT !.mounts = s] \in [present : BOOLEAN, root : Word, init : Word, mounts : Seq(MountRec)]
        /\ [b EXCEPT !.mounts = s].mounts = s
    BY <1>0, <2>3
  <2> QED
    BY <2>2, <2>4, <2>5 DEF BootRec
<1>2. CASE l.kind = "root"
  <2> DEFINE d == l.dev
  <2>1. cfg_parse_line(b, l) = [b EXCEPT !.root = d] /\ d \in Word
    BY <1>2, LineWords DEF cfg_parse_line
  <2> HIDE DEF d
  <2>2. /\ [b EXCEPT !.root = d] \in [present : BOOLEAN, root : Word, init : Word, mounts : Seq(MountRec)]
        /\ [b EXCEPT !.root = d].mounts = b.mounts
    BY <1>0, <2>1
  <2> QED
    BY <1>0, <2>1, <2>2 DEF BootRec
<1>3. CASE l.kind = "init"
  <2> DEFINE d == l.mp
  <2>1. cfg_parse_line(b, l) = [b EXCEPT !.init = d] /\ d \in Word
    BY <1>3, LineWords DEF cfg_parse_line
  <2> HIDE DEF d
  <2>2. /\ [b EXCEPT !.init = d] \in [present : BOOLEAN, root : Word, init : Word, mounts : Seq(MountRec)]
        /\ [b EXCEPT !.init = d].mounts = b.mounts
    BY <1>0, <2>1
  <2> QED
    BY <1>0, <2>1, <2>2 DEF BootRec
<1>4. CASE ~(l.kind = "mount" /\ Len(b.mounts) < MaxMountLines) /\ l.kind # "root" /\ l.kind # "init"
  <2>1. cfg_parse_line(b, l) = b
    BY <1>4 DEF cfg_parse_line
  <2> QED
    BY <2>1
<1> QED
  BY <1>1, <1>2, <1>3, <1>4

\* The configuration after each line.
LEMMA ParseRounds ==
  ASSUME NEW text \in Seq(ConfigLine)
  PROVE  /\ parse_loop(text)[0] = cfg_set_defaults
         /\ \A i \in 0 .. Len(text) : parse_loop(text)[i] \in BootRec
         /\ \A i \in 1 .. Len(text) : parse_loop(text)[i] = cfg_parse_line(parse_loop(text)[i - 1], text[i])
<1> DEFINE A == BootRec
           n == Len(text)
           b == cfg_set_defaults
           F == [i \in 1 .. n |-> [a \in A |-> cfg_parse_line(a, text[i])]]
           Loop(f) == [i \in 0 .. n |-> IF i = 0 THEN b ELSE cfg_parse_line(f[i - 1], text[i])]
           L == parse_loop(text)
<1>1. n \in Nat /\ b \in A
  BY DefaultsTyped, LenProperties
<1>2. \A a \in A, i \in 1 .. n : cfg_parse_line(a, text[i]) \in A
  BY LineTyped, ElementOfSeq
<1>3. F \in Rounds(A, n)
  BY <1>2 DEF Rounds
<1>4. \A a \in A, i \in 1 .. n : F[i][a] = cfg_parse_line(a, text[i])
  OBVIOUS
<1>5. L = CHOOSE f : f = Loop(f)
  BY DEF parse_loop
<1> HIDE DEF A, F, b, n, L
<1>6. PICK f \in [0 .. n -> A] : f[0] = b /\ \A i \in 1 .. n : f[i] = F[i][f[i - 1]]
  <2>1. Runs(A, n, F, b)
    BY <1>1, <1>3, LoopRuns
  <2> QED
    BY <2>1 DEF Runs
<1>7. \A i \in 1 .. n : f[i] = cfg_parse_line(f[i - 1], text[i])
  <2> SUFFICES ASSUME NEW i \in 1 .. n PROVE f[i] = cfg_parse_line(f[i - 1], text[i])
    OBVIOUS
  <2>1. f[i - 1] \in A
    BY <1>1
  <2> QED
    BY <1>4, <1>6, <2>1
<1>8. f = Loop(f)
  <2>1. ASSUME NEW i \in 0 .. n PROVE f[i] = Loop(f)[i]
    <3>1. CASE i = 0
      BY <1>6, <3>1
    <3>2. CASE i # 0
      <4>1. i \in 1 .. n
        BY <1>1, <3>2
      <4> QED
        BY <1>7, <3>2, <4>1
    <3> QED
      BY <3>1, <3>2
  <2> QED
    BY <2>1
<1>9. L = Loop(L)
  BY <1>5, <1>8
<1>10. L[0] = b /\ \A i \in 1 .. n : L[i] = cfg_parse_line(L[i - 1], text[i])
  <2>1. 0 \in 0 .. n /\ \A i \in 1 .. n : i \in 0 .. n /\ i # 0
    BY <1>1
  <2>2. \A i \in 0 .. n : L[i] = IF i = 0 THEN b ELSE cfg_parse_line(L[i - 1], text[i])
    BY <1>9
  <2> QED
    BY <2>1, <2>2
<1>11. \A i \in 0 .. n : L[i] \in A
  <2> DEFINE G == {i \in Nat : L[i] \in A}
  <2>1. 0 \in G
    BY <1>1, <1>10
  <2>2. \A i \in 1 .. n : i - 1 \in G => i \in G
    <3> SUFFICES ASSUME NEW i \in 1 .. n, L[i - 1] \in A PROVE L[i] \in A
      BY <1>1
    <3>1. L[i] = cfg_parse_line(L[i - 1], text[i])
      BY <1>10
    <3> QED
      BY <1>2, <3>1
  <2> HIDE DEF G
  <2>3. n \in Nat
    BY <1>1
  <2>4. \A i \in 0 .. n : i \in G
    BY <2>1, <2>2, <2>3, UpTo, Zenon
  <2> QED
    BY <1>1, <2>4 DEF G
<1> QED
  BY <1>10, <1>11 DEF A, n, b, L

\* The text that may reach the kernel.
Text == {NoConfig} \cup Seq(ConfigLine)

\* What the parser leaves is in order.
LEMMA ParsedOK ==
  ASSUME NEW text \in Text, parse_apply_boot_config(text) PROVE BootOK'
<1>1. CASE text = NoConfig
  <2>1. boot' = cfg_set_defaults
    BY <1>1 DEF parse_apply_boot_config
  <2>2. cfg_set_defaults.mounts = <<>>
    BY DEF cfg_set_defaults
  <2> DEFINE b == cfg_set_defaults
  <2>3. b \in BootRec
    BY DefaultsTyped
  <2> HIDE DEF b
  <2>4. boot' = b /\ b.mounts = <<>>
    BY <2>1, <2>2 DEF b
  <2> QED
    BY <2>3, <2>4 DEF BootOK, BootRec
<1>2. CASE text # NoConfig
  <2> DEFINE b == parse_loop(text)[Len(text)]
  <2>1. boot' = [b EXCEPT !.present = TRUE]
    BY <1>2 DEF parse_apply_boot_config
  <2>2. b \in BootRec
    <3>1. text \in Seq(ConfigLine) /\ Len(text) \in 0 .. Len(text)
      BY <1>2 DEF Text
    <3> DEFINE n == Len(text)
               K == parse_loop(text)
    <3>2. \A i \in 0 .. n : K[i] \in BootRec
      BY <3>1, ParseRounds
    <3> HIDE DEF K
    <3> QED
      BY <3>1, <3>2 DEF K
  <2> HIDE DEF b
  <2>3. b \in [present : BOOLEAN, root : Word, init : Word, mounts : Seq(MountRec)] /\ Len(b.mounts) <= MaxMountLines
    BY <2>2 DEF BootRec
  <2>4. /\ boot' \in [present : BOOLEAN, root : Word, init : Word, mounts : Seq(MountRec)]
        /\ boot'.mounts = b.mounts /\ boot'.present = TRUE
    BY <2>1, <2>3
  <2> QED
    BY <2>3, <2>4 DEF BootOK
<1> QED
  BY <1>1, <1>2

-----------------------------------------------------------------------------
(* The boot.                                                               *)

LEMMA NamesTyped ==
  ASSUME PartInv
  PROVE  /\ PartNames \in Seq(Word) /\ NoRoot \notin DOMAIN FsOf
         /\ \A i \in 1 .. Len(PartNames) : PartNames[i] \in DOMAIN FsOf
<1> DEFINE a == Len(parts[1])
           b == Len(parts[2])
           s == [i \in 1 .. a |-> DevName[1][i]]
           t == [i \in 1 .. b |-> DevName[2][i]]
           T == STRING \ {NoRoot}
<1>1. a \in Nat /\ b \in Nat /\ a <= MaxPerDrive /\ b <= MaxPerDrive /\ MaxPerDrive \in Nat
  BY PartAssumption DEF PartInv, FoundInv
<1>2. \A i \in 1 .. MaxPerDrive : DevName[1][i] \in T /\ DevName[2][i] \in T
  BY BootAssumption
<1>3. (\A i \in 1 .. a : i \in 1 .. MaxPerDrive) /\ \A i \in 1 .. b : i \in 1 .. MaxPerDrive
  BY <1>1
<1> HIDE DEF a, b, T
<1>4. s \in [1 .. a -> T] /\ t \in [1 .. b -> T]
  BY <1>2, <1>3
<1>5. s \in Seq(T) /\ t \in Seq(T)
  BY <1>1, <1>4
<1>6. PartNames = s \o t
  BY DEF PartNames, a, b
<1> HIDE DEF s, t
<1>7. PartNames \in Seq(T)
  BY <1>5, <1>6, ConcatProperties
<1>8. \A i \in 1 .. Len(PartNames) : PartNames[i] \in T
  BY <1>7, ElementOfSeq
<1>9. DOMAIN FsOf = {PartNames[i] : i \in 1 .. Len(PartNames)}
  BY DEF FsOf
<1>10. T \subseteq Word /\ NoRoot \notin T
  BY DEF T, Word
<1>11. PartNames \in Seq(Word)
  <2>1. PartNames \in [1 .. Len(PartNames) -> T] /\ Len(PartNames) \in Nat
    BY <1>7, LenProperties
  <2> DEFINE q == PartNames
             n == Len(PartNames)
  <2> HIDE DEF q, n
  <2>2. q \in [1 .. n -> Word] /\ n \in Nat
    BY <1>10, <2>1 DEF q, n
  <2> QED
    BY <2>2 DEF q
<1>12. NoRoot \notin DOMAIN FsOf
  BY <1>8, <1>9, <1>10
<1> QED
  BY <1>9, <1>11, <1>12

\* The calls are right, whatever the configuration and the disks.
LEMMA PlanRight ==
  ASSUME BootOK, PartInv PROVE Planned(Calls(PartNames), FsOf, PartNames)
<1> DEFINE n == PartNames
           V == FsOf
<1>1. n \in Seq(Word) /\ NoRoot \notin DOMAIN V /\ \A i \in 1 .. Len(n) : n[i] \in DOMAIN V
  BY NamesTyped
<1> HIDE DEF n, V
<1>2. Planned(Calls(n), V, n)
  BY <1>1, ConfigPlanned, LegacyPlanned
<1> QED
  BY <1>2 DEF n, V

\* What the calls depend on.
LEMMA SamePlan ==
  ASSUME UNCHANGED <<boot, parts, disks>>
  PROVE  /\ Calls(PartNames)' = Calls(PartNames) /\ FsOf' = FsOf /\ Where' = Where
         /\ BootOK => BootOK'
<1>0. boot' = boot /\ parts' = parts /\ disks' = disks
  OBVIOUS
<1>1. PartNames' = PartNames
  BY <1>0 DEF PartNames
<1>2. RootLines' = RootLines
  BY <1>0 DEF RootLines
<1>3. RootLine' = RootLine
  BY <1>0, <1>2 DEF RootLine
<1>4. FromLine' = FromLine /\ FromKey' = FromKey
  BY <1>0, <1>2, <1>3 DEF FromLine, FromKey, mount_line, mount_dev_probe
<1>5. lines_loop' = lines_loop
  BY <1>0 DEF lines_loop
<1>6. mount_root' = mount_root
  BY <1>4 DEF mount_root
<1>7. init_mounts_config' = init_mounts_config
  BY <1>0, <1>5, <1>6 DEF init_mounts_config
<1>8. Calls(PartNames)' = Calls(PartNames)
  BY <1>0, <1>1, <1>7 DEF Calls, init_mounts_legacy
<1>9. \A name : Volume(name)' = Volume(name)
  BY <1>0 DEF Volume
<1>10. \A name : VolumesOf(name)' = VolumesOf(name)
  BY <1>0, <1>9 DEF VolumesOf
<1>11. FsOf' = FsOf
  <2> DEFINE S == {PartNames[i] : i \in 1 .. Len(PartNames)}
             F(name) == IF VolumesOf(name) = {} THEN "none" ELSE (CHOOSE w \in VolumesOf(name) : TRUE).fs
  <2>1. FsOf = [name \in S |-> F(name)] /\ FsOf' = [name \in S' |-> F(name)']
    BY DEF FsOf
  <2>2. S' = S
    BY <1>1
  <2>3. \A name : F(name)' = F(name)
    <3> SUFFICES ASSUME NEW name PROVE F(name)' = F(name)
      OBVIOUS
    <3> DEFINE X == VolumesOf(name)
    <3>1. X' = X
      BY <1>10
    <3> HIDE DEF X
    <3> QED
      BY <3>1 DEF X
  <2> HIDE DEF S, F
  <2> QED
    BY <2>1, <2>2, <2>3
<1>12. LinePoints' = LinePoints
  BY <1>0 DEF LinePoints
<1>13. Where' = Where
  BY <1>0, <1>12 DEF Where
<1>14. BootOK => BootOK'
  BY <1>0 DEF BootOK
<1> QED
  BY <1>8, <1>11, <1>13, <1>14

\* One call of vfs_mount, or the end.
LEMMA CallMade ==
  ASSUME BootOK, NEW P, NEW V, Underway(P, V, Where, mounts, todo), ~refused, vfs_mount(V)
  PROVE  /\ Underway(P, V, Where, mounts', todo') /\ refused' = FALSE
         /\ mounting' = "mounting" \/ (mounting' = "done" /\ todo' = <<>>)
<1>0. /\ mounting = "mounting" /\ MaxMounts \in Nat
      /\ IsFiniteSet(Where) /\ Cardinality(Where) <= MaxMounts
  BY WhereFits, MountsAssumption DEF vfs_mount
<1>a. mounts \in Seq(MountRec) /\ todo \in Seq(MountRec) /\ Len(mounts) \in Nat
  BY DEF Underway
<1>1. CASE todo = <<>>
  <2>1. mounts' = mounts /\ todo' = todo /\ refused' = refused /\ mounting' = "done"
    BY <1>1 DEF vfs_mount
  <2> QED
    BY <1>1, <2>1
<1>2. CASE todo # <<>>
  <2> DEFINE m == todo[1]
             good == ~Takes(mounts, m.mp) /\ Mountable(m, V)
  <2>1. Head(todo) = m
    BY <1>a, <1>2, TailOf
  <2>2. \A mp : Taken(mp) <=> Takes(mounts, mp)
    BY DEF Taken, Takes
  <2>3. /\ mounts' = IF good /\ Len(mounts) < MaxMounts THEN Append(mounts, m) ELSE mounts
        /\ refused' = (refused \/ (good /\ Len(mounts) >= MaxMounts))
        /\ todo' = Tail(todo) /\ mounting' = mounting
    BY <1>2, <2>1, <2>2, Zenon DEF vfs_mount
  <2>4. CASE good
    <3>1. Len(mounts) < MaxMounts
      BY <1>0, <1>2, <2>4, Room
    <3>2. mounts' = Append(mounts, m) /\ ~(Len(mounts) >= MaxMounts)
      BY <1>0, <1>a, <2>3, <2>4, <3>1
    <3>3. Underway(P, V, Where, Append(mounts, m), Tail(todo))
      BY <1>2, <2>4, CallSucceeds
    <3>4. refused' = FALSE
      BY <2>3, <3>2, Zenon
    <3> QED
      BY <1>0, <2>3, <3>2, <3>3, <3>4
  <2>5. CASE ~good
    <3>1. Underway(P, V, Where, mounts, Tail(todo))
      BY <1>2, <2>5, CallFails
    <3>2. refused' = FALSE /\ mounts' = mounts
      BY <2>3, <2>5, Zenon
    <3> QED
      BY <1>0, <2>3, <3>1, <3>2
  <2> QED
    BY <2>4, <2>5
<1> QED
  BY <1>1, <1>2

\* The mounts once no call is left.
LEMMA MountsMade ==
  ASSUME NEW V, NEW names, NEW P,
         BootOK, Planned(P, V, names), Underway(P, V, Where, mounts, <<>>), ~refused
  PROVE  MountsRight(names, V)
<1>1. /\ \A mp \in Word, m \in MountRec : Serves(P, V, mp, m) => Has(mounts, m)
      /\ \A mp \in Word : Barren(P, V, mp) => ~Takes(mounts, mp)
      /\ \A k, l \in 1 .. Len(mounts) : mounts[k].mp = mounts[l].mp => k = l
  BY UnderwayEnd
<1>2. "/" \in Word /\ "/dev" \in Word /\ "/fat" \in Word /\ "/ext4" \in Word
  BY DEF Word
<1>3. \A mp, m : Serves(P, V, mp, m) => m.mp = mp
  BY DEF Serves, Able
<1>4. \E k \in 1 .. Len(mounts) : mounts[k].mp = "/" /\ mounts[k].dev = RootDevice(V)
  <2>1. PICK m \in MountRec : m.dev = RootDevice(V) /\ Serves(P, V, "/", m)
    BY DEF Planned
  <2>2. m.mp = "/" /\ Has(mounts, m)
    BY <1>1, <1>2, <1>3, <2>1
  <2> QED
    BY <2>1, <2>2 DEF Has
<1>5. \E k \in 1 .. Len(mounts) : mounts[k].mp = "/dev" /\ mounts[k].fs = "devfs"
  <2>1. PICK m \in MountRec : m.fs = "devfs" /\ Serves(P, V, "/dev", m)
    BY DEF Planned
  <2>2. m.mp = "/dev" /\ Has(mounts, m)
    BY <1>1, <1>2, <1>3, <2>1
  <2> QED
    BY <2>1, <2>2 DEF Has
<1>6. ASSUME NEW q \in 1 .. Len(boot.mounts), Due(q, V)
      PROVE  \E k \in 1 .. Len(mounts) :
               /\ mounts[k].mp = boot.mounts[q].mp /\ mounts[k].dev = boot.mounts[q].dev
               /\ mounts[k].fs = (IF boot.mounts[q].fs = "auto" THEN V[boot.mounts[q].dev] ELSE boot.mounts[q].fs)
  <2> DEFINE l == boot.mounts[q]
             m == Resolved(l, V)
  <2>1. m \in MountRec /\ Serves(P, V, l.mp, m) /\ l.mp \in Word
    BY <1>6, BootFields DEF Planned
  <2>2. m.dev = l.dev /\ m.mp = l.mp /\ m.fs = IF l.fs = "auto" THEN V[l.dev] ELSE l.fs
    <3> HIDE DEF l
    <3>1. CASE l.fs = "auto"
      BY <3>1 DEF Resolved, Mount
    <3>2. CASE l.fs # "auto"
      BY <3>2 DEF Resolved
    <3> QED
      BY <3>1, <3>2
  <2> HIDE DEF l, m
  <2>3. Has(mounts, m)
    BY <1>1, <2>1
  <2> QED
    BY <2>2, <2>3 DEF Has, l
<1>7. ASSUME NEW fs, NEW mp \in Word, AutoRight(P, V, names, fs, mp)
      PROVE  IF Kin(names, V, fs) = {} THEN ~Taken(mp)
             ELSE Mount(fs, mp, names[CHOOSE i \in Kin(names, V, fs) : \A j \in Kin(names, V, fs) : i <= j])
                    \in {mounts[k] : k \in 1 .. Len(mounts)}
  <2>1. CASE Kin(names, V, fs) = {}
    <3>1. ~Takes(mounts, mp)
      BY <1>1, <1>7, <2>1 DEF AutoRight
    <3> QED
      BY <2>1, <3>1 DEF Takes, Taken
  <2>2. CASE Kin(names, V, fs) # {}
    <3> DEFINE K == Kin(names, V, fs)
               c == CHOOSE i \in K : \A j \in K : i <= j
    <3>1. K \subseteq Nat
      BY DEF Kin
    <3>2. \E i \in K : \A j \in K : i <= j
      BY <2>2, <3>1, LeastNatural
    <3>3. c \in K /\ \A j \in K : c <= j
      BY <3>2
    <3> HIDE DEF c
    <3> DEFINE m == Mount(fs, mp, names[c])
    <3>4. m \in MountRec /\ Serves(P, V, mp, m)
      BY <1>7, <3>3 DEF AutoRight
    <3> HIDE DEF m
    <3>5. Has(mounts, m)
      BY <1>1, <3>4
    <3>6. m \in {mounts[k] : k \in 1 .. Len(mounts)}
      BY <3>5 DEF Has
    <3> QED
      BY <2>2, <3>6 DEF m, c
  <2> QED
    BY <2>1, <2>2
<1>8. ASSUME ~boot.present, NEW auto \in {<<"fat32", "/fat">>, <<"ext4", "/ext4">>}
      PROVE  IF Kin(names, V, auto[1]) = {} THEN ~Taken(auto[2])
             ELSE Mount(auto[1], auto[2],
                        names[CHOOSE i \in Kin(names, V, auto[1]) : \A j \in Kin(names, V, auto[1]) : i <= j])
                    \in {mounts[k] : k \in 1 .. Len(mounts)}
  <2> DEFINE x == auto[1]
             y == auto[2]
  <2>1. AutoRight(P, V, names, x, y) /\ y \in Word
    <3>1. AutoRight(P, V, names, "fat32", "/fat") /\ AutoRight(P, V, names, "ext4", "/ext4")
      BY <1>8 DEF Planned
    <3> QED
      BY <1>2, <3>1
  <2> HIDE DEF x, y
  <2>2. IF Kin(names, V, x) = {} THEN ~Taken(y)
        ELSE Mount(x, y, names[CHOOSE i \in Kin(names, V, x) : \A j \in Kin(names, V, x) : i <= j])
               \in {mounts[k] : k \in 1 .. Len(mounts)}
    BY <1>7, <2>1
  <2> QED
    BY <2>2 DEF x, y
<1> QED
  BY <1>1, <1>4, <1>5, <1>6, <1>8, Zenon DEF MountsRight, Due, Kin

\* What csos.cfg holds of text, as far as the loader reads it.
LEMMA InfoStep ==
  ASSUME EfiTypeOK, cfg \in Text, DOMAIN info = {"config", "low", "map"}, info.config \in Text, EfiNext(cfg)
  PROVE  DOMAIN info' = {"config", "low", "map"} /\ info'.config \in Text
<1>0. NoText = NoConfig /\ CfgMax \in Nat
  BY BootAssumption, EfiAssumption
<1>1. CASE info' = info
  BY <1>1
<1>2. CASE GetMemoryMap
  <2>1. info' = info \/ info' = [info EXCEPT !.map = fw.used]
    BY <1>2 DEF GetMemoryMap, Fatal
  <2> QED
    BY <2>1
<1>3. CASE LoadBootConfig(cfg) /\ info' # info
  <2> DEFINE c == IF Len(cfg) <= CfgMax THEN cfg ELSE SubSeq(cfg, 1, CfgMax)
  <2>1. PICK low \in BOOLEAN : info' = [info EXCEPT !.low = low, !.config = c]
    BY <1>3 DEF LoadBootConfig
  <2>2. cfg # NoText
    BY <1>3 DEF LoadBootConfig
  <2>3. cfg \in Seq(ConfigLine)
    BY <1>0, <2>2 DEF Text
  <2>4. c \in Seq(ConfigLine)
    <3>1. CASE Len(cfg) <= CfgMax
      BY <2>3, <3>1
    <3>2. CASE ~(Len(cfg) <= CfgMax)
      <4>1. \A i \in 1 .. CfgMax : cfg[i] \in ConfigLine
        <5>1. \A i \in 1 .. CfgMax : i \in 1 .. Len(cfg)
          BY <1>0, <2>3, <3>2
        <5> QED
          BY <2>3, <5>1, ElementOfSeq
      <4>2. SubSeq(cfg, 1, CfgMax) \in Seq(ConfigLine)
        BY <1>0, <2>3, <4>1, SubSeqProperties
      <4> QED
        BY <3>2, <4>2
    <3> QED
      BY <3>1, <3>2
  <2> HIDE DEF c
  <2>5. DOMAIN info' = DOMAIN info /\ info'.config = c
    BY <2>1
  <2> QED
    BY <2>4, <2>5 DEF Text
<1>4. CASE LoadSegment
  <2>1. Len(kernel.segs) \in Nat /\ efi.seg \in Nat
    <3>1. kernel.segs \in Seq([load : BOOLEAN, addr : Nat, off : Nat, filesz : Nat, memsz : Nat])
      BY EfiAssumption DEF EfiTypeOK
    <3> QED
      BY <3>1, LenProperties DEF EfiTypeOK
  <2>2. efi.seg > Len(kernel.segs) \/ efi.seg <= Len(kernel.segs)
    BY <2>1
  <2>3. info' = info
    BY <1>4, <2>2, Zenon DEF LoadSegment, Fatal
  <2> QED
    BY <1>1, <2>3
<1>5. CASE LoadElf64 \/ AllocateBootInfo \/ AllocateMap \/ ExitBootServices \/ FirmwareEvent
  BY <1>1, <1>5 DEF LoadElf64, AllocateBootInfo, AllocateMap, ExitBootServices, FirmwareEvent, Fatal
<1> QED
  BY <1>1, <1>2, <1>3, <1>4, <1>5 DEF EfiNext

\* Before the mounts nothing is mounted; from then on what they go by stays as it is,
\* and the calls made so far have done what they could.
Before == {"loader", "kernel", "vmm", "partitions"}

MountInv ==
  /\ BootOK /\ PartInv
  /\ cfg \in Text /\ DOMAIN info = {"config", "low", "map"} /\ info.config \in Text
  /\ mounting \in {"start", "mounting", "done"}
  /\ phase \in Before => mounting = "start"
  /\ phase = "mounts" => mounting # "done"
  /\ mounting = "start" => mounts = <<>> /\ refused = FALSE
  /\ mounting # "start" => Underway(Calls(PartNames), FsOf, Where, mounts, todo) /\ refused = FALSE
  /\ mounting = "done" => todo = <<>>

LEMMA MountStart == Init => MountInv
<1> SUFFICES ASSUME Init PROVE MountInv
  OBVIOUS
<1>1. PartInv
  BY PartStart DEF Init
<1>2. cfg \in Text /\ info.config \in Text /\ DOMAIN info = {"config", "low", "map"}
  BY MountsAssumption, BootAssumption DEF Init, MountsInit, EfiInit, Text
<1>3. BootOK
  <2> DEFINE b == cfg_set_defaults
  <2>1. boot = b /\ b \in BootRec
    BY DefaultsTyped DEF Init, MountsInit
  <2>2. b.mounts = <<>>
    BY DEF cfg_set_defaults
  <2> HIDE DEF b
  <2> QED
    BY <2>1, <2>2 DEF BootOK, BootRec
<1> QED
  BY <1>1, <1>2, <1>3 DEF Init, MountsInit, MountInv

LEMMA MountStep == LoaderInv /\ MountInv /\ [Next]_bootVars => MountInv'
<1> SUFFICES ASSUME LoaderInv, MountInv, [Next]_bootVars PROVE MountInv'
  OBVIOUS
<1>0. /\ BootOK /\ PartInv /\ cfg \in Text /\ DOMAIN info = {"config", "low", "map"} /\ info.config \in Text
      /\ mounting \in {"start", "mounting", "done"}
      /\ mounting = "start" => mounts = <<>> /\ refused = FALSE
      /\ mounting # "start" => Underway(Calls(PartNames), FsOf, Where, mounts, todo) /\ refused = FALSE
      /\ mounting = "done" => todo = <<>>
  BY DEF MountInv
<1>1. ASSUME UNCHANGED mountVars, UNCHANGED partVars,
             DOMAIN info' = {"config", "low", "map"}, info'.config \in Text,
             phase' \in Before => mounting = "start", phase' = "mounts" => mounting # "done"
      PROVE  MountInv'
  <2>1. UNCHANGED <<cfg, boot, mounts, mounting, todo, refused, disks, parts>>
    BY <1>1 DEF mountVars, partVars
  <2>2. PartInv'
    BY <1>0, <1>1, PartStep
  <2>3. Calls(PartNames)' = Calls(PartNames) /\ FsOf' = FsOf /\ Where' = Where /\ BootOK'
    BY <1>0, <2>1, SamePlan
  <2>4. mounting # "start" => Underway(Calls(PartNames)', FsOf', Where', mounts', todo')
    BY <1>0, <2>1, <2>3
  <2>5. (mounting # "start" => Underway(Calls(PartNames), FsOf, Where, mounts, todo))'
    BY <2>1, <2>4
  <2> QED
    BY <1>0, <1>1, <2>1, <2>2, <2>3, <2>5 DEF MountInv
<1>2. CASE UNCHANGED bootVars
  <2>1. UNCHANGED <<phase, mountVars, partVars, info>>
    BY <1>2 DEF bootVars, efiVars
  <2> QED
    BY <1>0, <1>1, <2>1 DEF MountInv
<1>3. CASE UefiMain
  <2>0. EfiNext(cfg)
    BY <1>3 DEF UefiMain
  <2>a. efi.step # "gone"
    BY <2>0 DEF EfiNext, LoadBootConfig, LoadElf64, LoadSegment, AllocateBootInfo,
                AllocateMap, GetMemoryMap, ExitBootServices, FirmwareEvent
  <2>1. DOMAIN info' = {"config", "low", "map"} /\ info'.config \in Text
    BY <1>0, <2>0, <2>a, InfoStep DEF LoaderInv, EfiInv
  <2>2. phase \in Before /\ phase' # "mounts" /\ UNCHANGED mountVars /\ UNCHANGED partVars
    BY <1>3 DEF UefiMain, Before
  <2> QED
    BY <1>1, <2>1, <2>2 DEF MountInv
<1>4. CASE kernel_main
  <2> DEFINE t == IF info.low THEN info.config ELSE NoConfig
  <2>1. /\ phase = "kernel" /\ phase' = "vmm" /\ parse_apply_boot_config(t) /\ UNCHANGED partVars
        /\ info' = [config |-> NoText, low |-> TRUE, map |-> {}]
    BY <1>4 DEF kernel_main
  <2>2. t \in Text
    BY <1>0 DEF Text
  <2> HIDE DEF t
  <2>3. BootOK'
    BY <2>1, <2>2, ParsedOK
  <2>4. UNCHANGED <<cfg, mounts, mounting, todo, refused>>
    BY <2>1 DEF parse_apply_boot_config
  <2>5. PartInv'
    BY <1>0, <2>1, PartStep
  <2>6. DOMAIN info' = {"config", "low", "map"} /\ info'.config \in Text
    BY <2>1, BootAssumption DEF Text
  <2>7. mounting = "start"
    BY <2>1 DEF MountInv, Before
  <2> QED
    BY <1>0, <2>1, <2>3, <2>4, <2>5, <2>6, <2>7 DEF MountInv
<1>5. CASE vmm
  <2>1. phase \in Before /\ phase' # "mounts" /\ UNCHANGED <<efiVars, partVars, mountVars>>
    BY <1>5 DEF vmm, Before
  <2>2. info' = info
    BY <2>1 DEF efiVars
  <2> QED
    BY <1>0, <1>1, <2>1, <2>2 DEF MountInv
<1>6. CASE init_partitions
  <2>1. phase \in Before /\ PartNext /\ UNCHANGED <<efiVars, mountVars>>
    BY <1>6 DEF init_partitions, Before
  <2>2. PartInv'
    BY <1>0, <2>1, PartStep
  <2>3. UNCHANGED <<info, cfg, boot, mounts, mounting, todo, refused>>
    BY <2>1 DEF efiVars, mountVars
  <2>4. mounting = "start"
    BY <2>1 DEF MountInv
  <2>5. BootOK'
    BY <1>0, <2>3 DEF BootOK
  <2> QED
    BY <1>0, <2>2, <2>3, <2>4, <2>5 DEF MountInv
<1>7. CASE make_mounts
  <2>1. /\ phase = "mounts" /\ (init_mounts(PartNames) \/ vfs_mount(FsOf)) /\ UNCHANGED <<efiVars, partVars>>
        /\ phase' = IF mounting' = "done" THEN "init" ELSE "mounts"
    BY <1>7 DEF make_mounts
  <2>2. UNCHANGED <<cfg, boot>> /\ UNCHANGED <<parts, disks>> /\ info' = info
    BY <2>1 DEF init_mounts, vfs_mount, efiVars, partVars
  <2>3. Calls(PartNames)' = Calls(PartNames) /\ FsOf' = FsOf /\ Where' = Where /\ BootOK'
    BY <1>0, <2>2, SamePlan
  <2>4. PartInv'
    BY <1>0, <2>1, PartStep
  <2>5. phase' \notin Before /\ (phase' = "mounts" => mounting' # "done")
    BY <2>1 DEF Before
  <2> SUFFICES /\ mounting' \in {"mounting", "done"} /\ refused' = FALSE
               /\ Underway(Calls(PartNames), FsOf, Where, mounts', todo')
               /\ mounting' = "done" => todo' = <<>>
    <3>1. Underway(Calls(PartNames), FsOf, Where, mounts', todo') =>
            Underway(Calls(PartNames), FsOf, Where, mounts, todo)'
      BY <2>3
    <3> QED
      BY <1>0, <2>2, <2>3, <2>4, <2>5, <3>1 DEF MountInv
  <2>6. CASE init_mounts(PartNames)
    <3>1. /\ mounting = "start" /\ mounting' = "mounting" /\ todo' = Calls(PartNames)
          /\ mounts' = <<>> /\ refused' = FALSE
      BY <1>0, <2>6 DEF init_mounts
    <3> DEFINE P == Calls(PartNames)
               V == FsOf
    <3>2. P \in Seq(MountRec) /\ Within(P, Where)
      BY <1>0, PlanRight DEF Planned
    <3> HIDE DEF P, V
    <3>3. Underway(P, V, Where, <<>>, P)
      BY <3>2, UnderwayStart DEF Within
    <3> QED
      BY <3>1, <3>3 DEF P, V
  <2>7. CASE vfs_mount(FsOf)
    <3>1. mounting # "start"
      BY <2>7 DEF vfs_mount
    <3> DEFINE P == Calls(PartNames)
               V == FsOf
    <3>2. Underway(P, V, Where, mounts, todo) /\ ~refused /\ vfs_mount(V)
      BY <1>0, <2>7, <3>1
    <3> HIDE DEF P, V
    <3>3. /\ Underway(P, V, Where, mounts', todo') /\ refused' = FALSE
          /\ mounting' = "mounting" \/ (mounting' = "done" /\ todo' = <<>>)
      BY <1>0, <3>2, CallMade
    <3> QED
      BY <3>3 DEF P, V
  <2> QED
    BY <2>1, <2>6, <2>7
<1>8. CASE user_enter_init
  <2>1. phase = "init" /\ phase' \in {"user", "halted", "init"} /\ UNCHANGED <<efiVars, partVars, mountVars>>
    BY <1>8 DEF user_enter_init
  <2>2. info' = info /\ phase' \notin Before /\ phase' # "mounts"
    BY <2>1 DEF efiVars, Before
  <2> QED
    BY <1>0, <1>1, <2>1, <2>2
<1> QED
  BY <1>2, <1>3, <1>4, <1>5, <1>6, <1>7, <1>8 DEF Next

\* For every configuration that can be read, however many lines it has, and every pair of
\* disks: once init_mounts is through, / comes from the first source that works and /dev
\* is the device tree, no mount point is taken twice, no mount wants for a slot, every
\* line that can be honoured is, and without a configuration the first volumes of each
\* kind are at /fat and /ext4.
THEOREM MountsCorrect == Spec => []MountsExact
<1>1. MountInv => MountsExact
  <2> SUFFICES ASSUME MountInv, mounting = "done" PROVE MountsRight(PartNames, FsOf)
    BY DEF MountsExact, MountsRight
  <2> DEFINE P == Calls(PartNames)
             V == FsOf
             n == PartNames
  <2>1. BootOK /\ Underway(P, V, Where, mounts, <<>>) /\ ~refused
    BY DEF MountInv
  <2>2. Planned(P, V, n)
    BY PlanRight DEF MountInv
  <2> HIDE DEF P, V, n
  <2>3. MountsRight(n, V)
    BY <2>1, <2>2, MountsMade
  <2> QED
    BY <2>3 DEF n, V
<1> QED
  BY <1>1, MountStart, MountStep, LoaderStart, LoaderStep, PTL DEF Spec

-----------------------------------------------------------------------------
(* The frames alloc_page gives.                                            *)

Lower(S, f) == {g \in S : g < f}

\* Finite sets have finite parts.
LEMMA LowerFinite ==
  ASSUME NEW S, IsFiniteSet(S), NEW f
  PROVE  IsFiniteSet(Lower(S, f)) /\ Cardinality(Lower(S, f)) \in Nat /\ Cardinality(S) \in Nat
<1>1. Lower(S, f) \subseteq S
  BY DEF Lower
<1> QED
  BY <1>1, FS_Subset, FS_CardinalityType

\* The next one up.
LEMMA RankNext ==
  ASSUME NEW S, S \subseteq Nat, IsFiniteSet(S), NEW f \in S, Cardinality(Lower(S, f)) + 1 < Cardinality(S)
  PROVE  \E h \in S : Cardinality(Lower(S, h)) = Cardinality(Lower(S, f)) + 1
<1> DEFINE L == Lower(S, f)
           T == {g \in S : g > f}
<1>0. IsFiniteSet(L) /\ Cardinality(L) \in Nat /\ Cardinality(S) \in Nat
  BY LowerFinite
<1>1. f \notin L
  BY DEF Lower
<1>2. IsFiniteSet(L \cup {f}) /\ Cardinality(L \cup {f}) = Cardinality(L) + 1
  BY <1>0, <1>1, FS_AddElement
<1>3. T # {}
  <2> SUFFICES ASSUME T = {} PROVE FALSE
    OBVIOUS
  <2>1. \A g \in S : g < f \/ g = f
    OBVIOUS
  <2>2. S = L \cup {f}
    BY <2>1 DEF Lower
  <2>3. Cardinality(S) = Cardinality(L) + 1
    BY <1>2, <2>2
  <2> HIDE DEF L
  <2> QED
    BY <1>0, <2>3 DEF L
<1>4. PICK h \in T : \A g \in T : h <= g
  <2>1. T \subseteq Nat
    OBVIOUS
  <2> QED
    BY <1>3, <2>1, LeastNatural, Zenon
<1>5. \A g : g \in Lower(S, h) <=> g \in L \cup {f}
  <2>0. h \in Nat /\ f \in Nat /\ h \in S /\ h > f
    BY <1>4
  <2>1. ASSUME NEW g \in S PROVE g < h <=> (g < f \/ g = f)
    <3>1. g \in Nat /\ (g > f => h <= g)
      BY <1>4
    <3> QED
      BY <2>0, <3>1
  <2> QED
    BY <2>1 DEF Lower
<1>6. Lower(S, h) = L \cup {f}
  BY <1>5
<1> QED
  BY <1>2, <1>4, <1>6

\* There is a k-th lowest element.
LEMMA Ranked ==
  ASSUME NEW S, S \subseteq Nat, IsFiniteSet(S), NEW k \in 1 .. Cardinality(S)
  PROVE  \E f \in S : Cardinality(Lower(S, f)) = k - 1
<1> DEFINE n == Cardinality(S)
           G == {j \in Nat : j = 0 \/ \E f \in S : Cardinality(Lower(S, f)) = j - 1}
<1>0. n \in Nat
  BY FS_CardinalityType
<1>1. 0 \in G
  OBVIOUS
<1>2. ASSUME NEW j \in 1 .. n, j - 1 \in G PROVE j \in G
  <2>1. CASE j = 1
    <3>1. S # {}
      <4> SUFFICES ASSUME S = {} PROVE FALSE
        OBVIOUS
      <4>1. n = 0
        BY FS_EmptySet
      <4>2. 1 <= n
        <5> HIDE DEF n, G
        <5> QED
          BY <1>0, <1>2
      <4> QED
        BY <4>1, <4>2
    <3>2. PICK f \in S : \A g \in S : f <= g
      BY <3>1, LeastNatural
    <3>3. Lower(S, f) = {}
      <4>1. \A g \in S : ~(g < f)
        BY <3>2
      <4> QED
        BY <4>1 DEF Lower
    <3>4. Cardinality(Lower(S, f)) = j - 1
      BY <2>1, <3>3, FS_EmptySet
    <3> QED
      BY <3>4
  <2>2. CASE j # 1
    <3>1. PICK f \in S : Cardinality(Lower(S, f)) = (j - 1) - 1
      BY <1>2, <2>2
    <3>2. Cardinality(Lower(S, f)) + 1 < Cardinality(S)
      BY <1>0, <3>1
    <3>3. PICK h \in S : Cardinality(Lower(S, h)) = Cardinality(Lower(S, f)) + 1
      BY <3>2, RankNext
    <3>4. Cardinality(Lower(S, h)) = j - 1
      BY <3>1, <3>3
    <3> QED
      BY <3>4
  <2> QED
    BY <2>1, <2>2
<1>3. k \in G
  <2> HIDE DEF G, n
  <2>1. n \in Nat /\ \A j \in 1 .. n : j - 1 \in G => j \in G
    BY <1>0, <1>2
  <2>2. \A j \in 0 .. n : j \in G
    BY <1>1, <2>1, UpTo, Zenon
  <2> QED
    BY <1>0, <2>2 DEF n
<1> QED
  BY <1>3

\* The first n frames are different ones, and no longer free afterwards.
LEMMA FramesGiven ==
  ASSUME free \subseteq 1 .. Ram - 1, NEW n \in Nat, n <= Cardinality(free)
  PROVE  /\ \A i \in 1 .. n : Frame(i) \in free /\ Frame(i) \notin FreeAfter(n)
         /\ \A i, j \in 1 .. n : Frame(i) = Frame(j) => i = j
         /\ FreeAfter(n) \subseteq free
<1>1. Ram \in Nat
  BY MachineAssumption
<1>2. free \subseteq Nat /\ IsFiniteSet(free)
  <2>1. Ram - 1 \in Int /\ 1 \in Int
    BY <1>1
  <2>2. IsFiniteSet(1 .. Ram - 1)
    BY <2>1, FS_Interval
  <2>3. free \subseteq Nat
    BY <1>1
  <2> QED
    BY <2>2, <2>3, FS_Subset
<1>3. Cardinality(free) \in Nat
  BY <1>2, FS_CardinalityType
<1>4. \A i \in 1 .. n : Frame(i) \in free /\ Cardinality(Lower(free, Frame(i))) = i - 1
  <2> SUFFICES ASSUME NEW i \in 1 .. n PROVE Frame(i) \in free /\ Cardinality(Lower(free, Frame(i))) = i - 1
    OBVIOUS
  <2>1. i \in 1 .. Cardinality(free)
    BY <1>3
  <2>2. \E f \in free : Cardinality(Lower(free, f)) = i - 1
    BY <1>2, <2>1, Ranked
  <2>3. Frame(i) = CHOOSE f \in free : Cardinality(Lower(free, f)) = i - 1
    BY DEF Frame, Lower
  <2> QED
    BY <2>2, <2>3
<1>5. \A i, j \in 1 .. n : Frame(i) = Frame(j) => i = j
  <2> SUFFICES ASSUME NEW i \in 1 .. n, NEW j \in 1 .. n, Frame(i) = Frame(j) PROVE i = j
    OBVIOUS
  <2>1. i - 1 = j - 1
    BY <1>4
  <2> QED
    BY <2>1
<1> QED
  BY <1>4, <1>5 DEF FreeAfter

-----------------------------------------------------------------------------
(* Pages and cells.                                                        *)

LEMMA PageOfCell ==
  ASSUME NEW a \in Nat, NEW c \in Nat \ {0}
  PROVE  /\ a \div c \in Nat /\ a % c \in 0 .. c - 1
         /\ a = c * (a \div c) + (a % c)
         /\ a = (a \div c) * c + (a % c)
         /\ (a \div c) * c <= a /\ a < (a \div c) * c + c
<1>1. /\ a \div c \in Nat /\ a % c \in 0 .. c - 1
      /\ a = c * (a \div c) + (a % c)
      /\ a = (a \div c) * c + (a % c)
  OBVIOUS
<1>2. (a \div c) * c <= a /\ a < (a \div c) * c + c
  OBVIOUS
<1> QED
  BY <1>1, <1>2

\* A page is below another one when its end is.
LEMMA PagesOrder ==
  ASSUME NEW p \in Int, NEW q \in Int, NEW c \in Nat \ {0}, p * c < q * c + c
  PROVE  p <= q
<1> SUFFICES ASSUME q + 1 <= p PROVE FALSE
  OBVIOUS
<1>1. (q + 1) * c <= p * c
  OBVIOUS
<1>2. (q + 1) * c = q * c + c
  OBVIOUS
<1> QED
  BY <1>1, <1>2

-----------------------------------------------------------------------------
(* The tables on the way to a page.                                        *)

Digit(va, i) == (va \div Radix^(4 - i)) % Radix

\* A path is as long as its level says.
LEMMA PathLen ==
  ASSUME NEW va, NEW k \in 1 .. 3
  PROVE  Len(Path(va, k)) = k /\ \A i \in 1 .. k : Path(va, k)[i] = Digit(va, i)
<1>1. Path(va, k) = [i \in 1 .. k |-> Digit(va, i)]
  BY DEF Path, Digit
<1>2. DOMAIN Path(va, k) = 1 .. k
  BY <1>1
<1> DEFINE S == {Digit(va, i) : i \in 1 .. k}
<1>3. Path(va, k) \in Seq(S)
  BY <1>1
<1>4. Len(Path(va, k)) \in Nat /\ DOMAIN Path(va, k) = 1 .. Len(Path(va, k))
  BY <1>3, LenProperties
<1> QED
  BY <1>1, <1>2, <1>4

\* Two ways that meet were one until then.
LEMMA PathsMeet ==
  ASSUME NEW va, NEW wa, NEW j \in 1 .. 3, NEW k \in 1 .. 3, Path(va, j) = Path(wa, k)
  PROVE  j = k /\ \A i \in 1 .. j : Path(va, i) = Path(wa, i)
<1>1. j = k
  BY PathLen
<1>2. \A i \in 1 .. j : Digit(va, i) = Digit(wa, i)
  BY <1>1, PathLen
<1>3. ASSUME NEW i \in 1 .. j PROVE Path(va, i) = Path(wa, i)
  <2>1. Path(va, i) = [l \in 1 .. i |-> Digit(va, l)] /\ Path(wa, i) = [l \in 1 .. i |-> Digit(wa, l)]
    BY DEF Path, Digit
  <2>2. \A l \in 1 .. i : Digit(va, l) = Digit(wa, l)
    BY <1>2
  <2> QED
    BY <2>1, <2>2
<1> QED
  BY <1>1, <1>3

\* A table hangs in a table.
TablesHang ==
  \A va \in Nat : /\ Path(va, 2) \in DOMAIN tables => Path(va, 1) \in DOMAIN tables
                  /\ Path(va, 3) \in DOMAIN tables => Path(va, 2) \in DOMAIN tables

\* map_page takes as many frames as tables are missing, one for each.
LEMMA MissingFacts ==
  ASSUME TablesHang, NEW va \in Nat
  PROVE  /\ Missing(va) \in 0 .. 3
         /\ \A t \in WayTo(va) : t \notin DOMAIN tables => Len(t) - 3 + Missing(va) \in 1 .. Missing(va)
<1> DEFINE a == Path(va, 1)
           b == Path(va, 2)
           c == Path(va, 3)
           W == WayTo(va) \ DOMAIN tables
<1>1. Len(a) = 1 /\ Len(b) = 2 /\ Len(c) = 3
  BY PathLen
<1>2. WayTo(va) = {a, b, c}
  BY DEF WayTo
<1>3. Missing(va) = Cardinality(W)
  BY DEF Missing
<1>4. (b \in DOMAIN tables => a \in DOMAIN tables) /\ (c \in DOMAIN tables => b \in DOMAIN tables)
  BY DEF TablesHang
<1> HIDE DEF a, b, c
<1>5. CASE a \notin DOMAIN tables
  <2>1. W = {a, b} \cup {c}
    BY <1>2, <1>4, <1>5
  <2>2. IsFiniteSet({a}) /\ Cardinality({a}) = 1
    BY FS_Singleton
  <2>3. IsFiniteSet({a} \cup {b}) /\ Cardinality({a} \cup {b}) = 1 + 1
    BY <1>1, <2>2, FS_AddElement
  <2>4. {a} \cup {b} = {a, b}
    OBVIOUS
  <2>5. Cardinality({a, b} \cup {c}) = 2 + 1
    BY <1>1, <2>3, <2>4, FS_AddElement
  <2>6. Missing(va) = 3
    BY <1>3, <2>1, <2>5
  <2> QED
    BY <1>1, <1>2, <2>6
<1>6. CASE a \in DOMAIN tables /\ b \notin DOMAIN tables
  <2>1. W = {b} \cup {c}
    BY <1>2, <1>4, <1>6
  <2>2. IsFiniteSet({b}) /\ Cardinality({b}) = 1
    BY FS_Singleton
  <2>3. Cardinality({b} \cup {c}) = 1 + 1
    BY <1>1, <2>2, FS_AddElement
  <2>4. Missing(va) = 2
    BY <1>3, <2>1, <2>3
  <2> QED
    BY <1>1, <1>2, <1>6, <2>4
<1>7. CASE b \in DOMAIN tables /\ c \notin DOMAIN tables
  <2>1. W = {c}
    BY <1>2, <1>4, <1>7
  <2>2. Cardinality({c}) = 1
    BY FS_Singleton
  <2>3. Missing(va) = 1
    BY <1>3, <2>1, <2>2
  <2> QED
    BY <1>1, <1>2, <1>4, <1>7, <2>3
<1>8. CASE c \in DOMAIN tables
  <2>1. W = {}
    BY <1>2, <1>4, <1>8
  <2>2. Missing(va) = 0
    BY <1>3, <2>1, FS_EmptySet
  <2> QED
    BY <1>2, <1>4, <1>8, <2>2
<1> QED
  BY <1>5, <1>6, <1>7, <1>8

-----------------------------------------------------------------------------
(* Frames, tables and entries.                                             *)

\* The frames that are free are memory, none of the kernel and none of a table.
FreeInv ==
  /\ free \subseteq 1 .. Ram - 1 /\ free \cap KernelFrames = {}
  /\ \A t \in DOMAIN tables : tables[t].frame \notin free

\* The frame of a page of the program is its own.
LeafInv ==
  \A p \in DOMAIN leaves : leaves[p].user =>
    /\ leaves[p].frame \in 1 .. Ram - 1 /\ leaves[p].frame \notin free
    /\ leaves[p].frame \notin KernelFrames
    /\ \A t \in DOMAIN tables : tables[t].frame # leaves[p].frame
    /\ \A q \in DOMAIN leaves : leaves[q].user /\ leaves[q].frame = leaves[p].frame => p = q

\* The program can reach its pages.
WaysOpen ==
  \A p \in DOMAIN leaves : leaves[p].user =>
    \A k \in 1 .. 3 : Path(p, k) \in DOMAIN tables /\ tables[Path(p, k)].user

StoreInv == FreeInv /\ LeafInv /\ WaysOpen /\ TablesHang

\* What map_page does to the entries of the last level.
Entered(va, entry) ==
  /\ DOMAIN leaves' = DOMAIN leaves \cup {va}
  /\ leaves'[va] = entry
  /\ \A p \in DOMAIN leaves \ {va} : leaves'[p] = leaves[p]

\* What map_page does to the tables, with the frames number n + 1 to N.
TablesMade(va, user, n, N) ==
  /\ DOMAIN tables' = DOMAIN tables \cup WayTo(va)
  /\ \A t \in DOMAIN tables' : \/ t \in DOMAIN tables /\ tables'[t].frame = tables[t].frame
                               \/ \E i \in n + 1 .. N : tables'[t].frame = Frame(i)
  /\ \A t \in DOMAIN tables : tables[t].user => tables'[t].user
  /\ user => \A t \in WayTo(va) : tables'[t].user

\* map_page gives each missing table one of the frames behind the first n.
LEMMA MapPageEffect ==
  ASSUME TablesHang, NEW va \in Nat, NEW n \in Nat, NEW frame, NEW user \in BOOLEAN, NEW writable,
         map_page(va, frame, user, writable, n)
  PROVE  Entered(va, LeafEntry(frame, user, writable)) /\ TablesMade(va, user, n, n + Missing(va))
<1>1. Entered(va, LeafEntry(frame, user, writable))
  BY DEF map_page, Entered
<1>2. /\ DOMAIN tables' = DOMAIN tables \cup WayTo(va)
      /\ \A t \in DOMAIN tables' :
           /\ t \in DOMAIN tables => tables'[t].frame = tables[t].frame
           /\ t \notin DOMAIN tables => tables'[t].frame = Frame(n + Len(t) - 3 + Missing(va))
           /\ t \in DOMAIN tables /\ tables[t].user => tables'[t].user
           /\ user /\ t \in WayTo(va) => tables'[t].user
  BY DEF map_page
<1>3. ASSUME NEW t \in DOMAIN tables', t \notin DOMAIN tables
      PROVE  \E i \in n + 1 .. n + Missing(va) : tables'[t].frame = Frame(i)
  <2>1. t \in WayTo(va)
    BY <1>2, <1>3
  <2>2. Missing(va) \in 0 .. 3 /\ Len(t) - 3 + Missing(va) \in 1 .. Missing(va)
    BY <1>3, <2>1, MissingFacts
  <2>3. Len(t) \in Nat
    BY <2>1, PathLen DEF WayTo
  <2>4. n + Len(t) - 3 + Missing(va) \in n + 1 .. n + Missing(va)
    BY <2>2, <2>3
  <2>5. tables'[t].frame = Frame(n + Len(t) - 3 + Missing(va))
    BY <1>2, <1>3
  <2> QED
    BY <2>4, <2>5
<1>4. TablesMade(va, user, n, n + Missing(va))
  BY <1>2, <1>3 DEF TablesMade
<1> QED
  BY <1>1, <1>4

\* map_page keeps the store in order: with the first of the frames it takes for the page
\* when it is one of the program.
LEMMA MapPageKeeps ==
  ASSUME StoreInv, NEW va \in Nat, NEW n \in Nat, NEW frame, NEW user \in BOOLEAN, NEW writable,
         map_page(va, frame, user, writable, n), free' = FreeAfter(n + Missing(va)),
         n + Missing(va) <= Cardinality(free),
         user => n = 1 /\ frame = Frame(1)
  PROVE  /\ StoreInv' /\ Entered(va, LeafEntry(frame, user, writable))
         /\ user => frame \in free
<1> DEFINE N == n + Missing(va)
<1>1. N \in Nat
  BY MissingFacts DEF StoreInv
<1>2. /\ \A i \in 1 .. N : Frame(i) \in free /\ Frame(i) \notin free'
      /\ \A i, j \in 1 .. N : Frame(i) = Frame(j) => i = j
      /\ free' \subseteq free
  BY <1>1, FramesGiven DEF StoreInv, FreeInv
<1>3. Entered(va, LeafEntry(frame, user, writable)) /\ TablesMade(va, user, n, N)
  BY MapPageEffect DEF StoreInv
<1> HIDE DEF N
<1>4. \A i \in n + 1 .. N : i \in 1 .. N /\ i # n
  BY <1>1
<1>5. user => frame \in free /\ frame \notin free' /\ \A i \in n + 1 .. N : Frame(i) # frame
  <2> SUFFICES ASSUME user PROVE frame \in free /\ frame \notin free' /\ \A i \in n + 1 .. N : Frame(i) # frame
    OBVIOUS
  <2>1. n = 1 /\ frame = Frame(1)
    OBVIOUS
  <2>2. 1 \in 1 .. N
    <3>1. 1 + Missing(va) = N /\ Missing(va) \in Nat
      BY <2>1, MissingFacts DEF N, StoreInv
    <3> QED
      BY <3>1
  <2> QED
    BY <1>2, <1>4, <2>1, <2>2
<1>6. FreeInv'
  <2>1. ASSUME NEW t \in DOMAIN tables' PROVE tables'[t].frame \notin free'
    BY <1>2, <1>3, <1>4 DEF TablesMade, StoreInv, FreeInv
  <2> QED
    BY <1>2, <2>1 DEF StoreInv, FreeInv, KernelFrames
<1>7. LeafInv'
  <2> SUFFICES ASSUME NEW p \in DOMAIN leaves', leaves'[p].user
               PROVE  /\ leaves'[p].frame \in 1 .. Ram - 1 /\ leaves'[p].frame \notin free'
                      /\ leaves'[p].frame \notin KernelFrames
                      /\ \A t \in DOMAIN tables' : tables'[t].frame # leaves'[p].frame
                      /\ \A q \in DOMAIN leaves' : leaves'[q].user /\ leaves'[q].frame = leaves'[p].frame => p = q
    BY DEF LeafInv, KernelFrames
  <2>1. \A q \in DOMAIN leaves' : leaves'[q].user =>
          \/ q = va /\ user /\ leaves'[q].frame = frame
          \/ q # va /\ q \in DOMAIN leaves /\ leaves[q].user /\ leaves'[q].frame = leaves[q].frame
    BY <1>3 DEF Entered, LeafEntry
  <2>2. CASE p = va /\ user /\ leaves'[p].frame = frame
    <3>1. frame \in 1 .. Ram - 1 /\ frame \notin KernelFrames
      BY <1>5, <2>2 DEF StoreInv, FreeInv
    <3>2. \A t \in DOMAIN tables' : tables'[t].frame # frame
      BY <1>3, <1>5, <2>2 DEF TablesMade, StoreInv, FreeInv
    <3>3. \A q \in DOMAIN leaves' : leaves'[q].user /\ leaves'[q].frame = frame => p = q
      BY <1>5, <2>1, <2>2 DEF StoreInv, LeafInv
    <3> QED
      BY <1>5, <2>2, <3>1, <3>2, <3>3
  <2>3. CASE p # va /\ p \in DOMAIN leaves /\ leaves[p].user /\ leaves'[p].frame = leaves[p].frame
    <3> DEFINE f == leaves[p].frame
    <3>0. /\ f \in 1 .. Ram - 1 /\ f \notin free /\ f \notin KernelFrames
          /\ \A t \in DOMAIN tables : tables[t].frame # f
          /\ \A q \in DOMAIN leaves : leaves[q].user /\ leaves[q].frame = f => p = q
      BY <2>3 DEF StoreInv, LeafInv
    <3>1. leaves'[p].frame = f
      BY <2>3
    <3> HIDE DEF f
    <3>2. \A t \in DOMAIN tables' : tables'[t].frame # f
      BY <1>2, <1>3, <1>4, <3>0 DEF TablesMade
    <3>3. \A q \in DOMAIN leaves' : leaves'[q].user /\ leaves'[q].frame = f => p = q
      BY <1>5, <2>1, <3>0
    <3> QED
      BY <1>2, <3>0, <3>1, <3>2, <3>3
  <2> QED
    BY <2>1, <2>2, <2>3
<1>8. WaysOpen'
  <2> SUFFICES ASSUME NEW p \in DOMAIN leaves', leaves'[p].user, NEW k \in 1 .. 3
               PROVE  Path(p, k) \in DOMAIN tables' /\ tables'[Path(p, k)].user
    BY DEF WaysOpen, Path
  <2>1. CASE p = va
    <3>1. user /\ Path(p, k) \in WayTo(va)
      BY <1>3, <2>1 DEF Entered, LeafEntry, WayTo
    <3> QED
      BY <1>3, <3>1 DEF TablesMade
  <2>2. CASE p # va
    <3>1. p \in DOMAIN leaves /\ leaves[p].user
      BY <1>3, <2>2 DEF Entered
    <3>2. Path(p, k) \in DOMAIN tables /\ tables[Path(p, k)].user
      BY <3>1 DEF StoreInv, WaysOpen
    <3> QED
      BY <1>3, <3>2 DEF TablesMade
  <2> QED
    BY <2>1, <2>2
<1>9. TablesHang'
  <2>0. DOMAIN tables' = DOMAIN tables \cup WayTo(va)
    BY <1>3 DEF TablesMade
  <2>1. ASSUME NEW wa \in Nat, NEW k \in {1, 2}, Path(wa, k + 1) \in DOMAIN tables'
        PROVE  Path(wa, k) \in DOMAIN tables'
    <3>1. CASE Path(wa, k + 1) \in DOMAIN tables
      <4>1. k = 1 \/ k = 2
        OBVIOUS
      <4> QED
        BY <2>0, <3>1, <4>1 DEF StoreInv, TablesHang
    <3>2. CASE Path(wa, k + 1) \in WayTo(va)
      <4>1. PICK j \in 1 .. 3 : Path(wa, k + 1) = Path(va, j)
        BY <3>2 DEF WayTo
      <4>2. k + 1 \in 1 .. 3 /\ k \in 1 .. k + 1 /\ k \in 1 .. 3
        OBVIOUS
      <4>3. Path(wa, k) = Path(va, k)
        BY <4>1, <4>2, PathsMeet
      <4> QED
        BY <2>0, <4>2, <4>3 DEF WayTo
    <3> QED
      BY <2>0, <2>1, <3>1, <3>2
  <2>2. 1 + 1 = 2 /\ 2 + 1 = 3 /\ 1 \in {1, 2} /\ 2 \in {1, 2}
    OBVIOUS
  <2>3. \A wa \in Nat : /\ Path(wa, 2) \in DOMAIN tables' => Path(wa, 1) \in DOMAIN tables'
                        /\ Path(wa, 3) \in DOMAIN tables' => Path(wa, 2) \in DOMAIN tables'
    BY <2>1, <2>2
  <2> QED
    BY <2>3 DEF TablesHang, Path
<1> QED
  BY <1>3, <1>5, <1>6, <1>7, <1>8, <1>9 DEF StoreInv

\* Frames taken for something else.
LEMMA FramesTaken ==
  ASSUME StoreInv, free # {}, free' = FreeAfter(1), UNCHANGED <<leaves, tables>>
  PROVE  StoreInv' /\ Frame(1) \in free /\ Frame(1) \notin free'
<1>1. IsFiniteSet(free)
  <2>1. Ram - 1 \in Int /\ 1 \in Int
    BY MachineAssumption
  <2>2. IsFiniteSet(1 .. Ram - 1)
    BY <2>1, FS_Interval
  <2> QED
    BY <2>2, FS_Subset DEF StoreInv, FreeInv
<1>2. Cardinality(free) \in Nat /\ 1 <= Cardinality(free)
  <2>1. Cardinality(free) \in Nat /\ (Cardinality(free) = 0 <=> free = {})
    BY <1>1, FS_CardinalityType, FS_EmptySet
  <2> QED
    BY <2>1
<1>3. 1 \in Nat /\ 1 \in 1 .. 1
  OBVIOUS
<1>4. Frame(1) \in free /\ Frame(1) \notin free' /\ free' \subseteq free
  BY <1>2, <1>3, FramesGiven DEF StoreInv, FreeInv
<1>5. FreeInv' /\ LeafInv'
  BY <1>4 DEF StoreInv, FreeInv, LeafInv, KernelFrames
<1>6. WaysOpen' /\ TablesHang'
  BY DEF StoreInv, WaysOpen, TablesHang, Path
<1> QED
  BY <1>4, <1>5, <1>6 DEF StoreInv

-----------------------------------------------------------------------------
(* The segments of the program.                                            *)

\* A sum that did not wrap is the sum.
LEMMA PlusNoWrap ==
  ASSUME NEW a \in 0 .. Space - 1, NEW b \in 0 .. Space - 1, Plus(a, b) >= a
  PROVE  Plus(a, b) = a + b
<1> DEFINE q == (a + b) \div Space
           r == (a + b) % Space
<1>0. Space \in Nat \ {0} /\ a \in Nat /\ b \in Nat /\ b < Space
  BY MachineAssumption
<1>1. q \in Nat /\ r \in 0 .. Space - 1 /\ a + b = Space * q + r
  <2> DEFINE x == a + b
  <2>1. x \in Nat
    BY <1>0
  <2> HIDE DEF x
  <2>2. x \div Space \in Nat /\ x % Space \in 0 .. Space - 1 /\ x = Space * (x \div Space) + (x % Space)
    BY <1>0, <2>1, PageOfCell
  <2> QED
    BY <2>2, Zenon DEF x
<1>2. Plus(a, b) = r
  BY DEF Plus
<1> HIDE DEF q, r
<1>3. ASSUME q >= 1 PROVE FALSE
  <2>1. Space * q >= Space
    BY <1>0, <1>1, <1>3
  <2>2. Space * q \in Nat
    BY <1>0, <1>1
  <2> QED
    BY <1>0, <1>1, <1>2, <2>1, <2>2
<1>4. q = 0
  BY <1>1, <1>3
<1>5. Space * q = 0
  BY <1>0, <1>4
<1> QED
  BY <1>0, <1>1, <1>2, <1>5

\* The pages of a segment that was accepted.
LEMMA SegmentFacts ==
  ASSUME image \in Image, NEW i \in LoadSegs, SegmentOk(image.segs[i])
  PROVE  LET s == image.segs[i]
         IN  /\ s \in Segment /\ image.size \in Nat
             /\ s.vaddr \in Nat /\ s.memsz \in Nat /\ s.off \in Nat /\ s.filesz \in Nat
             /\ s.memsz >= 1 /\ s.filesz <= s.memsz
             /\ s.vaddr + s.memsz <= UserEnd /\ s.off + s.filesz <= image.size
             /\ \A p \in Pages(s) : p >= Ram /\ p \notin FbPages
<1> DEFINE s == image.segs[i]
<1>1. /\ image.size \in Nat /\ image.segs \in Seq(Segment)
      /\ \A j \in 1 .. Len(image.segs) :
            LET t == image.segs[j]
            IN  t.load /\ t.memsz # 0 /\ t.vaddr >= Cells /\ t.vaddr + t.memsz <= UserEnd =>
                  \A p \in Pages(t) : p >= Ram /\ p \notin FbPages
  BY ImageAssumption
<1>2. i \in 1 .. Len(image.segs) /\ s.load
  BY DEF LoadSegs
<1>3. s \in Segment
  BY <1>1, <1>2, ElementOfSeq
<1>4. /\ s.filesz <= s.memsz /\ Plus(s.off, s.filesz) <= image.size /\ Plus(s.off, s.filesz) >= s.off
      /\ s.memsz # 0 /\ s.vaddr >= Cells
      /\ Plus(s.vaddr, s.memsz) >= s.vaddr /\ Plus(s.vaddr, s.memsz) <= UserEnd
  BY DEF SegmentOk, user_range_ok
<1>5. s.load /\ s.memsz # 0 /\ s.vaddr >= Cells /\ s.vaddr + s.memsz <= UserEnd =>
        \A p \in Pages(s) : p >= Ram /\ p \notin FbPages
  BY <1>1, <1>2
<1> HIDE DEF s
<1>6. /\ s.vaddr \in 0 .. Space - 1 /\ s.memsz \in 0 .. Space - 1
      /\ s.off \in 0 .. Space - 1 /\ s.filesz \in 0 .. Space - 1
  BY <1>3 DEF Segment
<1>7. s.vaddr + s.memsz <= UserEnd /\ s.off + s.filesz <= image.size
  <2>1. Plus(s.vaddr, s.memsz) = s.vaddr + s.memsz /\ Plus(s.off, s.filesz) = s.off + s.filesz
    BY <1>4, <1>6, PlusNoWrap
  <2> QED
    BY <1>4, <2>1
<1>8. \A p \in Pages(s) : p >= Ram /\ p \notin FbPages
  <2>1. s.load /\ s.memsz # 0 /\ s.vaddr >= Cells /\ s.vaddr + s.memsz <= UserEnd
    BY <1>2, <1>4, <1>7
  <2> QED
    BY <1>5, <2>1
<1>9. s.vaddr \in Nat /\ s.memsz \in Nat /\ s.off \in Nat /\ s.filesz \in Nat /\ s.memsz >= 1
  BY <1>4, <1>6, MachineAssumption
<1>10. s.filesz <= s.memsz
  BY <1>4
<1>11. /\ s \in Segment /\ image.size \in Nat
       /\ s.vaddr \in Nat /\ s.memsz \in Nat /\ s.off \in Nat /\ s.filesz \in Nat
       /\ s.memsz >= 1 /\ s.filesz <= s.memsz
       /\ s.vaddr + s.memsz <= UserEnd /\ s.off + s.filesz <= image.size
       /\ \A p \in Pages(s) : p >= Ram /\ p \notin FbPages
  BY <1>1, <1>3, <1>7, <1>8, <1>9, <1>10
<1> QED
  BY <1>11 DEF s

\* Which pages lie before the end of a range, and in which page a cell lies.
LEMMA RangePages ==
  ASSUME NEW v \in Nat, NEW m \in Nat, m >= 1, NEW c \in Nat \ {0}
  PROVE  /\ v \div c \in Nat /\ (v + m - 1) \div c \in Nat /\ v \div c <= (v + m - 1) \div c
         /\ \A p \in Nat : p * c < v + m <=> p <= (v + m - 1) \div c
         /\ \A a \in v .. v + m - 1 : a \div c \in v \div c .. (v + m - 1) \div c
<1> DEFINE e == v + m - 1
           l == e \div c
           f == v \div c
<1>1. e \in Nat /\ v <= e
  OBVIOUS
<1>2. l \in Nat /\ l * c <= e /\ e < l * c + c
  <2> HIDE DEF e
  <2> QED
    BY <1>1, PageOfCell
<1>3. f \in Nat /\ f * c <= v /\ v < f * c + c
  BY PageOfCell
<1>4. ASSUME NEW p \in Nat PROVE p * c < v + m <=> p <= l
  <2>0. p * c \in Nat /\ l * c \in Nat
    BY <1>2
  <2>1. ASSUME p * c < v + m PROVE p <= l
    <3>1. p * c < l * c + c
      BY <1>2, <2>0, <2>1
    <3> QED
      BY <1>2, <3>1, PagesOrder
  <2>2. ASSUME p <= l PROVE p * c < v + m
    <3>1. p * c <= l * c
      <4> HIDE DEF l
      <4> QED
        BY <1>2, <2>2
    <3> QED
      BY <1>2, <2>0, <3>1
  <2> QED
    BY <2>1, <2>2
<1>5. ASSUME NEW a \in v .. v + m - 1 PROVE a \div c \in f .. l
  <2> DEFINE g == a \div c
  <2>1. a \in Nat /\ v <= a /\ a <= e
    OBVIOUS
  <2>2. g \in Nat /\ g * c <= a /\ a < g * c + c
    BY <2>1, PageOfCell
  <2> HIDE DEF g, f, l, e
  <2>3. f * c \in Nat /\ g * c \in Nat /\ l * c \in Nat
    BY <1>2, <1>3, <2>2
  <2>4. f * c < g * c + c /\ g * c < l * c + c
    BY <1>1, <1>2, <1>3, <2>1, <2>2, <2>3
  <2>5. f <= g /\ g <= l
    BY <1>2, <1>3, <2>2, <2>4, PagesOrder
  <2> QED
    BY <1>2, <1>3, <2>2, <2>5 DEF g, f, l, e
<1>6. f <= l
  <2>1. v \in v .. v + m - 1
    OBVIOUS
  <2>2. f \in f .. l
    BY <1>5, <2>1
  <2> QED
    BY <1>2, <1>3, <2>2
<1> QED
  BY <1>2, <1>3, <1>4, <1>5, <1>6

\* They are pages of the lower half that belong to nobody else.
LEMMA SegmentPages ==
  ASSUME image \in Image, NEW i \in LoadSegs, SegmentOk(image.segs[i])
  PROVE  LET s == image.segs[i]
         IN  /\ s.vaddr \div Cells \in Nat /\ (s.vaddr + s.memsz - 1) \div Cells \in Nat
             /\ s.vaddr \div Cells <= (s.vaddr + s.memsz - 1) \div Cells
             /\ \A p \in Nat : p * Cells < s.vaddr + s.memsz <=> p <= (s.vaddr + s.memsz - 1) \div Cells
             /\ \A a \in s.vaddr .. s.vaddr + s.memsz - 1 : a \div Cells \in Pages(s)
             /\ \A p \in Pages(s) : p \in Nat /\ p >= Ram /\ p \notin FbPages /\ p \notin KernelPages
<1> DEFINE s == image.segs[i]
           l == (s.vaddr + s.memsz - 1) \div Cells
           f == s.vaddr \div Cells
<1>1. /\ s.vaddr \in Nat /\ s.memsz \in Nat /\ s.memsz >= 1 /\ s.vaddr + s.memsz <= UserEnd
      /\ \A p \in Pages(s) : p >= Ram /\ p \notin FbPages
  BY SegmentFacts
<1>2. Cells \in Nat \ {0} /\ UserEnd \in Nat /\ UserEnd <= Kernel.virt * Cells /\ Kernel.virt \in Nat /\ Kernel.pages \in Nat
  BY MachineAssumption
<1> HIDE DEF s
<1>3. /\ f \in Nat /\ l \in Nat /\ f <= l
      /\ \A p \in Nat : p * Cells < s.vaddr + s.memsz <=> p <= l
      /\ \A a \in s.vaddr .. s.vaddr + s.memsz - 1 : a \div Cells \in f .. l
  BY <1>1, <1>2, RangePages
<1>4. Pages(s) = f .. l
  BY DEF Pages
<1> HIDE DEF f, l
<1>5. ASSUME NEW p \in Pages(s) PROVE p \in Nat /\ p \notin KernelPages
  <2>1. p \in Nat /\ p <= l
    BY <1>3, <1>4
  <2>2. p * Cells < s.vaddr + s.memsz
    BY <1>3, <2>1
  <2>3. p * Cells \in Nat /\ Kernel.virt * Cells \in Nat
    BY <1>2, <2>1
  <2>4. p * Cells < Kernel.virt * Cells
    BY <1>1, <1>2, <2>2, <2>3
  <2>5. p < Kernel.virt
    <3> SUFFICES ASSUME p >= Kernel.virt PROVE FALSE
      BY <1>2, <2>1
    <3>1. p * Cells >= Kernel.virt * Cells
      BY <1>2, <2>1
    <3> QED
      BY <2>3, <2>4, <3>1
  <2> QED
    BY <1>2, <2>1, <2>5 DEF KernelPages
<1> QED
  BY <1>1, <1>3, <1>4, <1>5 DEF s, f, l

-----------------------------------------------------------------------------
(* The invariant.                                                          *)

VmmSteps == {"pml4", "identity", "framebuffer", "kernel"}
ReadySteps == {"stat", "read", "header"}
LoadSteps == {"segment", "map"}
LoadedSteps == {"entry", "stack", "kstack", "user"}
Steps == VmmSteps \cup ReadySteps \cup LoadSteps \cup LoadedSteps \cup {"halted"}

\* n pages from virt on are mapped to those from phys on, for the kernel.
Mapped(l, virt, phys, n) ==
  \A k \in 0 .. n - 1 : virt + k \in DOMAIN l /\ l[virt + k] = LeafEntry(phys + k, FALSE, TRUE)

IdentityMapped == Mapped(leaves, 0, 0, Ram)
FramebufferMapped == Mapped(leaves, Framebuffer.base, Framebuffer.base, Framebuffer.pages)
KernelMapped == Mapped(leaves, Kernel.virt, Kernel.phys, Kernel.pages)

\* How far init_vmm has come.
VmmInv ==
  /\ pc.step = "pml4" => pc.page = 0
  /\ pc.step = "identity" => pc.page <= Ram /\ Mapped(leaves, 0, 0, pc.page)
  /\ pc.step = "framebuffer" =>
       IdentityMapped /\ pc.page <= Framebuffer.pages /\ Mapped(leaves, Framebuffer.base, Framebuffer.base, pc.page)
  /\ pc.step = "kernel" =>
       IdentityMapped /\ FramebufferMapped /\ pc.page <= Kernel.pages /\ Mapped(leaves, Kernel.virt, Kernel.phys, pc.page)
  /\ pc.step \notin VmmSteps => IdentityMapped /\ FramebufferMapped /\ KernelMapped

\* What was read of the file is in the buffer.
BufferHolds(n) == \A o \in 0 .. n - 1 : buf[o] = o + 1

ReadInv ==
  /\ pc.step \in VmmSteps \cup {"stat"} => pc.off = 0
  /\ pc.step = "read" => pc.off <= image.size /\ DOMAIN buf = 0 .. image.size - 1 /\ BufferHolds(pc.off)
  /\ pc.step \in {"header"} \cup LoadSteps \cup LoadedSteps => BufferHolds(image.size)

\* The segments before the current one were accepted.
SegInv ==
  /\ pc.seg \in 1 .. Len(image.segs) + 1
  /\ pc.step \in VmmSteps \cup ReadySteps => pc.seg = 1
  /\ \A i \in LoadSegs : i < pc.seg => SegmentOk(image.segs[i])
  /\ pc.step = "map" => /\ pc.seg \in LoadSegs /\ SegmentOk(image.segs[pc.seg])
                        /\ pc.page >= image.segs[pc.seg].vaddr \div Cells
  /\ pc.step \in LoadedSteps => pc.seg = Len(image.segs) + 1

\* Page p of segment i has been mapped.
PageLoaded(i, p) ==
  /\ i \in LoadSegs /\ p \in Pages(image.segs[i])
  /\ i < pc.seg \/ (i = pc.seg /\ pc.step = "map" /\ p < pc.page)

HasStack == pc.step \in {"kstack", "user"}

\* What page p of segment s must hold.
Filled(s, p) ==
  [c \in 0 .. Cells - 1 |->
     LET a == p * Cells + c
     IN  IF a >= s.vaddr /\ a < s.vaddr + s.filesz THEN s.off + (a - s.vaddr) + 1 ELSE 0]

\* The pages of the program are those that were mapped for it, with their contents.
UserInv ==
  /\ \A p : p \in DOMAIN leaves /\ leaves[p].user <=> (\E i \in LoadSegs : PageLoaded(i, p)) \/ (HasStack /\ p = StackPage)
  /\ \A p \in DOMAIN leaves : leaves[p].user => leaves[p].frame \in DOMAIN mem
  /\ \A i \in LoadSegs : Alone(i) =>
       \A p \in Pages(image.segs[i]) : PageLoaded(i, p) =>
         leaves[p].writable = image.segs[i].w /\ mem[leaves[p].frame] = Filled(image.segs[i], p)
  /\ HasStack => leaves[StackPage].writable
  /\ pc.step = "user" => \A p \in DOMAIN leaves : leaves[p].user => leaves[p].frame # kstack

ImageType == image \in Image /\ pc \in [step : Steps, page : Nat, seg : Nat, off : Nat]

ImageInv ==
  ImageType /\ (pc.step = "halted" \/ (StoreInv /\ VmmInv /\ ReadInv /\ SegInv /\ UserInv))

-----------------------------------------------------------------------------
(* init_vmm.                                                               *)

Halts == pc' = [pc EXCEPT !.step = "halted"] /\ UNCHANGED image

\* After a panic nothing is claimed.
LEMMA HaltKeeps ==
  ASSUME ImageType, Halts
  PROVE  ImageInv'
<1>1. pc' \in [step : Steps, page : Nat, seg : Nat, off : Nat] /\ pc'.step = "halted"
  BY DEF ImageType, Halts, Steps
<1> QED
  BY <1>1 DEF ImageType, Halts, ImageInv

\* The free frames can be counted.
LEMMA FreeCounted ==
  ASSUME FreeInv
  PROVE  IsFiniteSet(free) /\ Cardinality(free) \in Nat
<1>1. Ram - 1 \in Int /\ 1 \in Int
  BY MachineAssumption
<1>2. IsFiniteSet(1 .. Ram - 1)
  BY <1>1, FS_Interval
<1> QED
  BY <1>2, FS_Subset, FS_CardinalityType DEF FreeInv

\* A mapping is not disturbed by an entry elsewhere, nor by the same one.
LEMMA MappingStays ==
  ASSUME NEW v, NEW f, NEW n, Mapped(leaves, v, f, n), NEW va, NEW e, Entered(va, e),
         \A k \in 0 .. n - 1 : v + k = va => e = LeafEntry(f + k, FALSE, TRUE)
  PROVE  Mapped(leaves', v, f, n)
BY DEF Mapped, Entered

\* A mapping with the page after its last.
LEMMA MappingGrows ==
  ASSUME NEW v \in Nat, NEW f \in Nat, NEW n \in Nat, Mapped(leaves, v, f, n),
         Entered(v + n, LeafEntry(f + n, FALSE, TRUE))
  PROVE  Mapped(leaves', v, f, n + 1)
<1> SUFFICES ASSUME NEW k \in 0 .. (n + 1) - 1
             PROVE  v + k \in DOMAIN leaves' /\ leaves'[v + k] = LeafEntry(f + k, FALSE, TRUE)
  BY DEF Mapped
<1>1. CASE k = n
  BY <1>1 DEF Entered
<1>2. CASE k # n
  <2>1. k \in 0 .. n - 1 /\ v + k # v + n
    BY <1>2
  <2>2. v + k \in DOMAIN leaves /\ leaves[v + k] = LeafEntry(f + k, FALSE, TRUE)
    BY <2>1 DEF Mapped
  <2> QED
    BY <2>1, <2>2 DEF Entered
<1> QED
  BY <1>1, <1>2

\* One round of a range.
RangeOver(next) ==
  pc' = [pc EXCEPT !.step = next, !.page = 0] /\ UNCHANGED <<image, free, tables, leaves, mem, buf, kstack>>

RangeOn(va, entry) ==
  /\ pc' = [pc EXCEPT !.page = @ + 1] /\ UNCHANGED <<image, mem, buf, kstack>>
  /\ StoreInv' /\ Entered(va, entry)

\* map_range maps the next page, goes on to the next step or panics.
LEMMA RangeStep ==
  ASSUME ImageType, StoreInv, NEW step, NEW next, NEW virt \in Nat, NEW phys \in Nat, NEW n \in Nat,
         pc.page <= n, Mapped(leaves, virt, phys, pc.page), map_range(step, next, virt, phys, n)
  PROVE  /\ pc.step = step
         /\ \/ Halts
            \/ RangeOver(next) /\ Mapped(leaves, virt, phys, n)
            \/ /\ pc.page < n /\ RangeOn(virt + pc.page, LeafEntry(phys + pc.page, FALSE, TRUE))
               /\ Mapped(leaves', virt, phys, pc.page + 1)
<1>0. pc.step = step /\ pc.page \in Nat
  BY DEF map_range, ImageType
<1> DEFINE va == virt + pc.page
<1>1. CASE pc.page >= n
  <2>1. pc.page = n /\ ~(pc.page < n)
    BY <1>0, <1>1
  <2>2. RangeOver(next)
    BY <1>1, <2>1, Zenon DEF map_range, RangeOver
  <2> QED
    BY <1>0, <2>1, <2>2
<1>2. CASE pc.page < n /\ Cardinality(free) < Missing(va)
  <2>1. ~(pc.page >= n)
    BY <1>0, <1>2
  <2>2. panic
    BY <1>2, <2>1 DEF map_range
  <2> QED
    BY <1>0, <2>2 DEF panic, Halts
<1>3. CASE pc.page < n /\ ~(Cardinality(free) < Missing(va))
  <2>1. ~(pc.page >= n) /\ va \in Nat
    BY <1>0, <1>3
  <2>2. /\ map_kernel_page(va, phys + pc.page)
        /\ pc' = [pc EXCEPT !.page = @ + 1]
        /\ UNCHANGED <<image, mem, buf, kstack>>
    BY <1>3, <2>1 DEF map_range
  <2> HIDE DEF va
  <2>3. map_page(va, phys + pc.page, FALSE, TRUE, 0) /\ free' = FreeAfter(Missing(va))
    BY <2>2 DEF map_kernel_page
  <2>4. 0 + Missing(va) = Missing(va) /\ 0 + Missing(va) <= Cardinality(free) /\ 0 \in Nat
    BY <1>3, <2>1, FreeCounted, MissingFacts DEF StoreInv
  <2>5. StoreInv' /\ Entered(va, LeafEntry(phys + pc.page, FALSE, TRUE))
    BY <2>1, <2>3, <2>4, MapPageKeeps
  <2>6. Mapped(leaves', virt, phys, pc.page + 1)
    BY <1>0, <2>5, MappingGrows DEF va
  <2> QED
    BY <1>0, <1>3, <2>2, <2>5, <2>6 DEF RangeOn, va
<1>4. pc.page >= n \/ pc.page < n
  BY <1>0
<1> QED
  BY <1>1, <1>2, <1>3, <1>4, Zenon

NobodyYet == \A p \in DOMAIN leaves : ~leaves[p].user

\* While init_vmm runs nothing belongs to the program.
LEMMA VmmState ==
  ASSUME ReadInv, SegInv, UserInv, pc.step \in VmmSteps
  PROVE  pc.seg = 1 /\ pc.off = 0 /\ NobodyYet
<1>1. pc.seg = 1 /\ pc.off = 0
  BY DEF ReadInv, SegInv
<1>2. ~HasStack /\ pc.step # "map"
  BY DEF HasStack, VmmSteps
<1>3. \A i \in LoadSegs : \A p : ~PageLoaded(i, p)
  <2>1. \A i \in LoadSegs : ~(i < 1)
    BY DEF LoadSegs
  <2> QED
    BY <1>1, <1>2, <2>1 DEF PageLoaded
<1> QED
  BY <1>1, <1>2, <1>3 DEF UserInv, NobodyYet

\* An image has a size and a number of segments.
LEMMA SegsCounted ==
  ASSUME image \in Image
  PROVE  Len(image.segs) \in Nat /\ image.size \in Nat
<1>1. image.segs \in Seq(Segment) /\ image.size \in Nat
  BY ImageAssumption
<1> QED
  BY <1>1, LenProperties

\* The same after a step of it.
LEMMA VmmStateNext ==
  ASSUME image \in Image, UNCHANGED image, pc' \in [step : Steps, page : Nat, seg : Nat, off : Nat],
         pc'.step \in VmmSteps \cup {"stat"}, pc'.seg = 1, pc'.off = 0, NobodyYet', StoreInv', VmmInv'
  PROVE  ImageInv'
<1>1. ImageType'
  BY DEF ImageType
<1>2. /\ pc'.step \notin {"header"} \cup LoadSteps \cup LoadedSteps /\ pc'.step # "read"
      /\ pc'.step # "map" /\ ~HasStack' /\ pc'.step # "user"
  BY DEF VmmSteps, LoadSteps, LoadedSteps, HasStack
<1>3. ReadInv'
  BY <1>2 DEF ReadInv
<1>4. \A i \in LoadSegs' : ~(i < pc'.seg) /\ i # 0
  BY DEF LoadSegs
<1>5. SegInv'
  <2>1. pc'.seg \in 1 .. Len(image'.segs) + 1
    BY SegsCounted
  <2>2. pc'.step \notin LoadedSteps
    BY <1>2
  <2> QED
    BY <1>2, <1>4, <2>1, <2>2 DEF SegInv
<1>6. \A i, p : ~PageLoaded(i, p)'
  BY <1>2, <1>4 DEF PageLoaded
<1>7. UserInv'
  BY <1>2, <1>6 DEF UserInv, NobodyYet
<1> QED
  BY <1>1, <1>3, <1>5, <1>7 DEF ImageInv

\* init_vmm: the first table.
LEMMA InitVmmStep ==
  ASSUME ImageInv, init_vmm
  PROVE  ImageInv'
<1>0. ImageType /\ pc.step = "pml4"
  BY DEF ImageInv, init_vmm
<1>1. CASE free = {}
  <2>1. Halts
    BY <1>1 DEF init_vmm, panic, Halts
  <2> QED
    BY <1>0, <2>1, HaltKeeps
<1>2. CASE free # {}
  <2>0. StoreInv /\ VmmInv /\ ReadInv /\ SegInv /\ UserInv
    BY <1>0 DEF ImageInv
  <2>1. pc.seg = 1 /\ pc.off = 0 /\ NobodyYet /\ pc.page = 0
    BY <1>0, <2>0, VmmState DEF VmmSteps, VmmInv
  <2>2. /\ DOMAIN tables' = {<<>>} /\ tables'[<<>>].frame = Frame(1)
        /\ free' = FreeAfter(1) /\ pc' = [pc EXCEPT !.step = "identity"]
        /\ UNCHANGED <<image, leaves, mem, buf, kstack>>
    BY <1>2 DEF init_vmm
  <2>3. /\ pc' \in [step : Steps, page : Nat, seg : Nat, off : Nat] /\ pc'.step = "identity"
        /\ pc'.seg = 1 /\ pc'.off = 0 /\ pc'.page = 0
    BY <1>0, <2>1, <2>2 DEF ImageType, Steps, VmmSteps
  <2>4. 1 <= Cardinality(free) /\ 1 \in Nat /\ 1 \in 1 .. 1
    <3>1. Cardinality(free) \in Nat /\ (Cardinality(free) = 0 <=> free = {})
      BY <2>0, FreeCounted, FS_EmptySet DEF StoreInv
    <3> QED
      BY <1>2, <3>1
  <2>5. Frame(1) \in free /\ Frame(1) \notin free' /\ free' \subseteq free
    BY <2>0, <2>2, <2>4, FramesGiven DEF StoreInv, FreeInv
  <2>6. FreeInv'
    BY <2>0, <2>2, <2>5 DEF StoreInv, FreeInv, KernelFrames
  <2>7. LeafInv' /\ WaysOpen'
    BY <2>1, <2>2 DEF NobodyYet, LeafInv, WaysOpen
  <2>8. TablesHang'
    <3>1. \A va \in Nat : Path(va, 2) # <<>> /\ Path(va, 3) # <<>>
      <4> SUFFICES ASSUME NEW va \in Nat PROVE Path(va, 2) # <<>> /\ Path(va, 3) # <<>>
        OBVIOUS
      <4>1. Len(Path(va, 2)) = 2 /\ Len(Path(va, 3)) = 3
        BY PathLen
      <4> QED
        BY <4>1
    <3> QED
      BY <2>2, <3>1 DEF TablesHang, Path
  <2>9. VmmInv'
    <3>1. Ram \in Nat
      BY MachineAssumption
    <3>2. Mapped(leaves', 0, 0, pc'.page)
      BY <2>3 DEF Mapped
    <3>3. pc'.step \in VmmSteps
      BY <2>3 DEF VmmSteps
    <3> QED
      BY <2>3, <3>1, <3>2, <3>3 DEF VmmInv
  <2>10. NobodyYet'
    BY <2>1, <2>2 DEF NobodyYet
  <2> QED
    BY <1>0, <2>2, <2>3, <2>6, <2>7, <2>8, <2>9, <2>10, VmmStateNext DEF ImageType, StoreInv, VmmSteps
<1> QED
  BY <1>1, <1>2

\* The two ways a range goes on, apart from what it maps.
LEMMA RangeKeeps ==
  ASSUME ImageInv, pc.step \in VmmSteps, NEW next \in VmmSteps \cup {"stat"}, NEW va, NEW frame,
         RangeOver(next) \/ RangeOn(va, LeafEntry(frame, FALSE, TRUE)), VmmInv'
  PROVE  ImageInv'
<1>0. ImageType /\ StoreInv /\ SegInv /\ UserInv /\ ReadInv
  BY DEF ImageInv, VmmSteps
<1>1. pc.seg = 1 /\ pc.off = 0 /\ NobodyYet
  BY <1>0, VmmState
<1>2. CASE RangeOver(next)
  <2>1. StoreInv' /\ NobodyYet'
    BY <1>0, <1>1, <1>2 DEF RangeOver, StoreInv, FreeInv, LeafInv, WaysOpen, TablesHang, NobodyYet, Path, KernelFrames
  <2>2. /\ pc' \in [step : Steps, page : Nat, seg : Nat, off : Nat] /\ pc'.step = next
        /\ pc'.seg = 1 /\ pc'.off = 0
    BY <1>0, <1>1, <1>2 DEF RangeOver, ImageType, Steps, ReadySteps
  <2> QED
    BY <1>0, <1>2, <2>1, <2>2, VmmStateNext DEF ImageType, RangeOver
<1>3. CASE RangeOn(va, LeafEntry(frame, FALSE, TRUE))
  <2>1. NobodyYet'
    BY <1>1, <1>3 DEF RangeOn, Entered, LeafEntry, NobodyYet
  <2>2. /\ pc' \in [step : Steps, page : Nat, seg : Nat, off : Nat] /\ pc'.step = pc.step
        /\ pc'.seg = 1 /\ pc'.off = 0
    BY <1>0, <1>1, <1>3 DEF RangeOn, ImageType
  <2> QED
    BY <1>0, <1>3, <2>1, <2>2, VmmStateNext DEF ImageType, RangeOn
<1> QED
  BY <1>2, <1>3

\* The program counter after a round of a range.
LEMMA RangePc ==
  ASSUME ImageType, NEW next, NEW va, NEW e
  PROVE  /\ RangeOver(next) => pc'.step = next /\ pc'.page = 0 /\ UNCHANGED leaves
         /\ RangeOn(va, e) => pc'.step = pc.step /\ pc'.page = pc.page + 1
BY DEF ImageType, RangeOver, RangeOn

\* The constants of the machine in the form they are used in.
LEMMA MachineFacts ==
  /\ Ram \in Nat /\ Framebuffer.base \in Nat /\ Framebuffer.pages \in Nat
  /\ Kernel.virt \in Nat /\ Kernel.phys \in Nat /\ Kernel.pages \in Nat
  /\ \A p \in KernelPages : p >= Ram /\ p \notin FbPages
  /\ \A v, f, l : Mapped(l, v, f, 0)
BY MachineAssumption DEF Mapped

\* map_identity: all of memory at its own addresses.
LEMMA IdentityStep ==
  ASSUME ImageInv, map_identity
  PROVE  ImageInv'
<1>0. ImageType /\ pc.step = "identity" /\ StoreInv /\ VmmInv
  BY DEF ImageInv, map_identity, map_range
<1>1. pc.page \in Nat /\ pc.page <= Ram /\ Mapped(leaves, 0, 0, pc.page) /\ 0 \in Nat
  BY <1>0 DEF VmmInv, ImageType
<1> DEFINE p == pc.page
           e == LeafEntry(0 + p, FALSE, TRUE)
           next == "framebuffer"
<1>2. \/ Halts
      \/ RangeOver(next) /\ Mapped(leaves, 0, 0, Ram)
      \/ p < Ram /\ RangeOn(0 + p, e) /\ Mapped(leaves', 0, 0, p + 1)
  <2>1. map_range("identity", "framebuffer", 0, 0, Ram)
    BY DEF map_identity
  <2> QED
    BY <1>0, <1>1, <2>1, MachineFacts, RangeStep
<1>3. CASE Halts
  BY <1>0, <1>3, HaltKeeps
<1>4. pc.step \in VmmSteps /\ next \in VmmSteps \cup {"stat"}
  BY <1>0 DEF VmmSteps
<1>5. CASE RangeOver(next) /\ Mapped(leaves, 0, 0, Ram)
  <2>1. pc'.step = "framebuffer" /\ pc'.page = 0 /\ UNCHANGED leaves
    BY <1>0, <1>5, RangePc
  <2>2. VmmInv'
    BY <1>5, <2>1, MachineFacts DEF VmmInv, IdentityMapped, VmmSteps
  <2> QED
    BY <1>4, <1>5, <2>2, RangeKeeps
<1>6. CASE p < Ram /\ RangeOn(0 + p, e) /\ Mapped(leaves', 0, 0, p + 1)
  <2>1. pc'.step = "identity" /\ pc'.page = p + 1
    BY <1>0, <1>6, RangePc
  <2>2. p + 1 <= Ram
    BY <1>1, <1>6, MachineFacts
  <2>3. VmmInv'
    BY <1>6, <2>1, <2>2 DEF VmmInv, VmmSteps
  <2> QED
    BY <1>4, <1>6, <2>3, RangeKeeps
<1> QED
  BY <1>2, <1>3, <1>5, <1>6

\* map_framebuffer: the same entries where it overlaps memory.
LEMMA FramebufferStep ==
  ASSUME ImageInv, map_framebuffer
  PROVE  ImageInv'
<1> DEFINE p == pc.page
           b == Framebuffer.base
           n == Framebuffer.pages
           e == LeafEntry(b + p, FALSE, TRUE)
           next == "kernel"
<1>0. ImageType /\ pc.step = "framebuffer" /\ StoreInv /\ VmmInv
  BY DEF ImageInv, map_framebuffer, map_range
<1>1. p \in Nat /\ p <= n /\ Mapped(leaves, b, b, p) /\ Mapped(leaves, 0, 0, Ram)
  BY <1>0 DEF VmmInv, ImageType, IdentityMapped
<1>2. \/ Halts
      \/ RangeOver(next) /\ Mapped(leaves, b, b, n)
      \/ p < n /\ RangeOn(b + p, e) /\ Mapped(leaves', b, b, p + 1)
  <2>1. map_range("framebuffer", "kernel", b, b, n)
    BY DEF map_framebuffer
  <2> QED
    BY <1>0, <1>1, <2>1, MachineFacts, RangeStep
<1>3. CASE Halts
  BY <1>0, <1>3, HaltKeeps
<1>4. pc.step \in VmmSteps /\ next \in VmmSteps \cup {"stat"}
  BY <1>0 DEF VmmSteps
<1>5. CASE RangeOver(next) /\ Mapped(leaves, b, b, n)
  <2>1. pc'.step = "kernel" /\ pc'.page = 0 /\ UNCHANGED leaves
    BY <1>0, <1>5, RangePc
  <2>2. VmmInv'
    BY <1>1, <1>5, <2>1, MachineFacts DEF VmmInv, IdentityMapped, FramebufferMapped, VmmSteps
  <2> QED
    BY <1>4, <1>5, <2>2, RangeKeeps
<1>6. CASE p < n /\ RangeOn(b + p, e) /\ Mapped(leaves', b, b, p + 1)
  <2>1. pc'.step = "framebuffer" /\ pc'.page = p + 1
    BY <1>0, <1>6, RangePc
  <2>2. p + 1 <= n
    BY <1>1, <1>6, MachineFacts
  <2>3. Mapped(leaves', 0, 0, Ram)
    <3>1. \A k \in 0 .. Ram - 1 : 0 + k = b + p => e = LeafEntry(0 + k, FALSE, TRUE)
      OBVIOUS
    <3>2. Entered(b + p, e)
      BY <1>6 DEF RangeOn
    <3> QED
      BY <1>1, <3>1, <3>2, MappingStays
  <2>4. VmmInv'
    BY <1>6, <2>1, <2>2, <2>3 DEF VmmInv, VmmSteps, IdentityMapped
  <2> QED
    BY <1>4, <1>6, <2>4, RangeKeeps
<1> QED
  BY <1>2, <1>3, <1>5, <1>6

\* map_kernel_image: pages above all others.
LEMMA KernelImageStep ==
  ASSUME ImageInv, map_kernel_image
  PROVE  ImageInv'
<1> DEFINE p == pc.page
           b == Framebuffer.base
           n == Kernel.pages
           e == LeafEntry(Kernel.phys + p, FALSE, TRUE)
           next == "stat"
<1>0. ImageType /\ pc.step = "kernel" /\ StoreInv /\ VmmInv
  BY DEF ImageInv, map_kernel_image, map_range
<1>1. /\ p \in Nat /\ p <= n /\ Mapped(leaves, Kernel.virt, Kernel.phys, p)
      /\ Mapped(leaves, 0, 0, Ram) /\ Mapped(leaves, b, b, Framebuffer.pages)
  BY <1>0 DEF VmmInv, ImageType, IdentityMapped, FramebufferMapped
<1>2. \/ Halts
      \/ RangeOver(next) /\ Mapped(leaves, Kernel.virt, Kernel.phys, n)
      \/ p < n /\ RangeOn(Kernel.virt + p, e) /\ Mapped(leaves', Kernel.virt, Kernel.phys, p + 1)
  <2>1. map_range("kernel", "stat", Kernel.virt, Kernel.phys, n)
    BY DEF map_kernel_image
  <2> QED
    BY <1>0, <1>1, <2>1, MachineFacts, RangeStep
<1>3. CASE Halts
  BY <1>0, <1>3, HaltKeeps
<1>4. pc.step \in VmmSteps /\ next \in VmmSteps \cup {"stat"}
  BY <1>0 DEF VmmSteps
<1>5. CASE RangeOver(next) /\ Mapped(leaves, Kernel.virt, Kernel.phys, n)
  <2>1. pc'.step = "stat" /\ pc'.page = 0 /\ UNCHANGED leaves
    BY <1>0, <1>5, RangePc
  <2>2. VmmInv'
    BY <1>1, <1>5, <2>1 DEF VmmInv, IdentityMapped, FramebufferMapped, KernelMapped
  <2> QED
    BY <1>4, <1>5, <2>2, RangeKeeps
<1>6. CASE p < n /\ RangeOn(Kernel.virt + p, e) /\ Mapped(leaves', Kernel.virt, Kernel.phys, p + 1)
  <2>1. pc'.step = "kernel" /\ pc'.page = p + 1
    BY <1>0, <1>6, RangePc
  <2>2. p + 1 <= n
    BY <1>1, <1>6, MachineFacts
  <2>3. Entered(Kernel.virt + p, e)
    BY <1>6 DEF RangeOn
  <2>4. Kernel.virt + p >= Ram /\ Kernel.virt + p \notin FbPages
    <3>1. Kernel.virt + p \in KernelPages
      BY <1>1, <1>6, MachineFacts DEF KernelPages
    <3> QED
      BY <3>1, MachineFacts
  <2>5. Mapped(leaves', 0, 0, Ram)
    <3>1. \A k \in 0 .. Ram - 1 : 0 + k # Kernel.virt + p
      BY <1>1, <2>4, MachineFacts
    <3> QED
      BY <1>1, <2>3, <3>1, MappingStays
  <2>6. Mapped(leaves', b, b, Framebuffer.pages)
    <3>1. \A k \in 0 .. Framebuffer.pages - 1 : b + k # Kernel.virt + p
      BY <1>1, <2>4, MachineFacts DEF FbPages
    <3> QED
      BY <1>1, <2>3, <3>1, MappingStays
  <2>7. VmmInv'
    BY <1>6, <2>1, <2>2, <2>5, <2>6 DEF VmmInv, VmmSteps, IdentityMapped, FramebufferMapped
  <2> QED
    BY <1>4, <1>6, <2>7, RangeKeeps
<1> QED
  BY <1>2, <1>3, <1>5, <1>6

-----------------------------------------------------------------------------
(* user_enter_init.                                                        *)

\* A step that maps nothing.
Quiet ==
  /\ UNCHANGED <<image, free, tables, leaves, mem, kstack>>
  /\ pc' \in [step : Steps, page : Nat, seg : Nat, off : Nat]
  /\ pc'.step \in ReadySteps \cup LoadSteps \cup {"entry", "stack"}

SameLoaded ==
  \A i, p : PageLoaded(i, p)' <=> PageLoaded(i, p)

LEMMA QuietKeeps ==
  ASSUME ImageInv, pc.step \in ReadySteps \cup LoadSteps \cup {"entry", "stack"}, Quiet, ReadInv', SegInv', SameLoaded
  PROVE  ImageInv'
<1>0. ImageType /\ StoreInv /\ VmmInv /\ UserInv
  BY DEF ImageInv, ReadySteps, LoadSteps
<1>1. ImageType'
  BY <1>0 DEF ImageType, Quiet
<1>2. StoreInv'
  BY <1>0 DEF StoreInv, FreeInv, LeafInv, WaysOpen, TablesHang, Path, KernelFrames, Quiet
<1>3. pc.step \notin VmmSteps /\ pc'.step \notin VmmSteps /\ ~HasStack /\ ~HasStack' /\ pc'.step # "user"
  BY DEF Quiet, VmmSteps, ReadySteps, LoadSteps, HasStack
<1>4. VmmInv'
  BY <1>0, <1>3 DEF VmmInv, VmmSteps, Quiet, IdentityMapped, FramebufferMapped, KernelMapped
<1>5. UserInv'
  <2>1. LoadSegs' = LoadSegs /\ (\A i : Alone(i)' <=> Alone(i)) /\ image' = image /\ leaves' = leaves /\ mem' = mem
    BY DEF LoadSegs, Alone, Pages, Quiet
  <2>2. \A p : p \in DOMAIN leaves' /\ leaves'[p].user <=> \E i \in LoadSegs' : PageLoaded(i, p)'
    BY <1>0, <1>3, <2>1 DEF UserInv, SameLoaded
  <2>3. \A p \in DOMAIN leaves' : leaves'[p].user => leaves'[p].frame \in DOMAIN mem'
    BY <1>0, <2>1 DEF UserInv
  <2>4. \A i \in LoadSegs' : Alone(i)' =>
          \A p \in Pages(image'.segs[i]) : PageLoaded(i, p)' =>
            leaves'[p].writable = image'.segs[i].w /\ mem'[leaves'[p].frame] = Filled(image'.segs[i], p)
    BY <1>0, <2>1 DEF UserInv, SameLoaded
  <2> QED
    BY <1>3, <2>2, <2>3, <2>4 DEF UserInv, Pages, Filled
<1> QED
  BY <1>1, <1>2, <1>4, <1>5 DEF ImageInv

\* Going on with the same segment, no page of which is being mapped.
LEMMA SameSegment ==
  ASSUME ImageType, pc.step # "map", pc'.step # "map", pc'.seg = pc.seg, UNCHANGED image
  PROVE  SameLoaded
BY DEF SameLoaded, PageLoaded, LoadSegs, Pages

\* The program counter at another step.
LEMMA GotoPc ==
  ASSUME ImageType, NEW step, pc' = [pc EXCEPT !.step = step]
  PROVE  pc'.step = step /\ pc'.page = pc.page /\ pc'.seg = pc.seg /\ pc'.off = pc.off
         /\ (step \in Steps => pc' \in [step : Steps, page : Nat, seg : Nat, off : Nat])
BY DEF ImageType

\* load_stat: the buffer is made.
LEMMA StatStep ==
  ASSUME ImageInv, NEW found, load_stat(found)
  PROVE  ImageInv'
<1>0. ImageType /\ pc.step = "stat" /\ ReadInv /\ SegInv
  BY DEF ImageInv, load_stat
<1>1. CASE panic
  BY <1>0, <1>1, HaltKeeps DEF panic, Halts
<1>2. CASE buf' = [o \in 0 .. image.size - 1 |-> Junk] /\ Goto("read")
  <2>1. /\ pc'.step = "read" /\ pc'.seg = pc.seg /\ pc'.off = pc.off
        /\ pc' \in [step : Steps, page : Nat, seg : Nat, off : Nat]
    BY <1>0, <1>2, GotoPc DEF Goto, Steps, ReadySteps
  <2>2. pc.off = 0 /\ pc.seg = 1
    BY <1>0 DEF ReadInv, SegInv, ReadySteps
  <2>3. UNCHANGED <<image, free, tables, leaves, mem, kstack>>
    BY <1>2 DEF Goto
  <2>4. Quiet
    BY <2>1, <2>3 DEF Quiet, ReadySteps
  <2>5. image.size \in Nat
    BY <1>0, SegsCounted DEF ImageType
  <2>6. ReadInv'
    BY <1>2, <2>1, <2>2, <2>3, <2>5 DEF ReadInv, BufferHolds, VmmSteps, LoadSteps, LoadedSteps
  <2>7. SegInv'
    BY <1>0, <2>1, <2>2, <2>3 DEF SegInv, VmmSteps, ReadySteps, LoadedSteps, LoadSegs, SegmentOk, user_range_ok
  <2>8. SameLoaded
    BY <1>0, <2>1, <2>3, SameSegment
  <2> QED
    BY <1>0, <2>4, <2>6, <2>7, <2>8, QuietKeeps DEF ReadySteps
<1> QED
  BY <1>1, <1>2 DEF load_stat

\* load_file_to_mem: another piece of the file is in the buffer.
LEMMA ReadStep ==
  ASSUME ImageInv, load_file_to_mem
  PROVE  ImageInv'
<1>0. ImageType /\ pc.step = "read" /\ ReadInv /\ SegInv
  BY DEF ImageInv, load_file_to_mem
<1>1. /\ pc.off \in Nat /\ pc.off <= image.size /\ DOMAIN buf = 0 .. image.size - 1
      /\ BufferHolds(pc.off) /\ pc.seg = 1 /\ image.size \in Nat
  BY <1>0, SegsCounted DEF ReadInv, SegInv, ReadySteps, ImageType
<1>2. CASE panic
  BY <1>0, <1>2, HaltKeeps DEF panic, Halts
<1>3. CASE pc.off = image.size /\ Goto("header") /\ UNCHANGED buf
  <2>1. /\ pc'.step = "header" /\ pc'.seg = pc.seg /\ pc'.off = pc.off
        /\ pc' \in [step : Steps, page : Nat, seg : Nat, off : Nat]
    BY <1>0, <1>3, GotoPc DEF Goto, Steps, ReadySteps
  <2>2. UNCHANGED <<image, free, tables, leaves, mem, kstack>>
    BY <1>3 DEF Goto
  <2>3. Quiet
    BY <2>1, <2>2 DEF Quiet, ReadySteps
  <2>4. ReadInv'
    BY <1>1, <1>3, <2>1, <2>2 DEF ReadInv, BufferHolds, VmmSteps
  <2>5. SegInv'
    BY <1>0, <1>1, <2>1, <2>2 DEF SegInv, VmmSteps, ReadySteps, LoadedSteps, LoadSegs, SegmentOk, user_range_ok
  <2>6. SameLoaded
    BY <1>0, <2>1, <2>2, SameSegment
  <2> QED
    BY <1>0, <2>3, <2>4, <2>5, <2>6, QuietKeeps DEF ReadySteps
<1>4. ASSUME NEW n \in 1 .. image.size - pc.off,
             buf' = [o \in DOMAIN buf |-> IF o \in pc.off .. pc.off + n - 1 THEN o + 1 ELSE buf[o]],
             pc' = [pc EXCEPT !.off = @ + n],
             UNCHANGED <<image, free, tables, leaves, mem, kstack>>
      PROVE  ImageInv'
  <2>1. /\ pc'.step = "read" /\ pc'.seg = pc.seg /\ pc'.off = pc.off + n
        /\ pc' \in [step : Steps, page : Nat, seg : Nat, off : Nat]
    BY <1>0, <1>1, <1>4 DEF ImageType
  <2>2. Quiet
    BY <1>4, <2>1 DEF Quiet, ReadySteps
  <2>3. ASSUME NEW o \in 0 .. pc.off + n - 1 PROVE buf'[o] = o + 1
    <3>1. o \in DOMAIN buf
      BY <1>1
    <3>2. o \notin pc.off .. pc.off + n - 1 => o \in 0 .. pc.off - 1
      BY <1>1
    <3> QED
      BY <1>1, <1>4, <3>1, <3>2 DEF BufferHolds
  <2>4. ReadInv'
    <3>1. \A o \in 0 .. pc'.off - 1 : buf'[o] = o + 1
      <4>1. \A o \in 0 .. pc.off + n - 1 : buf'[o] = o + 1
        BY <2>3
      <4>2. pc'.off = pc.off + n
        BY <2>1
      <4>3. pc'.off - 1 = pc.off + n - 1
        BY <1>1, <4>2
      <4> QED
        BY <4>1, <4>3
    <3>2. pc'.off <= image'.size /\ DOMAIN buf' = 0 .. image'.size - 1
      <4>1. pc.off + n <= image.size
        BY <1>1
      <4>2. DOMAIN buf' = DOMAIN buf
        BY <1>4
      <4> QED
        BY <1>1, <1>4, <2>1, <4>1, <4>2
    <3> QED
      BY <2>1, <3>1, <3>2 DEF ReadInv, VmmSteps, LoadSteps, LoadedSteps, BufferHolds
  <2>5. SegInv'
    BY <1>0, <1>1, <1>4, <2>1 DEF SegInv, VmmSteps, ReadySteps, LoadedSteps, LoadSegs, SegmentOk, user_range_ok
  <2>6. SameLoaded
    BY <1>0, <1>4, <2>1, SameSegment
  <2> QED
    BY <1>0, <2>2, <2>4, <2>5, <2>6, QuietKeeps DEF ReadySteps
<1> QED
  BY <1>2, <1>3, <1>4 DEF load_file_to_mem

\* check_ehdr maps nothing.
LEMMA HeaderStep ==
  ASSUME ImageInv, check_ehdr
  PROVE  ImageInv'
<1>0. ImageType /\ pc.step = "header" /\ ReadInv /\ SegInv
  BY DEF ImageInv, check_ehdr
<1>1. BufferHolds(image.size) /\ pc.seg = 1
  BY <1>0 DEF ReadInv, SegInv, ReadySteps
<1>2. CASE panic
  BY <1>0, <1>2, HaltKeeps DEF panic, Halts
<1>3. CASE Goto("segment") /\ UNCHANGED buf
  <2>1. /\ pc'.step = "segment" /\ pc'.seg = pc.seg
        /\ pc' \in [step : Steps, page : Nat, seg : Nat, off : Nat]
    BY <1>0, <1>3, GotoPc DEF Goto, Steps, LoadSteps
  <2>2. UNCHANGED <<image, free, tables, leaves, mem, kstack>>
    BY <1>3 DEF Goto
  <2>3. Quiet
    BY <2>1, <2>2 DEF Quiet, LoadSteps
  <2>4. ReadInv'
    BY <1>1, <1>3, <2>1, <2>2 DEF ReadInv, BufferHolds, VmmSteps
  <2>5. SegInv'
    BY <1>0, <1>1, <2>1, <2>2 DEF SegInv, VmmSteps, ReadySteps, LoadedSteps, LoadSegs, SegmentOk, user_range_ok
  <2>6. SameLoaded
    BY <1>0, <2>1, <2>2, SameSegment
  <2> QED
    BY <1>0, <2>3, <2>4, <2>5, <2>6, QuietKeeps DEF ReadySteps
<1> QED
  BY <1>2, <1>3 DEF check_ehdr

\* check_entry maps nothing.
LEMMA EntryStep ==
  ASSUME ImageInv, check_entry
  PROVE  ImageInv'
<1>0. ImageType /\ pc.step = "entry" /\ ReadInv /\ SegInv
  BY DEF ImageInv, check_entry
<1>1. BufferHolds(image.size) /\ pc.seg = Len(image.segs) + 1
  BY <1>0 DEF ReadInv, SegInv, LoadedSteps
<1>2. CASE panic
  BY <1>0, <1>2, HaltKeeps DEF panic, Halts
<1>3. CASE Goto("stack") /\ UNCHANGED buf
  <2>1. /\ pc'.step = "stack" /\ pc'.seg = pc.seg
        /\ pc' \in [step : Steps, page : Nat, seg : Nat, off : Nat]
    BY <1>0, <1>3, GotoPc DEF Goto, Steps, LoadedSteps
  <2>2. UNCHANGED <<image, free, tables, leaves, mem, kstack>>
    BY <1>3 DEF Goto
  <2>3. Quiet
    BY <2>1, <2>2 DEF Quiet
  <2>4. ReadInv'
    BY <1>1, <1>3, <2>1, <2>2 DEF ReadInv, BufferHolds, VmmSteps
  <2>5. SegInv'
    BY <1>0, <1>1, <2>1, <2>2 DEF SegInv, VmmSteps, ReadySteps, LoadedSteps, LoadSegs, SegmentOk, user_range_ok
  <2>6. SameLoaded
    BY <1>0, <2>1, <2>2, SameSegment
  <2> QED
    BY <1>0, <2>3, <2>4, <2>5, <2>6, QuietKeeps
<1> QED
  BY <1>2, <1>3 DEF check_entry

\* What the invariant of the segments needs when the image stays.
LEMMA SegOkSame ==
  ASSUME UNCHANGED image
  PROVE  LoadSegs' = LoadSegs /\ \A s : SegmentOk(s)' <=> SegmentOk(s)
BY DEF LoadSegs, SegmentOk, user_range_ok

\* map_elf_image: a header is skipped, refused, or its segment begun.
LEMMA HeadersStep ==
  ASSUME ImageInv, map_elf_image
  PROVE  ImageInv'
<1> DEFINE s == image.segs[pc.seg]
           n == Len(image.segs)
<1>0. ImageType /\ pc.step = "segment" /\ ReadInv /\ SegInv
  BY DEF ImageInv, map_elf_image
<1>1. /\ BufferHolds(image.size) /\ pc.seg \in 1 .. n + 1 /\ n \in Nat
      /\ \A i \in LoadSegs : i < pc.seg => SegmentOk(image.segs[i])
  BY <1>0, SegsCounted DEF ReadInv, SegInv, LoadSteps, ImageType
<1>2. pc.step \in ReadySteps \cup LoadSteps \cup {"entry", "stack"}
  BY <1>0 DEF LoadSteps
<1>3. pc.seg > n \/ pc.seg <= n
  BY <1>1
<1>4. CASE pc.seg > n
  <2>0. ~(pc.seg <= n) /\ pc.seg = n + 1
    BY <1>1, <1>4
  <2>1. Goto("entry") /\ UNCHANGED buf
    BY <1>4, <2>0 DEF map_elf_image
  <2>2. /\ pc'.step = "entry" /\ pc'.seg = pc.seg
        /\ pc' \in [step : Steps, page : Nat, seg : Nat, off : Nat]
    BY <1>0, <2>1, GotoPc DEF Goto, Steps, LoadedSteps
  <2>3. UNCHANGED <<image, free, tables, leaves, mem, kstack>>
    BY <2>1 DEF Goto
  <2>4. Quiet
    BY <2>2, <2>3 DEF Quiet
  <2>5. ReadInv'
    BY <1>1, <2>1, <2>2, <2>3 DEF ReadInv, BufferHolds, VmmSteps
  <2>6. SegInv'
    BY <1>1, <2>0, <2>2, <2>3, SegOkSame DEF SegInv, VmmSteps, ReadySteps
  <2>7. SameLoaded
    BY <1>0, <2>2, <2>3, SameSegment
  <2> QED
    BY <1>2, <2>4, <2>5, <2>6, <2>7, QuietKeeps
<1>5. CASE pc.seg <= n /\ ~s.load
  <2>0. ~(pc.seg > n) /\ pc.seg \in Nat /\ pc.seg \notin LoadSegs
    BY <1>1, <1>5 DEF LoadSegs
  <2>1. /\ pc' = [pc EXCEPT !.seg = @ + 1]
        /\ UNCHANGED <<image, free, tables, leaves, mem, buf, kstack>>
    BY <1>5, <2>0 DEF map_elf_image
  <2>2. /\ pc'.step = "segment" /\ pc'.seg = pc.seg + 1
        /\ pc' \in [step : Steps, page : Nat, seg : Nat, off : Nat]
    BY <1>0, <2>0, <2>1 DEF ImageType
  <2>3. Quiet
    BY <2>1, <2>2 DEF Quiet, LoadSteps
  <2>4. ReadInv'
    BY <1>1, <2>1, <2>2 DEF ReadInv, BufferHolds, VmmSteps
  <2>5. \A i \in LoadSegs : i < pc.seg + 1 <=> i < pc.seg
    BY <1>1, <2>0 DEF LoadSegs
  <2>6. SegInv'
    <3>1. pc'.seg \in 1 .. n + 1
      BY <1>1, <1>5, <2>2
    <3> QED
      BY <1>1, <2>1, <2>2, <2>5, <3>1, SegOkSame DEF SegInv, VmmSteps, ReadySteps, LoadedSteps
  <2>7. SameLoaded
    BY <1>0, <2>1, <2>2, <2>5 DEF SameLoaded, PageLoaded, LoadSegs, Pages
  <2> QED
    BY <1>2, <2>3, <2>4, <2>6, <2>7, QuietKeeps
<1>6. CASE pc.seg <= n /\ s.load /\ ~SegmentOk(s)
  <2>0. ~(pc.seg > n)
    BY <1>1, <1>6
  <2>1. panic
    BY <1>6, <2>0 DEF map_elf_image
  <2> QED
    BY <1>0, <2>1, HaltKeeps DEF panic, Halts
<1>7. CASE pc.seg <= n /\ s.load /\ SegmentOk(s)
  <2>0. ~(pc.seg > n) /\ pc.seg \in Nat /\ pc.seg \in LoadSegs
    BY <1>1, <1>7 DEF LoadSegs
  <2> DEFINE f == s.vaddr \div Cells
             l == (s.vaddr + s.memsz - 1) \div Cells
  <2>1. /\ pc' = [pc EXCEPT !.step = "map", !.page = f]
        /\ UNCHANGED <<image, free, tables, leaves, mem, buf, kstack>>
    BY <1>7, <2>0 DEF map_elf_image
  <2>2. f \in Nat /\ l \in Nat /\ Pages(s) = f .. l
    BY <1>0, <1>7, <2>0, SegmentPages DEF ImageType, Pages
  <2> HIDE DEF f, l
  <2>3. /\ pc'.step = "map" /\ pc'.seg = pc.seg /\ pc'.page = f
        /\ pc' \in [step : Steps, page : Nat, seg : Nat, off : Nat]
    BY <1>0, <2>1, <2>2 DEF ImageType, Steps, LoadSteps
  <2>4. Quiet
    BY <2>1, <2>3 DEF Quiet, LoadSteps
  <2>5. ReadInv'
    BY <1>1, <2>1, <2>3 DEF ReadInv, BufferHolds, VmmSteps
  <2>6. SegInv'
    <3>1. pc'.page >= image'.segs[pc'.seg].vaddr \div Cells
      BY <2>1, <2>2, <2>3 DEF f
    <3> QED
      BY <1>1, <1>7, <2>0, <2>1, <2>3, <3>1, SegOkSame DEF SegInv, VmmSteps, ReadySteps, LoadedSteps
  <2>7. SameLoaded
    <3>1. \A p \in Pages(s) : ~(p < f)
      BY <2>2
    <3> QED
      BY <1>0, <2>0, <2>1, <2>3, <3>1 DEF SameLoaded, PageLoaded, LoadSegs, Pages
  <2> QED
    BY <1>2, <2>4, <2>5, <2>6, <2>7, QuietKeeps
<1> QED
  BY <1>3, <1>4, <1>5, <1>6, <1>7

\* The program counter at the next program header.
LEMMA NextSegmentPc ==
  ASSUME ImageType, pc' = [pc EXCEPT !.step = "segment", !.seg = @ + 1]
  PROVE  /\ pc'.step = "segment" /\ pc'.seg = pc.seg + 1
         /\ pc' \in [step : Steps, page : Nat, seg : Nat, off : Nat]
<1> DEFINE q == [pc EXCEPT !.step = "segment"]
<1>1. q \in [step : Steps, page : Nat, seg : Nat, off : Nat] /\ q.step = "segment" /\ q.seg = pc.seg
  BY DEF ImageType, Steps, LoadSteps
<1>2. pc' = [q EXCEPT !.seg = pc.seg + 1]
  BY DEF ImageType
<1> HIDE DEF q
<1>3. pc.seg \in Nat
  BY DEF ImageType
<1> QED
  BY <1>1, <1>2, <1>3

\* All pages of a segment are mapped.
LEMMA SegmentOverStep ==
  ASSUME ImageInv, pc.step = "map",
         ~(pc.page * Cells < image.segs[pc.seg].vaddr + image.segs[pc.seg].memsz),
         pc' = [pc EXCEPT !.step = "segment", !.seg = @ + 1],
         UNCHANGED <<image, free, tables, leaves, mem, buf, kstack>>
  PROVE  ImageInv'
<1> DEFINE s == image.segs[pc.seg]
           n == Len(image.segs)
           f == s.vaddr \div Cells
           l == (s.vaddr + s.memsz - 1) \div Cells
<1>0. ImageType /\ ReadInv /\ SegInv
  BY DEF ImageInv
<1>1. /\ BufferHolds(image.size) /\ pc.seg \in 1 .. n + 1 /\ n \in Nat
      /\ \A i \in LoadSegs : i < pc.seg => SegmentOk(image.segs[i])
      /\ pc.seg \in LoadSegs /\ SegmentOk(s)
  BY <1>0, SegsCounted DEF ReadInv, SegInv, LoadSteps, ImageType
<1>2. pc.step \in ReadySteps \cup LoadSteps \cup {"entry", "stack"}
  BY DEF LoadSteps
<1>3. f \in Nat /\ l \in Nat /\ Pages(s) = f .. l /\ \A p \in Nat : p * Cells < s.vaddr + s.memsz <=> p <= l
  BY <1>0, <1>1, SegmentPages DEF ImageType, Pages
<1>4. pc.page \in Nat /\ pc.seg \in 1 .. n
  BY <1>0, <1>1 DEF ImageType, LoadSegs
<1>5. ~(pc.page <= l)
  <2> HIDE DEF l
  <2>1. pc.page * Cells < s.vaddr + s.memsz <=> pc.page <= l
    BY <1>3, <1>4, Zenon
  <2> QED
    BY <2>1, Zenon
<1>6. \A p \in Pages(s) : p < pc.page
  <2> HIDE DEF f, l
  <2> QED
    BY <1>3, <1>4, <1>5
<1>7. /\ pc'.step = "segment" /\ pc'.seg = pc.seg + 1
      /\ pc' \in [step : Steps, page : Nat, seg : Nat, off : Nat]
  BY <1>0, NextSegmentPc
<1>8. Quiet
  BY <1>7 DEF Quiet, LoadSteps
<1>9. ReadInv'
  BY <1>1, <1>7 DEF ReadInv, BufferHolds, VmmSteps
<1>10. \A i \in LoadSegs : i < pc.seg + 1 <=> (i < pc.seg \/ i = pc.seg)
  BY <1>4 DEF LoadSegs
<1>11. SegInv'
  <2>1. pc'.seg \in 1 .. n + 1
    BY <1>1, <1>4, <1>7
  <2> QED
    BY <1>1, <1>7, <1>10, <2>1, SegOkSame DEF SegInv, VmmSteps, ReadySteps, LoadedSteps
<1>12. SameLoaded
  BY <1>6, <1>7, <1>10 DEF SameLoaded, PageLoaded, LoadSegs, Pages
<1> QED
  BY <1>2, <1>8, <1>9, <1>11, <1>12, QuietKeeps

\* A page that was mapped for the program: frame f, taken from the free ones.
PageAdded(va, f, content, w) ==
  /\ StoreInv' /\ Entered(va, LeafEntry(f, TRUE, w))
  /\ IdentityMapped' /\ FramebufferMapped' /\ KernelMapped'
  /\ DOMAIN mem' = DOMAIN mem \cup {f} /\ mem'[f] = content
  /\ \A g \in DOMAIN mem \ {f} : mem'[g] = mem[g]
  /\ UNCHANGED <<image, buf, kstack>>

\* map_user_page maps a page or panics.
LEMMA UserPageEffect ==
  ASSUME StoreInv, IdentityMapped, FramebufferMapped, KernelMapped,
         NEW va \in Nat, va >= Ram, va \notin FbPages, va \notin KernelPages,
         NEW content, NEW w, NEW next, map_user_page(va, content, w, next)
  PROVE  Halts \/ (pc' = next /\ \E f \in free : PageAdded(va, f, content, w))
<1>1. CASE Cardinality(free) < 1 + Missing(va)
  BY <1>1 DEF map_user_page, panic, Halts
<1>2. CASE ~(Cardinality(free) < 1 + Missing(va))
  <2> DEFINE f == Frame(1)
  <2>1. /\ map_page(va, Frame(1), TRUE, w, 1)
        /\ free' = FreeAfter(1 + Missing(va))
        /\ mem' = [g \in DOMAIN mem \cup {f} |-> IF g = f THEN content ELSE mem[g]]
        /\ pc' = next
        /\ UNCHANGED <<image, buf, kstack>>
    BY <1>2 DEF map_user_page
  <2>2. 1 + Missing(va) <= Cardinality(free) /\ 1 \in Nat
    <3>1. Cardinality(free) \in Nat /\ Missing(va) \in Nat
      BY FreeCounted, MissingFacts DEF StoreInv
    <3> QED
      BY <1>2, <3>1
  <2>3. StoreInv' /\ Entered(va, LeafEntry(f, TRUE, w)) /\ f \in free
    BY <2>1, <2>2, MapPageKeeps
  <2> HIDE DEF f
  <2>4. Mapped(leaves', 0, 0, Ram)
    <3>1. \A k \in 0 .. Ram - 1 : 0 + k # va
      BY MachineFacts
    <3> QED
      BY <2>3, <3>1, MappingStays DEF IdentityMapped
  <2>5. Mapped(leaves', Framebuffer.base, Framebuffer.base, Framebuffer.pages)
    <3>1. \A k \in 0 .. Framebuffer.pages - 1 : Framebuffer.base + k # va
      BY MachineFacts DEF FbPages
    <3> QED
      BY <2>3, <3>1, MappingStays DEF FramebufferMapped
  <2>6. Mapped(leaves', Kernel.virt, Kernel.phys, Kernel.pages)
    <3>1. \A k \in 0 .. Kernel.pages - 1 : Kernel.virt + k # va
      BY MachineFacts DEF KernelPages
    <3> QED
      BY <2>3, <3>1, MappingStays DEF KernelMapped
  <2>7. /\ DOMAIN mem' = DOMAIN mem \cup {f} /\ mem'[f] = content
        /\ \A g \in DOMAIN mem \ {f} : mem'[g] = mem[g]
    BY <2>1
  <2>8. PageAdded(va, f, content, w)
    BY <2>1, <2>3, <2>4, <2>5, <2>6, <2>7 DEF PageAdded, IdentityMapped, FramebufferMapped, KernelMapped
  <2> QED
    BY <2>1, <2>3, <2>8
<1> QED
  BY <1>1, <1>2

\* What is to be shown of the program's pages after that.
Wanted(p) == (\E i \in LoadSegs : PageLoaded(i, p)) \/ (HasStack /\ p = StackPage)

\* A page that was added is right if what it should hold is in it.
LEMMA PageAddedKeeps ==
  ASSUME UserInv, StoreInv, ~HasStack, NEW va, NEW f \in free, NEW content, NEW w, PageAdded(va, f, content, w),
         pc'.step # "user",
         \A p : Wanted(p)' <=> Wanted(p) \/ p = va,
         \A i \in LoadSegs : Alone(i) => \A p \in Pages(image.segs[i]) : PageLoaded(i, p)' =>
           \/ p # va /\ PageLoaded(i, p)
           \/ p = va /\ w = image.segs[i].w /\ content = Filled(image.segs[i], p),
         HasStack' => va = StackPage /\ w
  PROVE  UserInv'
<1>1. LoadSegs' = LoadSegs /\ (\A i : Alone(i)' <=> Alone(i)) /\ image' = image
  BY DEF LoadSegs, Alone, Pages, PageAdded
<1>2. /\ DOMAIN leaves' = DOMAIN leaves \cup {va}
      /\ leaves'[va].user /\ leaves'[va].frame = f /\ leaves'[va].writable = w
      /\ \A p \in DOMAIN leaves \ {va} : leaves'[p] = leaves[p]
  BY DEF PageAdded, Entered, LeafEntry
<1>3. \A p : p \in DOMAIN leaves /\ leaves[p].user <=> Wanted(p)
  BY DEF UserInv, Wanted
<1>4. \A p : p \in DOMAIN leaves' /\ leaves'[p].user <=> Wanted(p)'
  BY <1>2, <1>3
<1>5. \A p \in DOMAIN leaves : leaves[p].user => leaves[p].frame \in DOMAIN mem /\ leaves[p].frame # f
  BY DEF UserInv, StoreInv, LeafInv
<1>6. DOMAIN mem' = DOMAIN mem \cup {f} /\ mem'[f] = content /\ \A g \in DOMAIN mem \ {f} : mem'[g] = mem[g]
  BY DEF PageAdded
<1>7. \A p \in DOMAIN leaves' : leaves'[p].user => leaves'[p].frame \in DOMAIN mem'
  BY <1>2, <1>5, <1>6
<1>8. ASSUME NEW i \in LoadSegs, Alone(i), NEW p \in Pages(image.segs[i]), PageLoaded(i, p)'
      PROVE  leaves'[p].writable = image.segs[i].w /\ mem'[leaves'[p].frame] = Filled(image.segs[i], p)
  <2>1. \/ p # va /\ PageLoaded(i, p)
        \/ p = va /\ w = image.segs[i].w /\ content = Filled(image.segs[i], p)
    BY <1>8
  <2>2. CASE p = va /\ w = image.segs[i].w /\ content = Filled(image.segs[i], p)
    BY <1>2, <1>6, <2>2
  <2>3. CASE p # va /\ PageLoaded(i, p)
    <3>1. p \in DOMAIN leaves /\ leaves[p].user
      BY <1>3, <2>3 DEF Wanted
    <3>2. leaves[p].writable = image.segs[i].w /\ mem[leaves[p].frame] = Filled(image.segs[i], p)
      BY <1>8, <2>3 DEF UserInv
    <3>3. leaves'[p] = leaves[p] /\ mem'[leaves[p].frame] = mem[leaves[p].frame]
      BY <1>2, <1>5, <1>6, <2>3, <3>1
    <3> QED
      BY <3>2, <3>3
  <2> QED
    BY <2>1, <2>2, <2>3
<1>9. \A i \in LoadSegs' : Alone(i)' =>
        \A p \in Pages(image'.segs[i]) : PageLoaded(i, p)' =>
          leaves'[p].writable = image'.segs[i].w /\ mem'[leaves'[p].frame] = Filled(image'.segs[i], p)
  BY <1>1, <1>8
<1>10. HasStack' => leaves'[StackPage].writable
  BY <1>2
<1> QED
  BY <1>4, <1>7, <1>9, <1>10 DEF UserInv, Wanted, Pages, Filled

\* A page of a segment is the part of the file that belongs there.
LEMMA PageCopied ==
  ASSUME image \in Image, NEW i \in LoadSegs, SegmentOk(image.segs[i]), BufferHolds(image.size), NEW va \in Nat
  PROVE  PageOf(image.segs[i], va) = Filled(image.segs[i], va)
<1> DEFINE s == image.segs[i]
<1>1. /\ s.vaddr \in Nat /\ s.off \in Nat /\ s.filesz \in Nat /\ image.size \in Nat
      /\ s.off + s.filesz <= image.size
  BY SegmentFacts
<1> HIDE DEF s
<1>2. ASSUME NEW c \in 0 .. Cells - 1
      PROVE  LET a == va * Cells + c
             IN  (IF a >= s.vaddr /\ a < s.vaddr + s.filesz THEN buf[s.off + (a - s.vaddr)] ELSE 0)
                  = (IF a >= s.vaddr /\ a < s.vaddr + s.filesz THEN s.off + (a - s.vaddr) + 1 ELSE 0)
  <2> DEFINE a == va * Cells + c
             o == s.off + (a - s.vaddr)
  <2>1. a \in Nat
    BY MachineAssumption
  <2> HIDE DEF a
  <2>2. ASSUME a >= s.vaddr /\ a < s.vaddr + s.filesz PROVE o \in 0 .. image.size - 1
    BY <1>1, <2>1, <2>2
  <2>3. ASSUME a >= s.vaddr /\ a < s.vaddr + s.filesz PROVE buf[o] = o + 1
    BY <2>2, <2>3 DEF BufferHolds
  <2>4. (IF a >= s.vaddr /\ a < s.vaddr + s.filesz THEN buf[o] ELSE 0)
          = (IF a >= s.vaddr /\ a < s.vaddr + s.filesz THEN o + 1 ELSE 0)
    <3> HIDE DEF o
    <3> QED
      BY <2>3
  <2> QED
    BY <2>4, Zenon DEF a
<1>3. PageOf(s, va) = Filled(s, va)
  BY <1>2 DEF PageOf, Filled
<1> QED
  BY <1>3 DEF s

\* map_one_segment: the next page of the segment.
LEMMA NextPageStep ==
  ASSUME ImageInv, pc.step = "map",
         pc.page * Cells < image.segs[pc.seg].vaddr + image.segs[pc.seg].memsz,
         map_user_page(pc.page, PageOf(image.segs[pc.seg], pc.page), image.segs[pc.seg].w, [pc EXCEPT !.page = @ + 1])
  PROVE  ImageInv'
<1> DEFINE s == image.segs[pc.seg]
           va == pc.page
           c == PageOf(s, va)
<1>0. ImageType /\ StoreInv /\ VmmInv /\ ReadInv /\ SegInv /\ UserInv
  BY DEF ImageInv
<1>1. /\ BufferHolds(image.size) /\ pc.seg \in LoadSegs /\ SegmentOk(s) /\ va >= s.vaddr \div Cells
      /\ \A i \in LoadSegs : i < pc.seg => SegmentOk(image.segs[i])
  BY <1>0 DEF ReadInv, SegInv, LoadSteps
<1>2. va \in Nat /\ pc.seg \in Nat /\ pc.seg \in 1 .. Len(image.segs)
  BY <1>0, <1>1 DEF ImageType, LoadSegs
<1>3. va \in Pages(s)
  <2> DEFINE f == s.vaddr \div Cells
             l == (s.vaddr + s.memsz - 1) \div Cells
  <2>1. /\ f \in Nat /\ l \in Nat /\ Pages(s) = f .. l
        /\ \A p \in Nat : p * Cells < s.vaddr + s.memsz <=> p <= l
    BY <1>0, <1>1, SegmentPages DEF ImageType, Pages
  <2>2. va >= f
    BY <1>1
  <2> HIDE DEF f, l
  <2>3. va * Cells < s.vaddr + s.memsz <=> va <= l
    BY <1>2, <2>1, Zenon
  <2>4. va <= l
    BY <2>3, Zenon
  <2> QED
    BY <1>2, <2>1, <2>2, <2>4
<1>4. va >= Ram /\ va \notin FbPages /\ va \notin KernelPages
  BY <1>0, <1>1, <1>3, SegmentPages DEF ImageType
<1>5. c = Filled(s, va)
  BY <1>0, <1>1, <1>2, PageCopied DEF ImageType
<1>6. IdentityMapped /\ FramebufferMapped /\ KernelMapped
  BY <1>0 DEF VmmInv, VmmSteps
<1>7. map_user_page(va, c, s.w, [pc EXCEPT !.page = @ + 1])
  OBVIOUS
<1> HIDE DEF c
<1>8. Halts \/ (pc' = [pc EXCEPT !.page = @ + 1] /\ \E f \in free : PageAdded(va, f, c, s.w))
  BY <1>0, <1>2, <1>4, <1>6, <1>7, UserPageEffect
<1>9. CASE Halts
  BY <1>0, <1>9, HaltKeeps
<1>10. ASSUME pc' = [pc EXCEPT !.page = @ + 1], NEW f \in free, PageAdded(va, f, c, s.w) PROVE ImageInv'
  <2>1. /\ pc'.step = "map" /\ pc'.seg = pc.seg /\ pc'.page = va + 1
        /\ pc' \in [step : Steps, page : Nat, seg : Nat, off : Nat]
    BY <1>0, <1>10 DEF ImageType
  <2>2. image' = image /\ buf' = buf
    BY <1>10 DEF PageAdded
  <2>3. ImageType'
    BY <1>0, <2>1, <2>2 DEF ImageType
  <2>4. VmmInv'
    BY <1>10, <2>1 DEF PageAdded, VmmInv
  <2>5. ReadInv'
    BY <1>1, <2>1, <2>2 DEF ReadInv, BufferHolds, VmmSteps
  <2>6. SegInv'
    <3>1. s.vaddr \div Cells \in Nat
      BY <1>0, <1>1, SegmentPages DEF ImageType
    <3>2. va + 1 >= s.vaddr \div Cells
      BY <1>1, <1>2, <3>1
    <3>3. pc'.page >= image'.segs[pc'.seg].vaddr \div Cells
      BY <2>1, <2>2, <3>2
    <3>4. pc'.seg \in 1 .. Len(image'.segs) + 1
      BY <1>0, <2>1, <2>2 DEF SegInv
    <3> QED
      BY <1>1, <2>1, <2>2, <3>3, <3>4, SegOkSame DEF SegInv, VmmSteps, ReadySteps, LoadedSteps
  <2>7. ~HasStack /\ ~HasStack' /\ pc'.step # "user"
    BY <2>1 DEF HasStack
  <2>8. \A p \in Pages(s) : p < va + 1 <=> (p < va \/ p = va)
    BY <1>0, <1>1, <1>2, SegmentPages DEF ImageType
  <2>9. \A i, p : PageLoaded(i, p)' <=> PageLoaded(i, p) \/ (i = pc.seg /\ p = va)
    BY <1>1, <1>3, <2>1, <2>2, <2>8 DEF PageLoaded, LoadSegs, Pages
  <2>10. \A p : Wanted(p)' <=> Wanted(p) \/ p = va
    <3>1. LoadSegs' = LoadSegs
      BY <2>2 DEF LoadSegs
    <3> QED
      BY <1>1, <2>7, <2>9, <3>1 DEF Wanted
  <2>11. ASSUME NEW i \in LoadSegs, Alone(i), NEW p \in Pages(image.segs[i]), PageLoaded(i, p)'
         PROVE  \/ p # va /\ PageLoaded(i, p)
                \/ p = va /\ s.w = image.segs[i].w /\ c = Filled(image.segs[i], p)
    <3>1. CASE i = pc.seg
      <4>1. p = va \/ p # va
        OBVIOUS
      <4> QED
        BY <1>5, <2>9, <2>11, <3>1, <4>1
    <3>2. CASE i # pc.seg
      <4>1. p # va
        BY <1>1, <1>3, <2>11, <3>2 DEF Alone
      <4> QED
        BY <2>9, <2>11, <3>2, <4>1
    <3> QED
      BY <3>1, <3>2
  <2>12. UserInv'
    BY <1>0, <1>10, <2>7, <2>10, <2>11, PageAddedKeeps
  <2>13. StoreInv'
    BY <1>10 DEF PageAdded
  <2> QED
    BY <2>3, <2>4, <2>5, <2>6, <2>12, <2>13 DEF ImageInv
<1> QED
  BY <1>8, <1>9, <1>10

\* Both ways of map_one_segment.
LEMMA MapSegmentStep ==
  ASSUME ImageInv, map_one_segment
  PROVE  ImageInv'
<1> DEFINE more == pc.page * Cells < image.segs[pc.seg].vaddr + image.segs[pc.seg].memsz
<1>1. pc.step = "map"
  BY DEF map_one_segment
<1>2. /\ more => map_user_page(pc.page, PageOf(image.segs[pc.seg], pc.page), image.segs[pc.seg].w, [pc EXCEPT !.page = @ + 1])
      /\ ~more => /\ pc' = [pc EXCEPT !.step = "segment", !.seg = @ + 1]
                  /\ UNCHANGED <<image, free, tables, leaves, mem, buf, kstack>>
  BY Zenon DEF map_one_segment
<1>3. CASE more
  BY <1>1, <1>2, <1>3, NextPageStep
<1>4. CASE ~more
  BY <1>1, <1>2, <1>4, SegmentOverStep
<1> QED
  BY <1>3, <1>4

\* setup_stack: the stack lies apart from the segments that are alone.
LEMMA StackStep ==
  ASSUME ImageInv, setup_stack
  PROVE  ImageInv'
<1> DEFINE va == StackPage
           c == [o \in 0 .. Cells - 1 |-> 0]
<1>0. ImageType /\ StoreInv /\ VmmInv /\ ReadInv /\ SegInv /\ UserInv /\ pc.step = "stack"
  BY DEF ImageInv, setup_stack
<1>1. /\ BufferHolds(image.size) /\ pc.seg = Len(image.segs) + 1
      /\ \A i \in LoadSegs : i < pc.seg => SegmentOk(image.segs[i])
  BY <1>0 DEF ReadInv, SegInv, LoadedSteps
<1>2. /\ va \in Nat /\ va >= Ram /\ va \notin FbPages /\ va * Cells < UserEnd /\ Cells \in Nat \ {0}
      /\ UserEnd \in Nat /\ UserEnd <= Kernel.virt * Cells
  BY MachineAssumption, ImageAssumption
<1>3. va \notin KernelPages
  <2>1. va < Kernel.virt
    <3> SUFFICES ASSUME va >= Kernel.virt PROVE FALSE
      BY <1>2, MachineFacts
    <3>1. va * Cells >= Kernel.virt * Cells /\ va * Cells \in Nat /\ Kernel.virt * Cells \in Nat
      BY <1>2, MachineFacts
    <3> QED
      BY <1>2, <3>1
  <2> QED
    BY <1>2, <2>1, MachineFacts DEF KernelPages
<1>4. IdentityMapped /\ FramebufferMapped /\ KernelMapped
  BY <1>0 DEF VmmInv, VmmSteps
<1>5. map_user_page(va, c, TRUE, [pc EXCEPT !.step = "kstack"])
  BY DEF setup_stack
<1> HIDE DEF c
<1>6. Halts \/ (pc' = [pc EXCEPT !.step = "kstack"] /\ \E f \in free : PageAdded(va, f, c, TRUE))
  BY <1>0, <1>2, <1>3, <1>4, <1>5, UserPageEffect
<1>7. CASE Halts
  BY <1>0, <1>7, HaltKeeps
<1>8. ASSUME pc' = [pc EXCEPT !.step = "kstack"], NEW f \in free, PageAdded(va, f, c, TRUE) PROVE ImageInv'
  <2>1. /\ pc'.step = "kstack" /\ pc'.seg = pc.seg
        /\ pc' \in [step : Steps, page : Nat, seg : Nat, off : Nat]
    BY <1>0, <1>8, GotoPc DEF Steps, LoadedSteps
  <2>2. image' = image /\ buf' = buf
    BY <1>8 DEF PageAdded
  <2>3. ImageType'
    BY <1>0, <2>1, <2>2 DEF ImageType
  <2>4. VmmInv'
    BY <1>8, <2>1 DEF PageAdded, VmmInv
  <2>5. ReadInv'
    BY <1>1, <2>1, <2>2 DEF ReadInv, BufferHolds, VmmSteps
  <2>6. SegInv'
    <3>1. pc'.seg \in 1 .. Len(image'.segs) + 1
      BY <1>0, <2>1, <2>2 DEF SegInv
    <3> QED
      BY <1>1, <2>1, <2>2, <3>1, SegOkSame DEF SegInv, VmmSteps, ReadySteps
  <2>7. ~HasStack /\ HasStack' /\ pc'.step # "user"
    BY <1>0, <2>1 DEF HasStack
  <2>8. \A i, p : PageLoaded(i, p)' <=> PageLoaded(i, p)
    BY <1>0, <2>1, <2>2 DEF PageLoaded, LoadSegs, Pages
  <2>9. \A p : Wanted(p)' <=> Wanted(p) \/ p = va
    <3>1. LoadSegs' = LoadSegs
      BY <2>2 DEF LoadSegs
    <3> QED
      BY <2>7, <2>8, <3>1 DEF Wanted
  <2>10. \A i \in LoadSegs : Alone(i) => \A p \in Pages(image.segs[i]) : PageLoaded(i, p)' => p # va /\ PageLoaded(i, p)
    BY <2>8 DEF Alone
  <2>11. UserInv'
    BY <1>0, <1>8, <2>7, <2>9, <2>10, PageAddedKeeps
  <2>12. StoreInv'
    BY <1>8 DEF PageAdded
  <2> QED
    BY <2>3, <2>4, <2>5, <2>6, <2>11, <2>12 DEF ImageInv
<1> QED
  BY <1>6, <1>7, <1>8

\* enter_user: the kernel's stack is a frame of its own.
LEMMA EnterStep ==
  ASSUME ImageInv, enter_user
  PROVE  ImageInv'
<1>0. ImageType /\ StoreInv /\ VmmInv /\ ReadInv /\ SegInv /\ UserInv /\ pc.step = "kstack"
  BY DEF ImageInv, enter_user
<1>1. CASE free = {}
  BY <1>0, <1>1, HaltKeeps DEF enter_user, panic, Halts
<1>2. CASE free # {}
  <2>0. /\ kstack' = Frame(1) /\ free' = FreeAfter(1)
        /\ pc' = [pc EXCEPT !.step = "user"]
        /\ UNCHANGED <<image, tables, leaves, mem, buf>>
    BY <1>2 DEF enter_user
  <2>1. /\ pc'.step = "user" /\ pc'.seg = pc.seg
        /\ pc' \in [step : Steps, page : Nat, seg : Nat, off : Nat]
    BY <1>0, <2>0, GotoPc DEF Steps, LoadedSteps
  <2>2. ImageType'
    BY <1>0, <2>0, <2>1 DEF ImageType
  <2>3. StoreInv' /\ Frame(1) \in free
    BY <1>0, <1>2, <2>0, FramesTaken
  <2>4. VmmInv'
    BY <1>0, <2>0, <2>1 DEF VmmInv, VmmSteps, IdentityMapped, FramebufferMapped, KernelMapped
  <2>5. ReadInv'
    BY <1>0, <2>0, <2>1 DEF ReadInv, BufferHolds, VmmSteps, LoadedSteps
  <2>6. SegInv'
    BY <1>0, <2>0, <2>1, SegOkSame DEF SegInv, VmmSteps, ReadySteps, LoadedSteps
  <2>7. \A i, p : PageLoaded(i, p)' <=> PageLoaded(i, p)
    BY <1>0, <2>0, <2>1 DEF PageLoaded, LoadSegs, Pages
  <2>8. HasStack /\ HasStack'
    BY <1>0, <2>1 DEF HasStack
  <2>9. \A p \in DOMAIN leaves' : leaves'[p].user => leaves'[p].frame # kstack'
    BY <1>0, <2>0, <2>3 DEF StoreInv, LeafInv
  <2>10. UserInv'
    <3>1. LoadSegs' = LoadSegs /\ (\A i : Alone(i)' <=> Alone(i)) /\ image' = image /\ leaves' = leaves /\ mem' = mem
      BY <2>0 DEF LoadSegs, Alone, Pages
    <3>2. \A p : p \in DOMAIN leaves' /\ leaves'[p].user <=> (\E i \in LoadSegs' : PageLoaded(i, p)') \/ (HasStack' /\ p = StackPage)
      BY <1>0, <2>7, <2>8, <3>1 DEF UserInv
    <3>3. \A i \in LoadSegs' : Alone(i)' =>
            \A p \in Pages(image'.segs[i]) : PageLoaded(i, p)' =>
              leaves'[p].writable = image'.segs[i].w /\ mem'[leaves'[p].frame] = Filled(image'.segs[i], p)
      BY <1>0, <2>7, <3>1 DEF UserInv
    <3>4. (\A p \in DOMAIN leaves' : leaves'[p].user => leaves'[p].frame \in DOMAIN mem') /\ leaves'[StackPage].writable
      BY <1>0, <2>8, <3>1 DEF UserInv
    <3> QED
      BY <2>9, <3>2, <3>3, <3>4 DEF UserInv, Pages, Filled
  <2> QED
    BY <2>2, <2>3, <2>4, <2>5, <2>6, <2>10 DEF ImageInv
<1> QED
  BY <1>1, <1>2

\* The invariant holds when init_vmm starts.
LEMMA ImageStart ==
  ASSUME ImageInit
  PROVE  ImageInv
<1>0. /\ image \in Image /\ free \in Pool /\ DOMAIN tables = {} /\ DOMAIN leaves = {}
      /\ pc = [step |-> "pml4", page |-> 0, seg |-> 1, off |-> 0]
  BY DEF ImageInit
<1>1. /\ pc.step = "pml4" /\ pc.page = 0 /\ pc.seg = 1 /\ pc.off = 0
      /\ pc \in [step : Steps, page : Nat, seg : Nat, off : Nat]
  BY <1>0 DEF Steps, VmmSteps
<1>2. ImageType
  BY <1>0, <1>1 DEF ImageType
<1>3. StoreInv
  BY <1>0, MachineAssumption DEF StoreInv, FreeInv, LeafInv, WaysOpen, TablesHang
<1>4. VmmInv
  BY <1>1 DEF VmmInv, VmmSteps
<1>5. ReadInv
  BY <1>1 DEF ReadInv, LoadSteps, LoadedSteps
<1>6. \A i \in LoadSegs : ~(i < 1)
  BY DEF LoadSegs
<1>7. SegInv
  <2>1. pc.seg \in 1 .. Len(image.segs) + 1
    BY <1>0, <1>1, SegsCounted
  <2> QED
    BY <1>1, <1>6, <2>1 DEF SegInv, LoadedSteps
<1>8. UserInv
  <2>1. ~HasStack
    BY <1>1 DEF HasStack
  <2>2. \A i, p : ~PageLoaded(i, p)
    BY <1>1, <1>6 DEF PageLoaded
  <2> QED
    BY <1>0, <1>1, <2>1, <2>2 DEF UserInv
<1> QED
  BY <1>2, <1>3, <1>4, <1>5, <1>7, <1>8 DEF ImageInv

\* Nobody else disturbs it.
LEMMA ImageStutters ==
  ASSUME ImageInv, UNCHANGED imageVars
  PROVE  ImageInv'
<1>0. /\ image' = image /\ free' = free /\ tables' = tables /\ leaves' = leaves /\ mem' = mem
      /\ buf' = buf /\ kstack' = kstack /\ pc' = pc
  BY DEF imageVars
<1>1. ImageType' <=> ImageType
  BY <1>0 DEF ImageType
<1>2. StoreInv' <=> StoreInv
  BY <1>0 DEF StoreInv, FreeInv, LeafInv, WaysOpen, TablesHang, Path, KernelFrames
<1>3. VmmInv' <=> VmmInv
  BY <1>0 DEF VmmInv, IdentityMapped, FramebufferMapped, KernelMapped, Mapped
<1>4. ReadInv' <=> ReadInv
  BY <1>0 DEF ReadInv, BufferHolds
<1>5. LoadSegs' = LoadSegs /\ (\A s : SegmentOk(s)' <=> SegmentOk(s)) /\ (\A i : Alone(i)' <=> Alone(i))
  BY <1>0 DEF LoadSegs, SegmentOk, user_range_ok, Alone, Pages
<1>6. SegInv' <=> SegInv
  BY <1>0, <1>5 DEF SegInv
<1>7. (\A i, p : PageLoaded(i, p)' <=> PageLoaded(i, p)) /\ (HasStack' <=> HasStack)
  BY <1>0, <1>5 DEF PageLoaded, HasStack, Pages
<1>8. UserInv => UserInv'
  BY <1>0, <1>5, <1>7 DEF UserInv, Pages, Filled
<1> QED
  BY <1>0, <1>1, <1>2, <1>3, <1>4, <1>6, <1>8 DEF ImageInv

\* Every step keeps it.
LEMMA ImageStep ==
  ASSUME ImageInv, NEW found, VmmNext \/ UserNext(found)
  PROVE  ImageInv'
BY InitVmmStep, IdentityStep, FramebufferStep, KernelImageStep, StatStep, ReadStep, HeaderStep, HeadersStep,
   MapSegmentStep, EntryStep, StackStep, EnterStep
   DEF VmmNext, UserNext

\* What the program sees follows.
LEMMA ImageShows ==
  ASSUME ImageInv
  PROVE  ImageExact
<1> SUFFICES ASSUME pc.step = "user" PROVE ImageExact
  BY DEF ImageExact
<1>0. ImageType /\ StoreInv /\ VmmInv /\ SegInv /\ UserInv
  BY DEF ImageInv
<1>1. HasStack /\ \A i \in LoadSegs : i < pc.seg
  <2>1. HasStack
    BY DEF HasStack
  <2>2. pc.seg = Len(image.segs) + 1
    BY <1>0 DEF SegInv, LoadedSteps
  <2>3. Len(image.segs) \in Nat
    BY <1>0, SegsCounted DEF ImageType
  <2> QED
    BY <2>1, <2>2, <2>3 DEF LoadSegs
<1>2. \A i \in LoadSegs : SegmentOk(image.segs[i])
  BY <1>0, <1>1 DEF SegInv
<1>3. \A i \in LoadSegs : \A p : PageLoaded(i, p) <=> p \in Pages(image.segs[i])
  BY <1>1 DEF PageLoaded
<1>4. UserPages = {p \in DOMAIN leaves : leaves[p].user}
  BY <1>0 DEF UserPages, StoreInv, WaysOpen
<1>5. \A p : p \in UserPages <=> (\E i \in LoadSegs : p \in Pages(image.segs[i])) \/ p = StackPage
  BY <1>0, <1>1, <1>3, <1>4 DEF UserInv
<1>6. UserPages = {StackPage} \cup UNION {Pages(image.segs[i]) : i \in LoadSegs}
  BY <1>5
<1>7. StackPage \in UserPages /\ leaves[StackPage].writable
  BY <1>0, <1>1, <1>5 DEF UserInv
<1>8. ASSUME NEW i \in LoadSegs, Alone(i),
             NEW a \in image.segs[i].vaddr .. image.segs[i].vaddr + image.segs[i].memsz - 1
      PROVE  LET s == image.segs[i]
                 va == a \div Cells
             IN  /\ va \in UserPages /\ leaves[va].writable = s.w
                 /\ mem[leaves[va].frame][a % Cells] =
                      IF a < s.vaddr + s.filesz THEN s.off + (a - s.vaddr) + 1 ELSE 0
  <2> DEFINE s == image.segs[i]
             va == a \div Cells
             c == a % Cells
  <2>1. va \in Pages(s)
    BY <1>0, <1>2, <1>8, SegmentPages DEF ImageType
  <2>2. va \in UserPages /\ PageLoaded(i, va)
    BY <1>3, <1>5, <2>1
  <2>3. leaves[va].writable = s.w /\ mem[leaves[va].frame] = Filled(s, va)
    BY <1>0, <1>8, <2>1, <2>2 DEF UserInv
  <2>4. s.vaddr \in Nat /\ s.memsz \in Nat
    BY <1>0, <1>2, SegmentFacts DEF ImageType
  <2>5. a \in Nat /\ a >= s.vaddr
    BY <1>8, <2>4
  <2>6. c \in 0 .. Cells - 1 /\ va * Cells + c = a
    <3>1. Cells \in Nat \ {0}
      BY MachineAssumption
    <3>2. a % Cells \in 0 .. Cells - 1 /\ a = (a \div Cells) * Cells + (a % Cells)
      <4> HIDE DEF va, c
      <4> QED
        BY <2>5, <3>1, PageOfCell, Zenon
    <3> QED
      BY <3>2, Zenon
  <2> HIDE DEF va, c
  <2>7. Filled(s, va)[c] = IF a >= s.vaddr /\ a < s.vaddr + s.filesz THEN s.off + (a - s.vaddr) + 1 ELSE 0
    BY <2>6 DEF Filled
  <2>8. mem[leaves[va].frame][c] = IF a < s.vaddr + s.filesz THEN s.off + (a - s.vaddr) + 1 ELSE 0
    BY <2>3, <2>5, <2>7
  <2> QED
    BY <2>2, <2>3, <2>8 DEF va, c
<1> DEFINE frames == {leaves[va].frame : va \in UserPages}
<1>9. \A p \in UserPages : /\ leaves[p].frame \in 1 .. Ram - 1 /\ leaves[p].frame \notin free
                           /\ leaves[p].frame \notin KernelFrames /\ leaves[p].frame # kstack
                           /\ \A t \in DOMAIN tables : tables[t].frame # leaves[p].frame
                           /\ \A q \in UserPages : leaves[q].frame = leaves[p].frame => p = q
  BY <1>0, <1>4 DEF StoreInv, LeafInv, UserInv
<1>10. Cardinality(frames) = Cardinality(UserPages)
  <2> DEFINE g == [p \in UserPages |-> leaves[p].frame]
  <2>1. Ram - 1 \in Int /\ 1 \in Int
    BY MachineAssumption
  <2>2. IsFiniteSet(1 .. Ram - 1)
    BY <2>1, FS_Interval
  <2>3. g \in Injection(UserPages, 1 .. Ram - 1)
    BY <1>9 DEF Injection, IsInjective
  <2>4. IsFiniteSet(UserPages)
    BY <2>2, <2>3, FS_Injection DEF ExistsInjection
  <2>5. g \in Bijection(UserPages, frames)
    BY <1>9 DEF Bijection, Injection, Surjection, IsInjective
  <2>6. ExistsBijection(UserPages, frames)
    BY <2>5 DEF ExistsBijection
  <2> QED
    BY <2>4, <2>6, FS_Bijection
<1>11. \A f \in frames : /\ f \notin free /\ f # kstack /\ f \notin {tables[t].frame : t \in DOMAIN tables}
                         /\ f \notin KernelFrames
  BY <1>9
<1>12. IdentityMapped /\ FramebufferMapped /\ KernelMapped
  BY <1>0 DEF VmmInv, VmmSteps
<1>13. \A p \in (0 .. Ram - 1) \cup FbPages : leaves[p] = LeafEntry(p, FALSE, TRUE)
  <2>1. ASSUME NEW p \in 0 .. Ram - 1 PROVE leaves[p] = LeafEntry(p, FALSE, TRUE)
    <3>1. leaves[0 + p] = LeafEntry(0 + p, FALSE, TRUE)
      BY <1>12, Zenon DEF IdentityMapped, Mapped
    <3>2. 0 + p = p
      BY MachineFacts
    <3> QED
      BY <3>1, <3>2
  <2>2. ASSUME NEW p \in FbPages PROVE leaves[p] = LeafEntry(p, FALSE, TRUE)
    <3> DEFINE k == p - Framebuffer.base
    <3>1. k \in 0 .. Framebuffer.pages - 1 /\ Framebuffer.base + k = p
      BY MachineFacts DEF FbPages
    <3>2. leaves[Framebuffer.base + k] = LeafEntry(Framebuffer.base + k, FALSE, TRUE)
      BY <1>12, <3>1 DEF FramebufferMapped, Mapped
    <3> QED
      BY <3>1, <3>2
  <2> QED
    BY <2>1, <2>2
<1>14. \A k \in 0 .. Kernel.pages - 1 : leaves[Kernel.virt + k] = LeafEntry(Kernel.phys + k, FALSE, TRUE)
  BY <1>12 DEF KernelMapped, Mapped
<1>15. \A i \in LoadSegs : Alone(i) =>
         LET s == image.segs[i]
         IN  \A a \in s.vaddr .. s.vaddr + s.memsz - 1 :
               LET va == a \div Cells
               IN  /\ va \in UserPages /\ leaves[va].writable = s.w
                   /\ mem[leaves[va].frame][a % Cells] =
                        IF a < s.vaddr + s.filesz THEN s.off + (a - s.vaddr) + 1 ELSE 0
  BY <1>8
<1> QED
  BY <1>6, <1>7, <1>10, <1>11, <1>13, <1>14, <1>15, Zenon DEF ImageExact

\* Nobody but init_vmm and user_enter_init touches the page tables and the program.
LEMMA ProgramStep == ImageInv /\ [Next]_bootVars => ImageInv'
<1> SUFFICES ASSUME ImageInv, [Next]_bootVars PROVE ImageInv'
  OBVIOUS
<1>1. CASE VmmNext \/ UserNext(InitFound)
  BY <1>1, ImageStep
<1>2. CASE UNCHANGED imageVars
  BY <1>2, ImageStutters
<1> QED
  BY <1>1, <1>2 DEF Next, bootVars, UefiMain, kernel_main, vmm, init_partitions, make_mounts, user_enter_init

\* For every amount of memory and every set of free frames, every radix of the tables,
\* every program that the loader accepts and however vfs_read cuts it into pieces: the
\* program that is entered finds each segment that shares no page with its bytes, its
\* zeros and its rights, a stack, and nothing else within its reach; no frame serves two
\* pages, a table, the kernel or its stack; and the kernel's own mappings stand (vmm.c,
\* user.c).
THEOREM ImageCorrect == Spec => []ImageExact
<1>1. Init => ImageInv
  BY ImageStart DEF Init
<1>2. ImageInv => ImageExact
  BY ImageShows
<1> QED
  BY <1>1, <1>2, ProgramStep, PTL DEF Spec

=============================================================================
