------------------------------ MODULE UserImage ------------------------------
(***************************************************************************)
(* The page tables of src/kernel/memory/vmm.c and the loader of the first  *)
(* user program of src/kernel/user.c: one step is one page that is mapped, *)
(* one answer of vfs_read, one program header.                             *)
(*                                                                         *)
(* Memory is counted in pages, addresses in cells (Cells to a page), and   *)
(* cell o of the file holds o + 1.  alloc_page gives the lowest free frame *)
(* (module Pmm); when there is none it answers PMM_INVALID_ADDR, which no  *)
(* caller here takes for a failure: kernel_memset faults on it and the     *)
(* kernel panics.  No entry is ever PTE_HUGE.                              *)
(***************************************************************************)
EXTENDS Integers, Sequences, FiniteSets

CONSTANTS
  Radix,       \* ENTRIES_PER_TABLE
  Ram,         \* pmm_total_pages()
  Framebuffer, \* [base, pages], no pages when there is none
  Kernel,      \* [virt, phys, pages]: the image of the kernel
  Pool,        \* the sets of frames that may be free when init_vmm starts
  Cells,       \* PAGE_SIZE
  UserEnd,     \* the end of the canonical lower half
  Space,       \* 2^64
  StackPage,   \* USER_STACK_VADDR
  Image,       \* the files init may be
  MinFile,     \* sizeof(elf64_ehdr_t)
  MaxFile,     \* ELF_MAX_FILE_SIZE
  MaxSegs,     \* ELF_MAX_SEGS
  MaxSegMem    \* ELF_MAX_SEG_MEMSZ

\* The pages of segment s.
Pages(s) == s.vaddr \div Cells .. (s.vaddr + s.memsz - 1) \div Cells

FbPages == Framebuffer.base .. Framebuffer.base + Framebuffer.pages - 1

KernelFrames == Kernel.phys .. Kernel.phys + Kernel.pages - 1
KernelPages == Kernel.virt .. Kernel.virt + Kernel.pages - 1

\* The fields of a program header are words of the machine.
Segment ==
  [load : BOOLEAN, w : BOOLEAN,
   vaddr : 0 .. Space - 1, off : 0 .. Space - 1, filesz : 0 .. Space - 1, memsz : 0 .. Space - 1]

\* The frames of the kernel are not free, and it is linked to the upper half, above the
\* memory of the machine and the frame buffer.
ASSUME MachineAssumption ==
  /\ Cells \in Nat \ {0} /\ Space \in Nat \ {0} /\ UserEnd \in Nat
  /\ Ram \in Nat /\ StackPage \in Nat
  /\ Framebuffer \in [base : Nat, pages : Nat] /\ Kernel \in [virt : Nat, phys : Nat, pages : Nat]
  /\ \A f \in Pool : f \subseteq 1 .. Ram - 1 /\ f \cap KernelFrames = {}
  /\ UserEnd <= Kernel.virt * Cells
  /\ \A p \in KernelPages : p >= Ram /\ p \notin FbPages

\* user.ld links the program at 1 GiB, above the memory of the machine and apart from
\* the frame buffer.
ASSUME ImageAssumption ==
  /\ StackPage >= Ram /\ StackPage \notin FbPages /\ StackPage * Cells < UserEnd
  /\ \A im \in Image :
       /\ im.size \in Nat /\ im.segs \in Seq(Segment)
       /\ \A i \in 1 .. Len(im.segs) :
            LET s == im.segs[i]
            IN  s.load /\ s.memsz # 0 /\ s.vaddr >= Cells /\ s.vaddr + s.memsz <= UserEnd =>
                  \A p \in Pages(s) : p >= Ram /\ p \notin FbPages

VARIABLES
  image,  \* the file at the path of init
  free,   \* the frames alloc_page can still give
  tables, \* the page tables by their path: frame, and PTE_USER of the entry that leads here
  leaves, \* the entries of the last level, by virtual page
  mem,    \* what the frames given to the program hold
  buf,    \* the copy of the file
  kstack, \* g_kernel_stack_page
  pc      \* the step, and its page, segment and offset

imageVars == <<image, free, tables, leaves, mem, buf, kstack, pc>>

ImageInit ==
  /\ image \in Image
  /\ free \in Pool
  /\ tables = <<>> /\ leaves = <<>> /\ mem = <<>> /\ buf = <<>>
  /\ kstack = 0
  /\ pc = [step |-> "pml4", page |-> 0, seg |-> 1, off |-> 0]

panic == pc' = [pc EXCEPT !.step = "halted"] /\ UNCHANGED <<image, free, tables, leaves, mem, buf, kstack>>

\* The frame the k-th call of alloc_page from now gives: the k-th lowest that is free.
Frame(k) == CHOOSE f \in free : Cardinality({g \in free : g < f}) = k - 1

\* What is free after n calls.
FreeAfter(n) == free \ {Frame(k) : k \in 1 .. n}

\* The tables on the way to a virtual page, below the PML4.
Path(va, k) == [i \in 1 .. k |-> (va \div Radix^(4 - i)) % Radix]

WayTo(va) == {Path(va, k) : k \in 1 .. 3}

\* How many of them get_or_alloc_table must make: those of the lowest levels.
Missing(va) == Cardinality(WayTo(va) \ DOMAIN tables)

LeafEntry(frame, user, writable) == [frame |-> frame, user |-> user, writable |-> writable]

\* map_page after n calls of alloc_page: every entry on the way to a page of the program
\* has PTE_USER, the last entry decides.
map_page(va, frame, user, writable, n) ==
  /\ tables' = [t \in DOMAIN tables \cup WayTo(va) |->
                  [frame |-> IF t \in DOMAIN tables THEN tables[t].frame
                             ELSE Frame(n + Len(t) - 3 + Missing(va)),
                   user |-> (t \in DOMAIN tables /\ tables[t].user) \/ (user /\ t \in WayTo(va))]]
  /\ leaves' = [p \in DOMAIN leaves \cup {va} |->
                  IF p = va THEN LeafEntry(frame, user, writable) ELSE leaves[p]]

\* A page of memory that exists already, mapped at va for the kernel.
map_kernel_page(va, frame) ==
  /\ map_page(va, frame, FALSE, TRUE, 0)
  /\ free' = FreeAfter(Missing(va))

-----------------------------------------------------------------------------
(* init_vmm.                                                               *)

init_vmm ==
  /\ pc.step = "pml4"
  /\ IF free = {} THEN panic
     ELSE /\ tables' = [t \in {<<>>} |-> [frame |-> Frame(1), user |-> FALSE]]
          /\ free' = FreeAfter(1)
          /\ pc' = [pc EXCEPT !.step = "identity"]
          /\ UNCHANGED <<image, leaves, mem, buf, kstack>>

\* The next page of a range that is mapped for the kernel, or the step after it.
map_range(step, next, virt, phys, pages) ==
  /\ pc.step = step
  /\ CASE pc.page >= pages ->
            /\ pc' = [pc EXCEPT !.step = next, !.page = 0]
            /\ UNCHANGED <<image, free, tables, leaves, mem, buf, kstack>>
       [] pc.page < pages /\ Cardinality(free) < Missing(virt + pc.page) -> panic
       [] OTHER ->
            /\ map_kernel_page(virt + pc.page, phys + pc.page)
            /\ pc' = [pc EXCEPT !.page = @ + 1]
            /\ UNCHANGED <<image, mem, buf, kstack>>

map_identity == map_range("identity", "framebuffer", 0, 0, Ram)

map_framebuffer ==
  map_range("framebuffer", "kernel", Framebuffer.base, Framebuffer.base, Framebuffer.pages)

map_kernel_image == map_range("kernel", "stat", Kernel.virt, Kernel.phys, Kernel.pages)

VmmNext == init_vmm \/ map_identity \/ map_framebuffer \/ map_kernel_image

-----------------------------------------------------------------------------
(* user_enter_init: the file is read as a whole.                           *)

\* What kmalloc's memory holds.
Junk == -1

Goto(step) == pc' = [pc EXCEPT !.step = step] /\ UNCHANGED <<image, free, tables, leaves, mem, kstack>>

\* vfs_stat, kmalloc and vfs_open, each of which may fail.
load_stat(found) ==
  /\ pc.step = "stat"
  /\ \/ panic
     \/ /\ found /\ image.size >= MinFile /\ image.size <= MaxFile
        /\ buf' = [o \in 0 .. image.size - 1 |-> Junk]
        /\ Goto("read")

\* vfs_read may answer less than it was asked for, or an error.
load_file_to_mem ==
  /\ pc.step = "read"
  /\ \/ pc.off = image.size /\ Goto("header") /\ UNCHANGED buf
     \/ pc.off < image.size /\ panic
     \/ \E n \in 1 .. image.size - pc.off :
          /\ buf' = [o \in DOMAIN buf |-> IF o \in pc.off .. pc.off + n - 1 THEN o + 1 ELSE buf[o]]
          /\ pc' = [pc EXCEPT !.off = @ + n]
          /\ UNCHANGED <<image, free, tables, leaves, mem, kstack>>

-----------------------------------------------------------------------------
(* map_elf_image.                                                          *)

Plus(a, b) == (a + b) % Space

user_range_ok(vaddr, size) ==
  /\ size # 0 /\ vaddr >= Cells
  /\ Plus(vaddr, size) >= vaddr /\ Plus(vaddr, size) <= UserEnd

\* The fields of the header that have one good value are one: image.header.
check_ehdr ==
  /\ pc.step = "header"
  /\ IF image.header /\ Len(image.segs) \in 1 .. MaxSegs /\ image.entry >= Cells /\ image.entry < UserEnd
     THEN Goto("segment") /\ UNCHANGED buf
     ELSE panic

SegmentOk(s) ==
  /\ s.filesz <= s.memsz /\ s.memsz <= MaxSegMem
  /\ Plus(s.off, s.filesz) <= image.size /\ Plus(s.off, s.filesz) >= s.off
  /\ user_range_ok(s.vaddr, s.memsz)

\* The next program header.
map_elf_image ==
  /\ pc.step = "segment"
  /\ LET s == image.segs[pc.seg]
     IN  CASE pc.seg > Len(image.segs) -> Goto("entry") /\ UNCHANGED buf
           [] pc.seg <= Len(image.segs) /\ ~s.load ->
                /\ pc' = [pc EXCEPT !.seg = @ + 1]
                /\ UNCHANGED <<image, free, tables, leaves, mem, buf, kstack>>
           [] pc.seg <= Len(image.segs) /\ s.load /\ ~SegmentOk(s) -> panic
           [] pc.seg <= Len(image.segs) /\ s.load /\ SegmentOk(s) ->
                /\ pc' = [pc EXCEPT !.step = "map", !.page = s.vaddr \div Cells]
                /\ UNCHANGED <<image, free, tables, leaves, mem, buf, kstack>>

\* The part of the segment's file image that lies in page va, zeros around it.
PageUnshifted(s, va) ==
  [c \in 0 .. Cells - 1 |->
     LET a == va * Cells + c
     IN  IF a >= s.vaddr /\ a < s.vaddr + s.filesz THEN buf[s.off + ((a - s.vaddr) % Cells)] ELSE 0]

PageOf(s, va) ==
  [c \in 0 .. Cells - 1 |->
     LET a == va * Cells + c
     IN  IF a >= s.vaddr /\ a < s.vaddr + s.filesz THEN buf[s.off + (a - s.vaddr)] ELSE 0]

\* A new page for the program.
map_user_page(va, content, writable, next) ==
  IF Cardinality(free) < 1 + Missing(va) THEN panic
  ELSE /\ map_page(va, Frame(1), TRUE, writable, 1)
       /\ free' = FreeAfter(1 + Missing(va))
       /\ mem' = [f \in DOMAIN mem \cup {Frame(1)} |-> IF f = Frame(1) THEN content ELSE mem[f]]
       /\ pc' = next
       /\ UNCHANGED <<image, buf, kstack>>

\* The next page of the segment.
map_one_segment ==
  /\ pc.step = "map"
  /\ LET s == image.segs[pc.seg]
     IN  IF pc.page * Cells < s.vaddr + s.memsz
         THEN map_user_page(pc.page, PageOf(s, pc.page), s.w, [pc EXCEPT !.page = @ + 1])
         ELSE /\ pc' = [pc EXCEPT !.step = "segment", !.seg = @ + 1]
              /\ UNCHANGED <<image, free, tables, leaves, mem, buf, kstack>>

LoadSegs == {i \in 1 .. Len(image.segs) : image.segs[i].load}

check_entry ==
  /\ pc.step = "entry"
  /\ IF \E i \in LoadSegs : /\ image.entry >= image.segs[i].vaddr
                            /\ image.entry < image.segs[i].vaddr + image.segs[i].memsz
     THEN Goto("stack") /\ UNCHANGED buf
     ELSE panic

\* setup_kstack_and_enter: the stack of the program, then the stack of the kernel.
setup_stack ==
  /\ pc.step = "stack"
  /\ map_user_page(StackPage, [c \in 0 .. Cells - 1 |-> 0], TRUE, [pc EXCEPT !.step = "kstack"])

enter_user ==
  /\ pc.step = "kstack"
  /\ IF free = {} THEN panic
     ELSE /\ kstack' = Frame(1)
          /\ free' = FreeAfter(1)
          /\ pc' = [pc EXCEPT !.step = "user"]
          /\ UNCHANGED <<image, tables, leaves, mem, buf>>

UserNext(found) ==
  \/ load_stat(found) \/ load_file_to_mem
  \/ check_ehdr \/ map_elf_image \/ map_one_segment \/ check_entry
  \/ setup_stack \/ enter_user

-----------------------------------------------------------------------------
(* Properties.                                                             *)

\* What the processor lets the program touch: every entry on the way has PTE_USER.
UserPages ==
  {va \in DOMAIN leaves : leaves[va].user /\ \A k \in 1 .. 3 : tables[Path(va, k)].user}

Alone(i) ==
  /\ StackPage \notin Pages(image.segs[i])
  /\ \A j \in LoadSegs \ {i} : Pages(image.segs[i]) \cap Pages(image.segs[j]) = {}

\* When the program is entered it sees what its file says: every cell of a segment that
\* shares no page has its byte of the file, or zero beyond it, under the rights of the
\* segment, although the file came in pieces and pages and tables were taken in turns;
\* its stack is there; it can touch nothing else, in particular no table, no frame that
\* is free, no page of the kernel and no page twice; and memory, frame buffer and
\* kernel are where the kernel expects them.
ImageExact ==
  pc.step = "user" =>
    /\ \A i \in LoadSegs : Alone(i) =>
         LET s == image.segs[i]
         IN  \A a \in s.vaddr .. s.vaddr + s.memsz - 1 :
               LET va == a \div Cells
               IN  /\ va \in UserPages /\ leaves[va].writable = s.w
                   /\ mem[leaves[va].frame][a % Cells] =
                        IF a < s.vaddr + s.filesz THEN s.off + (a - s.vaddr) + 1 ELSE 0
    /\ StackPage \in UserPages /\ leaves[StackPage].writable
    /\ UserPages = {StackPage} \cup UNION {Pages(image.segs[i]) : i \in LoadSegs}
    /\ LET frames == {leaves[va].frame : va \in UserPages}
       IN  /\ Cardinality(frames) = Cardinality(UserPages)
           /\ \A f \in frames : /\ f \notin free /\ f # kstack
                                /\ f \notin {tables[t].frame : t \in DOMAIN tables}
                                /\ f \notin KernelFrames
    /\ \A p \in (0 .. Ram - 1) \cup FbPages : leaves[p] = LeafEntry(p, FALSE, TRUE)
    /\ \A k \in 0 .. Kernel.pages - 1 : leaves[Kernel.virt + k] = LeafEntry(Kernel.phys + k, FALSE, TRUE)

=============================================================================
