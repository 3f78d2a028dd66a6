-------------------------------- MODULE MCBoot --------------------------------
(***************************************************************************)
(* A small machine for TLC: disks of 12 sectors, pages of two cells, four  *)
(* entries to a page table.  The disks and configurations vary with one    *)
(* good program, the programs and the free memory with one good disk, the  *)
(* kernels with both.                                                      *)
(***************************************************************************)
EXTENDS Boot, TLC

MCDevName == <<<<"hd0p0", "hd0p1", "hd0p2">>, <<"hd1p0", "hd1p1", "hd1p2">>>>

Empty == [type |-> "empty", lba |-> 0, cnt |-> 0]
Protective == [type |-> "protect", lba |-> 1, cnt |-> 11]
Data(lba, cnt) == [type |-> "data", lba |-> lba, cnt |-> cnt]
Ext(lba, cnt) == [type |-> "ext", lba |-> lba, cnt |-> cnt]
Entry(first, last) == [zero |-> FALSE, unreadable |-> FALSE, first |-> first, last |-> last]
Link(rel, cnt, next) == [rel |-> rel, cnt |-> cnt, next |-> next]

Mbr(a, b, c, d) ==
  [sectors |-> 12, unreadable |-> {}, sig |-> TRUE, mbr |-> <<a, b, c, d>>,
   hdr |-> "no_magic", array |-> "good", gpt |-> <<>>, ebrs |-> <<>>,
   volumes |-> {[start |-> 2, fs |-> "fat32", init |-> TRUE],
                [start |-> 6, fs |-> "ext4", init |-> TRUE],
                [start |-> 3, fs |-> "fat32", init |-> FALSE]}]

Plain == Mbr(Data(2, 4), Data(6, 4), Empty, Empty)
Swapped == Mbr(Data(6, 6), Data(2, 4), Data(9, 1), Data(3, 1))
Ranges == Mbr(Data(0, 4), Data(9, 4), Data(3, 0), Data(2, 10))
Gpt == [Mbr(Protective, Empty, Empty, Empty) EXCEPT !.hdr = "good",
          !.gpt = <<Entry(6, 11), Entry(8, 12), [Entry(2, 3) EXCEPT !.zero = TRUE],
                    Entry(5, 4), Entry(2, 2), Entry(3, 5), Entry(9, 9)>>]
Chain == [Mbr(Ext(2, 8), Data(10, 2), Empty, Empty) EXCEPT
            !.ebrs = (2 :> Link(1, 0, 3)) @@ (5 :> Link(1, 1, 0))]

Tables ==
  { Plain, Swapped, Ranges, Gpt, Chain,
    [Plain EXCEPT !.sig = FALSE],
    [Plain EXCEPT !.unreadable = {0}],
    [Gpt EXCEPT !.hdr = "bad_crc"],
    [Gpt EXCEPT !.array = "bad_crc"],
    [Gpt EXCEPT !.array = "out_of_range"],
    [Gpt EXCEPT !.gpt[5].unreadable = TRUE],
    [Gpt EXCEPT !.unreadable = {1}, !.mbr[2] = Data(2, 4)],
    [Plain EXCEPT !.hdr = "invalid"],
    \* a circle of boot records, a record that cannot be read, one far out of the disk
    [Chain EXCEPT !.ebrs = (2 :> Link(1, 1, 3)) @@ (5 :> Link(1, 1, 3))],
    [Chain EXCEPT !.unreadable = {5}],
    [Chain EXCEPT !.ebrs = (2 :> Link(9, 3, 30)), !.mbr[3] = Ext(11, 1)] }

MCDisks == {<<t, u>> : t \in Tables \cup {NoDisk}, u \in {NoDisk, Swapped}}

Line(dev, mp, fs) == [kind |-> "mount", dev |-> dev, mp |-> mp, fs |-> fs]
RootKey(dev) == [kind |-> "root", dev |-> dev]
InitKey(mp) == [kind |-> "init", mp |-> mp]

MCConfig ==
  { NoConfig,
    <<[kind |-> "other"]>>,
    <<RootKey("hd9p0"), RootKey("hd0p0")>>,
    <<Line("hd0p0", "/", "fat32"), Line("hd0p1", "/", "ext4"), [kind |-> "other"]>>,
    <<Line("hd0p1", "/", "auto"), Line("hd0p0", "/data", "auto"), RootKey("hd0p0")>>,
    <<Line("hd0p1", "/", "fat32"), RootKey("hd1p0")>>,
    <<Line("hd0p0", "/fat", "auto"), Line("hd0p1", "/fat", "auto"), InitKey("/fat")>>,
    <<Line("ramfs", "/a", "ramfs"), Line("x", "/dev", "ramfs"), Line("hd0p0", "/b", "ntfs")>>,
    <<Line("ramfs", "/a", "ramfs"), Line("ramfs", "/b", "ramfs"), Line("ramfs", "/c", "ramfs"),
      Line("ramfs", "/d", "ramfs"), Line("ramfs", "/e", "ramfs"), Line("hd0p0", "/f", "auto"),
      Line("ramfs", "/g", "ramfs"), RootKey("hd0p0"), InitKey("/f")>> }

Seg(vaddr, off, filesz, memsz, w) ==
  [load |-> TRUE, vaddr |-> vaddr, off |-> off, filesz |-> filesz, memsz |-> memsz, w |-> w]

Text == Seg(128, 2, 2, 2, FALSE)
Program(segs) == [size |-> 6, header |-> TRUE, entry |-> 128, segs |-> segs]
Good == Program(<<[Text EXCEPT !.load = FALSE, !.vaddr = 0], Text, Seg(133, 1, 3, 4, TRUE)>>)

MCImage ==
  { Good, Program(<<Text>>),
    [Good EXCEPT !.header = FALSE], [Good EXCEPT !.entry = 1], [Good EXCEPT !.entry = 130],
    [Good EXCEPT !.size = 1], [Good EXCEPT !.size = 9],
    Program(<<Text, Seg(129, 4, 1, 5, TRUE)>>), \* shares a page with the text, and the stack's
    Program(<<Text, Seg(132, 0, 3, 2, TRUE)>>), Program(<<Text, Seg(132, 0, 0, 9, TRUE)>>),
    Program(<<Text, Seg(132, 4, 4, 4, TRUE)>>), Program(<<Text, Seg(132, 1022, 4, 4, TRUE)>>),
    Program(<<Text, Seg(132, 0, 0, 0, TRUE)>>), Program(<<Text, Seg(1, 0, 1, 1, TRUE)>>),
    Program(<<Text, Seg(1020, 0, 4, 8, TRUE)>>), Program(<<Text, Seg(254, 0, 4, 4, TRUE)>>),
    Program(<<[Text EXCEPT !.load = FALSE]>>), Program(<<>>), Program(<<Text, Text, Text, Text>>) }

\* Memory runs out while the kernel is mapped, in a segment, at the stacks, or not at all.
MCPool == {3 .. last : last \in {2, 3, 10, 15, 18, 21, 23, 24, 25, 26, 27, 28, 31}}

MCFramebuffer == [base |-> 40, pages |-> 1]
MCKernel == [virt |-> 510, phys |-> 1, pages |-> 2]

KSeg(addr, off, filesz, memsz) ==
  [load |-> TRUE, addr |-> addr, off |-> off, filesz |-> filesz, memsz |-> memsz]
KernelElf(segs) == [header |-> TRUE, size |-> 8, segs |-> segs]
GoodKernel == KernelElf(<<KSeg(4, 1, 3, 5), [KSeg(0, 0, 1, 1) EXCEPT !.load = FALSE], KSeg(10, 4, 2, 2)>>)

MCKernelFile ==
  { GoodKernel, [GoodKernel EXCEPT !.header = FALSE],
    KernelElf(<<KSeg(4, 1, 3, 5), KSeg(8, 4, 2, 2)>>), KernelElf(<<KSeg(5, 1, 3, 3)>>) }

MCInit ==
  /\ Init
  /\ \/ image = Good /\ free = 3 .. 31
     \/ disks = <<Plain, NoDisk>> /\ cfg = <<RootKey("hd9p0"), RootKey("hd0p0")>>
  /\ \/ kernel = GoodKernel
     \/ image = Good /\ free = 3 .. 31 /\ disks = <<Plain, NoDisk>>

MCSpec == MCInit /\ [][Next]_bootVars /\ WF_bootVars(Next)

=============================================================================
