-------------------------------- MODULE EfiBoot --------------------------------
(***************************************************************************)
(* The loader, edk2/CsosBootPkg/Application/EfiBoot: UefiMain of Main.c    *)
(* after the setup utility, LoadBootConfig and LoadElf64.  The firmware is *)
(* external: it gives out pages, may take some for itself at any time, and *)
(* lets go of the machine only to a caller whose memory map is current.    *)
(*                                                                         *)
(* Memory is counted in cells, PageCells to a page; cell o of kernel.elf   *)
(* holds o + 1.  An allocation is named for its use.                       *)
(***************************************************************************)
EXTENDS Integers, Sequences

CONSTANTS
  KernelFile,  \* the files kernel.elf may be
  PageCells,   \* EFI_PAGE_SIZE
  CfgMax,      \* BOOT_CONFIG_MAX_SIZE, in lines
  NoText,      \* no csos.cfg
  MaxRetry,    \* how often the memory map is tried
  MaxEvents    \* bound: what the firmware does meanwhile

ASSUME EfiAssumption ==
  /\ PageCells \in Nat \ {0} /\ MaxRetry \in Nat \ {0} /\ CfgMax \in Nat
  /\ \A k \in KernelFile :
       /\ k.segs \in Seq([load : BOOLEAN, addr : Nat, off : Nat, filesz : Nat, memsz : Nat])
       /\ \A i \in 1 .. Len(k.segs) :
            k.segs[i].filesz <= k.segs[i].memsz /\ k.segs[i].off + k.segs[i].filesz <= k.size

VARIABLES
  kernel, \* kernel.elf
  efi,    \* the step, the segment, the tries, the map key
  fw,     \* the firmware: what is allocated, the key of the map, its own doings
  ram,    \* what the segments' memory holds
  info    \* BootInfo: the configuration, whether it lies below 512 MiB, the map

efiVars == <<kernel, efi, fw, ram, info>>

EfiInit ==
  /\ kernel \in KernelFile
  /\ efi = [step |-> "config", seg |-> 1, retry |-> 0, key |-> 0]
  /\ fw = [used |-> {}, key |-> 0, events |-> 0]
  /\ ram = <<>>
  /\ info = [config |-> NoText, low |-> TRUE, map |-> {}]

Step(step) == efi' = [efi EXCEPT !.step = step]

\* CsosShowFatalError, and the loader returns.
Fatal == Step("fatal") /\ UNCHANGED <<kernel, fw, ram, info>>

Allocated(what) == [fw EXCEPT !.used = @ \cup what, !.key = @ + 1]
Freed(what) == [fw EXCEPT !.used = @ \ what, !.key = @ + 1]

\* External: a timer event of the firmware, which changes the memory map.
FirmwareEvent ==
  /\ efi.step \in {"alloc_map", "get_map", "exit"} /\ fw.events < MaxEvents
  /\ fw' = [Allocated({<<"firmware", fw.events>>}) EXCEPT !.events = @ + 1]
  /\ UNCHANGED <<kernel, efi, ram, info>>

\* Without the file, or when anything fails, the kernel goes by its defaults.
LoadBootConfig(text) ==
  /\ efi.step = "config"
  /\ Step("kernel")
  /\ \/ UNCHANGED <<fw, info>>
     \/ /\ text # NoText
        /\ fw' = Allocated({<<"config", 0>>})
        /\ \E low \in BOOLEAN :
             info' = [info EXCEPT !.low = low,
                        !.config = IF Len(text) <= CfgMax THEN text ELSE SubSeq(text, 1, CfgMax)]
  /\ UNCHANGED <<kernel, ram>>

SegPages(s) ==
  {<<"page", p>> : p \in (s.addr \div PageCells) .. ((s.addr + s.memsz + PageCells - 1) \div PageCells) - 1}

\* The memory of a segment is cleared, then its part of the file is read.
ClearedLast(s) == [a \in s.addr .. s.addr + s.memsz - 1 |-> 0]
Loaded(s) ==
  [a \in s.addr .. s.addr + s.memsz - 1 |-> IF a < s.addr + s.filesz THEN s.off + (a - s.addr) + 1 ELSE 0]

\* LoadElf64: the header, then one segment after the other, at its own address.
LoadElf64 ==
  /\ efi.step = "kernel"
  /\ \/ Fatal
     \/ kernel.header /\ Step("segment") /\ UNCHANGED <<kernel, fw, ram, info>>

LoadSegment ==
  /\ efi.step = "segment"
  /\ LET s == kernel.segs[efi.seg]
     IN  CASE efi.seg > Len(kernel.segs) -> Step("info") /\ UNCHANGED <<kernel, fw, ram, info>>
           [] efi.seg <= Len(kernel.segs) /\ ~s.load ->
                efi' = [efi EXCEPT !.seg = @ + 1] /\ UNCHANGED <<kernel, fw, ram, info>>
           [] efi.seg <= Len(kernel.segs) /\ s.load ->
                \/ Fatal
                \/ /\ s.addr % PageCells = 0 /\ SegPages(s) \cap fw.used = {}
                   /\ fw' = Allocated(SegPages(s))
                   /\ LET new == Loaded(s)
                      IN  ram' = [a \in DOMAIN ram \cup DOMAIN new |->
                                    IF a \in DOMAIN new THEN new[a] ELSE ram[a]]
                   /\ efi' = [efi EXCEPT !.seg = @ + 1]
                   /\ UNCHANGED <<kernel, info>>

\* The page at CSOS_BOOT_INFO_ADDR.
AllocateBootInfo ==
  /\ efi.step = "info"
  /\ \/ Fatal
     \/ Step("alloc_map") /\ fw' = Allocated({<<"bootinfo", 0>>}) /\ UNCHANGED <<kernel, ram, info>>

\* The size of the map is asked for, and the memory to hold it allocated; that changes
\* the map, which is read only then.
AllocateMap ==
  /\ efi.step = "alloc_map"
  /\ \/ Fatal
     \/ Step("get_map") /\ fw' = Allocated({<<"map", efi.retry>>}) /\ UNCHANGED <<kernel, ram, info>>

GetMemoryMap ==
  /\ efi.step = "get_map"
  /\ \/ Fatal
     \/ /\ efi' = [efi EXCEPT !.step = "exit", !.key = fw.key]
        /\ info' = [info EXCEPT !.map = fw.used]
        /\ UNCHANGED <<kernel, fw, ram>>

\* The firmware refuses a key that is not current; then all of it is done again.
ExitBootServices ==
  /\ efi.step = "exit"
  /\ IF efi.key = fw.key THEN Step("entered") /\ UNCHANGED fw
     ELSE /\ fw' = Freed({<<"map", efi.retry>>})
          /\ efi' = [efi EXCEPT !.retry = @ + 1,
                       !.step = IF efi.retry + 1 < MaxRetry THEN "alloc_map" ELSE "fatal"]
  /\ UNCHANGED <<kernel, ram, info>>

EfiNext(text) ==
  \/ LoadBootConfig(text) \/ LoadElf64 \/ LoadSegment \/ AllocateBootInfo
  \/ AllocateMap \/ GetMemoryMap \/ ExitBootServices \/ FirmwareEvent

-----------------------------------------------------------------------------
(* Properties.                                                             *)

\* When the kernel is entered, the map it is given is the one the machine is left with,
\* however often the firmware changed it and the loader began anew: all that the kernel
\* relies on is in it, and nothing that was given back; and every segment of the kernel
\* holds its part of the file, with zeros behind it.
HandedOver ==
  efi.step = "entered" =>
    /\ info.map = fw.used
    /\ {<<"bootinfo", 0>>, <<"map", efi.retry>>} \subseteq info.map
    /\ \A r \in 0 .. efi.retry - 1 : <<"map", r>> \notin info.map
    /\ info.config # NoText => <<"config", 0>> \in info.map
    /\ \A i \in 1 .. Len(kernel.segs) :
         LET s == kernel.segs[i]
         IN  s.load =>
               /\ SegPages(s) \subseteq info.map
               /\ \A a \in s.addr .. s.addr + s.memsz - 1 :
                    ram[a] = IF a < s.addr + s.filesz THEN s.off + (a - s.addr) + 1 ELSE 0

=============================================================================
