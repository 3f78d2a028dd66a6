--------------------------------- MODULE Boot ---------------------------------
(***************************************************************************)
(* The way of the boot processor from the loader through kernel_main       *)
(* (src/kernel/kernel.c), as far as it decides what the first user program *)
(* finds: the kernel and its configuration are loaded, the page tables     *)
(* built, the drives searched for partitions, the configuration's mounts   *)
(* made, the program read from them, mapped and entered.  A failure on the *)
(* way ends in the loader's error or in panic.                             *)
(***************************************************************************)
EXTENDS EfiBoot, Part, Mounts, UserImage

CONSTANT DevName  \* DevName[d][i]: the name of partition i of drive d

\* A partition has a name.  No text is no configuration.
ASSUME BootAssumption ==
  /\ \A d \in 1 .. 2, i \in 1 .. MaxPerDrive : DevName[d][i] \in STRING \ {NoRoot}
  /\ NoText = NoConfig

VARIABLE phase

bootVars == <<phase, efiVars, partVars, mountVars, imageVars>>

\* part_name, for the partitions of all drives in order.
PartNames ==
  [i \in 1 .. Len(parts[1]) |-> DevName[1][i]] \o [i \in 1 .. Len(parts[2]) |-> DevName[2][i]]

\* The drive and the first sector of a partition by its name.
Volume(name) ==
  CHOOSE v \in [drive : 1 .. 2, i : 1 .. MaxPerDrive] :
    v.i <= Len(parts[v.drive]) /\ DevName[v.drive][v.i] = name

VolumesOf(name) ==
  LET v == Volume(name) IN {w \in disks[v.drive].volumes : w.start = parts[v.drive][v.i].start}

FsOf ==
  [name \in {PartNames[i] : i \in 1 .. Len(PartNames)} |->
     IF VolumesOf(name) = {} THEN "none" ELSE (CHOOSE w \in VolumesOf(name) : TRUE).fs]

\* The path of init leads to a file: the volume mounted there holds it.
InitFound ==
  \E k \in 1 .. Len(mounts) :
    /\ mounts[k].mp = boot.init /\ mounts[k].dev \in DOMAIN FsOf
    /\ \E w \in VolumesOf(mounts[k].dev) : w.init

Init == phase = "loader" /\ EfiInit /\ PartInit /\ MountsInit /\ ImageInit

UefiMain ==
  /\ phase = "loader" /\ EfiNext(cfg)
  /\ phase' = CASE efi'.step = "entered" -> "kernel" [] efi'.step = "fatal" -> "halted" [] OTHER -> "loader"
  /\ UNCHANGED <<partVars, mountVars, imageVars>>

\* The kernel takes the configuration from BootInfo, unless it lies above 512 MiB, where
\* the first page tables end; nothing else of the loader's is looked at again here.
kernel_main ==
  /\ phase = "kernel"
  /\ parse_apply_boot_config(IF info.low THEN info.config ELSE NoConfig)
  /\ phase' = "vmm"
  /\ efi' = [efi EXCEPT !.step = "gone", !.retry = 0, !.key = 0]
  /\ fw' = [used |-> {}, key |-> 0, events |-> 0]
  /\ ram' = <<>>
  /\ info' = [config |-> NoText, low |-> TRUE, map |-> {}]
  /\ UNCHANGED <<kernel, partVars, imageVars>>

vmm ==
  /\ phase = "vmm" /\ VmmNext
  /\ phase' = CASE pc'.step = "stat" -> "partitions" [] pc'.step = "halted" -> "halted" [] OTHER -> "vmm"
  /\ UNCHANGED <<efiVars, partVars, mountVars>>

init_partitions ==
  /\ phase = "partitions" /\ PartNext
  /\ phase' = IF drive' > 2 THEN "mounts" ELSE "partitions"
  /\ UNCHANGED <<efiVars, mountVars, imageVars>>

make_mounts ==
  /\ phase = "mounts" /\ (init_mounts(PartNames) \/ vfs_mount(FsOf))
  /\ phase' = IF mounting' = "done" THEN "init" ELSE "mounts"
  /\ UNCHANGED <<efiVars, partVars, imageVars>>

user_enter_init ==
  /\ phase = "init" /\ UserNext(InitFound)
  /\ phase' = IF pc'.step \in {"user", "halted"} THEN pc'.step ELSE "init"
  /\ UNCHANGED <<efiVars, partVars, mountVars>>

Next == UefiMain \/ kernel_main \/ vmm \/ init_partitions \/ make_mounts \/ user_enter_init

\* The boot processor runs on: it waits for nothing, and the firmware does not keep it
\* from its next step for ever.
Spec == Init /\ [][Next]_bootVars /\ WF_bootVars(Next)

-----------------------------------------------------------------------------
(* Properties.                                                             *)

\* init_mounts makes the mounts the configuration and the partitions call for.
MountsExact == MountsRight(PartNames, FsOf)

\* Whatever is on the disks, a chain of boot records that runs in a circle included, the
\* boot comes to an end: the program is entered or the kernel has said why not.
BootEnds == <>(phase \in {"user", "halted"})

=============================================================================
