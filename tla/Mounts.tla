-------------------------------- MODULE Mounts --------------------------------
(***************************************************************************)
(* The boot configuration of src/kernel/config.c, a line at a time, and    *)
(* the mounts that init_mounts of src/kernel/fs/mount.c makes of it.       *)
(*                                                                         *)
(* A line is one of the kinds the parser tells apart: `mount dev mp fs',   *)
(* `root=dev', `init=path' (of which the mount point it lies under is      *)
(* kept), any other line it ignores or that concerns no mount.  Of         *)
(* vfs_mount (module Vfs) what decides its result is kept: the driver, the *)
(* mount points taken, the slots, and whether the driver finds its file    *)
(* system on the device.                                                   *)
(***************************************************************************)
EXTENDS Integers, Sequences

CONSTANTS
  Config,        \* the configurations: sequences of lines, or NoConfig
  NoConfig,
  MaxMountLines, \* BOOT_CONFIG_MAX_MOUNTS
  MaxMounts      \* VFS_MAX_MOUNTS

\* What the parser makes of a line: the words of a mount line, a key it knows, or
\* nothing it heeds.
ConfigLine ==
  [kind : {"mount"}, dev : STRING, mp : STRING, fs : STRING] \cup [kind : {"root"}, dev : STRING]
    \cup [kind : {"init"}, mp : STRING] \cup [kind : {"other"}]

\* There is a slot for each mount line, for / and for /dev, and for the four mounts
\* without a configuration.
ASSUME MountsAssumption ==
  /\ MaxMountLines \in Nat /\ MaxMounts \in Nat
  /\ MaxMountLines + 2 <= MaxMounts /\ 4 <= MaxMounts
  /\ Config \ {NoConfig} \subseteq Seq(ConfigLine)

VARIABLES
  cfg,      \* the text of csos.cfg, as lines
  boot,     \* g_boot_config: present, root, init, mounts
  mounts,   \* the mounts made, in order
  mounting, \* "start", "mounting" or "done"
  todo,     \* the calls of vfs_mount init_mounts has still to make
  refused   \* history: a mount failed for want of a slot alone

mountVars == <<cfg, boot, mounts, mounting, todo, refused>>

NoRoot == ""

\* cfg_parse_mount and cfg_parse_kv: a mount line too many, or one that is malformed,
\* is ignored; the last root= counts.
cfg_parse_line(b, l) ==
  CASE l.kind = "mount" /\ Len(b.mounts) < MaxMountLines ->
         [b EXCEPT !.mounts = Append(@, [fs |-> l.fs, mp |-> l.mp, dev |-> l.dev])]
    [] l.kind = "root" -> [b EXCEPT !.root = l.dev]
    [] l.kind = "init" -> [b EXCEPT !.init = l.mp]
    [] OTHER -> b

cfg_set_defaults == [present |-> FALSE, root |-> NoRoot, init |-> "/", mounts |-> <<>>]

\* The configuration after each line.
parse_loop(text) ==
  LET f[i \in 0 .. Len(text)] == IF i = 0 THEN cfg_set_defaults ELSE cfg_parse_line(f[i - 1], text[i])
  IN  f

\* Of the text that reaches the kernel, NoConfig when there is none it can use.
parse_apply_boot_config(text) ==
  /\ boot' = IF text = NoConfig THEN cfg_set_defaults
             ELSE [parse_loop(text)[Len(text)] EXCEPT !.present = TRUE]
  /\ UNCHANGED <<cfg, mounts, mounting, todo, refused>>

MountsInit ==
  /\ cfg \in Config
  /\ boot = cfg_set_defaults
  /\ mounts = <<>> /\ todo = <<>>
  /\ mounting = "start"
  /\ refused = FALSE

Mount(fs, mp, dev) == [fs |-> fs, mp |-> mp, dev |-> dev]

Taken(mp) == \E k \in 1 .. Len(mounts) : mounts[k].mp = mp

\* The driver finds its file system; fsOf[dev] is what a device that exists carries.
Mountable(m, fsOf) ==
  m.fs \in {"ramfs", "devfs"} \/ (m.fs \in {"fat32", "ext4"} /\ m.dev \in DOMAIN fsOf /\ fsOf[m.dev] = m.fs)

\* mount_dev_probe with each list of drivers in turn.
mount_dev_probe(mp, dev) == <<Mount("fat32", mp, dev), Mount("ext4", mp, dev)>>

\* A line of the configuration: a named driver, or auto.
mount_line(m) == IF m.fs = "auto" THEN mount_dev_probe(m.mp, m.dev) ELSE <<m>>

\* The lines for /, the first of them, and what it asks for.
RootLines == {i \in 1 .. Len(boot.mounts) : boot.mounts[i].mp = "/"}
RootLine == boot.mounts[CHOOSE i \in RootLines : \A j \in RootLines : i <= j]
FromLine == IF RootLines = {} THEN <<>> ELSE mount_line(RootLine)
FromKey == IF boot.root = NoRoot THEN <<>> ELSE mount_dev_probe("/", boot.root)

\* Where / comes from with a configuration: its first line, else root=, else ramfs.
RootNoFallback == FromLine \o FromKey

mount_root == FromLine \o FromKey \o <<Mount("ramfs", "/", "ramfs")>>

\* The calls for the other lines, after each of them.
lines_loop ==
  LET f[i \in 0 .. Len(boot.mounts)] ==
        IF i = 0 THEN <<>>
        ELSE f[i - 1] \o (IF boot.mounts[i].mp = "/" THEN <<>> ELSE mount_line(boot.mounts[i]))
  IN  f

\* init_mounts_config: / and then the other lines in their order.
init_mounts_config == mount_root \o lines_loop[Len(boot.mounts)]

\* mount_auto: one partition after the other.
mount_auto(fs, mp, names) == [i \in 1 .. Len(names) |-> Mount(fs, mp, names[i])]

init_mounts_legacy(names) ==
  <<Mount("ramfs", "/", "ramfs")>> \o mount_auto("fat32", "/fat", names) \o mount_auto("ext4", "/ext4", names)

\* What init_mounts will try, in this order.  The code leaves out what follows a
\* success for the same mount point; vfs_mount refuses it, as the mount point is taken.
Calls(names) ==
  <<Mount("devfs", "/dev", "devfs")>> \o (IF boot.present THEN init_mounts_config ELSE init_mounts_legacy(names))

init_mounts(names) ==
  /\ mounting = "start"
  /\ mounting' = "mounting"
  /\ todo' = Calls(names)
  /\ UNCHANGED <<cfg, boot, mounts, refused>>

\* The next vfs_mount.
vfs_mount(fsOf) ==
  /\ mounting = "mounting"
  /\ IF todo = <<>> THEN mounting' = "done" /\ UNCHANGED <<mounts, todo, refused>>
     ELSE LET m    == Head(todo)
              good == ~Taken(m.mp) /\ Mountable(m, fsOf)
          IN  /\ mounts' = IF good /\ Len(mounts) < MaxMounts THEN Append(mounts, m) ELSE mounts
              /\ refused' = (refused \/ (good /\ Len(mounts) >= MaxMounts))
              /\ todo' = Tail(todo)
              /\ UNCHANGED mounting
  /\ UNCHANGED <<cfg, boot>>

-----------------------------------------------------------------------------
(* Properties.                                                             *)

\* A line that must succeed where it stands: its device carries what it asks for.
Asked(m, fsOf) ==
  IF m.fs = "auto" THEN m.dev \in DOMAIN fsOf /\ fsOf[m.dev] \in {"fat32", "ext4"}
  ELSE Mountable(m, fsOf)

\* The device / must come from.
RootDevice(fsOf) ==
  CASE boot.present /\ RootLines # {} /\ Asked(RootLine, fsOf) -> RootLine.dev
    [] boot.present /\ ~(RootLines # {} /\ Asked(RootLine, fsOf))
         /\ boot.root \in DOMAIN fsOf /\ fsOf[boot.root] \in {"fat32", "ext4"} -> boot.root
    [] OTHER -> "ramfs"

\* Once init_mounts is through, / is mounted whatever the configuration and the disks
\* hold, from the first source in the order of the documentation that works; /dev is the
\* device tree; no mount point is taken twice; no line was refused for want of a slot;
\* every line that can be honoured is, unless a line before it took its mount point; and
\* without a configuration the first volumes of each kind are at /fat and /ext4.
MountsRight(names, fsOf) ==
  mounting = "done" =>
    /\ \E k \in 1 .. Len(mounts) : mounts[k].mp = "/" /\ mounts[k].dev = RootDevice(fsOf)
    /\ \E k \in 1 .. Len(mounts) : mounts[k].mp = "/dev" /\ mounts[k].fs = "devfs"
    /\ \A k, l \in 1 .. Len(mounts) : mounts[k].mp = mounts[l].mp => k = l
    /\ ~refused
    /\ \A i \in 1 .. Len(boot.mounts) :
         LET m == boot.mounts[i]
         IN  /\ m.mp \notin {"/", "/dev"} /\ Asked(m, fsOf)
             /\ ~\E j \in 1 .. i - 1 : boot.mounts[j].mp = m.mp /\ Asked(boot.mounts[j], fsOf)
             => \E k \in 1 .. Len(mounts) :
                  /\ mounts[k].mp = m.mp /\ mounts[k].dev = m.dev
                  /\ mounts[k].fs = (IF m.fs = "auto" THEN fsOf[m.dev] ELSE m.fs)
    /\ ~boot.present =>
         \A auto \in {<<"fat32", "/fat">>, <<"ext4", "/ext4">>} :
           LET found == {i \in 1 .. Len(names) : fsOf[names[i]] = auto[1]}
           IN  IF found = {} THEN ~Taken(auto[2])
               ELSE LET first == CHOOSE i \in found : \A j \in found : i <= j
                    IN  Mount(auto[1], auto[2], names[first]) \in {mounts[k] : k \in 1 .. Len(mounts)}

=============================================================================
