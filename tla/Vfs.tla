-------------------------------- MODULE Vfs --------------------------------
(***************************************************************************)
(* The virtual file system of src/kernel/fs/vfs.c: the mount table with    *)
(* its pins, the working directory, and the handles of concurrent callers. *)
(*                                                                         *)
(* Every critical section of g_vfs_lock, and every call into a driver      *)
(* between two of them, is one step.  A path is the sequence of its        *)
(* components; every name but ".." is one character long.  A driver is     *)
(* external: its operations succeed or fail.                               *)
(***************************************************************************)
EXTENDS Integers, Sequences, FiniteSets, SequencesExt

CONSTANTS
  Proc,       \* the callers
  Boot,       \* kernel_main, which mounts before the others run
  Mounters,   \* the callers of vfs_mount after that: none in the kernel
  Driver,     \* the drivers that register
  MaxDrivers, \* VFS_MAX_DRIVERS
  NMounts,    \* VFS_MAX_MOUNTS
  PathMax,    \* VFS_PATH_MAX
  Points,     \* the mount points asked for, in normal form
  Paths,      \* the paths asked for: [abs, comps]
  MaxSb,      \* bound: superblocks made in one behaviour
  NULL

Slot == 1 .. NMounts

Names(p) == {p[k] : k \in DOMAIN p}

ASSUME VfsAssumption ==
  /\ Boot \in Proc /\ Mounters \subseteq Proc
  /\ MaxDrivers \in Nat /\ NMounts \in Nat \ {0} /\ PathMax \in Nat \ {0, 1} /\ MaxSb \in Nat
  /\ Points \subseteq Seq(STRING) /\ Paths \subseteq [abs : BOOLEAN, comps : Seq(STRING)]
  /\ \A p \in Points : {".", ".."} \cap Names(p) = {} /\ 2 * Len(p) < PathMax
  /\ NULL \notin Driver /\ NULL \notin Nat /\ NULL \notin [mnt : Slot, sb : 1 .. MaxSb]

VARIABLES
  booted,    \* kernel_main is through with init_mounts
  g_drivers, \* the set of registered drivers
  g_mounts,  \* the mount table; a superblock is a number
  g_cwd,
  nsb,       \* superblocks made so far
  pc,        \* pc[p]: where caller p is
  call,      \* call[p]: the local variables of p's call
  file       \* file[p]: the handle p has open, or NULL

vars == <<booted, g_drivers, g_mounts, g_cwd, nsb, pc, call, file>>
table == <<g_mounts, g_cwd, nsb>>

Locs == {"idle", "mounting", "mount_fail", "unmounting", "unmount_fail",
         "unmount_done", "resolve", "pinned", "unpin", "setcwd", "fault"}

\* op: "open" (vfs_opendir too), "stat" (vfs_mkdir and vfs_rmdir too), "chdir" or
\* "close" (vfs_closedir too); norm: the normalised path; slot: the mount in hand;
\* ok: what the driver answered.
NoCall == [op |-> "none", norm |-> <<>>, slot |-> 1, ok |-> FALSE]

Goto(p, l) == pc' = [pc EXCEPT ![p] = l]
Return(p) == Goto(p, "idle") /\ call' = [call EXCEPT ![p] = NoCall]

-----------------------------------------------------------------------------
(* Paths.                                                                  *)

\* kernel_strlen of a normalised path, and of the text of a relative one.
AbsLen(comps) == IF comps = <<>> THEN 1 ELSE 2 * Len(comps)
RelLen(comps) ==
  2 * Len(comps) - 1 + Cardinality({k \in DOMAIN comps : comps[k] = ".."})

KeepsDots(acc, c) ==
  IF c = ".." /\ acc.path # <<>>
  THEN [acc EXCEPT !.path = Front(@)]
  ELSE [acc EXCEPT !.path = Append(@, c)]

\* vfs_normalize, one component: the root's parent is the root, and a path that
\* outgrows the buffer on the way is refused.
normalize_step(acc, c) ==
  IF ~acc.ok \/ c = "." \/ (c = ".." /\ acc.path = <<>>) THEN acc
  ELSE IF c = ".." THEN [acc EXCEPT !.path = Front(@)]
  ELSE IF 2 * (Len(acc.path) + 1) >= PathMax THEN [acc EXCEPT !.ok = FALSE]
  ELSE [acc EXCEPT !.path = Append(@, c)]

\* The path after each round of the loop.
normalize_loop(comps) ==
  LET acc[k \in 0 .. Len(comps)] ==
        IF k = 0 THEN [ok |-> TRUE, path |-> <<>>] ELSE normalize_step(acc[k - 1], comps[k])
  IN  acc

vfs_normalize(comps) == normalize_loop(comps)[Len(comps)]

\* vfs_abspath: a relative path is joined to the working directory first.
vfs_abspath(path) ==
  IF path.abs THEN vfs_normalize(path.comps)
  ELSE IF AbsLen(g_cwd) + 1 + RelLen(path.comps) >= PathMax
  THEN [ok |-> FALSE, path |-> <<>>]
  ELSE vfs_normalize(g_cwd \o path.comps)

RootLast(best, i, path) ==
  LET mp == g_mounts[i].mountpoint IN
  IF ~g_mounts[i].used THEN best
  ELSE IF mp = <<>> THEN i
  ELSE IF IsPrefix(mp, path) /\ (best = NULL \/ Len(mp) > Len(g_mounts[best].mountpoint))
  THEN i ELSE best

\* vfs_resolve, one slot: "/" only if nothing else was found before.
resolve_step(best, i, path) ==
  LET mp == g_mounts[i].mountpoint IN
  IF ~g_mounts[i].used THEN best
  ELSE IF mp = <<>> THEN IF best = NULL THEN i ELSE best
  ELSE IF IsPrefix(mp, path) /\ (best = NULL \/ Len(mp) > Len(g_mounts[best].mountpoint))
  THEN i ELSE best

\* The best slot after each round of the loop.
resolve_loop(path) ==
  LET best[i \in 0 .. NMounts] == IF i = 0 THEN NULL ELSE resolve_step(best[i - 1], i, path)
  IN  best

vfs_resolve(path) == resolve_loop(path)[NMounts]

-----------------------------------------------------------------------------
(* Drivers, mounting and unmounting.                                       *)

NoMount == [used |-> FALSE, open_count |-> 0, mountpoint |-> <<>>, drv |-> NULL,
            priv |-> NULL]

\* After init_vfs.
Init ==
  /\ booted = FALSE
  /\ g_drivers = {}
  /\ g_mounts = [i \in Slot |-> NoMount]
  /\ g_cwd = <<>>
  /\ nsb = 0
  /\ pc = [p \in Proc |-> "idle"]
  /\ call = [p \in Proc |-> NoCall]
  /\ file = [p \in Proc |-> NULL]

\* A name is registered once, and only so many.
vfs_register_driver(d) ==
  /\ ~booted
  /\ d \notin g_drivers
  /\ Cardinality(g_drivers) < MaxDrivers
  /\ g_drivers' = g_drivers \cup {d}
  /\ UNCHANGED <<booted, table, pc, call, file>>

\* init_mounts returns and tasks run.
boot_done ==
  /\ ~booted
  /\ pc[Boot] = "idle"
  /\ booted' = TRUE
  /\ UNCHANGED <<g_drivers, table, pc, call, file>>

\* The first slot that is not in use.
free_slot ==
  LET unused == {i \in Slot : ~g_mounts[i].used}
  IN {i \in unused : \A j \in unused : i <= j}

\* vfs_mount up to the driver: the slot is claimed and visible from now on.
vfs_mount(p, d, point) ==
  /\ pc[p] = "idle"
  /\ IF booted THEN p \in Mounters ELSE p = Boot
  /\ d \in g_drivers
  /\ \A i \in Slot : ~(g_mounts[i].used /\ g_mounts[i].mountpoint = point)
  /\ \E i \in free_slot :
       /\ g_mounts' = [g_mounts EXCEPT
            ![i] = [@ EXCEPT !.used = TRUE, !.drv = d, !.priv = NULL,
                             !.mountpoint = point]]
       /\ call' = [call EXCEPT ![p].slot = i]
  /\ Goto(p, "mounting")
  /\ UNCHANGED <<booted, g_drivers, g_cwd, nsb, file>>

\* drv->mount stores the superblock, without the lock, or fails.
driver_mount(p) ==
  /\ pc[p] = "mounting"
  /\ \/ /\ nsb < MaxSb
        /\ nsb' = nsb + 1
        /\ g_mounts' = [g_mounts EXCEPT ![call[p].slot].priv = nsb + 1]
        /\ Return(p)
     \/ /\ Goto(p, "mount_fail")
        /\ UNCHANGED <<g_mounts, nsb, call>>
  /\ UNCHANGED <<booted, g_drivers, g_cwd, file>>

\* vfs_mount gives the slot back.
mount_fail(p) ==
  /\ pc[p] = "mount_fail"
  /\ g_mounts' = [g_mounts EXCEPT
       ![call[p].slot] = [@ EXCEPT !.used = FALSE, !.drv = NULL, !.priv = NULL]]
  /\ Return(p)
  /\ UNCHANGED <<booted, g_drivers, g_cwd, nsb, file>>

\* A mount with pins is not taken down.
may_unmount(i) == g_mounts[i].open_count = 0

\* vfs_unmount up to the driver: the slot is free from now on.
vfs_unmount(p, point) ==
  /\ booted
  /\ pc[p] = "idle"
  /\ \E i \in Slot :
       /\ g_mounts[i].used /\ g_mounts[i].mountpoint = point
       /\ may_unmount(i)
       /\ g_mounts' = [g_mounts EXCEPT ![i].used = FALSE]
       /\ call' = [call EXCEPT ![p].slot = i]
  /\ Goto(p, "unmounting")
  /\ UNCHANGED <<booted, g_drivers, g_cwd, nsb, file>>

\* g_mounts[i].drv->unmount, found through the slot, frees the superblock.
driver_unmount(p) ==
  /\ pc[p] = "unmounting"
  /\ IF g_mounts[call[p].slot].drv = NULL
     THEN Goto(p, "fault") /\ UNCHANGED g_mounts
     ELSE \/ /\ g_mounts' = [g_mounts EXCEPT ![call[p].slot].priv = NULL]
             /\ Goto(p, "unmount_done")
          \/ Goto(p, "unmount_fail") /\ UNCHANGED g_mounts
  /\ UNCHANGED <<booted, g_drivers, g_cwd, nsb, call, file>>

unmount_fail(p) ==
  /\ pc[p] = "unmount_fail"
  /\ g_mounts' = [g_mounts EXCEPT ![call[p].slot].used = TRUE]
  /\ Return(p)
  /\ UNCHANGED <<booted, g_drivers, g_cwd, nsb, file>>

unmount_done(p) ==
  /\ pc[p] = "unmount_done"
  /\ g_mounts' = [g_mounts EXCEPT ![call[p].slot].drv = NULL, ![call[p].slot].priv = NULL]
  /\ Return(p)
  /\ UNCHANGED <<booted, g_drivers, g_cwd, nsb, file>>

-----------------------------------------------------------------------------
(* Calls with a path.                                                      *)

\* vfs_open, vfs_opendir, vfs_stat, vfs_mkdir, vfs_rmdir or vfs_chdir begins:
\* the path is made absolute and normal.
vfs_call(p, o, path) ==
  /\ booted
  /\ pc[p] = "idle"
  /\ o = "open" => file[p] = NULL
  /\ LET a == vfs_abspath(path) IN
       a.ok /\ call' = [call EXCEPT ![p].op = o, ![p].norm = a.path]
  /\ Goto(p, "resolve")
  /\ UNCHANGED <<booted, g_drivers, table, file>>

\* vfs_locate: the mount is found and pinned in one critical section.
vfs_locate(p) ==
  /\ pc[p] = "resolve"
  /\ LET i == vfs_resolve(call[p].norm) IN
       IF i = NULL
       THEN Return(p) /\ UNCHANGED g_mounts
       ELSE /\ g_mounts' = [g_mounts EXCEPT ![i].open_count = @ + 1]
            /\ call' = [call EXCEPT ![p].slot = i]
            /\ Goto(p, "pinned")
  /\ UNCHANGED <<booted, g_drivers, g_cwd, nsb, file>>

FailedOpenKeepsPin(p) == "idle"

\* Where a call goes on that has no handle to keep.
after_failure(p) == "unpin"

\* The driver is called through m->drv; without a superblock it refuses.
driver_call(p) ==
  /\ pc[p] = "pinned"
  /\ LET m == g_mounts[call[p].slot] IN
       \/ /\ m.drv = NULL
          /\ Goto(p, "fault")
          /\ UNCHANGED <<call, file>>
       \/ /\ m.drv # NULL /\ m.priv # NULL /\ call[p].op = "open"
          /\ file' = [file EXCEPT ![p] = [mnt |-> call[p].slot, sb |-> m.priv]]
          /\ Return(p)
       \/ /\ m.drv # NULL /\ m.priv # NULL /\ call[p].op # "open"
          /\ call' = [call EXCEPT ![p].ok = TRUE]
          /\ Goto(p, "unpin")
          /\ UNCHANGED file
       \/ /\ m.drv # NULL
          /\ Goto(p, after_failure(p))
          /\ UNCHANGED <<call, file>>
  /\ UNCHANGED <<booted, g_drivers, table>>

\* vfs_unpin, and the end of the call; vfs_chdir goes on.
vfs_unpin(p) ==
  /\ pc[p] = "unpin"
  /\ g_mounts' = [g_mounts EXCEPT ![call[p].slot].open_count = @ - 1]
  /\ IF call[p].op = "chdir" /\ call[p].ok
     THEN Goto(p, "setcwd") /\ UNCHANGED call
     ELSE Return(p)
  /\ UNCHANGED <<booted, g_drivers, g_cwd, nsb, file>>

\* vfs_chdir: what was a directory becomes the working directory.
chdir_set(p) ==
  /\ pc[p] = "setcwd"
  /\ g_cwd' = call[p].norm
  /\ Return(p)
  /\ UNCHANGED <<booted, g_drivers, g_mounts, nsb, file>>

\* vfs_close or vfs_closedir, up to the unpinning.
vfs_close(p) ==
  /\ pc[p] = "idle"
  /\ file[p] # NULL
  /\ call' = [call EXCEPT ![p].op = "close", ![p].slot = file[p].mnt]
  /\ file' = [file EXCEPT ![p] = NULL]
  /\ Goto(p, "unpin")
  /\ UNCHANGED <<booted, g_drivers, table>>

Next ==
  \/ \E d \in Driver : vfs_register_driver(d)
  \/ boot_done
  \/ \E p \in Proc :
       \/ \E d \in Driver, point \in Points : vfs_mount(p, d, point)
       \/ driver_mount(p)
       \/ mount_fail(p)
       \/ \E point \in Points : vfs_unmount(p, point)
       \/ driver_unmount(p)
       \/ unmount_fail(p)
       \/ unmount_done(p)
       \/ \E o \in {"open", "stat", "chdir"}, path \in Paths : vfs_call(p, o, path)
       \/ vfs_locate(p)
       \/ driver_call(p)
       \/ vfs_unpin(p)
       \/ chdir_set(p)
       \/ vfs_close(p)

Spec == Init /\ [][Next]_vars

-----------------------------------------------------------------------------
(* Properties.                                                             *)

\* Type invariant: every mount and every handle is in the table of
\* VFS_MAX_MOUNTS slots.
TypeOK ==
  /\ booted \in BOOLEAN
  /\ g_drivers \subseteq Driver
  /\ \A i \in Slot :
       g_mounts[i] \in [used : BOOLEAN, open_count : 0 .. Cardinality(Proc) * 2,
                        mountpoint : Points \cup {<<>>}, drv : Driver \cup {NULL},
                        priv : 1 .. MaxSb \cup {NULL}]
  /\ DOMAIN g_mounts = Slot
  /\ nsb \in 0 .. MaxSb
  /\ \A p \in Proc :
       /\ pc[p] \in Locs
       /\ call[p].op \in {"none", "open", "stat", "chdir", "close"}
       /\ call[p].slot \in Slot /\ call[p].ok \in BOOLEAN
       /\ file[p] = NULL \/ file[p] \in [mnt : Slot, sb : 1 .. MaxSb]

\* open_count is the number of handles and of calls in flight: no error path
\* loses a pin, which would block unmounting for ever, or drops one too many.
PinsExact ==
  \A i \in Slot :
    g_mounts[i].open_count =
      Cardinality({p \in Proc : file[p] # NULL /\ file[p].mnt = i})
        + Cardinality({p \in Proc : pc[p] \in {"pinned", "unpin"}
                                        /\ call[p].slot = i})

\* The mount under a handle stays, with the superblock the handle was opened in,
\* and nobody calls through a driver pointer that is NULL.
HandlesValid ==
  \A p \in Proc :
    /\ pc[p] # "fault"
    /\ file[p] # NULL => /\ g_mounts[file[p].mnt].used
                         /\ g_mounts[file[p].mnt].priv = file[p].sb

\* Pins do what they are for: they count the handles and the calls in flight, no
\* error path excepted, and the mount under each of those stays as it was.
MountsPinned == TypeOK /\ PinsExact /\ HandlesValid

\* vfs_resolve scans the table once, in slot order: whatever order the mounts and
\* unmounts left, a call is served by the longest mount point above its path.
LongestWins ==
  [][\A p \in Proc : pc[p] = "resolve" /\ pc'[p] = "pinned" =>
       LET above == {i \in Slot : g_mounts[i].used
                                    /\ IsPrefix(g_mounts[i].mountpoint, call[p].norm)}
       IN /\ call'[p].slot \in above
          /\ \A i \in above : Len(g_mounts[i].mountpoint)
                                <= Len(g_mounts[call'[p].slot].mountpoint)]_vars

\* vfs_chdir keeps the working directory a normal path that fits g_cwd, whatever
\* relative paths it went through and whoever else changed it meanwhile.
CwdNormal == {".", ".."} \cap Names(g_cwd) = {} /\ AbsLen(g_cwd) < PathMax

=============================================================================
