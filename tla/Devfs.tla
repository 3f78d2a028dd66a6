-------------------------------- MODULE Devfs --------------------------------
(***************************************************************************)
(* The device registry of src/kernel/vdev.c and the file system of device  *)
(* nodes of src/kernel/fs/devfs.c that listens to it.                      *)
(*                                                                         *)
(* A device's name is a path (a sequence of numbers, whose order stands    *)
(* for kernel_strcmp's), and a node is known by its path: a node that was  *)
(* freed and made again has the same path and a count that starts at 0.    *)
(* vdev_register and vdev_unregister call the listener with g_vdev_lock    *)
(* held, and the listener takes sb->lock: each is one step.                *)
(***************************************************************************)
EXTENDS Integers, Sequences, FiniteSets, SequencesExt

CONSTANTS
  Proc,    \* the callers; each has at most one file handle and one cursor
  Device,  \* the devices that register
  Path,    \* Path[d]: the name of device d
  MaxNode, \* bound: nodes the heap has room for, besides the root
  NULL

Names == {Path[d] : d \in Device}

\* The nodes' paths: every prefix of a name.
Nodes == UNION {{SubSeq(q, 1, k) : k \in 0 .. Len(q)} : q \in Names}

ASSUME DevfsAssumption ==
  /\ Path \in [Device -> Seq(Nat) \ {<<>>}]
  /\ MaxNode \in Nat
  /\ NULL \notin Device /\ NULL \notin Seq(Nat)
  /\ NULL \notin [path : Seq(Nat), dev : Device \cup {NULL}]
  /\ NULL \notin [path : Seq(Nat), pos : Seq(Nat) \cup {NULL}]

VARIABLES
  g_devs,  \* the registered devices, the last one first
  mounted, \* devfs is mounted, and listens
  node,    \* the nodes that are allocated, by path
  file,    \* file[p]: p's handle, or NULL
  opening, \* opening[p]: p is in devfs_open, calling the device's open
  dir,     \* dir[p]: p's directory cursor, or NULL
  unseen,  \* history: the registered devices devfs failed to attach
  stale    \* history: the devices that were unregistered while their node was in use

vars == <<g_devs, mounted, node, file, opening, dir, unseen, stale>>
users == <<file, opening, dir>>

NewNode(isDir) == [is_dir |-> isDir, refs |-> 0, dev |-> NULL]

Children(nd, q) == {r \in DOMAIN nd : Len(r) = Len(q) + 1 /\ Front(r) = q}

-----------------------------------------------------------------------------
(* Attaching and detaching.                                                *)

\* A name's last component is refused when it is a directory, or a device's already.
TakenByDirectory(n) == n.is_dir
Taken(n) == n.is_dir \/ n.dev # NULL

\* devfs_attach_locked, component k of d's name; a node that is missing is made,
\* and stays when a later component fails.
attach_step(d, acc, k) ==
  LET q    == SubSeq(Path[d], 1, k)
      last == k = Len(Path[d])
      here == q \in DOMAIN acc.node
      nd   == IF here THEN acc.node
              ELSE [r \in DOMAIN acc.node \cup {q} |->
                      IF r = q THEN NewNode(~last) ELSE acc.node[r]]
  IN  IF acc.rc # "ok" THEN acc
      ELSE IF ~here /\ Cardinality(DOMAIN acc.node) > MaxNode THEN [acc EXCEPT !.rc = "nomem"]
      ELSE IF last /\ Taken(nd[q]) THEN [rc |-> "exist", node |-> nd]
      ELSE IF last THEN [rc |-> "ok", node |-> [nd EXCEPT ![q].dev = d]]
      ELSE IF ~nd[q].is_dir THEN [rc |-> "notdir", node |-> nd]
      ELSE [rc |-> "ok", node |-> nd]

attach_loop(nd, d) ==
  LET acc[k \in 0 .. Len(Path[d])] ==
        IF k = 0 THEN [rc |-> "ok", node |-> nd] ELSE attach_step(d, acc[k - 1], k)
  IN  acc

devfs_attach_locked(nd, d) == attach_loop(nd, d)[Len(Path[d])]

Without(nd, q) == [r \in DOMAIN nd \ {q} |-> nd[r]]

\* The parents that devfs_detach_locked cleans up, from the device's directory
\* upwards: each is empty, and not in use.
Empty(nd, q) == Children(nd, q) = {} /\ nd[q].dev = NULL
Idle(nd, q) == Empty(nd, q) /\ nd[q].refs = 0

prune_step(nd, q) == IF Idle(nd, q) THEN Without(nd, q) ELSE nd

prune_loop(nd, q) ==
  LET left[k \in 0 .. Len(q) - 1] ==
        IF k = 0 THEN Without(nd, q) ELSE prune_step(left[k - 1], SubSeq(q, 1, Len(q) - k))
  IN  left

\* A node with a handle or a cursor on it is kept: BUSY.
Busy(nd, q) == nd[q].refs > 0

devfs_detach_locked(nd, d) ==
  LET q == Path[d]
  IN  IF q \notin DOMAIN nd \/ nd[q].dev # d THEN [rc |-> "noent", node |-> nd]
      ELSE IF Busy(nd, q) THEN [rc |-> "busy", node |-> nd]
      ELSE [rc |-> "ok", node |-> prune_loop(nd, q)[Len(q) - 1]]

-----------------------------------------------------------------------------
(* The registry.                                                           *)

Init ==
  /\ g_devs = <<>> /\ mounted = FALSE /\ node = <<>>
  /\ file = [p \in Proc |-> NULL]
  /\ opening = [p \in Proc |-> FALSE]
  /\ dir = [p \in Proc |-> NULL]
  /\ unseen = {} /\ stale = {}

\* What the listener returns is not looked at.
vdev_register(d) ==
  /\ Path[d] \notin {Path[e] : e \in ToSet(g_devs)}
  /\ g_devs' = <<d>> \o g_devs
  /\ LET r == devfs_attach_locked(node, d)
     IN  IF mounted
         THEN /\ node' = r.node
              /\ unseen' = IF r.rc = "ok" \/ d \in stale THEN unseen ELSE unseen \cup {d}
              /\ stale' = stale \ {d}
         ELSE UNCHANGED <<node, unseen, stale>>
  /\ UNCHANGED <<mounted, users>>

vdev_unregister(d) ==
  /\ \E i \in 1 .. Len(g_devs) : g_devs[i] = d /\ g_devs' = RemoveAt(g_devs, i)
  /\ unseen' = unseen \ {d}
  /\ LET r == devfs_detach_locked(node, d)
     IN  IF mounted
         THEN node' = r.node /\ stale' = IF r.rc = "busy" THEN stale \cup {d} ELSE stale
         ELSE UNCHANGED <<node, stale>>
  /\ UNCHANGED <<mounted, users>>

\* vdev_listen tells of every device that is registered.
listen_step(acc, d) ==
  LET r == devfs_attach_locked(acc.node, d)
  IN  [node |-> r.node, unseen |-> IF r.rc = "ok" THEN acc.unseen ELSE acc.unseen \cup {d}]

listen_loop(devs) ==
  LET acc[k \in 0 .. Len(devs)] ==
        IF k = 0 THEN [node |-> [q \in {<<>>} |-> NewNode(TRUE)], unseen |-> {}]
        ELSE listen_step(acc[k - 1], devs[k])
  IN  acc

\* devfs_mount with vdev_listen: every device is attached below a new root.
devfs_mount ==
  /\ ~mounted
  /\ mounted' = TRUE
  /\ LET all == listen_loop(g_devs)[Len(g_devs)]
     IN  node' = all.node /\ unseen' = all.unseen
  /\ UNCHANGED <<g_devs, users, stale>>

\* Let in by vfs_unmount only when nothing is open; vdev_unlisten comes first.
devfs_unmount ==
  /\ mounted
  /\ \A p \in Proc : file[p] = NULL /\ dir[p] = NULL
  /\ mounted' = FALSE /\ node' = <<>> /\ unseen' = {} /\ stale' = {}
  /\ UNCHANGED <<g_devs, users>>

-----------------------------------------------------------------------------
(* Handles and cursors.                                                    *)

\* devfs_open up to the unlock: the node is pinned.  A directory is open at once.
devfs_open(p, q, wantDir) ==
  /\ mounted /\ file[p] = NULL
  /\ q \in DOMAIN node
  /\ node[q].is_dir = wantDir /\ (wantDir \/ node[q].dev # NULL)
  /\ node' = [node EXCEPT ![q].refs = @ + 1]
  /\ file' = [file EXCEPT ![p] = [path |-> q, dev |-> node[q].dev]]
  /\ opening' = [opening EXCEPT ![p] = ~wantDir]
  /\ UNCHANGED <<g_devs, mounted, dir, unseen, stale>>

\* The device's own open succeeds, or fails and the pin is taken back.
devfs_opened(p, ok) ==
  /\ opening[p]
  /\ opening' = [opening EXCEPT ![p] = FALSE]
  /\ node' = IF ok THEN node ELSE [node EXCEPT ![file[p].path].refs = @ - 1]
  /\ file' = IF ok THEN file ELSE [file EXCEPT ![p] = NULL]
  /\ UNCHANGED <<g_devs, mounted, dir, unseen, stale>>

devfs_close(p) ==
  /\ file[p] # NULL /\ ~opening[p]
  /\ node' = [node EXCEPT ![file[p].path].refs = @ - 1]
  /\ file' = [file EXCEPT ![p] = NULL]
  /\ UNCHANGED <<g_devs, mounted, opening, dir, unseen, stale>>

devfs_opendir(p, q) ==
  /\ mounted /\ dir[p] = NULL
  /\ q \in DOMAIN node /\ node[q].is_dir
  /\ node' = [node EXCEPT ![q].refs = @ + 1]
  /\ dir' = [dir EXCEPT ![p] = [path |-> q, pos |-> NULL]]
  /\ UNCHANGED <<g_devs, mounted, file, opening, unseen, stale>>

\* The child after the one returned last: it is pinned, and that one let go.
devfs_readdir(p) ==
  /\ dir[p] # NULL
  /\ LET d    == dir[p]
         rest == {r \in Children(node, d.path) : d.pos = NULL \/ Last(r) > Last(d.pos)}
         next == CHOOSE r \in rest : \A s \in rest : Last(r) <= Last(s)
     IN  /\ rest # {}
         /\ node' = [q \in DOMAIN node |->
              IF q = next THEN [node[q] EXCEPT !.refs = @ + 1]
              ELSE IF q = d.pos THEN [node[q] EXCEPT !.refs = @ - 1] ELSE node[q]]
         /\ dir' = [dir EXCEPT ![p].pos = next]
  /\ UNCHANGED <<g_devs, mounted, file, opening, unseen, stale>>

devfs_closedir(p) ==
  /\ dir[p] # NULL
  /\ node' = [q \in DOMAIN node |->
       [node[q] EXCEPT !.refs = @ - (IF q = dir[p].pos THEN 1 ELSE 0)
                                  - (IF q = dir[p].path THEN 1 ELSE 0)]]
  /\ dir' = [dir EXCEPT ![p] = NULL]
  /\ UNCHANGED <<g_devs, mounted, file, opening, unseen, stale>>

Next ==
  \/ devfs_mount \/ devfs_unmount
  \/ \E d \in Device : vdev_register(d) \/ vdev_unregister(d)
  \/ \E p \in Proc :
       \/ \E q \in Nodes : \/ \E wantDir \in BOOLEAN : devfs_open(p, q, wantDir)
                           \/ devfs_opendir(p, q)
       \/ \E ok \in BOOLEAN : devfs_opened(p, ok)
       \/ devfs_close(p) \/ devfs_readdir(p) \/ devfs_closedir(p)

Spec == Init /\ [][Next]_vars

-----------------------------------------------------------------------------
(* Properties.                                                             *)

\* refs counts exactly the handles (the ones still opening too) and the cursors on
\* a node, and all they point to is allocated, while devices come and go: a device
\* that leaves never frees a node, or a directory above it, that is in use.
NodesPinned ==
  /\ \A p \in Proc :
       /\ file[p] # NULL => file[p].path \in DOMAIN node
       /\ dir[p] # NULL => dir[p].path \in DOMAIN node /\ dir[p].pos \in DOMAIN node \cup {NULL}
  /\ \A q \in DOMAIN node :
       node[q].refs = Cardinality({p \in Proc : file[p] # NULL /\ file[p].path = q})
                    + Cardinality({p \in Proc : dir[p] # NULL /\ dir[p].path = q})
                    + Cardinality({p \in Proc : dir[p] # NULL /\ dir[p].pos = q})

\* The nodes stand for the registered devices: each one that could be attached has
\* its node, no other device has one except those that left while it was in use,
\* and a handle's node still has the device that was opened.
NodesMatch ==
  mounted =>
    /\ {node[q].dev : q \in DOMAIN node} \ {NULL} = (ToSet(g_devs) \ unseen) \cup stale
    /\ \A p \in Proc : file[p] # NULL => node[file[p].path].dev = file[p].dev
    /\ \A q \in DOMAIN node : q # <<>> => Front(q) \in DOMAIN node

=============================================================================
