-------------------------------- MODULE Ramfs --------------------------------
(***************************************************************************)
(* The memory file system of src/kernel/fs/ramfs.c: a tree of nodes, the   *)
(* file handles and the directory cursors that pin them.                   *)
(*                                                                         *)
(* Every operation holds sb->lock from the lookup to its last write (or    *)
(* reads one word, ramfs_seek), so it is one step.  A path is the sequence *)
(* of its components and a name is a number, whose order stands for        *)
(* kernel_strcmp's.  The memory of a node that was removed is handed out   *)
(* again, and new memory holds anything: the value Junk.                   *)
(***************************************************************************)
EXTENDS Integers, Sequences, FiniteSets, SequencesExt

CONSTANTS
  Proc,      \* the callers; each has at most one file handle and one cursor
  Lister,    \* those of them that list directories
  Opens,     \* the paths and flags vfs_open is asked for
  DirPath,   \* the paths vfs_mkdir, vfs_rmdir and vfs_opendir are asked for
  MaxNode,   \* bound: nodes the heap has room for, besides the root
  DefCap,    \* RAMFS_DEF_CAP
  Value,     \* the bytes that callers write; 0 is the zero byte
  Junk,      \* what kmalloc's memory holds
  MaxPos,    \* bound: positions that callers seek or write to
  NULL

Root == 0
NodeId == 0 .. MaxNode

ASSUME RamfsAssumption ==
  /\ MaxNode \in Nat /\ MaxPos \in Nat /\ DefCap \in Nat \ {0}
  /\ Lister \subseteq Proc /\ Value \subseteq Nat
  /\ DirPath \subseteq Seq(Nat) \ {<<>>}
  /\ Opens \subseteq [path : Seq(Nat) \ {<<>>}, write : BOOLEAN, creat : BOOLEAN,
                      trunc : BOOLEAN, append : BOOLEAN, directory : BOOLEAN]
  /\ Junk \notin Nat /\ NULL \notin Nat
  /\ NULL \notin [n : Nat, write : BOOLEAN, pos : Nat]
  /\ NULL \notin [n : Nat, pos : Nat \cup {NULL}, done : BOOLEAN,
                  kept : SUBSET Nat, seen : Seq(Nat)]

VARIABLES
  node,    \* the nodes that are allocated; none when nothing is mounted
  file,    \* file[p]: p's file handle, or NULL
  dir,     \* dir[p]: p's directory cursor, or NULL
  content  \* history: what each file should read as

vars == <<node, file, dir, content>>

\* ramfs_mount's root, and what ramfs_create_locked makes of zeroed memory; cap is
\* the length of data, and child the sibling list.
NewNode(name, parent, isDir) ==
  [name |-> name, parent |-> parent, is_dir |-> isDir, child |-> <<>>,
   refs |-> 0, size |-> 0, data |-> <<>>]

Mounted == Root \in DOMAIN node

-----------------------------------------------------------------------------
(* The tree.                                                               *)

ramfs_child_find(d, name) ==
  LET same == {k \in DOMAIN node[d].child : node[node[d].child[k]].name = name}
  IN  IF same = {} THEN NULL
      ELSE node[d].child[CHOOSE k \in same : \A j \in same : k <= j]

\* One component of ramfs_lookup: the node reached so far, or the error.
lookup_step(acc, name) ==
  IF acc.rc # "ok" THEN acc
  ELSE IF ~node[acc.n].is_dir THEN [acc EXCEPT !.rc = "notdir"]
  ELSE LET c == ramfs_child_find(acc.n, name)
       IN  IF c = NULL THEN [acc EXCEPT !.rc = "noent"] ELSE [acc EXCEPT !.n = c]

\* The node or the error after each component of the path.
lookup_loop(path) ==
  LET f[k \in 0 .. Len(path)] ==
        IF k = 0 THEN [rc |-> "ok", n |-> Root] ELSE lookup_step(f[k - 1], path[k])
  IN  f

ramfs_lookup(path) == lookup_loop(path)[Len(path)]

LinkFirst(nd, d, n) == [nd EXCEPT ![d].child = <<n>> \o @]

\* The children by ascending name: in front of the first that is not smaller.
ramfs_child_link(nd, d, n) ==
  LET ch == nd[d].child
      k  == Cardinality({j \in DOMAIN ch : nd[ch[j]].name < nd[n].name})
  IN  [nd EXCEPT ![d].child = InsertAt(ch, k + 1, n)]

\* Where n is among the children of its parent.
Place(nd, n) ==
  LET ch == nd[nd[n].parent].child IN CHOOSE k \in DOMAIN ch : ch[k] = n

ramfs_child_unlink(nd, n) ==
  [nd EXCEPT ![nd[n].parent].child = RemoveAt(@, Place(nd, n))]

\* The node after n in its parent's list: n->sibling, NULL at the end of it and
\* in a node that was unlinked.
Sibling(n) ==
  IF n \notin DOMAIN node THEN NULL
  ELSE LET ch == node[node[n].parent].child
           k  == Place(node, n)
       IN  IF k = Len(ch) THEN NULL ELSE ch[k + 1]

\* Every outcome of ramfs_create_locked: NOMEM when the heap has no room left.
ramfs_create_locked(path, isDir) ==
  LET at     == ramfs_lookup(Front(path))
      unused == NodeId \ DOMAIN node
      Fail(e) == {[rc |-> e, n |-> NULL, node |-> node]}
  IN  IF at.rc # "ok" THEN Fail(at.rc)
      ELSE IF ~node[at.n].is_dir THEN Fail("notdir")
      ELSE IF ramfs_child_find(at.n, Last(path)) # NULL THEN Fail("exist")
      ELSE IF unused = {} THEN Fail("nomem")
      ELSE LET n == CHOOSE x \in unused : \A y \in unused : x <= y
               nd == [x \in DOMAIN node \cup {n} |->
                        IF x = n THEN NewNode(Last(path), at.n, isDir) ELSE node[x]]
           IN  {[rc |-> "ok", n |-> n, node |-> ramfs_child_link(nd, at.n, n)]}

\* ramfs_grow's capacity: the present one, or RAMFS_DEF_CAP, doubled while too small;
\* need rounds are enough.
grow_loop(cap, need) ==
  LET f[k \in 0 .. need] ==
        IF k = 0 THEN IF cap = 0 THEN DefCap ELSE cap
        ELSE IF f[k - 1] < need THEN 2 * f[k - 1] ELSE f[k - 1]
  IN  f

NewCap(cap, need) == grow_loop(cap, need)[need]

\* Only the bytes below size are copied; the others are what the heap left there.
ramfs_grow(nd, need) ==
  IF nd.data # <<>> /\ need <= Len(nd.data) THEN nd
  ELSE [nd EXCEPT !.data = [i \in 1 .. NewCap(Len(nd.data), need) |->
                              IF i <= nd.size THEN nd.data[i] ELSE Junk]]

-----------------------------------------------------------------------------
(* The operations.                                                         *)

Init ==
  /\ node = <<>> /\ content = <<>>
  /\ file = [p \in Proc |-> NULL]
  /\ dir = [p \in Proc |-> NULL]

ramfs_mount ==
  /\ ~Mounted
  /\ node' = [n \in {Root} |-> NewNode(0, NULL, TRUE)]
  /\ content' = [n \in {Root} |-> <<>>]
  /\ UNCHANGED <<file, dir>>

\* vfs_unmount lets it in only when no handle and no cursor pins the mount.
ramfs_unmount ==
  /\ Mounted
  /\ \A p \in Proc : file[p] = NULL /\ dir[p] = NULL
  /\ node' = <<>> /\ content' = <<>>
  /\ UNCHANGED <<file, dir>>

Created(nd) ==
  [n \in DOMAIN nd |-> IF n \in DOMAIN content THEN content[n] ELSE <<>>]

\* vfs_open's flags and ramfs_open.
ramfs_open(p, fl) ==
  /\ Mounted /\ file[p] = NULL
  /\ LET at == ramfs_lookup(fl.path)
     IN  \E r \in IF at.rc = "noent" /\ fl.creat /\ ~fl.directory
                  THEN ramfs_create_locked(fl.path, FALSE)
                  ELSE {[rc |-> at.rc, n |-> at.n, node |-> node]} :
           LET ok    == r.rc = "ok" /\ r.node[r.n].is_dir = fl.directory
               cut   == ok /\ ~fl.directory /\ fl.trunc /\ fl.write
               sized == IF cut THEN [r.node EXCEPT ![r.n].size = 0] ELSE r.node
           IN  /\ node' = IF ok THEN [sized EXCEPT ![r.n].refs = @ + 1] ELSE sized
               /\ content' = IF cut THEN [Created(r.node) EXCEPT ![r.n] = <<>>]
                             ELSE Created(r.node)
               /\ file' = IF ~ok THEN file
                          ELSE [file EXCEPT ![p] =
                            [n |-> r.n, write |-> fl.write,
                             pos |-> IF ~fl.directory /\ fl.append
                                     THEN sized[r.n].size ELSE 0]]
  /\ UNCHANGED dir

ramfs_close(p) ==
  /\ file[p] # NULL
  /\ node' = [node EXCEPT ![file[p].n].refs = @ - 1]
  /\ file' = [file EXCEPT ![p] = NULL]
  /\ UNCHANGED <<dir, content>>

IsFile(p) == file[p] # NULL /\ ~node[file[p].n].is_dir

ramfs_read(p, len) ==
  /\ IsFile(p)
  /\ LET f     == file[p]
         size  == node[f.n].size
         avail == IF size > f.pos THEN size - f.pos ELSE 0
     IN  file' = [file EXCEPT ![p].pos = @ + (IF len > avail THEN avail ELSE len)]
  /\ UNCHANGED <<node, dir, content>>

OverwriteHole(bytes, from, pos, len, v) ==
  [i \in 1 .. Len(bytes) |-> IF pos < i /\ i <= pos + len THEN v ELSE bytes[i]]

\* The bytes a write leaves: zeros up to pos, then len times v.
Overwrite(bytes, from, pos, len, v) ==
  [i \in 1 .. Len(bytes) |->
     IF pos < i /\ i <= pos + len THEN v
     ELSE IF from < i /\ i <= pos THEN 0 ELSE bytes[i]]

\* What a file reads as after the write, by POSIX.
Written(bytes, pos, len, v) ==
  [i \in 1 .. (IF pos + len > Len(bytes) THEN pos + len ELSE Len(bytes)) |->
     IF pos < i /\ i <= pos + len THEN v
     ELSE IF i <= Len(bytes) THEN bytes[i] ELSE 0]

\* kmalloc may fail inside ramfs_grow, and the write then has no effect.
ramfs_write(p, len, v) ==
  /\ IsFile(p) /\ file[p].write /\ file[p].pos + len <= MaxPos
  /\ LET f     == file[p]
         grown == ramfs_grow(node[f.n], f.pos + len)
         after == f.pos + len
     IN  \/ /\ node' = [node EXCEPT ![f.n] =
                 [grown EXCEPT !.data = Overwrite(@, grown.size, f.pos, len, v),
                               !.size = IF after > @ THEN after ELSE @]]
            /\ file' = [file EXCEPT ![p].pos = after]
            /\ content' = [content EXCEPT ![f.n] = Written(@, f.pos, len, v)]
         \/ /\ grown # node[f.n]
            /\ UNCHANGED <<node, file, content>>
  /\ UNCHANGED dir

\* VFS_SEEK_SET with pos, or VFS_SEEK_END with 0; VFS_SEEK_CUR comes to the same.
ramfs_seek(p, pos) ==
  /\ IsFile(p) /\ pos \in 0 .. MaxPos
  /\ file' = [file EXCEPT ![p].pos = pos]
  /\ UNCHANGED <<node, dir, content>>

ramfs_mkdir(path) ==
  /\ Mounted
  /\ \E r \in ramfs_create_locked(path, TRUE) :
       node' = r.node /\ content' = Created(r.node)
  /\ UNCHANGED <<file, dir>>

Unpinned(n) == node[n].child = <<>>

\* A directory that may go: empty, with no handle and no cursor on it.
Removable(n) == node[n].child = <<>> /\ node[n].refs = 0

\* ramfs_rmdir; vfs_rmdir has refused the root before.
ramfs_rmdir(path) ==
  LET at == ramfs_lookup(path)
  IN  /\ Mounted /\ at.rc = "ok"
      /\ node[at.n].is_dir /\ at.n # Root
      /\ Removable(at.n)
      /\ LET nd == ramfs_child_unlink(node, at.n)
         IN  node' = [n \in DOMAIN node \ {at.n} |-> nd[n]]
      /\ content' = [n \in DOMAIN content \ {at.n} |-> content[n]]
      /\ dir' = [q \in Proc |-> IF dir[q] = NULL THEN NULL
                                ELSE [dir[q] EXCEPT !.kept = @ \ {at.n}]]
      /\ UNCHANGED file

\* The cursor's kept and seen are history: the children that were there from the
\* start of the listing on, and the names it returned.
ramfs_opendir(p, path) ==
  LET at == ramfs_lookup(path)
  IN  /\ Mounted /\ dir[p] = NULL /\ at.rc = "ok" /\ node[at.n].is_dir
      /\ node' = [node EXCEPT ![at.n].refs = @ + 1]
      /\ dir' = [dir EXCEPT ![p] = [n |-> at.n, pos |-> NULL, done |-> FALSE,
                                    kept |-> ToSet(node[at.n].child), seen |-> <<>>]]
      /\ UNCHANGED <<file, content>>

\* The next child is pinned before the last one is let go; NOENT ends the listing.
ramfs_readdir(p) ==
  /\ dir[p] # NULL
  /\ LET d    == dir[p]
         ch   == node[d.n].child
         next == IF d.pos # NULL THEN Sibling(d.pos)
                 ELSE IF ch = <<>> THEN NULL ELSE Head(ch)
     IN  IF next = NULL
         THEN /\ dir' = [dir EXCEPT ![p].done = TRUE]
              /\ UNCHANGED node
         ELSE /\ node' = [n \in DOMAIN node |->
                   IF n = next THEN [node[n] EXCEPT !.refs = @ + 1]
                   ELSE IF n = d.pos THEN [node[n] EXCEPT !.refs = @ - 1] ELSE node[n]]
              /\ dir' = [dir EXCEPT ![p].pos = next, ![p].done = FALSE,
                                    ![p].seen = Append(@, node[next].name)]
  /\ UNCHANGED <<file, content>>

ramfs_closedir(p) ==
  /\ dir[p] # NULL
  /\ LET d == dir[p]
     IN  node' = [n \in DOMAIN node |->
           [node[n] EXCEPT !.refs = @ - (IF n = d.pos THEN 1 ELSE 0)
                                      - (IF n = d.n THEN 1 ELSE 0)]]
  /\ dir' = [dir EXCEPT ![p] = NULL]
  /\ UNCHANGED <<file, content>>

Next ==
  \/ ramfs_mount \/ ramfs_unmount
  \/ \E path \in DirPath : ramfs_mkdir(path) \/ ramfs_rmdir(path)
  \/ \E p \in Proc :
       \/ \E fl \in Opens : ramfs_open(p, fl)
       \/ \E len \in 1 .. 2 : ramfs_read(p, len)
       \/ \E len \in 1 .. 2, v \in Value : ramfs_write(p, len, v)
       \/ \E pos \in 0 .. MaxPos : ramfs_seek(p, pos)
       \/ ramfs_close(p)
  \/ \E p \in Lister :
       \/ \E path \in DirPath \cup {<<>>} : ramfs_opendir(p, path)
       \/ ramfs_readdir(p) \/ ramfs_closedir(p)

Spec == Init /\ [][Next]_vars

-----------------------------------------------------------------------------
(* Properties.                                                             *)

\* refs counts exactly the handles and the cursors on a node (a cursor counts on
\* its directory and on the child it returned last), and whatever one of them
\* points to is still allocated: rmdir never frees under a reader's feet.
RefsExact ==
  /\ \A p \in Proc :
       /\ file[p] # NULL => file[p].n \in DOMAIN node
       /\ dir[p] # NULL => {dir[p].n, dir[p].pos} \subseteq DOMAIN node \cup {NULL}
  /\ \A n \in DOMAIN node :
       node[n].refs = Cardinality({p \in Proc : file[p] # NULL /\ file[p].n = n})
                    + Cardinality({p \in Proc : dir[p] # NULL /\ dir[p].n = n})
                    + Cardinality({p \in Proc : dir[p] # NULL /\ dir[p].pos = n})

\* A file reads as what was written to it: a hole left by a seek past the end reads
\* as zeros, whatever the block held before (an older file, or this file before it
\* was truncated or moved), through every handle that writes in turn.
ContentExact ==
  \A n \in DOMAIN node :
    ~node[n].is_dir =>
      /\ node[n].size = Len(content[n]) /\ node[n].size <= Len(node[n].data)
      /\ \A i \in 1 .. node[n].size : node[n].data[i] = content[n][i]

\* A listing is in ascending order with no name twice, and when it ends it has
\* returned every child that was there all along, while others make and remove
\* directories around the cursor.
ListingComplete ==
  \A p \in Proc :
    dir[p] # NULL =>
      /\ \A i, j \in DOMAIN dir[p].seen : i < j => dir[p].seen[i] < dir[p].seen[j]
      /\ dir[p].done => {node[n].name : n \in dir[p].kept} \subseteq ToSet(dir[p].seen)

=============================================================================
