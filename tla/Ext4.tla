--------------------------------- MODULE Ext4 ---------------------------------
(***************************************************************************)
(* The read-only ext4 driver of src/kernel/fs/ext4.c: mount, the search of *)
(* an extent tree and of a directory, and the operations on files and      *)
(* directory cursors.                                                      *)
(*                                                                         *)
(* A volume is what the driver reads: its superblock (good, of another     *)
(* file system, or with features that are not supported), inodes, blocks.  *)
(* A block holds a node of an extent tree, FsBlock cells of a file, or     *)
(* records of a directory by their position.  What is damaged is a         *)
(* header, a length, a block that cannot be read or an index that leads    *)
(* back.  A read is one step: nobody writes.                               *)
(***************************************************************************)
EXTENDS Integers, Sequences, FiniteSets

CONSTANTS
  Volume,    \* the volumes
  FsBlock,   \* cells in a block
  MaxDepth,  \* EXT4_MAX_DEPTH
  RecHeader, \* the shortest record of a directory
  RootIno,   \* EXT4_ROOT_INO
  ExtPath,   \* the paths, sequences of names
  MaxSeek    \* bound: where seek goes

ASSUME Ext4Assumption ==
  /\ FsBlock \in Nat \ {0} /\ MaxDepth \in Nat \ {0} /\ RecHeader \in 1 .. FsBlock
  /\ RootIno # 0 /\ MaxSeek \in Nat

-----------------------------------------------------------------------------
(* The format: what a volume holds, told from its blocks alone.            *)

\* The extents of a tree by every way through it, at most left levels below a node;
\* below[c] has those one level less below block c.
ExtentsOf(node, left, below) ==
  CASE ~node.ok -> {}
    [] node.ok /\ node.depth = 0 -> {node.entries[i] : i \in 1 .. Len(node.entries)}
    [] node.ok /\ node.depth > 0 ->
         IF left = 0 THEN {} ELSE UNION {below[node.entries[i].child] : i \in 1 .. Len(node.entries)}

ExtentsAt(sb, left, below) == [c \in DOMAIN sb.nodes |-> ExtentsOf(sb.nodes[c], left, below)]

Below(sb) ==
  LET f[left \in 0 .. MaxDepth - 1] ==
        IF left = 0 THEN ExtentsAt(sb, 0, <<>>) ELSE ExtentsAt(sb, left, f[left - 1])
  IN  f

Extents(sb, ip) == ExtentsOf(ip.root, MaxDepth, Below(sb)[MaxDepth - 1])

\* The extents that hold block lb of an inode, and the block of the disk it is.
Holds(e, lb) == e.b <= lb /\ lb < e.b + e.span
Covering(sb, ip, lb) == {e \in Extents(sb, ip) : Holds(e, lb) /\ ~e.uninit}
Phys(sb, ip, lb) == LET e == CHOOSE e \in Covering(sb, ip, lb) : TRUE IN e.start + (lb - e.b)

\* A cell of a file.
CellAt(sb, ip, off) ==
  IF Covering(sb, ip, off \div FsBlock) = {} THEN 0
  ELSE sb.data[Phys(sb, ip, off \div FsBlock)][(off % FsBlock) + 1]

\* The positions in a block of a directory where a record begins: 0, and each that a
\* record ends at.
Starts(records) ==
  {p \in DOMAIN records : \A S \in SUBSET DOMAIN records :
     /\ 0 \in S
     /\ \A q \in S : q + records[q].rec \in DOMAIN records => q + records[q].rec \in S
     => p \in S}

\* The offsets of the records of a directory that are in use, and the records.
RecordAt(sb, ip, off) == sb.dirs[Phys(sb, ip, off \div FsBlock)][off % FsBlock]
InUse(sb, ip) ==
  {off \in 0 .. ip.size - 1 :
     /\ Covering(sb, ip, off \div FsBlock) # {}
     /\ off % FsBlock \in Starts(sb.dirs[Phys(sb, ip, off \div FsBlock)])
     /\ RecordAt(sb, ip, off).ino # 0}

\* What is on a volume, damaged or not: a node of a tree has extents or children.
ExtentRec == [b : Nat, span : Nat, uninit : BOOLEAN, start : Nat]
NodeTyped(sb, n) ==
  /\ n.ok \in BOOLEAN /\ n.depth \in Nat
  /\ n.entries \in IF n.depth = 0 THEN Seq(ExtentRec) ELSE Seq([b : Nat, child : DOMAIN sb.nodes])

\* An index ascends, and what is below an entry ends before the next one begins.
NodeOrdered(sb, n) ==
  n.ok /\ n.depth > 0 =>
    \A i \in 1 .. Len(n.entries) :
      /\ \A j \in i .. Len(n.entries) : n.entries[i].b <= n.entries[j].b
      /\ \A left \in 0 .. MaxDepth - 1 : \A e \in Below(sb)[left][n.entries[i].child] :
           n.entries[i].b <= e.b /\ (i < Len(n.entries) => e.b + e.span <= n.entries[i + 1].b)

\* Extents lie apart.  Those of a file lead to cells, those of a directory to records.
InodeSound(sb, ip) ==
  /\ ip.size \in Nat /\ ip.extents \in BOOLEAN
  /\ NodeTyped(sb, ip.root) /\ NodeOrdered(sb, ip.root)
  /\ \A e, g \in Extents(sb, ip) : e # g => e.b + e.span <= g.b \/ g.b + g.span <= e.b
  /\ \A e \in Extents(sb, ip) : ~e.uninit => \A k \in e.start .. e.start + e.span - 1 :
       /\ ip.type = "file" => k \in DOMAIN sb.data
       /\ ip.type = "dir" => k \in DOMAIN sb.dirs

\* The records of a block leave no rest shorter than a record's header.
RecordsSound(records) ==
  /\ 0 \in DOMAIN records /\ DOMAIN records \subseteq 0 .. FsBlock - 1
  /\ \A p \in DOMAIN records :
       /\ p + RecHeader <= FsBlock /\ records[p].rec \in Nat
       /\ p + records[p].rec < FsBlock => p + records[p].rec \in DOMAIN records

ASSUME VolumeAssumption ==
  \A sb \in Volume :
    /\ \A c \in DOMAIN sb.nodes : NodeTyped(sb, sb.nodes[c]) /\ NodeOrdered(sb, sb.nodes[c])
    /\ \A ino \in DOMAIN sb.inodes : InodeSound(sb, sb.inodes[ino])
    /\ \A b \in DOMAIN sb.data : sb.data[b] \in Seq(Nat) /\ Len(sb.data[b]) = FsBlock
    /\ \A b \in DOMAIN sb.dirs : RecordsSound(sb.dirs[b])

-----------------------------------------------------------------------------
(* The driver.                                                             *)

VARIABLES
  volume,  \* the volume
  mounted, \* m->priv is set
  file,    \* the open file: its inode's number and f->pos, or Closed
  cursor,  \* the open directory: its inode's number and d->pos, or Closed
  readout, \* history: what the last ext4_read answered, and from where
  listed   \* history: what ext4_readdir has answered through this cursor

extVars == <<volume, mounted, file, cursor, readout, listed>>

Closed == [ino |-> 0, pos |-> 0]
NothingRead == [ino |-> 0, pos |-> 0, data |-> <<>>]

Ext4Init ==
  /\ volume \in Volume
  /\ mounted = FALSE
  /\ file = Closed /\ cursor = Closed
  /\ readout = NothingRead /\ listed = <<>>

-----------------------------------------------------------------------------
(* Inodes, the extent tree, directories.                                   *)

Result(rc) == [rc |-> rc, phys |-> 0, uninit |-> FALSE]

\* ext4_read_inode.
Inode(sb, ino) == sb.inodes[ino]
ext4_read_inode(sb, ino) == ino # 0 /\ ino \in DOMAIN sb.inodes /\ ~Inode(sb, ino).unreadable

\* The entry of an index that leads to block lb: the last one that starts at or before
\* it, among those before the first that starts after it.
IndexFirst(node, lb) == 1
IndexFor(node, lb) ==
  CHOOSE i \in 1 .. Len(node.entries) :
    /\ \A j \in 1 .. i : node.entries[j].b <= lb
    /\ i < Len(node.entries) => node.entries[i + 1].b > lb

\* ext4_map_walk of a node, with left levels to go; below[c] is its answer for block c,
\* with one level less.
map_node(sb, node, lb, left, below) ==
  LET hits == {i \in 1 .. Len(node.entries) : Holds(node.entries[i], lb)}
  IN  CASE ~node.ok -> Result("inval")
        [] node.ok /\ node.depth = 0 /\ hits = {} -> Result("noent")
        [] node.ok /\ node.depth = 0 /\ hits # {} ->
             LET e == node.entries[CHOOSE i \in hits : \A j \in hits : i <= j]
             IN  [rc |-> "ok", phys |-> e.start + (lb - e.b), uninit |-> e.uninit]
        [] node.ok /\ node.depth > 0 /\ (left = 0 \/ node.depth > MaxDepth) -> Result("inval")
        [] node.ok /\ node.depth > 0 /\ left > 0 /\ node.depth <= MaxDepth ->
             IF node.entries = <<>> \/ node.entries[1].b > lb THEN Result("noent")
             ELSE LET child == node.entries[IndexFor(node, lb)].child
                  IN  IF child \in sb.unreadable THEN Result("io") ELSE below[child]

map_nodes(sb, lb, left, below) == [c \in DOMAIN sb.nodes |-> map_node(sb, sb.nodes[c], lb, left, below)]

\* ext4_map_walk calls itself for the block that an index leads to.
ext4_map_walk(sb, lb) ==
  LET f[left \in 0 .. MaxDepth - 1] ==
        IF left = 0 THEN map_nodes(sb, lb, 0, <<>>) ELSE map_nodes(sb, lb, left, f[left - 1])
  IN  f

ext4_map(sb, ip, lb) ==
  IF ~ip.extents THEN Result("notsup")
  ELSE map_node(sb, ip.root, lb, MaxDepth, ext4_map_walk(sb, lb)[MaxDepth - 1])

\* A round of ext4_dir_next: a hole, or the record at offset d.off.
dir_round(sb, ip, d) ==
  LET lb  == d.off \div FsBlock
      pos == d.off % FsBlock
      m   == ext4_map(sb, ip, lb)
      r   == sb.dirs[m.phys][pos]
      end(rc) == [d EXCEPT !.rc = rc]
  IN  CASE d.rc # "go" -> d
        [] d.rc = "go" /\ d.off >= ip.size -> end("noent")
        [] d.rc = "go" /\ d.off < ip.size /\ m.rc \in {"noent", "notsup"} ->
             [d EXCEPT !.off = (lb + 1) * FsBlock]
        [] d.rc = "go" /\ d.off < ip.size /\ m.rc \in {"inval", "io"} -> end("noent")
        [] d.rc = "go" /\ d.off < ip.size /\ m.rc = "ok" ->
             IF ~m.uninit /\ m.phys \in sb.unreadable THEN end("noent")
             ELSE IF m.uninit \/ r.rec < RecHeader \/ pos + r.rec > FsBlock THEN end("inval")
             ELSE IF r.ino = 0 THEN [d EXCEPT !.off = @ + r.rec]
             ELSE [rc |-> "ok", off |-> d.off + r.rec, ino |-> r.ino, name |-> r.name]

dir_loop(sb, ip, off) ==
  LET f[k \in 0 .. ip.size + 1] ==
        IF k = 0 THEN [rc |-> "go", off |-> off, ino |-> 0, name |-> ""]
        ELSE dir_round(sb, ip, f[k - 1])
  IN  f

\* ext4_dir_next: the next record in use from offset off on, and the offset after it.
ext4_dir_next(sb, ip, off) == dir_loop(sb, ip, off)[ip.size + 1]

\* A round of the search of ext4_lookup for a name in a directory: e is the next record.
search_entry(sb, name, s, e) ==
  LET found == ext4_read_inode(sb, e.ino) /\ Inode(sb, e.ino).type \in {"dir", "file"}
  IN  IF s.done THEN s
      ELSE IF e.rc = "ok" /\ e.name # name THEN [s EXCEPT !.off = e.off]
      ELSE [s EXCEPT !.done = TRUE, !.ino = IF e.rc = "ok" /\ found THEN e.ino ELSE 0]

search_round(sb, ip, name, s) == search_entry(sb, name, s, ext4_dir_next(sb, ip, s.off))

\* The inode of the entry, or 0.
dir_search(sb, ip, name) ==
  LET f[k \in 0 .. ip.size + 1] ==
        IF k = 0 THEN [off |-> 0, done |-> FALSE, ino |-> 0] ELSE search_round(sb, ip, name, f[k - 1])
  IN  f[ip.size + 1].ino

\* ext4_lookup: the number of the inode a path leads to, or 0.
ext4_lookup(sb, path) ==
  LET f[k \in 0 .. Len(path)] ==
        IF k = 0 THEN RootIno
        ELSE LET ino == f[k - 1]
             IN  IF ext4_read_inode(sb, ino) /\ Inode(sb, ino).type = "dir" /\ Inode(sb, ino).extents
                 THEN dir_search(sb, Inode(sb, ino), path[k])
                 ELSE 0
  IN  f[Len(path)]

-----------------------------------------------------------------------------
(* The operations.                                                         *)

ext4_mount ==
  /\ ~mounted
  /\ volume.super = "good"
  /\ ext4_read_inode(volume, RootIno) /\ Inode(volume, RootIno).type = "dir"
  /\ mounted' = TRUE
  /\ UNCHANGED <<volume, file, cursor, readout, listed>>

\* vfs_unmount calls it only when nothing is open.
ext4_unmount ==
  /\ mounted /\ file = Closed /\ cursor = Closed
  /\ mounted' = FALSE
  /\ UNCHANGED <<volume, file, cursor, readout, listed>>

\* For reading, a file; opened for writing it answers NOTSUP.
ext4_open(path) ==
  /\ mounted /\ file = Closed
  /\ LET ino == ext4_lookup(volume, path)
     IN  /\ ext4_read_inode(volume, ino) /\ Inode(volume, ino).type = "file"
         /\ file' = [ino |-> ino, pos |-> 0]
  /\ UNCHANGED <<volume, mounted, cursor, readout, listed>>

ext4_close ==
  /\ file # Closed
  /\ file' = Closed
  /\ readout' = NothingRead
  /\ UNCHANGED <<volume, mounted, cursor, listed>>

\* A round of ext4_read: what it can get of a block; after one that cannot be read there
\* is nothing more to do.
read_round(sb, ip, s) ==
  LET m     == ext4_map(sb, ip, s.pos \div FsBlock)
      inner == s.pos % FsBlock
      chunk == IF s.len < FsBlock - inner THEN s.len ELSE FsBlock - inner
      got(cells) == [pos |-> s.pos + chunk, len |-> s.len - chunk, data |-> s.data \o cells]
  IN  CASE s.len = 0 -> s
        [] s.len > 0 /\ (m.rc = "noent" \/ (m.rc = "ok" /\ m.uninit)) -> got([i \in 1 .. chunk |-> 0])
        [] s.len > 0 /\ m.rc = "ok" /\ ~m.uninit ->
             IF m.phys \in sb.unreadable THEN [s EXCEPT !.len = 0]
             ELSE got(SubSeq(sb.data[m.phys], inner + 1, inner + chunk))
        [] s.len > 0 /\ m.rc \notin {"ok", "noent"} -> [s EXCEPT !.len = 0]

read_loop(sb, ip, pos, len) ==
  LET f[k \in 0 .. len] ==
        IF k = 0 THEN [pos |-> pos, len |-> len, data |-> <<>>] ELSE read_round(sb, ip, f[k - 1])
  IN  f

\* What is left of the file.
Left(ip, pos, len) == IF pos >= ip.size THEN 0 ELSE IF len < ip.size - pos THEN len ELSE ip.size - pos

ext4_read(len) ==
  /\ file # Closed
  /\ LET ip   == Inode(volume, file.ino)
         left == Left(ip, file.pos, len)
         s    == read_loop(volume, ip, file.pos, left)[left]
     IN  /\ readout' = [ino |-> file.ino, pos |-> file.pos, data |-> s.data]
         /\ file' = [file EXCEPT !.pos = s.pos]
  /\ UNCHANGED <<volume, mounted, cursor, listed>>

\* SEEK_SET; the other origins only compute another offset.
ext4_seek(off) ==
  /\ file # Closed
  /\ file' = [file EXCEPT !.pos = off]
  /\ readout' = NothingRead
  /\ UNCHANGED <<volume, mounted, cursor, listed>>

ext4_opendir(path) ==
  /\ mounted /\ cursor = Closed
  /\ LET ino == ext4_lookup(volume, path)
     IN  /\ ext4_read_inode(volume, ino) /\ Inode(volume, ino).type = "dir"
         /\ cursor' = [ino |-> ino, pos |-> 0]
  /\ UNCHANGED <<volume, mounted, file, readout, listed>>

ext4_readdir ==
  /\ cursor # Closed
  /\ LET e == ext4_dir_next(volume, Inode(volume, cursor.ino), cursor.pos)
     IN  /\ e.rc = "ok"
         /\ cursor' = [cursor EXCEPT !.pos = e.off]
         /\ listed' = Append(listed, e.name)
  /\ UNCHANGED <<volume, mounted, file, readout>>

ext4_closedir ==
  /\ cursor # Closed
  /\ cursor' = Closed /\ listed' = <<>>
  /\ UNCHANGED <<volume, mounted, file, readout>>

Ext4Next ==
  \/ ext4_mount \/ ext4_unmount
  \/ \E path \in ExtPath : ext4_open(path) \/ ext4_opendir(path)
  \/ ext4_close \/ ext4_closedir \/ ext4_readdir
  \/ \E n \in 1 .. MaxSeek : ext4_read(n) \/ ext4_seek(n - 1)

-----------------------------------------------------------------------------
(* Properties.                                                             *)

\* What the cursor has answered: its i-th name is that of the i-th record in use.
ListedInOrder ==
  LET ip == Inode(volume, cursor.ino)
      U  == InUse(volume, ip)
      place(off) == Cardinality({u \in U : u <= off})
  IN  /\ Len(listed) <= Cardinality(U)
      /\ \A off \in U : place(off) <= Len(listed) => listed[place(off)] = RecordAt(volume, ip, off).name

\* Whatever the order of calls and wherever a block cannot be read, a read answers the
\* cells of the file from its position on, holes and extents without data as zeros, and
\* none beyond the end; a cursor answers the names of its directory in order, each once,
\* none left out; and what is open belongs to a volume that is mounted.
Ext4Exact ==
  /\ \A i \in 1 .. Len(readout.data) :
       /\ readout.pos + i <= Inode(volume, readout.ino).size
       /\ readout.data[i] = CellAt(volume, Inode(volume, readout.ino), readout.pos + i - 1)
  /\ cursor # Closed => ListedInOrder
  /\ file # Closed \/ cursor # Closed => mounted

=============================================================================
