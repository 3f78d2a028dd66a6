-------------------------------- MODULE Fat32 --------------------------------
(***************************************************************************)
(* The FAT32 driver of src/kernel/fs/fat32.c: the allocation table, the    *)
(* directories, and the file handles with their cached chain position.     *)
(*                                                                         *)
(* Every operation holds sb->lock over all its disk accesses and is one    *)
(* step.  A cluster holds Cells cells; a cell is one directory slot, or    *)
(* one unit of a file's data.  A name takes Lfn[name] long-name slots      *)
(* before its short one; that make_short finds an unused short name, and   *)
(* that a slot's long name matches its checksum, is left out.  The disk    *)
(* answers every read and write.                                           *)
(***************************************************************************)
EXTENDS Integers, Sequences, FiniteSets, SequencesExt

CONSTANTS
  Proc,      \* the callers; each has at most one file handle
  NClus,     \* sb->cluster_count
  Cells,     \* the cells of a cluster
  Name,      \* the names
  Lfn,       \* Lfn[n]: the long-name slots of name n
  FilePath,  \* the paths of files asked for
  DirPath,   \* the paths of directories asked for
  SeekPos,   \* bound: the positions that callers seek to
  MaxPos,    \* bound: how far callers write
  NULL

Clus == 2 .. NClus + 1
ROOT == 2                   \* sb->root_clus
FREE == 0
EOC == 1                    \* FAT32_EOC: any entry that is no cluster and not free

ASSUME Fat32Assumption ==
  /\ NClus \in Nat \ {0, 1} /\ Cells \in Nat \ {0, 1} /\ MaxPos \in Nat /\ SeekPos \subseteq Nat
  /\ Lfn \in [Name -> 0 .. 20]
  /\ FilePath \cup DirPath \subseteq Seq(Name) \ {<<>>}

VARIABLES
  mounted,
  vol,     \* the disk and the superblock: fat, cells, next_free, free_count
  file,    \* file[p]: p's handle, or NULL
  content, \* history: content[path] is what the file reads as, NULL if none was made
  made,    \* history: the directories made and not removed
  lost     \* history: the clusters of handles closed after a failed first write

vars == <<mounted, vol, file, content, made, lost>>

Zero == [k |-> "zero"]                          \* e[0] = 0x00, and zeroed data
Del == [k |-> "del"]                            \* e[0] = 0xe5
LongName == [k |-> "lfn"]
Entry(n, isDir, c, s) == [k |-> "ent", name |-> n, is_dir |-> isDir, clus |-> c, size |-> s]
Byte(v) == [k |-> "byte", v |-> v]
Bytes(v) == IF v = 0 THEN Zero ELSE Byte(v)

-----------------------------------------------------------------------------
(* Clusters and chains.                                                    *)

fat32_clus_valid(c) == c \in Clus

Least(S) == CHOOSE x \in S : \A y \in S : x <= y

fat32_fat_set(v, c, x) == [v EXCEPT !.fat[c] = x]

\* The first free cluster from the hint on, and then from the start of the volume;
\* its content is zeroed.  FREE when there is none.
Take(v, c) ==
  IF c = FREE THEN [clus |-> FREE, vol |-> v]
  ELSE [clus |-> c,
        vol |-> [v EXCEPT !.fat[c] = EOC,
                          !.cells[c] = [i \in 1 .. Cells |-> Zero],
                          !.next_free = c + 1,
                          !.free_count = IF @ > 0 THEN @ - 1 ELSE @]]

FirstFrom(free, start) ==
  CASE free = {} -> FREE
    [] \E c \in free : c >= start -> Least({c \in free : c >= start})
    [] OTHER -> Least(free)

fat32_alloc_cluster(v) ==
  Take(v, FirstFrom({c \in Clus : v.fat[c] = FREE},
                    IF fat32_clus_valid(v.next_free) THEN v.next_free ELSE 2))

\* The chain that starts with cluster c, cut off after n clusters.
RECURSIVE Links(_, _, _)
Links(v, c, n) ==
  IF n = 0 \/ ~fat32_clus_valid(c) THEN <<>> ELSE <<c>> \o Links(v, v.fat[c], n - 1)

Chain(v, c) == Links(v, c, NClus + 1)

fat32_chain_count(v, c) == Len(Chain(v, c))

\* The clusters fat32_free_chain visits: it reads a link before it clears it.
fat32_free_chain(v, first) ==
  LET freed == ToSet(Chain(v, first))
  IN  [v EXCEPT !.fat = [c \in Clus |-> IF c \in freed THEN FREE ELSE @[c]],
                !.free_count = @ + Cardinality(freed)]

\* A chain: its first cluster, and the last one that was looked up with its index.
fat32_chain_init(c) == [start |-> c, cached |-> FALSE, clus |-> 0, index |-> 0]

\* fat32_chain_at2: the cluster, and the chain with its new cache; the cache is
\* kept as it was when the chain is too short.
fat32_chain_at(v, ch, index) ==
  LET hit  == fat32_clus_valid(ch.start) /\ ch.cached /\ index >= ch.index
      way  == Chain(v, IF hit THEN ch.clus ELSE ch.start)
      step == IF hit THEN index - ch.index + 1 ELSE index + 1
  IN  IF step \in DOMAIN way
      THEN [clus |-> way[step],
            ch |-> [ch EXCEPT !.cached = TRUE, !.clus = way[step], !.index = index]]
      ELSE [clus |-> FREE, ch |-> ch]

\* fat32_chain_write, one cell: a cluster is added behind the end of the chain when
\* the position is past it; acc has the volume, the chain and the return code.
chain_write_step(acc, w) ==
  LET ci == w.off \div Cells
      at == fat32_chain_at(acc.vol, acc.ch, ci)
      al == fat32_alloc_cluster(acc.vol)
      Put(v, ch, c) == [rc |-> "ok", ch |-> ch,
                        vol |-> [v EXCEPT !.cells[c][(w.off % Cells) + 1] = w.cell]]
      Cached(ch) == [ch EXCEPT !.cached = TRUE, !.clus = al.clus, !.index = ci]
      last == fat32_chain_at(al.vol, acc.ch, ci - 1)
  IN  IF acc.rc # "ok" THEN acc
      ELSE IF fat32_clus_valid(at.clus) THEN Put(acc.vol, at.ch, at.clus)
      ELSE IF ~fat32_clus_valid(al.clus) THEN [acc EXCEPT !.rc = "nospc"]
      ELSE IF ~fat32_clus_valid(acc.ch.start)
           THEN IF ci # 0 THEN [acc EXCEPT !.vol = al.vol, !.rc = "io"]
                ELSE Put(al.vol, [Cached(acc.ch) EXCEPT !.start = al.clus], al.clus)
      ELSE IF ~fat32_clus_valid(last.clus) THEN [acc EXCEPT !.vol = al.vol, !.rc = "io"]
      ELSE Put(fat32_fat_set(al.vol, last.clus, al.clus), Cached(last.ch), al.clus)

fat32_chain_write(v, ch, ws) ==
  FoldLeft(chain_write_step, [vol |-> v, ch |-> ch, rc |-> "ok"], ws)

-----------------------------------------------------------------------------
(* Directories.                                                            *)

\* All the slots of a directory, as a sequence: fat32_ent_read of each in turn.
Slots(v, d) == FoldLeft(LAMBDA slots, c : slots \o v.cells[c], <<>>, Chain(v, d))

\* fat32_ent_read and fat32_ent_write of slot i, counted from 1.
fat32_ent_read(v, d, i) == v.cells[Chain(v, d)[(i - 1) \div Cells + 1]][((i - 1) % Cells) + 1]
fat32_ent_write(v, d, i, e) ==
  [v EXCEPT !.cells[Chain(v, d)[(i - 1) \div Cells + 1]][((i - 1) % Cells) + 1] = e]

\* The slots a scan sees: up to the first that was never used.
UpToZero(all) ==
  LET ends == {i \in DOMAIN all : all[i] = Zero}
  IN  IF ends = {} THEN all ELSE SubSeq(all, 1, Least(ends) - 1)

Scanned(v, d) == UpToZero(Slots(v, d))

\* What a lookup in directory d answers when it has scanned the slots in all: the slot
\* of the entry and of the first of its long-name slots.
Located(all, d, i) ==
  [found |-> TRUE, is_dir |-> all[i].is_dir, dir_clus |-> d, off |-> i,
   lfn_off |-> Least({j \in 1 .. i : \A k \in j .. i - 1 : all[k] = LongName}),
   clus |-> all[i].clus, size |-> all[i].size]

LookedUp(all, d, name) ==
  LET hits == {i \in DOMAIN all : all[i].k = "ent" /\ all[i].name = name}
  IN  IF hits = {} THEN [found |-> FALSE] ELSE Located(all, d, Least(hits))

\* No directory, no entry: fat32_resolve_dir has answered FREE.
fat32_dir_lookup(v, d, name) ==
  IF d = FREE THEN [found |-> FALSE] ELSE LookedUp(Scanned(v, d), d, name)

\* fat32_resolve_dir, one component: the directory's first cluster, FREE when lost.
DirOf(loc) == IF loc.found /\ loc.is_dir THEN loc.clus ELSE FREE

fat32_resolve_dir(v, path) ==
  FoldLeft(LAMBDA d, n : DirOf(fat32_dir_lookup(v, d, n)), ROOT, path)

fat32_resolve(v, path) == fat32_dir_lookup(v, fat32_resolve_dir(v, Front(path)), Last(path))

\* The first of: a run of need deleted slots, the first unused slot, the end.
SlotsIn(all, used, need) ==
  LET runs == {i \in 1 .. Len(used) - need + 1 : \A j \in i .. i + need - 1 : used[j] = Del}
  IN  IF runs # {} THEN [idx |-> Least(runs), grow |-> FALSE]
      ELSE [idx |-> Len(used) + 1, grow |-> Len(all) - Len(used) < need]

fat32_find_slots(v, d, need) == SlotsIn(Slots(v, d), Scanned(v, d), need)

\* Where fat32_dir_insert puts the entry: behind the last cluster when there is not
\* room enough.
Placed(at, total) == IF at.grow THEN total + 1 ELSE at.idx

InsertAtSlot(v, d, need) == Placed(fat32_find_slots(v, d, need), Len(Slots(v, d)))

fat32_dir_grow(v, d) ==
  LET Linked(al) ==
        IF ~fat32_clus_valid(al.clus) THEN [rc |-> "nospc", vol |-> v]
        ELSE [rc |-> "ok", vol |-> fat32_fat_set(al.vol, Last(Chain(v, d)), al.clus)]
  IN  Linked(fat32_alloc_cluster(v))

\* Clusters are added until the slots of the entry e, from idx on, fit, and the slots
\* are written.
InsertedAt(v, d, idx, need, e) ==
  LET one == [k \in 1 .. need |-> k]
      Grow(acc, k) ==
        IF acc.rc # "ok" \/ idx + need - 1 <= Len(Slots(acc.vol, d)) THEN acc
        ELSE fat32_dir_grow(acc.vol, d)
      Put(w, k) == fat32_ent_write(w, d, idx + k - 1, IF k = need THEN e ELSE LongName)
      Filled(grown) ==
        IF grown.rc # "ok" THEN grown ELSE [rc |-> "ok", vol |-> FoldLeft(Put, grown.vol, one)]
  IN  Filled(FoldLeft(Grow, [rc |-> "ok", vol |-> v], one))

fat32_dir_insert(v, d, name, isDir, first) ==
  InsertedAt(v, d, InsertAtSlot(v, d, Lfn[name] + 1), Lfn[name] + 1, Entry(name, isDir, first, 0))

fat32_update_entry(v, d, off, first, size) ==
  fat32_ent_write(v, d, off, [fat32_ent_read(v, d, off) EXCEPT !.clus = first, !.size = size])

DeleteToZero(v, d, from, to) ==
  FoldLeft(LAMBDA w, k : fat32_ent_write(w, d, from + k - 1, Zero),
           v, [k \in 1 .. to - from + 1 |-> k])

fat32_delete_slots(v, d, from, to) ==
  FoldLeft(LAMBDA w, k : fat32_ent_write(w, d, from + k - 1, Del),
           v, [k \in 1 .. to - from + 1 |-> k])

fat32_dir_is_empty(v, d) ==
  \A e \in ToSet(Scanned(v, d)) : e.k = "ent" => e.name \in {".", ".."}

\* The entries "." and ".." of a new directory.
Dots(w, parent, c) ==
  fat32_ent_write(fat32_ent_write(w, c, 1, Entry(".", TRUE, c, 0)),
                  c, 2, Entry("..", TRUE, IF parent = ROOT THEN 0 ELSE parent, 0))

CreateDirKeeps(v, parent, leaf) ==
  LET Entered(ins, c) == IF ins.rc # "ok" THEN ins
                         ELSE [rc |-> "ok", vol |-> Dots(ins.vol, parent, c)]
      Made(al) == IF ~fat32_clus_valid(al.clus) THEN [rc |-> "nospc", vol |-> v]
                  ELSE Entered(fat32_dir_insert(al.vol, parent, leaf, TRUE, al.clus), al.clus)
  IN  Made(fat32_alloc_cluster(v))

\* The new directory's cluster is allocated first, and given back when there is no
\* room for its entry.
fat32_create_dir(v, parent, leaf) ==
  LET Entered(ins, c) == IF ins.rc # "ok" THEN [rc |-> ins.rc, vol |-> fat32_free_chain(ins.vol, c)]
                         ELSE [rc |-> "ok", vol |-> Dots(ins.vol, parent, c)]
      Made(al) == IF ~fat32_clus_valid(al.clus) THEN [rc |-> "nospc", vol |-> v]
                  ELSE Entered(fat32_dir_insert(al.vol, parent, leaf, TRUE, al.clus), al.clus)
  IN  Made(fat32_alloc_cluster(v))

-----------------------------------------------------------------------------
(* The operations.                                                         *)

\* A volume as mkfs leaves it: only the root directory's cluster is taken.
Init ==
  /\ mounted = FALSE
  /\ vol = [fat |-> [c \in Clus |-> IF c = ROOT THEN EOC ELSE FREE],
            cells |-> [c \in Clus |-> [i \in 1 .. Cells |-> Zero]],
            next_free |-> 3, free_count |-> NClus - 1]
  /\ file = [p \in Proc |-> NULL]
  /\ content = [path \in FilePath |-> NULL]
  /\ made = {} /\ lost = {}

\* FSInfo on disk has the hint and the count of the last change; a hint that is no
\* cluster is not taken over.
fat32_mount ==
  /\ ~mounted
  /\ mounted' = TRUE
  /\ vol' = [vol EXCEPT !.next_free = IF fat32_clus_valid(@) THEN @ ELSE 2]
  /\ UNCHANGED <<file, content, made, lost>>

\* Let in by vfs_unmount only when nothing is open.
fat32_unmount ==
  /\ mounted
  /\ \A p \in Proc : file[p] = NULL
  /\ mounted' = FALSE
  /\ UNCHANGED <<vol, file, content, made, lost>>

\* The callers keep to one handle per file: the driver gives each handle a copy of
\* the entry's first cluster and size, and never looks at the entry again.
Unopened(path) == path \notin {file[q].path : q \in {r \in Proc : file[r] # NULL}}

\* The location of a file that was just made, before the entry is read back.
NewFile(parent, idx, n) ==
  [found |-> TRUE, is_dir |-> FALSE, dir_clus |-> parent, off |-> idx + n, lfn_off |-> idx,
   clus |-> FREE, size |-> 0]

\* fat32_open's search: the file is looked up, and made if there is none and VFS_O_CREAT
\* asks for it; fresh: it was made.
SearchOrMake(path, parent, old, creat) ==
  IF old.found THEN [rc |-> "ok", vol |-> vol, at |-> old, fresh |-> FALSE]
  ELSE IF ~creat \/ parent = FREE THEN [rc |-> "noent", vol |-> vol, at |-> old, fresh |-> FALSE]
  ELSE LET Made(ins, idx) ==
             [rc |-> ins.rc, vol |-> ins.vol, fresh |-> ins.rc = "ok",
              at |-> NewFile(parent, idx, Lfn[Last(path)])]
       IN  Made(fat32_dir_insert(vol, parent, Last(path), FALSE, FREE),
                InsertAtSlot(vol, parent, Lfn[Last(path)] + 1))

\* fat32_truncate.
fat32_truncate(v, at) ==
  fat32_update_entry(IF fat32_clus_valid(at.clus) THEN fat32_free_chain(v, at.clus) ELSE v,
                     at.dir_clus, at.off, 0, 0)

\* The file is searched or made, and its chain freed if VFS_O_TRUNC asks for it;
\* alloc: whether kmalloc has room.
fat32_open(p, path, creat, trunc, alloc) ==
  /\ mounted /\ file[p] = NULL /\ Unopened(path)
  /\ \E parent \in {fat32_resolve_dir(vol, Front(path))} :
     \E f \in {SearchOrMake(path, parent, fat32_dir_lookup(vol, parent, Last(path)), creat)} :
       LET ok  == f.rc = "ok" /\ ~f.at.is_dir /\ alloc
           cut == ok /\ trunc
       IN  /\ vol' = IF cut THEN fat32_truncate(f.vol, f.at) ELSE f.vol
           /\ file' = IF ~ok THEN file
                      ELSE [file EXCEPT ![p] =
                        [path |-> path, dir_clus |-> f.at.dir_clus, dir_off |-> f.at.off, pos |-> 0,
                         chain |-> fat32_chain_init(IF cut THEN 0 ELSE f.at.clus),
                         size |-> IF cut THEN 0 ELSE f.at.size]]
           /\ content' = IF cut \/ f.fresh THEN [content EXCEPT ![path] = <<>>] ELSE content
  /\ UNCHANGED <<mounted, made, lost>>

\* A handle whose first write failed half-way has a chain that no entry names.
fat32_close(p) ==
  /\ file[p] # NULL
  /\ LET f == file[p]
     IN  lost' = IF fat32_ent_read(vol, f.dir_clus, f.dir_off).clus = f.chain.start THEN lost
                 ELSE lost \cup ToSet(Chain(vol, f.chain.start))
  /\ file' = [file EXCEPT ![p] = NULL]
  /\ UNCHANGED <<mounted, vol, content, made>>

\* The read goes cell by cell and leaves its last cluster in the cache.
fat32_read(p, len) ==
  /\ file[p] # NULL /\ file[p].pos < file[p].size
  /\ LET f == file[p]
         n == IF len > f.size - f.pos THEN f.size - f.pos ELSE len
         at == fat32_chain_at(vol, f.chain, (f.pos + n - 1) \div Cells)
     IN  /\ fat32_clus_valid(at.clus)
         /\ file' = [file EXCEPT ![p].pos = @ + n, ![p].chain = at.ch]
  /\ UNCHANGED <<mounted, vol, content, made, lost>>

\* What a file reads as after a write of len times v at pos; after a failed one the
\* bytes in its range below the old size may be any.
Written(bytes, pos, len, v, ok) ==
  [i \in 1 .. (IF ok /\ pos + len > Len(bytes) THEN pos + len ELSE Len(bytes)) |->
     IF pos < i /\ i <= pos + len THEN (IF ok THEN v ELSE NULL)
     ELSE IF i <= Len(bytes) THEN bytes[i] ELSE 0]

DataOnly(f, len, v) ==
  [k \in 1 .. len |-> [off |-> f.pos + k - 1, cell |-> Bytes(v)]]

\* What fat32_write puts where: zeros from the old end up to pos, then the data.
Cellwise(f, len, v) ==
  LET from == IF f.pos > f.size THEN f.size ELSE f.pos
  IN  [k \in 1 .. f.pos + len - from |->
         [off |-> from + k - 1, cell |-> IF from + k - 1 < f.pos THEN Zero ELSE Bytes(v)]]

\* On an error the entry keeps its old first cluster and size, the handle has the
\* new chain.
fat32_write(p, len, v) ==
  /\ file[p] # NULL /\ file[p].pos + len <= MaxPos
  /\ \E f \in {file[p]} : \E w \in {fat32_chain_write(vol, f.chain, Cellwise(f, len, v))} :
     LET ok   == w.rc = "ok"
         size == IF f.pos + len > f.size THEN f.pos + len ELSE f.size
     IN  /\ vol' = IF ok THEN fat32_update_entry(w.vol, f.dir_clus, f.dir_off, w.ch.start, size)
                   ELSE w.vol
         /\ file' = [file EXCEPT ![p] =
              IF ok THEN [f EXCEPT !.chain = w.ch, !.pos = @ + len, !.size = size]
              ELSE [f EXCEPT !.chain = w.ch]]
         /\ content' = [content EXCEPT ![f.path] = Written(@, f.pos, len, v, ok)]
  /\ UNCHANGED <<mounted, made, lost>>

\* VFS_SEEK_SET; the other two come to the same.
fat32_seek(p, pos) ==
  /\ file[p] # NULL /\ pos # file[p].pos
  /\ file' = [file EXCEPT ![p].pos = pos]
  /\ UNCHANGED <<mounted, vol, content, made, lost>>

fat32_mkdir(path) ==
  /\ mounted
  /\ \E parent \in {fat32_resolve_dir(vol, Front(path))} \ {FREE} :
       /\ ~fat32_dir_lookup(vol, parent, Last(path)).found
       /\ \E r \in {fat32_create_dir(vol, parent, Last(path))} :
            /\ vol' = r.vol
            /\ made' = IF r.rc = "ok" THEN made \cup {path} ELSE made
  /\ UNCHANGED <<mounted, file, content, lost>>

fat32_rmdir(path) ==
  /\ mounted
  /\ \E loc \in {fat32_resolve(vol, path)} :
       /\ loc.found
       /\ loc.is_dir
       /\ fat32_dir_is_empty(vol, loc.clus)
       /\ vol' = fat32_delete_slots(fat32_free_chain(vol, loc.clus),
                                    loc.dir_clus, loc.lfn_off, loc.off)
       /\ made' = made \ {path}
  /\ UNCHANGED <<mounted, file, content, lost>>

Next ==
  \/ fat32_mount \/ fat32_unmount
  \/ \E path \in DirPath : fat32_mkdir(path) \/ fat32_rmdir(path)
  \/ \E p \in Proc :
       \/ \E path \in FilePath, make, alloc \in BOOLEAN : fat32_open(p, path, make, make, alloc)
       \/ fat32_read(p, 2)
       \/ \E len \in 1 .. 2 : fat32_write(p, len, 1)
       \/ \E pos \in SeekPos : fat32_seek(p, pos)
       \/ fat32_close(p)

Spec == Init /\ [][Next]_vars

-----------------------------------------------------------------------------
(* Properties.                                                             *)

\* The live directories' first clusters, and the entries in all their slots.
Dirs == {ROOT} \cup {fat32_resolve_dir(vol, path) : path \in made}
Ents == {e \in UNION {ToSet(Slots(vol, d)) : d \in Dirs} : e.k = "ent"}
Firsts == {ROOT} \cup {e.clus : e \in {x \in Ents : x.name \notin {".", ".."}}}
          \cup {file[p].chain.start : p \in {q \in Proc : file[q] # NULL}}

\* No cluster is in two chains or twice in one, and none that a chain reaches is
\* free: whatever files and directories were made, grown, truncated and removed in
\* between, and also after writes that ran out of space half-way.
ChainsSound ==
  /\ \A a \in Firsts \cap Clus :
       /\ vol.fat[Last(Chain(vol, a))] = EOC
       /\ IsInjective(Chain(vol, a))
       /\ \A b \in Firsts \cap Clus :
            a # b => ToSet(Chain(vol, a)) \cap ToSet(Chain(vol, b)) = {}
  /\ \A e \in Ents : ~e.is_dir => e.size <= fat32_chain_count(vol, e.clus) * Cells

\* free_count is the number of free clusters, and an allocated cluster belongs to an
\* entry or an open handle, unless a handle whose first write ran out of space was
\* closed: nothing else leaks.
Accounted ==
  LET taken == {c \in Clus : vol.fat[c] # FREE}
  IN  /\ vol.free_count = NClus - Cardinality(taken)
      /\ taken = lost \cup UNION {ToSet(Chain(vol, c)) : c \in Firsts \cap Clus}

\* The volume stays sound after any sequence of calls, failed ones too: chains are
\* disjoint and end, and every cluster is free, reached, or known to be lost.
VolumeSound == ChainsSound /\ Accounted

\* A file reads as what was written to it, with zeros in the holes, also where its
\* clusters held another file before or a failed write left bytes behind its end.
DataExact ==
  \A path \in FilePath :
    content[path] # NULL =>
      LET loc == fat32_resolve(vol, path)
      IN  loc.found =>
            /\ loc.size = Len(content[path])
            /\ \A i \in 1 .. loc.size :
                 content[path][i] # NULL =>
                   fat32_ent_read(vol, loc.clus, i) = Bytes(content[path][i])

\* What was created is found under its name until it is removed: VFS_O_CREAT makes
\* a file that the next vfs_open opens.
CreatedFound ==
  /\ \A path \in FilePath : content[path] # NULL => fat32_resolve(vol, path).found
  /\ \A path \in made : fat32_resolve(vol, path).found

=============================================================================
