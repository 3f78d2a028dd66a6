----------------------------- MODULE VfsProofs -----------------------------
(***************************************************************************)
(* Proofs about the virtual file system: the loops over a path and over    *)
(* the mount table by induction on their rounds, and the pins of the mount *)
(* table by an invariant of all callers.                                   *)
(***************************************************************************)
EXTENDS Vfs, Iteration, FiniteSetTheorems, SequenceTheorems, TLAPS

-----------------------------------------------------------------------------
(* vfs_normalize.                                                          *)

\* A path without "." and "..", short enough for a buffer.
Normal == {s \in Seq(STRING) : /\ \A k \in 1 .. Len(s) : s[k] # "." /\ s[k] # ".."
                               /\ s = <<>> \/ 2 * Len(s) < PathMax}

Normalizing == [ok : BOOLEAN, path : Normal]

\* The empty path is normal.
LEMMA EmptyNormal == <<>> \in Normal
BY DEF Normal

\* Going up keeps a path normal.
LEMMA FrontNormal ==
  ASSUME NEW s \in Normal, s # <<>> PROVE Front(s) \in Normal
<1>1. s \in Seq(STRING) /\ Len(s) \in Nat /\ Len(s) # 0
  BY DEF Normal
<1>2. \A k \in 1 .. Len(s) - 1 : s[k] \in STRING
  BY <1>1
<1>3. /\ Front(s) \in Seq(STRING) /\ Len(Front(s)) = Len(s) - 1
      /\ \A k \in 1 .. Len(s) - 1 : Front(s)[k] = s[k]
  <2> DEFINE m == Len(s) - 1
  <2>1. m \in Nat /\ m <= Len(s)
    BY <1>1
  <2>2. /\ SubSeq(s, 1, m) \in Seq(STRING)
        /\ Len(SubSeq(s, 1, m)) = IF 1 <= m THEN m - 1 + 1 ELSE 0
        /\ \A k \in 1 .. m - 1 + 1 : SubSeq(s, 1, m)[k] = s[1 + k - 1]
    BY <1>1, <1>2, <2>1, SubSeqProperties
  <2> HIDE DEF m
  <2>3. Len(SubSeq(s, 1, m)) = m
    BY <2>1, <2>2
  <2>4. \A k \in 1 .. m : SubSeq(s, 1, m)[k] = s[k]
    BY <2>1, <2>2
  <2> QED
    BY <2>2, <2>3, <2>4 DEF Front, m
<1>4. Front(s) = <<>> \/ 2 * Len(Front(s)) < PathMax
  BY <1>1, <1>3, VfsAssumption DEF Normal
<1>5. \A k \in 1 .. Len(Front(s)) : Front(s)[k] # "." /\ Front(s)[k] # ".."
  BY <1>1, <1>3 DEF Normal
<1> QED
  BY <1>3, <1>4, <1>5 DEF Normal

\* One component keeps it normal, whether it is added, dropped or refused.
LEMMA StepNormal ==
  ASSUME NEW acc \in Normalizing, NEW c \in STRING
  PROVE  normalize_step(acc, c) \in Normalizing
<1>0. acc.ok \in BOOLEAN /\ acc.path \in Normal
  BY DEF Normalizing
<1>1. CASE ~acc.ok \/ c = "." \/ (c = ".." /\ acc.path = <<>>)
  BY <1>1 DEF normalize_step
<1>2. CASE ~(~acc.ok \/ c = "." \/ (c = ".." /\ acc.path = <<>>))
  <2>1. CASE c = ".."
    <3>1. normalize_step(acc, c) = [acc EXCEPT !.path = Front(acc.path)]
      BY <1>2, <2>1 DEF normalize_step
    <3>2. Front(acc.path) \in Normal
      BY <1>0, <1>2, <2>1, FrontNormal
    <3> QED
      BY <3>1, <3>2 DEF Normalizing
  <2>2. CASE c # ".." /\ 2 * (Len(acc.path) + 1) >= PathMax
    <3>1. normalize_step(acc, c) = [acc EXCEPT !.ok = FALSE]
      BY <1>2, <2>2 DEF normalize_step
    <3> QED
      BY <3>1 DEF Normalizing
  <2>3. CASE c # ".." /\ ~(2 * (Len(acc.path) + 1) >= PathMax)
    <3>1. normalize_step(acc, c) = [acc EXCEPT !.path = Append(acc.path, c)]
      BY <1>2, <2>3 DEF normalize_step
    <3>2. acc.path \in Seq(STRING) /\ Len(acc.path) \in Nat
      BY <1>0 DEF Normal
    <3> DEFINE s == acc.path
               t == Append(s, c)
    <3>3. /\ t \in Seq(STRING) /\ Len(t) = Len(s) + 1
          /\ \A k \in 1 .. Len(s) : t[k] = s[k]
          /\ t[Len(s) + 1] = c
      BY <3>2, AppendProperties
    <3> HIDE DEF t
    <3>4. \A k \in 1 .. Len(t) : t[k] # "." /\ t[k] # ".."
      BY <1>0, <1>2, <2>3, <3>2, <3>3 DEF Normal
    <3>5. 2 * Len(t) < PathMax
      BY <2>3, <3>2, <3>3, VfsAssumption
    <3>6. t \in Normal
      BY <3>3, <3>4, <3>5 DEF Normal
    <3> QED
      BY <3>1, <3>6 DEF Normalizing, t
  <2> QED
    BY <2>1, <2>2, <2>3
<1> QED
  BY <1>1, <1>2

\* What vfs_normalize returns is normal, for every path.
LEMMA NormalizeNormal ==
  ASSUME NEW comps \in Seq(STRING) PROVE vfs_normalize(comps) \in Normalizing
<1> DEFINE n == Len(comps)
           b == [ok |-> TRUE, path |-> <<>>]
           F == [k \in 1 .. n |-> [a \in Normalizing |-> normalize_step(a, comps[k])]]
           Loop(f) == [k \in 0 .. n |-> IF k = 0 THEN b ELSE normalize_step(f[k - 1], comps[k])]
           L == normalize_loop(comps)
<1>1. n \in Nat /\ b \in Normalizing
  BY EmptyNormal DEF Normalizing
<1>2. \A k \in 1 .. n : comps[k] \in STRING
  OBVIOUS
<1>3. F \in Rounds(Normalizing, n)
  BY <1>2, StepNormal DEF Rounds
<1>4. \A a \in Normalizing, k \in 1 .. n : F[k][a] = normalize_step(a, comps[k])
  OBVIOUS
<1> HIDE DEF F, b, n
<1>5. PICK f \in [0 .. n -> Normalizing] :
        f[0] = b /\ \A k \in 1 .. n : f[k] = F[k][f[k - 1]]
  <2>1. n \in Nat
    BY <1>1
  <2>2. b \in Normalizing
    BY <1>1
  <2>3. Runs(Normalizing, n, F, b)
    BY <1>3, <2>1, <2>2, LoopRuns
  <2> QED
    BY <2>3 DEF Runs
<1>6. f = Loop(f)
  <2>1. ASSUME NEW k \in 0 .. n PROVE f[k] = Loop(f)[k]
    <3>1. CASE k = 0
      BY <1>1, <1>5, <3>1
    <3>2. CASE k # 0
      <4>1. k \in 1 .. n /\ k - 1 \in 0 .. n
        BY <1>1, <3>2
      <4>2. f[k - 1] \in Normalizing
        BY <4>1
      <4>3. f[k] = normalize_step(f[k - 1], comps[k])
        BY <1>4, <1>5, <4>1, <4>2
      <4> QED
        BY <3>2, <4>3
    <3> QED
      BY <3>1, <3>2
  <2> QED
    BY <2>1
<1>7. L = Loop(L)
  BY <1>6 DEF normalize_loop, b, n
<1> HIDE DEF L
<1> DEFINE G == {k \in Nat : L[k] \in Normalizing}
<1>8. 0 \in G
  BY <1>1, <1>7
<1>9. ASSUME NEW k \in 1 .. n, k - 1 \in G PROVE k \in G
  <2>1. L[k] = normalize_step(L[k - 1], comps[k])
    BY <1>1, <1>7
  <2>2. L[k - 1] \in Normalizing /\ comps[k] \in STRING
    BY <1>2, <1>9
  <2>3. L[k] \in Normalizing
    BY <2>1, <2>2, StepNormal
  <2> QED
    BY <2>3
<1>10. n \in G
  <2> HIDE DEF G
  <2>1. \A k \in 1 .. n : k - 1 \in G => k \in G
    BY <1>9
  <2>2. \A k \in 0 .. n : k \in G
    BY <1>1, <1>8, <2>1, UpTo
  <2> QED
    BY <1>1, <2>2
<1> QED
  BY <1>10 DEF vfs_normalize, L, n

-----------------------------------------------------------------------------
(* vfs_resolve.                                                            *)

\* The mount points in the table are paths.
PointsTyped ==
  \A i \in Slot : g_mounts[i].used \in BOOLEAN /\ g_mounts[i].mountpoint \in Seq(STRING)

\* Slot i is used and mounted above the path.
Above(i, path) == g_mounts[i].used /\ IsPrefix(g_mounts[i].mountpoint, path)

\* b is the best of the first k slots: none if none is above the path, else one
\* above it and none of the others is longer.
BestOf(b, k, path) ==
  /\ b = NULL => \A i \in 1 .. k : ~Above(i, path)
  /\ b # NULL => /\ b \in 1 .. k /\ Above(b, path)
                 /\ \A i \in 1 .. k : Above(i, path) =>
                      Len(g_mounts[i].mountpoint) <= Len(g_mounts[b].mountpoint)

\* The root is above every path.
LEMMA RootAbove == ASSUME NEW path \in Seq(STRING) PROVE IsPrefix(<<>>, path)
<1>1. Len(<<>>) = 0 /\ 0 <= Len(path)
  OBVIOUS
<1>2. SubSeq(<<>>, 1, 0) = <<>> /\ SubSeq(path, 1, 0) = <<>>
  BY SubSeqEmpty
<1> QED
  BY <1>1, <1>2 DEF IsPrefix

\* A round of the loop keeps b the best so far.
LEMMA StepBest ==
  ASSUME PointsTyped, NEW path \in Seq(STRING), NEW i \in Slot,
         NEW b \in Slot \cup {NULL}, BestOf(b, i - 1, path)
  PROVE  /\ resolve_step(b, i, path) \in Slot \cup {NULL}
         /\ BestOf(resolve_step(b, i, path), i, path)
<1> DEFINE mp == g_mounts[i].mountpoint
           r  == resolve_step(b, i, path)
<1>0. /\ mp \in Seq(STRING) /\ Len(mp) \in Nat /\ i \in Nat /\ i # 0
      /\ \A j \in 1 .. i : j \in 1 .. i - 1 \/ j = i
      /\ \A j \in 1 .. i - 1 : j \in 1 .. i /\ j \in Slot
      /\ i \in 1 .. i
  BY VfsAssumption DEF PointsTyped, Slot
<1>n. NULL \notin Slot
  BY VfsAssumption DEF Slot
<1>l. \A j \in Slot : Len(g_mounts[j].mountpoint) \in Nat
  BY DEF PointsTyped
<1>b. b # NULL => b \in 1 .. i - 1 /\ b \in Slot
  BY <1>0 DEF BestOf
<1>1. CASE ~g_mounts[i].used
  <2>1. r = b /\ ~Above(i, path)
    BY <1>1 DEF resolve_step, Above
  <2> QED
    BY <1>0, <2>1 DEF BestOf
<1>2. CASE g_mounts[i].used /\ mp = <<>>
  <2>1. Above(i, path) /\ Len(mp) = 0
    BY <1>2, RootAbove DEF Above
  <2>2. CASE b = NULL
    <3>1. r = i
      BY <1>2, <2>2 DEF resolve_step
    <3> QED
      BY <1>0, <1>n, <2>1, <2>2, <3>1 DEF BestOf
  <2>3. CASE b # NULL
    <3>1. r = b
      BY <1>2, <2>3 DEF resolve_step
    <3>2. Len(mp) <= Len(g_mounts[b].mountpoint)
      BY <1>b, <1>l, <2>1, <2>3
    <3> HIDE DEF mp
    <3> QED
      BY <1>0, <1>b, <2>3, <3>1, <3>2 DEF BestOf, mp
  <2> QED
    BY <2>2, <2>3
<1>3. CASE g_mounts[i].used /\ mp # <<>>
  <2>1. CASE IsPrefix(mp, path) /\ (b = NULL \/ Len(mp) > Len(g_mounts[b].mountpoint))
    <3>1. r = i /\ Above(i, path)
      BY <1>3, <2>1 DEF resolve_step, Above
    <3>2. ASSUME NEW j \in 1 .. i - 1, Above(j, path)
          PROVE  Len(g_mounts[j].mountpoint) <= Len(mp)
      <4>1. b # NULL /\ Len(g_mounts[j].mountpoint) <= Len(g_mounts[b].mountpoint)
        BY <3>2 DEF BestOf
      <4>2. Len(g_mounts[b].mountpoint) \in Nat /\ Len(g_mounts[j].mountpoint) \in Nat
        BY <1>0, <1>b, <1>l, <4>1
      <4>3. Len(mp) > Len(g_mounts[b].mountpoint)
        BY <2>1, <4>1
      <4> HIDE DEF mp
      <4> QED
        BY <1>0, <4>1, <4>2, <4>3
    <3> QED
      BY <1>0, <1>n, <3>1, <3>2 DEF BestOf
  <2>2. CASE ~(IsPrefix(mp, path) /\ (b = NULL \/ Len(mp) > Len(g_mounts[b].mountpoint)))
    <3>1. r = b
      BY <1>3, <2>2 DEF resolve_step
    <3>2. Above(i, path) => b # NULL /\ Len(mp) <= Len(g_mounts[b].mountpoint)
      BY <1>0, <1>b, <1>l, <2>2 DEF Above
    <3> QED
      BY <1>0, <1>b, <3>1, <3>2 DEF BestOf
  <2> QED
    BY <2>1, <2>2
<1> QED
  BY <1>1, <1>2, <1>3 DEF PointsTyped

\* vfs_resolve finds the longest mount point above the path, for every table.
LEMMA ResolveBest ==
  ASSUME PointsTyped, NEW path \in Seq(STRING)
  PROVE  /\ vfs_resolve(path) \in Slot \cup {NULL}
         /\ BestOf(vfs_resolve(path), NMounts, path)
<1> DEFINE n == NMounts
           A == Slot \cup {NULL}
           F == [k \in 1 .. n |-> [a \in A |-> resolve_step(a, k, path)]]
           Loop(f) == [k \in 0 .. n |-> IF k = 0 THEN NULL ELSE resolve_step(f[k - 1], k, path)]
           L == resolve_loop(path)
<1>1. n \in Nat /\ NULL \in A /\ 1 .. n = Slot
  BY VfsAssumption DEF Slot
<1>2. \A a \in A, k \in 1 .. n : resolve_step(a, k, path) \in A
  BY <1>1 DEF resolve_step
<1>3. F \in Rounds(A, n)
  BY <1>2 DEF Rounds
<1>4. \A a \in A, k \in 1 .. n : F[k][a] = resolve_step(a, k, path)
  OBVIOUS
<1> HIDE DEF F, n, A
<1>5. PICK f \in [0 .. n -> A] :
        f[0] = NULL /\ \A k \in 1 .. n : f[k] = F[k][f[k - 1]]
  <2>1. n \in Nat
    BY <1>1
  <2>2. NULL \in A
    BY <1>1
  <2>3. Runs(A, n, F, NULL)
    BY <1>3, <2>1, <2>2, LoopRuns
  <2> QED
    BY <2>3 DEF Runs
<1>6. f = Loop(f)
  <2>1. ASSUME NEW k \in 0 .. n PROVE f[k] = Loop(f)[k]
    <3>1. CASE k = 0
      BY <1>1, <1>5, <3>1
    <3>2. CASE k # 0
      <4>1. k \in 1 .. n /\ k - 1 \in 0 .. n
        BY <1>1, <3>2
      <4>2. f[k - 1] \in A
        BY <4>1
      <4>3. f[k] = resolve_step(f[k - 1], k, path)
        BY <1>4, <1>5, <4>1, <4>2
      <4> QED
        BY <3>2, <4>3
    <3> QED
      BY <3>1, <3>2
  <2> QED
    BY <2>1
<1>7. L = Loop(L)
  BY <1>6 DEF resolve_loop, n
<1> HIDE DEF L
<1> DEFINE G == {k \in Nat : L[k] \in A /\ BestOf(L[k], k, path)}
<1>8. 0 \in G
  <2>1. L[0] = NULL
    BY <1>1, <1>7
  <2> QED
    BY <1>1, <2>1 DEF BestOf
<1>9. ASSUME NEW k \in 1 .. n, k - 1 \in G PROVE k \in G
  <2>1. L[k] = resolve_step(L[k - 1], k, path)
    BY <1>1, <1>7
  <2>2. L[k - 1] \in A /\ BestOf(L[k - 1], k - 1, path)
    BY <1>9
  <2>3. L[k] \in A /\ BestOf(L[k], k, path)
    BY <1>1, <2>1, <2>2, StepBest DEF A
  <2> QED
    BY <2>3
<1>10. n \in G
  <2> HIDE DEF G
  <2>1. \A k \in 1 .. n : k - 1 \in G => k \in G
    BY <1>9
  <2>2. \A k \in 0 .. n : k \in G
    BY <1>1, <1>8, <2>1, UpTo
  <2> QED
    BY <1>1, <2>2
<1> QED
  BY <1>10 DEF vfs_resolve, L, n, A

-----------------------------------------------------------------------------
(* Types.  Which paths are normal is part of them: the working directory   *)
(* is set to a path that was normalised many steps before.                 *)

Op == {"none", "open", "stat", "chdir", "close"}
Call == [op : Op, norm : Normal, slot : Slot, ok : BOOLEAN]
Handle == [mnt : Slot, sb : 1 .. MaxSb]
Point == Points \cup {<<>>}
Mount == [used : BOOLEAN, open_count : Int, mountpoint : Point,
          drv : Driver \cup {NULL}, priv : 1 .. MaxSb \cup {NULL}]

VfsType ==
  /\ booted \in BOOLEAN /\ g_drivers \subseteq Driver
  /\ g_mounts \in [Slot -> Mount]
  /\ g_cwd \in Normal
  /\ nsb \in 0 .. MaxSb
  /\ pc \in [Proc -> Locs]
  /\ call \in [Proc -> Call]
  /\ file \in [Proc -> Handle \cup {NULL}]

\* What the assumptions say of single values.
LEMMA Constants ==
  /\ NoCall \in Call /\ 1 \in Slot /\ NULL \notin Slot /\ NULL \notin Driver
  /\ Slot \subseteq Nat /\ NULL \notin 1 .. MaxSb /\ MaxSb \in Nat
  /\ \A h \in Handle : h.mnt \in Slot /\ h.sb \in 1 .. MaxSb
<1>1. 1 \in Slot /\ NULL \notin Slot /\ NULL \notin Driver /\ Slot \subseteq Nat
      /\ NULL \notin 1 .. MaxSb /\ MaxSb \in Nat
  BY VfsAssumption DEF Slot
<1>2. NoCall \in Call
  BY <1>1, EmptyNormal DEF NoCall, Call, Op
<1> QED
  BY <1>1, <1>2 DEF Handle

\* The mount points of a typed table are paths.
LEMMA TypePoints == ASSUME VfsType PROVE PointsTyped
<1>1. \A q \in Points : q \in Seq(STRING)
  BY VfsAssumption
<1>2. <<>> \in Seq(STRING)
  OBVIOUS
<1>3. \A q \in Point : q \in Seq(STRING)
  BY <1>1, <1>2, Zenon DEF Point
<1> QED
  BY <1>3 DEF VfsType, PointsTyped, Mount

\* A mount with a field changed.
LEMMA MountEdits ==
  ASSUME NEW m \in Mount
  PROVE  /\ \A u \in BOOLEAN : [m EXCEPT !.used = u] \in Mount
         /\ \A n \in Int : [m EXCEPT !.open_count = n] \in Mount
         /\ [m EXCEPT !.priv = NULL] \in Mount
         /\ [m EXCEPT !.drv = NULL, !.priv = NULL] \in Mount
         /\ [m EXCEPT !.used = FALSE, !.drv = NULL, !.priv = NULL] \in Mount
         /\ m.open_count \in Int
<1>1. NULL \in Driver \cup {NULL} /\ NULL \in 1 .. MaxSb \cup {NULL}
  OBVIOUS
<1> DEFINE D == Driver \cup {NULL}
           V == 1 .. MaxSb \cup {NULL}
<1>2. Mount = [used : BOOLEAN, open_count : Int, mountpoint : Point, drv : D, priv : V]
  BY DEF Mount
<1> HIDE DEF D, V
<1>3. NULL \in D /\ NULL \in V
  BY DEF D, V
<1> QED
  BY <1>2, <1>3

\* One slot of the table is stored into.
LEMMA PutMount ==
  ASSUME VfsType, NEW i \in Slot, NEW m \in Mount, g_mounts' = [g_mounts EXCEPT ![i] = m]
  PROVE  g_mounts' \in [Slot -> Mount]
BY DEF VfsType

\* Where a step of caller p leaves the program counters and the calls.
LEMMA ReturnType ==
  ASSUME VfsType, NEW p \in Proc, Return(p)
  PROVE  pc' \in [Proc -> Locs] /\ call' \in [Proc -> Call]
BY Constants DEF VfsType, Return, Goto, Locs

\* Every path a call is made with becomes normal.
LEMMA AbspathNormal ==
  ASSUME VfsType, NEW path \in Paths, vfs_abspath(path).ok
  PROVE  vfs_abspath(path).path \in Normal
<1>1. path.comps \in Seq(STRING) /\ g_cwd \in Seq(STRING)
  BY VfsAssumption DEF VfsType, Normal
<1>2. g_cwd \o path.comps \in Seq(STRING)
  BY <1>1
<1>3. vfs_normalize(path.comps) \in Normalizing /\ vfs_normalize(g_cwd \o path.comps) \in Normalizing
  BY <1>1, <1>2, NormalizeNormal
<1>4. CASE path.abs
  BY <1>3, <1>4 DEF vfs_abspath, Normalizing
<1>5. CASE ~path.abs /\ ~(AbsLen(g_cwd) + 1 + RelLen(path.comps) >= PathMax)
  BY <1>3, <1>5 DEF vfs_abspath, Normalizing
<1>6. CASE ~path.abs /\ AbsLen(g_cwd) + 1 + RelLen(path.comps) >= PathMax
  BY <1>6 DEF vfs_abspath
<1> QED
  BY <1>4, <1>5, <1>6

\* The initial state is typed.
LEMMA InitType == Init => VfsType
<1> SUFFICES ASSUME Init PROVE VfsType
  OBVIOUS
<1>1. NoMount \in Mount
  BY DEF NoMount, Mount, Point
<1> QED
  <2>1. g_mounts \in [Slot -> Mount]
    BY <1>1 DEF Init
  <2>2. call \in [Proc -> Call] /\ pc \in [Proc -> Locs]
    BY Constants DEF Init, Locs
  <2>3. file \in [Proc -> Handle \cup {NULL}]
    BY DEF Init
  <2>4. nsb \in 0 .. MaxSb /\ g_cwd \in Normal /\ g_drivers \subseteq Driver
    BY Constants, EmptyNormal DEF Init
  <2> QED
    BY <2>1, <2>2, <2>3, <2>4 DEF Init, VfsType

\* The steps that mount.
LEMMA MountType ==
  ASSUME VfsType, NEW p \in Proc,
         \/ \E d \in Driver, point \in Points : vfs_mount(p, d, point)
         \/ driver_mount(p) \/ mount_fail(p)
  PROVE  VfsType'
<1> USE Constants
<1>1. ASSUME NEW d \in Driver, NEW point \in Points, vfs_mount(p, d, point) PROVE VfsType'
  <2>1. PICK i \in Slot :
          /\ g_mounts' = [g_mounts EXCEPT
               ![i] = [g_mounts[i] EXCEPT !.used = TRUE, !.drv = d, !.priv = NULL,
                                          !.mountpoint = point]]
          /\ call' = [call EXCEPT ![p].slot = i]
    BY <1>1 DEF vfs_mount, free_slot
  <2>2. g_mounts' \in [Slot -> Mount]
    <3>1. point \in Point
      BY DEF Point
    <3> QED
      BY <2>1, <3>1 DEF VfsType, Mount
  <2>3. call' \in [Proc -> Call]
    BY <2>1 DEF VfsType, Call
  <2> QED
    BY <1>1, <2>2, <2>3 DEF vfs_mount, VfsType, Goto, Locs
<1>2. CASE driver_mount(p)
  <2>0. call[p].slot \in Slot
    BY DEF VfsType, Call
  <2>1. CASE pc'[p] = "mount_fail"
    <3>1. UNCHANGED <<g_mounts, nsb, call>>
      BY <1>2, <2>1 DEF driver_mount, Return, Goto, VfsType
    <3> QED
      BY <1>2, <3>1 DEF driver_mount, VfsType, Return, Goto, Locs
  <2>2. CASE pc'[p] # "mount_fail"
    <3>1. /\ nsb' = nsb + 1 /\ nsb < MaxSb /\ Return(p)
          /\ g_mounts' = [g_mounts EXCEPT ![call[p].slot].priv = nsb + 1]
      BY <1>2, <2>2 DEF driver_mount, Goto, VfsType
    <3>2. nsb + 1 \in 1 .. MaxSb
      BY <3>1 DEF VfsType
    <3>3. g_mounts' \in [Slot -> Mount]
      BY <2>0, <3>1, <3>2 DEF VfsType, Mount
    <3>4. pc' \in [Proc -> Locs] /\ call' \in [Proc -> Call]
      BY <3>1, ReturnType
    <3> QED
      BY <1>2, <3>1, <3>2, <3>3, <3>4 DEF driver_mount, VfsType
  <2> QED
    BY <2>1, <2>2
<1>3. CASE mount_fail(p)
  <2>1. call[p].slot \in Slot
    BY DEF VfsType, Call
  <2>2. g_mounts' \in [Slot -> Mount]
    <3> DEFINE m == [g_mounts[call[p].slot] EXCEPT !.used = FALSE, !.drv = NULL, !.priv = NULL]
    <3>1. m \in Mount
      BY <2>1, MountEdits DEF VfsType
    <3>2. g_mounts' = [g_mounts EXCEPT ![call[p].slot] = m]
      BY <1>3 DEF mount_fail
    <3> QED
      BY <2>1, <3>1, <3>2, PutMount
  <2>3. pc' \in [Proc -> Locs] /\ call' \in [Proc -> Call]
    BY <1>3, ReturnType DEF mount_fail
  <2> QED
    BY <1>3, <2>2, <2>3 DEF mount_fail, VfsType
<1> QED
  BY <1>1, <1>2, <1>3

\* The steps that unmount.
LEMMA UnmountType ==
  ASSUME VfsType, NEW p \in Proc,
         \/ \E point \in Points : vfs_unmount(p, point)
         \/ driver_unmount(p) \/ unmount_fail(p) \/ unmount_done(p)
  PROVE  VfsType'
<1> USE Constants
<1>0. call[p].slot \in Slot
  BY DEF VfsType, Call
<1>1. ASSUME NEW point \in Points, vfs_unmount(p, point) PROVE VfsType'
  <2>1. PICK i \in Slot : /\ g_mounts' = [g_mounts EXCEPT ![i].used = FALSE]
                          /\ call' = [call EXCEPT ![p].slot = i]
    BY <1>1 DEF vfs_unmount
  <2>2. g_mounts' \in [Slot -> Mount]
    <3>1. [g_mounts[i] EXCEPT !.used = FALSE] \in Mount
      BY MountEdits DEF VfsType
    <3> QED
      BY <2>1, <3>1, PutMount
  <2>3. call' \in [Proc -> Call]
    BY <2>1 DEF VfsType, Call
  <2> QED
    BY <1>1, <2>2, <2>3 DEF vfs_unmount, VfsType, Goto, Locs
<1>2. CASE driver_unmount(p)
  <2>1. g_mounts' \in [Slot -> Mount]
    <3>1. \/ g_mounts' = g_mounts
          \/ g_mounts' = [g_mounts EXCEPT ![call[p].slot].priv = NULL]
      BY <1>2 DEF driver_unmount
    <3>2. [g_mounts[call[p].slot] EXCEPT !.priv = NULL] \in Mount
      BY <1>0, MountEdits DEF VfsType
    <3> QED
      BY <1>0, <3>1, <3>2, PutMount DEF VfsType
  <2> QED
    BY <1>2, <2>1 DEF driver_unmount, VfsType, Goto, Locs
<1>3. CASE unmount_fail(p)
  <2>1. g_mounts' \in [Slot -> Mount]
    <3>1. g_mounts' = [g_mounts EXCEPT ![call[p].slot].used = TRUE]
      BY <1>3 DEF unmount_fail
    <3>2. [g_mounts[call[p].slot] EXCEPT !.used = TRUE] \in Mount
      BY <1>0, MountEdits DEF VfsType
    <3> QED
      BY <1>0, <3>1, <3>2, PutMount
  <2>2. pc' \in [Proc -> Locs] /\ call' \in [Proc -> Call]
    BY <1>3, ReturnType DEF unmount_fail
  <2> QED
    BY <1>3, <2>1, <2>2 DEF unmount_fail, VfsType
<1>4. CASE unmount_done(p)
  <2>1. g_mounts' \in [Slot -> Mount]
    <3> DEFINE m == [g_mounts[call[p].slot] EXCEPT !.drv = NULL, !.priv = NULL]
    <3>1. m \in Mount
      BY <1>0, MountEdits DEF VfsType
    <3>2. g_mounts' = [g_mounts EXCEPT ![call[p].slot] = m]
      BY <1>0, <1>4 DEF unmount_done, VfsType
    <3> QED
      BY <1>0, <3>1, <3>2, PutMount
  <2>2. pc' \in [Proc -> Locs] /\ call' \in [Proc -> Call]
    BY <1>4, ReturnType DEF unmount_done
  <2> QED
    BY <1>4, <2>1, <2>2 DEF unmount_done, VfsType
<1> QED
  BY <1>1, <1>2, <1>3, <1>4

\* The steps of a call with a path.
LEMMA CallType ==
  ASSUME VfsType, NEW p \in Proc,
         \/ \E o \in {"open", "stat", "chdir"}, path \in Paths : vfs_call(p, o, path)
         \/ vfs_locate(p) \/ driver_call(p) \/ vfs_unpin(p) \/ chdir_set(p) \/ vfs_close(p)
  PROVE  VfsType'
<1> USE Constants
<1>0. call[p].slot \in Slot /\ call[p].norm \in Normal
  BY DEF VfsType, Call
<1>1. ASSUME NEW o \in {"open", "stat", "chdir"}, NEW path \in Paths, vfs_call(p, o, path)
      PROVE  VfsType'
  <2> DEFINE a == vfs_abspath(path).path
  <2>1. a \in Normal
    BY <1>1, AbspathNormal DEF vfs_call
  <2>2. call' = [call EXCEPT ![p].op = o, ![p].norm = a]
    BY <1>1 DEF vfs_call
  <2> HIDE DEF a
  <2>3. call' \in [Proc -> Call]
    BY <2>1, <2>2 DEF VfsType, Call, Op
  <2> QED
    BY <1>1, <2>3 DEF vfs_call, VfsType, Goto, Locs, table
<1>2. CASE vfs_locate(p)
  <2> DEFINE i == vfs_resolve(call[p].norm)
  <2>1. i \in Slot \cup {NULL}
    BY <1>0, TypePoints, ResolveBest DEF Normal
  <2>2. CASE i = NULL
    <3>1. Return(p) /\ UNCHANGED g_mounts
      BY <1>2, <2>2 DEF vfs_locate
    <3>2. pc' \in [Proc -> Locs] /\ call' \in [Proc -> Call]
      BY <3>1, ReturnType
    <3> QED
      BY <1>2, <3>1, <3>2 DEF vfs_locate, VfsType
  <2>3. CASE i # NULL
    <3>1. /\ g_mounts' = [g_mounts EXCEPT ![i].open_count = g_mounts[i].open_count + 1]
          /\ call' = [call EXCEPT ![p].slot = i]
          /\ Goto(p, "pinned")
      BY <1>2, <2>3 DEF vfs_locate
    <3> HIDE DEF i
    <3>2. g_mounts' \in [Slot -> Mount]
      <4>1. g_mounts[i] \in Mount
        BY <2>1, <2>3 DEF VfsType
      <4> DEFINE c == g_mounts[i].open_count + 1
      <4>2. c \in Int
        <5>1. g_mounts[i].open_count \in Int
          BY <4>1, MountEdits, Zenon
        <5> QED
          BY <5>1
      <4>3. g_mounts' = [g_mounts EXCEPT ![i] = [g_mounts[i] EXCEPT !.open_count = c]]
        BY <3>1
      <4> HIDE DEF c
      <4>4. [g_mounts[i] EXCEPT !.open_count = c] \in Mount
        BY <4>1, <4>2, MountEdits, Zenon
      <4> QED
        BY <2>1, <2>3, <4>3, <4>4, PutMount
    <3>3. call' \in [Proc -> Call]
      BY <2>1, <2>3, <3>1 DEF VfsType, Call
    <3> QED
      BY <1>2, <3>1, <3>2, <3>3 DEF vfs_locate, VfsType, Goto, Locs
  <2> QED
    BY <2>2, <2>3
<1>3. CASE driver_call(p)
  <2>0. UNCHANGED <<booted, g_drivers, g_mounts, g_cwd, nsb>>
    BY <1>3 DEF driver_call, table
  <2>1. file' \in [Proc -> Handle \cup {NULL}]
    <3>1. \/ file' = file
          \/ /\ g_mounts[call[p].slot].priv # NULL
             /\ file' = [file EXCEPT ![p] = [mnt |-> call[p].slot,
                                             sb |-> g_mounts[call[p].slot].priv]]
      BY <1>3 DEF driver_call
    <3>2. g_mounts[call[p].slot].priv \in 1 .. MaxSb \cup {NULL}
      BY <1>0 DEF VfsType, Mount
    <3> QED
      BY <1>0, <3>1, <3>2 DEF VfsType, Handle
  <2>2. pc' \in [Proc -> Locs] /\ call' \in [Proc -> Call]
    <3>1. CASE Return(p)
      BY <3>1, ReturnType
    <3>2. CASE ~Return(p)
      <4>1. /\ pc' = [pc EXCEPT ![p] = "fault"] \/ pc' = [pc EXCEPT ![p] = "unpin"]
            /\ call' = call \/ call' = [call EXCEPT ![p].ok = TRUE]
        BY <1>3, <3>2 DEF driver_call, Goto, after_failure
      <4>2. [call[p] EXCEPT !.ok = TRUE] \in Call
        BY DEF VfsType, Call
      <4>3. call' \in [Proc -> Call]
        BY <4>1, <4>2 DEF VfsType
      <4> QED
        BY <4>1, <4>3 DEF VfsType, Locs
    <3> QED
      BY <3>1, <3>2
  <2> QED
    BY <2>0, <2>1, <2>2 DEF VfsType
<1>4. CASE vfs_unpin(p)
  <2>1. g_mounts' \in [Slot -> Mount]
    <3> DEFINE m == g_mounts[call[p].slot]
               c == m.open_count - 1
    <3>1. m \in Mount
      BY <1>0 DEF VfsType
    <3>2. c \in Int
      <4>1. m.open_count \in Int
        BY <3>1, MountEdits, Zenon
      <4> QED
        BY <4>1
    <3>3. g_mounts' = [g_mounts EXCEPT ![call[p].slot] = [m EXCEPT !.open_count = c]]
      BY <1>4 DEF vfs_unpin
    <3> HIDE DEF c, m
    <3>4. [m EXCEPT !.open_count = c] \in Mount
      BY <3>1, <3>2, MountEdits, Zenon
    <3> QED
      BY <1>0, <3>3, <3>4, PutMount
  <2>2. pc' \in [Proc -> Locs] /\ call' \in [Proc -> Call]
    BY <1>4, ReturnType DEF vfs_unpin, VfsType, Goto, Locs
  <2> QED
    BY <1>4, <2>1, <2>2 DEF vfs_unpin, VfsType
<1>5. CASE chdir_set(p)
  <2>1. pc' \in [Proc -> Locs] /\ call' \in [Proc -> Call]
    BY <1>5, ReturnType DEF chdir_set
  <2> QED
    BY <1>0, <1>5, <2>1 DEF chdir_set, VfsType
<1>6. CASE vfs_close(p)
  <2>1. file[p].mnt \in Slot
    BY <1>6 DEF vfs_close, VfsType
  <2>2. call' \in [Proc -> Call]
    BY <1>6, <2>1 DEF vfs_close, VfsType, Call, Op
  <2> QED
    BY <1>6, <2>2 DEF vfs_close, VfsType, Goto, Locs, table
<1> QED
  BY <1>1, <1>2, <1>3, <1>4, <1>5, <1>6

\* Every step keeps the types.
LEMMA NextType == VfsType /\ [Next]_vars => VfsType'
<1> SUFFICES ASSUME VfsType, [Next]_vars PROVE VfsType'
  OBVIOUS
<1>1. CASE UNCHANGED vars
  BY <1>1 DEF vars, VfsType
<1>2. ASSUME NEW d \in Driver, vfs_register_driver(d) PROVE VfsType'
  BY <1>2 DEF vfs_register_driver, VfsType, table
<1>3. CASE boot_done
  BY <1>3 DEF boot_done, VfsType, table
<1> QED
  BY <1>1, <1>2, <1>3, MountType, UnmountType, CallType DEF Next

\* The working directory stays a normal path that fits its buffer, for every
\* number of callers, table and path, and for every sequence of vfs_chdir.
THEOREM CwdCorrect == Spec => []CwdNormal
<1>1. VfsType => CwdNormal
  <2> SUFFICES ASSUME VfsType PROVE CwdNormal
    OBVIOUS
  <2>1. g_cwd \in Normal /\ DOMAIN g_cwd = 1 .. Len(g_cwd)
    BY DEF VfsType, Normal
  <2>2. AbsLen(g_cwd) < PathMax
    BY <2>1, VfsAssumption DEF Normal, AbsLen
  <2>3. \A k \in DOMAIN g_cwd : g_cwd[k] # "." /\ g_cwd[k] # ".."
    BY <2>1 DEF Normal
  <2> QED
    BY <2>2, <2>3 DEF CwdNormal, Names
<1> QED
  BY <1>1, InitType, NextType, PTL DEF Spec

-----------------------------------------------------------------------------
(* The mount that serves a call.                                           *)

\* Only vfs_locate takes a call to its mount.
LEMMA OnlyLocatePins ==
  ASSUME VfsType, Next, NEW p \in Proc, pc[p] = "resolve", pc'[p] = "pinned"
  PROVE  vfs_locate(p)
<1>1. ASSUME NEW q \in Proc, NEW l, Goto(q, l), q # p PROVE FALSE
  BY <1>1 DEF Goto, VfsType
<1>2. ASSUME NEW l, Goto(p, l) PROVE l = "pinned"
  BY <1>2 DEF Goto, VfsType
<1>3. ~UNCHANGED pc
  OBVIOUS
<1>4. ASSUME NEW q \in Proc, Return(q) PROVE FALSE
  BY <1>1, <1>2, <1>4 DEF Return
<1> HIDE DEF Goto, Return
<1>5. \A d \in Driver : ~vfs_register_driver(d)
  BY <1>3 DEF vfs_register_driver
<1>6. ~boot_done
  <2>1. boot_done => UNCHANGED pc
    BY Zenon DEF boot_done
  <2> QED
    BY <1>3, <2>1
<1>7. ASSUME NEW q \in Proc
      PROVE  /\ \A d \in Driver, point \in Points : ~vfs_mount(q, d, point)
             /\ ~driver_mount(q) /\ ~mount_fail(q)
             /\ \A point \in Points : ~vfs_unmount(q, point)
             /\ ~driver_unmount(q) /\ ~unmount_fail(q) /\ ~unmount_done(q)
             /\ \A o \in {"open", "stat", "chdir"}, path \in Paths : ~vfs_call(q, o, path)
  BY <1>1, <1>2, <1>4 DEF vfs_mount, driver_mount, mount_fail, vfs_unmount,
     driver_unmount, unmount_fail, unmount_done, vfs_call
<1>8. ASSUME NEW q \in Proc
      PROVE  ~driver_call(q) /\ ~vfs_unpin(q) /\ ~chdir_set(q) /\ ~vfs_close(q)
  BY <1>1, <1>2, <1>4 DEF driver_call, vfs_unpin, chdir_set, vfs_close, after_failure
<1>9. ASSUME NEW q \in Proc, vfs_locate(q) PROVE q = p
  BY <1>1, <1>4, <1>9 DEF vfs_locate
<1> QED
  BY <1>5, <1>6, <1>7, <1>8, <1>9 DEF Next

\* A call is served by the longest mount point above its path, for every table of
\* mounts, in whatever order they were made and taken down.
THEOREM LongestCorrect == Spec => LongestWins
<1> DEFINE A == \A p \in Proc : pc[p] = "resolve" /\ pc'[p] = "pinned" =>
       LET above == {i \in Slot : g_mounts[i].used
                                    /\ IsPrefix(g_mounts[i].mountpoint, call[p].norm)}
       IN /\ call'[p].slot \in above
          /\ \A i \in above : Len(g_mounts[i].mountpoint)
                                <= Len(g_mounts[call'[p].slot].mountpoint)
<1>1. VfsType /\ [Next]_vars => [A]_vars
  <2> SUFFICES ASSUME VfsType, Next, NEW p \in Proc, pc[p] = "resolve", pc'[p] = "pinned"
               PROVE  /\ call'[p].slot \in Slot /\ Above(call'[p].slot, call[p].norm)
                      /\ \A i \in Slot : Above(i, call[p].norm) =>
                           Len(g_mounts[i].mountpoint)
                             <= Len(g_mounts[call'[p].slot].mountpoint)
    BY DEF Above
  <2> DEFINE r == vfs_resolve(call[p].norm)
  <2>1. vfs_locate(p) /\ call[p] \in Call
    BY OnlyLocatePins DEF VfsType
  <2>2. call[p].norm \in Seq(STRING)
    BY <2>1 DEF Call, Normal
  <2>3. r \in Slot \cup {NULL} /\ BestOf(r, NMounts, call[p].norm)
    BY <2>2, TypePoints, ResolveBest
  <2>4. r # NULL /\ call' = [call EXCEPT ![p].slot = r]
    BY <2>1 DEF vfs_locate, Return, Goto, VfsType
  <2> HIDE DEF r
  <2>5. call'[p].slot = r
    BY <2>1, <2>4 DEF VfsType, Call
  <2> QED
    BY <2>3, <2>4, <2>5 DEF BestOf, Slot
<1>2. Spec => []VfsType
  BY InitType, NextType, PTL DEF Spec
<1> QED
  BY <1>1, <1>2, PTL DEF Spec, LongestWins

-----------------------------------------------------------------------------
(* The pins.  The kernel mounts only while it boots (Mounters = {}): a     *)
(* later vfs_mount could take the slot of an unmount under way.            *)

Pinning == {"pinned", "unpin"}
Leaving == {"unmounting", "unmount_fail", "unmount_done"}

\* Nobody but kernel_main runs before it is through, and nothing is open then;
\* afterwards nobody mounts.
BootInv ==
  /\ ~booted => \A p \in Proc : /\ file[p] = NULL
                                /\ pc[p] \in {"idle", "mounting", "mount_fail"}
                                /\ p # Boot => pc[p] = "idle"
  /\ booted => \A p \in Proc : pc[p] \notin {"mounting", "mount_fail"}

\* A mount that is used has its driver, and what is pinned is used.
HeldInv ==
  /\ \A i \in Slot : g_mounts[i].used => g_mounts[i].drv # NULL
  /\ \A p \in Proc : /\ pc[p] # "fault"
                     /\ pc[p] \in Pinning => g_mounts[call[p].slot].used
                     /\ file[p] # NULL => /\ g_mounts[file[p].mnt].used
                                          /\ g_mounts[file[p].mnt].priv = file[p].sb

\* A mount that is being taken down is not used, by one caller only, and keeps its
\* driver to the end.
LeavingInv ==
  \A p \in Proc : pc[p] \in Leaving =>
    /\ ~g_mounts[call[p].slot].used /\ g_mounts[call[p].slot].drv # NULL
    /\ \A q \in Proc \ {p} : pc[q] \in Leaving => call[q].slot # call[p].slot

\* A caller that opens has no handle yet.
OpeningInv ==
  \A p \in Proc : pc[p] \in {"resolve", "pinned"} /\ call[p].op = "open" => file[p] = NULL

PinInv == VfsType /\ PinsExact /\ BootInv /\ HeldInv /\ LeavingInv /\ OpeningInv

\* The pins of caller p on mount i.
Holds(p, i) == file[p] # NULL /\ file[p].mnt = i
Calls(p, i) == pc[p] \in Pinning /\ call[p].slot = i
Pins(p, i) == (IF Holds(p, i) THEN 1 ELSE 0) + (IF Calls(p, i) THEN 1 ELSE 0)

\* A step of caller p changes open_count by as much as p's pins.
LEMMA PinsStep ==
  ASSUME IsFiniteSet(Proc), VfsType, VfsType', PinsExact, NEW p \in Proc,
         \A q \in Proc \ {p} : /\ file'[q] = file[q] /\ pc'[q] = pc[q]
                               /\ call'[q] = call[q],
         \A i \in Slot : g_mounts'[i].open_count
                           = g_mounts[i].open_count - Pins(p, i) + Pins(p, i)'
  PROVE  PinsExact'
<1> SUFFICES ASSUME NEW i \in Slot
             PROVE  g_mounts'[i].open_count =
                      Cardinality({q \in Proc : Holds(q, i)'})
                        + Cardinality({q \in Proc : Calls(q, i)'})
  BY DEF PinsExact, Holds, Calls, Pinning
<1> DEFINE S1 == {q \in Proc : Holds(q, i)}
           T1 == {q \in Proc : Holds(q, i)'}
           S2 == {q \in Proc : Calls(q, i)}
           T2 == {q \in Proc : Calls(q, i)'}
<1>1. \A q \in Proc \ {p} : (Holds(q, i) <=> Holds(q, i)') /\ (Calls(q, i) <=> Calls(q, i)')
  BY DEF Holds, Calls
<1>2. Cardinality(T1) = Cardinality(S1) - (IF Holds(p, i) THEN 1 ELSE 0)
                                        + (IF Holds(p, i)' THEN 1 ELSE 0)
  <2>1. \A q \in Proc \ {p} : q \in S1 <=> q \in T1
    BY <1>1
  <2>2. S1 \subseteq Proc /\ T1 \subseteq Proc /\ (p \in S1 <=> Holds(p, i))
        /\ (p \in T1 <=> Holds(p, i)')
    OBVIOUS
  <2> HIDE DEF S1, T1
  <2>3. Cardinality(T1) = Cardinality(S1) - (IF p \in S1 THEN 1 ELSE 0)
                                          + (IF p \in T1 THEN 1 ELSE 0)
    BY <2>1, <2>2, CountOne
  <2> QED
    BY <2>2, <2>3
<1>3. Cardinality(T2) = Cardinality(S2) - (IF Calls(p, i) THEN 1 ELSE 0)
                                        + (IF Calls(p, i)' THEN 1 ELSE 0)
  <2>1. \A q \in Proc \ {p} : q \in S2 <=> q \in T2
    BY <1>1
  <2>2. S2 \subseteq Proc /\ T2 \subseteq Proc /\ (p \in S2 <=> Calls(p, i))
        /\ (p \in T2 <=> Calls(p, i)')
    OBVIOUS
  <2> HIDE DEF S2, T2
  <2>3. Cardinality(T2) = Cardinality(S2) - (IF p \in S2 THEN 1 ELSE 0)
                                          + (IF p \in T2 THEN 1 ELSE 0)
    BY <2>1, <2>2, CountOne
  <2> QED
    BY <2>2, <2>3
<1>4. g_mounts[i].open_count = Cardinality(S1) + Cardinality(S2)
  BY DEF PinsExact, Holds, Calls, Pinning
<1>5. /\ Cardinality(S1) \in Nat /\ Cardinality(S2) \in Nat
  <2>1. S1 \subseteq Proc /\ S2 \subseteq Proc
    OBVIOUS
  <2> HIDE DEF S1, S2
  <2> QED
    BY <2>1, FS_Subset, FS_CardinalityType
<1> HIDE DEF S1, T1, S2, T2
<1>6. g_mounts'[i].open_count = Cardinality(T1) + Cardinality(T2)
  BY <1>2, <1>3, <1>4, <1>5 DEF Pins
<1> QED
  BY <1>6 DEF T1, T2

\* A mount that is not pinned is in nobody's hands.
LEMMA Unpinned ==
  ASSUME IsFiniteSet(Proc), PinsExact, NEW i \in Slot, g_mounts[i].open_count = 0
  PROVE  \A p \in Proc : ~Holds(p, i) /\ ~Calls(p, i)
<1> DEFINE S1 == {q \in Proc : Holds(q, i)}
           S2 == {q \in Proc : Calls(q, i)}
<1>1. Cardinality(S1) + Cardinality(S2) = 0
  BY DEF PinsExact, Holds, Calls, Pinning
<1>2. /\ IsFiniteSet(S1) /\ Cardinality(S1) \in Nat
      /\ IsFiniteSet(S2) /\ Cardinality(S2) \in Nat
  <2>1. S1 \subseteq Proc /\ S2 \subseteq Proc
    OBVIOUS
  <2> HIDE DEF S1, S2
  <2> QED
    BY <2>1, FS_Subset, FS_CardinalityType
<1> HIDE DEF S1, S2
<1>3. Cardinality(S1) = 0 /\ Cardinality(S2) = 0
  BY <1>1, <1>2
<1>4. S1 = {} /\ S2 = {}
  BY <1>2, <1>3, FS_EmptySet
<1> QED
  BY <1>4 DEF S1, S2

\* At first nothing is mounted and nobody calls.
LEMMA InitPin == ASSUME IsFiniteSet(Proc), Init PROVE PinInv
<1>1. VfsType
  BY InitType
<1>2. /\ \A p \in Proc : file[p] = NULL /\ pc[p] = "idle"
      /\ \A i \in Slot : ~g_mounts[i].used /\ g_mounts[i].open_count = 0
      /\ ~booted
  BY DEF Init, NoMount
<1>3. PinsExact
  <2> SUFFICES ASSUME NEW i \in Slot
               PROVE  g_mounts[i].open_count =
                        Cardinality({p \in Proc : file[p] # NULL /\ file[p].mnt = i})
                          + Cardinality({p \in Proc : pc[p] \in {"pinned", "unpin"}
                                                        /\ call[p].slot = i})
    BY DEF PinsExact
  <2> DEFINE S == {p \in Proc : file[p] # NULL /\ file[p].mnt = i}
             T == {p \in Proc : pc[p] \in {"pinned", "unpin"} /\ call[p].slot = i}
  <2>1. S = {} /\ T = {} /\ g_mounts[i].open_count = 0
    BY <1>2
  <2> HIDE DEF S, T
  <2>2. Cardinality(S) = 0 /\ Cardinality(T) = 0
    BY <2>1, FS_EmptySet
  <2>3. g_mounts[i].open_count = Cardinality(S) + Cardinality(T)
    BY <2>1, <2>2
  <2> QED
    BY <2>3 DEF S, T
<1>4. BootInv
  BY <1>2 DEF BootInv
<1>5. HeldInv /\ LeavingInv /\ OpeningInv
  BY <1>2 DEF HeldInv, LeavingInv, OpeningInv, Pinning, Leaving
<1> QED
  BY <1>1, <1>3, <1>4, <1>5 DEF PinInv

\* While kernel_main mounts, nothing is open and nobody else runs.
LEMMA MountPin ==
  ASSUME IsFiniteSet(Proc), Mounters = {}, PinInv, VfsType', NEW p \in Proc,
         \/ \E d \in Driver, point \in Points : vfs_mount(p, d, point)
         \/ driver_mount(p)
         \/ mount_fail(p)
  PROVE  PinInv'
<1>t. VfsType /\ BootInv /\ HeldInv /\ PinsExact
  BY DEF PinInv
<1>0. ~booted /\ booted' = booted /\ file' = file
  BY DEF vfs_mount, driver_mount, mount_fail, PinInv, BootInv
<1>1. p = Boot
  BY <1>0 DEF vfs_mount, driver_mount, mount_fail, PinInv, BootInv
<1>2. pc'[p] \in {"idle", "mounting", "mount_fail"}
      /\ \A q \in Proc \ {p} : pc'[q] = pc[q] /\ call'[q] = call[q]
  BY <1>t DEF vfs_mount, driver_mount, mount_fail, VfsType, Return, Goto
<1>3. BootInv'
  BY <1>0, <1>1, <1>2 DEF PinInv, BootInv
<1>4. \A q \in Proc : /\ file[q] = NULL /\ pc[q] \notin Pinning /\ pc[q] \notin Leaving
                      /\ file'[q] = NULL /\ pc'[q] \notin Pinning /\ pc'[q] \notin Leaving
                      /\ pc'[q] # "fault"
  BY <1>0, <1>2, <1>t DEF BootInv, Pinning, Leaving
<1>5. ASSUME NEW i \in Slot
      PROVE  /\ g_mounts'[i].open_count = g_mounts[i].open_count
             /\ g_mounts'[i].used => g_mounts'[i].drv # NULL
  <2>0. g_mounts[i] \in Mount /\ (g_mounts[i].used => g_mounts[i].drv # NULL)
    BY <1>t DEF VfsType, HeldInv
  <2> DEFINE Kept(r) == /\ r.open_count = g_mounts[i].open_count
                        /\ r.used => r.drv # NULL
  <2>1. ASSUME NEW d \in Driver, NEW point \in Points, vfs_mount(p, d, point)
        PROVE  Kept(g_mounts'[i])
    <3> DEFINE r == [g_mounts[i] EXCEPT !.used = TRUE, !.drv = d, !.priv = NULL,
                                        !.mountpoint = point]
    <3>1. g_mounts'[i] = g_mounts[i] \/ g_mounts'[i] = r
      BY <1>t, <2>1 DEF vfs_mount, VfsType
    <3>2. r.open_count = g_mounts[i].open_count /\ r.drv = d /\ d # NULL
      BY <2>0, Constants DEF Mount
    <3> HIDE DEF r
    <3> QED
      BY <2>0, <3>1, <3>2
  <2>2. ASSUME driver_mount(p) PROVE Kept(g_mounts'[i])
    <3> DEFINE v == nsb + 1
               r == [g_mounts[i] EXCEPT !.priv = v]
    <3>1. g_mounts'[i] = g_mounts[i] \/ g_mounts'[i] = r
      BY <1>t, <2>2 DEF driver_mount, VfsType
    <3> HIDE DEF v
    <3>2. r.open_count = g_mounts[i].open_count /\ r.used = g_mounts[i].used
          /\ r.drv = g_mounts[i].drv
      BY <2>0 DEF Mount
    <3> HIDE DEF r
    <3> QED
      BY <2>0, <3>1, <3>2
  <2>3. ASSUME mount_fail(p) PROVE Kept(g_mounts'[i])
    <3> DEFINE r == [g_mounts[i] EXCEPT !.used = FALSE, !.drv = NULL, !.priv = NULL]
    <3>1. g_mounts'[i] = g_mounts[i] \/ g_mounts'[i] = r
      BY <1>t, <2>3 DEF mount_fail, VfsType
    <3>2. r.open_count = g_mounts[i].open_count /\ r.used = FALSE
      BY <2>0 DEF Mount
    <3> HIDE DEF r
    <3> QED
      BY <2>0, <3>1, <3>2
  <2> QED
    BY <2>1, <2>2, <2>3
<1>6. PinsExact'
  <2>1. \A i \in Slot : Pins(p, i)' = 0 /\ Pins(p, i) = 0
    BY <1>4 DEF Pins, Holds, Calls
  <2>2. \A i \in Slot : g_mounts[i].open_count \in Int
    BY <1>t DEF VfsType, Mount
  <2> QED
    BY <1>0, <1>2, <1>5, <1>t, <2>1, <2>2, PinsStep
<1>7. HeldInv' /\ LeavingInv' /\ OpeningInv'
  BY <1>4, <1>5 DEF HeldInv, LeavingInv, OpeningInv
<1> QED
  BY <1>3, <1>6, <1>7 DEF PinInv

\* The steps that take a mount down.  No mount that is pinned is begun with, so the
\* handles keep theirs, and the driver stays while it is called.
LEMMA UnmountPin ==
  ASSUME IsFiniteSet(Proc), PinInv, VfsType', NEW p \in Proc,
         \/ \E point \in Points : vfs_unmount(p, point)
         \/ driver_unmount(p) \/ unmount_fail(p) \/ unmount_done(p)
  PROVE  PinInv'
<1>t. VfsType /\ BootInv /\ HeldInv /\ LeavingInv /\ PinsExact
  BY DEF PinInv
<1>0. booted /\ booted' = booted /\ file' = file
  BY <1>t DEF vfs_unmount, driver_unmount, unmount_fail, unmount_done, BootInv
<1>1. \A q \in Proc \ {p} : pc'[q] = pc[q] /\ call'[q] = call[q]
  BY <1>t DEF vfs_unmount, driver_unmount, unmount_fail, unmount_done, VfsType, Return, Goto
<1>2. pc[p] \notin Pinning /\ pc'[p] \notin Pinning
      /\ pc'[p] \notin {"mounting", "mount_fail", "fault", "resolve"}
  BY <1>t DEF vfs_unmount, driver_unmount, unmount_fail, unmount_done, VfsType, Return, Goto,
     LeavingInv, Leaving, Pinning
<1>3. BootInv' /\ OpeningInv'
  BY <1>0, <1>1, <1>2 DEF PinInv, BootInv, OpeningInv, Pinning
<1>4. ASSUME \A i \in Slot : g_mounts'[i].open_count = g_mounts[i].open_count
      PROVE  PinsExact'
  <2>1. \A i \in Slot : Pins(p, i)' = Pins(p, i)
    BY <1>0, <1>2 DEF Pins, Holds, Calls
  <2>2. \A i \in Slot : Pins(p, i) \in Int /\ g_mounts[i].open_count \in Int
    BY <1>t DEF Pins, VfsType, Mount
  <2> QED
    BY <1>0, <1>1, <1>4, <1>t, <2>1, <2>2, PinsStep
<1>5. ASSUME NEW point \in Points, vfs_unmount(p, point) PROVE PinInv'
  <2>1. PICK s \in Slot : /\ g_mounts[s].used /\ g_mounts[s].open_count = 0
                          /\ g_mounts' = [g_mounts EXCEPT ![s].used = FALSE]
                          /\ call' = [call EXCEPT ![p].slot = s]
    BY <1>5 DEF vfs_unmount, may_unmount
  <2>2. pc[p] = "idle" /\ pc'[p] = "unmounting" /\ call'[p].slot = s
    BY <1>5, <1>t, <2>1 DEF vfs_unmount, Goto, VfsType, Call
  <2>3. \A i \in Slot : /\ g_mounts'[i].open_count = g_mounts[i].open_count
                        /\ g_mounts'[i].drv = g_mounts[i].drv
                        /\ g_mounts'[i].priv = g_mounts[i].priv
                        /\ g_mounts'[i].used = (i # s /\ g_mounts[i].used)
    BY <1>t, <2>1 DEF VfsType, Mount
  <2>4. \A q \in Proc : ~Holds(q, s) /\ ~Calls(q, s)
    BY <1>t, <2>1, Unpinned
  <2>5. HeldInv'
    <3>1. ASSUME NEW i \in Slot, g_mounts'[i].used PROVE g_mounts'[i].drv # NULL
      <4>1. g_mounts[i].used => g_mounts[i].drv # NULL
        BY <1>t DEF HeldInv
      <4>2. g_mounts[i].used /\ g_mounts'[i].drv = g_mounts[i].drv
        BY <2>3, <3>1
      <4> QED
        BY <4>1, <4>2
    <3>2. ASSUME NEW q \in Proc, pc'[q] \in Pinning PROVE g_mounts'[call'[q].slot].used
      <4>1. q # p /\ pc[q] \in Pinning /\ call'[q].slot = call[q].slot /\ call[q].slot \in Slot
        BY <1>1, <1>2, <1>t, <3>2 DEF VfsType, Call
      <4>2. call[q].slot # s /\ g_mounts[call[q].slot].used
        BY <1>t, <2>4, <4>1 DEF Calls, HeldInv
      <4> QED
        BY <2>3, <4>1, <4>2
    <3>3. ASSUME NEW q \in Proc, file'[q] # NULL
          PROVE  g_mounts'[file'[q].mnt].used /\ g_mounts'[file'[q].mnt].priv = file'[q].sb
      <4>1. file'[q] = file[q] /\ file[q] \in Handle
        BY <1>0, <1>t, <3>3 DEF VfsType
      <4>2. file[q].mnt \in Slot /\ file[q].mnt # s
        BY <2>4, <3>3, <4>1 DEF Holds, Handle
      <4>3. g_mounts[file[q].mnt].used /\ g_mounts[file[q].mnt].priv = file[q].sb
        BY <1>t, <3>3, <4>1 DEF HeldInv
      <4> QED
        BY <2>3, <4>1, <4>2, <4>3
    <3>4. \A q \in Proc : pc'[q] # "fault"
      BY <1>1, <1>2, <1>t DEF HeldInv
    <3> QED
      BY <3>1, <3>2, <3>3, <3>4 DEF HeldInv
  <2>6. LeavingInv'
    <3>1. \A q \in Proc : call[q].slot \in Slot
      BY <1>t DEF VfsType, Call
    <3>2. \A q \in Proc \ {p} : pc'[q] \in Leaving =>
            /\ ~g_mounts[call[q].slot].used /\ g_mounts[call[q].slot].drv # NULL
            /\ call'[q].slot = call[q].slot /\ call[q].slot # s
      BY <1>1, <1>t, <2>1 DEF LeavingInv
    <3>3. ~g_mounts'[s].used /\ g_mounts'[s].drv # NULL
      BY <1>t, <2>1, <2>3 DEF HeldInv
    <3> QED
      BY <1>1, <1>t, <2>2, <2>3, <3>1, <3>2, <3>3 DEF LeavingInv
  <2> QED
    BY <1>3, <1>4, <2>3, <2>5, <2>6 DEF PinInv
<1>6. ASSUME pc[p] \in Leaving, pc'[p] \in Leaving \cup {"idle"},
             pc'[p] \in Leaving => call'[p] = call[p],
             \A i \in Slot : g_mounts'[i].open_count = g_mounts[i].open_count,
             \A i \in Slot \ {call[p].slot} : g_mounts'[i] = g_mounts[i],
             g_mounts'[call[p].slot].used => /\ g_mounts'[call[p].slot].drv # NULL
                                             /\ pc'[p] \notin Leaving,
             pc'[p] \in Leaving => g_mounts'[call[p].slot].drv # NULL
      PROVE  PinInv'
  <2> DEFINE s == call[p].slot
  <2>1. /\ s \in Slot /\ ~g_mounts[s].used
        /\ \A q \in Proc \ {p} : pc[q] \in Leaving => call[q].slot # s
    BY <1>6, <1>t DEF VfsType, Call, LeavingInv
  <2> HIDE DEF s
  <2>2. \A q \in Proc : /\ call[q].slot \in Slot
                        /\ file[q] # NULL => file[q].mnt \in Slot
    BY <1>t DEF VfsType, Call, Handle
  <2>3. HeldInv'
    <3>1. \A i \in Slot : g_mounts'[i].used => g_mounts'[i].drv # NULL
      BY <1>6, <1>t, <2>1 DEF HeldInv, s
    <3>2. ASSUME NEW q \in Proc, pc'[q] \in Pinning PROVE g_mounts'[call'[q].slot].used
      <4>1. q # p /\ pc[q] \in Pinning /\ call'[q].slot = call[q].slot
        BY <1>1, <1>2, <3>2
      <4>2. g_mounts[call[q].slot].used /\ call[q].slot # s
        BY <1>t, <2>1, <4>1 DEF HeldInv
      <4> QED
        BY <1>6, <2>2, <4>1, <4>2 DEF s
    <3>3. ASSUME NEW q \in Proc, file'[q] # NULL
          PROVE  g_mounts'[file'[q].mnt].used /\ g_mounts'[file'[q].mnt].priv = file'[q].sb
      <4>1. g_mounts[file[q].mnt].used /\ g_mounts[file[q].mnt].priv = file[q].sb
        BY <1>0, <1>t, <3>3 DEF HeldInv
      <4>2. file[q].mnt # s /\ file[q].mnt \in Slot
        BY <1>0, <2>1, <2>2, <3>3, <4>1
      <4> QED
        BY <1>0, <1>6, <4>1, <4>2 DEF s
    <3>4. \A q \in Proc : pc'[q] # "fault"
      BY <1>1, <1>2, <1>t DEF HeldInv
    <3> QED
      BY <3>1, <3>2, <3>3, <3>4 DEF HeldInv
  <2>4. LeavingInv'
    <3>1. ASSUME NEW q \in Proc, q # p, pc'[q] \in Leaving
          PROVE  /\ ~g_mounts'[call'[q].slot].used /\ g_mounts'[call'[q].slot].drv # NULL
                 /\ call'[q].slot = call[q].slot /\ call[q].slot # s
      <4>1. pc[q] \in Leaving /\ call'[q] = call[q]
        BY <1>1, <3>1
      <4>2. call[q].slot # s /\ ~g_mounts[call[q].slot].used /\ g_mounts[call[q].slot].drv # NULL
        BY <1>t, <2>1, <3>1, <4>1 DEF LeavingInv
      <4> QED
        BY <1>6, <2>2, <4>1, <4>2 DEF s
    <3>2. pc'[p] \in Leaving => /\ ~g_mounts'[call'[p].slot].used
                                /\ g_mounts'[call'[p].slot].drv # NULL /\ call'[p].slot = s
      BY <1>6 DEF s
    <3>3. ASSUME NEW q \in Proc, NEW r \in Proc \ {q}, q # p, r # p,
                 pc'[q] \in Leaving, pc'[r] \in Leaving
          PROVE  call'[r].slot # call'[q].slot
      BY <1>1, <1>t, <3>3 DEF LeavingInv
    <3> QED
      BY <3>1, <3>2, <3>3 DEF LeavingInv
  <2> QED
    BY <1>3, <1>4, <1>6, <2>3, <2>4 DEF PinInv
<1>s. call[p].slot \in Slot /\ g_mounts[call[p].slot] \in Mount
  BY <1>t DEF VfsType, Call
<1>7. CASE driver_unmount(p)
  <2>1. g_mounts[call[p].slot].drv # NULL /\ ~g_mounts[call[p].slot].used
    BY <1>7, <1>t DEF driver_unmount, LeavingInv, Leaving
  <2>2. /\ pc[p] \in Leaving /\ pc'[p] \in Leaving /\ call' = call
        /\ g_mounts' = g_mounts \/ g_mounts' = [g_mounts EXCEPT ![call[p].slot].priv = NULL]
    BY <1>7, <1>t, <2>1 DEF driver_unmount, Goto, Leaving, VfsType
  <2>3. /\ \A i \in Slot : g_mounts'[i].open_count = g_mounts[i].open_count
        /\ \A i \in Slot \ {call[p].slot} : g_mounts'[i] = g_mounts[i]
        /\ g_mounts'[call[p].slot].used = g_mounts[call[p].slot].used
        /\ g_mounts'[call[p].slot].drv = g_mounts[call[p].slot].drv
    BY <1>s, <1>t, <2>2 DEF VfsType, Mount
  <2> QED
    BY <1>6, <2>1, <2>2, <2>3
<1>8. CASE unmount_fail(p)
  <2>1. g_mounts[call[p].slot].drv # NULL /\ pc[p] \in Leaving
    BY <1>8, <1>t DEF unmount_fail, LeavingInv, Leaving
  <2>2. /\ pc'[p] = "idle" /\ "idle" \notin Leaving
        /\ g_mounts' = [g_mounts EXCEPT ![call[p].slot].used = TRUE]
    BY <1>8, <1>t DEF unmount_fail, Return, Goto, Leaving, VfsType
  <2>3. /\ \A i \in Slot : g_mounts'[i].open_count = g_mounts[i].open_count
        /\ \A i \in Slot \ {call[p].slot} : g_mounts'[i] = g_mounts[i]
        /\ g_mounts'[call[p].slot].drv = g_mounts[call[p].slot].drv
    BY <1>s, <1>t, <2>2 DEF VfsType, Mount
  <2> QED
    BY <1>6, <2>1, <2>2, <2>3
<1>9. CASE unmount_done(p)
  <2>1. ~g_mounts[call[p].slot].used /\ pc[p] \in Leaving
    BY <1>9, <1>t DEF unmount_done, LeavingInv, Leaving
  <2>2. /\ pc'[p] = "idle" /\ "idle" \notin Leaving
        /\ g_mounts' = [g_mounts EXCEPT ![call[p].slot] =
                         [g_mounts[call[p].slot] EXCEPT !.drv = NULL, !.priv = NULL]]
    BY <1>9, <1>s, <1>t DEF unmount_done, Return, Goto, Leaving, VfsType
  <2>3. /\ \A i \in Slot : g_mounts'[i].open_count = g_mounts[i].open_count
        /\ \A i \in Slot \ {call[p].slot} : g_mounts'[i] = g_mounts[i]
        /\ g_mounts'[call[p].slot].used = g_mounts[call[p].slot].used
    BY <1>s, <1>t, <2>2 DEF VfsType, Mount
  <2> QED
    BY <1>6, <2>1, <2>2, <2>3
<1> QED
  BY <1>5, <1>7, <1>8, <1>9

\* A step of a call changes open_count by its own pins, and what it pins is used.
LEMMA CallStep ==
  ASSUME IsFiniteSet(Proc), PinInv, VfsType', NEW p \in Proc, booted, booted',
         \A q \in Proc \ {p} : pc'[q] = pc[q] /\ call'[q] = call[q] /\ file'[q] = file[q],
         \A i \in Slot : /\ g_mounts'[i].used = g_mounts[i].used
                         /\ g_mounts'[i].drv = g_mounts[i].drv
                         /\ g_mounts'[i].priv = g_mounts[i].priv
                         /\ g_mounts'[i].open_count
                              = g_mounts[i].open_count - Pins(p, i) + Pins(p, i)',
         pc'[p] \notin {"mounting", "mount_fail", "fault"} \cup Leaving,
         pc'[p] \in Pinning => g_mounts[call'[p].slot].used,
         file'[p] # NULL => /\ g_mounts[file'[p].mnt].used
                            /\ g_mounts[file'[p].mnt].priv = file'[p].sb,
         pc'[p] \in {"resolve", "pinned"} /\ call'[p].op = "open" => file'[p] = NULL
  PROVE  PinInv'
<1>t. VfsType /\ BootInv /\ HeldInv /\ LeavingInv /\ PinsExact /\ OpeningInv
  BY DEF PinInv
<1>1. PinsExact'
  BY <1>t, PinsStep
<1>2. BootInv' /\ OpeningInv'
  BY <1>t DEF BootInv, OpeningInv
<1>3. \A q \in Proc : /\ call[q].slot \in Slot /\ call'[q].slot \in Slot
                      /\ file[q] # NULL => file[q].mnt \in Slot
                      /\ file'[q] # NULL => file'[q].mnt \in Slot
  BY <1>t DEF VfsType, Call, Handle
<1>4. HeldInv'
  <2>1. \A i \in Slot : g_mounts'[i].used => g_mounts'[i].drv # NULL
    BY <1>t DEF HeldInv
  <2>2. ASSUME NEW q \in Proc, pc'[q] \in Pinning PROVE g_mounts'[call'[q].slot].used
    BY <1>3, <1>t, <2>2 DEF HeldInv
  <2>3. ASSUME NEW q \in Proc, file'[q] # NULL
        PROVE  g_mounts'[file'[q].mnt].used /\ g_mounts'[file'[q].mnt].priv = file'[q].sb
    BY <1>3, <1>t, <2>3 DEF HeldInv
  <2>4. \A q \in Proc : pc'[q] # "fault"
    BY <1>t DEF HeldInv
  <2> QED
    BY <2>1, <2>2, <2>3, <2>4 DEF HeldInv
<1>5. LeavingInv'
  BY <1>3, <1>t DEF LeavingInv
<1> QED
  BY <1>1, <1>2, <1>4, <1>5 DEF PinInv

\* The steps of the calls with a path, error paths included.
LEMMA CallPin ==
  ASSUME IsFiniteSet(Proc), PinInv, VfsType', NEW p \in Proc,
         \/ \E o \in {"open", "stat", "chdir"}, path \in Paths : vfs_call(p, o, path)
         \/ vfs_locate(p) \/ driver_call(p) \/ vfs_unpin(p) \/ chdir_set(p) \/ vfs_close(p)
  PROVE  PinInv'
<1>t. VfsType /\ BootInv /\ HeldInv /\ LeavingInv /\ PinsExact /\ OpeningInv
  BY DEF PinInv
<1>0. booted /\ booted'
  BY <1>t DEF vfs_call, vfs_locate, driver_call, vfs_unpin, chdir_set, vfs_close, BootInv
<1>1. /\ \A q \in Proc \ {p} : pc'[q] = pc[q] /\ call'[q] = call[q] /\ file'[q] = file[q]
      /\ call[p].slot \in Slot /\ call[p] \in Call
      /\ file[p] # NULL => file[p] \in Handle /\ file[p].mnt \in Slot
  BY <1>t DEF vfs_call, vfs_locate, driver_call, vfs_unpin, chdir_set, vfs_close, VfsType,
     Return, Goto, Call, Handle
<1>2. \A i \in Slot : g_mounts[i].open_count \in Int /\ Pins(p, i) \in Int
  BY <1>t DEF VfsType, Mount, Pins
<1>h. file[p] # NULL => g_mounts[file[p].mnt].used /\ g_mounts[file[p].mnt].priv = file[p].sb
  BY <1>t DEF HeldInv
<1>3. ASSUME NEW o \in {"open", "stat", "chdir"}, NEW path \in Paths, vfs_call(p, o, path)
      PROVE  PinInv'
  <2>1. /\ pc[p] = "idle" /\ pc'[p] = "resolve" /\ g_mounts' = g_mounts /\ file' = file
        /\ call'[p].op = o /\ (o = "open" => file[p] = NULL)
    BY <1>1, <1>3, <1>t DEF vfs_call, Goto, VfsType, table, Call
  <2>2. \A i \in Slot : Pins(p, i)' = Pins(p, i)
    BY <2>1 DEF Pins, Holds, Calls, Pinning
  <2> QED
    BY <1>0, <1>1, <1>2, <1>h, <2>1, <2>2, CallStep DEF Leaving, Pinning
<1>4. CASE vfs_locate(p)
  <2> DEFINE s == vfs_resolve(call[p].norm)
  <2>1. s \in Slot \cup {NULL} /\ (s # NULL => g_mounts[s].used)
    <3>1. call[p].norm \in Seq(STRING)
      BY <1>1 DEF Call, Normal
    <3>2. s \in Slot \cup {NULL} /\ BestOf(s, NMounts, call[p].norm)
      BY <1>t, <3>1, TypePoints, ResolveBest
    <3> QED
      BY <3>2 DEF BestOf, Above
  <2>2. pc[p] = "resolve" /\ file' = file
    BY <1>4 DEF vfs_locate
  <2>3. CASE s = NULL
    <3>1. pc'[p] = "idle" /\ g_mounts' = g_mounts
      BY <1>4, <1>t, <2>3 DEF vfs_locate, Return, Goto, VfsType
    <3>2. \A i \in Slot : Pins(p, i)' = Pins(p, i)
      BY <2>2, <3>1 DEF Pins, Holds, Calls, Pinning
    <3> QED
      BY <1>0, <1>1, <1>2, <1>h, <2>2, <3>1, <3>2, CallStep DEF Leaving, Pinning
  <2>4. CASE s # NULL
    <3>1. /\ g_mounts' = [g_mounts EXCEPT ![s].open_count = g_mounts[s].open_count + 1]
          /\ call' = [call EXCEPT ![p].slot = s]
          /\ Goto(p, "pinned")
      BY <1>4, <2>4 DEF vfs_locate
    <3> HIDE DEF s
    <3>2. pc'[p] = "pinned" /\ call'[p].slot = s /\ call'[p].op = call[p].op /\ s \in Slot
      BY <1>1, <1>t, <2>1, <2>4, <3>1 DEF Goto, VfsType, Call
    <3>3. \A i \in Slot : /\ g_mounts'[i].used = g_mounts[i].used
                          /\ g_mounts'[i].drv = g_mounts[i].drv
                          /\ g_mounts'[i].priv = g_mounts[i].priv
                          /\ g_mounts'[i].open_count
                               = g_mounts[i].open_count + (IF i = s THEN 1 ELSE 0)
      BY <1>2, <1>t, <3>1, <3>2 DEF VfsType, Mount
    <3>4. \A i \in Slot : Pins(p, i)' = Pins(p, i) + (IF i = s THEN 1 ELSE 0)
      BY <2>2, <3>2 DEF Pins, Holds, Calls, Pinning
    <3>5. \A i \in Slot : g_mounts'[i].open_count
                            = g_mounts[i].open_count - Pins(p, i) + Pins(p, i)'
      BY <1>2, <3>3, <3>4
    <3>6. call'[p].op = "open" => file'[p] = NULL
      BY <1>t, <2>2, <3>2 DEF OpeningInv
    <3> QED
      BY <1>0, <1>1, <1>h, <2>1, <2>2, <2>4, <3>2, <3>3, <3>5, <3>6, CallStep
         DEF Leaving, Pinning
  <2> QED
    BY <2>3, <2>4
<1>5. CASE driver_call(p)
  <2> DEFINE s == call[p].slot
  <2>1. /\ pc[p] = "pinned" /\ g_mounts' = g_mounts /\ g_mounts[s].used
        /\ g_mounts[s].drv # NULL
    BY <1>1, <1>5, <1>t DEF driver_call, table, HeldInv, Pinning
  <2>2. CASE /\ call[p].op = "open" /\ pc'[p] = "idle"
             /\ file' = [file EXCEPT ![p] = [mnt |-> s, sb |-> g_mounts[s].priv]]
    <3>1. file[p] = NULL
      BY <1>t, <2>1, <2>2 DEF OpeningInv
    <3> HIDE DEF s
    <3>2. /\ file'[p].mnt = s /\ file'[p].sb = g_mounts[s].priv
          /\ file'[p] # NULL
      <4>1. file'[p] = [mnt |-> s, sb |-> g_mounts[s].priv]
        BY <1>t, <2>2 DEF VfsType
      <4>2. g_mounts[s].priv # NULL
        BY <1>5, <1>t, <2>1, <2>2 DEF driver_call, after_failure, Goto, VfsType, s
      <4>3. g_mounts[s].priv \in 1 .. MaxSb
        BY <1>1, <1>t, <4>2 DEF VfsType, Mount, s
      <4>4. file'[p] \in [mnt : Slot, sb : 1 .. MaxSb]
        BY <1>1, <4>1, <4>3 DEF s
      <4> QED
        BY <4>1, <4>4, VfsAssumption
    <3>3. \A i \in Slot : Pins(p, i)' = Pins(p, i)
      <4>1. \A i \in Slot : (Holds(p, i)' <=> i = s) /\ ~Holds(p, i)
        BY <3>1, <3>2 DEF Holds
      <4>2. \A i \in Slot : ~Calls(p, i)' /\ (Calls(p, i) <=> i = s)
        BY <2>1, <2>2 DEF Calls, Pinning, s
      <4> QED
        BY <4>1, <4>2 DEF Pins
    <3> QED
      BY <1>0, <1>1, <1>2, <2>1, <2>2, <3>2, <3>3, CallStep DEF Leaving, Pinning
  <2>3. CASE pc'[p] = "unpin" /\ file' = file /\ call'[p].slot = s
    <3>1. \A i \in Slot : Pins(p, i)' = Pins(p, i)
      BY <2>1, <2>3 DEF Pins, Holds, Calls, Pinning
    <3> QED
      BY <1>0, <1>1, <1>2, <1>h, <2>1, <2>3, <3>1, CallStep DEF Leaving, Pinning
  <2> QED
    BY <1>1, <1>5, <1>t, <2>1, <2>2, <2>3 DEF driver_call, VfsType, Call, Return, Goto,
       after_failure
<1>6. CASE vfs_unpin(p)
  <2> DEFINE s == call[p].slot
  <2>1. /\ pc[p] = "unpin" /\ file' = file /\ s \in Slot
        /\ pc'[p] \in {"idle", "setcwd"}
        /\ g_mounts' = [g_mounts EXCEPT ![s].open_count = g_mounts[s].open_count - 1]
    BY <1>1, <1>6, <1>t DEF vfs_unpin, VfsType, Return, Goto
  <2>2. \A i \in Slot : Pins(p, i)' = Pins(p, i) - (IF i = s THEN 1 ELSE 0)
    BY <2>1 DEF Pins, Holds, Calls, Pinning
  <2>3. \A i \in Slot : /\ g_mounts'[i].used = g_mounts[i].used
                        /\ g_mounts'[i].drv = g_mounts[i].drv
                        /\ g_mounts'[i].priv = g_mounts[i].priv
                        /\ g_mounts'[i].open_count
                             = g_mounts[i].open_count - (IF i = s THEN 1 ELSE 0)
    BY <1>2, <1>t, <2>1 DEF VfsType, Mount
  <2>4. \A i \in Slot : g_mounts'[i].open_count
                          = g_mounts[i].open_count - Pins(p, i) + Pins(p, i)'
    BY <1>2, <2>2, <2>3
  <2> QED
    BY <1>0, <1>1, <1>h, <2>1, <2>3, <2>4, CallStep DEF Leaving, Pinning
<1>7. CASE chdir_set(p)
  <2>1. pc[p] = "setcwd" /\ pc'[p] = "idle" /\ g_mounts' = g_mounts /\ file' = file
    BY <1>7, <1>t DEF chdir_set, VfsType, Return, Goto
  <2>2. \A i \in Slot : Pins(p, i)' = Pins(p, i)
    BY <2>1 DEF Pins, Holds, Calls, Pinning
  <2> QED
    BY <1>0, <1>1, <1>2, <1>h, <2>1, <2>2, CallStep DEF Leaving, Pinning
<1>8. CASE vfs_close(p)
  <2>1. /\ pc[p] = "idle" /\ pc'[p] = "unpin" /\ g_mounts' = g_mounts
        /\ file[p] # NULL /\ file'[p] = NULL /\ call'[p].slot = file[p].mnt
    BY <1>1, <1>8, <1>t DEF vfs_close, VfsType, Goto, table, Call
  <2>2. \A i \in Slot : Pins(p, i)' = Pins(p, i)
    BY <2>1 DEF Pins, Holds, Calls, Pinning
  <2> QED
    BY <1>0, <1>1, <1>2, <1>h, <2>1, <2>2, CallStep DEF Leaving, Pinning
<1> QED
  BY <1>3, <1>4, <1>5, <1>6, <1>7, <1>8

\* Every step keeps the pins.
LEMMA NextPin ==
  ASSUME IsFiniteSet(Proc), Mounters = {}, PinInv, [Next]_vars PROVE PinInv'
<1>0. VfsType'
  BY NextType DEF PinInv
<1>a. ASSUME UNCHANGED <<booted, g_mounts, pc, call, file>> PROVE PinInv'
  <2>1. PinsExact'
    BY <1>a, Zenon DEF PinInv, PinsExact
  <2>2. BootInv'
    BY <1>a, Zenon DEF PinInv, BootInv
  <2>3. HeldInv'
    BY <1>a, Zenon DEF PinInv, HeldInv
  <2>4. LeavingInv'
    BY <1>a, Zenon DEF PinInv, LeavingInv
  <2>5. OpeningInv'
    BY <1>a, Zenon DEF PinInv, OpeningInv
  <2> QED
    BY <1>0, <2>1, <2>2, <2>3, <2>4, <2>5 DEF PinInv
<1>1. CASE UNCHANGED vars
  BY <1>1, <1>a DEF vars
<1>2. ASSUME NEW d \in Driver, vfs_register_driver(d) PROVE PinInv'
  BY <1>2, <1>a DEF vfs_register_driver, table
<1>3. CASE boot_done
  <2>1. /\ ~booted /\ pc[Boot] = "idle" /\ booted'
        /\ UNCHANGED <<g_mounts, pc, call, file>>
    BY <1>3 DEF boot_done, table
  <2>2. BootInv'
    BY <2>1 DEF PinInv, BootInv
  <2>3. PinsExact' /\ HeldInv' /\ LeavingInv' /\ OpeningInv'
    BY <2>1 DEF PinInv, PinsExact, HeldInv, LeavingInv, OpeningInv
  <2> QED
    BY <1>0, <2>2, <2>3 DEF PinInv
<1> QED
  BY <1>0, <1>1, <1>2, <1>3, MountPin, UnmountPin, CallPin DEF Next

\* The pins count the handles and the calls in flight on every mount, whatever
\* fails, and the mount under each of those keeps its superblock and its driver:
\* for every number of callers and mounts, as long as the kernel mounts only while
\* it boots, which is all it does.
THEOREM MountsCorrect ==
  ASSUME IsFiniteSet(Proc), Mounters = {} PROVE Spec => []MountsPinned
<1>1. PinInv => MountsPinned
  <2> SUFFICES ASSUME PinInv PROVE MountsPinned
    OBVIOUS
  <2>t. VfsType /\ PinsExact /\ HeldInv
    BY DEF PinInv
  <2>1. \A i \in Slot : g_mounts[i].open_count \in 0 .. Cardinality(Proc) * 2
    <3> SUFFICES ASSUME NEW i \in Slot
                 PROVE  g_mounts[i].open_count \in 0 .. Cardinality(Proc) * 2
      OBVIOUS
    <3> DEFINE S == {q \in Proc : Holds(q, i)}
               T == {q \in Proc : Calls(q, i)}
    <3>1. g_mounts[i].open_count = Cardinality(S) + Cardinality(T)
      BY <2>t DEF PinsExact, Holds, Calls, Pinning
    <3>2. S \subseteq Proc /\ T \subseteq Proc
      OBVIOUS
    <3> HIDE DEF S, T
    <3>3. /\ Cardinality(S) \in Nat /\ Cardinality(S) <= Cardinality(Proc)
          /\ Cardinality(T) \in Nat /\ Cardinality(T) <= Cardinality(Proc)
          /\ Cardinality(Proc) \in Nat
      BY <3>2, FS_Subset, FS_CardinalityType
    <3> QED
      BY <3>1, <3>3
  <2>2. TypeOK
    <3>1. ASSUME NEW i \in Slot
          PROVE  g_mounts[i] \in [used : BOOLEAN, open_count : 0 .. Cardinality(Proc) * 2,
                                  mountpoint : Points \cup {<<>>}, drv : Driver \cup {NULL},
                                  priv : 1 .. MaxSb \cup {NULL}]
      <4> DEFINE C == 0 .. Cardinality(Proc) * 2
      <4>1. g_mounts[i] \in Mount /\ g_mounts[i].open_count \in C
        BY <2>1, <2>t DEF VfsType
      <4> HIDE DEF C
      <4>2. g_mounts[i] \in [used : BOOLEAN, open_count : C, mountpoint : Point,
                             drv : Driver \cup {NULL}, priv : 1 .. MaxSb \cup {NULL}]
        BY <4>1 DEF Mount
      <4> QED
        BY <4>2 DEF Point, C
    <3>2. ASSUME NEW p \in Proc
          PROVE  /\ pc[p] \in Locs
                 /\ call[p].op \in {"none", "open", "stat", "chdir", "close"}
                 /\ call[p].slot \in Slot /\ call[p].ok \in BOOLEAN
                 /\ file[p] = NULL \/ file[p] \in [mnt : Slot, sb : 1 .. MaxSb]
      BY <2>t DEF VfsType, Call, Op, Handle
    <3> QED
      BY <2>t, <3>1, <3>2 DEF TypeOK, VfsType
  <2>3. HandlesValid
    BY <2>t DEF HeldInv, HandlesValid
  <2> QED
    BY <2>t, <2>2, <2>3 DEF MountsPinned
<1>2. Init => PinInv
  BY InitPin
<1>3. PinInv /\ [Next]_vars => PinInv'
  BY NextPin
<1> QED
  BY <1>1, <1>2, <1>3, PTL DEF Spec

=============================================================================
