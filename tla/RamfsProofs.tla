---------------------------- MODULE RamfsProofs ----------------------------
(***************************************************************************)
(* Proofs about the memory file system, for any number of nodes, any names *)
(* and any callers: nobody's node is freed, files read as they were        *)
(* written, and listings are complete.                                     *)
(***************************************************************************)
EXTENDS Ramfs, Iteration, SequenceTheorems, FiniteSetTheorems, TLAPS

-----------------------------------------------------------------------------
(* Trees.                                                                  *)

Byte == Nat \cup {Junk}

NodeRec == [name : Nat, parent : NodeId \cup {NULL}, is_dir : BOOLEAN, child : Seq(NodeId),
            refs : Int, size : Nat, data : Seq(Byte)]

Tree == UNION {[S -> NodeRec] : S \in SUBSET NodeId}

\* A child is allocated, is not the root, and has one parent.
Parented(t) ==
  \A d \in DOMAIN t : \A k \in 1 .. Len(t[d].child) :
    t[d].child[k] \in DOMAIN t \ {Root} /\ t[t[d].child[k]].parent = d

\* Children are sorted by name, no name twice.
Sorted(t) ==
  \A d \in DOMAIN t : \A j, k \in 1 .. Len(t[d].child) :
    j < k => t[t[d].child[j]].name < t[t[d].child[k]].name

\* Every node but the root is in the list of its parent.
Linked(t) ==
  \A n \in DOMAIN t \ {Root} :
    /\ t[n].parent \in DOMAIN t
    /\ \E k \in 1 .. Len(t[t[n].parent].child) : t[t[n].parent].child[k] = n

Shape(t) ==
  /\ DOMAIN t # {} => Root \in DOMAIN t
  /\ Parented(t) /\ Sorted(t) /\ Linked(t)

\* A function into nodes is a tree.
LEMMA TreeIntro ==
  ASSUME NEW S, S \subseteq NodeId, NEW t \in [S -> NodeRec]
  PROVE  t \in Tree /\ DOMAIN t = S
BY Zenon DEF Tree

\* And a tree is such a function.
LEMMA TreeElim ==
  ASSUME NEW t \in Tree
  PROVE  DOMAIN t \subseteq NodeId /\ t \in [DOMAIN t -> NodeRec]
<1>1. PICK S \in SUBSET NodeId : t \in [S -> NodeRec]
  BY DEF Tree
<1>2. DOMAIN t = S
  BY <1>1
<1> QED
  BY <1>1, <1>2

\* The fields of a node.
LEMMA TreeNode ==
  ASSUME NEW t \in Tree, NEW n \in DOMAIN t
  PROVE  /\ n \in NodeId /\ n \in Nat /\ t[n] \in NodeRec
         /\ t[n].name \in Nat /\ t[n].parent \in NodeId \cup {NULL} /\ t[n].is_dir \in BOOLEAN
         /\ t[n].child \in Seq(NodeId) /\ Len(t[n].child) \in Nat
         /\ DOMAIN t[n].child = 1 .. Len(t[n].child)
         /\ t[n].refs \in Int /\ t[n].size \in Nat /\ t[n].data \in Seq(Byte)
<1>1. n \in NodeId /\ t[n] \in NodeRec
  BY TreeElim
<1>2. n \in Nat
  BY <1>1, RamfsAssumption DEF NodeId
<1>3. /\ t[n].name \in Nat /\ t[n].parent \in NodeId \cup {NULL} /\ t[n].is_dir \in BOOLEAN
      /\ t[n].child \in Seq(NodeId)
      /\ t[n].refs \in Int /\ t[n].size \in Nat /\ t[n].data \in Seq(Byte)
  BY <1>1 DEF NodeRec
<1>4. Len(t[n].child) \in Nat /\ DOMAIN t[n].child = 1 .. Len(t[n].child)
  BY <1>3
<1> QED
  BY <1>1, <1>2, <1>3, <1>4

\* NULL is no node.
LEMMA NullNoNode == NULL \notin NodeId /\ Root \in NodeId
BY RamfsAssumption DEF NodeId, Root

\* What is new is a directory or a file, empty and free.
LEMMA NewNodeType ==
  ASSUME NEW nm \in Nat, NEW up \in NodeId \cup {NULL}, NEW b \in BOOLEAN
  PROVE  /\ NewNode(nm, up, b) \in NodeRec
         /\ NewNode(nm, up, b).name = nm /\ NewNode(nm, up, b).parent = up
         /\ NewNode(nm, up, b).is_dir = b /\ NewNode(nm, up, b).child = <<>>
         /\ NewNode(nm, up, b).refs = 0 /\ NewNode(nm, up, b).size = 0
         /\ NewNode(nm, up, b).data = <<>>
<1>1. <<>> \in Seq(NodeId) /\ <<>> \in Seq(Byte)
  BY EmptySeq
<1> QED
  BY <1>1 DEF NewNode, NodeRec

\* ramfs_child_find finds the child of that name, if there is one.
LEMMA FindChild ==
  ASSUME node \in Tree, Shape(node), NEW d \in DOMAIN node, NEW nm \in Nat
  PROVE  \/ /\ ramfs_child_find(d, nm) = NULL
            /\ \A k \in 1 .. Len(node[d].child) : node[node[d].child[k]].name # nm
         \/ /\ ramfs_child_find(d, nm) \in DOMAIN node
            /\ ramfs_child_find(d, nm) # NULL
            /\ \E k \in 1 .. Len(node[d].child) : ramfs_child_find(d, nm) = node[d].child[k]
<1> DEFINE ch == node[d].child
           same == {k \in DOMAIN ch : node[ch[k]].name = nm}
           m == CHOOSE k \in same : \A j \in same : k <= j
<1>1. DOMAIN ch = 1 .. Len(ch) /\ Len(ch) \in Nat
  BY TreeNode
<1>2. ramfs_child_find(d, nm) = IF same = {} THEN NULL ELSE ch[m]
  BY DEF ramfs_child_find
<1>3. CASE same = {}
  BY <1>1, <1>2, <1>3
<1>4. CASE same # {}
  <2>1. same \subseteq Nat
    BY <1>1
  <2>2. \E k \in same : \A j \in same : k <= j
    <3> HIDE DEF same
    <3> QED
      BY <1>4, <2>1, LeastNatural
  <2>3. m \in same
    <3> HIDE DEF same
    <3> QED
      BY <2>2, Zenon
  <2>4. m \in 1 .. Len(ch)
    BY <1>1, <2>3
  <2> HIDE DEF m, same
  <2>5. ch[m] \in DOMAIN node
    BY <2>4 DEF Shape, Parented
  <2>6. ch[m] # NULL
    BY <2>5, TreeElim, NullNoNode
  <2> QED
    BY <1>2, <1>4, <2>4, <2>5, <2>6
<1> QED
  BY <1>3, <1>4

-----------------------------------------------------------------------------
(* Looking up a path.                                                      *)

Found == [rc : {"ok", "notdir", "noent"}, n : DOMAIN node]

\* One component leads from an allocated node to an allocated node.
LEMMA LookupStep ==
  ASSUME node \in Tree, Shape(node), NEW acc \in Found, NEW nm \in Nat
  PROVE  lookup_step(acc, nm) \in Found
<1>1. acc.n \in DOMAIN node
  BY DEF Found
<1> DEFINE c == ramfs_child_find(acc.n, nm)
<1>2. c = NULL \/ c \in DOMAIN node
  BY <1>1, FindChild
<1> HIDE DEF c
<1>3. lookup_step(acc, nm) = IF acc.rc # "ok" THEN acc
        ELSE IF ~node[acc.n].is_dir THEN [acc EXCEPT !.rc = "notdir"]
        ELSE IF c = NULL THEN [acc EXCEPT !.rc = "noent"] ELSE [acc EXCEPT !.n = c]
  BY DEF lookup_step, c
<1>4. /\ [acc EXCEPT !.rc = "notdir"] \in Found /\ [acc EXCEPT !.rc = "noent"] \in Found
      /\ c # NULL => [acc EXCEPT !.n = c] \in Found
  BY <1>1, <1>2 DEF Found
<1> QED
  BY <1>3, <1>4, Zenon

\* So does a path, and NOENT comes with the node it got to.
LEMMA LookupFinds ==
  ASSUME node \in Tree, Shape(node), Mounted, NEW path \in Seq(Nat)
  PROVE  ramfs_lookup(path) \in Found
<1> DEFINE A == Found
           n == Len(path)
           b == [rc |-> "ok", n |-> Root]
           F == [k \in 1 .. n |-> [a \in A |-> lookup_step(a, path[k])]]
           Loop(f) == [k \in 0 .. n |-> IF k = 0 THEN b ELSE lookup_step(f[k - 1], path[k])]
           L == lookup_loop(path)
<1>1. n \in Nat /\ b \in A
  BY DEF Found, Mounted
<1>2. \A a \in A, k \in 1 .. n : lookup_step(a, path[k]) \in A
  <2> SUFFICES ASSUME NEW a \in A, NEW k \in 1 .. n PROVE lookup_step(a, path[k]) \in A
    OBVIOUS
  <2>1. path[k] \in Nat
    OBVIOUS
  <2> QED
    BY <2>1, LookupStep
<1>3. F \in Rounds(A, n)
  BY <1>2 DEF Rounds
<1>4. \A a \in A, k \in 1 .. n : F[k][a] = lookup_step(a, path[k])
  OBVIOUS
<1>a. L = CHOOSE f : f = Loop(f)
  BY DEF lookup_loop
<1>b. ramfs_lookup(path) = L[n]
  BY DEF ramfs_lookup
<1> HIDE DEF A, F, b, n, L
<1>5. PICK f \in [0 .. n -> A] : f[0] = b /\ \A k \in 1 .. n : f[k] = F[k][f[k - 1]]
  <2>1. n \in Nat
    BY <1>1
  <2>2. b \in A
    BY <1>1
  <2>3. Runs(A, n, F, b)
    BY <1>3, <2>1, <2>2, LoopRuns
  <2> QED
    BY <2>3 DEF Runs
<1>6. f = Loop(f)
  <2>1. ASSUME NEW k \in 0 .. n PROVE f[k] = Loop(f)[k]
    <3>1. CASE k = 0
      BY <1>1, <1>5, <3>1
    <3>2. CASE k # 0
      <4>1. k \in 1 .. n /\ k - 1 \in 0 .. n
        BY <1>1, <3>2
      <4>2. f[k] = lookup_step(f[k - 1], path[k])
        BY <1>4, <1>5, <4>1
      <4> QED
        BY <3>2, <4>2
    <3> QED
      BY <3>1, <3>2
  <2> QED
    BY <2>1
<1>7. L = Loop(L)
  BY <1>6, <1>a
<1> DEFINE G == {k \in Nat : L[k] \in A}
<1>8. 0 \in G
  BY <1>1, <1>7
<1>9. \A k \in 1 .. n : k - 1 \in G => k \in G
  <2> SUFFICES ASSUME NEW k \in 1 .. n, L[k - 1] \in A PROVE L[k] \in A
    BY <1>1
  <2>1. L[k] = lookup_step(L[k - 1], path[k])
    BY <1>1, <1>7
  <2> QED
    BY <1>2, <2>1
<1> HIDE DEF G
<1>10. \A k \in 0 .. n : k \in G
  BY <1>1, <1>8, <1>9, UpTo, Zenon
<1>11. n \in G
  BY <1>1, <1>10
<1> QED
  BY <1>b, <1>11 DEF G, A

\* The parts of a path.
LEMMA FrontLast ==
  ASSUME NEW path \in Seq(Nat), path # <<>>
  PROVE  Front(path) \in Seq(Nat) /\ Last(path) \in Nat
<1>1. Len(path) \in Nat \ {0}
  BY EmptySeq
<1>2. \A i \in 1 .. Len(path) - 1 : path[i] \in Nat
  BY <1>1
<1>3. SubSeq(path, 1, Len(path) - 1) \in Seq(Nat)
  BY <1>1, <1>2, SubSeqProperties
<1> QED
  BY <1>1, <1>3 DEF Front, Last

-----------------------------------------------------------------------------
(* Linking and unlinking.                                                  *)

\* In an ascending list the smaller ones are in front, and counted they give the place.
LEMMA SmallerInFront ==
  ASSUME NEW m \in Nat, NEW v \in [1 .. m -> Nat], NEW x \in Nat,
         \A i, j \in 1 .. m : i < j => v[i] < v[j],
         \A i \in 1 .. m : v[i] # x
  PROVE  /\ Cardinality({i \in 1 .. m : v[i] < x}) \in 0 .. m
         /\ \A i \in 1 .. m : IF i <= Cardinality({j \in 1 .. m : v[j] < x})
                              THEN v[i] < x ELSE x < v[i]
<1> DEFINE S == {i \in 1 .. m : v[i] < x}
           T == {i \in 1 .. m + 1 : i = m + 1 \/ x < v[i]}
<1>1. m + 1 \in T /\ T \subseteq Nat
  OBVIOUS
<1>2. PICK r \in T : \A i \in T : r <= i
  <2> HIDE DEF T
  <2> QED
    BY <1>1, LeastNatural
<1>3. r \in 1 .. m + 1 /\ (r = m + 1 \/ x < v[r])
  BY <1>2
<1>4. ASSUME NEW i \in 1 .. m, i < r PROVE v[i] < x
  <2>1. i \notin T
    BY <1>2, <1>3, <1>4
  <2> QED
    BY <2>1
<1>5. ASSUME NEW i \in 1 .. m, ~(i < r) PROVE x < v[i]
  <2>1. r \in 1 .. m /\ x < v[r] /\ v[r] \in Nat /\ v[i] \in Nat
    BY <1>3, <1>5
  <2>2. i = r \/ v[r] < v[i]
    BY <1>3, <1>5, <2>1
  <2> QED
    BY <2>1, <2>2
<1>6. S = 1 .. r - 1
  <2>1. ASSUME NEW i \in S PROVE i \in 1 .. r - 1
    <3>1. i \in 1 .. m /\ v[i] < x /\ v[i] \in Nat
      OBVIOUS
    <3>2. i < r
      BY <1>5, <3>1
    <3> QED
      BY <1>3, <3>1, <3>2
  <2>2. ASSUME NEW i \in 1 .. r - 1 PROVE i \in S
    <3>1. i \in 1 .. m /\ i < r
      BY <1>3
    <3> QED
      BY <1>4, <3>1
  <2> HIDE DEF S
  <2> QED
    BY <2>1, <2>2
<1>7. Cardinality(1 .. r - 1) = r - 1
  BY <1>3, FS_Interval
<1>8. Cardinality(S) = r - 1
  BY <1>6, <1>7
<1> HIDE DEF S, T
<1>9. ASSUME NEW i \in 1 .. m
      PROVE  IF i <= Cardinality(S) THEN v[i] < x ELSE x < v[i]
  <2>1. CASE i < r
    BY <1>3, <1>4, <1>8, <2>1
  <2>2. CASE ~(i < r)
    BY <1>3, <1>5, <1>8, <2>2
  <2> QED
    BY <2>1, <2>2
<1>10. Cardinality(S) \in 0 .. m
  BY <1>3, <1>8
<1> QED
  BY <1>9, <1>10 DEF S

\* The fields that make the tree.
SameTree(t, u) ==
  /\ DOMAIN u = DOMAIN t
  /\ \A n \in DOMAIN t : /\ u[n].name = t[n].name /\ u[n].parent = t[n].parent
                         /\ u[n].is_dir = t[n].is_dir /\ u[n].child = t[n].child

\* The others do not matter to its shape.
LEMMA SameShape ==
  ASSUME NEW t \in Tree, NEW u, SameTree(t, u), Shape(t) PROVE Shape(u)
<1>1. DOMAIN u # {} => Root \in DOMAIN u
  BY DEF SameTree, Shape
<1>2. Parented(u)
  <2> SUFFICES ASSUME NEW d \in DOMAIN u, NEW k \in 1 .. Len(u[d].child)
               PROVE  u[d].child[k] \in DOMAIN u \ {Root} /\ u[u[d].child[k]].parent = d
    BY DEF Parented
  <2>1. d \in DOMAIN t /\ k \in 1 .. Len(t[d].child) /\ u[d].child = t[d].child
    BY DEF SameTree
  <2>2. t[d].child[k] \in DOMAIN t \ {Root} /\ t[t[d].child[k]].parent = d
    BY <2>1 DEF Shape, Parented
  <2> QED
    BY <2>1, <2>2 DEF SameTree
<1>3. Sorted(u)
  <2> SUFFICES ASSUME NEW d \in DOMAIN u, NEW j \in 1 .. Len(u[d].child),
                      NEW k \in 1 .. Len(u[d].child), j < k
               PROVE  u[u[d].child[j]].name < u[u[d].child[k]].name
    BY DEF Sorted
  <2>1. /\ d \in DOMAIN t /\ u[d].child = t[d].child
        /\ j \in 1 .. Len(t[d].child) /\ k \in 1 .. Len(t[d].child)
    BY DEF SameTree
  <2>2. t[d].child[j] \in DOMAIN t /\ t[d].child[k] \in DOMAIN t
    BY <2>1 DEF Shape, Parented
  <2>3. t[t[d].child[j]].name < t[t[d].child[k]].name
    BY <2>1 DEF Shape, Sorted
  <2> QED
    BY <2>1, <2>2, <2>3 DEF SameTree
<1>4. Linked(u)
  <2> SUFFICES ASSUME NEW n \in DOMAIN u \ {Root}
               PROVE  /\ u[n].parent \in DOMAIN u
                      /\ \E k \in 1 .. Len(u[u[n].parent].child) : u[u[n].parent].child[k] = n
    BY DEF Linked
  <2>1. n \in DOMAIN t \ {Root} /\ u[n].parent = t[n].parent
    BY DEF SameTree
  <2>2. /\ t[n].parent \in DOMAIN t
        /\ \E k \in 1 .. Len(t[t[n].parent].child) : t[t[n].parent].child[k] = n
    BY <2>1 DEF Shape, Linked
  <2>3. u[t[n].parent].child = t[t[n].parent].child
    BY <2>2 DEF SameTree
  <2> QED
    BY <2>1, <2>2, <2>3 DEF SameTree
<1> QED
  BY <1>1, <1>2, <1>3, <1>4 DEF Shape

\* The tree with a new node below d, as ramfs_create_locked makes it.
With(t, d, n, nm, b) ==
  ramfs_child_link([x \in DOMAIN t \cup {n} |-> IF x = n THEN NewNode(nm, d, b) ELSE t[x]], d, n)

\* No child of d has that name.
NoChild(t, d, nm) == \A k \in 1 .. Len(t[d].child) : t[t[d].child[k]].name # nm

\* u is t with node n in the list of d, at its place there.
Grown(t, u, d, n, nm, b) ==
  /\ u \in Tree /\ DOMAIN u = DOMAIN t \cup {n}
  /\ u[n] = NewNode(nm, d, b)
  /\ \A x \in DOMAIN t \ {d} : u[x] = t[x]
  /\ \A x \in DOMAIN t :
       /\ u[x].name = t[x].name /\ u[x].parent = t[x].parent /\ u[x].is_dir = t[x].is_dir
       /\ u[x].refs = t[x].refs /\ u[x].size = t[x].size /\ u[x].data = t[x].data
  /\ \E p \in 1 .. Len(t[d].child) + 1 :
       /\ u[d].child = InsertAt(t[d].child, p, n)
       /\ \A i \in 1 .. Len(t[d].child) :
            IF i < p THEN t[t[d].child[i]].name < nm ELSE nm < t[t[d].child[i]].name

\* That is what linking does.
LEMMA LinkFields ==
  ASSUME NEW t \in Tree, Shape(t), NEW d \in DOMAIN t, NEW n \in NodeId \ DOMAIN t,
         NEW nm \in Nat, NEW b \in BOOLEAN, NoChild(t, d, nm)
  PROVE  Grown(t, With(t, d, n, nm, b), d, n, nm, b)
<1> DEFINE new == NewNode(nm, d, b)
           nd == [x \in DOMAIN t \cup {n} |-> IF x = n THEN new ELSE t[x]]
           ch == t[d].child
           m == Len(ch)
           v == [i \in 1 .. m |-> t[ch[i]].name]
           S == {j \in DOMAIN ch : nd[ch[j]].name < nd[n].name}
           p == Cardinality(S) + 1
           u == With(t, d, n, nm, b)
<1>1. m \in Nat /\ DOMAIN ch = 1 .. m /\ ch \in Seq(NodeId) /\ d \in NodeId /\ d # n
  BY TreeNode
<1>2. \A i \in 1 .. m : ch[i] \in DOMAIN t
  BY DEF Shape, Parented
<1>3. v \in [1 .. m -> Nat]
  BY <1>2, TreeNode
<1>4. /\ new \in NodeRec /\ new.name = nm
  BY <1>1, NewNodeType
<1> HIDE DEF new
<1>5. /\ nd \in [DOMAIN t \cup {n} -> NodeRec] /\ DOMAIN nd = DOMAIN t \cup {n}
      /\ nd[n] = new /\ \A x \in DOMAIN t : nd[x] = t[x]
  BY <1>4, TreeElim
<1>6. S = {i \in 1 .. m : v[i] < nm}
  <2>1. \A i \in 1 .. m : nd[ch[i]].name = v[i]
    BY <1>2, <1>5
  <2> HIDE DEF nd, v
  <2> QED
    BY <1>1, <1>4, <1>5, <2>1
<1>7. u = [nd EXCEPT ![d].child = InsertAt(ch, p, n)]
  <2>1. nd[d].child = ch
    BY <1>5
  <2> QED
    BY <2>1 DEF With, ramfs_child_link, new
<1>8. /\ Cardinality(S) \in 0 .. m
      /\ \A i \in 1 .. m : IF i <= Cardinality(S) THEN v[i] < nm ELSE nm < v[i]
  <2>1. \A i, j \in 1 .. m : i < j => v[i] < v[j]
    BY DEF Shape, Sorted
  <2>2. \A i \in 1 .. m : v[i] # nm
    BY DEF NoChild
  <2>3. m \in Nat
    BY <1>1
  <2> HIDE DEF v, m, S
  <2>4. /\ Cardinality({i \in 1 .. m : v[i] < nm}) \in 0 .. m
        /\ \A i \in 1 .. m : IF i <= Cardinality({j \in 1 .. m : v[j] < nm})
                             THEN v[i] < nm ELSE nm < v[i]
    BY <1>3, <2>1, <2>2, <2>3, SmallerInFront
  <2> QED
    BY <1>6, <2>4
<1>9. p \in 1 .. m + 1 /\ \A i \in 1 .. m : IF i < p THEN t[ch[i]].name < nm ELSE nm < t[ch[i]].name
  <2> DEFINE c == Cardinality(S)
  <2>1. \A i \in 1 .. m : i < c + 1 <=> i <= c
    <3> HIDE DEF c
    <3> QED
      BY <1>1, <1>8 DEF c
  <2>2. c + 1 \in 1 .. m + 1
    <3> HIDE DEF c
    <3> QED
      BY <1>1, <1>8 DEF c
  <2>3. \A i \in 1 .. m : IF i < p THEN v[i] < nm ELSE nm < v[i]
    <3> HIDE DEF v, m
    <3> QED
      BY <1>8, <2>1
  <2> QED
    BY <2>2, <2>3
<1>10. InsertAt(ch, p, n) \in Seq(NodeId)
  <2> HIDE DEF p, ch
  <2> QED
    BY <1>1, <1>9, InsertAtProperties DEF m
<1> HIDE DEF p, nd, u
<1>11. u \in [DOMAIN t \cup {n} -> NodeRec] /\ DOMAIN u = DOMAIN t \cup {n}
  <2>1. [nd[d] EXCEPT !.child = InsertAt(ch, p, n)] \in NodeRec
    BY <1>5, <1>10 DEF NodeRec
  <2> QED
    BY <1>5, <1>7, <2>1
<1>12. u \in Tree
  <2>1. DOMAIN t \cup {n} \subseteq NodeId
    BY TreeElim
  <2> QED
    BY <1>11, <2>1, TreeIntro
<1>13. u[n] = new /\ \A x \in DOMAIN t \ {d} : u[x] = t[x]
  BY <1>1, <1>5, <1>7
<1>14. u[d] = [t[d] EXCEPT !.child = InsertAt(ch, p, n)]
  BY <1>5, <1>7
<1>15. /\ u[d].name = t[d].name /\ u[d].parent = t[d].parent /\ u[d].is_dir = t[d].is_dir
       /\ u[d].refs = t[d].refs /\ u[d].size = t[d].size /\ u[d].data = t[d].data
       /\ u[d].child = InsertAt(ch, p, n)
  <2>1. t[d] \in NodeRec
    BY TreeNode
  <2> HIDE DEF ch
  <2> QED
    BY <1>14, <2>1 DEF NodeRec
<1>16. \A x \in DOMAIN t : /\ u[x].name = t[x].name /\ u[x].parent = t[x].parent
                           /\ u[x].is_dir = t[x].is_dir /\ u[x].refs = t[x].refs
                           /\ u[x].size = t[x].size /\ u[x].data = t[x].data
  BY <1>13, <1>15
<1>17. \E q \in 1 .. m + 1 :
         /\ u[d].child = InsertAt(ch, q, n)
         /\ \A i \in 1 .. m : IF i < q THEN t[ch[i]].name < nm ELSE nm < t[ch[i]].name
  BY <1>9, <1>15
<1> QED
  BY <1>11, <1>12, <1>13, <1>16, <1>17 DEF u, new, Grown

\* So the tree keeps its shape, and everybody his children.
LEMMA LinkShape ==
  ASSUME NEW t \in Tree, Shape(t), NEW d \in DOMAIN t, NEW n \in NodeId \ DOMAIN t,
         NEW nm \in Nat, NEW b \in BOOLEAN, NEW u, Grown(t, u, d, n, nm, b)
  PROVE  /\ Shape(u)
         /\ \A x \in DOMAIN t : \A k \in 1 .. Len(t[x].child) :
              \E i \in 1 .. Len(u[x].child) : u[x].child[i] = t[x].child[k]
<1> DEFINE ch == t[d].child
           m == Len(ch)
<1>1. /\ u \in Tree /\ DOMAIN u = DOMAIN t \cup {n}
      /\ u[n] = NewNode(nm, d, b)
      /\ \A x \in DOMAIN t \ {d} : u[x] = t[x]
      /\ \A x \in DOMAIN t : u[x].name = t[x].name /\ u[x].parent = t[x].parent
  BY DEF Grown
<1>2. PICK p \in 1 .. m + 1 :
        /\ u[d].child = InsertAt(ch, p, n)
        /\ \A i \in 1 .. m : IF i < p THEN t[ch[i]].name < nm ELSE nm < t[ch[i]].name
  BY DEF Grown
<1>3. m \in Nat /\ ch \in Seq(NodeId) /\ d # n /\ n # Root /\ d \in NodeId
  BY TreeNode DEF Shape
<1>4. /\ Len(u[d].child) = m + 1
      /\ \A i \in 1 .. m + 1 : u[d].child[i] = IF i < p THEN ch[i] ELSE IF i = p THEN n ELSE ch[i-1]
  <2>1. ch \in Seq(NodeId)
    BY <1>3
  <2> HIDE DEF ch
  <2> QED
    BY <1>2, <2>1, InsertAtProperties DEF m
<1>5. u[n].child = <<>> /\ u[n].parent = d /\ u[n].name = nm
  BY <1>1, <1>3, NewNodeType
<1>6. \A i \in 1 .. m : ch[i] \in DOMAIN t \ {Root} /\ t[ch[i]].parent = d
  BY DEF Shape, Parented
<1>7. ASSUME NEW i \in 1 .. m + 1
      PROVE  \/ i = p /\ u[d].child[i] = n
             \/ i < p /\ i \in 1 .. m /\ u[d].child[i] = ch[i] /\ ch[i] \in DOMAIN t \ {Root}
             \/ i > p /\ i - 1 \in 1 .. m /\ u[d].child[i] = ch[i-1]
                      /\ ch[i-1] \in DOMAIN t \ {Root}
  BY <1>3, <1>4, <1>6
<1> HIDE DEF ch, m
<1>8. Parented(u)
  <2> SUFFICES ASSUME NEW x \in DOMAIN u, NEW k \in 1 .. Len(u[x].child)
               PROVE  u[x].child[k] \in DOMAIN u \ {Root} /\ u[u[x].child[k]].parent = x
    BY DEF Parented
  <2>1. CASE x = d
    <3>1. k \in 1 .. m + 1
      BY <1>4, <2>1
    <3>2. \/ u[d].child[k] = n
          \/ \E j \in 1 .. m : u[d].child[k] = ch[j]
      BY <1>7, <3>1
    <3> QED
      BY <1>1, <1>3, <1>5, <1>6, <2>1, <3>2
  <2>2. CASE x = n
    BY <1>5, <2>2
  <2>3. CASE x # d /\ x # n
    <3>1. x \in DOMAIN t /\ u[x] = t[x]
      BY <1>1, <2>3
    <3>2. t[x].child[k] \in DOMAIN t \ {Root} /\ t[t[x].child[k]].parent = x
      BY <3>1 DEF Shape, Parented
    <3> QED
      BY <1>1, <3>1, <3>2
  <2> QED
    BY <2>1, <2>2, <2>3
<1>9. Sorted(u)
  <2> SUFFICES ASSUME NEW x \in DOMAIN u, NEW j \in 1 .. Len(u[x].child),
                      NEW k \in 1 .. Len(u[x].child), j < k
               PROVE  u[u[x].child[j]].name < u[u[x].child[k]].name
    BY DEF Sorted
  <2>1. CASE x = d
    <3>1. j \in 1 .. m + 1 /\ k \in 1 .. m + 1
      BY <1>4, <2>1
    <3>2. \A i \in 1 .. m : u[ch[i]].name = t[ch[i]].name
      BY <1>1, <1>6
    <3>3. \A i, l \in 1 .. m : i < l => t[ch[i]].name < t[ch[l]].name
      BY DEF Shape, Sorted, ch, m
    <3>4. CASE j = p
      <4>1. k > p /\ k - 1 \in 1 .. m /\ u[d].child[k] = ch[k-1]
        BY <1>7, <3>1, <3>4
      <4>2. ~(k - 1 < p)
        BY <4>1
      <4>3. nm < t[ch[k-1]].name
        BY <1>2, <4>1, <4>2 DEF m
      <4>4. u[d].child[j] = n
        BY <1>7, <3>1, <3>4
      <4> QED
        BY <1>5, <2>1, <3>2, <4>1, <4>3, <4>4
    <3>5. CASE k = p
      <4>1. j < p /\ j \in 1 .. m /\ u[d].child[j] = ch[j]
        BY <1>7, <3>1, <3>5
      <4>2. t[ch[j]].name < nm
        BY <1>2, <4>1 DEF m
      <4>3. u[d].child[k] = n
        BY <1>7, <3>1, <3>5
      <4> QED
        BY <1>5, <2>1, <3>2, <4>1, <4>2, <4>3
    <3>6. CASE j # p /\ k # p
      <4>1. \E i, l \in 1 .. m : i < l /\ u[d].child[j] = ch[i] /\ u[d].child[k] = ch[l]
        <5>1. CASE k < p
          <6>1. j < p
            BY <3>1, <5>1
          <6> QED
            BY <1>7, <3>1, <5>1, <6>1
        <5>2. CASE k > p /\ j < p
          <6>1. j < k - 1
            BY <3>1, <5>2
          <6> QED
            BY <1>7, <3>1, <5>2, <6>1
        <5>3. CASE k > p /\ j > p
          <6>1. j - 1 < k - 1
            BY <3>1
          <6> QED
            BY <1>7, <3>1, <5>3, <6>1
        <5> QED
          BY <3>1, <3>6, <5>1, <5>2, <5>3
      <4> QED
        BY <2>1, <3>2, <3>3, <4>1
    <3> QED
      BY <3>4, <3>5, <3>6
  <2>2. CASE x = n
    BY <1>5, <2>2
  <2>3. CASE x # d /\ x # n
    <3>1. x \in DOMAIN t /\ u[x] = t[x]
      BY <1>1, <2>3
    <3>2. t[x].child[j] \in DOMAIN t /\ t[x].child[k] \in DOMAIN t
      BY <3>1 DEF Shape, Parented
    <3>3. t[t[x].child[j]].name < t[t[x].child[k]].name
      BY <3>1 DEF Shape, Sorted
    <3> QED
      BY <1>1, <3>1, <3>2, <3>3
  <2> QED
    BY <2>1, <2>2, <2>3
<1>10. ASSUME NEW x \in DOMAIN t, NEW k \in 1 .. Len(t[x].child)
       PROVE  \E i \in 1 .. Len(u[x].child) : u[x].child[i] = t[x].child[k]
  <2>1. CASE x = d
    <3>1. k \in 1 .. m /\ t[x].child[k] = ch[k]
      BY <2>1 DEF ch, m
    <3>2. CASE k < p
      <4>1. k \in 1 .. m + 1 /\ u[d].child[k] = ch[k]
        BY <1>3, <1>4, <3>1, <3>2
      <4> QED
        BY <1>4, <2>1, <3>1, <4>1
    <3>3. CASE ~(k < p)
      <4>1. k + 1 \in 1 .. m + 1 /\ ~(k + 1 < p) /\ k + 1 # p /\ (k + 1) - 1 = k
        BY <1>3, <3>1, <3>3
      <4>2. u[d].child[k + 1] = ch[k]
        BY <1>4, <4>1
      <4> QED
        BY <1>4, <2>1, <3>1, <4>1, <4>2
    <3> QED
      BY <3>2, <3>3
  <2>2. CASE x # d
    BY <1>1, <2>2
  <2> QED
    BY <2>1, <2>2
<1>11. Linked(u)
  <2> SUFFICES ASSUME NEW x \in DOMAIN u \ {Root}
               PROVE  /\ u[x].parent \in DOMAIN u
                      /\ \E k \in 1 .. Len(u[u[x].parent].child) : u[u[x].parent].child[k] = x
    BY DEF Linked
  <2>1. CASE x = n
    <3>1. p \in 1 .. m + 1 /\ u[d].child[p] = n
      BY <1>3, <1>4
    <3> QED
      BY <1>1, <1>4, <1>5, <2>1, <3>1
  <2>2. CASE x # n
    <3>1. x \in DOMAIN t \ {Root} /\ u[x].parent = t[x].parent
      BY <1>1, <2>2
    <3>2. t[x].parent \in DOMAIN t
      BY <3>1 DEF Shape, Linked
    <3>3. PICK k \in 1 .. Len(t[t[x].parent].child) : t[t[x].parent].child[k] = x
      BY <3>1 DEF Shape, Linked
    <3>4. \E i \in 1 .. Len(u[t[x].parent].child) : u[t[x].parent].child[i] = x
      <4>1. \E i \in 1 .. Len(u[t[x].parent].child) :
              u[t[x].parent].child[i] = t[t[x].parent].child[k]
        BY <1>10, <3>2
      <4> QED
        BY <3>3, <4>1
    <3> QED
      BY <1>1, <3>1, <3>2, <3>4
  <2> QED
    BY <2>1, <2>2
<1>12. Shape(u)
  BY <1>1, <1>8, <1>9, <1>11 DEF Shape
<1> QED
  BY <1>10, <1>12

\* u is t without the empty node n.
Shrunk(t, u, n) ==
  /\ u \in Tree /\ DOMAIN u = DOMAIN t \ {n}
  /\ \A x \in DOMAIN u \ {t[n].parent} : u[x] = t[x]
  /\ \A x \in DOMAIN u :
       /\ u[x].name = t[x].name /\ u[x].parent = t[x].parent /\ u[x].is_dir = t[x].is_dir
       /\ u[x].refs = t[x].refs /\ u[x].size = t[x].size /\ u[x].data = t[x].data
  /\ \E p \in 1 .. Len(t[t[n].parent].child) :
       /\ t[t[n].parent].child[p] = n
       /\ u[t[n].parent].child = RemoveAt(t[t[n].parent].child, p)

\* The tree ramfs_rmdir leaves.
Without(t, n) == [x \in DOMAIN t \ {n} |-> ramfs_child_unlink(t, n)[x]]

\* An empty node is not its own parent.
LEMMA EmptyChild ==
  ASSUME NEW t \in Tree, Shape(t), NEW n \in DOMAIN t \ {Root}, t[n].child = <<>>
  PROVE  t[n].parent \in DOMAIN t \ {n}
<1>1. /\ t[n].parent \in DOMAIN t
      /\ \E k \in 1 .. Len(t[t[n].parent].child) : t[t[n].parent].child[k] = n
  BY DEF Shape, Linked
<1>2. t[n].parent # n
  BY <1>1
<1> QED
  BY <1>1, <1>2

\* That is what unlinking does.
LEMMA UnlinkFields ==
  ASSUME NEW t \in Tree, Shape(t), NEW n \in DOMAIN t \ {Root}, t[n].child = <<>>
  PROVE  Shrunk(t, Without(t, n), n)
<1> DEFINE d == t[n].parent
           ch == t[d].child
           p == Place(t, n)
           u == Without(t, n)
<1>1. d \in DOMAIN t \ {n}
  BY EmptyChild
<1>2. t[d] \in NodeRec /\ ch \in Seq(NodeId) /\ DOMAIN ch = 1 .. Len(ch)
  BY <1>1, TreeNode
<1>3. \E k \in DOMAIN ch : ch[k] = n
  BY <1>2 DEF Shape, Linked
<1>4. p \in 1 .. Len(ch) /\ ch[p] = n
  <2>1. p = CHOOSE k \in DOMAIN ch : ch[k] = n
    BY DEF Place
  <2> HIDE DEF ch, p
  <2> QED
    BY <1>2, <1>3, <2>1
<1>5. u = [x \in DOMAIN t \ {n} |-> [t EXCEPT ![d].child = RemoveAt(@, p)][x]]
  BY DEF Without, ramfs_child_unlink
<1>6. RemoveAt(ch, p) \in Seq(NodeId)
  <2> HIDE DEF ch, p
  <2> QED
    BY <1>2, <1>4, RemoveAtProperties
<1>7. t \in [DOMAIN t -> NodeRec] /\ DOMAIN t \subseteq NodeId
  BY TreeElim
<1> HIDE DEF d, p, u
<1>8. /\ DOMAIN u = DOMAIN t \ {n}
      /\ \A x \in DOMAIN u : u[x] = IF x = d THEN [t[d] EXCEPT !.child = RemoveAt(ch, p)] ELSE t[x]
  BY <1>1, <1>5, <1>7
<1>9. LET e == [t[d] EXCEPT !.child = RemoveAt(ch, p)]
      IN  /\ e \in NodeRec /\ e.child = RemoveAt(ch, p)
          /\ e.name = t[d].name /\ e.parent = t[d].parent /\ e.is_dir = t[d].is_dir
          /\ e.refs = t[d].refs /\ e.size = t[d].size /\ e.data = t[d].data
  BY <1>2, <1>6 DEF NodeRec
<1>10. u \in Tree
  <2>1. \A x \in DOMAIN u : u[x] \in NodeRec
    BY <1>7, <1>8, <1>9
  <2>2. u \in [DOMAIN u -> NodeRec]
    BY <1>5, <2>1
  <2>3. DOMAIN u \subseteq NodeId
    BY <1>7, <1>8
  <2> QED
    BY <2>2, <2>3, TreeIntro
<1>11. \A x \in DOMAIN u :
       /\ u[x].name = t[x].name /\ u[x].parent = t[x].parent /\ u[x].is_dir = t[x].is_dir
       /\ u[x].refs = t[x].refs /\ u[x].size = t[x].size /\ u[x].data = t[x].data
  BY <1>8, <1>9
<1>12. u[d].child = RemoveAt(ch, p)
  BY <1>1, <1>8, <1>9
<1>13. \A x \in DOMAIN u \ {d} : u[x] = t[x]
  BY <1>8
<1> QED
  BY <1>4, <1>8, <1>10, <1>11, <1>12, <1>13 DEF Shrunk, u, d

\* So the tree keeps its shape, and everybody his other children.
LEMMA UnlinkShape ==
  ASSUME NEW t \in Tree, Shape(t), NEW n \in DOMAIN t \ {Root}, t[n].child = <<>>,
         NEW u, Shrunk(t, u, n)
  PROVE  /\ Shape(u)
         /\ \A x \in DOMAIN u : \A k \in 1 .. Len(t[x].child) :
              t[x].child[k] # n =>
                \E i \in 1 .. Len(u[x].child) : u[x].child[i] = t[x].child[k]
<1> DEFINE d == t[n].parent
           ch == t[d].child
           m == Len(ch)
<1>1. d \in DOMAIN t \ {n}
  BY EmptyChild
<1>2. /\ u \in Tree /\ DOMAIN u = DOMAIN t \ {n}
      /\ \A x \in DOMAIN u \ {d} : u[x] = t[x]
      /\ \A x \in DOMAIN u : u[x].name = t[x].name /\ u[x].parent = t[x].parent
  BY DEF Shrunk
<1>3. PICK p \in 1 .. m : ch[p] = n /\ u[d].child = RemoveAt(ch, p)
  BY DEF Shrunk
<1>4. ch \in Seq(NodeId) /\ m \in Nat
  BY <1>1, TreeNode
<1>5. \A i \in 1 .. m : ch[i] \in DOMAIN t \ {Root} /\ t[ch[i]].parent = d
  BY <1>1 DEF Shape, Parented
<1>6. \A i, j \in 1 .. m : i < j => t[ch[i]].name < t[ch[j]].name
  BY <1>1 DEF Shape, Sorted
<1>7. \A i \in 1 .. m : i # p => ch[i] # n
  <2> SUFFICES ASSUME NEW i \in 1 .. m, i # p, ch[i] = n PROVE FALSE
    OBVIOUS
  <2>1. t[n].name \in Nat
    BY TreeNode
  <2>2. i < p \/ p < i
    BY <1>4
  <2>3. t[n].name < t[n].name
    BY <1>3, <1>6, <2>2
  <2> QED
    BY <2>1, <2>3
<1> HIDE DEF ch, m, d
<1>8. /\ Len(u[d].child) = m - 1
      /\ \A i \in 1 .. m - 1 : u[d].child[i] = IF i < p THEN ch[i] ELSE ch[i+1]
  BY <1>3, <1>4, RemoveAtProperties DEF m
<1>9. ASSUME NEW i \in 1 .. m - 1
      PROVE  \E j \in 1 .. m : u[d].child[i] = ch[j] /\ j # p /\ j = IF i < p THEN i ELSE i + 1
  <2>1. CASE i < p
    BY <1>4, <1>8, <2>1
  <2>2. CASE ~(i < p)
    <3>1. i + 1 \in 1 .. m /\ i + 1 # p
      BY <1>4, <2>2
    <3> QED
      BY <1>8, <2>2, <3>1
  <2> QED
    BY <2>1, <2>2
<1>10. Parented(u)
  <2> SUFFICES ASSUME NEW x \in DOMAIN u, NEW k \in 1 .. Len(u[x].child)
               PROVE  u[x].child[k] \in DOMAIN u \ {Root} /\ u[u[x].child[k]].parent = x
    BY DEF Parented
  <2>1. CASE x = d
    <3>1. k \in 1 .. m - 1
      BY <1>8, <2>1
    <3>2. \E j \in 1 .. m : u[d].child[k] = ch[j] /\ j # p
      BY <1>9, <3>1
    <3> QED
      BY <1>2, <1>5, <1>7, <2>1, <3>2
  <2>2. CASE x # d
    <3>1. x \in DOMAIN t /\ u[x] = t[x]
      BY <1>2, <2>2
    <3>2. t[x].child[k] \in DOMAIN t \ {Root} /\ t[t[x].child[k]].parent = x
      BY <3>1 DEF Shape, Parented
    <3>3. t[x].child[k] # n
      BY <2>2, <3>2 DEF d
    <3> QED
      BY <1>2, <3>1, <3>2, <3>3
  <2> QED
    BY <2>1, <2>2
<1>11. Sorted(u)
  <2> SUFFICES ASSUME NEW x \in DOMAIN u, NEW j \in 1 .. Len(u[x].child),
                      NEW k \in 1 .. Len(u[x].child), j < k
               PROVE  u[u[x].child[j]].name < u[u[x].child[k]].name
    BY DEF Sorted
  <2>0. u[x].child[j] \in DOMAIN u /\ u[x].child[k] \in DOMAIN u
    BY <1>10 DEF Parented
  <2>1. CASE x = d
    <3>1. j \in 1 .. m - 1 /\ k \in 1 .. m - 1
      BY <1>8, <2>1
    <3>2. PICK i \in 1 .. m : u[d].child[j] = ch[i] /\ i = IF j < p THEN j ELSE j + 1
      BY <1>9, <3>1
    <3>3. PICK l \in 1 .. m : u[d].child[k] = ch[l] /\ l = IF k < p THEN k ELSE k + 1
      BY <1>9, <3>1
    <3>4. i < l
      BY <1>4, <3>1, <3>2, <3>3
    <3>5. t[ch[i]].name < t[ch[l]].name
      BY <1>6, <3>4
    <3> QED
      BY <1>2, <2>0, <2>1, <3>2, <3>3, <3>5
  <2>2. CASE x # d
    <3>1. x \in DOMAIN t /\ u[x] = t[x]
      BY <1>2, <2>2
    <3>2. t[t[x].child[j]].name < t[t[x].child[k]].name
      BY <3>1 DEF Shape, Sorted
    <3> QED
      BY <1>2, <2>0, <3>1, <3>2
  <2> QED
    BY <2>1, <2>2
<1>12. ASSUME NEW x \in DOMAIN u, NEW k \in 1 .. Len(t[x].child), t[x].child[k] # n
       PROVE  \E i \in 1 .. Len(u[x].child) : u[x].child[i] = t[x].child[k]
  <2>1. CASE x = d
    <3>1. k \in 1 .. m /\ t[x].child[k] = ch[k] /\ k # p
      BY <1>3, <1>12, <2>1 DEF ch, m
    <3>2. CASE k < p
      <4>1. k \in 1 .. m - 1 /\ u[d].child[k] = ch[k]
        BY <1>4, <1>8, <3>1, <3>2
      <4> QED
        BY <1>8, <2>1, <3>1, <4>1
    <3>3. CASE ~(k < p)
      <4>1. k - 1 \in 1 .. m - 1 /\ ~(k - 1 < p) /\ (k - 1) + 1 = k
        BY <1>4, <3>1, <3>3
      <4>2. u[d].child[k - 1] = ch[k]
        BY <1>8, <4>1
      <4> QED
        BY <1>8, <2>1, <3>1, <4>1, <4>2
    <3> QED
      BY <3>2, <3>3
  <2>2. CASE x # d
    BY <1>2, <2>2
  <2> QED
    BY <2>1, <2>2
<1>13. Linked(u)
  <2> SUFFICES ASSUME NEW x \in DOMAIN u \ {Root}
               PROVE  /\ u[x].parent \in DOMAIN u
                      /\ \E k \in 1 .. Len(u[u[x].parent].child) : u[u[x].parent].child[k] = x
    BY DEF Linked
  <2>1. x \in DOMAIN t \ {Root} /\ u[x].parent = t[x].parent /\ x # n
    BY <1>2
  <2>2. t[x].parent \in DOMAIN t
    BY <2>1 DEF Shape, Linked
  <2>3. PICK k \in 1 .. Len(t[t[x].parent].child) : t[t[x].parent].child[k] = x
    BY <2>1 DEF Shape, Linked
  <2>4. t[x].parent # n
    BY <2>3
  <2>5. t[x].parent \in DOMAIN u
    BY <1>2, <2>2, <2>4
  <2>6. \E i \in 1 .. Len(u[t[x].parent].child) :
          u[t[x].parent].child[i] = t[t[x].parent].child[k]
    BY <1>12, <2>1, <2>3, <2>5
  <2> QED
    BY <2>1, <2>3, <2>5, <2>6
<1>14. DOMAIN u # {} => Root \in DOMAIN u
  BY <1>2 DEF Shape
<1> QED
  BY <1>10, <1>11, <1>12, <1>13, <1>14 DEF Shape

-----------------------------------------------------------------------------
(* Handles and cursors.                                                    *)

Handle == [n : NodeId, write : BOOLEAN, pos : Nat]
Cursor == [n : NodeId, pos : NodeId \cup {NULL}, done : BOOLEAN, kept : SUBSET NodeId,
           seen : Seq(Nat)]

RamType ==
  /\ node \in Tree
  /\ file \in [Proc -> Handle \cup {NULL}]
  /\ dir \in [Proc -> Cursor \cup {NULL}]

\* The count of a node; a free one has none.
Refs(t, n) == IF n \in DOMAIN t THEN t[n].refs ELSE 0

SameRefs(t, u) == \A n \in NodeId : Refs(u, n) = Refs(t, n)

\* The references caller p has on node q: its handle, its directory, its position.
Holds(p, q) == file[p] # NULL /\ file[p].n = q
Lists(p, q) == dir[p] # NULL /\ dir[p].n = q
Stops(p, q) == dir[p] # NULL /\ dir[p].pos = q

Count(b) == IF b THEN 1 ELSE 0
Uses(p, q) == Count(Holds(p, q)) + Count(Lists(p, q)) + Count(Stops(p, q))

Users(q) == Cardinality({p \in Proc : Holds(p, q)}) + Cardinality({p \in Proc : Lists(p, q)})
              + Cardinality({p \in Proc : Stops(p, q)})

RefsCounted == \A q \in NodeId : Refs(node, q) = Users(q)

\* NULL is neither a handle nor a cursor.
LEMMA NullDiffers == NULL \notin Handle /\ NULL \notin Cursor
<1>1. NodeId \subseteq Nat
  BY RamfsAssumption DEF NodeId
<1> HIDE DEF NodeId
<1>2. Handle \subseteq [n : Nat, write : BOOLEAN, pos : Nat]
  BY <1>1 DEF Handle
<1>3. Cursor \subseteq [n : Nat, pos : Nat \cup {NULL}, done : BOOLEAN, kept : SUBSET Nat,
                        seen : Seq(Nat)]
  BY <1>1 DEF Cursor
<1> QED
  BY <1>2, <1>3, RamfsAssumption

\* The sizes that are counted.
LEMMA CountsNat ==
  ASSUME IsFiniteSet(Proc), NEW q
  PROVE  /\ Cardinality({p \in Proc : Holds(p, q)}) \in Nat
         /\ Cardinality({p \in Proc : Lists(p, q)}) \in Nat
         /\ Cardinality({p \in Proc : Stops(p, q)}) \in Nat
<1>1. \A S \in SUBSET Proc : Cardinality(S) \in Nat
  BY FS_Subset, FS_CardinalityType
<1>2. /\ {p \in Proc : Holds(p, q)} \in SUBSET Proc
      /\ {p \in Proc : Lists(p, q)} \in SUBSET Proc
      /\ {p \in Proc : Stops(p, q)} \in SUBSET Proc
  OBVIOUS
<1> QED
  BY <1>1, <1>2, Zenon

\* No count is negative.
LEMMA RefsNat ==
  ASSUME IsFiniteSet(Proc), RefsCounted PROVE \A q \in NodeId : Refs(node, q) \in Nat
<1> SUFFICES ASSUME NEW q \in NodeId PROVE Refs(node, q) \in Nat
  OBVIOUS
<1> DEFINE a == Cardinality({p \in Proc : Holds(p, q)})
           b == Cardinality({p \in Proc : Lists(p, q)})
           c == Cardinality({p \in Proc : Stops(p, q)})
<1>1. a \in Nat /\ b \in Nat /\ c \in Nat
  BY CountsNat
<1>2. Refs(node, q) = a + b + c
  BY DEF RefsCounted, Users
<1> HIDE DEF a, b, c
<1> QED
  BY <1>1, <1>2

\* What a caller uses is counted.
LEMMA UsedCounted ==
  ASSUME IsFiniteSet(Proc), NEW p \in Proc, NEW q, Holds(p, q) \/ Lists(p, q) \/ Stops(p, q)
  PROVE  Users(q) > 0
<1> DEFINE A == {r \in Proc : Holds(r, q)}
           B == {r \in Proc : Lists(r, q)}
           C == {r \in Proc : Stops(r, q)}
<1>1. Cardinality(A) \in Nat /\ Cardinality(B) \in Nat /\ Cardinality(C) \in Nat
  BY CountsNat
<1>2. A \subseteq Proc /\ B \subseteq Proc /\ C \subseteq Proc
  OBVIOUS
<1>3. p \in A \/ p \in B \/ p \in C
  OBVIOUS
<1>4. Users(q) = Cardinality(A) + Cardinality(B) + Cardinality(C)
  BY DEF Users
<1> HIDE DEF A, B, C
<1>5. IsFiniteSet(A) /\ IsFiniteSet(B) /\ IsFiniteSet(C)
  BY <1>2, FS_Subset
<1>6. \A S : IsFiniteSet(S) /\ p \in S => Cardinality(S) # 0
  BY FS_EmptySet
<1>7. Cardinality(A) # 0 \/ Cardinality(B) # 0 \/ Cardinality(C) # 0
  BY <1>3, <1>5, <1>6
<1> QED
  BY <1>1, <1>4, <1>7

\* So it is allocated.
LEMMA UsedAllocated ==
  ASSUME IsFiniteSet(Proc), RefsCounted, NEW p \in Proc, NEW q \in NodeId,
         Holds(p, q) \/ Lists(p, q) \/ Stops(p, q)
  PROVE  q \in DOMAIN node
<1>1. Users(q) > 0
  BY UsedCounted
<1>2. Refs(node, q) > 0
  BY <1>1 DEF RefsCounted
<1> QED
  BY <1>2 DEF Refs

\* The counts are right when the callers change nothing and no count changes.
LEMMA QuietStep ==
  ASSUME RefsCounted, SameRefs(node, node'), UNCHANGED <<file, dir>>
  PROVE  RefsCounted'
<1> SUFFICES ASSUME NEW q \in NodeId PROVE Refs(node', q) = Users(q)'
  BY DEF RefsCounted, Refs
<1>1. Users(q)' = Users(q)
  BY DEF Users, Holds, Lists, Stops
<1>2. Refs(node', q) = Refs(node, q)
  BY DEF SameRefs
<1> QED
  BY <1>1, <1>2 DEF RefsCounted

\* The counts are right when one caller moves and the tree with it.
LEMMA UserStep ==
  ASSUME IsFiniteSet(Proc), RefsCounted, NEW p \in Proc,
         \A r \in Proc \ {p} : file'[r] = file[r] /\ dir'[r] = dir[r],
         \A q \in NodeId : Refs(node', q) = Refs(node, q) - Uses(p, q) + Uses(p, q)'
  PROVE  RefsCounted'
<1> SUFFICES ASSUME NEW q \in NodeId PROVE Refs(node', q) = Users(q)'
  BY DEF RefsCounted, Refs
<1> DEFINE A == {r \in Proc : Holds(r, q)}
           B == {r \in Proc : Lists(r, q)}
           C == {r \in Proc : Stops(r, q)}
           A2 == {r \in Proc : Holds(r, q)'}
           B2 == {r \in Proc : Lists(r, q)'}
           C2 == {r \in Proc : Stops(r, q)'}
<1>1. Cardinality(A) \in Nat /\ Cardinality(B) \in Nat /\ Cardinality(C) \in Nat
  BY CountsNat
<1>2. /\ A \subseteq Proc /\ B \subseteq Proc /\ C \subseteq Proc
      /\ A2 \subseteq Proc /\ B2 \subseteq Proc /\ C2 \subseteq Proc
  OBVIOUS
<1>3. \A r \in Proc \ {p} : /\ r \in A <=> r \in A2
                            /\ r \in B <=> r \in B2
                            /\ r \in C <=> r \in C2
  BY DEF Holds, Lists, Stops
<1>4. /\ Users(q) = Cardinality(A) + Cardinality(B) + Cardinality(C)
      /\ Users(q)' = Cardinality(A2) + Cardinality(B2) + Cardinality(C2)
  BY DEF Users
<1>5. /\ Uses(p, q) = (IF p \in A THEN 1 ELSE 0) + (IF p \in B THEN 1 ELSE 0)
                        + (IF p \in C THEN 1 ELSE 0)
      /\ Uses(p, q)' = (IF p \in A2 THEN 1 ELSE 0) + (IF p \in B2 THEN 1 ELSE 0)
                        + (IF p \in C2 THEN 1 ELSE 0)
  BY DEF Uses, Count
<1> HIDE DEF A, B, C, A2, B2, C2
<1>6. Cardinality(A2) = Cardinality(A) - (IF p \in A THEN 1 ELSE 0) + (IF p \in A2 THEN 1 ELSE 0)
  BY <1>2, <1>3, CountOne
<1>7. Cardinality(B2) = Cardinality(B) - (IF p \in B THEN 1 ELSE 0) + (IF p \in B2 THEN 1 ELSE 0)
  BY <1>2, <1>3, CountOne
<1>8. Cardinality(C2) = Cardinality(C) - (IF p \in C THEN 1 ELSE 0) + (IF p \in C2 THEN 1 ELSE 0)
  BY <1>2, <1>3, CountOne
<1>9. Refs(node', q) = Users(q) - Uses(p, q) + Uses(p, q)'
  BY DEF RefsCounted
<1> QED
  BY <1>1, <1>4, <1>5, <1>6, <1>7, <1>8, <1>9

\* The tree t with count n at q.
Put(t, q, n) == [t EXCEPT ![q].refs = n]

\* Changing the count of one node changes no other.
LEMMA SetRefs ==
  ASSUME NEW t \in Tree, NEW q \in DOMAIN t, NEW n \in Int
  PROVE  /\ Put(t, q, n) \in Tree /\ DOMAIN Put(t, q, n) = DOMAIN t
         /\ \A r \in NodeId : Refs(Put(t, q, n), r) = IF r = q THEN n ELSE Refs(t, r)
<1> DEFINE u == Put(t, q, n)
<1> USE DEF Put
<1>1. DOMAIN t \subseteq NodeId /\ t \in [DOMAIN t -> NodeRec]
  BY TreeElim
<1>2. u \in [DOMAIN t -> NodeRec]
  BY <1>1 DEF NodeRec
<1>3. u \in Tree /\ DOMAIN u = DOMAIN t
  BY <1>1, <1>2, TreeIntro
<1>4. ASSUME NEW r \in DOMAIN t PROVE u[r].refs = IF r = q THEN n ELSE t[r].refs
  BY <1>1 DEF NodeRec
<1>5. ASSUME NEW r \in NodeId PROVE Refs(u, r) = IF r = q THEN n ELSE Refs(t, r)
  BY <1>3, <1>4 DEF Refs
<1> QED
  BY <1>3, <1>5

-----------------------------------------------------------------------------
(* What the steps keep.                                                    *)

\* u has the nodes that stay under the same names, and their children that stay.
Keeps(t, u) ==
  \A x \in DOMAIN t \cap DOMAIN u :
    /\ u[x].name = t[x].name /\ u[x].parent = t[x].parent
    /\ \A k \in 1 .. Len(t[x].child) : t[x].child[k] \in DOMAIN u =>
         \E i \in 1 .. Len(u[x].child) : u[x].child[i] = t[x].child[k]

\* A listing of directory c.n that stands at c.pos: the names came in ascending order,
\* the last one is that of pos, and of the children that were there all along it has
\* every name up to that one; all of them once it is done.
CursorSound(t, c) ==
  /\ c.n \in DOMAIN t
  /\ c.pos # NULL => /\ c.pos \in DOMAIN t \ {Root} /\ t[c.pos].parent = c.n
                     /\ c.seen[Len(c.seen)] = t[c.pos].name
  /\ c.pos = NULL <=> c.seen = <<>>
  /\ \A i, j \in 1 .. Len(c.seen) : i < j => c.seen[i] < c.seen[j]
  /\ \A x \in c.kept : /\ x \in DOMAIN t
                       /\ \E k \in 1 .. Len(t[c.n].child) : t[c.n].child[k] = x
  /\ \A x \in c.kept : c.done \/ (c.pos # NULL /\ t[x].name <= t[c.pos].name) =>
       \E i \in 1 .. Len(c.seen) : c.seen[i] = t[x].name

\* A node and what it should read as.
Stored(r, s) ==
  /\ s \in Seq(Nat)
  /\ ~r.is_dir => /\ r.size = Len(s) /\ r.size <= Len(r.data)
                  /\ \A i \in 1 .. r.size : r.data[i] = s[i]

AllStored(t, c) == DOMAIN c = DOMAIN t /\ \A n \in DOMAIN t : Stored(t[n], c[n])

RamInv ==
  /\ RamType /\ Shape(node) /\ RefsCounted /\ AllStored(node, content)
  /\ \A p \in Proc : dir[p] # NULL => CursorSound(node, dir[p])

\* A cursor is sound as long as its nodes stay.
LEMMA CursorStays ==
  ASSUME NEW t \in Tree, NEW u \in Tree, Keeps(t, u), NEW c, CursorSound(t, c),
         c.n \in DOMAIN u, c.pos # NULL => c.pos \in DOMAIN u, c.kept \subseteq DOMAIN u
  PROVE  CursorSound(u, c)
<1>1. c.n \in DOMAIN t
  BY DEF CursorSound
<1>2. c.pos # NULL => /\ c.pos \in DOMAIN u \ {Root} /\ u[c.pos].parent = c.n
                      /\ c.seen[Len(c.seen)] = u[c.pos].name
                      /\ u[c.pos].name = t[c.pos].name
  BY DEF CursorSound, Keeps
<1>3. c.pos = NULL <=> c.seen = <<>>
  BY DEF CursorSound
<1>4. \A i, j \in 1 .. Len(c.seen) : i < j => c.seen[i] < c.seen[j]
  BY DEF CursorSound
<1>5. ASSUME NEW x \in c.kept
      PROVE  /\ x \in DOMAIN u /\ u[x].name = t[x].name
             /\ \E k \in 1 .. Len(u[c.n].child) : u[c.n].child[k] = x
  <2>1. x \in DOMAIN t
    BY DEF CursorSound
  <2>2. PICK k \in 1 .. Len(t[c.n].child) : t[c.n].child[k] = x
    BY DEF CursorSound
  <2>3. x \in DOMAIN u /\ u[x].name = t[x].name
    BY <2>1 DEF Keeps
  <2>4. \E i \in 1 .. Len(u[c.n].child) : u[c.n].child[i] = t[c.n].child[k]
    BY <1>1, <2>2, <2>3 DEF Keeps
  <2> QED
    BY <2>2, <2>3, <2>4
<1>6. ASSUME NEW x \in c.kept, c.done \/ (c.pos # NULL /\ u[x].name <= u[c.pos].name)
      PROVE  \E i \in 1 .. Len(c.seen) : c.seen[i] = u[x].name
  <2>1. u[x].name = t[x].name
    BY <1>5
  <2>2. c.done \/ (c.pos # NULL /\ t[x].name <= t[c.pos].name)
    BY <1>2, <1>6, <2>1
  <2>3. \E i \in 1 .. Len(c.seen) : c.seen[i] = t[x].name
    BY <2>2 DEF CursorSound
  <2> QED
    BY <2>1, <2>3
<1> QED
  BY <1>2, <1>3, <1>4, <1>5, <1>6 DEF CursorSound

\* Trees with the same children keep them.
LEMMA SameKeeps == ASSUME NEW t, NEW u, SameTree(t, u) PROVE Keeps(t, u)
BY DEF SameTree, Keeps

\* So does a tree with a node more.
LEMMA GrownKeeps ==
  ASSUME NEW t \in Tree, Shape(t), NEW d \in DOMAIN t, NEW n \in NodeId \ DOMAIN t,
         NEW nm \in Nat, NEW b \in BOOLEAN, NEW u, Grown(t, u, d, n, nm, b)
  PROVE  Keeps(t, u)
<1>1. \A x \in DOMAIN t : \A k \in 1 .. Len(t[x].child) :
        \E i \in 1 .. Len(u[x].child) : u[x].child[i] = t[x].child[k]
  BY LinkShape
<1>2. \A x \in DOMAIN t : u[x].name = t[x].name /\ u[x].parent = t[x].parent
  BY DEF Grown
<1> QED
  BY <1>1, <1>2 DEF Keeps

\* And one without an empty node keeps the others.
LEMMA ShrunkKeeps ==
  ASSUME NEW t \in Tree, Shape(t), NEW n \in DOMAIN t \ {Root}, t[n].child = <<>>,
         NEW u, Shrunk(t, u, n)
  PROVE  Keeps(t, u)
<1>1. \A x \in DOMAIN u : \A k \in 1 .. Len(t[x].child) : t[x].child[k] # n =>
        \E i \in 1 .. Len(u[x].child) : u[x].child[i] = t[x].child[k]
  BY UnlinkShape
<1>2. DOMAIN u = DOMAIN t \ {n} /\ \A x \in DOMAIN u : u[x].name = t[x].name /\ u[x].parent = t[x].parent
  BY DEF Shrunk
<1> QED
  BY <1>1, <1>2 DEF Keeps

\* u is t with other counts.
OnlyRefs(t, u) ==
  /\ u \in Tree /\ SameTree(t, u)
  /\ \A x \in DOMAIN t : u[x].size = t[x].size /\ u[x].data = t[x].data

\* Counting keeps the shape, the children, the cursors and the data.
LEMMA OnlyRefsKeeps ==
  ASSUME NEW t \in Tree, Shape(t), NEW u, OnlyRefs(t, u)
  PROVE  /\ u \in Tree /\ Shape(u) /\ Keeps(t, u) /\ DOMAIN u = DOMAIN t
         /\ \A c : CursorSound(t, c) => CursorSound(u, c)
         /\ \A c : AllStored(t, c) => AllStored(u, c)
<1>1. u \in Tree /\ SameTree(t, u) /\ DOMAIN u = DOMAIN t
  BY DEF OnlyRefs, SameTree
<1>2. Shape(u)
  BY <1>1, SameShape
<1>3. Keeps(t, u)
  BY <1>1, SameKeeps
<1>4. ASSUME NEW c, CursorSound(t, c) PROVE CursorSound(u, c)
  <2>1. /\ c.n \in DOMAIN u /\ (c.pos # NULL => c.pos \in DOMAIN u) /\ c.kept \subseteq DOMAIN u
    BY <1>1, <1>4 DEF CursorSound
  <2> QED
    BY <1>1, <1>3, <1>4, <2>1, CursorStays
<1>5. ASSUME NEW c, AllStored(t, c) PROVE AllStored(u, c)
  <2>1. DOMAIN c = DOMAIN u
    BY <1>1, <1>5 DEF AllStored
  <2>2. ASSUME NEW n \in DOMAIN u PROVE Stored(u[n], c[n])
    <3>1. n \in DOMAIN t /\ Stored(t[n], c[n])
      BY <1>1, <1>5 DEF AllStored
    <3>2. u[n].size = t[n].size /\ u[n].data = t[n].data /\ u[n].is_dir = t[n].is_dir
      BY <3>1 DEF OnlyRefs, SameTree
    <3> QED
      BY <3>1, <3>2 DEF Stored
  <2> QED
    BY <2>1, <2>2 DEF AllStored
<1> QED
  BY <1>1, <1>2, <1>3, <1>4, <1>5

\* The tree with the counts f.
WithRefs(t, f) == [x \in DOMAIN t |-> [t[x] EXCEPT !.refs = f[x]]]

\* It differs from t in nothing else.
LEMMA WithRefsOnly ==
  ASSUME NEW t \in Tree, NEW f \in [DOMAIN t -> Int]
  PROVE  /\ OnlyRefs(t, WithRefs(t, f))
         /\ \A x \in DOMAIN t : Refs(WithRefs(t, f), x) = f[x]
         /\ \A x : x \notin DOMAIN t => Refs(WithRefs(t, f), x) = 0
<1> DEFINE u == WithRefs(t, f)
<1>1. DOMAIN u = DOMAIN t /\ \A x \in DOMAIN t : u[x] = [t[x] EXCEPT !.refs = f[x]]
  BY DEF WithRefs
<1>2. ASSUME NEW x \in DOMAIN t
      PROVE  /\ u[x] \in NodeRec /\ u[x].refs = f[x]
             /\ u[x].name = t[x].name /\ u[x].parent = t[x].parent
             /\ u[x].is_dir = t[x].is_dir /\ u[x].child = t[x].child
             /\ u[x].size = t[x].size /\ u[x].data = t[x].data
  <2>1. t[x] \in NodeRec /\ f[x] \in Int
    BY TreeNode
  <2> QED
    BY <1>1, <2>1 DEF NodeRec
<1>3. u \in Tree
  <2>1. u \in [DOMAIN t -> NodeRec]
    BY <1>2 DEF WithRefs
  <2> HIDE DEF u
  <2> QED
    BY <2>1, TreeElim, TreeIntro
<1> HIDE DEF u
<1>4. OnlyRefs(t, u)
  BY <1>1, <1>2, <1>3 DEF OnlyRefs, SameTree
<1> QED
  BY <1>1, <1>2, <1>4 DEF Refs, u

\* A change of one count is such a tree.
LEMMA PutOnly ==
  ASSUME NEW t \in Tree, NEW q \in DOMAIN t, NEW n \in Int
  PROVE  OnlyRefs(t, Put(t, q, n))
<1> DEFINE f == [x \in DOMAIN t |-> IF x = q THEN n ELSE t[x].refs]
<1>1. f \in [DOMAIN t -> Int]
  BY TreeNode
<1>2. Put(t, q, n) = WithRefs(t, f)
  <2>1. t \in [DOMAIN t -> NodeRec]
    BY TreeElim
  <2>2. ASSUME NEW x \in DOMAIN t PROVE Put(t, q, n)[x] = WithRefs(t, f)[x]
    <3>1. t[x] \in NodeRec
      BY <2>1
    <3> QED
      BY <2>1, <3>1 DEF Put, WithRefs, NodeRec
  <2>3. /\ DOMAIN Put(t, q, n) = DOMAIN t /\ DOMAIN WithRefs(t, f) = DOMAIN t
        /\ Put(t, q, n) = [x \in DOMAIN Put(t, q, n) |-> Put(t, q, n)[x]]
        /\ WithRefs(t, f) = [x \in DOMAIN WithRefs(t, f) |-> WithRefs(t, f)[x]]
    BY DEF Put, WithRefs
  <2> QED
    BY <2>2, <2>3
<1> HIDE DEF f
<1> QED
  BY <1>1, <1>2, WithRefsOnly

\* u has all of t, and the files of u read as e.
Extends(t, u, e) ==
  /\ u \in Tree /\ Shape(u) /\ DOMAIN t \subseteq DOMAIN u
  /\ Keeps(t, u) /\ SameRefs(t, u) /\ AllStored(u, e)

\* A tree extends itself.
LEMMA ExtendsSelf ==
  ASSUME NEW t \in Tree, Shape(t), NEW e, AllStored(t, e) PROVE Extends(t, t, e)
<1>1. SameTree(t, t)
  BY DEF SameTree
<1>2. Keeps(t, t)
  BY <1>1, SameKeeps
<1> QED
  BY <1>2 DEF Extends, SameRefs

\* And one step after the other.
LEMMA ExtendsTwice ==
  ASSUME NEW t, NEW u, NEW v, NEW c, NEW e, Shape(t), Extends(t, u, c),
         Extends(u, v, e)
  PROVE  Extends(t, v, e)
<1>1. DOMAIN t \subseteq DOMAIN u /\ DOMAIN u \subseteq DOMAIN v
  BY DEF Extends
<1>2. Keeps(t, u) /\ Keeps(u, v) /\ Shape(u)
  BY DEF Extends
<1>3. Keeps(t, v)
  <2> SUFFICES ASSUME NEW x \in DOMAIN t
               PROVE  /\ v[x].name = t[x].name /\ v[x].parent = t[x].parent
                      /\ \A k \in 1 .. Len(t[x].child) : t[x].child[k] \in DOMAIN v =>
                           \E i \in 1 .. Len(v[x].child) : v[x].child[i] = t[x].child[k]
    BY DEF Keeps
  <2>1. x \in DOMAIN u /\ x \in DOMAIN v
    BY <1>1
  <2>2. /\ u[x].name = t[x].name /\ u[x].parent = t[x].parent
        /\ v[x].name = u[x].name /\ v[x].parent = u[x].parent
    BY <1>2, <2>1 DEF Keeps
  <2>3. ASSUME NEW k \in 1 .. Len(t[x].child)
        PROVE  \E i \in 1 .. Len(v[x].child) : v[x].child[i] = t[x].child[k]
    <3>0. t[x].child[k] \in DOMAIN u
      BY <1>1 DEF Shape, Parented
    <3>1. PICK j \in 1 .. Len(u[x].child) : u[x].child[j] = t[x].child[k]
      BY <1>2, <2>1, <3>0 DEF Keeps
    <3>2. u[x].child[j] \in DOMAIN v
      BY <1>1, <3>0, <3>1
    <3>3. \E i \in 1 .. Len(v[x].child) : v[x].child[i] = u[x].child[j]
      BY <1>2, <2>1, <3>2 DEF Keeps
    <3> QED
      BY <3>1, <3>3
  <2> QED
    BY <2>2, <2>3
<1>4. SameRefs(t, v)
  BY DEF Extends, SameRefs
<1>5. v \in Tree /\ Shape(v) /\ AllStored(v, e)
  BY DEF Extends
<1> QED
  BY <1>1, <1>3, <1>4, <1>5 DEF Extends

\* The nodes that nobody removes are enough for the cursors.
LEMMA ExtendsCursor ==
  ASSUME NEW t \in Tree, NEW u, NEW e, Extends(t, u, e), NEW c, CursorSound(t, c)
  PROVE  CursorSound(u, c)
<1>1. u \in Tree /\ Keeps(t, u) /\ DOMAIN t \subseteq DOMAIN u
  BY DEF Extends
<1>2. c.n \in DOMAIN u /\ (c.pos # NULL => c.pos \in DOMAIN u) /\ c.kept \subseteq DOMAIN u
  BY <1>1 DEF CursorSound
<1> QED
  BY <1>1, <1>2, CursorStays

\* The steps of callers that remove nothing.
LEMMA ExtendStep ==
  ASSUME RamInv, NEW u, Extends(node, u, content'), OnlyRefs(u, node'),
         RamType', RefsCounted',
         \A p \in Proc : dir'[p] # NULL => CursorSound(node, dir'[p])
  PROVE  RamInv'
<1>1. node \in Tree
  BY DEF RamInv, RamType
<1>2. u \in Tree /\ Shape(u) /\ AllStored(u, content')
  BY DEF Extends
<1>3. /\ node' \in Tree /\ Shape(node') /\ AllStored(node', content')
      /\ \A c : CursorSound(u, c) => CursorSound(node', c)
  BY <1>2, OnlyRefsKeeps
<1>4. ASSUME NEW p \in Proc, dir'[p] # NULL PROVE CursorSound(node', dir'[p])
  <2>1. CursorSound(node, dir'[p])
    BY <1>4
  <2>2. CursorSound(u, dir'[p])
    BY <1>1, <2>1, ExtendsCursor
  <2> QED
    BY <1>3, <2>2
<1>5. Shape(node)' /\ AllStored(node, content)'
  BY <1>3 DEF Shape, Parented, Sorted, Linked, AllStored, Stored
<1>6. \A p \in Proc : (dir[p] # NULL => CursorSound(node, dir[p]))'
  BY <1>4 DEF CursorSound
<1> QED
  BY <1>5, <1>6 DEF RamInv

\* A node that is written to, all but its place in the tree and its count.
LEMMA EditNode ==
  ASSUME NEW t \in Tree, Shape(t), NEW c, AllStored(t, c), NEW q \in DOMAIN t,
         NEW r \in NodeRec, r.name = t[q].name, r.parent = t[q].parent,
         r.is_dir = t[q].is_dir, r.child = t[q].child, r.refs = t[q].refs,
         NEW s, Stored(r, s)
  PROVE  Extends(t, [t EXCEPT ![q] = r], [c EXCEPT ![q] = s])
<1> DEFINE u == [t EXCEPT ![q] = r]
           e == [c EXCEPT ![q] = s]
<1>1. t \in [DOMAIN t -> NodeRec] /\ DOMAIN t \subseteq NodeId
  BY TreeElim
<1>2. u \in [DOMAIN t -> NodeRec] /\ \A x \in DOMAIN t : u[x] = IF x = q THEN r ELSE t[x]
  BY <1>1
<1>3. DOMAIN e = DOMAIN t /\ \A x \in DOMAIN t : e[x] = IF x = q THEN s ELSE c[x]
  BY DEF AllStored
<1> HIDE DEF u, e
<1>4. u \in Tree /\ DOMAIN u = DOMAIN t
  BY <1>1, <1>2, TreeIntro
<1>5. SameTree(t, u)
  BY <1>2, <1>4 DEF SameTree
<1>6. Shape(u) /\ Keeps(t, u)
  BY <1>5, SameShape, SameKeeps
<1>7. SameRefs(t, u)
  BY <1>2, <1>4 DEF SameRefs, Refs
<1>8. AllStored(u, e)
  BY <1>2, <1>3, <1>4 DEF AllStored
<1> QED
  BY <1>4, <1>6, <1>7, <1>8 DEF Extends, u, e

-----------------------------------------------------------------------------
(* The steps, one by one.                                                  *)

\* The references of a handle and a cursor.
UsesOf(h, c, q) ==
  Count(h # NULL /\ h.n = q) + Count(c # NULL /\ c.n = q) + Count(c # NULL /\ c.pos = q)

\* A caller's step that removes nothing: the tree becomes u, its handle h, its cursor c,
\* and the counts follow.
CallerMoves(p, u, h, c) ==
  /\ Extends(node, u, content') /\ OnlyRefs(u, node')
  /\ h \in Handle \cup {NULL} /\ file' = [file EXCEPT ![p] = h]
  /\ c \in Cursor \cup {NULL} /\ dir' = [dir EXCEPT ![p] = c]
  /\ c # NULL => CursorSound(node, c)
  /\ \A q \in NodeId : Refs(node', q) = Refs(u, q) - UsesOf(file[p], dir[p], q) + UsesOf(h, c, q)

\* Such a step keeps the invariant.
LEMMA CallerStep ==
  ASSUME IsFiniteSet(Proc), RamInv, NEW p \in Proc, NEW u, NEW h, NEW c, CallerMoves(p, u, h, c)
  PROVE  RamInv'
<1> USE DEF CallerMoves
<1>1. /\ RefsCounted
      /\ file \in [Proc -> Handle \cup {NULL}] /\ dir \in [Proc -> Cursor \cup {NULL}]
  BY DEF RamInv, RamType
<1>2. /\ \A r \in Proc : file'[r] = IF r = p THEN h ELSE file[r]
      /\ \A r \in Proc : dir'[r] = IF r = p THEN c ELSE dir[r]
  BY <1>1
<1>3. RamType'
  <2>1. node' \in Tree
    BY DEF OnlyRefs
  <2>2. /\ file' \in [Proc -> Handle \cup {NULL}] /\ dir' \in [Proc -> Cursor \cup {NULL}]
    BY <1>1
  <2> QED
    BY <2>1, <2>2 DEF RamType
<1>4. RefsCounted'
  <2>1. \A r \in Proc \ {p} : file'[r] = file[r] /\ dir'[r] = dir[r]
    BY <1>2
  <2>2. ASSUME NEW q \in NodeId
        PROVE  Refs(node', q) = Refs(node, q) - Uses(p, q) + Uses(p, q)'
    <3>1. Uses(p, q) = UsesOf(file[p], dir[p], q)
      BY DEF Uses, UsesOf, Holds, Lists, Stops
    <3>2. Uses(p, q)' = UsesOf(h, c, q)
      BY <1>2 DEF Uses, UsesOf, Holds, Lists, Stops
    <3>3. Refs(u, q) = Refs(node, q)
      BY DEF Extends, SameRefs
    <3> QED
      BY <3>1, <3>2, <3>3
  <2> QED
    BY <1>1, <2>1, <2>2, UserStep
<1>5. ASSUME NEW r \in Proc, dir'[r] # NULL PROVE CursorSound(node, dir'[r])
  BY <1>2, <1>5 DEF RamInv
<1> QED
  BY <1>3, <1>4, <1>5, ExtendStep

\* At first nothing is mounted, and nothing open.
LEMMA InitRam == ASSUME Init PROVE RamInv
<1>1. node \in Tree /\ DOMAIN node = {} /\ DOMAIN content = {}
  <2>1. node \in [{} -> NodeRec] /\ {} \subseteq NodeId
    BY DEF Init
  <2>2. DOMAIN content = {}
    BY DEF Init
  <2> QED
    BY <2>1, <2>2, TreeIntro
<1>2. RamType
  BY <1>1 DEF RamType, Init
<1>3. RefsCounted
  <2> SUFFICES ASSUME NEW q \in NodeId PROVE Refs(node, q) = Users(q)
    BY DEF RefsCounted
  <2>1. /\ {p \in Proc : Holds(p, q)} = {}
        /\ {p \in Proc : Lists(p, q)} = {}
        /\ {p \in Proc : Stops(p, q)} = {}
    BY DEF Init, Holds, Lists, Stops
  <2>2. Users(q) = 0
    BY <2>1, FS_EmptySet DEF Users
  <2> QED
    BY <1>1, <2>2 DEF Refs
<1>4. Shape(node) /\ AllStored(node, content)
  BY <1>1 DEF Shape, Parented, Sorted, Linked, AllStored
<1> QED
  BY <1>2, <1>3, <1>4 DEF RamInv, Init

\* When nobody has anything open, a tree without counts is as good as another.
LEMMA NobodyStep ==
  ASSUME RamInv, \A p \in Proc : file[p] = NULL /\ dir[p] = NULL, UNCHANGED <<file, dir>>,
         node' \in Tree, Shape(node'), AllStored(node', content'),
         \A q \in NodeId : Refs(node', q) = 0
  PROVE  RamInv'
<1>1. RefsCounted'
  <2> SUFFICES ASSUME NEW q \in NodeId PROVE Refs(node', q) = Users(q)'
    BY DEF RefsCounted, Refs
  <2>1. /\ {p \in Proc : Holds(p, q)'} = {}
        /\ {p \in Proc : Lists(p, q)'} = {}
        /\ {p \in Proc : Stops(p, q)'} = {}
    BY DEF Holds, Lists, Stops
  <2>2. Users(q)' = 0
    BY <2>1, FS_EmptySet DEF Users
  <2> QED
    BY <2>2
<1>2. RamType'
  BY DEF RamInv, RamType
<1>3. Shape(node)' /\ AllStored(node, content)'
  BY DEF Shape, Parented, Sorted, Linked, AllStored, Stored
<1> QED
  BY <1>1, <1>2, <1>3 DEF RamInv

\* ramfs_mount makes the root where nothing was mounted, so nothing open.
LEMMA MountRam == ASSUME IsFiniteSet(Proc), RamInv, ramfs_mount PROVE RamInv'
<1>1. /\ RefsCounted /\ RamType /\ Shape(node) /\ ~Mounted
  BY DEF RamInv, ramfs_mount
<1>2. DOMAIN node = {}
  BY <1>1 DEF Shape, Mounted
<1>3. ASSUME NEW p \in Proc PROVE file[p] = NULL /\ dir[p] = NULL
  <2>1. file[p] \in Handle \cup {NULL} /\ dir[p] \in Cursor \cup {NULL}
    BY <1>1 DEF RamType
  <2>2. \A q \in NodeId : ~Holds(p, q) /\ ~Lists(p, q)
    BY <1>1, <1>2, UsedAllocated
  <2>3. file[p] # NULL => file[p].n \in NodeId /\ Holds(p, file[p].n)
    BY <2>1 DEF Handle, Holds
  <2>4. dir[p] # NULL => dir[p].n \in NodeId /\ Lists(p, dir[p].n)
    BY <2>1 DEF Cursor, Lists
  <2> QED
    BY <2>2, <2>3, <2>4
<1> DEFINE r == NewNode(0, NULL, TRUE)
<1>4. r \in NodeRec /\ r.child = <<>> /\ r.is_dir = TRUE /\ r.refs = 0
  <2>1. 0 \in Nat /\ NULL \in NodeId \cup {NULL} /\ TRUE \in BOOLEAN
    OBVIOUS
  <2> QED
    BY <2>1, NewNodeType, Zenon
<1>5. DOMAIN node' = {Root} /\ node'[Root] = r /\ node' \in [{Root} -> NodeRec]
  BY <1>4 DEF ramfs_mount
<1>6. DOMAIN content' = {Root} /\ content'[Root] = <<>> /\ UNCHANGED <<file, dir>>
  BY DEF ramfs_mount
<1> HIDE DEF r
<1>7. node' \in Tree
  BY <1>5, NullNoNode, TreeIntro
<1>8. Shape(node')
  <2>1. Len(node'[Root].child) = 0
    BY <1>4, <1>5
  <2>2. Parented(node')
    BY <1>5, <2>1 DEF Parented
  <2>3. Sorted(node')
    BY <1>5, <2>1 DEF Sorted
  <2>4. Linked(node')
    BY <1>5 DEF Linked
  <2> QED
    BY <1>5, <2>2, <2>3, <2>4 DEF Shape
<1>9. AllStored(node', content')
  <2>1. Stored(node'[Root], content'[Root])
    BY <1>4, <1>5, <1>6, EmptySeq DEF Stored
  <2> QED
    BY <1>5, <1>6, <2>1 DEF AllStored
<1>10. \A q \in NodeId : Refs(node', q) = 0
  BY <1>4, <1>5 DEF Refs
<1> QED
  BY <1>3, <1>6, <1>7, <1>8, <1>9, <1>10, NobodyStep

\* ramfs_unmount frees a tree nobody uses.
LEMMA UnmountRam == ASSUME RamInv, ramfs_unmount PROVE RamInv'
<1>1. /\ \A p \in Proc : file[p] = NULL /\ dir[p] = NULL
      /\ UNCHANGED <<file, dir>>
  BY DEF ramfs_unmount
<1>2. node' \in [{} -> NodeRec] /\ DOMAIN node' = {} /\ DOMAIN content' = {}
  BY DEF ramfs_unmount
<1>3. node' \in Tree
  BY <1>2, TreeIntro
<1>4. Shape(node') /\ AllStored(node', content') /\ \A q \in NodeId : Refs(node', q) = 0
  BY <1>2 DEF Shape, Parented, Sorted, Linked, AllStored, Refs
<1> QED
  BY <1>1, <1>3, <1>4, NobodyStep

\* What the invariant says of a caller.
LEMMA CallerFacts ==
  ASSUME IsFiniteSet(Proc), RamInv, NEW p \in Proc
  PROVE  /\ file[p] \in Handle \cup {NULL} /\ dir[p] \in Cursor \cup {NULL}
         /\ file[p] # NULL => file[p] \in Handle /\ file[p].n \in DOMAIN node
         /\ dir[p] # NULL => dir[p] \in Cursor /\ CursorSound(node, dir[p])
         /\ file = [file EXCEPT ![p] = file[p]] /\ dir = [dir EXCEPT ![p] = dir[p]]
<1>1. /\ file \in [Proc -> Handle \cup {NULL}] /\ dir \in [Proc -> Cursor \cup {NULL}]
      /\ RefsCounted
  BY DEF RamInv, RamType
<1>2. file[p] \in Handle \cup {NULL} /\ dir[p] \in Cursor \cup {NULL}
  BY <1>1
<1>3. ASSUME file[p] # NULL PROVE file[p].n \in DOMAIN node
  <2>1. file[p].n \in NodeId /\ Holds(p, file[p].n)
    BY <1>2, <1>3 DEF Handle, Holds
  <2> QED
    BY <1>1, <2>1, UsedAllocated
<1>4. dir[p] # NULL => CursorSound(node, dir[p])
  BY DEF RamInv
<1>5. file = [file EXCEPT ![p] = file[p]] /\ dir = [dir EXCEPT ![p] = dir[p]]
  BY <1>1
<1> QED
  BY <1>2, <1>3, <1>4, <1>5

\* The tree as it is.
LEMMA NodeFacts ==
  ASSUME RamInv
  PROVE  /\ node \in Tree /\ Shape(node) /\ AllStored(node, content)
         /\ Extends(node, node, content) /\ OnlyRefs(node, node)
         /\ \A q : Refs(node, q) \in Int
<1>1. node \in Tree /\ Shape(node) /\ AllStored(node, content)
  BY DEF RamInv, RamType
<1>2. Extends(node, node, content)
  BY <1>1, ExtendsSelf
<1>3. OnlyRefs(node, node)
  BY <1>1 DEF OnlyRefs, SameTree
<1>4. \A q : Refs(node, q) \in Int
  BY <1>1, TreeNode DEF Refs
<1> QED
  BY <1>1, <1>2, <1>3, <1>4

\* A count is a number.
LEMMA UsesInt == ASSUME NEW h, NEW c, NEW q PROVE UsesOf(h, c, q) \in Int
BY DEF UsesOf, Count

\* ramfs_close gives its pin back.
LEMMA CloseRam ==
  ASSUME IsFiniteSet(Proc), RamInv, NEW p \in Proc, ramfs_close(p) PROVE RamInv'
<1> DEFINE n == file[p].n
           k == node[n].refs - 1
           c == dir[p]
<1>1. file[p] # NULL /\ n \in DOMAIN node
  BY CallerFacts DEF ramfs_close
<1>2. node \in Tree /\ Extends(node, node, content)
  BY NodeFacts
<1>3. node[n].refs \in Int /\ k \in Int /\ n \in NodeId
  BY <1>1, <1>2, TreeNode
<1>4. node' = Put(node, n, k)
  <2>1. node \in [DOMAIN node -> NodeRec]
    BY <1>2, TreeElim
  <2> QED
    BY <1>1, <2>1 DEF ramfs_close, Put
<1>5. file' = [file EXCEPT ![p] = NULL] /\ dir' = dir /\ content' = content
  BY DEF ramfs_close
<1>6. OnlyRefs(node, node') /\ \A q \in NodeId : Refs(node', q) = IF q = n THEN k ELSE Refs(node, q)
  <2> HIDE DEF n, k
  <2> QED
    BY <1>1, <1>2, <1>3, <1>4, PutOnly, SetRefs
<1>7. Refs(node, n) = k + 1
  BY <1>1, <1>3 DEF Refs
<1>8. c \in Cursor \cup {NULL} /\ dir = [dir EXCEPT ![p] = c] /\ (c # NULL => CursorSound(node, c))
  BY CallerFacts
<1>9. ASSUME NEW q \in NodeId
      PROVE  Refs(node', q) = Refs(node, q) - UsesOf(file[p], c, q) + UsesOf(NULL, c, q)
  <2>1. UsesOf(file[p], c, q) = (IF q = n THEN 1 ELSE 0) + UsesOf(NULL, c, q)
    BY <1>1 DEF UsesOf, Count
  <2>2. UsesOf(NULL, c, q) \in Int /\ Refs(node, q) \in Int
    BY UsesInt, NodeFacts
  <2>3. k \in Int
    BY <1>3
  <2> HIDE DEF n, k, c
  <2>4. CASE q = n
    BY <1>6, <1>7, <2>1, <2>2, <2>3, <2>4
  <2>5. CASE q # n
    BY <1>6, <2>1, <2>2, <2>5
  <2> QED
    BY <2>4, <2>5
<1>10. dir' = [dir EXCEPT ![p] = c]
  BY <1>5, <1>8
<1>11. Extends(node, node, content')
  BY <1>2, <1>5
<1> HIDE DEF n, k
<1> QED
  <2>1. CallerMoves(p, node, NULL, c)
    BY <1>5, <1>6, <1>8, <1>9, <1>10, <1>11 DEF CallerMoves
  <2> QED
    BY <2>1, CallerStep

\* A handle that moves keeps its node: ramfs_read and ramfs_seek.
LEMMA MoveStep ==
  ASSUME IsFiniteSet(Proc), RamInv, NEW p \in Proc, file[p] # NULL, NEW v \in Nat,
         file' = [file EXCEPT ![p] = [file[p] EXCEPT !.pos = v]],
         UNCHANGED <<node, dir, content>>
  PROVE  RamInv'
<1> DEFINE c == dir[p]
           h == [file[p] EXCEPT !.pos = v]
<1>1. file[p] \in Handle
  BY CallerFacts
<1>2. h \in Handle /\ h.n = file[p].n /\ h # NULL
  BY <1>1, NullDiffers DEF Handle
<1>3. c \in Cursor \cup {NULL} /\ dir' = [dir EXCEPT ![p] = c] /\ (c # NULL => CursorSound(node, c))
  BY CallerFacts
<1>4. Extends(node, node, content') /\ OnlyRefs(node, node')
  BY NodeFacts
<1>5. file' = [file EXCEPT ![p] = h]
  OBVIOUS
<1> HIDE DEF h, c
<1>6. ASSUME NEW q \in NodeId
      PROVE  Refs(node', q) = Refs(node, q) - UsesOf(file[p], dir[p], q) + UsesOf(h, c, q)
  <2>1. UsesOf(file[p], dir[p], q) = UsesOf(h, c, q)
    BY <1>2 DEF UsesOf, c
  <2>2. UsesOf(h, c, q) \in Int /\ Refs(node, q) \in Int
    BY UsesInt, NodeFacts
  <2> QED
    BY <2>1, <2>2
<1>7. h \in Handle \cup {NULL}
  BY <1>2
<1> QED
  <2>1. CallerMoves(p, node, h, c)
    BY <1>3, <1>4, <1>5, <1>6, <1>7 DEF CallerMoves
  <2> QED
    BY <2>1, CallerStep

\* What EXCEPT means on a field of a caller.
LEMMA FieldOfFile ==
  ASSUME RamInv, NEW p \in Proc, NEW v
  PROVE  [file EXCEPT ![p].pos = v] = [file EXCEPT ![p] = [file[p] EXCEPT !.pos = v]]
BY DEF RamInv, RamType

\* ramfs_read moves the position by what it read.
LEMMA ReadRam ==
  ASSUME IsFiniteSet(Proc), RamInv, NEW p \in Proc, NEW len \in 1 .. 2, ramfs_read(p, len)
  PROVE  RamInv'
<1> DEFINE f == file[p]
           size == node[f.n].size
           avail == IF size > f.pos THEN size - f.pos ELSE 0
           v == f.pos + (IF len > avail THEN avail ELSE len)
<1>1. f # NULL /\ f \in Handle /\ f.n \in DOMAIN node
  BY CallerFacts DEF ramfs_read, IsFile
<1>2. f.pos \in Nat /\ size \in Nat
  BY <1>1, NodeFacts, TreeNode DEF Handle
<1>3. v \in Nat
  <2> HIDE DEF f, size
  <2> QED
    BY <1>2
<1>4. file' = [file EXCEPT ![p].pos = v] /\ UNCHANGED <<node, dir, content>>
  BY DEF ramfs_read, RamInv, RamType
<1> HIDE DEF v
<1>5. file' = [file EXCEPT ![p] = [file[p] EXCEPT !.pos = v]]
  BY <1>4, FieldOfFile
<1> QED
  BY <1>1, <1>3, <1>4, <1>5, MoveStep

\* ramfs_seek moves it anywhere.
LEMMA SeekRam ==
  ASSUME IsFiniteSet(Proc), RamInv, NEW p \in Proc, NEW pos \in 0 .. MaxPos, ramfs_seek(p, pos)
  PROVE  RamInv'
<1>1. /\ file' = [file EXCEPT ![p].pos = pos] /\ UNCHANGED <<node, dir, content>>
      /\ file[p] # NULL /\ pos \in Nat
  BY RamfsAssumption DEF ramfs_seek, IsFile
<1>2. file' = [file EXCEPT ![p] = [file[p] EXCEPT !.pos = pos]]
  BY <1>1, FieldOfFile
<1> QED
  BY <1>1, <1>2, MoveStep

\* One more pin on an allocated node.
Pin(t, q) == [t EXCEPT ![q].refs = @ + 1]

\* It is counted there and nowhere else.
LEMMA PinNode ==
  ASSUME NEW t \in Tree, NEW q \in DOMAIN t
  PROVE  /\ OnlyRefs(t, Pin(t, q))
         /\ \A r \in NodeId : Refs(Pin(t, q), r) = Refs(t, r) + (IF r = q THEN 1 ELSE 0)
<1> DEFINE k == t[q].refs + 1
<1>1. t[q].refs \in Int /\ k \in Int
  BY TreeNode
<1>2. Pin(t, q) = Put(t, q, k)
  <2>1. t \in [DOMAIN t -> NodeRec]
    BY TreeElim
  <2> QED
    BY <2>1 DEF Put, Pin
<1>3. k = Refs(t, q) + 1
  BY DEF Refs
<1>4. \A r : Refs(t, r) \in Int
  BY TreeNode DEF Refs
<1>5. k \in Int
  BY <1>1
<1> HIDE DEF k
<1>6. /\ OnlyRefs(t, Put(t, q, k))
      /\ \A r \in NodeId : Refs(Put(t, q, k), r) = IF r = q THEN k ELSE Refs(t, r)
  BY <1>5, PutOnly, SetRefs
<1>7. ASSUME NEW r \in NodeId PROVE Refs(Put(t, q, k), r) = Refs(t, r) + (IF r = q THEN 1 ELSE 0)
  <2>1. CASE r = q
    BY <1>3, <1>6, <2>1
  <2>2. CASE r # q
    BY <1>4, <1>6, <2>2
  <2> QED
    BY <2>1, <2>2
<1> QED
  BY <1>2, <1>6, <1>7

\* ramfs_opendir starts a listing: all children are kept, none is seen.
LEMMA OpendirRam ==
  ASSUME IsFiniteSet(Proc), RamInv, NEW p \in Proc, NEW path \in DirPath \cup {<<>>},
         ramfs_opendir(p, path)
  PROVE  RamInv'
<1> DEFINE n == ramfs_lookup(path).n
           ch == node[n].child
           c == [n |-> n, pos |-> NULL, done |-> FALSE, kept |-> ToSet(ch), seen |-> <<>>]
           h == file[p]
<1>1. node \in Tree /\ Shape(node) /\ Extends(node, node, content)
  BY NodeFacts
<1>2. n \in DOMAIN node
  <2>1. path \in Seq(Nat) /\ Mounted
    BY RamfsAssumption, EmptySeq DEF ramfs_opendir
  <2>2. ramfs_lookup(path) \in Found
    BY <1>1, <2>1, LookupFinds
  <2> QED
    BY <2>2 DEF Found
<1>3. /\ dir[p] = NULL /\ node' = Pin(node, n)
      /\ dir' = [dir EXCEPT ![p] = c] /\ file' = file /\ content' = content
  BY DEF ramfs_opendir, Pin
<1>4. /\ n \in NodeId /\ ch \in Seq(NodeId) /\ DOMAIN ch = 1 .. Len(ch) /\ Len(ch) \in Nat
  BY <1>1, <1>2, TreeNode
<1>5. ToSet(ch) \subseteq NodeId /\ \A x \in ToSet(ch) : \E k \in 1 .. Len(ch) : ch[k] = x
  <2> HIDE DEF ch
  <2> QED
    BY <1>4 DEF ToSet
<1>6. c \in Cursor
  <2>1. <<>> \in Seq(Nat)
    BY EmptySeq
  <2> HIDE DEF n, ch
  <2> QED
    BY <1>4, <1>5, <2>1 DEF Cursor
<1>7. c.n = n /\ c.pos = NULL /\ c.done = FALSE /\ c.kept = ToSet(ch) /\ c.seen = <<>>
  OBVIOUS
<1>8. CursorSound(node, c)
  <2>1. \A x \in c.kept : x \in DOMAIN node /\ \E k \in 1 .. Len(node[c.n].child) : node[c.n].child[k] = x
    BY <1>1, <1>2, <1>5, <1>7 DEF Shape, Parented
  <2>2. Len(c.seen) = 0
    BY <1>7
  <2> HIDE DEF c, ch, n
  <2> QED
    BY <1>2, <1>7, <2>1, <2>2 DEF CursorSound
<1>9. OnlyRefs(node, node') /\ \A q \in NodeId : Refs(node', q) = Refs(node, q) + (IF q = n THEN 1 ELSE 0)
  <2>1. node' = Pin(node, n) /\ node \in Tree
    BY <1>1, <1>3
  <2> HIDE DEF n
  <2>2. /\ OnlyRefs(node, Pin(node, n))
        /\ \A q \in NodeId : Refs(Pin(node, n), q) = Refs(node, q) + (IF q = n THEN 1 ELSE 0)
    BY <1>2, <2>1, PinNode
  <2> QED
    BY <2>1, <2>2
<1>10. c # NULL
  BY <1>6, NullDiffers
<1> HIDE DEF c, ch, n
<1>11. ASSUME NEW q \in NodeId
       PROVE  Refs(node', q) = Refs(node, q) - UsesOf(h, dir[p], q) + UsesOf(h, c, q)
  <2>1. UsesOf(h, c, q) = (IF q = n THEN 1 ELSE 0) + UsesOf(h, dir[p], q)
    BY <1>3, <1>4, <1>7, <1>10, NullNoNode DEF UsesOf, Count
  <2>2. UsesOf(h, dir[p], q) \in Int /\ Refs(node, q) \in Int
    BY UsesInt, NodeFacts
  <2> HIDE DEF h
  <2> QED
    BY <1>9, <2>1, <2>2
<1>12. h \in Handle \cup {NULL} /\ file' = [file EXCEPT ![p] = h]
  BY <1>3, CallerFacts
<1>13. CallerMoves(p, node, h, c)
  BY <1>1, <1>3, <1>6, <1>8, <1>9, <1>11, <1>12 DEF CallerMoves
<1> QED
  BY <1>13, CallerStep

\* ramfs_closedir lets go of the directory and of the child it stands at.
LEMMA ClosedirRam ==
  ASSUME IsFiniteSet(Proc), RamInv, NEW p \in Proc, ramfs_closedir(p) PROVE RamInv'
<1> DEFINE d == dir[p]
           h == file[p]
           f == [x \in DOMAIN node |-> node[x].refs - (IF x = d.pos THEN 1 ELSE 0)
                                                    - (IF x = d.n THEN 1 ELSE 0)]
<1>1. node \in Tree /\ Extends(node, node, content)
  BY NodeFacts
<1>2. d # NULL /\ d.n \in DOMAIN node /\ (d.pos # NULL => d.pos \in DOMAIN node)
  BY CallerFacts DEF ramfs_closedir, CursorSound
<1>3. f \in [DOMAIN node -> Int]
  BY <1>1, TreeNode
<1>4. node' = WithRefs(node, f)
  BY DEF ramfs_closedir, WithRefs
<1>5. dir' = [dir EXCEPT ![p] = NULL] /\ file' = file /\ content' = content
  BY DEF ramfs_closedir
<1>6. \A x \in DOMAIN node : f[x] = Refs(node, x) - (IF x = d.pos THEN 1 ELSE 0)
                                                  - (IF x = d.n THEN 1 ELSE 0)
  BY DEF Refs
<1> HIDE DEF f
<1>7. /\ OnlyRefs(node, node')
      /\ \A x \in DOMAIN node : Refs(node', x) = f[x]
      /\ \A x : x \notin DOMAIN node => Refs(node', x) = 0
  BY <1>1, <1>3, <1>4, WithRefsOnly
<1>8. ASSUME NEW q \in NodeId
      PROVE  Refs(node', q) = Refs(node, q) - UsesOf(h, d, q) + UsesOf(h, NULL, q)
  <2>1. UsesOf(h, d, q) = UsesOf(h, NULL, q) + (IF q = d.pos THEN 1 ELSE 0)
                                             + (IF q = d.n THEN 1 ELSE 0)
    BY <1>2 DEF UsesOf, Count
  <2>2. UsesOf(h, NULL, q) \in Int /\ Refs(node, q) \in Int
    BY UsesInt, NodeFacts
  <2> HIDE DEF h, d
  <2>3. CASE q \in DOMAIN node
    BY <1>6, <1>7, <2>1, <2>2, <2>3
  <2>4. CASE q \notin DOMAIN node
    <3>1. q # d.pos /\ q # d.n
      BY <1>2, <2>4, NullNoNode
    <3>2. Refs(node, q) = 0 /\ Refs(node', q) = 0
      BY <1>7, <2>4 DEF Refs
    <3> QED
      BY <2>1, <2>2, <3>1, <3>2
  <2> QED
    BY <2>3, <2>4
<1>9. h \in Handle \cup {NULL} /\ file' = [file EXCEPT ![p] = h]
  BY <1>5, CallerFacts
<1>10. CallerMoves(p, node, h, NULL)
  BY <1>1, <1>5, <1>7, <1>8, <1>9 DEF CallerMoves
<1> QED
  BY <1>10, CallerStep

\* The node that ramfs_readdir goes to.
NextOf(d) ==
  IF d.pos # NULL THEN Sibling(d.pos)
  ELSE IF node[d.n].child = <<>> THEN NULL ELSE Head(node[d.n].child)

\* Next is the child with the next name.
IsNext(d, next) ==
  /\ next \in DOMAIN node \ {Root} /\ node[next].parent = d.n
  /\ d.pos # NULL => node[d.pos].name < node[next].name
  /\ \A k \in 1 .. Len(node[d.n].child) :
       node[node[d.n].child[k]].name <= node[next].name =>
         \/ node[d.n].child[k] = next
         \/ d.pos # NULL /\ node[node[d.n].child[k]].name <= node[d.pos].name

\* There is none.
AtEnd(d) ==
  \A k \in 1 .. Len(node[d.n].child) :
    d.pos # NULL /\ node[node[d.n].child[k]].name <= node[d.pos].name

\* The sibling list leads from each child to the next.
LEMMA NextChild ==
  ASSUME node \in Tree, Shape(node), NEW d, CursorSound(node, d)
  PROVE  \/ NextOf(d) = NULL /\ AtEnd(d)
         \/ NextOf(d) # NULL /\ IsNext(d, NextOf(d))
<1> DEFINE ch == node[d.n].child
           m == Len(ch)
<1>1. d.n \in DOMAIN node
  BY DEF CursorSound
<1>2. ch \in Seq(NodeId) /\ m \in Nat /\ DOMAIN ch = 1 .. m
  BY <1>1, TreeNode
<1>3. \A k \in 1 .. m : ch[k] \in DOMAIN node \ {Root} /\ node[ch[k]].parent = d.n
                        /\ ch[k] # NULL /\ node[ch[k]].name \in Nat
  <2>1. \A k \in 1 .. m : ch[k] \in DOMAIN node \ {Root} /\ node[ch[k]].parent = d.n
    BY <1>1 DEF Shape, Parented
  <2>2. \A x \in DOMAIN node : x # NULL /\ node[x].name \in Nat
    BY TreeNode, NullNoNode
  <2> HIDE DEF ch, m
  <2> QED
    BY <2>1, <2>2
<1>4. \A j, k \in 1 .. m : j < k => node[ch[j]].name < node[ch[k]].name
  BY <1>1 DEF Shape, Sorted
<1>5. CASE d.pos = NULL
  <2>1. CASE ch = <<>>
    BY <1>5, <2>1 DEF NextOf, AtEnd
  <2>2. CASE ch # <<>>
    <3>1. NextOf(d) = ch[1] /\ 1 \in 1 .. m
      <4>1. NextOf(d) = Head(ch)
        BY <1>5, <2>2 DEF NextOf
      <4> HIDE DEF ch
      <4> QED
        BY <1>2, <2>2, <4>1, EmptySeq DEF m
    <3> HIDE DEF ch, m
    <3>2. \A k \in 1 .. m : k # 1 => node[ch[1]].name < node[ch[k]].name
      BY <1>2, <1>4, <3>1
    <3>3. ASSUME NEW k \in 1 .. m, node[ch[k]].name <= node[ch[1]].name PROVE ch[k] = ch[1]
      <4>1. node[ch[k]].name \in Nat /\ node[ch[1]].name \in Nat
        BY <1>3, <3>1
      <4> QED
        BY <3>2, <3>3, <4>1
    <3>4. IsNext(d, ch[1])
      BY <1>3, <1>5, <3>1, <3>3 DEF IsNext, ch, m
    <3> QED
      BY <1>3, <3>1, <3>4
  <2> QED
    BY <2>1, <2>2
<1>6. CASE d.pos # NULL
  <2> DEFINE x == d.pos
             k == Place(node, x)
  <2>1. x \in DOMAIN node \ {Root} /\ node[x].parent = d.n
    BY <1>6 DEF CursorSound
  <2>2. \E j \in 1 .. m : ch[j] = x
    BY <2>1 DEF Shape, Linked
  <2>3. k = CHOOSE j \in DOMAIN ch : ch[j] = x
    BY <2>1 DEF Place
  <2>4. NextOf(d) = IF k = m THEN NULL ELSE ch[k + 1]
    BY <1>6, <2>1 DEF NextOf, Sibling
  <2>5. x # NULL
    BY <1>6
  <2> HIDE DEF ch, m, k, x
  <2>6. k \in 1 .. m /\ ch[k] = x
    BY <1>2, <2>2, <2>3
  <2>7. ASSUME NEW j \in 1 .. m, ~(k < j) PROVE node[ch[j]].name <= node[x].name
    <3>1. node[ch[j]].name \in Nat /\ node[x].name \in Nat
      BY <1>3, <2>6
    <3>2. j < k \/ j = k
      BY <1>2, <2>6, <2>7
    <3>3. node[ch[j]].name < node[x].name \/ j = k
      BY <1>4, <2>6, <3>2
    <3> QED
      BY <2>6, <3>1, <3>3
  <2>8. CASE k = m
    <3>1. \A j \in 1 .. m : ~(k < j)
      BY <1>2, <2>8
    <3>2. AtEnd(d)
      BY <2>5, <2>7, <3>1 DEF AtEnd, ch, m, x
    <3> QED
      BY <2>4, <2>8, <3>2
  <2>9. CASE k # m
    <3>1. k + 1 \in 1 .. m /\ k < k + 1
      BY <1>2, <2>6, <2>9
    <3> DEFINE y == ch[k + 1]
    <3>2. y \in DOMAIN node \ {Root} /\ node[y].parent = d.n /\ y # NULL /\ node[y].name \in Nat
      BY <1>3, <3>1
    <3>3. node[x].name < node[y].name
      BY <1>4, <2>6, <3>1
    <3>4. ASSUME NEW j \in 1 .. m, node[ch[j]].name <= node[y].name
          PROVE  ch[j] = y \/ node[ch[j]].name <= node[x].name
      <4>1. CASE ~(k < j)
        BY <2>7, <4>1
      <4>2. CASE k < j
        <5>1. j = k + 1 \/ k + 1 < j
          BY <1>2, <2>6, <4>2
        <5>2. ASSUME k + 1 < j PROVE FALSE
          <6>1. node[y].name < node[ch[j]].name /\ node[ch[j]].name \in Nat
            BY <1>3, <1>4, <3>1, <5>2
          <6> QED
            BY <3>2, <3>4, <6>1
        <5> QED
          BY <5>1, <5>2
      <4> QED
        BY <4>1, <4>2
    <3> HIDE DEF y
    <3>5. IsNext(d, y)
      BY <2>5, <3>2, <3>3, <3>4 DEF IsNext, ch, m, x
    <3> QED
      BY <2>4, <2>9, <3>2, <3>5 DEF y
  <2> QED
    BY <2>8, <2>9
<1> QED
  BY <1>5, <1>6

\* The cursor after a name was returned.
Stepped(d, next) ==
  [d EXCEPT !.pos = next, !.done = FALSE, !.seen = Append(d.seen, node[next].name)]

\* It is as sound as before: everybody kept up to the new name has been seen.
LEMMA SteppedSound ==
  ASSUME node \in Tree, Shape(node), NEW d \in Cursor, CursorSound(node, d),
         NEW next, IsNext(d, next)
  PROVE  Stepped(d, next) \in Cursor /\ CursorSound(node, Stepped(d, next))
<1> DEFINE e == Stepped(d, next)
           s == d.seen
           v == node[next].name
<1>1. /\ d.n \in NodeId /\ d.pos \in NodeId \cup {NULL} /\ d.kept \in SUBSET NodeId
      /\ s \in Seq(Nat) /\ Len(s) \in Nat
  BY DEF Cursor
<1>2. next \in DOMAIN node \ {Root} /\ node[next].parent = d.n
  BY DEF IsNext
<1>3. next \in NodeId /\ v \in Nat /\ next # NULL
  BY <1>2, TreeNode, NullNoNode
<1>4. /\ e.n = d.n /\ e.pos = next /\ e.done = FALSE /\ e.kept = d.kept /\ e.seen = Append(s, v)
  BY DEF Stepped, Cursor
<1> HIDE DEF s, v
<1>5. /\ Append(s, v) \in Seq(Nat) /\ Len(Append(s, v)) = Len(s) + 1
      /\ \A i \in 1 .. Len(s) : Append(s, v)[i] = s[i]
      /\ Append(s, v)[Len(s) + 1] = v
  BY <1>1, <1>3, AppendProperties
<1>6. e \in Cursor
  BY <1>1, <1>3, <1>5 DEF Cursor, Stepped, s, v
<1> HIDE DEF e
<1>7. e.n \in DOMAIN node
  BY <1>4 DEF CursorSound
<1>8. /\ e.pos # NULL /\ e.pos \in DOMAIN node \ {Root} /\ node[e.pos].parent = e.n
      /\ e.seen[Len(e.seen)] = node[e.pos].name /\ e.seen # <<>>
  <2>1. Append(s, v) # <<>>
    BY <1>1, <1>5, EmptySeq
  <2> QED
    BY <1>2, <1>3, <1>4, <1>5, <2>1 DEF v
<1>9. ASSUME NEW i \in 1 .. Len(s) PROVE s[i] < v
  <2>1. d.pos # NULL
    <3>1. s # <<>>
      BY <1>1
    <3> QED
      BY <3>1 DEF CursorSound, s
  <2>2. s[Len(s)] = node[d.pos].name /\ d.pos \in DOMAIN node
    BY <2>1 DEF CursorSound, s
  <2>3. node[d.pos].name < v
    BY <2>1 DEF IsNext, v
  <2>4. node[d.pos].name \in Nat /\ s[i] \in Nat
    BY <1>1, <2>2, TreeNode
  <2>5. i = Len(s) \/ s[i] < s[Len(s)]
    <3>1. \A a, b \in 1 .. Len(s) : a < b => s[a] < s[b]
      BY DEF CursorSound, s
    <3>2. Len(s) \in 1 .. Len(s) /\ (i = Len(s) \/ i < Len(s))
      BY <1>1
    <3> QED
      BY <3>1, <3>2
  <2> QED
    BY <1>3, <2>2, <2>3, <2>4, <2>5
<1>10. ASSUME NEW i \in 1 .. Len(e.seen), NEW j \in 1 .. Len(e.seen), i < j
       PROVE  e.seen[i] < e.seen[j]
  <2>1. i \in 1 .. Len(s) /\ (j = Len(s) + 1 \/ j \in 1 .. Len(s))
    BY <1>1, <1>4, <1>5, <1>10
  <2>2. CASE j = Len(s) + 1
    BY <1>4, <1>5, <1>9, <2>1, <2>2
  <2>3. CASE j \in 1 .. Len(s)
    <3>1. s[i] < s[j]
      BY <1>10, <2>1, <2>3 DEF CursorSound, s
    <3> QED
      BY <1>4, <1>5, <2>1, <2>3, <3>1
  <2> QED
    BY <2>1, <2>2, <2>3
<1>11. \A x \in e.kept : /\ x \in DOMAIN node
                         /\ \E k \in 1 .. Len(node[e.n].child) : node[e.n].child[k] = x
  BY <1>4 DEF CursorSound
<1>12. ASSUME NEW x \in e.kept, e.done \/ (e.pos # NULL /\ node[x].name <= node[e.pos].name)
       PROVE  \E i \in 1 .. Len(e.seen) : e.seen[i] = node[x].name
  <2>1. node[x].name <= node[next].name
    BY <1>4, <1>12
  <2>2. x = next \/ (d.pos # NULL /\ node[x].name <= node[d.pos].name)
    <3>1. PICK k \in 1 .. Len(node[d.n].child) : node[d.n].child[k] = x
      BY <1>4, <1>11
    <3> QED
      BY <2>1, <3>1 DEF IsNext
  <2>3. CASE x = next
    <3>1. Len(s) + 1 \in 1 .. Len(e.seen)
      BY <1>1, <1>4, <1>5
    <3> QED
      BY <1>4, <1>5, <2>3, <3>1 DEF v
  <2>4. CASE d.pos # NULL /\ node[x].name <= node[d.pos].name
    <3>1. x \in d.kept
      BY <1>4
    <3>2. PICK i \in 1 .. Len(s) : s[i] = node[x].name
      BY <2>4, <3>1 DEF CursorSound, s
    <3>3. i \in 1 .. Len(e.seen)
      BY <1>1, <1>4, <1>5
    <3> QED
      BY <1>4, <1>5, <3>2, <3>3
  <2> QED
    BY <2>2, <2>3, <2>4
<1> QED
  BY <1>6, <1>7, <1>8, <1>10, <1>11, <1>12 DEF CursorSound, e

\* The cursor after the end was met.
Ended(d) == [d EXCEPT !.done = TRUE]

\* It has seen everybody kept.
LEMMA EndedSound ==
  ASSUME NEW d \in Cursor, CursorSound(node, d), AtEnd(d)
  PROVE  Ended(d) \in Cursor /\ CursorSound(node, Ended(d))
<1> DEFINE e == Ended(d)
<1>1. e \in Cursor
  BY DEF Cursor, Ended
<1>2. e.n = d.n /\ e.pos = d.pos /\ e.kept = d.kept /\ e.seen = d.seen
  BY DEF Ended, Cursor
<1> HIDE DEF e
<1>3. ASSUME NEW x \in e.kept PROVE \E i \in 1 .. Len(e.seen) : e.seen[i] = node[x].name
  <2>1. PICK k \in 1 .. Len(node[d.n].child) : node[d.n].child[k] = x
    BY <1>2 DEF CursorSound
  <2>2. d.pos # NULL /\ node[x].name <= node[d.pos].name
    BY <2>1 DEF AtEnd
  <2>3. x \in d.kept
    BY <1>2
  <2>4. \E i \in 1 .. Len(d.seen) : d.seen[i] = node[x].name
    BY <2>2, <2>3 DEF CursorSound
  <2> QED
    BY <1>2, <2>4
<1>4. CursorSound(node, e)
  BY <1>2, <1>3 DEF CursorSound
<1> QED
  BY <1>1, <1>4 DEF e

\* ramfs_readdir pins the next child, lets the last one go, and returns the name.
LEMMA ReaddirRam ==
  ASSUME IsFiniteSet(Proc), RamInv, NEW p \in Proc, ramfs_readdir(p) PROVE RamInv'
<1> DEFINE d == dir[p]
           h == file[p]
           next == NextOf(d)
<1>1. node \in Tree /\ Shape(node) /\ Extends(node, node, content) /\ OnlyRefs(node, node)
  BY NodeFacts
<1>2. d # NULL /\ d \in Cursor /\ CursorSound(node, d)
  BY CallerFacts DEF ramfs_readdir
<1>3. file' = file /\ content' = content
  BY DEF ramfs_readdir
<1>4. h \in Handle \cup {NULL} /\ file' = [file EXCEPT ![p] = h]
  BY <1>3, CallerFacts
<1>5. dir \in [Proc -> Cursor \cup {NULL}]
  BY DEF RamInv, RamType
<1>6. CASE next = NULL
  <2> DEFINE e == Ended(d)
  <2>1. node' = node /\ dir' = [dir EXCEPT ![p].done = TRUE]
    BY <1>6 DEF ramfs_readdir, NextOf
  <2>2. dir' = [dir EXCEPT ![p] = e]
    BY <1>5, <2>1 DEF Ended
  <2>3. AtEnd(d)
    BY <1>1, <1>2, <1>6, NextChild
  <2>4. e \in Cursor /\ CursorSound(node, e)
    BY <1>2, <2>3, EndedSound
  <2>5. e.n = d.n /\ e.pos = d.pos
    BY <1>2 DEF Ended, Cursor
  <2>6. e # NULL
    BY <2>4, NullDiffers
  <2> HIDE DEF e
  <2>7. ASSUME NEW q \in NodeId
        PROVE  Refs(node', q) = Refs(node, q) - UsesOf(h, dir[p], q) + UsesOf(h, e, q)
    <3>1. UsesOf(h, dir[p], q) = UsesOf(h, e, q)
      BY <1>2, <2>5, <2>6 DEF UsesOf
    <3>2. UsesOf(h, e, q) \in Int /\ Refs(node, q) \in Int
      BY UsesInt, NodeFacts
    <3> QED
      BY <2>1, <3>1, <3>2
  <2>8. CallerMoves(p, node, h, e)
    <3>1. Extends(node, node, content') /\ OnlyRefs(node, node')
      BY <1>1, <1>3, <2>1
    <3> QED
      BY <1>4, <2>2, <2>4, <2>7, <3>1 DEF CallerMoves
  <2> QED
    BY <2>8, CallerStep
<1>7. CASE next # NULL
  <2> DEFINE e == Stepped(d, next)
             f == [x \in DOMAIN node |-> IF x = next THEN node[x].refs + 1
                                         ELSE IF x = d.pos THEN node[x].refs - 1 ELSE node[x].refs]
  <2>1. IsNext(d, next)
    BY <1>1, <1>2, <1>7, NextChild
  <2>2. next \in DOMAIN node /\ (d.pos # NULL => d.pos \in DOMAIN node) /\ next # d.pos
    <3>1. next \in DOMAIN node
      BY <2>1 DEF IsNext
    <3>2. d.pos # NULL => d.pos \in DOMAIN node /\ node[d.pos].name < node[next].name
      BY <1>2, <2>1 DEF IsNext, CursorSound
    <3>3. node[next].name \in Nat
      BY <1>1, <3>1, TreeNode
    <3> HIDE DEF next
    <3> QED
      BY <1>7, <3>1, <3>2, <3>3
  <2>3. /\ node' = [x \in DOMAIN node |->
                     IF x = next THEN [node[x] EXCEPT !.refs = @ + 1]
                     ELSE IF x = d.pos THEN [node[x] EXCEPT !.refs = @ - 1] ELSE node[x]]
        /\ dir' = [dir EXCEPT ![p].pos = next, ![p].done = FALSE,
                              ![p].seen = Append(@, node[next].name)]
    BY <1>7 DEF ramfs_readdir, NextOf
  <2> HIDE DEF next
  <2>4. dir' = [dir EXCEPT ![p] = e]
    <3>1. e = [[[d EXCEPT !.pos = next] EXCEPT !.done = FALSE]
                 EXCEPT !.seen = Append(d.seen, node[next].name)]
      BY DEF Stepped
    <3>2. d.seen = [[d EXCEPT !.pos = next] EXCEPT !.done = FALSE].seen
      BY <1>2 DEF Cursor
    <3> HIDE DEF e
    <3> QED
      BY <1>5, <2>3, <3>1, <3>2
  <2>5. e \in Cursor /\ CursorSound(node, e)
    BY <1>1, <1>2, <2>1, SteppedSound
  <2>6. e.n = d.n /\ e.pos = next
    BY <1>2 DEF Stepped, Cursor
  <2>7. e # NULL
    BY <2>5, NullDiffers
  <2>8. f \in [DOMAIN node -> Int]
    BY <1>1, TreeNode
  <2>9. node' = WithRefs(node, f)
    <3>1. \A x \in DOMAIN node : node[x] = [node[x] EXCEPT !.refs = node[x].refs]
      <4>1. \A x \in DOMAIN node : node[x] \in NodeRec
        BY <1>1, TreeNode
      <4> QED
        BY <4>1 DEF NodeRec
    <3> QED
      BY <2>3, <3>1 DEF WithRefs
  <2>10. \A x \in DOMAIN node : f[x] = Refs(node, x) + (IF x = next THEN 1 ELSE 0)
                                                     - (IF x = d.pos THEN 1 ELSE 0)
    <3> SUFFICES ASSUME NEW x \in DOMAIN node
                 PROVE  f[x] = Refs(node, x) + (IF x = next THEN 1 ELSE 0)
                                             - (IF x = d.pos THEN 1 ELSE 0)
      OBVIOUS
    <3>1. node[x].refs \in Int /\ Refs(node, x) = node[x].refs
      BY <1>1, TreeNode DEF Refs
    <3> QED
      BY <2>2, <3>1
  <2> HIDE DEF f, e
  <2>11. /\ OnlyRefs(node, node')
         /\ \A x \in DOMAIN node : Refs(node', x) = f[x]
         /\ \A x : x \notin DOMAIN node => Refs(node', x) = 0
    BY <1>1, <2>8, <2>9, WithRefsOnly
  <2>12. ASSUME NEW q \in NodeId
         PROVE  Refs(node', q) = Refs(node, q) - UsesOf(h, d, q) + UsesOf(h, e, q)
    <3>1. /\ UsesOf(h, d, q) = UsesOf(h, NULL, q) + (IF q = d.n THEN 1 ELSE 0)
                                                  + (IF q = d.pos THEN 1 ELSE 0)
          /\ UsesOf(h, e, q) = UsesOf(h, NULL, q) + (IF q = d.n THEN 1 ELSE 0)
                                                  + (IF q = next THEN 1 ELSE 0)
      BY <1>2, <2>6, <2>7 DEF UsesOf, Count
    <3>2. UsesOf(h, NULL, q) \in Int /\ Refs(node, q) \in Int
      BY UsesInt, NodeFacts
    <3> HIDE DEF h, d
    <3>3. CASE q \in DOMAIN node
      BY <2>10, <2>11, <3>1, <3>2, <3>3
    <3>4. CASE q \notin DOMAIN node
      <4>1. q # d.pos /\ q # next
        BY <2>2, <3>4, NullNoNode
      <4>2. Refs(node, q) = 0 /\ Refs(node', q) = 0
        BY <2>11, <3>4 DEF Refs
      <4> QED
        BY <3>1, <3>2, <4>1, <4>2
    <3> QED
      BY <3>3, <3>4
  <2>13. CallerMoves(p, node, h, e)
    <3>1. Extends(node, node, content')
      BY <1>1, <1>3
    <3> QED
      BY <1>4, <2>4, <2>5, <2>11, <2>12, <3>1 DEF CallerMoves
  <2> QED
    BY <2>13, CallerStep
<1> QED
  BY <1>6, <1>7

-----------------------------------------------------------------------------
(* Making and removing nodes.                                              *)

\* What is not new reads as before.
LEMMA CreatedSame ==
  ASSUME RamInv PROVE AllStored(node, Created(node))
<1>1. AllStored(node, content)
  BY DEF RamInv
<1>2. DOMAIN Created(node) = DOMAIN node /\ \A n \in DOMAIN node : Created(node)[n] = content[n]
  BY <1>1 DEF Created, AllStored
<1> QED
  BY <1>1, <1>2 DEF AllStored

\* ramfs_create_locked fails and leaves the tree, or it makes a node.
LEMMA CreateExtends ==
  ASSUME RamInv, Mounted, NEW path \in Seq(Nat) \ {<<>>}, NEW isDir \in BOOLEAN,
         NEW r \in ramfs_create_locked(path, isDir)
  PROVE  /\ Extends(node, r.node, Created(r.node))
         /\ r.rc = "ok" => r.n \in DOMAIN r.node
<1> DEFINE at == ramfs_lookup(Front(path))
           nm == Last(path)
           d == at.n
           unused == NodeId \ DOMAIN node
           n == CHOOSE x \in unused : \A y \in unused : x <= y
           u == With(node, d, n, nm, isDir)
           Fails == \E e \in {"notdir", "noent", "exist", "nomem"} :
                      r = [rc |-> e, n |-> NULL, node |-> node]
<1>1. node \in Tree /\ Shape(node)
  BY NodeFacts
<1>2. Front(path) \in Seq(Nat) /\ nm \in Nat
  BY FrontLast
<1>3. at \in Found /\ d \in DOMAIN node
  <2>1. at \in Found
    BY <1>1, <1>2, LookupFinds
  <2> HIDE DEF at
  <2> QED
    BY <2>1 DEF Found
<1>4. Fails \/ (/\ ramfs_child_find(d, nm) = NULL /\ unused # {}
                /\ r = [rc |-> "ok", n |-> n, node |-> u])
  <2>1. at.rc \in {"ok", "notdir", "noent"}
    BY <1>3 DEF Found
  <2>2. CASE at.rc # "ok"
    <3>1. r = [rc |-> at.rc, n |-> NULL, node |-> node]
      BY <2>2 DEF ramfs_create_locked
    <3> HIDE DEF at
    <3> QED
      BY <2>1, <2>2, <3>1
  <2>3. CASE at.rc = "ok" /\ ~node[d].is_dir
    <3>1. r = [rc |-> "notdir", n |-> NULL, node |-> node]
      BY <2>3 DEF ramfs_create_locked
    <3> QED
      BY <3>1
  <2>4. CASE at.rc = "ok" /\ node[d].is_dir /\ ramfs_child_find(d, nm) # NULL
    <3>1. r = [rc |-> "exist", n |-> NULL, node |-> node]
      BY <2>4 DEF ramfs_create_locked
    <3> QED
      BY <3>1
  <2>5. CASE at.rc = "ok" /\ node[d].is_dir /\ ramfs_child_find(d, nm) = NULL /\ unused = {}
    <3>1. r = [rc |-> "nomem", n |-> NULL, node |-> node]
      BY <2>5 DEF ramfs_create_locked
    <3> QED
      BY <3>1
  <2>6. CASE at.rc = "ok" /\ node[d].is_dir /\ ramfs_child_find(d, nm) = NULL /\ unused # {}
    <3>1. r = [rc |-> "ok", n |-> n, node |-> u]
      BY <2>6 DEF ramfs_create_locked, With
    <3> QED
      BY <2>6, <3>1
  <2> QED
    BY <2>2, <2>3, <2>4, <2>5, <2>6
<1>5. CASE Fails
  <2>1. r.node = node /\ r.rc # "ok"
    BY <1>5
  <2>2. AllStored(node, Created(node))
    BY CreatedSame
  <2>3. Extends(node, node, Created(node))
    BY <1>1, <2>2, ExtendsSelf
  <2> QED
    BY <2>1, <2>3
<1>6. CASE /\ ramfs_child_find(d, nm) = NULL /\ unused # {}
           /\ r = [rc |-> "ok", n |-> n, node |-> u]
  <2>1. n \in NodeId \ DOMAIN node
    <3>1. unused \subseteq Nat
      BY RamfsAssumption DEF NodeId
    <3>2. \E x \in unused : \A y \in unused : x <= y
      <4> HIDE DEF unused
      <4> QED
        BY <1>6, <3>1, LeastNatural
    <3>3. n \in unused
      <4> HIDE DEF unused
      <4> QED
        BY <3>2, Zenon
    <3> HIDE DEF n
    <3> QED
      BY <3>3
  <2>2. NoChild(node, d, nm)
    <3> HIDE DEF d, nm
    <3>1. \A x \in DOMAIN node : x # NULL
      BY <1>1, TreeElim, NullNoNode
    <3> QED
      BY <1>1, <1>2, <1>3, <1>6, <3>1, FindChild DEF NoChild
  <2> HIDE DEF d, nm, n, unused
  <2>3. Grown(node, u, d, n, nm, isDir)
    BY <1>1, <1>2, <1>3, <2>1, <2>2, LinkFields
  <2> HIDE DEF u
  <2>4. Shape(u) /\ Keeps(node, u)
    BY <1>1, <1>2, <1>3, <2>1, <2>3, LinkShape, GrownKeeps
  <2>5. /\ u \in Tree /\ DOMAIN u = DOMAIN node \cup {n}
        /\ u[n] = NewNode(nm, d, isDir)
        /\ \A x \in DOMAIN node :
             /\ u[x].is_dir = node[x].is_dir /\ u[x].refs = node[x].refs
             /\ u[x].size = node[x].size /\ u[x].data = node[x].data
    BY <2>3 DEF Grown
  <2>6. u[n].refs = 0 /\ u[n].size = 0 /\ u[n].data = <<>>
    <3>1. d \in NodeId
      BY <1>1, <1>3, TreeElim
    <3> QED
      BY <1>2, <2>5, <3>1, NewNodeType
  <2>7. SameRefs(node, u)
    BY <2>1, <2>5, <2>6 DEF SameRefs, Refs
  <2>8. AllStored(u, Created(u))
    <3>1. AllStored(node, content)
      BY DEF RamInv
    <3>2. DOMAIN Created(u) = DOMAIN u /\ Created(u)[n] = <<>>
          /\ \A x \in DOMAIN node : Created(u)[x] = content[x]
      BY <2>1, <2>5, <3>1 DEF Created, AllStored
    <3>3. Stored(u[n], Created(u)[n])
      <4>1. Len(u[n].data) = 0
        BY <2>6
      <4> QED
        BY <2>6, <3>2, <4>1, EmptySeq DEF Stored
    <3>4. ASSUME NEW x \in DOMAIN node PROVE Stored(u[x], Created(u)[x])
      <4>1. Stored(node[x], content[x])
        BY <3>1 DEF AllStored
      <4>2. /\ u[x].is_dir = node[x].is_dir /\ u[x].size = node[x].size
            /\ u[x].data = node[x].data /\ Created(u)[x] = content[x]
        BY <2>5, <3>2
      <4> QED
        BY <4>1, <4>2 DEF Stored
    <3> QED
      BY <2>5, <3>2, <3>3, <3>4 DEF AllStored
  <2>9. r.node = u /\ r.n = n
    BY <1>6
  <2>10. Extends(node, u, Created(u))
    BY <2>4, <2>5, <2>7, <2>8 DEF Extends
  <2> QED
    BY <2>5, <2>9, <2>10
<1> QED
  BY <1>4, <1>5, <1>6

\* ramfs_mkdir makes one.
LEMMA MkdirRam ==
  ASSUME RamInv, NEW path \in DirPath, ramfs_mkdir(path) PROVE RamInv'
<1>1. path \in Seq(Nat) \ {<<>>} /\ Mounted
  BY RamfsAssumption DEF ramfs_mkdir
<1>2. PICK r \in ramfs_create_locked(path, TRUE) : node' = r.node /\ content' = Created(r.node)
  BY DEF ramfs_mkdir
<1>3. UNCHANGED <<file, dir>>
  BY DEF ramfs_mkdir
<1>4. Extends(node, node', content')
  <2>1. Extends(node, r.node, Created(r.node))
    BY <1>1, CreateExtends
  <2> QED
    BY <1>2, <2>1
<1>5. node' \in Tree /\ OnlyRefs(node', node')
  BY <1>4 DEF Extends, OnlyRefs, SameTree
<1>6. RamType'
  BY <1>3, <1>5 DEF RamInv, RamType
<1>7. RefsCounted'
  BY <1>3, <1>4, QuietStep DEF RamInv, Extends
<1>8. \A p \in Proc : dir'[p] # NULL => CursorSound(node, dir'[p])
  BY <1>3 DEF RamInv
<1> QED
  BY <1>4, <1>5, <1>6, <1>7, <1>8, ExtendStep

\* Nobody has a node whose count is zero.
LEMMA FreeUnused ==
  ASSUME IsFiniteSet(Proc), RamInv, NEW n \in DOMAIN node, node[n].refs = 0, NEW p \in Proc
  PROVE  ~Holds(p, n) /\ ~Lists(p, n) /\ ~Stops(p, n)
<1>1. n \in NodeId
  BY NodeFacts, TreeNode
<1>2. Users(n) = 0
  BY <1>1 DEF RamInv, RefsCounted, Refs
<1>3. ~(Users(n) > 0)
  BY <1>2
<1> QED
  BY <1>3, UsedCounted

\* ramfs_rmdir removes an empty directory that nobody has.
LEMMA RmdirRam ==
  ASSUME IsFiniteSet(Proc), RamInv, NEW path \in DirPath, ramfs_rmdir(path) PROVE RamInv'
<1> DEFINE n == ramfs_lookup(path).n
<1>1. /\ node \in Tree /\ Shape(node) /\ AllStored(node, content) /\ RefsCounted
      /\ file \in [Proc -> Handle \cup {NULL}] /\ dir \in [Proc -> Cursor \cup {NULL}]
      /\ \A p \in Proc : dir[p] # NULL => CursorSound(node, dir[p])
  BY DEF RamInv, RamType
<1>2. n \in DOMAIN node
  <2>1. path \in Seq(Nat) /\ Mounted
    BY RamfsAssumption DEF ramfs_rmdir
  <2>2. ramfs_lookup(path) \in Found
    BY <1>1, <2>1, LookupFinds
  <2> QED
    BY <2>2 DEF Found
<1>3. /\ n # Root /\ node[n].child = <<>> /\ node[n].refs = 0
      /\ node' = Without(node, n)
      /\ content' = [x \in DOMAIN content \ {n} |-> content[x]]
      /\ dir' = [q \in Proc |-> IF dir[q] = NULL THEN NULL
                                ELSE [dir[q] EXCEPT !.kept = @ \ {n}]]
      /\ file' = file
  BY DEF ramfs_rmdir, Removable, Without
<1> HIDE DEF n
<1>4. Shrunk(node, node', n)
  <2>1. Shrunk(node, Without(node, n), n)
    BY <1>1, <1>2, <1>3, UnlinkFields
  <2> QED
    BY <1>3, <2>1
<1>5. Shape(node') /\ Keeps(node, node')
  BY <1>1, <1>2, <1>3, <1>4, UnlinkShape, ShrunkKeeps
<1>6. /\ node' \in Tree /\ DOMAIN node' = DOMAIN node \ {n}
      /\ \A x \in DOMAIN node' :
           /\ node'[x].is_dir = node[x].is_dir /\ node'[x].refs = node[x].refs
           /\ node'[x].size = node[x].size /\ node'[x].data = node[x].data
  BY <1>4 DEF Shrunk
<1>7. \A p \in Proc : ~Holds(p, n) /\ ~Lists(p, n) /\ ~Stops(p, n)
  BY <1>2, <1>3, FreeUnused
<1>8. ASSUME NEW p \in Proc, dir[p] # NULL
      PROVE  /\ dir'[p] \in Cursor /\ dir'[p] # NULL
             /\ dir'[p].n = dir[p].n /\ dir'[p].pos = dir[p].pos /\ dir'[p].done = dir[p].done
             /\ dir'[p].kept = dir[p].kept \ {n} /\ dir'[p].seen = dir[p].seen
  <2>1. dir'[p] = [dir[p] EXCEPT !.kept = dir[p].kept \ {n}] /\ dir[p] \in Cursor
    BY <1>1, <1>3, <1>8
  <2>2. /\ [dir[p] EXCEPT !.kept = dir[p].kept \ {n}] \in Cursor
        /\ LET e == [dir[p] EXCEPT !.kept = dir[p].kept \ {n}]
           IN  /\ e.n = dir[p].n /\ e.pos = dir[p].pos /\ e.done = dir[p].done
               /\ e.kept = dir[p].kept \ {n} /\ e.seen = dir[p].seen
    BY <2>1 DEF Cursor
  <2> QED
    BY <2>1, <2>2, NullDiffers
<1>9. \A p \in Proc : dir[p] = NULL => dir'[p] = NULL
  BY <1>3
<1>10. RamType'
  <2>1. dir' \in [Proc -> Cursor \cup {NULL}]
    BY <1>3, <1>8, <1>9
  <2> QED
    BY <1>1, <1>3, <1>6, <2>1 DEF RamType
<1>11. RefsCounted'
  <2> SUFFICES ASSUME NEW q \in NodeId PROVE Refs(node', q) = Users(q)'
    BY DEF RefsCounted, Refs
  <2>1. \A p \in Proc : /\ Holds(p, q)' <=> Holds(p, q)
                        /\ Lists(p, q)' <=> Lists(p, q)
                        /\ Stops(p, q)' <=> Stops(p, q)
    BY <1>3, <1>8, <1>9 DEF Holds, Lists, Stops
  <2>2. /\ {p \in Proc : Holds(p, q)'} = {p \in Proc : Holds(p, q)}
        /\ {p \in Proc : Lists(p, q)'} = {p \in Proc : Lists(p, q)}
        /\ {p \in Proc : Stops(p, q)'} = {p \in Proc : Stops(p, q)}
    BY <2>1
  <2>3. Users(q)' = Users(q)
    BY <2>2 DEF Users
  <2>4. Refs(node', q) = Refs(node, q)
    BY <1>2, <1>3, <1>6 DEF Refs
  <2> QED
    BY <1>1, <2>3, <2>4 DEF RefsCounted
<1>12. AllStored(node', content')
  <2>1. DOMAIN content' = DOMAIN node' /\ \A x \in DOMAIN node' : content'[x] = content[x]
    BY <1>1, <1>3, <1>6 DEF AllStored
  <2>2. ASSUME NEW x \in DOMAIN node' PROVE Stored(node'[x], content'[x])
    <3>1. Stored(node[x], content[x]) /\ content'[x] = content[x]
      BY <1>1, <1>6, <2>1 DEF AllStored
    <3>2. /\ node'[x].is_dir = node[x].is_dir /\ node'[x].size = node[x].size
          /\ node'[x].data = node[x].data
      BY <1>6
    <3> QED
      BY <3>1, <3>2 DEF Stored
  <2> QED
    BY <2>1, <2>2 DEF AllStored
<1>13. ASSUME NEW p \in Proc, dir'[p] # NULL PROVE CursorSound(node', dir'[p])
  <2> DEFINE e == dir'[p]
  <2>1. dir[p] # NULL /\ CursorSound(node, dir[p])
    BY <1>1, <1>9, <1>13
  <2>2. /\ e.n = dir[p].n /\ e.pos = dir[p].pos /\ e.done = dir[p].done
        /\ e.kept = dir[p].kept \ {n} /\ e.seen = dir[p].seen
    BY <1>8, <2>1
  <2>3. e.n # n /\ e.pos # n
    BY <1>7, <2>1, <2>2 DEF Lists, Stops
  <2> HIDE DEF e
  <2>4. CursorSound(node, e)
    BY <2>1, <2>2 DEF CursorSound
  <2>5. e.n \in DOMAIN node' /\ (e.pos # NULL => e.pos \in DOMAIN node') /\ e.kept \subseteq DOMAIN node'
    BY <1>6, <2>2, <2>3, <2>4 DEF CursorSound
  <2>6. CursorSound(node', e)
    BY <1>1, <1>5, <1>6, <2>4, <2>5, CursorStays
  <2> QED
    BY <2>6 DEF e
<1>14. Shape(node)' /\ AllStored(node, content)'
  BY <1>5, <1>12 DEF Shape, Parented, Sorted, Linked, AllStored, Stored
<1>15. \A p \in Proc : (dir[p] # NULL => CursorSound(node, dir[p]))'
  BY <1>13 DEF CursorSound
<1> QED
  BY <1>10, <1>11, <1>14, <1>15 DEF RamInv

-----------------------------------------------------------------------------
(* Opening and writing files.                                              *)

\* A file that is cut.
Cut(t, n) == [t EXCEPT ![n].size = 0]

\* It reads as nothing.
LEMMA CutExtends ==
  ASSUME NEW t \in Tree, Shape(t), NEW c, AllStored(t, c), NEW n \in DOMAIN t
  PROVE  Extends(t, Cut(t, n), [c EXCEPT ![n] = <<>>])
<1> DEFINE r == [t[n] EXCEPT !.size = 0]
<1>1. t[n] \in NodeRec /\ t[n].data \in Seq(Byte)
  BY TreeNode
<1>2. /\ r \in NodeRec /\ r.name = t[n].name /\ r.parent = t[n].parent
      /\ r.is_dir = t[n].is_dir /\ r.child = t[n].child /\ r.refs = t[n].refs
      /\ r.size = 0 /\ r.data = t[n].data
  BY <1>1 DEF NodeRec
<1>3. Cut(t, n) = [t EXCEPT ![n] = r]
  BY DEF Cut
<1> HIDE DEF r
<1>4. Stored(r, <<>>)
  <2>1. Len(r.data) \in Nat
    BY <1>1, <1>2
  <2> QED
    BY <1>2, <2>1, EmptySeq DEF Stored
<1>5. Extends(t, [t EXCEPT ![n] = r], [c EXCEPT ![n] = <<>>])
  BY <1>2, <1>4, EditNode
<1> QED
  BY <1>3, <1>5

\* ramfs_open finds or makes the node, cuts it if asked to, and pins it.
LEMMA OpenRam ==
  ASSUME IsFiniteSet(Proc), RamInv, NEW p \in Proc, NEW fl \in Opens, ramfs_open(p, fl)
  PROVE  RamInv'
<1> DEFINE at == ramfs_lookup(fl.path)
           Tried == IF at.rc = "noent" /\ fl.creat /\ ~fl.directory
                    THEN ramfs_create_locked(fl.path, FALSE)
                    ELSE {[rc |-> at.rc, n |-> at.n, node |-> node]}
           Ok(r) == r.rc = "ok" /\ r.node[r.n].is_dir = fl.directory
           Cuts(r) == Ok(r) /\ ~fl.directory /\ fl.trunc /\ fl.write
           Sized(r) == IF Cuts(r) THEN [r.node EXCEPT ![r.n].size = 0] ELSE r.node
           H(r) == [n |-> r.n, write |-> fl.write,
                    pos |-> IF ~fl.directory /\ fl.append THEN Sized(r)[r.n].size ELSE 0]
<1>1. fl.path \in Seq(Nat) \ {<<>>} /\ fl.write \in BOOLEAN
  BY RamfsAssumption
<1>2. Mounted /\ file[p] = NULL /\ dir' = dir
  BY DEF ramfs_open
<1>3. PICK r \in Tried :
        /\ node' = IF Ok(r) THEN [Sized(r) EXCEPT ![r.n].refs = @ + 1] ELSE Sized(r)
        /\ content' = IF Cuts(r) THEN [Created(r.node) EXCEPT ![r.n] = <<>>] ELSE Created(r.node)
        /\ file' = IF ~Ok(r) THEN file ELSE [file EXCEPT ![p] = H(r)]
  BY DEF ramfs_open
<1>4. node \in Tree /\ Shape(node)
  BY NodeFacts
<1>5. at \in Found
  BY <1>1, <1>2, <1>4, LookupFinds
<1> HIDE DEF at
<1>6. Extends(node, r.node, Created(r.node)) /\ (r.rc = "ok" => r.n \in DOMAIN r.node)
  <2>1. CASE at.rc = "noent" /\ fl.creat /\ ~fl.directory
    <3>1. r \in ramfs_create_locked(fl.path, FALSE)
      BY <2>1
    <3> QED
      BY <1>1, <1>2, <3>1, CreateExtends
  <2>2. CASE ~(at.rc = "noent" /\ fl.creat /\ ~fl.directory)
    <3>1. r = [rc |-> at.rc, n |-> at.n, node |-> node]
      BY <2>2
    <3>2. r.node = node /\ r.n = at.n /\ at.n \in DOMAIN node
      BY <1>5, <3>1 DEF Found
    <3>3. Extends(node, node, Created(node))
      BY <1>4, CreatedSame, ExtendsSelf
    <3> QED
      BY <3>2, <3>3
  <2> QED
    BY <2>1, <2>2
<1> DEFINE u == Sized(r)
           h == H(r)
           c == dir[p]
<1>7. c \in Cursor \cup {NULL} /\ dir' = [dir EXCEPT ![p] = c] /\ (c # NULL => CursorSound(node, c))
  BY <1>2, CallerFacts
<1>8. r.node \in Tree /\ Shape(r.node) /\ AllStored(r.node, Created(r.node))
  BY <1>6 DEF Extends
<1>9. Extends(node, u, content')
  <2>1. CASE Cuts(r)
    <3>1. u = Cut(r.node, r.n) /\ content' = [Created(r.node) EXCEPT ![r.n] = <<>>]
      BY <1>3, <2>1 DEF Cut
    <3>2. r.n \in DOMAIN r.node
      BY <1>6, <2>1
    <3>3. Extends(r.node, u, content')
      <4>1. Extends(r.node, Cut(r.node, r.n), [Created(r.node) EXCEPT ![r.n] = <<>>])
        BY <1>8, <3>2, CutExtends
      <4> QED
        BY <3>1, <4>1
    <3> HIDE DEF u
    <3> QED
      BY <1>4, <1>6, <3>3, ExtendsTwice
  <2>2. CASE ~Cuts(r)
    BY <1>3, <1>6, <2>2
  <2> QED
    BY <2>1, <2>2
<1>10. u \in Tree /\ DOMAIN u = DOMAIN r.node
  BY <1>9 DEF Extends
<1>11. CASE Ok(r)
  <2>1. r.n \in DOMAIN u
    BY <1>6, <1>10, <1>11
  <2>2. node' = Pin(u, r.n) /\ file' = [file EXCEPT ![p] = h]
    BY <1>3, <1>11 DEF Pin
  <2>3. r.n \in NodeId /\ u[r.n].size \in Nat
    BY <1>10, <2>1, TreeNode
  <2>4. h \in Handle /\ h.n = r.n
    <3> HIDE DEF u
    <3>1. (IF ~fl.directory /\ fl.append THEN u[r.n].size ELSE 0) \in Nat
      BY <2>3
    <3>2. h = [n |-> r.n, write |-> fl.write,
               pos |-> IF ~fl.directory /\ fl.append THEN u[r.n].size ELSE 0]
      BY DEF u
    <3> HIDE DEF h
    <3> QED
      BY <1>1, <2>3, <3>1, <3>2 DEF Handle
  <2>5. h # NULL
    BY <2>4, NullDiffers
  <2> HIDE DEF u, h
  <2>6. /\ OnlyRefs(u, Pin(u, r.n))
        /\ \A q \in NodeId : Refs(Pin(u, r.n), q) = Refs(u, q) + (IF q = r.n THEN 1 ELSE 0)
    BY <1>10, <2>1, PinNode
  <2>7. ASSUME NEW q \in NodeId
        PROVE  Refs(node', q) = Refs(u, q) - UsesOf(file[p], dir[p], q) + UsesOf(h, c, q)
    <3>1. UsesOf(h, c, q) = UsesOf(file[p], dir[p], q) + (IF q = r.n THEN 1 ELSE 0)
      BY <1>2, <2>4, <2>5 DEF UsesOf, Count
    <3>2. UsesOf(file[p], dir[p], q) \in Int /\ Refs(u, q) \in Int
      BY <1>10, UsesInt, TreeNode DEF Refs
    <3> HIDE DEF c
    <3> QED
      BY <2>2, <2>6, <3>1, <3>2
  <2>8. OnlyRefs(u, node')
    BY <2>2, <2>6
  <2>9. h \in Handle \cup {NULL}
    BY <2>4
  <2>10. CallerMoves(p, u, h, c)
    BY <1>7, <1>9, <2>2, <2>7, <2>8, <2>9 DEF CallerMoves
  <2> QED
    BY <2>10, CallerStep
<1>12. CASE ~Ok(r)
  <2>1. node' = u /\ file' = file
    BY <1>3, <1>12
  <2>2. file[p] \in Handle \cup {NULL} /\ file' = [file EXCEPT ![p] = file[p]]
    BY <2>1, CallerFacts
  <2> HIDE DEF u
  <2>3. OnlyRefs(u, node')
    BY <1>10, <2>1 DEF OnlyRefs, SameTree
  <2>4. ASSUME NEW q \in NodeId
        PROVE  Refs(node', q) = Refs(u, q) - UsesOf(file[p], dir[p], q) + UsesOf(file[p], c, q)
    <3>1. UsesOf(file[p], dir[p], q) \in Int /\ Refs(u, q) \in Int
      BY <1>10, UsesInt, TreeNode DEF Refs
    <3> QED
      BY <2>1, <3>1
  <2>5. CallerMoves(p, u, file[p], c)
    BY <1>7, <1>9, <2>2, <2>3, <2>4 DEF CallerMoves
  <2> QED
    BY <2>5, CallerStep
<1> QED
  BY <1>11, <1>12

\* ramfs_grow's doubling reaches what is needed.
LEMMA NewCapEnough ==
  ASSUME NEW cap \in Nat, NEW need \in Nat
  PROVE  NewCap(cap, need) \in Nat /\ NewCap(cap, need) >= need
<1> DEFINE b == IF cap = 0 THEN DefCap ELSE cap
           Double(a) == IF a < need THEN 2 * a ELSE a
           F == [k \in 1 .. need |-> [a \in Nat |-> Double(a)]]
           Loop(f) == [k \in 0 .. need |-> IF k = 0 THEN b
                         ELSE IF f[k - 1] < need THEN 2 * f[k - 1] ELSE f[k - 1]]
           L == grow_loop(cap, need)
<1>1. b \in Nat /\ b >= 1
  BY RamfsAssumption
<1>2. \A a \in Nat : Double(a) \in Nat
  OBVIOUS
<1>3. F \in Rounds(Nat, need)
  BY <1>2 DEF Rounds
<1>4. \A a \in Nat, k \in 1 .. need : F[k][a] = Double(a)
  OBVIOUS
<1>a. L = CHOOSE f : f = Loop(f)
  BY DEF grow_loop
<1>b. NewCap(cap, need) = L[need]
  BY DEF NewCap
<1> HIDE DEF F, b, L
<1>5. PICK f \in [0 .. need -> Nat] : f[0] = b /\ \A k \in 1 .. need : f[k] = F[k][f[k - 1]]
  <2>1. b \in Nat
    BY <1>1
  <2>2. Runs(Nat, need, F, b)
    BY <1>3, <2>1, LoopRuns
  <2> QED
    BY <2>2 DEF Runs
<1>6. f = Loop(f)
  <2>1. ASSUME NEW k \in 0 .. need PROVE f[k] = Loop(f)[k]
    <3>1. CASE k = 0
      BY <1>5, <3>1
    <3>2. CASE k # 0
      <4>1. k \in 1 .. need /\ k - 1 \in 0 .. need
        BY <3>2
      <4>2. f[k] = Double(f[k - 1])
        BY <1>4, <1>5, <4>1
      <4> QED
        BY <3>2, <4>2
    <3> QED
      BY <3>1, <3>2
  <2> QED
    BY <2>1
<1>7. L = Loop(L)
  BY <1>6, <1>a
<1> DEFINE G == {k \in Nat : L[k] \in Nat /\ (L[k] >= need \/ L[k] >= k + 1)}
<1>8. 0 \in G
  BY <1>1, <1>7
<1>9. \A k \in 1 .. need : k - 1 \in G => k \in G
  <2> SUFFICES ASSUME NEW k \in 1 .. need, L[k - 1] \in Nat, L[k - 1] >= need \/ L[k - 1] >= k
               PROVE  L[k] \in Nat /\ (L[k] >= need \/ L[k] >= k + 1)
    OBVIOUS
  <2>1. L[k] = Double(L[k - 1])
    BY <1>7
  <2> QED
    BY <2>1
<1> HIDE DEF G
<1>10. \A k \in 0 .. need : k \in G
  BY <1>8, <1>9, UpTo, Zenon
<1>11. need \in G
  BY <1>10
<1> QED
  BY <1>b, <1>11 DEF G

\* Grown data: long enough, and the same up to size.
LEMMA GrowNode ==
  ASSUME NEW nd \in NodeRec, nd.size <= Len(nd.data), NEW need \in Nat
  PROVE  LET g == ramfs_grow(nd, need)
         IN  /\ g \in NodeRec /\ g.name = nd.name /\ g.parent = nd.parent
             /\ g.is_dir = nd.is_dir /\ g.child = nd.child /\ g.refs = nd.refs
             /\ g.size = nd.size /\ need <= Len(g.data) /\ g.size <= Len(g.data)
             /\ \A i \in 1 .. nd.size : g.data[i] = nd.data[i]
<1> DEFINE g == ramfs_grow(nd, need)
           m == NewCap(Len(nd.data), need)
           e == [i \in 1 .. m |-> IF i <= nd.size THEN nd.data[i] ELSE Junk]
<1>1. nd.data \in Seq(Byte) /\ nd.size \in Nat /\ Len(nd.data) \in Nat
  BY DEF NodeRec
<1>2. m \in Nat /\ m >= need
  BY <1>1, NewCapEnough
<1> HIDE DEF m
<1>3. e \in Seq(Byte) /\ Len(e) = m /\ \A i \in 1 .. m : e[i] = IF i <= nd.size THEN nd.data[i] ELSE Junk
  <2>1. \A i \in 1 .. m : (IF i <= nd.size THEN nd.data[i] ELSE Junk) \in Byte
    <3> SUFFICES ASSUME NEW i \in 1 .. m PROVE (IF i <= nd.size THEN nd.data[i] ELSE Junk) \in Byte
      OBVIOUS
    <3>1. CASE i <= nd.size
      <4>1. i \in 1 .. Len(nd.data)
        BY <1>1, <1>2, <3>1
      <4>2. nd.data[i] \in Byte
        BY <1>1, <4>1
      <4> QED
        BY <3>1, <4>2
    <3>2. CASE ~(i <= nd.size)
      BY <3>2 DEF Byte
    <3> QED
      BY <3>1, <3>2
  <2>2. e \in [1 .. m -> Byte]
    BY <2>1
  <2> HIDE DEF e
  <2>3. e \in Seq(Byte) /\ Len(e) = m
    BY <1>2, <2>2
  <2> QED
    BY <2>3 DEF e
<1> HIDE DEF e
<1>4. CASE nd.data # <<>> /\ need <= Len(nd.data)
  <2>1. g = nd
    BY <1>4 DEF ramfs_grow
  <2> QED
    BY <1>4, <2>1
<1>5. CASE ~(nd.data # <<>> /\ need <= Len(nd.data))
  <2>1. g = [nd EXCEPT !.data = e]
    BY <1>5 DEF ramfs_grow, e, m
  <2>2. /\ g \in NodeRec /\ g.name = nd.name /\ g.parent = nd.parent
        /\ g.is_dir = nd.is_dir /\ g.child = nd.child /\ g.refs = nd.refs
        /\ g.size = nd.size /\ g.data = e
    BY <1>3, <2>1 DEF NodeRec
  <2>3. nd.size <= m
    <3>1. CASE nd.data = <<>>
      BY <1>1, <1>2, <3>1
    <3>2. CASE ~(need <= Len(nd.data))
      BY <1>1, <1>2, <3>2
    <3> QED
      BY <1>5, <3>1, <3>2
  <2>4. \A i \in 1 .. nd.size : e[i] = nd.data[i]
    BY <1>1, <1>2, <1>3, <2>3
  <2> QED
    BY <1>2, <1>3, <2>2, <2>3, <2>4
<1> QED
  BY <1>4, <1>5

\* A write to long enough data leaves what POSIX says: zeros in the hole, then the bytes.
LEMMA WriteStored ==
  ASSUME NEW g \in NodeRec, NEW s, Stored(g, s), ~g.is_dir, NEW pos \in Nat, NEW len \in Nat,
         NEW v \in Nat, pos + len <= Len(g.data)
  PROVE  LET r == [g EXCEPT !.data = Overwrite(@, g.size, pos, len, v),
                            !.size = IF pos + len > @ THEN pos + len ELSE @]
         IN  /\ r \in NodeRec /\ r.name = g.name /\ r.parent = g.parent
             /\ r.is_dir = g.is_dir /\ r.child = g.child /\ r.refs = g.refs
             /\ Stored(r, Written(s, pos, len, v))
<1> DEFINE after == pos + len
           b == Overwrite(g.data, g.size, pos, len, v)
           z == IF after > g.size THEN after ELSE g.size
           w == Written(s, pos, len, v)
           r == [g EXCEPT !.data = Overwrite(@, g.size, pos, len, v),
                          !.size = IF pos + len > @ THEN pos + len ELSE @]
           m == Len(g.data)
<1>1. /\ g.data \in Seq(Byte) /\ m \in Nat /\ g.size \in Nat /\ s \in Seq(Nat)
      /\ g.size = Len(s) /\ g.size <= m /\ \A i \in 1 .. g.size : g.data[i] = s[i]
  BY DEF NodeRec, Stored
<1>2. after \in Nat /\ z \in Nat /\ z <= m /\ after <= z /\ g.size <= z
  BY <1>1
<1>3. \A i \in 1 .. m : b[i] = IF pos < i /\ i <= pos + len THEN v
                               ELSE IF g.size < i /\ i <= pos THEN 0 ELSE g.data[i]
  BY DEF Overwrite
<1>4. b \in Seq(Byte) /\ Len(b) = m
  <2>1. \A i \in 1 .. m : b[i] \in Byte
    <3> SUFFICES ASSUME NEW i \in 1 .. m PROVE b[i] \in Byte
      OBVIOUS
    <3>1. g.data[i] \in Byte /\ v \in Byte /\ 0 \in Byte
      BY <1>1 DEF Byte
    <3> HIDE DEF b, m
    <3> QED
      BY <1>3, <3>1
  <2>2. b \in [1 .. m -> Byte]
    BY <2>1 DEF Overwrite
  <2> HIDE DEF b, m
  <2> QED
    BY <1>1, <2>2
<1>5. w = [i \in 1 .. z |-> IF pos < i /\ i <= pos + len THEN v ELSE IF i <= Len(s) THEN s[i] ELSE 0]
  <2>1. (IF pos + len > Len(s) THEN pos + len ELSE Len(s)) = z
    BY <1>1
  <2> HIDE DEF z
  <2> QED
    BY <2>1 DEF Written
<1> HIDE DEF z, w, b
<1>6. w \in Seq(Nat) /\ Len(w) = z
  <2>1. \A i \in 1 .. z : w[i] \in Nat
    <3> SUFFICES ASSUME NEW i \in 1 .. z PROVE w[i] \in Nat
      OBVIOUS
    <3>1. i <= Len(s) => s[i] \in Nat
      BY <1>1, <1>2
    <3> QED
      BY <1>5, <3>1
  <2>2. w \in [1 .. z -> Nat]
    BY <1>5, <2>1
  <2> QED
    BY <1>2, <2>2
<1>7. ASSUME NEW i \in 1 .. z PROVE b[i] = w[i]
  <2>1. i \in 1 .. m /\ i \in Nat
    BY <1>1, <1>2
  <2>2. CASE pos < i /\ i <= pos + len
    BY <1>3, <1>5, <2>1, <2>2
  <2>3. CASE ~(pos < i /\ i <= pos + len) /\ i <= g.size
    <3>1. i \in 1 .. g.size /\ ~(g.size < i)
      BY <1>1, <2>1, <2>3
    <3> QED
      BY <1>1, <1>3, <1>5, <2>1, <2>3, <3>1
  <2>4. CASE ~(pos < i /\ i <= pos + len) /\ ~(i <= g.size)
    <3>1. i <= pos /\ g.size < i
      BY <1>1, <1>2, <2>1, <2>4 DEF z
    <3> QED
      BY <1>1, <1>3, <1>5, <2>1, <2>4, <3>1
  <2> QED
    BY <2>2, <2>3, <2>4
<1>8. /\ r \in NodeRec /\ r.name = g.name /\ r.parent = g.parent
      /\ r.is_dir = g.is_dir /\ r.child = g.child /\ r.refs = g.refs
      /\ r.size = z /\ r.data = b
  <2>1. r = [g EXCEPT !.data = b, !.size = z]
    <3>1. [g EXCEPT !.data = b].size = g.size
      BY DEF NodeRec
    <3> QED
      BY <3>1 DEF b, z
  <2>2. b \in Seq(Byte) /\ z \in Nat
    BY <1>2, <1>4
  <2> HIDE DEF r
  <2> QED
    BY <2>1, <2>2 DEF NodeRec
<1> HIDE DEF r
<1>9. Stored(r, w)
  <2>1. z <= Len(b)
    BY <1>2, <1>4
  <2> HIDE DEF m, after
  <2> QED
    BY <1>6, <1>7, <1>8, <2>1 DEF Stored
<1> QED
  BY <1>8, <1>9 DEF r, w

\* ramfs_write writes what it says, or has no memory and writes nothing.
LEMMA WriteRam ==
  ASSUME IsFiniteSet(Proc), RamInv, NEW p \in Proc, NEW len \in 1 .. 2, NEW v \in Value,
         ramfs_write(p, len, v)
  PROVE  RamInv'
<1> DEFINE f == file[p]
           n == f.n
           after == f.pos + len
           g == ramfs_grow(node[n], after)
           r == [g EXCEPT !.data = Overwrite(@, g.size, f.pos, len, v),
                          !.size = IF after > @ THEN after ELSE @]
           s == content[n]
           w == Written(s, f.pos, len, v)
           c == dir[p]
<1>1. node \in Tree /\ Shape(node) /\ AllStored(node, content) /\ OnlyRefs(node, node)
      /\ Extends(node, node, content)
  BY NodeFacts
<1>2. f # NULL /\ f \in Handle /\ n \in DOMAIN node /\ ~node[n].is_dir
  BY CallerFacts DEF ramfs_write, IsFile
<1>3. f.pos \in Nat /\ len \in Nat /\ after \in Nat /\ v \in Nat
  <2>1. f.pos \in Nat
    BY <1>2 DEF Handle
  <2>2. v \in Nat
    BY RamfsAssumption
  <2> HIDE DEF f
  <2> QED
    BY <2>1, <2>2
<1>4. c \in Cursor \cup {NULL} /\ dir = [dir EXCEPT ![p] = c] /\ (c # NULL => CursorSound(node, c))
  BY CallerFacts
<1>5. dir' = dir
  BY DEF ramfs_write
<1>6. CASE /\ node' = [node EXCEPT ![n] = r]
           /\ file' = [file EXCEPT ![p].pos = after]
           /\ content' = [content EXCEPT ![n] = w]
  <2> DEFINE h == [file[p] EXCEPT !.pos = after]
  <2>1. file' = [file EXCEPT ![p] = h]
    BY <1>6, FieldOfFile
  <2>2. h \in Handle /\ h.n = n /\ h # NULL
    <3>1. h \in Handle /\ h.n = n
      BY <1>2, <1>3 DEF Handle
    <3> QED
      BY <3>1, NullDiffers
  <2>3. node[n] \in NodeRec /\ Stored(node[n], s)
    BY <1>1, <1>2, TreeNode DEF AllStored
  <2>4. /\ g \in NodeRec /\ g.name = node[n].name /\ g.parent = node[n].parent
        /\ g.is_dir = node[n].is_dir /\ g.child = node[n].child /\ g.refs = node[n].refs
        /\ g.size = node[n].size /\ after <= Len(g.data) /\ g.size <= Len(g.data)
        /\ \A i \in 1 .. node[n].size : g.data[i] = node[n].data[i]
    <3>1. node[n].size <= Len(node[n].data)
      BY <1>2, <2>3 DEF Stored
    <3> HIDE DEF after, n
    <3> QED
      BY <1>3, <2>3, <3>1, GrowNode
  <2> HIDE DEF g
  <2>5. Stored(g, s) /\ ~g.is_dir
    BY <1>2, <2>3, <2>4 DEF Stored
  <2>6. /\ r \in NodeRec /\ r.name = g.name /\ r.parent = g.parent
        /\ r.is_dir = g.is_dir /\ r.child = g.child /\ r.refs = g.refs
        /\ Stored(r, w)
    <3>1. f.pos \in Nat /\ len \in Nat /\ v \in Nat /\ f.pos + len <= Len(g.data) /\ g \in NodeRec
      BY <1>3, <2>4
    <3> HIDE DEF f, s
    <3> QED
      BY <2>5, <3>1, WriteStored
  <2>7. /\ r.name = node[n].name /\ r.parent = node[n].parent /\ r.is_dir = node[n].is_dir
        /\ r.child = node[n].child /\ r.refs = node[n].refs
    BY <2>4, <2>6
  <2> HIDE DEF r, w, n, s, h
  <2>8. Extends(node, [node EXCEPT ![n] = r], [content EXCEPT ![n] = w])
    BY <1>1, <1>2, <2>6, <2>7, EditNode
  <2>9. Extends(node, node', content')
    BY <1>6, <2>8
  <2>10. node' \in Tree /\ OnlyRefs(node', node')
    BY <2>9 DEF Extends, OnlyRefs, SameTree
  <2>11. ASSUME NEW q \in NodeId
         PROVE  Refs(node', q) = Refs(node', q) - UsesOf(file[p], dir[p], q) + UsesOf(h, c, q)
    <3>1. UsesOf(file[p], dir[p], q) = UsesOf(h, c, q)
      BY <1>2, <2>2 DEF UsesOf, n
    <3>2. UsesOf(h, c, q) \in Int
      BY UsesInt
    <3>3. Refs(node', q) \in Int
      BY <2>10, TreeNode DEF Refs
    <3> QED
      BY <3>1, <3>2, <3>3
  <2>12. CallerMoves(p, node', h, c)
    BY <1>4, <1>5, <2>1, <2>2, <2>9, <2>10, <2>11 DEF CallerMoves
  <2> QED
    BY <2>12, CallerStep
<1>7. CASE UNCHANGED <<node, file, content>>
  <2>1. file[p] \in Handle \cup {NULL} /\ file' = [file EXCEPT ![p] = file[p]]
    BY <1>7, CallerFacts
  <2>2. ASSUME NEW q \in NodeId
        PROVE  Refs(node', q) = Refs(node, q) - UsesOf(file[p], dir[p], q) + UsesOf(file[p], c, q)
    <3>1. UsesOf(file[p], dir[p], q) \in Int /\ Refs(node, q) \in Int
      BY UsesInt, NodeFacts
    <3> QED
      BY <1>7, <3>1
  <2>3. Extends(node, node, content') /\ OnlyRefs(node, node')
    BY <1>1, <1>7
  <2>4. CallerMoves(p, node, file[p], c)
    BY <1>4, <1>5, <2>1, <2>2, <2>3 DEF CallerMoves
  <2> QED
    BY <2>4, CallerStep
<1> QED
  BY <1>6, <1>7 DEF ramfs_write

-----------------------------------------------------------------------------
(* The theorems.                                                           *)

\* The invariant is inductive.
LEMMA NextRam ==
  ASSUME IsFiniteSet(Proc), RamInv, [Next]_vars PROVE RamInv'
<1>1. CASE ramfs_mount
  BY <1>1, MountRam
<1>2. CASE ramfs_unmount
  BY <1>2, UnmountRam
<1>3. ASSUME NEW path \in DirPath, ramfs_mkdir(path) PROVE RamInv'
  BY <1>3, MkdirRam
<1>4. ASSUME NEW path \in DirPath, ramfs_rmdir(path) PROVE RamInv'
  BY <1>4, RmdirRam
<1>5. ASSUME NEW p \in Proc, NEW fl \in Opens, ramfs_open(p, fl) PROVE RamInv'
  BY <1>5, OpenRam
<1>6. ASSUME NEW p \in Proc, NEW len \in 1 .. 2, ramfs_read(p, len) PROVE RamInv'
  BY <1>6, ReadRam
<1>7. ASSUME NEW p \in Proc, NEW len \in 1 .. 2, NEW v \in Value, ramfs_write(p, len, v)
      PROVE  RamInv'
  BY <1>7, WriteRam
<1>8. ASSUME NEW p \in Proc, NEW pos \in 0 .. MaxPos, ramfs_seek(p, pos) PROVE RamInv'
  BY <1>8, SeekRam
<1>9. ASSUME NEW p \in Proc, ramfs_close(p) PROVE RamInv'
  BY <1>9, CloseRam
<1>10. ASSUME NEW p \in Proc, NEW path \in DirPath \cup {<<>>}, ramfs_opendir(p, path)
       PROVE  RamInv'
  BY <1>10, OpendirRam
<1>11. ASSUME NEW p \in Proc, ramfs_readdir(p) PROVE RamInv'
  BY <1>11, ReaddirRam
<1>12. ASSUME NEW p \in Proc, ramfs_closedir(p) PROVE RamInv'
  BY <1>12, ClosedirRam
<1>13. CASE UNCHANGED vars
  <2>1. node' = node /\ file' = file /\ dir' = dir /\ content' = content
    BY <1>13 DEF vars
  <2>2. Extends(node, node, content') /\ OnlyRefs(node, node')
    BY <2>1, NodeFacts
  <2>3. RamType'
    BY <2>1 DEF RamInv, RamType
  <2>4. RefsCounted'
    BY <2>1, QuietStep DEF RamInv, SameRefs
  <2>5. \A p \in Proc : dir'[p] # NULL => CursorSound(node, dir'[p])
    BY <2>1 DEF RamInv
  <2> QED
    BY <2>2, <2>3, <2>4, <2>5, ExtendStep
<1>14. Lister \subseteq Proc
  BY RamfsAssumption
<1> QED
  BY <1>1, <1>2, <1>3, <1>4, <1>5, <1>6, <1>7, <1>8, <1>9, <1>10, <1>11, <1>12, <1>13, <1>14
     DEF Next

\* It always holds.
THEOREM RamCorrect == ASSUME IsFiniteSet(Proc) PROVE Spec => []RamInv
<1>1. Init => RamInv
  BY InitRam
<1>2. RamInv /\ [Next]_vars => RamInv'
  BY NextRam
<1> QED
  BY <1>1, <1>2, PTL DEF Spec

\* Reference counts are exact, and no node is freed under a handle or a cursor, for any
\* number of callers and any tree they make and remove.
THEOREM RefsCorrect == ASSUME IsFiniteSet(Proc) PROVE Spec => []RefsExact
<1>1. RamInv => RefsExact
  <2> SUFFICES ASSUME RamInv PROVE RefsExact
    OBVIOUS
  <2>1. ASSUME NEW p \in Proc
        PROVE  /\ file[p] # NULL => file[p].n \in DOMAIN node
               /\ dir[p] # NULL => {dir[p].n, dir[p].pos} \subseteq DOMAIN node \cup {NULL}
    BY CallerFacts DEF CursorSound
  <2>2. ASSUME NEW n \in DOMAIN node
        PROVE  node[n].refs = Cardinality({p \in Proc : file[p] # NULL /\ file[p].n = n})
                            + Cardinality({p \in Proc : dir[p] # NULL /\ dir[p].n = n})
                            + Cardinality({p \in Proc : dir[p] # NULL /\ dir[p].pos = n})
    <3>1. n \in NodeId
      BY NodeFacts, TreeNode
    <3>2. node[n].refs = Users(n)
      BY <3>1 DEF RamInv, RefsCounted, Refs
    <3> QED
      BY <3>2 DEF Users, Holds, Lists, Stops
  <2> QED
    BY <2>1, <2>2 DEF RefsExact
<1> QED
  BY <1>1, RamCorrect, PTL

\* Every file reads as what was written to it, holes as zeros, for any capacity
\* ramfs_grow starts from and any number of growths, truncations and writers.
THEOREM ContentCorrect == ASSUME IsFiniteSet(Proc) PROVE Spec => []ContentExact
<1>1. RamInv => ContentExact
  BY DEF RamInv, AllStored, Stored, ContentExact
<1> QED
  BY <1>1, RamCorrect, PTL

\* Every listing is in ascending order and misses no child that was there all along,
\* whatever the others make and remove while the cursor stands between two calls.
THEOREM ListingCorrect == ASSUME IsFiniteSet(Proc) PROVE Spec => []ListingComplete
<1>1. RamInv => ListingComplete
  <2> SUFFICES ASSUME RamInv, NEW p \in Proc, dir[p] # NULL
               PROVE  /\ \A i, j \in DOMAIN dir[p].seen :
                           i < j => dir[p].seen[i] < dir[p].seen[j]
                      /\ dir[p].done => {node[n].name : n \in dir[p].kept} \subseteq ToSet(dir[p].seen)
    BY DEF ListingComplete
  <2>1. dir[p] \in Cursor /\ CursorSound(node, dir[p])
    BY CallerFacts
  <2> DEFINE s == dir[p].seen
  <2>2. s \in Seq(Nat) /\ DOMAIN s = 1 .. Len(s)
    BY <2>1 DEF Cursor
  <2>3. \A i, j \in 1 .. Len(s) : i < j => s[i] < s[j]
    BY <2>1 DEF CursorSound
  <2>4. ASSUME dir[p].done, NEW n \in dir[p].kept PROVE \E i \in 1 .. Len(s) : s[i] = node[n].name
    BY <2>1, <2>4 DEF CursorSound
  <2>5. dir[p].done => \A n \in dir[p].kept : node[n].name \in ToSet(s)
    <3> HIDE DEF s
    <3> QED
      BY <2>2, <2>4 DEF ToSet
  <2> HIDE DEF s
  <2> QED
    BY <2>2, <2>3, <2>5 DEF s
<1> QED
  BY <1>1, RamCorrect, PTL

=============================================================================
