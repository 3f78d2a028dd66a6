---------------------------- MODULE DevfsProofs ----------------------------
(***************************************************************************)
(* Proofs about the device nodes.  The loops of devfs_attach_locked,       *)
(* devfs_detach_locked and vdev_listen leave every reference count as it   *)
(* was, however many nodes they make or free; the handles and the cursors  *)
(* account for the rest.                                                   *)
(***************************************************************************)
EXTENDS Devfs, Iteration, SequenceTheorems, TLAPS

Name == Seq(Nat)
Owner == Device \cup {NULL}
NodeRec == [is_dir : BOOLEAN, refs : Int, dev : Owner]
Tree == UNION {[S -> NodeRec] : S \in SUBSET Name}

\* The references on a path; one that is not allocated has none.
Refs(t, q) == IF q \in DOMAIN t THEN t[q].refs ELSE 0

\* The trees with the references of nd.
SameRefs(nd) == {t \in Tree : \A q \in Name : Refs(t, q) = Refs(nd, q)}

\* A function on paths with nodes for values is a tree.
LEMMA TreeIntro ==
  ASSUME NEW S, S \subseteq Name, NEW t \in [S -> NodeRec]
  PROVE  t \in Tree /\ DOMAIN t = S
BY Zenon DEF Tree

\* And a tree is such a function.
LEMMA TreeElim ==
  ASSUME NEW t \in Tree
  PROVE  DOMAIN t \subseteq Name /\ t \in [DOMAIN t -> NodeRec]
<1>1. PICK S \in SUBSET Name : t \in [S -> NodeRec]
  BY DEF Tree
<1>2. DOMAIN t = S
  BY <1>1
<1> QED
  BY <1>1, <1>2

\* A new node has no references.
LEMMA NewNodeType ==
  ASSUME NEW b \in BOOLEAN PROVE NewNode(b) \in NodeRec /\ NewNode(b).refs = 0
BY DEF NewNode, NodeRec, Owner

\* Allocating a node changes no count.
LEMMA AddNode ==
  ASSUME NEW nd, NEW t \in SameRefs(nd), NEW q \in Name, q \notin DOMAIN t,
         NEW rec \in NodeRec, rec.refs = 0
  PROVE  [r \in DOMAIN t \cup {q} |-> IF r = q THEN rec ELSE t[r]] \in SameRefs(nd)
<1> DEFINE S == DOMAIN t \cup {q}
           u == [r \in S |-> IF r = q THEN rec ELSE t[r]]
<1>1. t \in Tree /\ \A r \in Name : Refs(t, r) = Refs(nd, r)
  BY DEF SameRefs
<1>2. DOMAIN t \subseteq Name /\ t \in [DOMAIN t -> NodeRec]
  BY <1>1, TreeElim
<1>3. S \subseteq Name /\ u \in [S -> NodeRec]
  BY <1>2
<1>4. u \in Tree /\ DOMAIN u = S
  BY <1>3, TreeIntro
<1>5. ASSUME NEW r \in Name PROVE Refs(u, r) = Refs(t, r)
  BY DEF Refs
<1> HIDE DEF u, S
<1>6. u \in SameRefs(nd)
  BY <1>1, <1>4, <1>5 DEF SameRefs
<1> QED
  BY <1>6 DEF u, S

\* Nor does a node's device.
LEMMA SetDev ==
  ASSUME NEW nd, NEW t \in SameRefs(nd), NEW q \in DOMAIN t, NEW d \in Device
  PROVE  [t EXCEPT ![q].dev = d] \in SameRefs(nd)
<1> DEFINE u == [t EXCEPT ![q].dev = d]
<1>1. t \in Tree /\ \A r \in Name : Refs(t, r) = Refs(nd, r)
  BY DEF SameRefs
<1>2. DOMAIN t \subseteq Name /\ t \in [DOMAIN t -> NodeRec]
  BY <1>1, TreeElim
<1>3. u \in [DOMAIN t -> NodeRec]
  BY <1>2 DEF NodeRec, Owner
<1>4. u \in Tree /\ DOMAIN u = DOMAIN t
  BY <1>2, <1>3, TreeIntro
<1>5. ASSUME NEW r \in DOMAIN t PROVE u[r].refs = t[r].refs
  BY <1>2 DEF NodeRec
<1>6. ASSUME NEW r \in Name PROVE Refs(u, r) = Refs(t, r)
  BY <1>4, <1>5 DEF Refs
<1> HIDE DEF u
<1>7. u \in SameRefs(nd)
  BY <1>1, <1>4, <1>6 DEF SameRefs
<1> QED
  BY <1>7 DEF u

\* Nor freeing a node without references.
LEMMA DropNode ==
  ASSUME NEW nd, NEW t \in SameRefs(nd), NEW q \in Name, Refs(t, q) = 0
  PROVE  Without(t, q) \in SameRefs(nd)
<1> DEFINE S == DOMAIN t \ {q}
           u == [r \in S |-> t[r]]
<1>1. t \in Tree /\ \A r \in Name : Refs(t, r) = Refs(nd, r)
  BY DEF SameRefs
<1>2. DOMAIN t \subseteq Name /\ t \in [DOMAIN t -> NodeRec]
  BY <1>1, TreeElim
<1>3. S \subseteq Name /\ u \in [S -> NodeRec]
  BY <1>2
<1>4. u \in Tree /\ DOMAIN u = S
  BY <1>3, TreeIntro
<1>5. ASSUME NEW r \in Name PROVE Refs(u, r) = Refs(t, r)
  BY DEF Refs
<1> HIDE DEF u, S
<1>6. u \in SameRefs(nd)
  BY <1>1, <1>4, <1>5 DEF SameRefs
<1> QED
  BY <1>6 DEF u, S, Without

-----------------------------------------------------------------------------
(* The listener.                                                           *)

\* The prefixes of a name are names.
LEMMA PrefixName ==
  ASSUME NEW s \in Name, NEW k \in Nat, k <= Len(s)
  PROVE  SubSeq(s, 1, k) \in Name
<1>1. \A i \in 1 .. k : s[i] \in Nat
  BY DEF Name
<1> QED
  BY <1>1, SubSeqProperties DEF Name

\* What devfs_attach_locked has made so far.
Attaching(nd) == [rc : {"ok", "nomem", "exist", "notdir"}, node : SameRefs(nd)]

\* One component of a device's name leaves the counts, found, made or refused.
LEMMA AttachStep ==
  ASSUME NEW nd, NEW d \in Device, NEW acc \in Attaching(nd), NEW k \in 1 .. Len(Path[d])
  PROVE  attach_step(d, acc, k) \in Attaching(nd)
<1> DEFINE q == SubSeq(Path[d], 1, k)
           last == k = Len(Path[d])
           here == q \in DOMAIN acc.node
           t == IF here THEN acc.node
                ELSE [r \in DOMAIN acc.node \cup {q} |->
                        IF r = q THEN NewNode(~last) ELSE acc.node[r]]
<1>1. acc.rc \in {"ok", "nomem", "exist", "notdir"} /\ acc.node \in SameRefs(nd)
  BY DEF Attaching
<1>2. q \in Name
  <2>1. Path[d] \in Name /\ Len(Path[d]) \in Nat
    BY DevfsAssumption DEF Name
  <2>2. k \in Nat /\ k <= Len(Path[d])
    BY <2>1
  <2> QED
    BY <2>1, <2>2, PrefixName
<1> HIDE DEF q
<1>3. t \in SameRefs(nd) /\ q \in DOMAIN t
  <2>1. CASE here
    BY <1>1, <2>1
  <2>2. CASE ~here
    <3> DEFINE new == NewNode(~last)
    <3>1. new \in NodeRec /\ new.refs = 0
      BY NewNodeType
    <3> HIDE DEF new
    <3>2. [r \in DOMAIN acc.node \cup {q} |-> IF r = q THEN new ELSE acc.node[r]] \in SameRefs(nd)
      BY <1>1, <1>2, <2>2, <3>1, AddNode
    <3>3. t = [r \in DOMAIN acc.node \cup {q} |-> IF r = q THEN new ELSE acc.node[r]]
      BY <2>2 DEF new
    <3> QED
      BY <3>2, <3>3
  <2> QED
    BY <2>1, <2>2
<1>4. attach_step(d, acc, k) =
        IF acc.rc # "ok" THEN acc
        ELSE IF ~here /\ Cardinality(DOMAIN acc.node) > MaxNode THEN [acc EXCEPT !.rc = "nomem"]
        ELSE IF last /\ Taken(t[q]) THEN [rc |-> "exist", node |-> t]
        ELSE IF last THEN [rc |-> "ok", node |-> [t EXCEPT ![q].dev = d]]
        ELSE IF ~t[q].is_dir THEN [rc |-> "notdir", node |-> t]
        ELSE [rc |-> "ok", node |-> t]
  BY DEF attach_step, q
<1> HIDE DEF t, last, here
<1>5. [t EXCEPT ![q].dev = d] \in SameRefs(nd)
  BY <1>3, SetDev
<1> DEFINE u == [t EXCEPT ![q].dev = d]
           nomem == [acc EXCEPT !.rc = "nomem"]
<1>6. nomem \in Attaching(nd)
  BY <1>1 DEF Attaching
<1>7. /\ [rc |-> "exist", node |-> t] \in Attaching(nd)
      /\ [rc |-> "notdir", node |-> t] \in Attaching(nd)
      /\ [rc |-> "ok", node |-> t] \in Attaching(nd)
      /\ [rc |-> "ok", node |-> u] \in Attaching(nd)
  <2> HIDE DEF u
  <2> QED
    BY <1>3, <1>5 DEF Attaching, u
<1> QED
  BY <1>4, <1>6, <1>7, Zenon

\* The rounds of devfs_attach_locked: all leave the counts, for every name.
LEMMA AttachRounds ==
  ASSUME NEW nd \in Tree, NEW d \in Device
  PROVE  /\ Len(Path[d]) \in Nat
         /\ attach_loop(nd, d)[0] = [rc |-> "ok", node |-> nd]
         /\ \A k \in 1 .. Len(Path[d]) :
              attach_loop(nd, d)[k] = attach_step(d, attach_loop(nd, d)[k - 1], k)
         /\ \A k \in 0 .. Len(Path[d]) : attach_loop(nd, d)[k] \in Attaching(nd)
<1> DEFINE A == Attaching(nd)
           n == Len(Path[d])
           b == [rc |-> "ok", node |-> nd]
           F == [k \in 1 .. n |-> [a \in A |-> attach_step(d, a, k)]]
           Loop(f) == [k \in 0 .. n |-> IF k = 0 THEN b ELSE attach_step(d, f[k - 1], k)]
           L == attach_loop(nd, d)
<1>1. n \in Nat /\ b \in A
  <2>1. nd \in SameRefs(nd)
    BY DEF SameRefs
  <2>2. Path[d] \in Seq(Nat)
    BY DevfsAssumption
  <2> QED
    BY <2>1, <2>2 DEF Attaching
<1>2. \A a \in A, k \in 1 .. n : attach_step(d, a, k) \in A
  BY AttachStep
<1>3. F \in Rounds(A, n)
  BY <1>2 DEF Rounds
<1>4. \A a \in A, k \in 1 .. n : F[k][a] = attach_step(d, a, k)
  OBVIOUS
<1>a. L = CHOOSE f : f = Loop(f)
  BY DEF attach_loop
<1> HIDE DEF A, F, b, n, L
<1>5. PICK f \in [0 .. n -> A] : f[0] = b /\ \A k \in 1 .. n : f[k] = F[k][f[k - 1]]
  <2>1. n \in Nat
    BY <1>1
  <2>2. b \in A
    BY <1>1
  <2>3. Runs(A, n, F, b)
    BY <1>3, <2>1, <2>2, LoopRuns
  <2> QED
    BY <2>3 DEF Runs
<1>6. f = Loop(f)
  <2>1. ASSUME NEW k \in 0 .. n PROVE f[k] = Loop(f)[k]
    <3>1. CASE k = 0
      BY <1>1, <1>5, <3>1
    <3>2. CASE k # 0
      <4>1. k \in 1 .. n /\ k - 1 \in 0 .. n
        BY <1>1, <3>2
      <4>2. f[k] = attach_step(d, f[k - 1], k)
        BY <1>4, <1>5, <4>1
      <4> QED
        BY <3>2, <4>2
    <3> QED
      BY <3>1, <3>2
  <2> QED
    BY <2>1
<1>7. L = Loop(L)
  BY <1>6, <1>a
<1> DEFINE G == {k \in Nat : L[k] \in A}
<1>8. 0 \in G
  BY <1>1, <1>7
<1>9. \A k \in 1 .. n : k - 1 \in G => k \in G
  <2> SUFFICES ASSUME NEW k \in 1 .. n, L[k - 1] \in A PROVE L[k] \in A
    BY <1>1
  <2>1. L[k] = attach_step(d, L[k - 1], k)
    BY <1>1, <1>7
  <2> QED
    BY <1>2, <2>1
<1> HIDE DEF G
<1>10. \A k \in 0 .. n : k \in G
  BY <1>1, <1>8, <1>9, UpTo, Zenon
<1>11. L[0] = b /\ \A k \in 1 .. n : L[k] = attach_step(d, L[k - 1], k)
  BY <1>1, <1>7
<1> QED
  BY <1>1, <1>10, <1>11 DEF G, A, L, n, b

\* So does the whole.
LEMMA AttachSame ==
  ASSUME NEW nd \in Tree, NEW d \in Device
  PROVE  devfs_attach_locked(nd, d) \in Attaching(nd)
<1>1. Len(Path[d]) \in 0 .. Len(Path[d])
  BY AttachRounds
<1> QED
  BY <1>1, AttachRounds DEF devfs_attach_locked

\* A parent that is cleaned up has no references.
LEMMA PruneStep ==
  ASSUME NEW nd, NEW t \in SameRefs(nd), NEW q \in Name
  PROVE  prune_step(t, q) \in SameRefs(nd)
<1>1. CASE Idle(t, q)
  <2>1. Refs(t, q) = 0
    BY <1>1 DEF Idle, Refs
  <2>2. Without(t, q) \in SameRefs(nd)
    BY <2>1, DropNode
  <2> QED
    BY <1>1, <2>2 DEF prune_step
<1>2. CASE ~Idle(t, q)
  BY <1>2 DEF prune_step
<1> QED
  BY <1>1, <1>2

\* The rounds of the clean-up after a device: all leave the counts, for every name.
LEMMA PruneRounds ==
  ASSUME NEW nd \in Tree, NEW q \in Name, Len(q) > 0, Refs(nd, q) = 0
  PROVE  /\ prune_loop(nd, q)[0] = Without(nd, q)
         /\ \A k \in 1 .. Len(q) - 1 :
              prune_loop(nd, q)[k] = prune_step(prune_loop(nd, q)[k - 1], SubSeq(q, 1, Len(q) - k))
         /\ \A k \in 0 .. Len(q) - 1 : prune_loop(nd, q)[k] \in SameRefs(nd)
<1> DEFINE A == SameRefs(nd)
           n == Len(q) - 1
           b == Without(nd, q)
           Up(k) == SubSeq(q, 1, Len(q) - k)
           F == [k \in 1 .. n |-> [a \in A |-> prune_step(a, Up(k))]]
           Loop(f) == [k \in 0 .. n |-> IF k = 0 THEN b ELSE prune_step(f[k - 1], Up(k))]
           L == prune_loop(nd, q)
<1>0. Len(q) \in Nat
  BY DEF Name
<1>1. n \in Nat /\ b \in A
  <2>1. nd \in SameRefs(nd)
    BY DEF SameRefs
  <2> QED
    BY <1>0, <2>1, DropNode
<1>2. \A a \in A, k \in 1 .. n : prune_step(a, Up(k)) \in A
  <2> SUFFICES ASSUME NEW a \in A, NEW k \in 1 .. n PROVE prune_step(a, Up(k)) \in A
    OBVIOUS
  <2>1. Len(q) - k \in Nat /\ Len(q) - k <= Len(q)
    BY <1>0
  <2>2. Up(k) \in Name
    BY <2>1, PrefixName
  <2> QED
    BY <2>2, PruneStep
<1>3. F \in Rounds(A, n)
  BY <1>2 DEF Rounds
<1>4. \A a \in A, k \in 1 .. n : F[k][a] = prune_step(a, Up(k))
  OBVIOUS
<1>a. L = CHOOSE f : f = Loop(f)
  BY DEF prune_loop
<1> HIDE DEF A, F, b, n, L, Up
<1>5. PICK f \in [0 .. n -> A] : f[0] = b /\ \A k \in 1 .. n : f[k] = F[k][f[k - 1]]
  <2>1. n \in Nat
    BY <1>1
  <2>2. b \in A
    BY <1>1
  <2>3. Runs(A, n, F, b)
    BY <1>3, <2>1, <2>2, LoopRuns
  <2> QED
    BY <2>3 DEF Runs
<1>6. f = Loop(f)
  <2>1. ASSUME NEW k \in 0 .. n PROVE f[k] = Loop(f)[k]
    <3>1. CASE k = 0
      BY <1>1, <1>5, <3>1
    <3>2. CASE k # 0
      <4>1. k \in 1 .. n /\ k - 1 \in 0 .. n
        BY <1>1, <3>2
      <4>2. f[k] = prune_step(f[k - 1], Up(k))
        BY <1>4, <1>5, <4>1
      <4> QED
        BY <3>2, <4>2
    <3> QED
      BY <3>1, <3>2
  <2> QED
    BY <2>1
<1>7. L = Loop(L)
  BY <1>6, <1>a
<1> DEFINE G == {k \in Nat : L[k] \in A}
<1>8. 0 \in G
  BY <1>1, <1>7
<1>9. \A k \in 1 .. n : k - 1 \in G => k \in G
  <2> SUFFICES ASSUME NEW k \in 1 .. n, L[k - 1] \in A PROVE L[k] \in A
    BY <1>1
  <2>1. L[k] = prune_step(L[k - 1], Up(k))
    BY <1>1, <1>7
  <2> QED
    BY <1>2, <2>1
<1> HIDE DEF G
<1>10. \A k \in 0 .. n : k \in G
  BY <1>1, <1>8, <1>9, UpTo, Zenon
<1>11. L[0] = b /\ \A k \in 1 .. n : L[k] = prune_step(L[k - 1], Up(k))
  BY <1>1, <1>7
<1> QED
  BY <1>1, <1>10, <1>11 DEF G, A, L, n, b, Up

\* So does the whole.
LEMMA PruneSame ==
  ASSUME NEW nd \in Tree, NEW q \in Name, Len(q) > 0, Refs(nd, q) = 0
  PROVE  prune_loop(nd, q)[Len(q) - 1] \in SameRefs(nd)
<1>1. Len(q) \in Nat
  BY DEF Name
<1>2. Len(q) - 1 \in 0 .. Len(q) - 1
  BY <1>1
<1> QED
  BY <1>2, PruneRounds

\* A device that leaves takes no node with references along.
LEMMA DetachSame ==
  ASSUME NEW nd \in Tree, NEW d \in Device, \A q \in Name : Refs(nd, q) \in Nat
  PROVE  devfs_detach_locked(nd, d).node \in SameRefs(nd)
<1> DEFINE q == Path[d]
<1>1. q \in Name /\ Len(q) > 0
  <2>1. q \in Seq(Nat) /\ q # <<>>
    BY DevfsAssumption
  <2>2. Len(q) \in Nat /\ Len(q) # 0
    BY <2>1, EmptySeq
  <2> QED
    BY <2>1, <2>2 DEF Name
<1>2. nd \in SameRefs(nd)
  BY DEF SameRefs
<1>3. CASE q \notin DOMAIN nd \/ nd[q].dev # d \/ Busy(nd, q)
  <2>1. devfs_detach_locked(nd, d).node = nd
    BY <1>3 DEF devfs_detach_locked
  <2> QED
    BY <1>2, <2>1
<1>4. CASE ~(q \notin DOMAIN nd \/ nd[q].dev # d \/ Busy(nd, q))
  <2>1. devfs_detach_locked(nd, d).node = prune_loop(nd, q)[Len(q) - 1]
    BY <1>4 DEF devfs_detach_locked
  <2>2. Refs(nd, q) = 0
    <3> HIDE DEF q
    <3>1. Refs(nd, q) \in Nat /\ Refs(nd, q) = nd[q].refs
      BY <1>1, <1>4 DEF Refs
    <3> QED
      BY <1>4, <3>1 DEF Busy
  <2> QED
    BY <1>1, <2>1, <2>2, PruneSame
<1> QED
  BY <1>3, <1>4

\* A new root without references.
NewRoot == [q \in {<<>>} |-> NewNode(TRUE)]

Listening == [node : SameRefs(NewRoot), unseen : SUBSET Device]

\* Telling the listener of a device leaves the counts.
LEMMA ListenStep ==
  ASSUME NEW acc \in Listening, NEW d \in Device PROVE listen_step(acc, d) \in Listening
<1> DEFINE r == devfs_attach_locked(acc.node, d)
<1>1. acc.node \in SameRefs(NewRoot) /\ acc.unseen \in SUBSET Device
  BY DEF Listening
<1>2. acc.node \in Tree
  BY <1>1 DEF SameRefs
<1>3. r \in Attaching(acc.node)
  BY <1>2, AttachSame
<1>4. r.node \in SameRefs(acc.node)
  BY <1>3 DEF Attaching
<1>5. r.node \in SameRefs(NewRoot)
  BY <1>1, <1>4 DEF SameRefs
<1>6. listen_step(acc, d) =
        [node |-> r.node, unseen |-> IF r.rc = "ok" THEN acc.unseen ELSE acc.unseen \cup {d}]
  BY DEF listen_step
<1> HIDE DEF r
<1> QED
  BY <1>1, <1>5, <1>6 DEF Listening

\* The rounds of vdev_listen in devfs_mount, whatever is registered.
LEMMA ListenRounds ==
  ASSUME NEW devs \in Seq(Device)
  PROVE  /\ listen_loop(devs)[0] = [node |-> NewRoot, unseen |-> {}]
         /\ \A k \in 1 .. Len(devs) :
              listen_loop(devs)[k] = listen_step(listen_loop(devs)[k - 1], devs[k])
         /\ \A k \in 0 .. Len(devs) : listen_loop(devs)[k] \in Listening
<1> DEFINE A == Listening
           n == Len(devs)
           b == [node |-> NewRoot, unseen |-> {}]
           F == [k \in 1 .. n |-> [a \in A |-> listen_step(a, devs[k])]]
           Loop(f) == [k \in 0 .. n |-> IF k = 0 THEN b ELSE listen_step(f[k - 1], devs[k])]
           L == listen_loop(devs)
<1>1. n \in Nat /\ b \in A
  <2>1. NewNode(TRUE) \in NodeRec
    BY NewNodeType
  <2>2. {<<>>} \subseteq Name
    BY DEF Name
  <2>3. NewRoot \in [{<<>>} -> NodeRec]
    BY <2>1 DEF NewRoot
  <2>4. NewRoot \in Tree
    BY <2>2, <2>3, TreeIntro
  <2>5. NewRoot \in SameRefs(NewRoot)
    BY <2>4 DEF SameRefs
  <2> QED
    BY <2>5 DEF Listening
<1>2. \A a \in A, k \in 1 .. n : listen_step(a, devs[k]) \in A
  BY ListenStep
<1>3. F \in Rounds(A, n)
  BY <1>2 DEF Rounds
<1>4. \A a \in A, k \in 1 .. n : F[k][a] = listen_step(a, devs[k])
  OBVIOUS
<1>a. L = CHOOSE f : f = Loop(f)
  BY DEF listen_loop, NewRoot
<1> HIDE DEF A, F, b, n, L
<1>5. PICK f \in [0 .. n -> A] : f[0] = b /\ \A k \in 1 .. n : f[k] = F[k][f[k - 1]]
  <2>1. n \in Nat
    BY <1>1
  <2>2. b \in A
    BY <1>1
  <2>3. Runs(A, n, F, b)
    BY <1>3, <2>1, <2>2, LoopRuns
  <2> QED
    BY <2>3 DEF Runs
<1>6. f = Loop(f)
  <2>1. ASSUME NEW k \in 0 .. n PROVE f[k] = Loop(f)[k]
    <3>1. CASE k = 0
      BY <1>1, <1>5, <3>1
    <3>2. CASE k # 0
      <4>1. k \in 1 .. n /\ k - 1 \in 0 .. n
        BY <1>1, <3>2
      <4>2. f[k] = listen_step(f[k - 1], devs[k])
        BY <1>4, <1>5, <4>1
      <4> QED
        BY <3>2, <4>2
    <3> QED
      BY <3>1, <3>2
  <2> QED
    BY <2>1
<1>7. L = Loop(L)
  BY <1>6, <1>a
<1> DEFINE G == {k \in Nat : L[k] \in A}
<1>8. 0 \in G
  BY <1>1, <1>7
<1>9. \A k \in 1 .. n : k - 1 \in G => k \in G
  <2> SUFFICES ASSUME NEW k \in 1 .. n, L[k - 1] \in A PROVE L[k] \in A
    BY <1>1
  <2>1. L[k] = listen_step(L[k - 1], devs[k])
    BY <1>1, <1>7
  <2> QED
    BY <1>2, <2>1
<1> HIDE DEF G
<1>10. \A k \in 0 .. n : k \in G
  BY <1>1, <1>8, <1>9, UpTo, Zenon
<1>11. L[0] = b /\ \A k \in 1 .. n : L[k] = listen_step(L[k - 1], devs[k])
  BY <1>1, <1>7
<1> QED
  BY <1>1, <1>10, <1>11 DEF G, A, L, n, b, NewRoot

\* So devfs_mount makes a tree without references.
LEMMA ListenSame ==
  ASSUME NEW devs \in Seq(Device)
  PROVE  listen_loop(devs)[Len(devs)] \in Listening
<1>1. Len(devs) \in 0 .. Len(devs)
  OBVIOUS
<1> QED
  BY <1>1, ListenRounds

-----------------------------------------------------------------------------
(* Handles and cursors.                                                    *)

Handle == [path : Name, dev : Owner]
Cursor == [path : Name, pos : Name \cup {NULL}]

DevType ==
  /\ g_devs \in Seq(Device) /\ mounted \in BOOLEAN /\ node \in Tree
  /\ file \in [Proc -> Handle \cup {NULL}]
  /\ opening \in [Proc -> BOOLEAN]
  /\ dir \in [Proc -> Cursor \cup {NULL}]

\* The references caller p has on path q: its handle, its directory, its position.
Opens(p, q) == file[p] # NULL /\ file[p].path = q
Lists(p, q) == dir[p] # NULL /\ dir[p].path = q
Stops(p, q) == dir[p] # NULL /\ dir[p].pos = q

Count(b) == IF b THEN 1 ELSE 0
Uses(p, q) == Count(Opens(p, q)) + Count(Lists(p, q)) + Count(Stops(p, q))

Users(q) == Cardinality({p \in Proc : Opens(p, q)}) + Cardinality({p \in Proc : Lists(p, q)})
              + Cardinality({p \in Proc : Stops(p, q)})

RefsCounted == \A q \in Name : Refs(node, q) = Users(q)

DevInv ==
  /\ DevType /\ RefsCounted
  /\ ~mounted => DOMAIN node = {}
  /\ \A p \in Proc : opening[p] => file[p] # NULL

\* NULL is neither a path nor a handle nor a cursor.
LEMMA NullDiffers == NULL \notin Name /\ NULL \notin Handle /\ NULL \notin Cursor
BY DevfsAssumption DEF Name, Handle, Cursor, Owner

\* The sizes that are counted.
LEMMA CountsNat ==
  ASSUME IsFiniteSet(Proc), NEW q
  PROVE  /\ Cardinality({p \in Proc : Opens(p, q)}) \in Nat
         /\ Cardinality({p \in Proc : Lists(p, q)}) \in Nat
         /\ Cardinality({p \in Proc : Stops(p, q)}) \in Nat
<1>1. \A S \in SUBSET Proc : Cardinality(S) \in Nat
  BY FS_Subset, FS_CardinalityType
<1>2. /\ {p \in Proc : Opens(p, q)} \in SUBSET Proc
      /\ {p \in Proc : Lists(p, q)} \in SUBSET Proc
      /\ {p \in Proc : Stops(p, q)} \in SUBSET Proc
  OBVIOUS
<1> QED
  BY <1>1, <1>2, Zenon

\* No count is negative.
LEMMA RefsNat ==
  ASSUME IsFiniteSet(Proc), RefsCounted PROVE \A q \in Name : Refs(node, q) \in Nat
<1> SUFFICES ASSUME NEW q \in Name PROVE Refs(node, q) \in Nat
  OBVIOUS
<1> DEFINE a == Cardinality({p \in Proc : Opens(p, q)})
           b == Cardinality({p \in Proc : Lists(p, q)})
           c == Cardinality({p \in Proc : Stops(p, q)})
<1>1. a \in Nat /\ b \in Nat /\ c \in Nat
  BY CountsNat
<1>2. Refs(node, q) = a + b + c
  BY DEF RefsCounted, Users
<1> HIDE DEF a, b, c
<1> QED
  BY <1>1, <1>2

\* What a caller uses is counted.
LEMMA UsedCounted ==
  ASSUME IsFiniteSet(Proc), NEW p \in Proc, NEW q, Opens(p, q) \/ Lists(p, q) \/ Stops(p, q)
  PROVE  Users(q) > 0
<1> DEFINE A == {r \in Proc : Opens(r, q)}
           B == {r \in Proc : Lists(r, q)}
           C == {r \in Proc : Stops(r, q)}
<1>1. Cardinality(A) \in Nat /\ Cardinality(B) \in Nat /\ Cardinality(C) \in Nat
  BY CountsNat
<1>2. A \subseteq Proc /\ B \subseteq Proc /\ C \subseteq Proc
  OBVIOUS
<1>3. p \in A \/ p \in B \/ p \in C
  OBVIOUS
<1>4. Users(q) = Cardinality(A) + Cardinality(B) + Cardinality(C)
  BY DEF Users
<1> HIDE DEF A, B, C
<1>5. IsFiniteSet(A) /\ IsFiniteSet(B) /\ IsFiniteSet(C)
  BY <1>2, FS_Subset
<1>6. \A S : IsFiniteSet(S) /\ p \in S => Cardinality(S) # 0
  BY FS_EmptySet
<1>7. Cardinality(A) # 0 \/ Cardinality(B) # 0 \/ Cardinality(C) # 0
  BY <1>3, <1>5, <1>6
<1> QED
  BY <1>1, <1>4, <1>7

\* So it is allocated.
LEMMA UsedAllocated ==
  ASSUME IsFiniteSet(Proc), RefsCounted, NEW p \in Proc, NEW q \in Name,
         Opens(p, q) \/ Lists(p, q) \/ Stops(p, q)
  PROVE  q \in DOMAIN node
<1>1. Users(q) > 0
  BY UsedCounted
<1>2. Refs(node, q) > 0
  BY <1>1 DEF RefsCounted
<1> QED
  BY <1>2 DEF Refs

\* The counts are right when the callers change nothing and the listener only trees
\* with the same references.
LEMMA QuietStep ==
  ASSUME RefsCounted, node' \in SameRefs(node), UNCHANGED <<file, dir>>
  PROVE  RefsCounted'
<1> SUFFICES ASSUME NEW q \in Name PROVE Refs(node', q) = Users(q)'
  BY DEF RefsCounted, Refs
<1>1. Users(q)' = Users(q)
  BY DEF Users, Opens, Lists, Stops
<1>2. Refs(node', q) = Refs(node, q)
  BY DEF SameRefs
<1> QED
  BY <1>1, <1>2 DEF RefsCounted

\* The counts are right when one caller moves and the tree with it.
LEMMA UserStep ==
  ASSUME IsFiniteSet(Proc), RefsCounted, NEW p \in Proc,
         \A r \in Proc \ {p} : file'[r] = file[r] /\ dir'[r] = dir[r],
         \A q \in Name : Refs(node', q) = Refs(node, q) - Uses(p, q) + Uses(p, q)'
  PROVE  RefsCounted'
<1> SUFFICES ASSUME NEW q \in Name PROVE Refs(node', q) = Users(q)'
  BY DEF RefsCounted, Refs
<1> DEFINE A == {r \in Proc : Opens(r, q)}
           B == {r \in Proc : Lists(r, q)}
           C == {r \in Proc : Stops(r, q)}
           A2 == {r \in Proc : Opens(r, q)'}
           B2 == {r \in Proc : Lists(r, q)'}
           C2 == {r \in Proc : Stops(r, q)'}
<1>1. Cardinality(A) \in Nat /\ Cardinality(B) \in Nat /\ Cardinality(C) \in Nat
  BY CountsNat
<1>2. /\ A \subseteq Proc /\ B \subseteq Proc /\ C \subseteq Proc
      /\ A2 \subseteq Proc /\ B2 \subseteq Proc /\ C2 \subseteq Proc
  OBVIOUS
<1>3. \A r \in Proc \ {p} : /\ r \in A <=> r \in A2
                            /\ r \in B <=> r \in B2
                            /\ r \in C <=> r \in C2
  BY DEF Opens, Lists, Stops
<1>4. /\ Users(q) = Cardinality(A) + Cardinality(B) + Cardinality(C)
      /\ Users(q)' = Cardinality(A2) + Cardinality(B2) + Cardinality(C2)
  BY DEF Users
<1>5. /\ Uses(p, q) = (IF p \in A THEN 1 ELSE 0) + (IF p \in B THEN 1 ELSE 0)
                        + (IF p \in C THEN 1 ELSE 0)
      /\ Uses(p, q)' = (IF p \in A2 THEN 1 ELSE 0) + (IF p \in B2 THEN 1 ELSE 0)
                        + (IF p \in C2 THEN 1 ELSE 0)
  BY DEF Uses, Count
<1> HIDE DEF A, B, C, A2, B2, C2
<1>6. Cardinality(A2) = Cardinality(A) - (IF p \in A THEN 1 ELSE 0) + (IF p \in A2 THEN 1 ELSE 0)
  BY <1>2, <1>3, CountOne
<1>7. Cardinality(B2) = Cardinality(B) - (IF p \in B THEN 1 ELSE 0) + (IF p \in B2 THEN 1 ELSE 0)
  BY <1>2, <1>3, CountOne
<1>8. Cardinality(C2) = Cardinality(C) - (IF p \in C THEN 1 ELSE 0) + (IF p \in C2 THEN 1 ELSE 0)
  BY <1>2, <1>3, CountOne
<1>9. Refs(node', q) = Users(q) - Uses(p, q) + Uses(p, q)'
  BY DEF RefsCounted
<1> QED
  BY <1>1, <1>4, <1>5, <1>6, <1>7, <1>8, <1>9

\* The tree t with count n at q.
Put(t, q, n) == [t EXCEPT ![q].refs = n]

\* Changing the count of one node changes no other.
LEMMA SetRefs ==
  ASSUME NEW t \in Tree, NEW q \in DOMAIN t, NEW n \in Int
  PROVE  /\ Put(t, q, n) \in Tree /\ DOMAIN Put(t, q, n) = DOMAIN t
         /\ \A r \in Name : Refs(Put(t, q, n), r) = IF r = q THEN n ELSE Refs(t, r)
<1> DEFINE u == Put(t, q, n)
<1> USE DEF Put
<1>1. DOMAIN t \subseteq Name /\ t \in [DOMAIN t -> NodeRec]
  BY TreeElim
<1>2. u \in [DOMAIN t -> NodeRec]
  BY <1>1 DEF NodeRec
<1>3. u \in Tree /\ DOMAIN u = DOMAIN t
  BY <1>1, <1>2, TreeIntro
<1>4. ASSUME NEW r \in DOMAIN t PROVE u[r].refs = IF r = q THEN n ELSE t[r].refs
  BY <1>1 DEF NodeRec
<1>5. ASSUME NEW r \in Name PROVE Refs(u, r) = IF r = q THEN n ELSE Refs(t, r)
  BY <1>3, <1>4 DEF Refs
<1> QED
  BY <1>3, <1>5

\* At first nothing is mounted, and nothing open.
LEMMA InitDev == ASSUME Init PROVE DevInv
<1>1. node \in Tree /\ DOMAIN node = {}
  <2>1. node \in [{} -> NodeRec] /\ {} \subseteq Name
    BY DEF Init
  <2> QED
    BY <2>1, TreeIntro
<1>2. DevType
  <2>1. g_devs \in Seq(Device) /\ mounted \in BOOLEAN
    <3>1. g_devs = <<>> /\ mounted = FALSE
      BY DEF Init
    <3> QED
      BY <3>1, EmptySeq
  <2>2. /\ file \in [Proc -> Handle \cup {NULL}]
        /\ opening \in [Proc -> BOOLEAN]
        /\ dir \in [Proc -> Cursor \cup {NULL}]
    BY DEF Init
  <2> QED
    BY <1>1, <2>1, <2>2 DEF DevType
<1>3. RefsCounted
  <2> SUFFICES ASSUME NEW q \in Name PROVE Refs(node, q) = Users(q)
    BY DEF RefsCounted
  <2>1. /\ {p \in Proc : Opens(p, q)} = {}
        /\ {p \in Proc : Lists(p, q)} = {}
        /\ {p \in Proc : Stops(p, q)} = {}
    BY DEF Init, Opens, Lists, Stops
  <2>2. Users(q) = 0
    BY <2>1, FS_EmptySet DEF Users
  <2> QED
    BY <1>1, <2>2 DEF Refs
<1> QED
  BY <1>1, <1>2, <1>3 DEF DevInv, Init

\* A device joins: nodes may be made, none is lost.
LEMMA RegisterDev ==
  ASSUME DevInv, NEW d \in Device, vdev_register(d) PROVE DevInv'
<1>1. DevType /\ RefsCounted /\ node \in Tree
  BY DEF DevInv, DevType
<1>2. node' \in SameRefs(node) /\ (~mounted => node' = node)
  <2>1. devfs_attach_locked(node, d).node \in SameRefs(node)
    BY <1>1, AttachSame DEF Attaching
  <2>2. node \in SameRefs(node)
    BY <1>1 DEF SameRefs
  <2>3. node' = devfs_attach_locked(node, d).node \/ (~mounted /\ node' = node)
    BY DEF vdev_register
  <2>4. ~mounted => node' = node
    BY DEF vdev_register
  <2> QED
    BY <2>1, <2>2, <2>3, <2>4
<1>3. g_devs' \in Seq(Device)
  <2>1. <<d>> \in Seq(Device) /\ g_devs \in Seq(Device)
    BY <1>1 DEF DevType
  <2> QED
    BY <2>1, ConcatProperties DEF vdev_register
<1>4. RefsCounted'
  BY <1>1, <1>2, QuietStep DEF vdev_register, users
<1>5. DevType'
  BY <1>1, <1>2, <1>3 DEF DevType, SameRefs, vdev_register, users
<1> QED
  BY <1>2, <1>4, <1>5 DEF DevInv, vdev_register, users

\* A device leaves: no node in use goes with it.
LEMMA UnregisterDev ==
  ASSUME IsFiniteSet(Proc), DevInv, NEW d \in Device, vdev_unregister(d) PROVE DevInv'
<1>1. DevType /\ RefsCounted /\ node \in Tree
  BY DEF DevInv, DevType
<1>2. node' \in SameRefs(node) /\ (~mounted => node' = node)
  <2>1. \A q \in Name : Refs(node, q) \in Nat
    BY <1>1, RefsNat
  <2>2. devfs_detach_locked(node, d).node \in SameRefs(node)
    BY <1>1, <2>1, DetachSame
  <2>3. node \in SameRefs(node)
    BY <1>1 DEF SameRefs
  <2>4. node' = devfs_detach_locked(node, d).node \/ (~mounted /\ node' = node)
    BY DEF vdev_unregister
  <2>5. ~mounted => node' = node
    BY DEF vdev_unregister
  <2> QED
    BY <2>2, <2>3, <2>4, <2>5
<1>3. g_devs' \in Seq(Device)
  <2>1. PICK i \in 1 .. Len(g_devs) : g_devs' = RemoveAt(g_devs, i)
    BY DEF vdev_unregister
  <2> DEFINE s == g_devs
             a == SubSeq(s, 1, i - 1)
             z == SubSeq(s, i + 1, Len(s))
  <2>2. s \in Seq(Device) /\ Len(s) \in Nat
    BY <1>1 DEF DevType
  <2>3. \A j \in 1 .. Len(s) : s[j] \in Device
    BY <2>2
  <2> HIDE DEF s
  <2>4. a \in Seq(Device)
    <3>1. 1 \in Int /\ i - 1 \in Int /\ \A j \in 1 .. i - 1 : s[j] \in Device
      BY <2>2, <2>3 DEF s
    <3> QED
      BY <2>2, <3>1, SubSeqProperties
  <2>5. z \in Seq(Device)
    <3>1. i + 1 \in Int /\ Len(s) \in Int /\ \A j \in i + 1 .. Len(s) : s[j] \in Device
      BY <2>2, <2>3
    <3> QED
      BY <2>2, <3>1, SubSeqProperties
  <2>6. g_devs' = a \o z
    BY <2>1 DEF RemoveAt, s
  <2> HIDE DEF a, z
  <2> QED
    BY <2>4, <2>5, <2>6, ConcatProperties
<1>4. RefsCounted'
  BY <1>1, <1>2, QuietStep DEF vdev_unregister, users
<1>5. DevType'
  BY <1>1, <1>2, <1>3 DEF DevType, SameRefs, vdev_unregister, users
<1> QED
  BY <1>2, <1>4, <1>5 DEF DevInv, vdev_unregister, users

\* Mounting makes a tree without references where there was none.
LEMMA MountDev == ASSUME DevInv, devfs_mount PROVE DevInv'
<1>1. DevType /\ RefsCounted /\ DOMAIN node = {} /\ g_devs \in Seq(Device)
  BY DEF DevInv, DevType, devfs_mount
<1>2. node' \in SameRefs(NewRoot)
  <2>1. listen_loop(g_devs)[Len(g_devs)] \in Listening
    BY <1>1, ListenSame
  <2>2. node' = listen_loop(g_devs)[Len(g_devs)].node
    BY DEF devfs_mount
  <2> QED
    BY <2>1, <2>2 DEF Listening
<1>3. \A q \in Name : Refs(NewRoot, q) = 0 /\ Refs(node, q) = 0
  <2>1. NewNode(TRUE).refs = 0
    BY NewNodeType
  <2>2. DOMAIN NewRoot = {<<>>} /\ NewRoot[<<>>] = NewNode(TRUE)
    BY DEF NewRoot
  <2> QED
    BY <1>1, <2>1, <2>2 DEF Refs
<1>4. node' \in SameRefs(node)
  BY <1>2, <1>3 DEF SameRefs
<1>5. RefsCounted'
  BY <1>1, <1>4, QuietStep DEF devfs_mount, users
<1>6. DevType'
  BY <1>1, <1>4 DEF DevType, SameRefs, devfs_mount, users
<1> QED
  BY <1>5, <1>6 DEF DevInv, devfs_mount, users

\* Unmounting frees a tree nobody uses.
LEMMA UnmountDev == ASSUME DevInv, devfs_unmount PROVE DevInv'
<1>1. DevType /\ RefsCounted
  BY DEF DevInv
<1>2. node' \in Tree /\ DOMAIN node' = {}
  <2>1. node' \in [{} -> NodeRec] /\ {} \subseteq Name
    BY DEF devfs_unmount
  <2> QED
    BY <2>1, TreeIntro
<1>3. RefsCounted'
  <2> SUFFICES ASSUME NEW q \in Name PROVE Refs(node', q) = Users(q)'
    BY DEF RefsCounted, Refs
  <2>1. /\ {p \in Proc : Opens(p, q)'} = {}
        /\ {p \in Proc : Lists(p, q)'} = {}
        /\ {p \in Proc : Stops(p, q)'} = {}
    BY DEF devfs_unmount, users, Opens, Lists, Stops
  <2>2. Users(q)' = 0
    BY <2>1, FS_EmptySet DEF Users
  <2> QED
    BY <1>2, <2>2 DEF Refs
<1>4. DevType'
  BY <1>1, <1>2 DEF DevType, devfs_unmount, users
<1> QED
  BY <1>2, <1>3, <1>4 DEF DevInv, devfs_unmount, users

\* devfs_open pins the node before it lets go of the lock.
LEMMA OpenDev ==
  ASSUME IsFiniteSet(Proc), DevInv, NEW p \in Proc, NEW q, NEW wantDir \in BOOLEAN,
         devfs_open(p, q, wantDir)
  PROVE  DevInv'
<1>1. DevType /\ RefsCounted /\ node \in Tree /\ q \in DOMAIN node
  BY DEF DevInv, DevType, devfs_open
<1>2. DOMAIN node \subseteq Name /\ node \in [DOMAIN node -> NodeRec]
  BY <1>1, TreeElim
<1>3. q \in Name /\ node[q].refs \in Int /\ node[q].dev \in Owner
  BY <1>1, <1>2 DEF NodeRec
<1> DEFINE h == [path |-> q, dev |-> node[q].dev]
           n == node[q].refs + 1
<1>4. h \in Handle /\ h # NULL /\ h.path = q
  BY <1>3, NullDiffers DEF Handle
<1>5. file' = [file EXCEPT ![p] = h] /\ dir' = dir /\ file[p] = NULL
  BY DEF devfs_open
<1>6. node' = Put(node, q, n)
  BY <1>1, <1>2 DEF devfs_open, Put
<1> HIDE DEF h
<1>7. /\ node' \in Tree /\ DOMAIN node' = DOMAIN node
      /\ \A r \in Name : Refs(node', r) = IF r = q THEN n ELSE Refs(node, r)
  <2>1. n \in Int
    BY <1>3
  <2> HIDE DEF n
  <2> QED
    BY <1>1, <1>6, <2>1, SetRefs
<1>8. file \in [Proc -> Handle \cup {NULL}]
  BY <1>1 DEF DevType
<1>9. \A r \in Proc : file'[r] = IF r = p THEN h ELSE file[r]
  BY <1>5, <1>8
<1>10. RefsCounted'
  <2>1. ASSUME NEW r \in Name
        PROVE  Refs(node', r) = Refs(node, r) - Uses(p, r) + Uses(p, r)'
    <3>1. ~Opens(p, r) /\ (Opens(p, r)' <=> r = q)
      BY <1>4, <1>5, <1>9 DEF Opens
    <3>2. (Lists(p, r)' <=> Lists(p, r)) /\ (Stops(p, r)' <=> Stops(p, r))
      BY <1>5 DEF Lists, Stops
    <3>3. Uses(p, r)' - Uses(p, r) = IF r = q THEN 1 ELSE 0
      BY <3>1, <3>2 DEF Uses, Count
    <3>4. Uses(p, r)' \in Int /\ Uses(p, r) \in Int
      BY DEF Uses, Count
    <3>5. Refs(node, r) \in Int /\ (r = q => Refs(node, r) = node[q].refs)
      BY <1>1, <1>2 DEF Refs, NodeRec
    <3> QED
      BY <1>7, <3>3, <3>4, <3>5
  <2>2. \A r \in Proc \ {p} : file'[r] = file[r] /\ dir'[r] = dir[r]
    BY <1>5, <1>9
  <2> QED
    BY <1>1, <2>1, <2>2, UserStep
<1>11. DevType'
  <2>1. file' \in [Proc -> Handle \cup {NULL}]
    BY <1>4, <1>5, <1>8
  <2>2. opening' \in [Proc -> BOOLEAN]
    BY <1>1 DEF DevType, devfs_open
  <2> QED
    BY <1>1, <1>7, <2>1, <2>2 DEF DevType, devfs_open
<1>12. \A r \in Proc : opening'[r] => file'[r] # NULL
  <2>1. \A r \in Proc \ {p} : opening'[r] = opening[r]
    BY DEF devfs_open
  <2> QED
    BY <1>4, <1>9, <2>1 DEF DevInv
<1> QED
  BY <1>7, <1>10, <1>11, <1>12 DEF DevInv, devfs_open

\* What the code does to the count of a handle's node.
LEMMA UnpinnedTree ==
  ASSUME IsFiniteSet(Proc), DevInv, NEW p \in Proc, file[p] # NULL
  PROVE  [node EXCEPT ![file[p].path].refs = @ - 1]
           = Put(node, file[p].path, node[file[p].path].refs - 1)
<1> DEFINE q == file[p].path
<1>1. node \in Tree /\ file \in [Proc -> Handle \cup {NULL}] /\ RefsCounted
  BY DEF DevInv, DevType
<1>2. DOMAIN node \subseteq Name /\ node \in [DOMAIN node -> NodeRec]
  BY <1>1, TreeElim
<1>3. q \in Name /\ Opens(p, q)
  BY <1>1 DEF Handle, Opens
<1> HIDE DEF q
<1>4. q \in DOMAIN node
  BY <1>1, <1>3, UsedAllocated
<1>5. [node EXCEPT ![q].refs = @ - 1] = Put(node, q, node[q].refs - 1)
  BY <1>2, <1>4 DEF Put
<1> QED
  BY <1>5 DEF q

\* A handle that goes, by devfs_close or by an open that fails, gives its pin back.
LEMMA UnpinDev ==
  ASSUME IsFiniteSet(Proc), DevInv, NEW p \in Proc, file[p] # NULL,
         node' = Put(node, file[p].path, node[file[p].path].refs - 1),
         file' = [file EXCEPT ![p] = NULL],
         opening' = [opening EXCEPT ![p] = FALSE],
         UNCHANGED <<g_devs, mounted, dir>>
  PROVE  DevInv'
<1> DEFINE q == file[p].path
           n == node[q].refs - 1
<1>1. DevType /\ RefsCounted /\ node \in Tree
  BY DEF DevInv, DevType
<1>2. DOMAIN node \subseteq Name /\ node \in [DOMAIN node -> NodeRec]
  BY <1>1, TreeElim
<1>3. file \in [Proc -> Handle \cup {NULL}]
  BY <1>1 DEF DevType
<1>4. q \in Name
  BY <1>3 DEF Handle
<1>5. q \in DOMAIN node
  <2>1. Opens(p, q)
    BY DEF Opens
  <2> HIDE DEF q
  <2> QED
    BY <1>1, <1>4, <2>1, UsedAllocated
<1>6. node[q].refs \in Int /\ n \in Int /\ n = node[q].refs - 1
  BY <1>2, <1>5 DEF NodeRec
<1>7. node' = Put(node, q, n)
  OBVIOUS
<1>8. \A r : Opens(p, r) <=> r = q
  BY DEF Opens
<1> HIDE DEF q, n
<1>9. /\ node' \in Tree /\ DOMAIN node' = DOMAIN node
      /\ \A r \in Name : Refs(node', r) = IF r = q THEN n ELSE Refs(node, r)
  BY <1>1, <1>5, <1>6, <1>7, SetRefs
<1>10. \A r \in Proc : file'[r] = IF r = p THEN NULL ELSE file[r]
  BY <1>3
<1>11. RefsCounted'
  <2>1. ASSUME NEW r \in Name
        PROVE  Refs(node', r) = Refs(node, r) - Uses(p, r) + Uses(p, r)'
    <3>1. (Opens(p, r) <=> r = q) /\ ~Opens(p, r)'
      BY <1>8, <1>10 DEF Opens
    <3>2. (Lists(p, r)' <=> Lists(p, r)) /\ (Stops(p, r)' <=> Stops(p, r))
      BY DEF Lists, Stops
    <3>3. Uses(p, r) - Uses(p, r)' = IF r = q THEN 1 ELSE 0
      BY <3>1, <3>2 DEF Uses, Count
    <3>4. Uses(p, r)' \in Int /\ Uses(p, r) \in Int
      BY DEF Uses, Count
    <3>5. Refs(node, r) \in Int /\ (r = q => Refs(node, r) = node[q].refs)
      BY <1>2, <1>5 DEF Refs, NodeRec
    <3>6. Refs(node', r) = IF r = q THEN node[q].refs - 1 ELSE Refs(node, r)
      BY <1>6, <1>9
    <3> QED
      BY <1>6, <3>3, <3>4, <3>5, <3>6
  <2>2. \A r \in Proc \ {p} : file'[r] = file[r] /\ dir'[r] = dir[r]
    BY <1>10
  <2> QED
    BY <1>1, <2>1, <2>2, UserStep
<1>12. DevType'
  <2>1. file' \in [Proc -> Handle \cup {NULL}]
    BY <1>3
  <2>2. opening' \in [Proc -> BOOLEAN]
    BY <1>1 DEF DevType
  <2> QED
    BY <1>1, <1>9, <2>1, <2>2 DEF DevType
<1>13. \A r \in Proc : opening'[r] => file'[r] # NULL
  BY <1>1, <1>10 DEF DevInv, DevType
<1> QED
  BY <1>9, <1>11, <1>12, <1>13 DEF DevInv

\* The device's own open keeps the pin or gives it back.
LEMMA OpenedDev ==
  ASSUME IsFiniteSet(Proc), DevInv, NEW p \in Proc, NEW ok \in BOOLEAN, devfs_opened(p, ok)
  PROVE  DevInv'
<1>1. file[p] # NULL /\ DevType
  BY DEF DevInv, devfs_opened
<1>2. CASE ok
  <2>1. UNCHANGED <<g_devs, mounted, node, file, dir>>
    BY <1>2 DEF devfs_opened
  <2>2. node' \in SameRefs(node)
    BY <1>1, <2>1 DEF SameRefs, DevType
  <2>3. RefsCounted'
    BY <2>1, <2>2, QuietStep DEF DevInv
  <2>4. opening' = [opening EXCEPT ![p] = FALSE]
    BY DEF devfs_opened
  <2>5. DevType'
    <3>1. opening' \in [Proc -> BOOLEAN]
      BY <1>1, <2>4 DEF DevType
    <3> QED
      BY <1>1, <2>1, <3>1, Zenon DEF DevType
  <2>6. ASSUME NEW r \in Proc, opening'[r] PROVE opening[r]
    <3>1. opening'[r] = IF r = p THEN FALSE ELSE opening[r]
      BY <1>1, <2>4 DEF DevType
    <3> QED
      BY <2>6, <3>1
  <2> QED
    BY <2>1, <2>3, <2>5, <2>6, Zenon DEF DevInv
<1>3. CASE ~ok
  <2>1. node' = Put(node, file[p].path, node[file[p].path].refs - 1)
    BY <1>1, <1>3, UnpinnedTree DEF devfs_opened
  <2> QED
    BY <1>1, <1>3, <2>1, UnpinDev DEF devfs_opened
<1> QED
  BY <1>2, <1>3

\* devfs_close gives the pin back.
LEMMA CloseDev ==
  ASSUME IsFiniteSet(Proc), DevInv, NEW p \in Proc, devfs_close(p) PROVE DevInv'
<1>1. opening' = [opening EXCEPT ![p] = FALSE]
  BY DEF DevInv, DevType, devfs_close
<1>2. node' = Put(node, file[p].path, node[file[p].path].refs - 1)
  BY UnpinnedTree DEF devfs_close
<1> QED
  BY <1>1, <1>2, UnpinDev DEF devfs_close

\* devfs_opendir pins the directory.
LEMMA OpendirDev ==
  ASSUME IsFiniteSet(Proc), DevInv, NEW p \in Proc, NEW q, devfs_opendir(p, q)
  PROVE  DevInv'
<1>1. DevType /\ RefsCounted /\ node \in Tree /\ q \in DOMAIN node
  BY DEF DevInv, DevType, devfs_opendir
<1>2. DOMAIN node \subseteq Name /\ node \in [DOMAIN node -> NodeRec]
  BY <1>1, TreeElim
<1>3. q \in Name /\ node[q].refs \in Int
  BY <1>1, <1>2 DEF NodeRec
<1> DEFINE h == [path |-> q, pos |-> NULL]
           n == node[q].refs + 1
<1>4. h \in Cursor /\ h # NULL /\ h.path = q /\ h.pos = NULL
  BY <1>3, NullDiffers DEF Cursor
<1>5. dir' = [dir EXCEPT ![p] = h] /\ file' = file /\ dir[p] = NULL
  BY DEF devfs_opendir
<1>6. node' = Put(node, q, n)
  BY <1>1, <1>2 DEF devfs_opendir, Put
<1> HIDE DEF h
<1>7. /\ node' \in Tree /\ DOMAIN node' = DOMAIN node
      /\ \A r \in Name : Refs(node', r) = IF r = q THEN n ELSE Refs(node, r)
  <2>1. n \in Int
    BY <1>3
  <2> HIDE DEF n
  <2> QED
    BY <1>1, <1>6, <2>1, SetRefs
<1>8. dir \in [Proc -> Cursor \cup {NULL}]
  BY <1>1 DEF DevType
<1>9. \A r \in Proc : dir'[r] = IF r = p THEN h ELSE dir[r]
  BY <1>5, <1>8
<1>10. RefsCounted'
  <2>1. ASSUME NEW r \in Name
        PROVE  Refs(node', r) = Refs(node, r) - Uses(p, r) + Uses(p, r)'
    <3>1. ~Lists(p, r) /\ (Lists(p, r)' <=> r = q)
      BY <1>4, <1>5, <1>9 DEF Lists
    <3>2. (Opens(p, r)' <=> Opens(p, r)) /\ ~Stops(p, r) /\ ~Stops(p, r)'
      BY <1>4, <1>5, <1>9, NullDiffers DEF Opens, Stops
    <3>3. Uses(p, r)' - Uses(p, r) = IF r = q THEN 1 ELSE 0
      BY <3>1, <3>2 DEF Uses, Count
    <3>4. Uses(p, r)' \in Int /\ Uses(p, r) \in Int
      BY DEF Uses, Count
    <3>5. Refs(node, r) \in Int /\ (r = q => Refs(node, r) = node[q].refs)
      BY <1>1, <1>2 DEF Refs, NodeRec
    <3> QED
      BY <1>7, <3>3, <3>4, <3>5
  <2>2. \A r \in Proc \ {p} : file'[r] = file[r] /\ dir'[r] = dir[r]
    BY <1>5, <1>9
  <2> QED
    BY <1>1, <2>1, <2>2, UserStep
<1>11. DevType'
  <2>1. dir' \in [Proc -> Cursor \cup {NULL}]
    BY <1>4, <1>5, <1>8
  <2> QED
    BY <1>1, <1>7, <2>1 DEF DevType, devfs_opendir
<1> QED
  BY <1>5, <1>7, <1>10, <1>11 DEF DevInv, devfs_opendir

\* Children have names with a last component.
LEMMA ChildName ==
  ASSUME NEW t \in Tree, NEW q \in Name, NEW r \in Children(t, q)
  PROVE  r \in Name /\ r \in DOMAIN t /\ Last(r) \in Nat
<1>1. r \in DOMAIN t /\ Len(r) = Len(q) + 1
  BY DEF Children
<1>2. DOMAIN t \subseteq Name
  BY TreeElim
<1>3. r \in Seq(Nat) /\ q \in Seq(Nat)
  BY <1>1, <1>2 DEF Name
<1>4. Len(r) \in 1 .. Len(r)
  BY <1>1, <1>3
<1>5. r[Len(r)] \in Nat
  BY <1>3, <1>4
<1> QED
  BY <1>1, <1>2, <1>5 DEF Last

\* devfs_readdir has one more pin on the child it moves to and one less on the child
\* it leaves, and these two are not the same.
LEMMA ReaddirDev ==
  ASSUME IsFiniteSet(Proc), DevInv, NEW p \in Proc, devfs_readdir(p) PROVE DevInv'
<1> DEFINE d == dir[p]
           rest == {r \in Children(node, d.path) : d.pos = NULL \/ Last(r) > Last(d.pos)}
           next == CHOOSE r \in rest : \A s \in rest : Last(r) <= Last(s)
<1>1. DevType /\ RefsCounted /\ node \in Tree /\ dir \in [Proc -> Cursor \cup {NULL}]
  BY DEF DevInv, DevType
<1>2. DOMAIN node \subseteq Name /\ node \in [DOMAIN node -> NodeRec]
  BY <1>1, TreeElim
<1>3. d # NULL /\ d \in Cursor /\ d.path \in Name /\ d.pos \in Name \cup {NULL}
  BY <1>1 DEF devfs_readdir, Cursor
<1>4. next \in rest
  <2>1. \A r \in rest : Last(r) \in Nat
    BY <1>1, <1>3, ChildName
  <2> DEFINE T == {Last(r) : r \in rest}
  <2>2. T \subseteq Nat /\ T # {}
    BY <2>1 DEF devfs_readdir
  <2>3. PICK x \in T : \A y \in T : x <= y
    BY <2>2, LeastNatural
  <2>4. \E r \in rest : \A s \in rest : Last(r) <= Last(s)
    BY <2>3
  <2> HIDE DEF rest
  <2> QED
    BY <2>4, Zenon
<1>5. next \in Name /\ next \in DOMAIN node /\ next # NULL
  BY <1>1, <1>3, <1>4, ChildName, NullDiffers
<1>6. next # d.pos
  <2>1. Last(next) \in Nat
    BY <1>1, <1>3, <1>4, ChildName
  <2>2. d.pos = NULL \/ Last(next) > Last(d.pos)
    BY <1>4
  <2> HIDE DEF next
  <2> QED
    BY <1>5, <2>1, <2>2
<1>7. /\ node' = [q \in DOMAIN node |->
            IF q = next THEN [node[q] EXCEPT !.refs = @ + 1]
            ELSE IF q = d.pos THEN [node[q] EXCEPT !.refs = @ - 1] ELSE node[q]]
      /\ dir' = [dir EXCEPT ![p].pos = next]
      /\ UNCHANGED <<g_devs, mounted, file, opening>>
  BY DEF devfs_readdir
<1> HIDE DEF next, rest, d
<1>8. node' \in Tree /\ DOMAIN node' = DOMAIN node
  <2>1. ASSUME NEW q \in DOMAIN node
        PROVE  /\ [node[q] EXCEPT !.refs = @ + 1] \in NodeRec
               /\ [node[q] EXCEPT !.refs = @ - 1] \in NodeRec
               /\ node[q] \in NodeRec
    BY <1>2 DEF NodeRec
  <2>2. node' \in [DOMAIN node -> NodeRec]
    BY <1>7, <2>1
  <2> QED
    BY <1>2, <2>2, TreeIntro
<1>9. ASSUME NEW q \in Name
      PROVE  Refs(node', q) = Refs(node, q) + (IF q = next THEN 1 ELSE 0)
                                            - (IF q = d.pos THEN 1 ELSE 0)
  <2>1. CASE q \notin DOMAIN node
    <3>1. q # next
      BY <1>5, <2>1
    <3>2. q # d.pos
      <4>1. ASSUME q = d.pos PROVE Stops(p, q)
        BY <1>3, <4>1 DEF Stops, d
      <4> QED
        BY <1>1, <2>1, <4>1, UsedAllocated
    <3> QED
      BY <1>8, <2>1, <3>1, <3>2 DEF Refs
  <2>2. CASE q \in DOMAIN node
    <3>1. node[q] \in NodeRec /\ node[q].refs \in Int
      BY <1>2, <2>2 DEF NodeRec
    <3>2. node'[q].refs = node[q].refs + (IF q = next THEN 1 ELSE 0)
                                       - (IF q = d.pos THEN 1 ELSE 0)
      <4>1. CASE q = next
        BY <1>6, <1>7, <2>2, <3>1, <4>1 DEF NodeRec
      <4>2. CASE q # next /\ q = d.pos
        BY <1>7, <2>2, <3>1, <4>2 DEF NodeRec
      <4>3. CASE q # next /\ q # d.pos
        BY <1>7, <2>2, <3>1, <4>3
      <4> QED
        BY <4>1, <4>2, <4>3
    <3> QED
      BY <1>8, <2>2, <3>2 DEF Refs
  <2> QED
    BY <2>1, <2>2
<1> DEFINE h == [d EXCEPT !.pos = next]
<1>10. h \in Cursor /\ h # NULL /\ h.path = d.path /\ h.pos = next
  BY <1>3, <1>5, NullDiffers DEF Cursor
<1>11. dir' = [dir EXCEPT ![p] = h]
  BY <1>1, <1>7 DEF d
<1> HIDE DEF h
<1>12. \A r \in Proc : dir'[r] = IF r = p THEN h ELSE dir[r]
  BY <1>1, <1>11
<1>13. RefsCounted'
  <2>1. ASSUME NEW r \in Name
        PROVE  Refs(node', r) = Refs(node, r) - Uses(p, r) + Uses(p, r)'
    <3>1. (Opens(p, r)' <=> Opens(p, r)) /\ (Lists(p, r)' <=> Lists(p, r))
      BY <1>3, <1>7, <1>10, <1>12 DEF Opens, Lists, d
    <3>2. (Stops(p, r) <=> r = d.pos) /\ (Stops(p, r)' <=> r = next)
      BY <1>3, <1>10, <1>12 DEF Stops, d
    <3>3. Uses(p, r)' - Uses(p, r) = (IF r = next THEN 1 ELSE 0) - (IF r = d.pos THEN 1 ELSE 0)
      BY <3>1, <3>2 DEF Uses, Count
    <3>4. Uses(p, r)' \in Int /\ Uses(p, r) \in Int
      BY DEF Uses, Count
    <3>5. Refs(node, r) \in Int
      BY <1>2 DEF Refs, NodeRec
    <3> QED
      BY <1>9, <3>3, <3>4, <3>5
  <2>2. \A r \in Proc \ {p} : file'[r] = file[r] /\ dir'[r] = dir[r]
    BY <1>7, <1>12
  <2> QED
    BY <1>1, <2>1, <2>2, UserStep
<1>14. DevType'
  <2>1. dir' \in [Proc -> Cursor \cup {NULL}]
    BY <1>1, <1>10, <1>11
  <2> QED
    BY <1>1, <1>7, <1>8, <2>1 DEF DevType
<1> QED
  BY <1>7, <1>8, <1>13, <1>14 DEF DevInv

\* devfs_closedir gives both pins of a cursor back.
LEMMA ClosedirDev ==
  ASSUME IsFiniteSet(Proc), DevInv, NEW p \in Proc, devfs_closedir(p) PROVE DevInv'
<1> DEFINE d == dir[p]
           On(x, q) == IF q = x THEN 1 ELSE 0
<1>1. DevType /\ RefsCounted /\ node \in Tree /\ dir \in [Proc -> Cursor \cup {NULL}]
  BY DEF DevInv, DevType
<1>2. DOMAIN node \subseteq Name /\ node \in [DOMAIN node -> NodeRec]
  BY <1>1, TreeElim
<1>3. d # NULL /\ d \in Cursor /\ d.path \in Name /\ d.pos \in Name \cup {NULL}
  BY <1>1 DEF devfs_closedir, Cursor
<1>4. /\ node' = [q \in DOMAIN node |->
                    [node[q] EXCEPT !.refs = @ - On(d.pos, q) - On(d.path, q)]]
      /\ dir' = [dir EXCEPT ![p] = NULL]
      /\ UNCHANGED <<g_devs, mounted, file, opening>>
  BY DEF devfs_closedir
<1>5. \A x, q : On(x, q) \in Int /\ (q # x => On(x, q) = 0)
  OBVIOUS
<1> HIDE DEF On, d
<1>6. node' \in Tree /\ DOMAIN node' = DOMAIN node
  <2>1. ASSUME NEW q \in DOMAIN node
        PROVE  [node[q] EXCEPT !.refs = @ - On(d.pos, q) - On(d.path, q)] \in NodeRec
    BY <1>2, <1>5 DEF NodeRec
  <2>2. node' \in [DOMAIN node -> NodeRec]
    BY <1>4, <2>1
  <2> QED
    BY <1>2, <2>2, TreeIntro
<1>7. ASSUME NEW q \in Name
      PROVE  Refs(node', q) = Refs(node, q) - On(d.pos, q) - On(d.path, q)
  <2>1. CASE q \notin DOMAIN node
    <3>1. q # d.pos /\ q # d.path
      <4>1. ASSUME q = d.pos \/ q = d.path PROVE Stops(p, q) \/ Lists(p, q)
        BY <1>3, <4>1 DEF Stops, Lists, d
      <4> QED
        BY <1>1, <2>1, <4>1, UsedAllocated
    <3> QED
      BY <1>5, <1>6, <2>1, <3>1 DEF Refs
  <2>2. CASE q \in DOMAIN node
    <3>1. node[q] \in NodeRec /\ node[q].refs \in Int
      BY <1>2, <2>2 DEF NodeRec
    <3>2. node'[q].refs = node[q].refs - On(d.pos, q) - On(d.path, q)
      BY <1>4, <2>2, <3>1 DEF NodeRec
    <3> QED
      BY <1>6, <2>2, <3>2 DEF Refs
  <2> QED
    BY <2>1, <2>2
<1>8. \A r \in Proc : dir'[r] = IF r = p THEN NULL ELSE dir[r]
  BY <1>1, <1>4
<1>9. RefsCounted'
  <2>1. ASSUME NEW r \in Name
        PROVE  Refs(node', r) = Refs(node, r) - Uses(p, r) + Uses(p, r)'
    <3>1. (Opens(p, r)' <=> Opens(p, r)) /\ ~Lists(p, r)' /\ ~Stops(p, r)'
      BY <1>4, <1>8 DEF Opens, Lists, Stops
    <3>2. (Stops(p, r) <=> r = d.pos) /\ (Lists(p, r) <=> r = d.path)
      BY <1>3 DEF Stops, Lists, d
    <3>3. Uses(p, r) - Uses(p, r)' = On(d.pos, r) + On(d.path, r)
      BY <3>1, <3>2 DEF Uses, Count, On
    <3>4. Uses(p, r)' \in Int /\ Uses(p, r) \in Int
      BY DEF Uses, Count
    <3>5. Refs(node, r) \in Int
      BY <1>2 DEF Refs, NodeRec
    <3> QED
      BY <1>5, <1>7, <3>3, <3>4, <3>5
  <2>2. \A r \in Proc \ {p} : file'[r] = file[r] /\ dir'[r] = dir[r]
    BY <1>4, <1>8
  <2> QED
    BY <1>1, <2>1, <2>2, UserStep
<1>10. DevType'
  <2>1. dir' \in [Proc -> Cursor \cup {NULL}]
    BY <1>1, <1>4
  <2> QED
    BY <1>1, <1>4, <1>6, <2>1 DEF DevType
<1> QED
  BY <1>4, <1>6, <1>9, <1>10 DEF DevInv

\* Every step keeps the invariant.
LEMMA NextDev ==
  ASSUME IsFiniteSet(Proc), DevInv, [Next]_vars PROVE DevInv'
<1>1. CASE devfs_mount
  BY <1>1, MountDev
<1>2. CASE devfs_unmount
  BY <1>2, UnmountDev
<1>3. ASSUME NEW d \in Device, vdev_register(d) PROVE DevInv'
  BY <1>3, RegisterDev
<1>4. ASSUME NEW d \in Device, vdev_unregister(d) PROVE DevInv'
  BY <1>4, UnregisterDev
<1>5. ASSUME NEW p \in Proc, NEW q \in Nodes, NEW wantDir \in BOOLEAN, devfs_open(p, q, wantDir)
      PROVE  DevInv'
  BY <1>5, OpenDev
<1>6. ASSUME NEW p \in Proc, NEW q \in Nodes, devfs_opendir(p, q) PROVE DevInv'
  BY <1>6, OpendirDev
<1>7. ASSUME NEW p \in Proc, NEW ok \in BOOLEAN, devfs_opened(p, ok) PROVE DevInv'
  BY <1>7, OpenedDev
<1>8. ASSUME NEW p \in Proc, devfs_close(p) PROVE DevInv'
  BY <1>8, CloseDev
<1>9. ASSUME NEW p \in Proc, devfs_readdir(p) PROVE DevInv'
  BY <1>9, ReaddirDev
<1>10. ASSUME NEW p \in Proc, devfs_closedir(p) PROVE DevInv'
  BY <1>10, ClosedirDev
<1>11. CASE UNCHANGED vars
  <2>1. UNCHANGED <<g_devs, mounted, node, file, opening, dir>>
    BY <1>11 DEF vars
  <2> QED
    BY <2>1 DEF DevInv, DevType, RefsCounted, Users, Opens, Lists, Stops, Refs
<1> QED
  BY <1>1, <1>2, <1>3, <1>4, <1>5, <1>6, <1>7, <1>8, <1>9, <1>10, <1>11 DEF Next

\* The counts are the ones the property asks for, and what is counted is allocated.
LEMMA DevPinned ==
  ASSUME IsFiniteSet(Proc), DevInv PROVE NodesPinned
<1>1. node \in Tree /\ RefsCounted /\ dir \in [Proc -> Cursor \cup {NULL}]
      /\ file \in [Proc -> Handle \cup {NULL}]
  BY DEF DevInv, DevType
<1>2. DOMAIN node \subseteq Name
  BY <1>1, TreeElim
<1>3. ASSUME NEW p \in Proc, file[p] # NULL PROVE file[p].path \in DOMAIN node
  <2>1. file[p].path \in Name /\ Opens(p, file[p].path)
    BY <1>1, <1>3 DEF Handle, Opens
  <2> QED
    BY <1>1, <2>1, UsedAllocated
<1>4. ASSUME NEW p \in Proc, dir[p] # NULL
      PROVE  dir[p].path \in DOMAIN node /\ dir[p].pos \in DOMAIN node \cup {NULL}
  <2>1. dir[p].path \in Name /\ dir[p].pos \in Name \cup {NULL}
    BY <1>1, <1>4 DEF Cursor
  <2>2. Lists(p, dir[p].path) /\ Stops(p, dir[p].pos)
    BY <1>4 DEF Lists, Stops
  <2>3. dir[p].path \in DOMAIN node
    BY <1>1, <2>1, <2>2, UsedAllocated
  <2>4. dir[p].pos \in Name => dir[p].pos \in DOMAIN node
    BY <1>1, <2>2, UsedAllocated
  <2> QED
    BY <2>1, <2>3, <2>4
<1>5. ASSUME NEW q \in DOMAIN node
      PROVE  node[q].refs = Cardinality({p \in Proc : file[p] # NULL /\ file[p].path = q})
                          + Cardinality({p \in Proc : dir[p] # NULL /\ dir[p].path = q})
                          + Cardinality({p \in Proc : dir[p] # NULL /\ dir[p].pos = q})
  <2>1. Refs(node, q) = Users(q) /\ Refs(node, q) = node[q].refs
    BY <1>1, <1>2 DEF RefsCounted, Refs
  <2> QED
    BY <2>1 DEF Users, Opens, Lists, Stops
<1> QED
  BY <1>3, <1>4, <1>5 DEF NodesPinned

\* For every set of devices with any names, however deep, and any finite number of
\* callers: the references of a node are exactly its handles and cursors, and a device
\* that leaves frees nothing that is in use.
THEOREM NodesCorrect == ASSUME IsFiniteSet(Proc) PROVE Spec => []NodesPinned
<1>1. Init => DevInv
  BY InitDev
<1>2. DevInv /\ [Next]_vars => DevInv'
  BY NextDev
<1>3. DevInv => NodesPinned
  BY DevPinned
<1> QED
  BY <1>1, <1>2, <1>3, PTL DEF Spec

-----------------------------------------------------------------------------
(* What the nodes stand for.                                               *)

\* Device d has its node in t.
Shown(t, d) == Path[d] \in DOMAIN t /\ t[Path[d]].dev = d

\* A node is a directory or a device's, the latter under the device's name, and it is
\* in a directory.
WellMade(t, q) ==
  /\ t[q].is_dir <=> t[q].dev = NULL
  /\ t[q].dev # NULL => q = Path[t[q].dev]
  /\ q # <<>> => Front(q) \in DOMAIN t /\ t[Front(q)].is_dir

Shape(t) == <<>> \in DOMAIN t /\ \A q \in DOMAIN t : WellMade(t, q)

\* The node above a name that is not the root's.
LEMMA FrontName ==
  ASSUME NEW s \in Name, s # <<>>
  PROVE  Len(s) \in Nat \ {0} /\ Len(Front(s)) = Len(s) - 1 /\ Front(s) \in Name
<1>1. Len(s) \in Nat \ {0}
  BY EmptySeq DEF Name
<1>2. Len(s) - 1 \in Nat /\ Len(s) - 1 <= Len(s)
  BY <1>1
<1>3. Front(s) \in Name
  BY <1>2, PrefixName DEF Front
<1>4. \A i \in 1 .. Len(s) - 1 : s[i] \in Nat
  BY <1>1 DEF Name
<1> DEFINE m == Len(s) - 1
<1>5. Len(SubSeq(s, 1, m)) = IF 1 <= m THEN m - 1 + 1 ELSE 0
  BY <1>2, <1>4, SubSeqProperties
<1>6. Len(SubSeq(s, 1, m)) = m
  <2>1. m \in Nat
    BY <1>2
  <2> HIDE DEF m
  <2> QED
    BY <1>5, <2>1
<1> QED
  BY <1>1, <1>3, <1>6 DEF Front

\* The prefixes of a name lie below each other.
LEMMA PrefixFront ==
  ASSUME NEW s \in Name, NEW k \in 1 .. Len(s)
  PROVE  /\ SubSeq(s, 1, k) \in Name /\ SubSeq(s, 1, k) # <<>>
         /\ Front(SubSeq(s, 1, k)) = SubSeq(s, 1, k - 1)
<1> DEFINE t == SubSeq(s, 1, k)
           u == SubSeq(t, 1, k - 1)
           v == SubSeq(s, 1, k - 1)
<1>1. s \in Seq(Nat) /\ Len(s) \in Nat /\ k \in Nat /\ k <= Len(s) /\ k >= 1
  BY DEF Name
<1>2. \A i \in 1 .. k : s[i] \in Nat
  BY <1>1
<1>3. /\ t \in Seq(Nat) /\ Len(t) = (IF 1 <= k THEN k - 1 + 1 ELSE 0)
      /\ \A i \in 1 .. k - 1 + 1 : t[i] = s[1 + i - 1]
  BY <1>1, <1>2, SubSeqProperties
<1>4. Len(t) = k /\ \A i \in 1 .. k : t[i] = s[i]
  BY <1>1, <1>3
<1>5. /\ v \in Seq(Nat) /\ Len(v) = (IF 1 <= k - 1 THEN k - 1 - 1 + 1 ELSE 0)
      /\ \A i \in 1 .. k - 1 - 1 + 1 : v[i] = s[1 + i - 1]
  <2>1. k - 1 \in Int /\ 1 \in Int /\ \A i \in 1 .. k - 1 : s[i] \in Nat
    BY <1>1, <1>2
  <2> QED
    BY <2>1, SubSeqProperties
<1> HIDE DEF t
<1>6. /\ u \in Seq(Nat) /\ Len(u) = (IF 1 <= k - 1 THEN k - 1 - 1 + 1 ELSE 0)
      /\ \A i \in 1 .. k - 1 - 1 + 1 : u[i] = t[1 + i - 1]
  <2>1. k - 1 \in Int /\ 1 \in Int /\ \A i \in 1 .. k - 1 : t[i] \in Nat
    BY <1>1, <1>3, <1>4
  <2> QED
    BY <2>1, SubSeqProperties
<1> HIDE DEF u, v
<1>7. Len(u) = k - 1 /\ Len(v) = k - 1 /\ \A i \in 1 .. k - 1 : u[i] = v[i]
  <2>1. Len(u) = k - 1 /\ Len(v) = k - 1
    BY <1>1, <1>5, <1>6
  <2>2. ASSUME NEW i \in 1 .. k - 1 PROVE u[i] = v[i]
    <3>1. i \in 1 .. k - 1 - 1 + 1 /\ 1 + i - 1 = i /\ i \in 1 .. k
      BY <1>1
    <3>2. v[i] = s[i]
      BY <1>5, <3>1
    <3>3. u[i] = t[i]
      BY <1>6, <3>1
    <3> QED
      BY <1>4, <3>1, <3>2, <3>3
  <2> QED
    BY <2>1, <2>2
<1>8. u = v
  BY <1>1, <1>5, <1>6, <1>7, SeqEqual
<1>9. Front(t) = u
  BY <1>4 DEF Front, u
<1>10. t # <<>>
  BY <1>1, <1>3, <1>4, EmptySeq
<1> QED
  BY <1>3, <1>8, <1>9, <1>10 DEF t, v, Name

\* The root of a well-made tree is a directory.
LEMMA RootDir == ASSUME NEW t \in Tree, Shape(t) PROVE t[<<>>].is_dir
<1>1. t[<<>>].dev \in Owner /\ WellMade(t, <<>>)
  BY TreeElim DEF Shape, NodeRec
<1>2. \A d \in Device : Path[d] # <<>>
  BY DevfsAssumption
<1> QED
  BY <1>1, <1>2 DEF WellMade, Owner

\* A node that is added in a directory.
LEMMA GrowShape ==
  ASSUME NEW t \in Tree, Shape(t), NEW q \in Name, q # <<>>, q \notin DOMAIN t,
         Front(q) \in DOMAIN t, t[Front(q)].is_dir, NEW rec \in NodeRec,
         rec.is_dir <=> rec.dev = NULL, rec.dev # NULL => q = Path[rec.dev],
         NEW u, DOMAIN u = DOMAIN t \cup {q}, u[q] = rec, \A r \in DOMAIN t : u[r] = t[r]
  PROVE  Shape(u)
<1>1. <<>> \in DOMAIN u
  BY DEF Shape
<1>2. Front(q) # q
  BY Zenon
<1>3. WellMade(u, q)
  BY <1>2 DEF WellMade
<1>4. ASSUME NEW r \in DOMAIN t PROVE WellMade(u, r)
  <2>1. WellMade(t, r)
    BY DEF Shape
  <2> QED
    BY <1>4, <2>1 DEF WellMade
<1> QED
  BY <1>1, <1>3, <1>4 DEF Shape

\* A node that is taken from a directory and has nothing below it.
LEMMA DropShape ==
  ASSUME NEW t \in Tree, Shape(t), NEW q \in Name, q # <<>>, Children(t, q) = {}
  PROVE  Shape(Without(t, q))
<1> DEFINE u == Without(t, q)
<1>1. DOMAIN u = DOMAIN t \ {q} /\ \A r \in DOMAIN u : u[r] = t[r]
  BY DEF Without
<1> HIDE DEF u
<1>2. <<>> \in DOMAIN u
  BY <1>1 DEF Shape
<1>3. ASSUME NEW r \in DOMAIN u PROVE WellMade(u, r)
  <2>1. WellMade(t, r) /\ r \in DOMAIN t
    BY <1>1 DEF Shape
  <2>2. r # <<>> => Front(r) # q
    <3> SUFFICES ASSUME r # <<>>, Front(r) = q PROVE FALSE
      OBVIOUS
    <3>1. r \in Name
      BY <2>1, TreeElim
    <3>2. Len(r) = Len(q) + 1
      BY <3>1, FrontName
    <3> QED
      BY <2>1, <3>2 DEF Children
  <2> QED
    BY <1>1, <2>1, <2>2 DEF WellMade
<1> QED
  BY <1>2, <1>3 DEF Shape, u

\* After k components of d's name: the nodes of nd are there as they were, the new ones
\* are directories, and at the end there is the device's.
Made(nd, d, k, acc) ==
  /\ Shape(acc.node)
  /\ \A q \in DOMAIN nd : q \in DOMAIN acc.node /\ acc.node[q] = nd[q]
  /\ \A q \in DOMAIN acc.node : \/ q \in DOMAIN nd
                                \/ acc.node[q].dev = NULL
                                \/ acc.rc = "ok" /\ k = Len(Path[d]) /\ acc.node[q].dev = d
  /\ acc.rc = "ok" => LET q == SubSeq(Path[d], 1, k)
                      IN  /\ q \in DOMAIN acc.node
                          /\ k < Len(Path[d]) => acc.node[q].is_dir
                          /\ k = Len(Path[d]) => acc.node[q].dev = d

\* One component keeps the tree well made.
LEMMA StepMade ==
  ASSUME NEW nd \in Tree, NEW d \in Device, NEW k \in 1 .. Len(Path[d]),
         NEW acc \in Attaching(nd), Made(nd, d, k - 1, acc)
  PROVE  Made(nd, d, k, attach_step(d, acc, k))
<1> DEFINE s == Path[d]
           q == SubSeq(s, 1, k)
           up == SubSeq(s, 1, k - 1)
           last == k = Len(s)
           here == q \in DOMAIN acc.node
           t == IF here THEN acc.node
                ELSE [r \in DOMAIN acc.node \cup {q} |->
                        IF r = q THEN NewNode(~last) ELSE acc.node[r]]
           next == attach_step(d, acc, k)
<1>1. s \in Name /\ Len(s) \in Nat /\ k \in Nat /\ k <= Len(s) /\ k >= 1 /\ d # NULL
  BY DevfsAssumption DEF Name
<1>2. q \in Name /\ q # <<>> /\ Front(q) = up
  BY <1>1, PrefixFront
<1>3. last => q = s
  <2>1. s \in Seq(Nat)
    BY <1>1 DEF Name
  <2> QED
    BY <2>1, SubSeqFull
<1>4. acc.node \in Tree /\ DOMAIN acc.node \subseteq Name
      /\ acc.node \in [DOMAIN acc.node -> NodeRec]
  <2>1. acc.node \in Tree
    BY DEF Attaching, SameRefs
  <2> QED
    BY <2>1, TreeElim
<1>5. next =
        IF acc.rc # "ok" THEN acc
        ELSE IF ~here /\ Cardinality(DOMAIN acc.node) > MaxNode THEN [acc EXCEPT !.rc = "nomem"]
        ELSE IF last /\ Taken(t[q]) THEN [rc |-> "exist", node |-> t]
        ELSE IF last THEN [rc |-> "ok", node |-> [t EXCEPT ![q].dev = d]]
        ELSE IF ~t[q].is_dir THEN [rc |-> "notdir", node |-> t]
        ELSE [rc |-> "ok", node |-> t]
  BY DEF attach_step
<1>6. CASE acc.rc # "ok"
  <2>1. next = acc
    BY <1>5, <1>6
  <2> HIDE DEF next
  <2> QED
    BY <1>6, <2>1 DEF Made, next
<1>7. CASE acc.rc = "ok"
  <2>1. up \in DOMAIN acc.node /\ acc.node[up].is_dir
    BY <1>1, <1>7 DEF Made
  <2>2. \A r \in DOMAIN acc.node : r \in DOMAIN nd \/ acc.node[r].dev = NULL
    BY <1>1 DEF Made
  <2>3. Shape(acc.node) /\ \A r \in DOMAIN nd : r \in DOMAIN acc.node /\ acc.node[r] = nd[r]
    BY DEF Made
  <2> DEFINE Fails(rc) == [rc |-> rc, node |-> acc.node]
  <2>4. ASSUME NEW x, x.rc # "ok", x.node = acc.node PROVE Made(nd, d, k, x)
    BY <2>2, <2>3, <2>4 DEF Made
  <2>5. CASE here
    <3>1. t = acc.node
      BY <2>5
    <3> HIDE DEF t
    <3>2. acc.node[q].dev = NULL => acc.node[q].is_dir
      BY <2>3, <2>5 DEF Shape, WellMade
    <3>3. CASE last
      <4>1. Taken(t[q])
        BY <3>1, <3>2, Zenon DEF Taken
      <4>2. next = [rc |-> "exist", node |-> acc.node]
        BY <1>5, <1>7, <2>5, <3>1, <3>3, <4>1
      <4> HIDE DEF next
      <4>3. next.rc # "ok" /\ next.node = acc.node
        BY <4>2
      <4> QED
        BY <2>4, <4>3 DEF next
    <3>4. CASE ~last /\ ~acc.node[q].is_dir
      <4>1. next = [rc |-> "notdir", node |-> acc.node]
        BY <1>5, <1>7, <2>5, <3>1, <3>4
      <4> HIDE DEF next
      <4>2. next.rc # "ok" /\ next.node = acc.node
        BY <4>1
      <4> QED
        BY <2>4, <4>2 DEF next
    <3>5. CASE ~last /\ acc.node[q].is_dir
      <4>1. next = [rc |-> "ok", node |-> acc.node]
        BY <1>5, <1>7, <2>5, <3>1, <3>5
      <4> HIDE DEF next
      <4>2. next.rc = "ok" /\ next.node = acc.node
        BY <4>1
      <4>3. Made(nd, d, k, next)
        BY <2>2, <2>3, <2>5, <3>5, <4>2 DEF Made
      <4> QED
        BY <4>3 DEF next
    <3> QED
      BY <3>3, <3>4, <3>5
  <2>6. CASE ~here /\ Cardinality(DOMAIN acc.node) > MaxNode
    <3>1. next = [acc EXCEPT !.rc = "nomem"]
      BY <1>5, <1>7, <2>6
    <3> HIDE DEF next
    <3>2. next.rc # "ok" /\ next.node = acc.node
      BY <3>1 DEF Attaching
    <3> QED
      BY <2>4, <3>2 DEF next
  <2>7. CASE ~here /\ ~(Cardinality(DOMAIN acc.node) > MaxNode)
    <3>1. /\ DOMAIN t = DOMAIN acc.node \cup {q} /\ t[q] = NewNode(~last)
          /\ \A r \in DOMAIN acc.node : t[r] = acc.node[r]
      BY <2>7
    <3>2. NewNode(~last) \in NodeRec /\ NewNode(~last).dev = NULL /\ NewNode(~last).is_dir = ~last
      BY NewNodeType DEF NewNode
    <3> HIDE DEF t
    <3>3. CASE last
      <4> DEFINE u == [t EXCEPT ![q].dev = d]
                 rec == [NewNode(~last) EXCEPT !.dev = d]
      <4>1. rec \in NodeRec /\ rec.dev = d /\ rec.is_dir = FALSE
        BY <3>2, <3>3 DEF NodeRec, Owner
      <4>2. DOMAIN u = DOMAIN acc.node \cup {q}
        BY <3>1
      <4>3. u[q] = rec
        BY <3>1
      <4>4. \A r \in DOMAIN acc.node : u[r] = acc.node[r]
        BY <2>7, <3>1
      <4>5. next = [rc |-> "ok", node |-> u]
        BY <1>5, <1>7, <2>7, <3>1, <3>2, <3>3 DEF Taken
      <4> HIDE DEF u, rec
      <4>6. Shape(u)
        <5>1. (rec.is_dir <=> rec.dev = NULL) /\ q = Path[rec.dev]
          BY <1>1, <1>3, <3>3, <4>1
        <5>2. Front(q) \in DOMAIN acc.node /\ acc.node[Front(q)].is_dir /\ q \notin DOMAIN acc.node
          BY <1>2, <2>1, <2>7
        <5> HIDE DEF q
        <5> QED
          BY <1>2, <1>4, <2>3, <4>1, <4>2, <4>3, <4>4, <5>1, <5>2, GrowShape
      <4>7. next.rc = "ok" /\ next.node = u
        BY <4>5
      <4> HIDE DEF next
      <4>8. Made(nd, d, k, next)
        <5>1. \A r \in DOMAIN nd : r \in DOMAIN u /\ u[r] = nd[r]
          BY <2>3, <4>2, <4>4
        <5>2. \A r \in DOMAIN u : r \in DOMAIN nd \/ u[r].dev = NULL \/ u[r].dev = d
          BY <2>2, <4>1, <4>2, <4>3, <4>4
        <5>3. q \in DOMAIN u /\ u[q].dev = d
          BY <4>1, <4>2, <4>3
        <5> QED
          BY <1>1, <3>3, <4>6, <4>7, <5>1, <5>2, <5>3 DEF Made
      <4> QED
        BY <4>8 DEF next
    <3>4. CASE ~last
      <4>1. next = [rc |-> "ok", node |-> t]
        BY <1>5, <1>7, <2>7, <3>1, <3>2, <3>4
      <4>2. Shape(t)
        BY <1>1, <1>2, <1>4, <2>1, <2>3, <2>7, <3>1, <3>2, <3>4, GrowShape
      <4>3. next.rc = "ok" /\ next.node = t
        BY <4>1
      <4> HIDE DEF next
      <4>4. Made(nd, d, k, next)
        BY <1>1, <2>2, <2>3, <3>1, <3>2, <3>4, <4>2, <4>3 DEF Made
      <4> QED
        BY <4>4 DEF next
    <3> QED
      BY <3>3, <3>4
  <2> QED
    BY <2>5, <2>6, <2>7
<1> QED
  BY <1>6, <1>7

\* What devfs_attach_locked does: it adds d or says why not, and changes nothing else.
LEMMA AttachShows ==
  ASSUME NEW nd \in Tree, Shape(nd), NEW d \in Device
  PROVE  LET r == devfs_attach_locked(nd, d)
         IN  /\ Shape(r.node)
             /\ \A q \in DOMAIN nd : q \in DOMAIN r.node /\ r.node[q] = nd[q]
             /\ \A e \in Device : Shown(r.node, e) <=> Shown(nd, e) \/ (e = d /\ r.rc = "ok")
<1> DEFINE n == Len(Path[d])
           L == attach_loop(nd, d)
           r == L[n]
           G == {k \in Nat : Made(nd, d, k, L[k])}
<1>1. /\ n \in Nat /\ L[0] = [rc |-> "ok", node |-> nd]
      /\ \A k \in 1 .. n : L[k] = attach_step(d, L[k - 1], k)
      /\ \A k \in 0 .. n : L[k] \in Attaching(nd)
  BY AttachRounds
<1>2. r = devfs_attach_locked(nd, d)
  BY DEF devfs_attach_locked
<1>3. Path[d] \in Seq(Nat) /\ Path[d] # <<>> /\ d # NULL
  BY DevfsAssumption
<1>4. n # 0
  BY <1>3, EmptySeq
<1>5. 0 \in G
  <2>1. SubSeq(Path[d], 1, 0) = <<>>
    BY SubSeqEmpty
  <2>2. <<>> \in DOMAIN nd /\ nd[<<>>].is_dir
    BY RootDir DEF Shape
  <2>3. L[0].rc = "ok" /\ L[0].node = nd
    BY <1>1
  <2> HIDE DEF L, n
  <2>4. Made(nd, d, 0, L[0])
    BY <1>1, <1>4, <2>1, <2>2, <2>3 DEF Made, n
  <2> QED
    BY <2>4
<1>6. \A k \in 1 .. n : k - 1 \in G => k \in G
  <2> SUFFICES ASSUME NEW k \in 1 .. n, Made(nd, d, k - 1, L[k - 1]) PROVE Made(nd, d, k, L[k])
    BY <1>1
  <2>1. k - 1 \in 0 .. n /\ L[k] = attach_step(d, L[k - 1], k)
    BY <1>1
  <2>2. L[k - 1] \in Attaching(nd)
    BY <1>1, <2>1
  <2> HIDE DEF L
  <2> QED
    BY <2>1, <2>2, StepMade
<1> HIDE DEF G, L
<1>7. \A k \in 0 .. n : k \in G
  BY <1>1, <1>5, <1>6, UpTo, Zenon
<1>8. Made(nd, d, n, r)
  BY <1>1, <1>7 DEF G
<1>9. SubSeq(Path[d], 1, n) = Path[d]
  BY <1>3, SubSeqFull
<1>10. /\ Shape(r.node)
       /\ \A q \in DOMAIN nd : q \in DOMAIN r.node /\ r.node[q] = nd[q]
       /\ \A q \in DOMAIN r.node : \/ q \in DOMAIN nd
                                   \/ r.node[q].dev = NULL
                                   \/ r.rc = "ok" /\ r.node[q].dev = d
       /\ r.rc = "ok" => Shown(r.node, d)
  BY <1>8, <1>9 DEF Made, Shown
<1> HIDE DEF r
<1>11. ASSUME NEW e \in Device
       PROVE  Shown(r.node, e) <=> Shown(nd, e) \/ (e = d /\ r.rc = "ok")
  <2>1. Shown(nd, e) => Shown(r.node, e)
    BY <1>10 DEF Shown
  <2>2. e # NULL
    BY DevfsAssumption
  <2>3. Shown(r.node, e) => Shown(nd, e) \/ (e = d /\ r.rc = "ok")
    BY <1>10, <2>2 DEF Shown
  <2> QED
    BY <1>10, <2>1, <2>3
<1> QED
  BY <1>2, <1>10, <1>11

\* What is left of nd after its node for d and directories went.
Left(nd, d, t) ==
  /\ Shape(t)
  /\ \A q \in DOMAIN t : q \in DOMAIN nd /\ t[q] = nd[q]
  /\ \A q \in DOMAIN nd \ DOMAIN t : nd[q].dev \in {NULL, d}
  /\ Path[d] \notin DOMAIN t

\* What devfs_detach_locked does: d goes or says why not, and nothing else.
LEMMA DetachShows ==
  ASSUME NEW nd \in Tree, Shape(nd), NEW d \in Device, \A q \in Name : Refs(nd, q) \in Nat
  PROVE  LET r == devfs_detach_locked(nd, d)
         IN  /\ Shape(r.node)
             /\ \A q \in DOMAIN r.node : q \in DOMAIN nd /\ r.node[q] = nd[q]
             /\ \A e \in Device \ {d} : Shown(r.node, e) <=> Shown(nd, e)
             /\ Shown(r.node, d) <=> r.rc = "busy"
<1> DEFINE q == Path[d]
           r == devfs_detach_locked(nd, d)
           n == Len(q) - 1
           L == prune_loop(nd, q)
<1>1. q \in Name /\ q # <<>> /\ d # NULL
  BY DevfsAssumption DEF Name
<1>2. Len(q) \in Nat \ {0}
  BY <1>1, FrontName
<1>3. CASE q \notin DOMAIN nd \/ nd[q].dev # d
  <2>1. r = [rc |-> "noent", node |-> nd]
    BY <1>3 DEF devfs_detach_locked
  <2> HIDE DEF r
  <2>2. r.rc # "busy" /\ r.node = nd
    BY <2>1
  <2>3. ~Shown(nd, d)
    BY <1>3 DEF Shown
  <2>4. r = devfs_detach_locked(nd, d)
    BY DEF r
  <2> QED
    BY <2>2, <2>3, <2>4
<1>4. CASE q \in DOMAIN nd /\ nd[q].dev = d /\ Busy(nd, q)
  <2>1. r = [rc |-> "busy", node |-> nd]
    BY <1>4 DEF devfs_detach_locked
  <2> HIDE DEF r
  <2>2. r.rc = "busy" /\ r.node = nd
    BY <2>1
  <2>3. Shown(nd, d)
    BY <1>4 DEF Shown
  <2>4. r = devfs_detach_locked(nd, d)
    BY DEF r
  <2> QED
    BY <2>2, <2>3, <2>4
<1>5. CASE q \in DOMAIN nd /\ nd[q].dev = d /\ ~Busy(nd, q)
  <2>1. r = [rc |-> "ok", node |-> L[n]]
    BY <1>5 DEF devfs_detach_locked
  <2>2. Refs(nd, q) = 0
    <3> HIDE DEF q
    <3>1. Refs(nd, q) \in Nat /\ Refs(nd, q) = nd[q].refs
      BY <1>1, <1>5 DEF Refs
    <3> QED
      BY <1>5, <3>1 DEF Busy
  <2>3. /\ L[0] = Without(nd, q)
        /\ \A k \in 1 .. n : L[k] = prune_step(L[k - 1], SubSeq(q, 1, Len(q) - k))
        /\ \A k \in 0 .. n : L[k] \in SameRefs(nd)
    <3> HIDE DEF q
    <3> QED
      BY <1>1, <1>2, <2>2, PruneRounds
  <2> DEFINE G == {k \in Nat : Left(nd, d, L[k])}
  <2>4. 0 \in G
    <3>1. ~nd[q].is_dir
      BY <1>1, <1>5 DEF Shape, WellMade
    <3>2. Children(nd, q) = {}
      <4> SUFFICES ASSUME NEW x \in Children(nd, q) PROVE FALSE
        OBVIOUS
      <4>1. x \in DOMAIN nd /\ Front(x) = q /\ Len(x) = Len(q) + 1
        BY DEF Children
      <4>2. x \in Name
        BY <4>1, TreeElim
      <4>3. x # <<>>
        BY <1>2, <4>1, <4>2, EmptySeq DEF Name
      <4>4. WellMade(nd, x)
        BY <4>1 DEF Shape
      <4> QED
        BY <3>1, <4>1, <4>3, <4>4 DEF WellMade
    <3>3. Shape(Without(nd, q))
      BY <1>1, <3>2, DropShape
    <3>4. DOMAIN Without(nd, q) = DOMAIN nd \ {q} /\ \A x \in DOMAIN nd \ {q} : Without(nd, q)[x] = nd[x]
      BY DEF Without
    <3>5. Left(nd, d, Without(nd, q))
      BY <1>5, <3>3, <3>4 DEF Left
    <3> QED
      BY <2>3, <3>5
  <2>5. \A k \in 1 .. n : k - 1 \in G => k \in G
    <3> SUFFICES ASSUME NEW k \in 1 .. n, Left(nd, d, L[k - 1]) PROVE Left(nd, d, L[k])
      BY <1>2
    <3> DEFINE t == L[k - 1]
               u == SubSeq(q, 1, Len(q) - k)
    <3>1. Len(q) - k \in 1 .. Len(q) /\ k - 1 \in 0 .. n
      BY <1>2
    <3>2. u \in Name /\ u # <<>>
      BY <1>1, <3>1, PrefixFront
    <3>3. t \in Tree /\ L[k] = prune_step(t, u)
      BY <2>3, <3>1 DEF SameRefs
    <3>4. Left(nd, d, t)
      OBVIOUS
    <3> HIDE DEF t, u, L
    <3>5. CASE Idle(t, u)
      <4>1. L[k] = Without(t, u) /\ Children(t, u) = {} /\ t[u].dev = NULL
        BY <3>3, <3>5 DEF prune_step, Idle, Empty
      <4>2. Shape(Without(t, u))
        BY <3>2, <3>3, <3>4, <4>1, DropShape DEF Left
      <4>3. DOMAIN Without(t, u) = DOMAIN t \ {u} /\ \A x \in DOMAIN t \ {u} : Without(t, u)[x] = t[x]
        BY DEF Without
      <4>4. Left(nd, d, Without(t, u))
        <5> HIDE DEF q
        <5>1. \A x \in DOMAIN nd \ DOMAIN Without(t, u) : nd[x].dev \in {NULL, d}
          BY <3>4, <4>1, <4>3 DEF Left
        <5> QED
          BY <3>4, <4>2, <4>3, <5>1 DEF Left
      <4> QED
        BY <4>1, <4>4
    <3>6. CASE ~Idle(t, u)
      BY <3>3, <3>4, <3>6 DEF prune_step
    <3> QED
      BY <3>5, <3>6
  <2> HIDE DEF G, L
  <2>6. n \in Nat /\ n \in 0 .. n
    BY <1>2
  <2>7. \A k \in 0 .. n : k \in G
    BY <2>4, <2>5, <2>6, UpTo, Zenon
  <2>8. Left(nd, d, L[n])
    BY <2>6, <2>7 DEF G
  <2> DEFINE t == L[n]
  <2>9. r.rc # "busy" /\ r.node = t
    BY <2>1
  <2> HIDE DEF r, t, n, q
  <2>10. /\ Shape(t)
         /\ \A x \in DOMAIN t : x \in DOMAIN nd /\ t[x] = nd[x]
         /\ \A x \in DOMAIN nd \ DOMAIN t : nd[x].dev \in {NULL, d}
         /\ Path[d] \notin DOMAIN t
    BY <2>8 DEF Left, t
  <2>11. \A e \in Device \ {d} : Shown(t, e) <=> Shown(nd, e)
    BY <2>10, DevfsAssumption DEF Shown
  <2>12. ~Shown(t, d)
    BY <2>10 DEF Shown
  <2>13. r = devfs_detach_locked(nd, d)
    BY DEF r
  <2> QED
    BY <2>9, <2>10, <2>11, <2>12, <2>13
<1> QED
  BY <1>3, <1>4, <1>5

-----------------------------------------------------------------------------
(* The registry.                                                           *)

Listed(s) == {s[i] : i \in 1 .. Len(s)}
Distinct(s) == \A i, j \in 1 .. Len(s) : s[i] = s[j] => i = j

\* A device that is put in front of the list.
LEMMA ConsListed ==
  ASSUME NEW s \in Seq(Device), Distinct(s), NEW d \in Device, d \notin Listed(s)
  PROVE  Distinct(<<d>> \o s) /\ Listed(<<d>> \o s) = Listed(s) \cup {d}
<1> DEFINE u == <<d>> \o s
<1>1. Len(s) \in Nat /\ Len(u) = Len(s) + 1
  BY ConcatProperties
<1>2. u[1] = d /\ \A i \in 2 .. Len(u) : u[i] = s[i - 1] /\ i - 1 \in 1 .. Len(s)
  BY <1>1, ConcatProperties
<1>3. \A i \in 1 .. Len(s) : u[i + 1] = s[i] /\ i + 1 \in 1 .. Len(u)
  BY <1>1, <1>2
<1> HIDE DEF u
<1>4. \A i \in 1 .. Len(u) : i = 1 \/ i \in 2 .. Len(u)
  BY <1>1
<1>5. Distinct(u)
  <2> SUFFICES ASSUME NEW i \in 1 .. Len(u), NEW j \in 1 .. Len(u), u[i] = u[j] PROVE i = j
    BY DEF Distinct
  <2>1. CASE i = 1 /\ j = 1
    BY <2>1
  <2>2. CASE i = 1 /\ j \in 2 .. Len(u)
    BY <1>2, <2>2 DEF Listed
  <2>3. CASE j = 1 /\ i \in 2 .. Len(u)
    BY <1>2, <2>3 DEF Listed
  <2>4. CASE i \in 2 .. Len(u) /\ j \in 2 .. Len(u)
    <3>1. i - 1 = j - 1
      BY <1>2, <2>4 DEF Distinct
    <3> QED
      BY <3>1
  <2> QED
    BY <1>4, <2>1, <2>2, <2>3, <2>4
<1>6. Listed(u) = Listed(s) \cup {d}
  <2>1. ASSUME NEW x \in Listed(u) PROVE x \in Listed(s) \cup {d}
    BY <1>2, <1>4 DEF Listed
  <2>2. Listed(s) \subseteq Listed(u)
    BY <1>3 DEF Listed
  <2>3. d \in Listed(u)
    <3>1. 1 \in 1 .. Len(u)
      BY <1>1
    <3> QED
      BY <1>2, <3>1 DEF Listed
  <2> QED
    BY <2>1, <2>2, <2>3
<1> QED
  BY <1>5, <1>6 DEF u

\* A device that is unlinked from the list.
LEMMA RemoveListed ==
  ASSUME NEW s \in Seq(Device), Distinct(s), NEW i \in 1 .. Len(s)
  PROVE  Distinct(RemoveAt(s, i)) /\ Listed(RemoveAt(s, i)) = Listed(s) \ {s[i]}
<1> DEFINE a == SubSeq(s, 1, i - 1)
           z == SubSeq(s, i + 1, Len(s))
           u == RemoveAt(s, i)
<1>1. Len(s) \in Nat /\ i \in Nat /\ i >= 1 /\ i <= Len(s)
  OBVIOUS
<1>2. a \in Seq(Device) /\ Len(a) = i - 1 /\ \A j \in 1 .. i - 1 : a[j] = s[j]
  <2>1. i - 1 \in Int /\ 1 \in Int /\ \A j \in 1 .. i - 1 : s[j] \in Device
    BY <1>1
  <2>2. /\ a \in Seq(Device) /\ Len(a) = (IF 1 <= i - 1 THEN i - 1 - 1 + 1 ELSE 0)
        /\ \A j \in 1 .. i - 1 - 1 + 1 : a[j] = s[1 + j - 1]
    BY <2>1, SubSeqProperties
  <2> HIDE DEF a
  <2>3. Len(a) = i - 1
    BY <1>1, <2>2
  <2>4. ASSUME NEW j \in 1 .. i - 1 PROVE a[j] = s[j]
    <3>1. j \in 1 .. i - 1 - 1 + 1 /\ 1 + j - 1 = j
      BY <1>1
    <3> QED
      BY <2>2, <3>1
  <2> QED
    BY <2>2, <2>3, <2>4
<1>3. z \in Seq(Device) /\ Len(z) = Len(s) - i /\ \A j \in 1 .. Len(s) - i : z[j] = s[i + j]
  <2>1. i + 1 \in Int /\ Len(s) \in Int /\ \A j \in i + 1 .. Len(s) : s[j] \in Device
    BY <1>1
  <2>2. /\ z \in Seq(Device)
        /\ Len(z) = (IF i + 1 <= Len(s) THEN Len(s) - (i + 1) + 1 ELSE 0)
        /\ \A j \in 1 .. Len(s) - (i + 1) + 1 : z[j] = s[i + 1 + j - 1]
    BY <2>1, SubSeqProperties
  <2> HIDE DEF z
  <2>3. Len(z) = Len(s) - i
    BY <1>1, <2>2
  <2>4. ASSUME NEW j \in 1 .. Len(s) - i PROVE z[j] = s[i + j]
    <3>1. j \in 1 .. Len(s) - (i + 1) + 1 /\ i + 1 + j - 1 = i + j
      BY <1>1
    <3> QED
      BY <2>2, <3>1
  <2> QED
    BY <2>2, <2>3, <2>4
<1>4. u = a \o z
  BY DEF RemoveAt
<1> HIDE DEF a, z, u
<1>5. /\ Len(u) = Len(s) - 1
      /\ \A j \in 1 .. Len(s) - 1 : u[j] = IF j < i THEN s[j] ELSE s[j + 1]
  <2>1. Len(u) = Len(a) + Len(z)
        /\ \A j \in 1 .. Len(a) + Len(z) : u[j] = IF j <= Len(a) THEN a[j] ELSE z[j - Len(a)]
    BY <1>2, <1>3, <1>4, ConcatProperties
  <2>2. Len(u) = Len(s) - 1
    BY <1>1, <1>2, <1>3, <2>1
  <2>3. ASSUME NEW j \in 1 .. Len(s) - 1, j < i PROVE u[j] = s[j]
    <3>1. j \in 1 .. Len(a) + Len(z) /\ j <= Len(a) /\ j \in 1 .. i - 1
      BY <1>1, <1>2, <1>3, <2>3
    <3>2. u[j] = a[j]
      BY <2>1, <3>1
    <3> QED
      BY <1>2, <3>1, <3>2
  <2>4. ASSUME NEW j \in 1 .. Len(s) - 1, ~(j < i) PROVE u[j] = s[j + 1]
    <3>1. j - (i - 1) \in 1 .. Len(s) - i /\ i + (j - (i - 1)) = j + 1
      BY <1>1, <2>4
    <3>2. u[j] = z[j - (i - 1)]
      <4>1. j \in 1 .. Len(a) + Len(z) /\ ~(j <= Len(a))
        BY <1>1, <1>2, <1>3, <2>4
      <4>2. u[j] = z[j - Len(a)]
        BY <2>1, <4>1
      <4> QED
        BY <1>2, <4>2
    <3> QED
      BY <1>3, <3>1, <3>2
  <2> QED
    BY <2>2, <2>3, <2>4
<1> DEFINE At(j) == IF j < i THEN j ELSE j + 1
<1>6. \A j \in 1 .. Len(u) : At(j) \in 1 .. Len(s) /\ At(j) # i /\ u[j] = s[At(j)]
  BY <1>1, <1>5
<1>7. \A j, k \in 1 .. Len(u) : At(j) = At(k) => j = k
  BY <1>1, <1>5
<1>8. \A k \in 1 .. Len(s) : k # i => \E j \in 1 .. Len(u) : u[j] = s[k]
  <2> SUFFICES ASSUME NEW k \in 1 .. Len(s), k # i PROVE \E j \in 1 .. Len(u) : u[j] = s[k]
    OBVIOUS
  <2>1. CASE k < i
    <3>1. k \in 1 .. Len(u) /\ u[k] = s[k]
      BY <1>1, <1>5, <2>1
    <3> QED
      BY <3>1
  <2>2. CASE ~(k < i)
    <3>1. k - 1 \in 1 .. Len(u) /\ u[k - 1] = s[k]
      BY <1>1, <1>5, <2>2
    <3> QED
      BY <3>1
  <2> QED
    BY <2>1, <2>2
<1> HIDE DEF At
<1>9. Distinct(u)
  BY <1>6, <1>7 DEF Distinct
<1>10. Listed(u) = Listed(s) \ {s[i]}
  <2>1. ASSUME NEW x \in Listed(u) PROVE x \in Listed(s) \ {s[i]}
    BY <1>6 DEF Listed, Distinct
  <2>2. ASSUME NEW x \in Listed(s) \ {s[i]} PROVE x \in Listed(u)
    BY <1>8 DEF Listed
  <2> QED
    BY <2>1, <2>2
<1> QED
  BY <1>9, <1>10 DEF u

\* What devfs_mount shows after k devices.
Heard(devs, k, acc) ==
  /\ Shape(acc.node)
  /\ acc.unseen \subseteq {devs[i] : i \in 1 .. k}
  /\ \A e \in Device :
       Shown(acc.node, e) <=> e \in {devs[i] : i \in 1 .. k} /\ e \notin acc.unseen

\* devfs_mount shows the devices that are registered, but for those that it failed to
\* attach.
LEMMA ListenShows ==
  ASSUME NEW devs \in Seq(Device), Distinct(devs)
  PROVE  Heard(devs, Len(devs), listen_loop(devs)[Len(devs)])
<1> DEFINE n == Len(devs)
           L == listen_loop(devs)
           G == {k \in Nat : Heard(devs, k, L[k])}
<1>1. /\ n \in Nat /\ L[0] = [node |-> NewRoot, unseen |-> {}]
      /\ \A k \in 1 .. n : L[k] = listen_step(L[k - 1], devs[k])
      /\ \A k \in 0 .. n : L[k] \in Listening
  <2>1. n \in Nat
    OBVIOUS
  <2> QED
    BY <2>1, ListenRounds, Zenon
<1>2. 0 \in G
  <2>1. L[0].node = NewRoot /\ L[0].unseen = {}
    BY <1>1
  <2>2. DOMAIN NewRoot = {<<>>} /\ NewRoot[<<>>].is_dir = TRUE /\ NewRoot[<<>>].dev = NULL
    BY DEF NewRoot, NewNode
  <2>3. Shape(NewRoot)
    BY <2>2 DEF Shape, WellMade
  <2>4. \A e \in Device : ~Shown(NewRoot, e)
    BY <2>2, DevfsAssumption DEF Shown
  <2>5. {devs[i] : i \in 1 .. 0} = {}
    OBVIOUS
  <2> HIDE DEF L
  <2>6. Heard(devs, 0, L[0])
    BY <2>1, <2>3, <2>4, <2>5 DEF Heard
  <2> QED
    BY <2>6
<1>3. \A k \in 1 .. n : k - 1 \in G => k \in G
  <2> SUFFICES ASSUME NEW k \in 1 .. n, Heard(devs, k - 1, L[k - 1]) PROVE Heard(devs, k, L[k])
    BY <1>1
  <2> DEFINE acc == L[k - 1]
             d == devs[k]
             S == {devs[i] : i \in 1 .. k - 1}
             T == {devs[i] : i \in 1 .. k}
             r == devfs_attach_locked(acc.node, d)
  <2>1. k - 1 \in 0 .. n /\ d \in Device /\ k \in 1 .. Len(devs)
    BY <1>1
  <2>2. acc.node \in Tree
    BY <1>1, <2>1 DEF Listening, SameRefs
  <2>3. d \notin S /\ T = S \cup {d}
    <3>1. d \notin S
      BY <1>1, <2>1 DEF Distinct
    <3>2. \A i \in 1 .. k : i = k \/ i \in 1 .. k - 1
      BY <1>1
    <3>3. T \subseteq S \cup {d}
      BY <3>2
    <3>4. S \cup {d} \subseteq T
      BY <1>1
    <3> QED
      BY <3>1, <3>3, <3>4
  <2>4. L[k] = [node |-> r.node, unseen |-> IF r.rc = "ok" THEN acc.unseen ELSE acc.unseen \cup {d}]
    BY <1>1 DEF listen_step
  <2>5. Heard(devs, k - 1, acc)
    OBVIOUS
  <2> HIDE DEF acc, d, L
  <2>6. /\ Shape(acc.node) /\ acc.unseen \subseteq S
        /\ \A e \in Device : Shown(acc.node, e) <=> e \in S /\ e \notin acc.unseen
    BY <2>5 DEF Heard
  <2>7. /\ Shape(r.node)
        /\ \A e \in Device : Shown(r.node, e) <=> Shown(acc.node, e) \/ (e = d /\ r.rc = "ok")
    BY <2>1, <2>2, <2>6, AttachShows
  <2> HIDE DEF r, S
  <2>8. L[k].node = r.node
        /\ L[k].unseen = IF r.rc = "ok" THEN acc.unseen ELSE acc.unseen \cup {d}
    BY <2>4
  <2>9. L[k].unseen \subseteq T
    <3> HIDE DEF T
    <3> QED
      BY <2>3, <2>6, <2>8
  <2>10. \A e \in Device : Shown(L[k].node, e) <=> e \in T /\ e \notin L[k].unseen
    <3> HIDE DEF T
    <3> QED
      BY <2>3, <2>6, <2>7, <2>8
  <2> QED
    BY <2>7, <2>8, <2>9, <2>10 DEF Heard
<1> HIDE DEF G, L
<1>4. \A k \in 0 .. n : k \in G
  BY <1>1, <1>2, <1>3, UpTo, Zenon
<1>5. Heard(devs, n, L[n])
  BY <1>1, <1>4 DEF G
<1> QED
  BY <1>5 DEF L

-----------------------------------------------------------------------------
(* NodesMatch.                                                             *)

\* A registered device is shown, unless devfs failed to attach it, and so is one that
\* left while its node was in use; handles stand for the device that was opened.
MatchInv ==
  /\ mounted => Shape(node)
  /\ Distinct(g_devs)
  /\ unseen \subseteq Listed(g_devs) /\ stale \subseteq Device \ Listed(g_devs)
  /\ ~mounted => unseen = {} /\ stale = {}
  /\ mounted => \A d \in Device :
                  Shown(node, d) <=> (d \in Listed(g_devs) /\ d \notin unseen) \/ d \in stale
  /\ \A p \in Proc : file[p] # NULL => node[file[p].path].dev = file[p].dev

\* ToSet of the list.
LEMMA ListedSet == ASSUME NEW s \in Seq(Device) PROVE ToSet(s) = Listed(s)
BY DEF ToSet, Listed

\* At first nothing is registered.
LEMMA InitMatch == ASSUME Init PROVE MatchInv
<1>1. g_devs = <<>> /\ mounted = FALSE /\ unseen = {} /\ stale = {}
  BY DEF Init
<1>2. \A p \in Proc : file[p] = NULL
  BY DEF Init
<1>3. Len(g_devs) = 0
  BY <1>1
<1>4. Distinct(g_devs)
  BY <1>3 DEF Distinct
<1> QED
  BY <1>1, <1>2, <1>4 DEF MatchInv

\* The listener leaves a node alone that has a handle.
LEMMA HandlesMatch ==
  ASSUME IsFiniteSet(Proc), DevInv', MatchInv, file' = file,
         \A q \in DOMAIN node' : q \in DOMAIN node => node'[q] = node[q],
         \A p \in Proc : file[p] # NULL => file[p].path \in DOMAIN node
  PROVE  \A p \in Proc : file'[p] # NULL => node'[file'[p].path].dev = file'[p].dev
<1> SUFFICES ASSUME NEW p \in Proc, file[p] # NULL PROVE node'[file[p].path].dev = file[p].dev
  OBVIOUS
<1>1. DevInv' => NodesPinned'
  BY DevPinned, PTL
<1>2. file[p].path \in DOMAIN node'
  BY <1>1 DEF NodesPinned
<1> QED
  BY <1>2 DEF MatchInv

\* A device joins.
LEMMA RegisterMatch ==
  ASSUME IsFiniteSet(Proc), DevInv, DevInv', MatchInv, NEW d \in Device, vdev_register(d)
  PROVE  MatchInv'
<1> DEFINE r == devfs_attach_locked(node, d)
<1>1. g_devs \in Seq(Device) /\ node \in Tree
  BY DEF DevInv, DevType
<1>2. d \notin Listed(g_devs)
  BY <1>1, ListedSet DEF vdev_register
<1>3. Distinct(g_devs') /\ Listed(g_devs') = Listed(g_devs) \cup {d}
  <2>1. g_devs' = <<d>> \o g_devs
    BY DEF vdev_register
  <2>2. Distinct(g_devs)
    BY DEF MatchInv
  <2> QED
    BY <1>1, <1>2, <2>1, <2>2, ConsListed
<1>4. file' = file /\ mounted' = mounted
  BY DEF vdev_register, users
<1>5. NodesPinned
  BY DevPinned
<1>6. \A p \in Proc : file[p] # NULL => file[p].path \in DOMAIN node
  BY <1>5 DEF NodesPinned
<1> DEFINE old == Listed(g_devs)
           new == Listed(g_devs')
<1>7. unseen \subseteq old /\ stale \subseteq Device \ old /\ new = old \cup {d} /\ d \notin old
  BY <1>2, <1>3 DEF MatchInv
<1>8. CASE mounted
  <2>1. /\ node' = r.node
        /\ unseen' = IF r.rc = "ok" \/ d \in stale THEN unseen ELSE unseen \cup {d}
        /\ stale' = stale \ {d}
    BY <1>8 DEF vdev_register
  <2>2. Shape(node)
        /\ \A e \in Device : Shown(node, e) <=> (e \in old /\ e \notin unseen) \/ e \in stale
    BY <1>8 DEF MatchInv
  <2>3. /\ Shape(r.node)
        /\ \A q \in DOMAIN node : q \in DOMAIN r.node /\ r.node[q] = node[q]
        /\ \A e \in Device : Shown(r.node, e) <=> Shown(node, e) \/ (e = d /\ r.rc = "ok")
    BY <1>1, <2>2, AttachShows
  <2> HIDE DEF r, old, new
  <2>4. unseen' \subseteq new /\ stale' \subseteq Device \ new
    BY <1>7, <2>1
  <2>5. \A e \in Device : Shown(r.node, e) <=> (e \in new /\ e \notin unseen') \/ e \in stale'
    <3> SUFFICES ASSUME NEW e \in Device
                 PROVE  Shown(r.node, e) <=> (e \in new /\ e \notin unseen') \/ e \in stale'
      OBVIOUS
    <3>1. CASE e # d
      BY <1>7, <2>1, <2>2, <2>3, <3>1
    <3>2. CASE e = d /\ r.rc = "ok"
      BY <1>7, <2>1, <2>2, <2>3, <3>2
    <3>3. CASE e = d /\ r.rc # "ok"
      BY <1>7, <2>1, <2>2, <2>3, <3>3
    <3> QED
      BY <3>1, <3>2, <3>3
  <2>6. \A p \in Proc : file'[p] # NULL => node'[file'[p].path].dev = file'[p].dev
    BY <1>4, <1>6, <2>1, <2>3, HandlesMatch
  <2>7. Shape(node') /\ \A e \in Device : Shown(node', e) <=> Shown(r.node, e)
    BY <2>1, <2>3
  <2> QED
    BY <1>3, <1>4, <1>8, <2>4, <2>5, <2>6, <2>7 DEF MatchInv, new, Shape, Shown, WellMade
<1>9. CASE ~mounted
  <2>1. UNCHANGED <<node, unseen, stale, file, mounted>>
    BY <1>4, <1>9 DEF vdev_register
  <2>2. unseen = {} /\ stale = {}
    BY <1>9 DEF MatchInv
  <2> QED
    BY <1>3, <1>9, <2>1, <2>2 DEF MatchInv
<1>10. mounted \in BOOLEAN
  BY DEF DevInv, DevType
<1> QED
  BY <1>8, <1>9

\* A device leaves.
LEMMA UnregisterMatch ==
  ASSUME IsFiniteSet(Proc), DevInv, DevInv', MatchInv, NEW d \in Device, vdev_unregister(d)
  PROVE  MatchInv'
<1> DEFINE r == devfs_detach_locked(node, d)
<1>1. g_devs \in Seq(Device) /\ node \in Tree /\ RefsCounted
  BY DEF DevInv, DevType
<1>2. PICK i \in 1 .. Len(g_devs) : g_devs[i] = d /\ g_devs' = RemoveAt(g_devs, i)
  BY DEF vdev_unregister
<1>3. d \in Listed(g_devs)
  BY <1>2 DEF Listed
<1>4. Distinct(g_devs') /\ Listed(g_devs') = Listed(g_devs) \ {d}
  <2>1. Distinct(g_devs)
    BY DEF MatchInv
  <2> QED
    BY <1>1, <1>2, <2>1, RemoveListed
<1>5. file' = file /\ mounted' = mounted /\ unseen' = unseen \ {d}
  BY DEF vdev_unregister, users
<1>6. NodesPinned
  BY DevPinned
<1>7. \A p \in Proc : file[p] # NULL => file[p].path \in DOMAIN node
  BY <1>6 DEF NodesPinned
<1> DEFINE old == Listed(g_devs)
           new == Listed(g_devs')
<1>8. unseen \subseteq old /\ stale \subseteq Device \ old /\ new = old \ {d} /\ d \in old
  BY <1>3, <1>4 DEF MatchInv
<1>9. CASE mounted
  <2>1. node' = r.node /\ stale' = IF r.rc = "busy" THEN stale \cup {d} ELSE stale
    BY <1>9 DEF vdev_unregister
  <2>2. Shape(node)
        /\ \A e \in Device : Shown(node, e) <=> (e \in old /\ e \notin unseen) \/ e \in stale
    BY <1>9 DEF MatchInv
  <2>3. \A q \in Name : Refs(node, q) \in Nat
    BY <1>1, RefsNat
  <2>4. /\ Shape(r.node)
        /\ \A q \in DOMAIN r.node : q \in DOMAIN node /\ r.node[q] = node[q]
        /\ \A e \in Device \ {d} : Shown(r.node, e) <=> Shown(node, e)
        /\ Shown(r.node, d) <=> r.rc = "busy"
    BY <1>1, <2>2, <2>3, DetachShows
  <2> HIDE DEF r, old, new
  <2>5. unseen' \subseteq new /\ stale' \subseteq Device \ new
    BY <1>5, <1>8, <2>1
  <2>6. \A e \in Device : Shown(r.node, e) <=> (e \in new /\ e \notin unseen') \/ e \in stale'
    <3> SUFFICES ASSUME NEW e \in Device
                 PROVE  Shown(r.node, e) <=> (e \in new /\ e \notin unseen') \/ e \in stale'
      OBVIOUS
    <3>1. CASE e # d
      BY <1>5, <1>8, <2>1, <2>2, <2>4, <3>1
    <3>2. CASE e = d
      BY <1>5, <1>8, <2>1, <2>4, <3>2
    <3> QED
      BY <3>1, <3>2
  <2>7. \A p \in Proc : file'[p] # NULL => node'[file'[p].path].dev = file'[p].dev
    BY <1>5, <1>7, <2>1, <2>4, HandlesMatch
  <2>8. Shape(node') /\ \A e \in Device : Shown(node', e) <=> Shown(r.node, e)
    BY <2>1, <2>4
  <2> QED
    BY <1>4, <1>5, <1>9, <2>5, <2>6, <2>7, <2>8 DEF MatchInv, new, Shape, Shown, WellMade
<1>10. CASE ~mounted
  <2>1. UNCHANGED <<node, stale, file, mounted>>
    BY <1>5, <1>10 DEF vdev_unregister
  <2>2. unseen = {} /\ stale = {}
    BY <1>10 DEF MatchInv
  <2> QED
    BY <1>4, <1>5, <1>10, <2>1, <2>2 DEF MatchInv
<1> QED
  BY <1>9, <1>10

\* Mounting shows what is registered.
LEMMA MountMatch ==
  ASSUME IsFiniteSet(Proc), DevInv, MatchInv, devfs_mount PROVE MatchInv'
<1> DEFINE all == listen_loop(g_devs)[Len(g_devs)]
<1>1. g_devs \in Seq(Device) /\ Distinct(g_devs) /\ DOMAIN node = {} /\ stale = {}
  BY DEF DevInv, DevType, MatchInv, devfs_mount
<1>2. Heard(g_devs, Len(g_devs), all)
  BY <1>1, ListenShows
<1>3. node' = all.node /\ unseen' = all.unseen /\ mounted' = TRUE
      /\ UNCHANGED <<g_devs, file, stale>>
  BY DEF devfs_mount, users
<1> HIDE DEF all
<1>4. /\ Shape(node') /\ unseen' \subseteq Listed(g_devs)
      /\ \A e \in Device : Shown(node', e) <=> e \in Listed(g_devs) /\ e \notin unseen'
  BY <1>2, <1>3 DEF Heard, Listed, Shown
<1>5. \A p \in Proc : file[p] = NULL
  BY <1>1, DevPinned DEF NodesPinned
<1> QED
  BY <1>1, <1>3, <1>4, <1>5 DEF MatchInv, Listed, Distinct, Shape, Shown, WellMade

\* Unmounting shows nothing.
LEMMA UnmountMatch == ASSUME MatchInv, devfs_unmount PROVE MatchInv'
<1>1. /\ mounted' = FALSE /\ unseen' = {} /\ stale' = {}
      /\ UNCHANGED <<g_devs, file>>
      /\ \A p \in Proc : file[p] = NULL
  BY DEF devfs_unmount, users
<1> QED
  BY <1>1 DEF MatchInv

\* A caller changes counts only.
LEMMA CallerMatch ==
  ASSUME MatchInv, UNCHANGED <<g_devs, mounted, unseen, stale>>, DOMAIN node' = DOMAIN node,
         \A q \in DOMAIN node : node'[q].dev = node[q].dev /\ node'[q].is_dir = node[q].is_dir,
         \A p \in Proc : file'[p] # NULL => node'[file'[p].path].dev = file'[p].dev
  PROVE  MatchInv'
<1>1. ASSUME Shape(node) PROVE Shape(node')
  <2>1. <<>> \in DOMAIN node'
    BY <1>1 DEF Shape
  <2>2. ASSUME NEW q \in DOMAIN node' PROVE WellMade(node', q)
    <3>1. WellMade(node, q)
      BY <1>1 DEF Shape
    <3> QED
      BY <3>1 DEF WellMade
  <2> QED
    BY <2>1, <2>2 DEF Shape
<1>2. \A d \in Device : Shown(node', d) <=> Shown(node, d)
  BY DEF Shown
<1> QED
  BY <1>1, <1>2 DEF MatchInv, Shown, Shape, WellMade, Distinct, Listed

\* Every step keeps the nodes and the devices together.
LEMMA NextMatch ==
  ASSUME IsFiniteSet(Proc), DevInv, DevInv', MatchInv, [Next]_vars PROVE MatchInv'
<1>0. node \in Tree /\ NodesPinned /\ file \in [Proc -> Handle \cup {NULL}]
  BY DevPinned DEF DevInv, DevType
<1>a. DOMAIN node \subseteq Name /\ node \in [DOMAIN node -> NodeRec]
  BY <1>0, TreeElim
<1>b. \A p \in Proc : file[p] # NULL => /\ file[p].path \in DOMAIN node
                                        /\ node[file[p].path].dev = file[p].dev
  BY <1>0 DEF NodesPinned, MatchInv
<1>c. ASSUME NEW q, NEW n, node' = [node EXCEPT ![q].refs = n]
      PROVE  /\ DOMAIN node' = DOMAIN node
             /\ \A r \in DOMAIN node : /\ node'[r].dev = node[r].dev
                                       /\ node'[r].is_dir = node[r].is_dir
  BY <1>a, <1>c DEF NodeRec
<1>1. CASE devfs_mount
  BY <1>1, MountMatch
<1>2. CASE devfs_unmount
  BY <1>2, UnmountMatch
<1>3. ASSUME NEW d \in Device, vdev_register(d) PROVE MatchInv'
  BY <1>3, RegisterMatch
<1>4. ASSUME NEW d \in Device, vdev_unregister(d) PROVE MatchInv'
  BY <1>4, UnregisterMatch
<1>5. ASSUME NEW p \in Proc, NEW q \in Nodes, NEW wantDir \in BOOLEAN, devfs_open(p, q, wantDir)
      PROVE  MatchInv'
  <2>1. /\ q \in DOMAIN node /\ node' = [node EXCEPT ![q].refs = node[q].refs + 1]
        /\ file' = [file EXCEPT ![p] = [path |-> q, dev |-> node[q].dev]]
        /\ UNCHANGED <<g_devs, mounted, unseen, stale>>
    BY <1>5, <1>a DEF devfs_open
  <2>2. /\ DOMAIN node' = DOMAIN node
        /\ \A r \in DOMAIN node : node'[r].dev = node[r].dev /\ node'[r].is_dir = node[r].is_dir
    BY <1>c, <2>1
  <2>3. ASSUME NEW r \in Proc, file'[r] # NULL PROVE node'[file'[r].path].dev = file'[r].dev
    <3>1. CASE r = p
      BY <1>0, <2>1, <2>2, <3>1
    <3>2. CASE r # p
      <4>1. file'[r] = file[r]
        BY <1>0, <2>1, <3>2
      <4> QED
        BY <1>b, <2>2, <2>3, <4>1
    <3> QED
      BY <3>1, <3>2
  <2> QED
    BY <2>1, <2>2, <2>3, CallerMatch
<1>6. ASSUME NEW p \in Proc, NEW q \in Nodes, devfs_opendir(p, q) PROVE MatchInv'
  <2>1. /\ node' = [node EXCEPT ![q].refs = node[q].refs + 1]
        /\ UNCHANGED <<g_devs, mounted, unseen, stale, file>>
    BY <1>6, <1>a DEF devfs_opendir
  <2>2. /\ DOMAIN node' = DOMAIN node
        /\ \A r \in DOMAIN node : node'[r].dev = node[r].dev /\ node'[r].is_dir = node[r].is_dir
    BY <1>c, <2>1
  <2> QED
    BY <1>b, <2>1, <2>2, CallerMatch
<1>7. ASSUME NEW p \in Proc, file[p] # NULL, file' = [file EXCEPT ![p] = NULL],
             node' = [node EXCEPT ![file[p].path].refs = @ - 1],
             UNCHANGED <<g_devs, mounted, unseen, stale>>
      PROVE  MatchInv'
  <2>1. node' = [node EXCEPT ![file[p].path].refs = node[file[p].path].refs - 1]
    BY <1>7, <1>a, <1>b
  <2>2. /\ DOMAIN node' = DOMAIN node
        /\ \A r \in DOMAIN node : node'[r].dev = node[r].dev /\ node'[r].is_dir = node[r].is_dir
    BY <1>c, <2>1
  <2>3. \A r \in Proc : file'[r] # NULL => file'[r] = file[r]
    BY <1>0, <1>7
  <2>4. \A r \in Proc : file'[r] # NULL => node'[file'[r].path].dev = file'[r].dev
    BY <1>b, <2>2, <2>3
  <2> QED
    BY <1>7, <2>2, <2>4, CallerMatch
<1>8. ASSUME NEW p \in Proc, NEW ok \in BOOLEAN, devfs_opened(p, ok) PROVE MatchInv'
  <2>1. CASE ok
    <3>1. UNCHANGED <<g_devs, mounted, unseen, stale, node, file>>
      BY <1>8, <2>1 DEF devfs_opened
    <3> QED
      BY <1>b, <3>1, CallerMatch
  <2>2. CASE ~ok
    <3>1. file[p] # NULL
      BY <1>8 DEF devfs_opened, DevInv
    <3> QED
      BY <1>7, <1>8, <2>2, <3>1 DEF devfs_opened
  <2> QED
    BY <2>1, <2>2
<1>9. ASSUME NEW p \in Proc, devfs_close(p) PROVE MatchInv'
  BY <1>7, <1>9 DEF devfs_close
<1>10. ASSUME NEW p \in Proc, devfs_readdir(p) PROVE MatchInv'
  <2> DEFINE d == dir[p]
             rest == {r \in Children(node, d.path) : d.pos = NULL \/ Last(r) > Last(d.pos)}
             next == CHOOSE r \in rest : \A s \in rest : Last(r) <= Last(s)
  <2>1. /\ node' = [q \in DOMAIN node |->
              IF q = next THEN [node[q] EXCEPT !.refs = @ + 1]
              ELSE IF q = d.pos THEN [node[q] EXCEPT !.refs = @ - 1] ELSE node[q]]
        /\ UNCHANGED <<g_devs, mounted, file, unseen, stale>>
    BY <1>10 DEF devfs_readdir
  <2> HIDE DEF next, d
  <2>2. /\ DOMAIN node' = DOMAIN node
        /\ \A r \in DOMAIN node : node'[r].dev = node[r].dev /\ node'[r].is_dir = node[r].is_dir
    BY <1>a, <2>1 DEF NodeRec
  <2> QED
    BY <1>b, <2>1, <2>2, CallerMatch
<1>11. ASSUME NEW p \in Proc, devfs_closedir(p) PROVE MatchInv'
  <2>1. /\ DOMAIN node' = DOMAIN node
        /\ \A r \in DOMAIN node : node'[r].dev = node[r].dev /\ node'[r].is_dir = node[r].is_dir
    BY <1>a, <1>11 DEF NodeRec, devfs_closedir
  <2>2. UNCHANGED <<g_devs, mounted, file, unseen, stale>>
    BY <1>11 DEF devfs_closedir
  <2> QED
    BY <1>b, <2>1, <2>2, CallerMatch
<1>12. CASE UNCHANGED vars
  <2>1. UNCHANGED <<g_devs, mounted, unseen, stale, node, file>>
    BY <1>12 DEF vars
  <2> QED
    BY <1>b, <2>1, CallerMatch
<1> QED
  BY <1>1, <1>2, <1>3, <1>4, <1>5, <1>6, <1>8, <1>9, <1>10, <1>11, <1>12 DEF Next

\* The invariant says what the property asks for.
LEMMA DevMatch ==
  ASSUME IsFiniteSet(Proc), DevInv, MatchInv PROVE NodesMatch
<1> SUFFICES ASSUME mounted PROVE NodesMatch
  BY DEF NodesMatch
<1>1. node \in Tree /\ g_devs \in Seq(Device) /\ NodesPinned
  BY DevPinned DEF DevInv, DevType
<1>2. node \in [DOMAIN node -> NodeRec] /\ ToSet(g_devs) = Listed(g_devs)
  BY <1>1, TreeElim, ListedSet
<1>3. /\ Shape(node) /\ stale \subseteq Device
      /\ \A d \in Device : Shown(node, d) <=> (d \in Listed(g_devs) /\ d \notin unseen) \/ d \in stale
  BY DEF MatchInv
<1>4. Listed(g_devs) \subseteq Device
  BY <1>1 DEF Listed
<1> DEFINE S == {node[q].dev : q \in DOMAIN node} \ {NULL}
<1>5. ASSUME NEW d \in S PROVE d \in Device /\ Shown(node, d)
  <2>1. PICK q \in DOMAIN node : d = node[q].dev
    OBVIOUS
  <2>2. d \in Device
    BY <1>2, <2>1 DEF NodeRec, Owner
  <2>3. q = Path[d]
    BY <1>3, <2>1 DEF Shape, WellMade
  <2> QED
    BY <2>1, <2>2, <2>3 DEF Shown
<1>6. ASSUME NEW d \in Device, Shown(node, d) PROVE d \in S
  BY <1>6, DevfsAssumption DEF Shown
<1> HIDE DEF S
<1>7. S = (ToSet(g_devs) \ unseen) \cup stale
  BY <1>2, <1>3, <1>4, <1>5, <1>6
<1>8. \A q \in DOMAIN node : q # <<>> => Front(q) \in DOMAIN node
  BY <1>3 DEF Shape, WellMade
<1>9. \A p \in Proc : file[p] # NULL => node[file[p].path].dev = file[p].dev
  BY DEF MatchInv
<1> QED
  BY <1>7, <1>8, <1>9 DEF NodesMatch, S

\* For every set of devices, any names that may clash, any amount of memory and any
\* finite number of callers: the tree shows the registered devices that could be
\* attached and the ones that left while in use, and no others.
THEOREM MatchCorrect == ASSUME IsFiniteSet(Proc) PROVE Spec => []NodesMatch
<1>1. Init => DevInv /\ MatchInv
  BY InitDev, InitMatch
<1>2. DevInv /\ MatchInv /\ [Next]_vars => DevInv' /\ MatchInv'
  BY NextDev, NextMatch
<1>3. DevInv /\ MatchInv => NodesMatch
  BY DevMatch
<1> QED
  BY <1>1, <1>2, <1>3, PTL DEF Spec

=============================================================================
