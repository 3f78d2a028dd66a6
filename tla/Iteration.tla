----------------------------- MODULE Iteration -----------------------------
(***************************************************************************)
(* Induction over a loop.  The loops of the kernel that walk over a table  *)
(* or a path are recursive functions on 0 .. n in the models; these lemmas *)
(* say that such a function exists and what all its values have in common. *)
(* They speak of sets where the library's theorems speak of predicates.    *)
(* Then what counting holders of something comes down to, and what the     *)
(* edits of a list leave in it.                                            *)
(***************************************************************************)
EXTENDS Integers, SequencesExt, SequenceTheorems, FiniteSetTheorems, WellFoundedInduction,
        TLAPS

\* A set of natural numbers has a least element.
LEMMA LeastNatural ==
  ASSUME NEW T, T \subseteq Nat, T # {}
  PROVE  \E x \in T : \A y \in T : x <= y
<1> DEFINE R == OpToRel(<, Nat)
<1>1. IsWellFoundedOn(R, Nat)
  BY NatLessThanWellFounded
<1>2. \A r : r \in R <=> (r \in Nat \X Nat /\ r[1] < r[2])
  BY DEF OpToRel
<1> HIDE DEF R
<1>3. PICK x \in T : \A y \in T : ~(<<y, x>> \in R)
  BY <1>1, WFMin
<1>4. ASSUME NEW y \in T PROVE x <= y
  <2>1. <<y, x>> \in Nat \X Nat /\ ~(<<y, x>> \in R)
    BY <1>3
  <2>2. ~(<<y, x>>[1] < <<y, x>>[2])
    BY <1>2, <2>1
  <2> QED
    BY <2>2
<1> QED
  BY <1>4

\* A set that holds 0 and with every number the next, up to n, holds them all.
LEMMA UpTo ==
  ASSUME NEW n \in Nat, NEW G, 0 \in G, \A k \in 1 .. n : k - 1 \in G => k \in G
  PROVE  \A k \in 0 .. n : k \in G
<1> DEFINE Missing == {k \in Nat : k <= n /\ k \notin G}
<1> SUFFICES Missing = {}
  OBVIOUS
<1> SUFFICES ASSUME Missing # {} PROVE FALSE
  OBVIOUS
<1>1. PICK x \in Missing : \A y \in Missing : x <= y
  BY LeastNatural
<1>2. x \in 1 .. n /\ x \notin G
  BY <1>1
<1>3. x - 1 \in G
  BY <1>1, <1>2
<1> QED
  BY <1>2, <1>3

\* The bodies of loops of n rounds over the values of A.
Rounds(A, n) == [1 .. n -> [A -> A]]

\* A loop with the bodies F has a run from b.
Runs(A, n, F, b) ==
  \E f \in [0 .. n -> A] : f[0] = b /\ \A k \in 1 .. n : f[k] = F[k][f[k - 1]]

\* Every such loop has a run.
LEMMA LoopRuns ==
  ASSUME NEW A, NEW b \in A, NEW n \in Nat, NEW F \in Rounds(A, n)
  PROVE  Runs(A, n, F, b)
<1> USE DEF Rounds
<1> DEFINE Run(f, m) == f[0] = b /\ \A k \in 1 .. m : f[k] = F[k][f[k - 1]]
           G == {m \in Nat : \E f \in [0 .. m -> A] : Run(f, m)}
<1>1. 0 \in G
  <2> DEFINE f == [k \in 0 .. 0 |-> b]
  <2>1. f \in [0 .. 0 -> A] /\ Run(f, 0)
    OBVIOUS
  <2> HIDE DEF f, Run
  <2> QED
    BY <2>1
<1>2. ASSUME NEW m \in 1 .. n, m - 1 \in G PROVE m \in G
  <2>1. PICK f \in [0 .. m - 1 -> A] : Run(f, m - 1)
    BY <1>2
  <2> DEFINE v == F[m][f[m - 1]]
             g == [k \in 0 .. m |-> IF k = m THEN v ELSE f[k]]
  <2>2. v \in A
    OBVIOUS
  <2> HIDE DEF v
  <2>3. g \in [0 .. m -> A]
    BY <2>2
  <2>4. g[m] = v /\ \A k \in 0 .. m - 1 : g[k] = f[k]
    OBVIOUS
  <2> HIDE DEF g
  <2>5. ASSUME NEW k \in 1 .. m PROVE g[k] = F[k][g[k - 1]]
    <3>1. CASE k = m
      BY <2>4, <3>1 DEF v
    <3>2. CASE k # m
      <4>1. k \in 1 .. m - 1 /\ k \in 0 .. m - 1 /\ k - 1 \in 0 .. m - 1
        BY <3>2
      <4>2. g[k] = f[k] /\ g[k - 1] = f[k - 1]
        BY <2>4, <4>1
      <4> QED
        BY <2>1, <4>1, <4>2
    <3> QED
      BY <3>1, <3>2
  <2>6. g[0] = b
    BY <2>1, <2>4
  <2>7. Run(g, m)
    BY <2>5, <2>6
  <2> HIDE DEF Run
  <2> QED
    BY <2>3, <2>7
<1> HIDE DEF G, Run
<1>3. n \in G
  <2>1. \A k \in 1 .. n : k - 1 \in G => k \in G
    BY <1>2
  <2>2. \A k \in 0 .. n : k \in G
    BY <1>1, <2>1, UpTo
  <2> QED
    BY <2>2
<1>4. PICK f \in [0 .. n -> A] : Run(f, n)
  BY <1>3 DEF G
<1> QED
  BY <1>4 DEF Run, Runs

\* The sizes of two finite sets that differ in one at most.
LEMMA CountOne ==
  ASSUME NEW P, IsFiniteSet(P), NEW S, S \subseteq P, NEW T, T \subseteq P, NEW p \in P,
         \A q \in P \ {p} : q \in S <=> q \in T
  PROVE  Cardinality(T) = Cardinality(S) - (IF p \in S THEN 1 ELSE 0)
                                         + (IF p \in T THEN 1 ELSE 0)
<1>1. /\ IsFiniteSet(S) /\ Cardinality(S) \in Nat
      /\ IsFiniteSet(T) /\ Cardinality(T) \in Nat
  BY FS_Subset, FS_CardinalityType
<1>2. CASE (p \in S) <=> (p \in T)
  <2>1. S = T
    BY <1>2
  <2> QED
    BY <1>1, <1>2, <2>1
<1>3. CASE p \in S /\ p \notin T
  <2>1. S = T \cup {p}
    BY <1>3
  <2>2. Cardinality(T \cup {p}) = Cardinality(T) + 1
    BY <1>1, <1>3, FS_AddElement
  <2> QED
    BY <1>1, <1>3, <2>1, <2>2
<1>4. CASE p \notin S /\ p \in T
  <2>1. T = S \cup {p}
    BY <1>4
  <2>2. Cardinality(S \cup {p}) = Cardinality(S) + 1
    BY <1>1, <1>4, FS_AddElement
  <2> QED
    BY <1>1, <1>4, <2>1, <2>2
<1> QED
  BY <1>2, <1>3, <1>4

-----------------------------------------------------------------------------
(* Facts about sequences.                                                  *)

\* What is left of a sequence after RemoveAt.
LEMMA RemoveAtProperties ==
  ASSUME NEW S, NEW s \in Seq(S), NEW p \in 1 .. Len(s)
  PROVE  /\ RemoveAt(s, p) \in Seq(S)
         /\ Len(RemoveAt(s, p)) = Len(s) - 1
         /\ \A i \in 1 .. Len(s) - 1 :
              RemoveAt(s, p)[i] = IF i < p THEN s[i] ELSE s[i+1]
<1> DEFINE a == SubSeq(s, 1, p-1)
           b == SubSeq(s, p+1, Len(s))
<1>1. /\ a \in Seq(S) /\ Len(a) = p - 1
      /\ \A i \in 1 .. p-1 : a[i] = s[i]
  <2>1. \A i \in 1 .. p-1 : s[i] \in S
    OBVIOUS
  <2>2. /\ a \in Seq(S) /\ Len(a) = IF 1 <= p-1 THEN (p-1)-1+1 ELSE 0
        /\ \A i \in 1 .. (p-1)-1+1 : a[i] = s[1+i-1]
    BY <2>1, SubSeqProperties
  <2> QED
    BY <2>2
<1>2. /\ b \in Seq(S) /\ Len(b) = Len(s) - p
      /\ \A i \in 1 .. Len(s)-p : b[i] = s[p+i]
  <2>1. \A i \in p+1 .. Len(s) : s[i] \in S
    OBVIOUS
  <2>2. /\ b \in Seq(S)
        /\ Len(b) = IF p+1 <= Len(s) THEN Len(s)-(p+1)+1 ELSE 0
        /\ \A i \in 1 .. Len(s)-(p+1)+1 : b[i] = s[(p+1)+i-1]
    BY <2>1, SubSeqProperties
  <2> QED
    BY <2>2
<1>0. RemoveAt(s, p) = a \o b
  BY DEF RemoveAt
<1> HIDE DEF a, b
<1>3. /\ a \o b \in Seq(S)
      /\ Len(a \o b) = Len(a) + Len(b)
      /\ \A i \in 1 .. Len(a) + Len(b) :
           (a \o b)[i] = IF i <= Len(a) THEN a[i] ELSE b[i - Len(a)]
  <2>1. a \in Seq(S) /\ b \in Seq(S)
    BY <1>1, <1>2
  <2> QED
    BY <2>1, ConcatProperties
<1>9. \A i \in 1 .. Len(s) - 1 : (a \o b)[i] = IF i < p THEN s[i] ELSE s[i+1]
  BY <1>1, <1>2, <1>3
<1>4. Len(a \o b) = Len(s) - 1
  BY <1>1, <1>2, <1>3
<1>5. Len(RemoveAt(s, p)) = Len(s) - 1
  BY <1>0, <1>4, Zenon
<1>6. RemoveAt(s, p) \in Seq(S)
  BY <1>0, <1>3, Zenon
<1>7. \A i \in 1 .. Len(s) - 1 :
        RemoveAt(s, p)[i] = IF i < p THEN s[i] ELSE s[i+1]
  BY <1>0, <1>9, Zenon
<1> QED
  BY <1>5, <1>6, <1>7

\* What becomes of a sequence when an element is put in front of it.
LEMMA PushProperties ==
  ASSUME NEW S, NEW s \in Seq(S), NEW e \in S
  PROVE  /\ <<e>> \o s \in Seq(S)
         /\ Len(<<e>> \o s) = Len(s) + 1
         /\ (<<e>> \o s)[1] = e
         /\ \A i \in 1 .. Len(s) : (<<e>> \o s)[i+1] = s[i]
<1>1. <<e>> \in Seq(S) /\ Len(<<e>>) = 1 /\ <<e>>[1] = e
  OBVIOUS
<1>2. /\ <<e>> \o s \in Seq(S)
      /\ Len(<<e>> \o s) = 1 + Len(s)
      /\ \A i \in 1 .. 1 + Len(s) :
           (<<e>> \o s)[i] = IF i <= 1 THEN <<e>>[i] ELSE s[i - 1]
  BY <1>1, ConcatProperties
<1> QED
  BY <1>1, <1>2

\* What a sequence is with an element put in at p.
LEMMA InsertAtProperties ==
  ASSUME NEW S, NEW s \in Seq(S), NEW p \in 1 .. Len(s) + 1, NEW e \in S
  PROVE  /\ InsertAt(s, p, e) \in Seq(S)
         /\ Len(InsertAt(s, p, e)) = Len(s) + 1
         /\ \A i \in 1 .. Len(s) + 1 :
              InsertAt(s, p, e)[i] = IF i < p THEN s[i] ELSE IF i = p THEN e ELSE s[i-1]
<1> DEFINE a == SubSeq(s, 1, p-1)
           b == SubSeq(s, p, Len(s))
           c == a \o <<e>>
<1>0. Len(s) \in Nat
  OBVIOUS
<1>1. /\ a \in Seq(S) /\ Len(a) = p - 1
      /\ \A i \in 1 .. p-1 : a[i] = s[i]
  <2>1. \A i \in 1 .. p-1 : s[i] \in S
    BY <1>0
  <2>2. /\ a \in Seq(S)
        /\ Len(a) = IF 1 <= p-1 THEN p-1-1+1 ELSE 0
        /\ \A i \in 1 .. p-1-1+1 : a[i] = s[1+i-1]
    BY <2>1, SubSeqProperties
  <2> QED
    BY <1>0, <2>2
<1>2. /\ b \in Seq(S) /\ Len(b) = Len(s) - p + 1
      /\ \A i \in 1 .. Len(s)-p+1 : b[i] = s[p+i-1]
  <2>1. \A i \in p .. Len(s) : s[i] \in S
    BY <1>0
  <2>2. /\ b \in Seq(S)
        /\ Len(b) = IF p <= Len(s) THEN Len(s)-p+1 ELSE 0
        /\ \A i \in 1 .. Len(s)-p+1 : b[i] = s[p+i-1]
    BY <2>1, SubSeqProperties
  <2> QED
    BY <1>0, <2>2
<1>3. InsertAt(s, p, e) = c \o b
  BY DEF InsertAt
<1> HIDE DEF a, b
<1>4. <<e>> \in Seq(S) /\ Len(<<e>>) = 1 /\ <<e>>[1] = e
  OBVIOUS
<1>5. /\ c \in Seq(S) /\ Len(c) = Len(a) + Len(<<e>>)
      /\ \A i \in 1 .. Len(a) + Len(<<e>>) : c[i] = IF i <= Len(a) THEN a[i] ELSE <<e>>[i - Len(a)]
  <2>1. a \in Seq(S) /\ <<e>> \in Seq(S)
    BY <1>1, <1>4
  <2> QED
    BY <2>1, ConcatProperties
<1> HIDE DEF c
<1>6. Len(c) = p /\ \A i \in 1 .. p : c[i] = IF i < p THEN s[i] ELSE e
  BY <1>0, <1>1, <1>4, <1>5
<1>7. /\ c \o b \in Seq(S) /\ Len(c \o b) = Len(c) + Len(b)
      /\ \A i \in 1 .. Len(c) + Len(b) : (c \o b)[i] = IF i <= Len(c) THEN c[i] ELSE b[i - Len(c)]
  <2>1. c \in Seq(S) /\ b \in Seq(S)
    BY <1>2, <1>5
  <2> QED
    BY <2>1, ConcatProperties
<1>8. Len(c \o b) = Len(s) + 1
  BY <1>0, <1>2, <1>6, <1>7
<1>9. ASSUME NEW i \in 1 .. Len(s) + 1
      PROVE  (c \o b)[i] = IF i < p THEN s[i] ELSE IF i = p THEN e ELSE s[i-1]
  <2>1. CASE ~(i > p)
    <3>1. i \in 1 .. p /\ i \in 1 .. Len(c) + Len(b) /\ i <= Len(c)
      BY <1>0, <1>2, <1>6, <2>1
    <3>2. (c \o b)[i] = c[i]
      BY <1>7, <3>1
    <3> QED
      BY <1>6, <3>1, <3>2
  <2>2. CASE i > p
    <3>1. i - p \in 1 .. Len(s) - p + 1 /\ p + (i - p) - 1 = i - 1
      BY <1>0, <2>2
    <3>2. (c \o b)[i] = b[i - p]
      BY <1>0, <1>2, <1>6, <1>7, <2>2
    <3> QED
      BY <1>2, <2>2, <3>1, <3>2
  <2> QED
    BY <2>1, <2>2
<1> QED
  BY <1>3, <1>7, <1>8, <1>9, Zenon

=============================================================================
