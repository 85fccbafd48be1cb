---------------------------- MODULE NamespaceProofs ----------------------------
(***************************************************************************)
(* Proofs about Namespace, in three parts:                                 *)
(*   whatever calls fail and wherever they stop, the table keeps its form  *)
(*   and no cluster is given back twice;                                   *)
(*   while a directory fits in a cluster, every name leads to an inode in  *)
(*   use, no two to the same;                                              *)
(*   if moreover nothing disturbs moves, ".." leads to the parent, and     *)
(*   what is open is a file in use.                                        *)
(***************************************************************************)
EXTENDS Namespace, FiniteSetTheorems, SequenceTheorems, Extremes

--------------------------------------------------------------------------------
(* The sum of the clusters that inodes hold. *)

Held(node) == MapThenSumSet(LAMBDA i : node[i].clusters, Inodes)

Picked(s) == CHOOSE x \in s : TRUE
Rest(s) == s \ {Picked(s)}

\* What the sum of the set s is, g being that of smaller ones.
Sum(g, node, s) == IF s = {} THEN 0 ELSE node[Picked(s)].clusters + g[Rest(s)]

LEMMA Finite ==
  /\ IsFiniteSet(Inodes)
  /\ \A s \in SUBSET Inodes : IsFiniteSet(s) /\ Cardinality(s) \in Nat
  /\ \A s \in SUBSET Inodes : s # {} =>
        /\ Picked(s) \in s /\ Rest(s) \in SUBSET Inodes
        /\ Cardinality(Rest(s)) = Cardinality(s) - 1
<1>1. IsFiniteSet(Inodes)
  BY DirectoriesAssumption, FS_Interval DEF Inodes, Root
<1>2. \A s \in SUBSET Inodes : IsFiniteSet(s) /\ Cardinality(s) \in Nat
  BY <1>1, FS_Subset, FS_CardinalityType
<1>3. ASSUME NEW s \in SUBSET Inodes, s # {}
      PROVE  /\ Picked(s) \in s /\ Rest(s) \in SUBSET Inodes
             /\ Cardinality(Rest(s)) = Cardinality(s) - 1
  <2>1. Picked(s) \in s
    BY <1>3 DEF Picked
  <2> QED  BY <1>2, <2>1, FS_RemoveElement DEF Rest
<1> QED  BY <1>1, <1>2, <1>3

\* What holds of the empty set, and of every set when it holds of the set
\* without the inode picked from it, holds of all sets of inodes.
LEMMA OneByOne ==
  ASSUME NEW T \in SUBSET SUBSET Inodes, {} \in T,
         \A s \in SUBSET Inodes : s # {} /\ Rest(s) \in T => s \in T
  PROVE  T = SUBSET Inodes
<1> DEFINE Missing == {Cardinality(s) : s \in (SUBSET Inodes) \ T}
<1>1. SUFFICES ASSUME T # SUBSET Inodes PROVE FALSE
  OBVIOUS
<1>2. Missing \in SUBSET Nat /\ Missing # {}
  BY <1>1, Finite
<1>3. PICK n \in Missing : \A m \in Missing : n <= m
  BY <1>2, LeastNatural
<1>4. PICK s \in (SUBSET Inodes) \ T : n = Cardinality(s)
  OBVIOUS
<1>5. s # {} /\ Rest(s) \notin T
  BY <1>4
<1>6. Cardinality(Rest(s)) \in Missing /\ Cardinality(Rest(s)) = Cardinality(s) - 1
  BY <1>4, <1>5, Finite
<1>7. n \in Nat
  BY <1>2
<1> QED  BY <1>3, <1>4, <1>6, <1>7

\* There is a function that sums every set of inodes, and Held is its value.
LEMMA Summed ==
  ASSUME NEW node
  PROVE  \E g : /\ \A s \in SUBSET Inodes : g[s] = Sum(g, node, s)
                /\ Held(node) = g[Inodes]
<1> DEFINE Upto(n) == {s \in SUBSET Inodes : Cardinality(s) <= n}
           Good(n) == \E g : /\ g = [s \in SUBSET Inodes |-> g[s]]
                             /\ \A s \in Upto(n) : g[s] = Sum(g, node, s)
           Bad == {n \in Nat : ~Good(n)}
<1>1. Good(0)
  <2> DEFINE g == [s \in SUBSET Inodes |-> 0]
  <2>1. \A s \in Upto(0) : s = {}
    BY Finite, FS_EmptySet
  <2>2. \A s \in Upto(0) : g[s] = Sum(g, node, s)
    BY <2>1 DEF Sum
  <2> QED  BY <2>2
<1>2. ASSUME NEW n \in Nat, Good(n)
      PROVE  Good(n + 1)
  <2>1. PICK g : /\ g = [s \in SUBSET Inodes |-> g[s]]
                 /\ \A s \in Upto(n) : g[s] = Sum(g, node, s)
    BY <1>2
  <2> DEFINE h == [s \in SUBSET Inodes |-> Sum(g, node, s)]
  <2>2. \A s \in Upto(n) : h[s] = g[s]
    BY <2>1
  <2>3. \A s \in Upto(n + 1) : s # {} => Rest(s) \in Upto(n)
    BY Finite
  <2> HIDE DEF h
  <2>4. ASSUME NEW s \in Upto(n + 1)
        PROVE  Sum(h, node, s) = Sum(g, node, s)
    <3>1. s # {} => h[Rest(s)] = g[Rest(s)]
      BY <2>2, <2>3
    <3> QED  BY <3>1, Zenon DEF Sum
  <2> USE DEF h
  <2> QED  BY <2>4
<1>3. \A n \in Nat : Good(n)
  <2> HIDE DEF Good
  <2>1. SUFFICES ASSUME Bad # {} PROVE FALSE
    OBVIOUS
  <2>2. PICK m \in Bad : \A k \in Bad : m <= k
    BY <2>1, LeastNatural
  <2>3. m # 0 /\ m - 1 \in Nat
    BY <1>1
  <2>4. Good(m - 1)
    BY <2>2, <2>3
  <2>5. Good(m)
    BY <1>2, <2>3, <2>4
  <2> QED  BY <2>5
<1>4. PICK g : /\ g = [s \in SUBSET Inodes |-> g[s]]
               /\ \A s \in Upto(Cardinality(Inodes)) : g[s] = Sum(g, node, s)
  BY <1>3, Finite
<1>5. \A s \in SUBSET Inodes : s \in Upto(Cardinality(Inodes))
  BY Finite, FS_Subset
<1> HIDE DEF Upto, Good, Bad
<1>6. g = [s \in SUBSET Inodes |-> Sum(g, node, s)]
  BY <1>4, <1>5
<1> DEFINE h == CHOOSE f : f = [s \in SUBSET Inodes |-> Sum(f, node, s)]
<1>7. Held(node) = h[Inodes]
  BY Zenon DEF Held, MapThenSumSet, MapThenFoldSet, Sum, Picked, Rest
<1>8. h = [s \in SUBSET Inodes |-> Sum(h, node, s)]
  BY <1>6
<1> HIDE DEF h
<1>9. \A s \in SUBSET Inodes : h[s] = Sum(h, node, s)
  BY <1>8
<1> QED  BY <1>7, <1>9

--------------------------------------------------------------------------------

Counts(node) == \A i \in Inodes : node[i].clusters \in Nat

\* The sum is a number, at least that of any inode.
LEMMA HeldIsNat ==
  ASSUME NEW node, Counts(node)
  PROVE  Held(node) \in Nat /\ \A i \in Inodes : node[i].clusters <= Held(node)
<1>1. PICK g : /\ \A s \in SUBSET Inodes : g[s] = Sum(g, node, s)
               /\ Held(node) = g[Inodes]
  BY Summed
<1> DEFINE T == {s \in SUBSET Inodes :
                    g[s] \in Nat /\ \A i \in s : node[i].clusters <= g[s]}
<1>2. {} \in T
  <2>1. g[{}] = 0
    BY <1>1, Zenon DEF Sum
  <2> QED  BY <2>1
<1>3. ASSUME NEW s \in SUBSET Inodes, s # {}, Rest(s) \in T
      PROVE  s \in T
  <2>1. Picked(s) \in s /\ s \subseteq {Picked(s)} \cup Rest(s)
    BY <1>3, Finite DEF Rest
  <2>2. g[s] = node[Picked(s)].clusters + g[Rest(s)]
    BY <1>1, <1>3 DEF Sum
  <2>3. node[Picked(s)].clusters \in Nat
    BY <2>1 DEF Counts
  <2>4. g[Rest(s)] \in Nat /\ \A i \in Rest(s) : node[i].clusters <= g[Rest(s)]
    BY <1>3
  <2>5. ASSUME NEW i \in s
        PROVE  node[i].clusters <= g[s]
    <3>1. node[i].clusters \in Nat
      BY DEF Counts
    <3>2. CASE i = Picked(s)
      BY <2>2, <2>3, <2>4, <3>2
    <3>3. CASE i \in Rest(s)
      <4>1. node[i].clusters <= g[Rest(s)]
        BY <2>4, <3>3
      <4> QED  BY <2>2, <2>3, <2>4, <3>1, <4>1
    <3> QED  BY <2>1, <3>2, <3>3
  <2>6. g[s] \in Nat
    BY <2>2, <2>3, <2>4
  <2> QED  BY <2>5, <2>6
<1>4. T = SUBSET Inodes
  <2> HIDE DEF T
  <2>1. T \in SUBSET SUBSET Inodes
    BY DEF T
  <2> QED  BY <1>2, <1>3, <2>1, OneByOne
<1>5. Inodes \in T
  BY <1>4
<1> QED  BY <1>1, <1>5

\* When one inode changes, the sum changes as much.
LEMMA HeldMoves ==
  ASSUME NEW old, NEW new, Counts(old), Counts(new), NEW i \in Inodes,
         \A j \in Inodes : j # i => new[j].clusters = old[j].clusters
  PROVE  Held(new) + old[i].clusters = Held(old) + new[i].clusters
<1>1. PICK g : /\ \A s \in SUBSET Inodes : g[s] = Sum(g, old, s)
               /\ Held(old) = g[Inodes]
  BY Summed
<1>2. PICK h : /\ \A s \in SUBSET Inodes : h[s] = Sum(h, new, s)
               /\ Held(new) = h[Inodes]
  BY Summed
<1> DEFINE T == {s \in SUBSET Inodes :
                    /\ g[s] \in Nat /\ h[s] \in Nat
                    /\ i \notin s => h[s] = g[s]
                    /\ i \in s => h[s] + old[i].clusters = g[s] + new[i].clusters}
<1>3. {} \in T
  <2>1. g[{}] = 0 /\ h[{}] = 0
    BY <1>1, <1>2, Zenon DEF Sum
  <2> QED  BY <2>1
<1>4. ASSUME NEW s \in SUBSET Inodes, s # {}, Rest(s) \in T
      PROVE  s \in T
  <2> DEFINE p == Picked(s)
             r == Rest(s)
  <2>1. p \in s /\ r = s \ {p}
    BY <1>4, Finite DEF Rest
  <2>2. g[s] = old[p].clusters + g[r] /\ h[s] = new[p].clusters + h[r]
    BY <1>1, <1>2, <1>4 DEF Sum
  <2>3. old[p].clusters \in Nat /\ new[p].clusters \in Nat
    BY <2>1 DEF Counts
  <2>4. old[i].clusters \in Nat /\ new[i].clusters \in Nat
    BY DEF Counts
  <2>5. /\ g[r] \in Nat /\ h[r] \in Nat
        /\ i \notin r => h[r] = g[r]
        /\ i \in r => h[r] + old[i].clusters = g[r] + new[i].clusters
    BY <1>4
  <2>6. p # i => new[p].clusters = old[p].clusters
    BY <2>1
  <2> HIDE DEF p, r
  <2>7. CASE p = i
    BY <2>1, <2>2, <2>3, <2>5, <2>7
  <2>8. CASE p # i
    BY <2>1, <2>2, <2>3, <2>4, <2>5, <2>6, <2>8
  <2> QED  BY <2>7, <2>8
<1>5. T = SUBSET Inodes
  <2> HIDE DEF T
  <2>1. T \in SUBSET SUBSET Inodes
    BY DEF T
  <2> QED  BY <1>3, <1>4, <2>1, OneByOne
<1>6. Inodes \in T
  BY <1>5
<1> QED  BY <1>1, <1>2, <1>6

\* A table in which only one inode holds clusters.
LEMMA HeldByOne ==
  ASSUME NEW node, Counts(node), NEW i \in Inodes,
         \A j \in Inodes : j # i => node[j].clusters = 0
  PROVE  Held(node) = node[i].clusters
<1>1. PICK g : /\ \A s \in SUBSET Inodes : g[s] = Sum(g, node, s)
               /\ Held(node) = g[Inodes]
  BY Summed
<1> DEFINE T == {s \in SUBSET Inodes :
                    g[s] = IF i \in s THEN node[i].clusters ELSE 0}
<1>2. {} \in T
  <2>1. g[{}] = 0
    BY <1>1, Zenon DEF Sum
  <2> QED  BY <2>1
<1>3. ASSUME NEW s \in SUBSET Inodes, s # {}, Rest(s) \in T
      PROVE  s \in T
  <2> DEFINE p == Picked(s)
             r == Rest(s)
  <2>1. p \in s /\ r = s \ {p}
    BY <1>3, Finite DEF Rest
  <2>2. g[s] = node[p].clusters + g[r]
    BY <1>1, <1>3 DEF Sum
  <2>3. node[i].clusters \in Nat /\ (p # i => node[p].clusters = 0)
    BY <2>1 DEF Counts
  <2>4. g[r] = IF i \in r THEN node[i].clusters ELSE 0
    BY <1>3
  <2> HIDE DEF p, r
  <2> QED  BY <2>1, <2>2, <2>3, <2>4
<1>4. T = SUBSET Inodes
  <2> HIDE DEF T
  <2>1. T \in SUBSET SUBSET Inodes
    BY DEF T
  <2> QED  BY <1>2, <1>3, <2>1, OneByOne
<1>5. Inodes \in T
  BY <1>4
<1> QED  BY <1>1, <1>5

--------------------------------------------------------------------------------
(* Walks. *)

WalkStart(path) == [at |-> Root, rest |-> RelativeComponents(path),
                links |-> 0, ok |-> TRUE]
Steps(path) == Len(path) + MaxLinks * MaxTarget
Step(g, f, path, n) == IF n = 0 THEN WalkStart(path) ELSE Advance(f, g[n - 1])

\* There is a function that gives the walk after each of its steps.
LEMMA Walked ==
  ASSUME NEW f, NEW path \in Seq(Components)
  PROVE  \E g : /\ \A n \in 0 .. Steps(path) : g[n] = Step(g, f, path, n)
                /\ ResolvePath(f, path) = IF g[Steps(path)].ok
                                             /\ g[Steps(path)].links < MaxLinks
                                          THEN g[Steps(path)].at ELSE NoInode
<1> DEFINE S == 0 .. Steps(path)
           Good(n) == \E g : /\ g = [k \in S |-> g[k]]
                             /\ \A k \in S : k <= n => g[k] = Step(g, f, path, k)
           Bad == {n \in Nat : ~Good(n)}
<1>1. Steps(path) \in Nat
  <2>1. Len(path) \in Nat /\ MaxLinks \in Nat /\ MaxTarget \in Nat
    BY PathsAssumption
  <2>2. MaxLinks * MaxTarget \in Nat
    BY <2>1
  <2> QED  BY <2>1, <2>2 DEF Steps
<1>2. Good(0)
  <2> DEFINE g == [k \in S |-> WalkStart(path)]
  <2>1. \A k \in S : k <= 0 => g[k] = Step(g, f, path, k)
    BY <1>1 DEF Step
  <2> QED  BY <2>1
<1>3. ASSUME NEW n \in Nat, Good(n)
      PROVE  Good(n + 1)
  <2>1. PICK g : /\ g = [k \in S |-> g[k]]
                 /\ \A k \in S : k <= n => g[k] = Step(g, f, path, k)
    BY <1>3
  <2> DEFINE h == [k \in S |-> Step(g, f, path, k)]
  <2>2. \A k \in S : k <= n => h[k] = g[k]
    BY <2>1
  <2>3. \A k \in S : k <= n + 1 /\ k # 0 => k - 1 \in S /\ k - 1 <= n
    BY <1>1
  <2> HIDE DEF h, S
  <2>4. ASSUME NEW k \in S, k <= n + 1
        PROVE  Step(h, f, path, k) = Step(g, f, path, k)
    <3>1. k # 0 => h[k - 1] = g[k - 1]
      BY <2>2, <2>3, <2>4
    <3> QED  BY <3>1, Zenon DEF Step
  <2>5. \A k \in S : h[k] = Step(g, f, path, k)
    BY DEF h
  <2>6. \A k \in S : k <= n + 1 => h[k] = Step(h, f, path, k)
    BY <2>4, <2>5
  <2>7. h = [k \in S |-> h[k]]
    BY DEF h
  <2> QED  BY <2>6, <2>7
<1>4. \A n \in Nat : Good(n)
  <2> HIDE DEF Good
  <2>1. SUFFICES ASSUME Bad # {} PROVE FALSE
    OBVIOUS
  <2>2. PICK m \in Bad : \A k \in Bad : m <= k
    BY <2>1, LeastNatural
  <2>3. m # 0 /\ m - 1 \in Nat
    BY <1>2
  <2>4. Good(m - 1)
    BY <2>2, <2>3
  <2>5. Good(m)
    BY <1>3, <2>3, <2>4
  <2> QED  BY <2>5
<1>5. PICK g : /\ g = [k \in S |-> g[k]]
               /\ \A k \in S : k <= Steps(path) => g[k] = Step(g, f, path, k)
  BY <1>1, <1>4
<1>6. \A k \in S : g[k] = Step(g, f, path, k)
  BY <1>1, <1>5
<1> HIDE DEF Good, Bad
<1>7. g = [k \in S |-> Step(g, f, path, k)]
  BY <1>5, <1>6
<1> DEFINE walk == CHOOSE w : w = [n \in S |-> Step(w, f, path, n)]
<1>8. ResolvePath(f, path) = IF walk[Steps(path)].ok
                                /\ walk[Steps(path)].links < MaxLinks
                             THEN walk[Steps(path)].at ELSE NoInode
  BY Zenon DEF ResolvePath, Step, WalkStart, Steps
<1>9. walk = [k \in S |-> Step(walk, f, path, k)]
  BY <1>7
<1> HIDE DEF walk
<1>10. \A k \in S : walk[k] = Step(walk, f, path, k)
  BY <1>9
<1> QED  BY <1>8, <1>10

\* A walk from the root stays in every set that holds the root and all that
\* its members have entries for.
Closed(f, R) ==
  /\ Root \in R
  /\ \A i \in R : \A name : FindEntry(f, i, name) \in R \cup {NoInode}

LEMMA WalkStays ==
  ASSUME NEW f, NEW path \in Seq(Components), NEW R, Closed(f, R)
  PROVE  ResolvePath(f, path) \in R \cup {NoInode}
<1>1. PICK g : /\ \A n \in 0 .. Steps(path) : g[n] = Step(g, f, path, n)
               /\ ResolvePath(f, path) = IF g[Steps(path)].ok
                                             /\ g[Steps(path)].links < MaxLinks
                                          THEN g[Steps(path)].at ELSE NoInode
  BY Walked
<1> DEFINE Inside(w) == \E A, B, C : w \in [at : R, rest : A, links : B, ok : C]
           Bad == {n \in 0 .. Steps(path) : ~Inside(g[n])}
<1>2. Steps(path) \in Nat
  <2>1. Len(path) \in Nat /\ MaxLinks \in Nat /\ MaxTarget \in Nat
    BY PathsAssumption
  <2>2. MaxLinks * MaxTarget \in Nat
    BY <2>1
  <2> QED  BY <2>1, <2>2 DEF Steps
<1>3. Inside(WalkStart(path))
  <2>1. WalkStart(path) \in [at : R, rest : {RelativeComponents(path)}, links : {0},
                         ok : {TRUE}]
    BY DEF WalkStart, Closed
  <2> QED  BY <2>1
<1>4. ASSUME NEW w, Inside(w)
      PROVE  Inside(Advance(f, w))
  <2> DEFINE next == FindEntry(f, w.at, Head(w.rest))
             left == [w EXCEPT !.rest = Tail(@)]
  <2>1. PICK A, B, C : w \in [at : R, rest : A, links : B, ok : C]
    BY <1>4
  <2>2. left \in [at : R, rest : {Tail(w.rest)}, links : B, ok : C]
    BY <2>1
  <2>3. next \in R \cup {NoInode}
    BY <2>1 DEF Closed
  <2> HIDE DEF left, next
  <2>4. Inside([left EXCEPT !.ok = FALSE])
    <3>1. [left EXCEPT !.ok = FALSE]
            \in [at : R, rest : {Tail(w.rest)}, links : B, ok : {FALSE}]
      BY <2>2
    <3> QED  BY <3>1
  <2>5. ASSUME NEW target
        PROVE  Inside(FollowLink(left, target))
    <3>1. FollowLink(left, target)
            \in [at : R, rest : {target.path}, links : {left.links + 1}, ok : C]
      BY <2>2 DEF FollowLink, Closed
    <3> QED  BY <3>1
  <2>6. ASSUME next # NoInode
        PROVE  Inside([left EXCEPT !.at = next])
    <3>1. [left EXCEPT !.at = next]
            \in [at : R, rest : {Tail(w.rest)}, links : B, ok : C]
      BY <2>2, <2>3, <2>6
    <3> QED  BY <3>1
  <2>7. Inside(left)
    BY <2>2
  <2> HIDE DEF Inside
  <2>8. Inside(Enter(f, w, Head(w.rest)))
    BY <2>4, <2>5, <2>6, Zenon DEF Enter, left, next
  <2> QED  BY <1>4, <2>7, <2>8, Zenon DEF Advance, left
<1>5. \A n \in 0 .. Steps(path) : Inside(g[n])
  <2> HIDE DEF Inside
  <2>1. SUFFICES ASSUME Bad # {} PROVE FALSE
    OBVIOUS
  <2>2. Bad \in SUBSET Nat
    BY <1>2
  <2>3. PICK m \in Bad : \A k \in Bad : m <= k
    <3> HIDE DEF Bad
    <3> QED  BY <2>1, <2>2, LeastNatural
  <2>4. m # 0
    BY <1>1, <1>3 DEF Step
  <2>5. m - 1 \in 0 .. Steps(path) /\ m - 1 \notin Bad
    <3>1. m \in 0 .. Steps(path) /\ m \in Nat
      BY <1>2
    <3>2. ~(m <= m - 1)
      BY <3>1
    <3> HIDE DEF Bad
    <3> QED  BY <1>2, <2>3, <2>4, <3>1, <3>2
  <2>6. g[m] = Advance(f, g[m - 1])
    BY <1>1, <2>4, Zenon DEF Step
  <2> QED  BY <1>4, <2>5, <2>6
<1>6. g[Steps(path)].at \in R
  <2>1. Inside(g[Steps(path)])
    <3> HIDE DEF Inside
    <3> QED  BY <1>2, <1>5
  <2> QED  BY <2>1
<1> HIDE DEF Inside
<1> QED  BY <1>1, <1>6

--------------------------------------------------------------------------------
(* What every operation keeps. *)

Table == [node : [Inodes -> Node], space : Nat]

\* A list of entries in which no name but "." and ".." leads to the root.
EntryList(entries) ==
  /\ entries \in Seq(Entry)
  /\ \A k \in DOMAIN entries :
        entries[k].name \notin {Dot, DotDot} => entries[k].inode # Root

RootStays(f) ==
  /\ f.node[Root].used
  /\ f.node[Root].type = "directory"
  /\ f.node[Root].clusters >= 1

Accounted(f) == f.space + Held(f.node) <= Space + 1

Sound(f) ==
  /\ f \in Table
  /\ \A i \in Inodes : EntryList(f.node[i].entries)
  /\ RootStays(f)
  /\ Accounted(f)

IInv ==
  /\ Sound(fs)
  /\ opened \in [Descriptors -> Inodes \cup {NoInode}]

LEMMA RootIsInode ==
  Root \in Inodes /\ NoInode \notin Inodes /\ Inodes \subseteq Nat
BY DirectoriesAssumption DEF Root, Inodes, NoInode

LEMMA TableCounts ==
  ASSUME NEW f, f \in Table
  PROVE  Counts(f.node) /\ f.space \in Nat /\ \A i \in Inodes : f.node[i] \in Node
<1>1. f.node \in [Inodes -> Node] /\ f.space \in Nat
  BY DEF Table
<1>2. \A i \in Inodes : f.node[i] \in Node
  BY <1>1
<1> QED  BY <1>1, <1>2 DEF Counts, Node

\* One inode changes, and takes no more clusters than become free no more.
LEMMA OneChanges ==
  ASSUME NEW f, Sound(f), NEW g, g \in Table, NEW i \in Inodes,
         \A j \in Inodes : j # i => g.node[j] = f.node[j],
         EntryList(g.node[i].entries),
         i = Root => RootStays(g),
         g.space + g.node[i].clusters <= f.space + f.node[i].clusters
  PROVE  Sound(g)
<1>1. f \in Table
  BY DEF Sound
<1>2. Held(g.node) + f.node[i].clusters = Held(f.node) + g.node[i].clusters
  BY <1>1, TableCounts, HeldMoves
<1>3. /\ Held(f.node) \in Nat /\ Held(g.node) \in Nat
      /\ f.node[i].clusters \in Nat /\ g.node[i].clusters \in Nat
      /\ f.space \in Nat /\ g.space \in Nat /\ Space \in Nat
  BY <1>1, TableCounts, HeldIsNat, NamespaceAssumption DEF Counts
<1>4. f.space + Held(f.node) <= Space + 1
  BY DEF Sound, Accounted
<1>5. Accounted(g)
  BY <1>2, <1>3, <1>4 DEF Accounted
<1>6. \A j \in Inodes : EntryList(g.node[j].entries)
  BY DEF Sound
<1>7. RootStays(g)
  BY RootIsInode DEF Sound, RootStays
<1> QED  BY <1>5, <1>6, <1>7 DEF Sound

\* The first entry of a name, where there is one.
LEMMA FirstOne ==
  ASSUME NEW entries \in Seq(Entry), NEW name, Position(entries, name) # {}
  PROVE  LET k == CHOOSE k \in Position(entries, name) :
                      \A l \in Position(entries, name) : k <= l
         IN  /\ k \in 1 .. Len(entries) /\ entries[k] \in Entry
             /\ entries[k].name = name
<1>1. Position(entries, name) \in SUBSET Nat
  BY DEF Position
<1>2. \E k \in Position(entries, name) : \A l \in Position(entries, name) : k <= l
  BY <1>1, LeastNatural
<1> DEFINE k == CHOOSE k \in Position(entries, name) :
                    \A l \in Position(entries, name) : k <= l
<1>3. k \in Position(entries, name)
  BY <1>2
<1> HIDE DEF k
<1>4. k \in 1 .. Len(entries) /\ entries[k] \in Entry /\ entries[k].name = name
  BY <1>3 DEF Position
<1> QED  BY <1>4 DEF k

\* What is found under a name is an inode, and not the root unless the name
\* is "." or "..".
LEMMA Found ==
  ASSUME NEW f, Sound(f), NEW dir \in Inodes \cup {NoInode}, NEW name
  PROVE  /\ FindEntry(f, dir, name) \in Inodes \cup {NoInode}
         /\ name \notin {Dot, DotDot} => FindEntry(f, dir, name) # Root
         /\ FindEntry(f, dir, name) # NoInode => dir \in Inodes
<1>1. CASE ~Holds(f, dir, name)
  BY <1>1, RootIsInode DEF FindEntry
<1>2. CASE Holds(f, dir, name)
  <2> DEFINE entries == f.node[dir].entries
             k == CHOOSE k \in Position(entries, name) :
                      \A l \in Position(entries, name) : k <= l
  <2>1. dir \in Inodes /\ Position(entries, name) # {}
    BY <1>2 DEF Holds
  <2>2. EntryList(entries)
    BY <2>1 DEF Sound
  <2>3. k \in 1 .. Len(entries) /\ entries[k] \in Entry /\ entries[k].name = name
    BY <2>1, <2>2, FirstOne DEF EntryList
  <2>4. FindEntry(f, dir, name) = entries[k].inode
    BY <1>2, Zenon DEF FindEntry
  <2> HIDE DEF entries, k
  <2>5. entries[k].inode \in Inodes
    BY <2>3 DEF Entry
  <2>6. name \notin {Dot, DotDot} => entries[k].inode # Root
    BY <2>2, <2>3 DEF EntryList
  <2> QED  BY <2>1, <2>4, <2>5, <2>6
<1> QED  BY <1>1, <1>2

LEMMA Resolved ==
  ASSUME NEW f, Sound(f), NEW path \in Seq(Components)
  PROVE  ResolvePath(f, path) \in Inodes \cup {NoInode}
<1>1. Closed(f, Inodes)
  BY Found, RootIsInode DEF Closed
<1> QED  BY <1>1, WalkStays

\* The paths of programs, and those that commands make of them: they are not
\* empty, and end in what a path of a program ends in, or in a name.
Ends == {Last(path) : path \in PathsGiven} \cup Names
ProperPath == {path \in Seq(Components) : path # << >> /\ Last(path) \in Ends}

LEMMA GivenPaths == PathsGiven \subseteq ProperPath
BY NamespaceAssumption DEF ProperPath, Ends

LEMMA Parent ==
  ASSUME NEW f, Sound(f), NEW path \in ProperPath
  PROVE  ParentOf(f, path) \in Inodes \cup {NoInode}
<1>1. path \in Seq(Components) /\ path # << >>
  BY DEF ProperPath
<1>2. Front(path) \in Seq(Components)
  BY <1>1 DEF Front
<1> QED  BY <1>2, Resolved, RootIsInode DEF ParentOf

LEMMA Allocated ==
  ASSUME NEW f, Sound(f)
  PROVE  /\ AllocateInode(f) \in Inodes \cup {NoInode}
         /\ AllocateInode(f) # NoInode =>
               /\ AllocateInode(f) \in Inodes \ {Root}
               /\ ~f.node[AllocateInode(f)].used
<1>1. CASE Unused(f) = {}
  BY <1>1 DEF AllocateInode
<1>2. CASE Unused(f) # {}
  <2>1. Unused(f) \in SUBSET Nat
    BY RootIsInode DEF Unused
  <2>2. \E i \in Unused(f) : \A j \in Unused(f) : i <= j
    BY <1>2, <2>1, LeastNatural
  <2>3. AllocateInode(f) \in Unused(f)
    BY <1>2, <2>2 DEF AllocateInode
  <2> QED  BY <2>3, RootIsInode DEF Unused, Sound, RootStays
<1> QED  BY <1>1, <1>2

--------------------------------------------------------------------------------
(* Lists of entries. *)

Fits(e) == e \in Entry /\ (e.name \notin {Dot, DotDot} => e.inode # Root)

LEMMA ListElements ==
  ASSUME NEW s
  PROVE  EntryList(s) <=> s \in Seq(Entry) /\ \A k \in 1 .. Len(s) : Fits(s[k])
<1>1. s \in Seq(Entry) => DOMAIN s = 1 .. Len(s) /\ \A k \in 1 .. Len(s) : s[k] \in Entry
  OBVIOUS
<1> QED  BY <1>1, Zenon DEF EntryList, Fits

LEMMA ListJoined ==
  ASSUME NEW a, EntryList(a), NEW b, EntryList(b)
  PROVE  EntryList(a \o b)
<1>1. /\ a \in Seq(Entry) /\ \A k \in 1 .. Len(a) : Fits(a[k])
      /\ b \in Seq(Entry) /\ \A k \in 1 .. Len(b) : Fits(b[k])
  BY ListElements
<1>2. /\ a \o b \in Seq(Entry) /\ Len(a \o b) = Len(a) + Len(b)
      /\ \A k \in 1 .. Len(a) + Len(b) :
            (a \o b)[k] = IF k <= Len(a) THEN a[k] ELSE b[k - Len(a)]
  BY <1>1, ConcatProperties
<1>3. \A k \in 1 .. Len(a) + Len(b) : k \in 1 .. Len(a) \/ k - Len(a) \in 1 .. Len(b)
  BY <1>1
<1>4. \A k \in 1 .. Len(a \o b) : Fits((a \o b)[k])
  BY <1>1, <1>2, <1>3
<1> QED  BY <1>2, <1>4, ListElements

LEMMA ListPart ==
  ASSUME NEW a, EntryList(a), NEW m \in 1 .. Len(a) + 1, NEW n \in 0 .. Len(a)
  PROVE  EntryList(SubSeq(a, m, n))
<1>1. a \in Seq(Entry) /\ \A k \in 1 .. Len(a) : Fits(a[k])
  BY ListElements
<1>2. m \in Int /\ n \in Int
  BY <1>1
<1>3. /\ SubSeq(a, m, n) \in Seq(Entry)
      /\ Len(SubSeq(a, m, n)) = IF m <= n THEN n - m + 1 ELSE 0
      /\ \A k \in 1 .. n - m + 1 : SubSeq(a, m, n)[k] = a[m + k - 1]
  BY <1>1, <1>2, SubSeqProperties
<1>4. \A k \in 1 .. n - m + 1 : m + k - 1 \in 1 .. Len(a)
  BY <1>1
<1>5. \A k \in 1 .. Len(SubSeq(a, m, n)) : Fits(SubSeq(a, m, n)[k])
  BY <1>1, <1>2, <1>3, <1>4
<1> QED  BY <1>3, <1>5, ListElements

LEMMA ListOfOne ==
  ASSUME NEW e, Fits(e)
  PROVE  EntryList(<<e>>)
<1>1. <<e>> \in Seq(Entry)
  BY DEF Fits
<1>2. \A k \in 1 .. Len(<<e>>) : Fits(<<e>>[k])
  OBVIOUS
<1> QED  BY <1>1, <1>2, ListElements

LEMMA ListOverwritten ==
  ASSUME NEW old, EntryList(old), NEW new, EntryList(new), NEW j \in Nat,
         (j - 1) * PerCluster <= Len(new)
  PROVE  EntryList(Overwritten(old, new, j))
<1> DEFINE written == (j - 1) * PerCluster
<1>1. /\ old \in Seq(Entry) /\ \A k \in 1 .. Len(old) : Fits(old[k])
      /\ new \in Seq(Entry) /\ \A k \in 1 .. Len(new) : Fits(new[k])
  BY ListElements
<1>2. written \in Int /\ written <= Len(new)
  BY DirectoriesAssumption
<1> DEFINE mixed == [k \in 1 .. Len(old) |-> IF k <= written THEN new[k] ELSE old[k]]
<1>3. Overwritten(old, new, j) = mixed
  BY DEF Overwritten
<1> HIDE DEF written
<1>4. \A k \in 1 .. Len(old) : Fits(mixed[k])
  <2>1. \A k \in 1 .. Len(old) : k <= written => k \in 1 .. Len(new)
    BY <1>1, <1>2
  <2> QED  BY <1>1, <2>1
<1>5. mixed \in [1 .. Len(old) -> Entry]
  BY <1>4 DEF Fits
<1> HIDE DEF mixed
<1>6. mixed \in Seq(Entry) /\ Len(mixed) = Len(old)
  BY <1>1, <1>5, SeqDef
<1> QED  BY <1>3, <1>4, <1>6, ListElements

LEMMA ListInserted ==
  ASSUME NEW s, EntryList(s), NEW name \in Components \ {Dot, DotDot},
         NEW i \in Inodes \ {Root}
  PROVE  EntryList(Insert(s, name, i))
<1> DEFINE before == {k \in DOMAIN s : s[k].name < name}
           p == 1 + Cardinality(before)
           e == [name |-> name, inode |-> i]
<1>1. s \in Seq(Entry) /\ Len(s) \in Nat /\ DOMAIN s = 1 .. Len(s)
  BY ListElements
<1>2. Cardinality(before) \in 0 .. Len(s)
  <2>1. IsFiniteSet(1 .. Len(s)) /\ Cardinality(1 .. Len(s)) = Len(s)
    BY <1>1, FS_Interval
  <2>2. before \subseteq 1 .. Len(s)
    BY <1>1
  <2> HIDE DEF before
  <2>3. Cardinality(before) <= Len(s) /\ IsFiniteSet(before)
    BY <2>1, <2>2, FS_Subset
  <2> QED  BY <1>1, <2>3, FS_CardinalityType
<1> HIDE DEF before
<1>3. p \in 1 .. Len(s) + 1 /\ p - 1 \in 0 .. Len(s)
  BY <1>1, <1>2
<1>4. EntryList(SubSeq(s, 1, p - 1)) /\ EntryList(SubSeq(s, p, Len(s)))
  BY <1>1, <1>3, ListPart
<1>5. EntryList(<<e>>)
  BY ListOfOne DEF Fits, Entry
<1> HIDE DEF p, e
<1>6. EntryList(SubSeq(s, 1, p - 1) \o <<e>> \o SubSeq(s, p, Len(s)))
  BY <1>4, <1>5, ListJoined
<1>7. Insert(s, name, i) = SubSeq(s, 1, p - 1) \o <<e>> \o SubSeq(s, p, Len(s))
  BY Zenon DEF Insert, InsertAt, before, p, e
<1> QED  BY <1>6, <1>7

LEMMA ListRemoved ==
  ASSUME NEW s, EntryList(s), NEW k \in 1 .. Len(s)
  PROVE  EntryList(RemoveAt(s, k))
<1>1. s \in Seq(Entry) /\ Len(s) \in Nat
  BY ListElements
<1>2. /\ 1 \in 1 .. Len(s) + 1 /\ k - 1 \in 0 .. Len(s)
      /\ k + 1 \in 1 .. Len(s) + 1 /\ Len(s) \in 0 .. Len(s)
  BY <1>1
<1>3. EntryList(SubSeq(s, 1, k - 1))
  BY <1>2, ListPart
<1>4. EntryList(SubSeq(s, k + 1, Len(s)))
  BY <1>2, ListPart
<1> QED  BY <1>3, <1>4, ListJoined DEF RemoveAt

LEMMA ListUpdated ==
  ASSUME NEW s, EntryList(s), NEW k \in 1 .. Len(s), s[k].name = DotDot,
         NEW i \in Inodes
  PROVE  EntryList([s EXCEPT ![k].inode = i])
<1> DEFINE t == [s EXCEPT ![k].inode = i]
<1>1. s \in Seq(Entry) /\ \A l \in 1 .. Len(s) : Fits(s[l])
  BY ListElements
<1>2. \A l \in 1 .. Len(s) : l # k => t[l] = s[l]
  BY <1>1
<1>3. t[k] = [s[k] EXCEPT !.inode = i]
  BY <1>1
<1>4. Fits(t[k])
  BY <1>1, <1>3 DEF Fits, Entry
<1>5. t \in Seq(Entry) /\ Len(t) = Len(s)
  <2>1. t = [s EXCEPT ![k] = t[k]] /\ t[k] \in Entry
    BY <1>1, <1>4 DEF Fits
  <2> HIDE DEF t
  <2>2. [s EXCEPT ![k] = t[k]] \in Seq(Entry) /\ Len([s EXCEPT ![k] = t[k]]) = Len(s)
    BY <1>1, <2>1, ExceptSeq
  <2> QED  BY <2>1, <2>2
<1> HIDE DEF t
<1>6. \A l \in 1 .. Len(t) : Fits(t[l])
  BY <1>1, <1>2, <1>4, <1>5
<1>7. EntryList(t)
  BY <1>5, <1>6, ListElements
<1> QED  BY <1>7 DEF t

--------------------------------------------------------------------------------
(* Each operation on the table keeps it sound. *)

LEMMA FreeIsNode ==
  FreeNode \in Node /\ EntryList(FreeNode.entries) /\ FreeNode.clusters = 0
<1>1. FreeNode \in Node /\ FreeNode.entries = << >> /\ FreeNode.clusters = 0
  BY DEF FreeNode, NoTarget, Node
<1> QED  BY <1>1 DEF EntryList

LEMMA NodeMade ==
  ASSUME NEW f, Sound(f), NEW i \in Inodes, ~f.node[i].used,
         NEW type \in {"regular", "directory", "symlink"}
  PROVE  Sound(WithNode(f, i, type))
<1> DEFINE n == [FreeNode EXCEPT !.used = TRUE, !.type = type]
           g == [f EXCEPT !.node[i] = n]
<1>1. n \in Node /\ n.entries = FreeNode.entries /\ n.clusters = 0
  BY FreeIsNode DEF Node
<1>2. EntryList(n.entries)
  <2> HIDE DEF n
  <2> QED  BY <1>1, FreeIsNode
<1>3. f \in Table /\ f.node[i].clusters \in Nat /\ f.space \in Nat
  BY TableCounts DEF Sound, Counts
<1>4. i # Root
  BY DEF Sound, RootStays
<1> HIDE DEF n
<1>5. /\ g \in Table /\ g.node[i] = n /\ g.space = f.space
      /\ \A j \in Inodes : j # i => g.node[j] = f.node[j]
  BY <1>1, <1>3 DEF Table
<1>6. WithNode(f, i, type) = g
  BY DEF WithNode, n
<1> HIDE DEF g
<1>7. g.space + g.node[i].clusters <= f.space + f.node[i].clusters
  BY <1>1, <1>3, <1>5
<1>8. Sound(g)
  BY <1>2, <1>4, <1>5, <1>7, OneChanges
<1> QED  BY <1>6, <1>8

LEMMA InodeFreed ==
  ASSUME NEW f, Sound(f), NEW i \in Inodes \ {Root}
  PROVE  Sound(FreeInode(f, i))
<1> DEFINE g == [f EXCEPT !.node[i] = FreeNode]
<1>1. FreeNode \in Node /\ FreeNode.clusters = 0
  BY FreeIsNode
<1>2. EntryList(FreeNode.entries)
  BY FreeIsNode
<1>3. f \in Table /\ f.node[i].clusters \in Nat /\ f.space \in Nat
  BY TableCounts DEF Sound, Counts
<1>4. /\ g \in Table /\ g.node[i] = FreeNode /\ g.space = f.space
      /\ \A j \in Inodes : j # i => g.node[j] = f.node[j]
  BY <1>1, <1>3 DEF Table
<1>5. FreeInode(f, i) = g
  BY DEF FreeInode
<1> HIDE DEF g
<1>6. g.space + g.node[i].clusters <= f.space + f.node[i].clusters
  BY <1>1, <1>3, <1>4
<1>7. Sound(g)
  BY <1>2, <1>4, <1>6, OneChanges
<1> QED  BY <1>5, <1>7

LEMMA Truncated ==
  ASSUME NEW f, Sound(f), NEW i \in Inodes \ {Root}
  PROVE  Sound(Truncate(f, i))
<1> DEFINE n == [f.node[i] EXCEPT !.clusters = 0]
           g == [f EXCEPT !.space = @ + f.node[i].clusters, !.node[i].clusters = 0]
<1>1. /\ f \in Table /\ f.node[i].clusters \in Nat /\ f.space \in Nat
      /\ f.node[i] \in Node /\ EntryList(f.node[i].entries)
  BY TableCounts DEF Sound, Counts
<1>2. n \in Node /\ n.entries = f.node[i].entries /\ n.clusters = 0
  BY <1>1 DEF Node
<1> DEFINE sp == f.space + f.node[i].clusters
<1>3. /\ g \in Table /\ g.node[i] = n /\ g.space = sp
      /\ \A j \in Inodes : j # i => g.node[j] = f.node[j]
  <2>1. sp \in Nat
    BY <1>1
  <2>2. g = [f EXCEPT !.node[i] = n, !.space = sp]
    BY <1>1 DEF Table
  <2> HIDE DEF n, g, sp
  <2> QED  BY <1>1, <1>2, <2>1, <2>2 DEF Table
<1>4. Truncate(f, i) = g
  BY DEF Truncate
<1> HIDE DEF g, n
<1>5. g.space + g.node[i].clusters <= f.space + f.node[i].clusters
  BY <1>1, <1>2, <1>3
<1>6. Sound(g)
  BY <1>1, <1>2, <1>3, <1>5, OneChanges
<1> QED  BY <1>4, <1>6

LEMMA TruncatedAndFreed ==
  ASSUME NEW f, Sound(f), NEW i \in Inodes \ {Root}
  PROVE  Sound(TruncateAndFree(f, i))
BY Truncated, InodeFreed DEF TruncateAndFree

\* A list of n entries takes the least number of clusters that hold them.
LEMMA ClustersTaken ==
  ASSUME NEW s \in Seq(Entry)
  PROVE  /\ Clusters(s) \in Nat
         /\ \A j \in 1 .. Clusters(s) : (j - 1) * PerCluster <= Len(s)
<1> DEFINE n == Len(s) + PerCluster - 1
           q == Clusters(s)
<1>1. Len(s) \in Nat /\ n \in Nat /\ PerCluster \in Nat /\ PerCluster >= 2
  BY DirectoriesAssumption
<1>2. q = n \div PerCluster
  BY DEF Clusters
<1>3. q \in Nat /\ q * PerCluster <= n
  <2> HIDE DEF n, q
  <2> QED  BY <1>1, <1>2
<1>4. ASSUME NEW j \in 1 .. q
      PROVE  (j - 1) * PerCluster <= Len(s)
  <2> HIDE DEF q
  <2>1. (q - j) * PerCluster >= 0
    BY <1>1, <1>3
  <2>2. (j - 1) * PerCluster = q * PerCluster - (q - j) * PerCluster - PerCluster
    BY <1>1, <1>3
  <2> QED  BY <1>1, <1>3, <2>1, <2>2
<1> QED  BY <1>3, <1>4

LEMMA Stopped ==
  ASSUME NEW f, Sound(f), NEW dir \in Inodes, NEW new, EntryList(new),
         NEW j \in Nat \ {0}, (j - 1) * PerCluster <= Len(new),
         j <= f.node[dir].clusters + f.space + 1,
         NEW r \in StopsAt(f, dir, new, j)
  PROVE  Sound(r.fs) /\ r.ok = FALSE
<1> DEFINE held == f.node[dir].clusters
           added == IF j > held THEN j - 1 - held ELSE 0
           noSpace == j > held /\ added = f.space
           lost == IF noSpace \/ j <= held THEN {added} ELSE {added, added + 1}
           old == f.node[dir].entries
           mixed == Overwritten(old, new, j)
           g(l) == [f EXCEPT !.node[dir].entries = Overwritten(@, new, j),
                             !.space = @ - l]
<1>1. /\ f \in Table /\ held \in Nat /\ f.space \in Nat
      /\ f.node[dir] \in Node /\ EntryList(old)
  BY TableCounts DEF Sound, Counts
<1>2. \A l \in lost : l \in 0 .. f.space
  <2> HIDE DEF held
  <2>1. j <= held + f.space + 1
    BY DEF held
  <2>2. CASE noSpace
    BY <1>1, <2>2
  <2>3. CASE j <= held
    BY <1>1, <2>3
  <2>4. CASE ~noSpace /\ j > held
    <3>1. added = j - 1 - held /\ added # f.space /\ lost = {added, added + 1}
      BY <2>4, <1>1
    <3>2. added \in 0 .. f.space - 1
      BY <1>1, <2>1, <2>4, <3>1
    <3> HIDE DEF added, lost
    <3> QED  BY <1>1, <3>1, <3>2
  <2> QED  BY <1>1, <2>2, <2>3, <2>4
<1>3. r \in {Failed(g(l)) : l \in lost}
  BY DEF StopsAt
<1> HIDE DEF lost
<1>4. PICK l \in lost : r = Failed(g(l))
  BY <1>3
<1>5. EntryList(mixed) /\ mixed \in Seq(Entry)
  BY <1>1, ListOverwritten DEF EntryList
<1> HIDE DEF mixed
<1> DEFINE n == [f.node[dir] EXCEPT !.entries = mixed]
<1>6. /\ n \in Node /\ n.entries = mixed /\ n.clusters = held
      /\ n.used = f.node[dir].used /\ n.type = f.node[dir].type
  BY <1>1, <1>5 DEF Node
<1>7. /\ g(l) \in Table /\ g(l).node[dir] = n /\ g(l).space = f.space - l
      /\ \A i \in Inodes : i # dir => g(l).node[i] = f.node[i]
  <2>1. f.space - l \in Nat
    BY <1>1, <1>2, <1>4
  <2>2. g(l) = [f EXCEPT !.node[dir] = n, !.space = f.space - l]
    BY <1>1 DEF Table, mixed
  <2> HIDE DEF n, g
  <2> QED  BY <1>1, <1>6, <2>1, <2>2 DEF Table
<1> HIDE DEF g, n
<1>8. g(l).space + g(l).node[dir].clusters <= f.space + f.node[dir].clusters
  BY <1>1, <1>2, <1>4, <1>6, <1>7
<1>9. dir = Root => RootStays(g(l))
  BY <1>6, <1>7 DEF Sound, RootStays
<1>10. Sound(g(l))
  BY <1>5, <1>6, <1>7, <1>8, <1>9, OneChanges
<1> QED  BY <1>4, <1>10 DEF Failed

LEMMA Saved ==
  ASSUME NEW f, Sound(f), NEW dir \in Inodes, NEW new, EntryList(new),
         NEW r \in SaveEntries(f, dir, new)
  PROVE  Sound(r.fs) /\ r.ok \in BOOLEAN
<1> DEFINE held == f.node[dir].clusters
           grown == IF Clusters(new) > held THEN Clusters(new) - held ELSE 0
           g == [f EXCEPT !.node[dir].entries = new,
                          !.node[dir].clusters = held + grown,
                          !.space = @ - grown]
           last == IF grown > f.space THEN held + f.space + 1 ELSE Clusters(new)
<1>1. /\ f \in Table /\ held \in Nat /\ f.space \in Nat
      /\ f.node[dir] \in Node
  BY TableCounts DEF Sound, Counts
<1>2. new \in Seq(Entry) /\ Clusters(new) \in Nat
  BY ClustersTaken DEF EntryList
<1>3. grown \in Nat
  BY <1>1, <1>2
<1>4. \A j \in 1 .. last : /\ j \in Nat \ {0} /\ j \in 1 .. Clusters(new)
                           /\ j <= held + f.space + 1
  BY <1>1, <1>2
<1> HIDE DEF last, grown
<1>5. \/ \E j \in 1 .. last : r \in StopsAt(f, dir, new, j)
      \/ ~(grown > f.space) /\ r = Ok(g)
  <2> DEFINE stops == UNION {StopsAt(f, dir, new, j) : j \in 1 .. last}
             ends == IF grown > f.space THEN {} ELSE {Ok(g)}
  <2>1. r \in stops \cup ends
    BY Zenon DEF SaveEntries, last, grown
  <2>2. r \in stops => \E j \in 1 .. last : r \in StopsAt(f, dir, new, j)
    BY Zenon
  <2> HIDE DEF stops, g
  <2>3. r \in ends => ~(grown > f.space) /\ r = Ok(g)
    OBVIOUS
  <2> HIDE DEF ends
  <2> QED  BY <2>1, <2>2, <2>3
<1>6. ASSUME NEW j \in 1 .. last, r \in StopsAt(f, dir, new, j)
      PROVE  Sound(r.fs) /\ r.ok \in BOOLEAN
  <2>1. new \in Seq(Entry) /\ j \in 1 .. Clusters(new)
    BY <1>2, <1>4
  <2>2. (j - 1) * PerCluster <= Len(new)
    BY <2>1, ClustersTaken
  <2>3. j \in Nat \ {0} /\ j <= f.node[dir].clusters + f.space + 1
    BY <1>4
  <2>4. Sound(r.fs) /\ r.ok = FALSE
    BY <1>6, <2>2, <2>3, Stopped
  <2> QED  BY <2>4
<1>7. ASSUME ~(grown > f.space), r = Ok(g)
      PROVE  Sound(r.fs) /\ r.ok \in BOOLEAN
  <2> DEFINE total == held + grown
             n == [f.node[dir] EXCEPT !.entries = new, !.clusters = total]
  <2>1. /\ n \in Node /\ n.entries = new /\ n.clusters = total
        /\ n.used = f.node[dir].used /\ n.type = f.node[dir].type
    <3>1. total \in Nat
      BY <1>1, <1>3
    <3> HIDE DEF total
    <3> QED  BY <1>1, <1>2, <3>1 DEF Node
  <2>2. f.space - grown \in Nat
    BY <1>1, <1>3, <1>7
  <2>3. g = [f EXCEPT !.node[dir] = n, !.space = f.space - grown]
    BY <1>1 DEF Table
  <2> HIDE DEF n
  <2>4. /\ g \in Table /\ g.node[dir] = n /\ g.space = f.space - grown
        /\ \A i \in Inodes : i # dir => g.node[i] = f.node[i]
    <3> HIDE DEF g
    <3> QED  BY <1>1, <2>1, <2>2, <2>3 DEF Table
  <2> HIDE DEF g
  <2>5. g.space + g.node[dir].clusters <= f.space + f.node[dir].clusters
    BY <1>1, <1>3, <2>1, <2>4
  <2>6. dir = Root => RootStays(g)
    BY <1>1, <1>3, <2>1, <2>4 DEF Sound, RootStays
  <2>7. Sound(g)
    BY <2>1, <2>4, <2>5, <2>6, OneChanges
  <2> QED  BY <1>7, <2>7 DEF Ok
<1> QED  BY <1>5, <1>6, <1>7

--------------------------------------------------------------------------------
(* So does each operation on a directory. *)

LEMMA Results ==
  ASSUME NEW f
  PROVE  /\ Ok(f).ok = TRUE /\ Ok(f).fs = f
         /\ Failed(f).ok = FALSE /\ Failed(f).fs = f
BY DEF Ok, Failed

LEMMA Inserted ==
  ASSUME NEW f, Sound(f), NEW dir \in Inodes, NEW name \in Components,
         NEW i \in Inodes \ {Root}, NEW r \in InsertEntry(f, dir, name, i)
  PROVE  Sound(r.fs) /\ r.ok \in BOOLEAN
<1> DEFINE stuck == \/ name \in {Dot, DotDot}
                    \/ f.node[dir].type # "directory"
                    \/ Holds(f, dir, name)
<1>1. CASE stuck
  <2>1. r = Failed(f)
    BY <1>1 DEF InsertEntry
  <2> QED  BY <2>1, Results
<1>2. CASE ~stuck
  <2>1. r \in SaveEntries(f, dir, Insert(f.node[dir].entries, name, i))
    BY <1>2 DEF InsertEntry
  <2>2. EntryList(f.node[dir].entries)
    BY DEF Sound
  <2>3. EntryList(Insert(f.node[dir].entries, name, i))
    BY <1>2, <2>2, ListInserted
  <2> QED  BY <2>1, <2>3, Saved
<1> QED  BY <1>1, <1>2

\* "." and ".." are not removed.
LEMMA Removed ==
  ASSUME NEW f, Sound(f), NEW dir \in Inodes, NEW name,
         NEW r \in RemoveEntry(f, dir, name)
  PROVE  /\ Sound(r.fs) /\ r.ok \in BOOLEAN
         /\ r.ok => name \notin {Dot, DotDot} /\ Holds(f, dir, name)
<1> DEFINE stuck == name \in {Dot, DotDot} \/ ~Holds(f, dir, name)
           old == f.node[dir].entries
           k == CHOOSE k \in Position(old, name) :
                    \A l \in Position(old, name) : k <= l
<1>1. CASE stuck
  <2>1. r = Failed(f)
    BY <1>1 DEF RemoveEntry
  <2> QED  BY <2>1, Results
<1>2. CASE ~stuck
  <2>1. r \in SaveEntries(f, dir, RemoveAt(old, k))
    BY <1>2, Zenon DEF RemoveEntry
  <2>2. EntryList(old) /\ Position(old, name) # {}
    BY <1>2 DEF Sound, Holds
  <2>3. k \in 1 .. Len(old)
    BY <2>2, FirstOne, ZenonT(60) DEF EntryList
  <2> HIDE DEF k, old
  <2>4. EntryList(RemoveAt(old, k))
    BY <2>2, <2>3, ListRemoved
  <2> QED  BY <1>2, <2>1, <2>4, Saved
<1> QED  BY <1>1, <1>2

LEMMA Updated ==
  ASSUME NEW f, Sound(f), NEW dir \in Inodes, NEW i \in Inodes,
         NEW r \in UpdateEntry(f, dir, DotDot, i)
  PROVE  Sound(r.fs) /\ r.ok \in BOOLEAN
<1> DEFINE old == f.node[dir].entries
           k == CHOOSE k \in Position(old, DotDot) :
                    \A l \in Position(old, DotDot) : k <= l
<1>1. CASE ~Holds(f, dir, DotDot)
  <2>1. r = Failed(f)
    BY <1>1 DEF UpdateEntry
  <2> QED  BY <2>1, Results
<1>2. CASE Holds(f, dir, DotDot)
  <2>1. r \in SaveEntries(f, dir, [old EXCEPT ![k].inode = i])
    BY <1>2, Zenon DEF UpdateEntry
  <2>2. EntryList(old) /\ Position(old, DotDot) # {}
    BY <1>2 DEF Sound, Holds
  <2>3. k \in 1 .. Len(old) /\ old[k].name = DotDot
    BY <2>2, FirstOne, ZenonT(60) DEF EntryList
  <2> HIDE DEF k, old
  <2>4. EntryList([old EXCEPT ![k].inode = i])
    BY <2>2, <2>3, ListUpdated
  <2> QED  BY <2>1, <2>4, Saved
<1> QED  BY <1>1, <1>2

LEMMA DotsMade ==
  ASSUME NEW f, Sound(f), NEW i \in Inodes, NEW parent \in Inodes,
         NEW r \in CreateNew(f, i, parent)
  PROVE  Sound(r.fs) /\ r.ok \in BOOLEAN
<1> DEFINE one == [name |-> Dot, inode |-> i]
           two == [name |-> DotDot, inode |-> parent]
<1>1. Fits(one) /\ Fits(two)
  BY DEF Fits, Entry, Components
<1> HIDE DEF one, two
<1>2. <<one, two>> \in Seq(Entry) /\ \A k \in 1 .. Len(<<one, two>>) : Fits(<<one, two>>[k])
  BY <1>1 DEF Fits
<1>3. EntryList(<<one, two>>)
  BY <1>2, ListElements
<1>4. r \in SaveEntries(f, i, <<one, two>>)
  BY Zenon DEF CreateNew, one, two
<1> QED  BY <1>3, <1>4, Saved

\* The links that are made, and those that are moved, have targets of
\* components.
Targets == [absolute : BOOLEAN, path : Seq(Components)]

LEMMA GivenTargets == LinkTargets \subseteq Targets
BY NamespaceAssumption DEF Targets

LEMMA TargetWritten ==
  ASSUME NEW f, Sound(f), NEW i \in Inodes \ {Root}, f.node[i].clusters = 0,
         NEW target \in Targets, NEW r \in WriteTarget(f, i, target)
  PROVE  Sound(r.fs) /\ r.ok \in BOOLEAN
<1> DEFINE less == [f EXCEPT !.space = @ - 1]
           n == [f.node[i] EXCEPT !.clusters = 1, !.target = target]
           g == [f EXCEPT !.space = @ - 1, !.node[i].clusters = 1,
                          !.node[i].target = target]
<1>1. /\ f \in Table /\ f.space \in Nat /\ f.node[i] \in Node
      /\ EntryList(f.node[i].entries)
  BY TableCounts DEF Sound
<1>2. \/ r = Failed(f)
      \/ f.space # 0 /\ r = Ok(g)
      \/ f.space # 0 /\ r = Failed(less)
  <2> HIDE DEF g, less
  <2> DEFINE a == IF f.space = 0 THEN {Failed(f)} ELSE {Ok(g)}
             b == IF WriteFaults /\ f.space > 0 THEN {Failed(f), Failed(less)} ELSE {}
  <2>1. r \in a \cup b
    BY Zenon DEF WriteTarget, g, less
  <2>2. r \in a => r = Failed(f) \/ (f.space # 0 /\ r = Ok(g))
    OBVIOUS
  <2>3. r \in b => r = Failed(f) \/ (f.space # 0 /\ r = Failed(less))
    BY <1>1
  <2> HIDE DEF a, b
  <2> QED  BY <2>1, <2>2, <2>3
<1>3. ASSUME f.space # 0
      PROVE  Sound(g)
  <2>1. /\ n \in Node /\ n.entries = f.node[i].entries /\ n.clusters = 1
    BY <1>1 DEF Node, Targets
  <2>2. f.space - 1 \in Nat
    BY <1>1, <1>3
  <2>3. g = [f EXCEPT !.node[i] = n, !.space = f.space - 1]
    BY <1>1 DEF Table
  <2> HIDE DEF n
  <2>4. /\ g \in Table /\ g.node[i] = n /\ g.space = f.space - 1
        /\ \A j \in Inodes : j # i => g.node[j] = f.node[j]
    <3> HIDE DEF g
    <3> QED  BY <1>1, <2>1, <2>2, <2>3 DEF Table
  <2> HIDE DEF g
  <2>5. g.space + g.node[i].clusters <= f.space + f.node[i].clusters
    BY <1>1, <2>1, <2>4
  <2> QED  BY <1>1, <2>1, <2>4, <2>5, OneChanges
<1>4. ASSUME f.space # 0
      PROVE  Sound(less)
  <2>1. f.space - 1 \in Nat
    BY <1>1, <1>4
  <2>2. /\ less \in Table /\ less.space = f.space - 1 /\ less.node = f.node
    BY <1>1, <2>1 DEF Table
  <2> HIDE DEF less
  <2>3. less.space + less.node[i].clusters <= f.space + f.node[i].clusters
    BY <1>1, <2>2
  <2> QED  BY <1>1, <2>2, <2>3, OneChanges
<1> HIDE DEF g, less
<1> QED  BY <1>2, <1>3, <1>4, Results, ZenonT(60)

--------------------------------------------------------------------------------
(* And so does each call. *)

LEMMA Given ==
  ASSUME NEW path \in ProperPath
  PROVE  path \in Seq(Components) /\ Last(path) \in Components
<1>1. path \in Seq(Components) /\ path # << >>
  BY DEF ProperPath
<1> QED  BY <1>1 DEF Last

LEMMA FileCreated ==
  ASSUME Sound(fs), NEW path \in ProperPath, NEW r \in CreateFile(path)
  PROVE  Sound(r.fs) /\ (r.ok => r.inode \in Inodes \ {Root})
<1> DEFINE parent == ParentOf(fs, path)
           i == AllocateInode(fs)
<1>1. CASE parent = NoInode \/ i = NoInode
  <2>1. r = [ok |-> FALSE, fs |-> fs, inode |-> NoInode]
    BY <1>1, Zenon DEF CreateFile
  <2>2. r.ok = FALSE /\ r.fs = fs
    BY <2>1
  <2> QED  BY <2>2
<1>2. CASE ~(parent = NoInode \/ i = NoInode)
  <2>1. /\ parent \in Inodes /\ i \in Inodes \ {Root} /\ ~fs.node[i].used
        /\ Last(path) \in Components
    BY <1>2, Parent, Allocated, Given
  <2>2. Sound(WithNode(fs, i, "regular"))
    BY <2>1, NodeMade
  <2>3. r \in {[ok |-> s.ok, inode |-> i,
                fs |-> IF s.ok THEN s.fs ELSE FreeInode(s.fs, i)] :
               s \in InsertEntry(WithNode(fs, i, "regular"), parent, Last(path), i)}
    BY <1>2, Zenon DEF CreateFile
  <2> HIDE DEF parent, i
  <2>4. PICK s \in InsertEntry(WithNode(fs, i, "regular"), parent, Last(path), i) :
          r = [ok |-> s.ok, inode |-> i,
               fs |-> IF s.ok THEN s.fs ELSE FreeInode(s.fs, i)]
    BY <2>3
  <2>5. Sound(s.fs) /\ s.ok \in BOOLEAN
    BY <2>1, <2>2, Inserted
  <2>6. Sound(FreeInode(s.fs, i))
    BY <2>1, <2>5, InodeFreed
  <2>7. r.inode = i /\ (r.fs = s.fs \/ r.fs = FreeInode(s.fs, i))
    BY <2>4
  <2> QED  BY <2>1, <2>5, <2>6, <2>7
<1> QED  BY <1>1, <1>2

LEMMA Opened ==
  ASSUME IInv, NEW f, Sound(f), NEW i \in Inodes, NEW truncate \in BOOLEAN,
         OpenInode(f, i, truncate)
  PROVE  IInv'
<1>1. CASE f.node[i].type # "regular"
  <2>1. fs' = f /\ opened' = opened
    BY <1>1, Zenon DEF OpenInode
  <2> QED  BY <2>1 DEF IInv
<1>2. CASE f.node[i].type = "regular"
  <2> DEFINE free == {d \in Descriptors : opened[d] = NoInode}
             d == CHOOSE d \in free : \A e \in free : d <= e
  <2>1. /\ fs' = IF truncate THEN Truncate(f, i) ELSE f
        /\ opened' = opened \/ opened' = [opened EXCEPT ![d] = i]
    BY <1>2, Zenon DEF OpenInode
  <2> HIDE DEF d
  <2>2. i # Root
    BY <1>2 DEF Sound, RootStays
  <2>3. Sound(Truncate(f, i))
    BY <2>2, Truncated
  <2>4. Sound(fs')
    BY <2>1, <2>3
  <2>5. opened' \in [Descriptors -> Inodes \cup {NoInode}]
    BY <2>1 DEF IInv
  <2>6. \A g : g = fs' /\ Sound(g) => Sound(fs)'
    BY DEF Sound, RootStays, Accounted
  <2> QED  BY <2>4, <2>5, <2>6 DEF IInv
<1> QED  BY <1>1, <1>2

LEMMA DirectoryMade ==
  ASSUME NEW f, Sound(f), NEW path \in ProperPath, NEW r \in MakeDirectory(f, path)
  PROVE  Sound(r.fs)
<1> DEFINE parent == ParentOf(f, path)
           i == AllocateInode(f)
           made == WithNode(f, i, "directory")
           entered(s) == IF s.ok THEN InsertEntry(s.fs, parent, Last(path), i)
                         ELSE {Failed(FreeInode(s.fs, i))}
<1>1. CASE parent = NoInode \/ i = NoInode
  <2>1. r = Failed(f)
    BY <1>1, Zenon DEF MakeDirectory
  <2> QED  BY <2>1, Results
<1>2. CASE ~(parent = NoInode \/ i = NoInode)
  <2>1. /\ parent \in Inodes /\ i \in Inodes \ {Root} /\ ~f.node[i].used
        /\ Last(path) \in Components
    BY <1>2, Parent, Allocated, Given
  <2>2. Sound(made)
    BY <2>1, NodeMade
  <2>3. r \in UNION {entered(s) : s \in CreateNew(made, i, parent)}
    BY <1>2, Zenon DEF MakeDirectory
  <2> HIDE DEF parent, i, made
  <2>4. PICK s \in CreateNew(made, i, parent) : r \in entered(s)
    BY <2>3, Zenon
  <2>5. Sound(s.fs) /\ s.ok \in BOOLEAN
    BY <2>1, <2>2, DotsMade
  <2>6. CASE s.ok
    BY <2>1, <2>4, <2>5, <2>6, Inserted
  <2>7. CASE ~s.ok
    <3>1. r = Failed(FreeInode(s.fs, i))
      BY <2>4, <2>7
    <3>2. Sound(FreeInode(s.fs, i))
      BY <2>1, <2>5, InodeFreed
    <3> QED  BY <3>1, <3>2, Results
  <2> QED  BY <2>6, <2>7
<1> QED  BY <1>1, <1>2

LEMMA SymlinkMade ==
  ASSUME NEW f, Sound(f), NEW target \in Targets, NEW path \in ProperPath,
         NEW r \in MakeSymlink(f, target, path)
  PROVE  Sound(r.fs)
<1> DEFINE parent == ParentOf(f, path)
           i == AllocateInode(f)
           made == WithNode(f, i, "symlink")
           entered(s) == {IF t.ok THEN t ELSE Failed(TruncateAndFree(t.fs, i)) :
                          t \in InsertEntry(s.fs, parent, Last(path), i)}
           after(s) == IF s.ok THEN entered(s) ELSE {Failed(FreeInode(s.fs, i))}
           stuck == parent = NoInode \/ Holds(f, parent, Last(path)) \/ i = NoInode
<1>1. CASE stuck
  <2>1. r = Failed(f)
    BY <1>1, Zenon DEF MakeSymlink
  <2> QED  BY <2>1, Results
<1>2. CASE ~stuck
  <2>1. /\ parent \in Inodes /\ i \in Inodes \ {Root} /\ ~f.node[i].used
        /\ Last(path) \in Components
    BY <1>2, Parent, Allocated, Given
  <2>2. Sound(made) /\ made.node[i].clusters = 0
    <3>1. f \in [node : [Inodes -> Node], space : Nat]
      BY DEF Sound, Table
    <3> HIDE DEF i
    <3>2. made.node[i] = [FreeNode EXCEPT !.used = TRUE, !.type = "symlink"]
      BY <2>1, <3>1 DEF WithNode
    <3>3. [FreeNode EXCEPT !.used = TRUE, !.type = "symlink"].clusters = 0
      BY DEF FreeNode
    <3> HIDE DEF made
    <3>4. made.node[i].clusters = 0
      BY <3>2, <3>3
    <3>5. Sound(made)
      BY <2>1, NodeMade DEF made
    <3> QED  BY <3>4, <3>5
  <2>3. r \in UNION {after(s) : s \in WriteTarget(made, i, target)}
    BY <1>2, Zenon DEF MakeSymlink
  <2> HIDE DEF parent, i, made
  <2>4. PICK s \in WriteTarget(made, i, target) : r \in after(s)
    BY <2>3, Zenon
  <2>5. target \in Targets
    OBVIOUS
  <2>6. Sound(s.fs) /\ s.ok \in BOOLEAN
    BY <2>1, <2>2, <2>5, TargetWritten
  <2>7. CASE s.ok
    <3>1. PICK t \in InsertEntry(s.fs, parent, Last(path), i) :
            r = IF t.ok THEN t ELSE Failed(TruncateAndFree(t.fs, i))
      BY <2>4, <2>7
    <3>2. Sound(t.fs) /\ t.ok \in BOOLEAN
      BY <2>1, <2>6, Inserted
    <3>3. Sound(TruncateAndFree(t.fs, i))
      BY <2>1, <3>2, TruncatedAndFreed
    <3> QED  BY <3>1, <3>2, <3>3, Results
  <2>8. CASE ~s.ok
    <3>1. r = Failed(FreeInode(s.fs, i))
      BY <2>4, <2>8
    <3>2. Sound(FreeInode(s.fs, i))
      BY <2>1, <2>6, InodeFreed
    <3> QED  BY <3>1, <3>2, Results
  <2> QED  BY <2>7, <2>8
<1> QED  BY <1>1, <1>2

LEMMA Reparented ==
  ASSUME NEW f, Sound(f), NEW i \in Inodes, NEW parent \in Inodes,
         NEW r \in Reparent(f, i, parent)
  PROVE  Sound(r.fs) /\ r.ok \in BOOLEAN
<1>1. CASE f.node[i].type = "directory"
  BY <1>1, Updated DEF Reparent
<1>2. CASE f.node[i].type # "directory"
  <2>1. r = Ok(f)
    BY <1>2 DEF Reparent
  <2> QED  BY <2>1, Results
<1> QED  BY <1>1, <1>2

LEMMA Relinked ==
  ASSUME NEW f, Sound(f), NEW i \in Inodes, NEW from, NEW to,
         NEW r \in Relink(f, i, from, to)
  PROVE  Sound(r.fs) /\ r.ok \in BOOLEAN
<1> DEFINE moved == /\ f.node[i].type = "symlink"
                    /\ from # to
                    /\ ~f.node[i].target.absolute
<1>1. CASE ~moved
  <2>1. r = Ok(f)
    BY <1>1 DEF Relink
  <2> QED  BY <2>1, Results
<1>2. CASE moved
  <2> DEFINE target == f.node[i].target
             cut == Truncate(f, i)
             empty == [cut EXCEPT !.node[i].target = NoTarget]
             longer == [target EXCEPT !.path = <<DotDot>> \o @]
  <2>1. i # Root
    BY <1>2 DEF Sound, RootStays
  <2>2. f \in Table /\ f.node[i] \in Node /\ f.space \in Nat
    BY TableCounts DEF Sound
  <2>3. longer \in Targets
    <3>1. target \in Targets
      BY <2>2 DEF Node, Targets
    <3>2. <<DotDot>> \in Seq(Components)
      BY DEF Components
    <3>3. <<DotDot>> \o target.path \in Seq(Components)
      BY <3>1, <3>2, ConcatProperties DEF Targets
    <3> HIDE DEF target
    <3> QED  BY <3>1, <3>3 DEF Targets
  <2>4. Sound(cut)
    BY <2>1, Truncated
  <2>5. cut \in Table /\ cut.node[i] \in Node /\ cut.node[i].clusters = 0
    <3>1. cut \in Table /\ cut.node[i] \in Node
      BY <2>4, TableCounts DEF Sound
    <3>2. cut.node[i].clusters = 0
      BY <2>2 DEF Truncate, Table, Node
    <3> QED  BY <3>1, <3>2
  <2> HIDE DEF cut
  <2> DEFINE n == [cut.node[i] EXCEPT !.target = NoTarget]
  <2>6. /\ n \in Node /\ n.clusters = 0 /\ n.entries = cut.node[i].entries
    <3>1. NoTarget \in Targets
      BY DEF NoTarget, Targets
    <3> QED  BY <2>5, <3>1 DEF Node, Targets
  <2>7. empty = [cut EXCEPT !.node[i] = n]
    BY <2>5 DEF Table
  <2> HIDE DEF n
  <2>8. /\ empty \in Table /\ empty.node[i] = n /\ empty.space = cut.space
        /\ \A j \in Inodes : j # i => empty.node[j] = cut.node[j]
    <3> HIDE DEF empty
    <3> QED  BY <2>5, <2>6, <2>7 DEF Table
  <2>9. r \in WriteTarget(empty, i, longer)
    BY <1>2, Zenon DEF Relink, PrefixTarget, cut
  <2> HIDE DEF empty, longer
  <2>10. Sound(empty)
    <3>1. EntryList(cut.node[i].entries) /\ cut.space \in Nat
      BY <2>4, <2>5 DEF Sound, Table
    <3>2. empty.space + empty.node[i].clusters <= cut.space + cut.node[i].clusters
      BY <2>5, <2>6, <2>8, <3>1
    <3> QED  BY <2>1, <2>4, <2>6, <2>8, <3>1, <3>2, OneChanges
  <2>11. empty.node[i].clusters = 0
    BY <2>6, <2>8
  <2> QED  BY <2>1, <2>3, <2>9, <2>10, <2>11, TargetWritten
<1> QED  BY <1>1, <1>2

LEMMA EntryMoved ==
  ASSUME NEW f, Sound(f), NEW from \in Inodes, NEW old, NEW to \in Inodes,
         NEW new \in Components, NEW i \in Inodes,
         old \notin {Dot, DotDot} => i # Root,
         NEW r \in MoveEntry(f, from, old, to, new, i)
  PROVE  Sound(r.fs)
<1> DEFINE moved(s) == IF s.ok THEN InsertEntry(s.fs, to, new, i) ELSE {s}
<1>1. r \in UNION {moved(s) : s \in RemoveEntry(f, from, old)}
  BY Zenon DEF MoveEntry
<1>2. PICK s \in RemoveEntry(f, from, old) : r \in moved(s)
  BY <1>1, Zenon
<1>3. /\ Sound(s.fs) /\ s.ok \in BOOLEAN
      /\ s.ok => old \notin {Dot, DotDot}
  BY Removed
<1>4. CASE s.ok
  <2>1. r \in InsertEntry(s.fs, to, new, i) /\ i \in Inodes \ {Root}
    BY <1>2, <1>3, <1>4
  <2> QED  BY <1>3, <2>1, Inserted
<1>5. CASE ~s.ok
  BY <1>2, <1>3, <1>5
<1> QED  BY <1>4, <1>5

LEMMA Moved ==
  ASSUME NEW f, Sound(f), NEW old \in ProperPath, NEW new \in ProperPath,
         NEW r \in Renamed(f, old, new)
  PROVE  Sound(r.fs)
<1> DEFINE from == ParentOf(f, old)
           to == ParentOf(f, new)
           i == FindEntry(f, from, Last(old))
           moved(s) == IF s.ok
                       THEN MoveEntry(s.fs, from, Last(old), to, Last(new), i)
                       ELSE {s}
           linked(s) == UNION {moved(t) : t \in Relink(s.fs, i, from, to)}
           after(s) == IF s.ok THEN linked(s) ELSE {s}
<1>1. CASE from = NoInode \/ to = NoInode \/ i = NoInode
  <2>1. r = Failed(f)
    BY <1>1, Zenon DEF Renamed
  <2> QED  BY <2>1, Results
<1>2. CASE ~(from = NoInode \/ to = NoInode \/ i = NoInode)
  <2>1. /\ from \in Inodes /\ to \in Inodes /\ Last(new) \in Components
    BY <1>2, Parent, Given
  <2>2. i \in Inodes /\ (Last(old) \notin {Dot, DotDot} => i # Root)
    BY <1>2, <2>1, Found
  <2>3. r \in UNION {after(s) : s \in Reparent(f, i, to)}
    BY <1>2, Zenon DEF Renamed
  <2> HIDE DEF from, to, i
  <2>4. PICK s \in Reparent(f, i, to) : r \in after(s)
    BY <2>3, Zenon
  <2>5. Sound(s.fs) /\ s.ok \in BOOLEAN
    BY <2>1, <2>2, Reparented
  <2>6. CASE s.ok
    <3>1. r \in linked(s)
      BY <2>4, <2>6
    <3>2. PICK t \in Relink(s.fs, i, from, to) : r \in moved(t)
      BY <3>1, Zenon
    <3>3. Sound(t.fs) /\ t.ok \in BOOLEAN
      BY <2>2, <2>5, Relinked
    <3>4. CASE t.ok
      <4>1. r \in MoveEntry(t.fs, from, Last(old), to, Last(new), i)
        BY <3>2, <3>4
      <4> QED  BY <2>1, <2>2, <3>3, <4>1, EntryMoved
    <3>5. CASE ~t.ok
      BY <3>2, <3>3, <3>5
    <3> QED  BY <3>3, <3>4, <3>5
  <2>7. CASE ~s.ok
    BY <2>4, <2>5, <2>7
  <2> QED  BY <2>5, <2>6, <2>7
<1> QED  BY <1>1, <1>2

\* A call that leaves the descriptors alone.
LEMMA TableStep ==
  ASSUME IInv, NEW f, Sound(f), fs' = f, UNCHANGED opened
  PROVE  IInv'
<1>1. Sound(fs)'
  BY DEF Sound, RootStays, Accounted
<1> QED  BY <1>1 DEF IInv

--------------------------------------------------------------------------------

LEMMA IInvInit == Init => IInv
<1> SUFFICES ASSUME Init PROVE IInv
  OBVIOUS
<1> DEFINE one == [name |-> Dot, inode |-> Root]
           two == [name |-> DotDot, inode |-> Root]
           root == [used |-> TRUE, type |-> "directory",
                    entries |-> << one, two >>, clusters |-> 1, target |-> NoTarget]
           table == [i \in Inodes |-> IF i = Root THEN root ELSE FreeNode]
<1>1. fs = [node |-> table, space |-> Space]
      /\ opened = [d \in Descriptors |-> NoInode]
  BY DEF Init
<1>2. << one, two >> \in Seq(Entry) /\ EntryList(<< one, two >>)
  <2>1. Fits(one) /\ Fits(two)
    BY RootIsInode DEF Fits, Entry, Components
  <2> HIDE DEF one, two
  <2>2. /\ <<one, two>> \in Seq(Entry)
        /\ \A k \in 1 .. Len(<<one, two>>) : Fits(<<one, two>>[k])
    BY <2>1 DEF Fits
  <2> QED  BY <2>2, ListElements
<1> DEFINE list == << one, two >>
<1>3. /\ root \in Node /\ root.entries = << one, two >> /\ root.clusters = 1
      /\ root.used /\ root.type = "directory"
  <2>1. NoTarget \in [absolute : BOOLEAN, path : Seq(Components)]
    BY DEF NoTarget
  <2> HIDE DEF one, two
  <2> QED  BY <1>2, <2>1 DEF Node
<1> HIDE DEF one, two
<1> HIDE DEF root
<1>4. /\ table \in [Inodes -> Node] /\ table[Root] = root
      /\ \A i \in Inodes : i # Root => table[i] = FreeNode
  BY <1>3, FreeIsNode, RootIsInode
<1> HIDE DEF table
<1>5. fs \in Table /\ fs.node = table /\ fs.space = Space
  BY <1>1, <1>4, NamespaceAssumption DEF Table
<1>6. \A i \in Inodes : EntryList(fs.node[i].entries)
  BY <1>2, <1>3, <1>4, <1>5, FreeIsNode
<1>7. RootStays(fs)
  BY <1>3, <1>4, <1>5 DEF RootStays
<1>8. Accounted(fs)
  <2>1. Counts(table)
    BY <1>5, TableCounts
  <2>2. Held(table) = table[Root].clusters
    BY <1>4, <2>1, FreeIsNode, RootIsInode, HeldByOne
  <2> QED  BY <1>3, <1>4, <1>5, <2>2, NamespaceAssumption DEF Accounted
<1>9. opened \in [Descriptors -> Inodes \cup {NoInode}]
  BY <1>1
<1> QED  BY <1>5, <1>6, <1>7, <1>8, <1>9 DEF IInv, Sound

LEMMA IInvOpen ==
  ASSUME IInv, NEW path \in ProperPath, NEW create \in BOOLEAN,
         NEW truncate \in BOOLEAN, Open(path, create, truncate)
  PROVE  IInv'
<1> DEFINE i == ResolvePath(fs, path)
<1>1. i \in Inodes \cup {NoInode} /\ Sound(fs)
  BY Given, Resolved DEF IInv
<1>2. CASE i # NoInode
  <2>1. OpenInode(fs, i, truncate) /\ i \in Inodes
    BY <1>1, <1>2, Zenon DEF Open
  <2> QED  BY <1>1, <2>1, Opened
<1>3. CASE i = NoInode
  <2>1. PICK r \in CreateFile(path) :
          IF r.ok THEN OpenInode(r.fs, r.inode, truncate)
          ELSE fs' = r.fs /\ UNCHANGED opened
    BY <1>3, Zenon DEF Open
  <2>2. Sound(r.fs) /\ (r.ok => r.inode \in Inodes \ {Root})
    BY <1>1, FileCreated
  <2>3. CASE r.ok
    <3>1. OpenInode(r.fs, r.inode, truncate) /\ r.inode \in Inodes
      BY <2>1, <2>2, <2>3
    <3> QED  BY <2>2, <3>1, Opened
  <2>4. CASE ~r.ok
    BY <2>1, <2>2, <2>4, TableStep
  <2> QED  BY <2>3, <2>4
<1> QED  BY <1>2, <1>3

LEMMA IInvWriteFile ==
  ASSUME IInv, NEW d \in Descriptors, WriteFile(d)
  PROVE  IInv'
<1> DEFINE i == opened[d]
           g == [fs EXCEPT !.space = @ - 1, !.node[i].clusters = @ + 1]
<1>1. i \in Inodes /\ fs.space > 0 /\ fs' = g /\ UNCHANGED opened /\ Sound(fs)
  BY Zenon DEF WriteFile, IInv
<1>2. /\ fs \in Table /\ fs.space \in Nat /\ fs.node[i] \in Node
      /\ fs.node[i].clusters \in Nat /\ EntryList(fs.node[i].entries)
  BY <1>1, TableCounts DEF Sound, Counts
<1> HIDE DEF i
<1> DEFINE held == fs.node[i].clusters + 1
           n == [fs.node[i] EXCEPT !.clusters = held]
<1>3. /\ n \in Node /\ n.entries = fs.node[i].entries /\ n.clusters = held
      /\ n.used = fs.node[i].used /\ n.type = fs.node[i].type
  <2>1. held \in Nat
    BY <1>2
  <2> HIDE DEF held
  <2> QED  BY <1>2, <2>1 DEF Node
<1>4. fs.space - 1 \in Nat
  BY <1>1, <1>2
<1>5. g = [fs EXCEPT !.node[i] = n, !.space = fs.space - 1]
  BY <1>1, <1>2 DEF Table
<1> HIDE DEF n
<1>6. /\ g \in Table /\ g.node[i] = n /\ g.space = fs.space - 1
      /\ \A j \in Inodes : j # i => g.node[j] = fs.node[j]
  <2> HIDE DEF g
  <2> QED  BY <1>1, <1>2, <1>3, <1>4, <1>5 DEF Table
<1> HIDE DEF g
<1>7. g.space + g.node[i].clusters <= fs.space + fs.node[i].clusters
  BY <1>2, <1>3, <1>6
<1>8. i = Root => RootStays(g)
  BY <1>1, <1>2, <1>3, <1>6 DEF Sound, RootStays
<1>9. Sound(g)
  BY <1>1, <1>2, <1>3, <1>6, <1>7, <1>8, OneChanges
<1> QED  BY <1>1, <1>9, TableStep

LEMMA IInvRemoveFile ==
  ASSUME IInv, NEW path \in ProperPath, RemoveFile(path)
  PROVE  IInv'
<1> DEFINE parent == ParentOf(fs, path)
           target == FindEntry(fs, parent, Last(path))
<1>1. Sound(fs)
  BY DEF IInv
<1>2. /\ parent # NoInode /\ target # NoInode
      /\ fs.node[target].type # "directory" /\ UNCHANGED opened
      /\ \E r \in RemoveEntry(fs, parent, Last(path)) :
            fs' = IF r.ok THEN TruncateAndFree(r.fs, target) ELSE r.fs
  BY Zenon DEF RemoveFile
<1>3. parent \in Inodes /\ target \in Inodes
  BY <1>1, <1>2, Parent, Found
<1>4. target # Root
  BY <1>1, <1>2 DEF Sound, RootStays
<1> HIDE DEF parent, target
<1>5. PICK r \in RemoveEntry(fs, parent, Last(path)) :
        fs' = IF r.ok THEN TruncateAndFree(r.fs, target) ELSE r.fs
  BY <1>2
<1>6. Sound(r.fs) /\ r.ok \in BOOLEAN
  BY <1>1, <1>3, Removed
<1>7. Sound(TruncateAndFree(r.fs, target))
  BY <1>3, <1>4, <1>6, TruncatedAndFreed
<1> QED  BY <1>2, <1>5, <1>6, <1>7, TableStep

LEMMA IInvRemoveDirectory ==
  ASSUME IInv, NEW path \in ProperPath, RemoveDirectory(path)
  PROVE  IInv'
<1> DEFINE parent == ParentOf(fs, path)
           target == FindEntry(fs, parent, Last(path))
<1>1. Sound(fs)
  BY DEF IInv
<1>2. /\ parent # NoInode /\ target # NoInode /\ UNCHANGED opened
      /\ \E r \in RemoveEntry(fs, parent, Last(path)) :
            fs' = IF r.ok THEN FreeInode(r.fs, target) ELSE r.fs
  BY Zenon DEF RemoveDirectory
<1>3. /\ parent \in Inodes /\ target \in Inodes
      /\ Last(path) \notin {Dot, DotDot} => target # Root
  BY <1>1, <1>2, Parent, Found
<1> HIDE DEF parent, target
<1>4. PICK r \in RemoveEntry(fs, parent, Last(path)) :
        fs' = IF r.ok THEN FreeInode(r.fs, target) ELSE r.fs
  BY <1>2
<1>5. Sound(r.fs) /\ r.ok \in BOOLEAN /\ (r.ok => Last(path) \notin {Dot, DotDot})
  BY <1>1, <1>3, Removed
<1>6. r.ok => Sound(FreeInode(r.fs, target))
  BY <1>3, <1>5, InodeFreed
<1> QED  BY <1>2, <1>4, <1>5, <1>6, TableStep

LEMMA IInvNext == IInv /\ [Next]_vars => IInv'
<1> SUFFICES ASSUME IInv, [Next]_vars PROVE IInv'
  OBVIOUS
<1>1. Sound(fs)
  BY DEF IInv
<1>2. ASSUME NEW path \in ProperPath, NEW create \in BOOLEAN,
             NEW truncate \in BOOLEAN, Open(path, create, truncate)
      PROVE  IInv'
  BY <1>2, IInvOpen
<1>3. ASSUME NEW path \in ProperPath, RemoveFile(path)
      PROVE  IInv'
  BY <1>3, IInvRemoveFile
<1>4. ASSUME NEW path \in ProperPath, RemoveDirectory(path)
      PROVE  IInv'
  BY <1>4, IInvRemoveDirectory
<1>5. ASSUME NEW path \in ProperPath, CreateDirectory(path)
      PROVE  IInv'
  <2>1. PICK r \in MakeDirectory(fs, path) : fs' = r.fs
    BY <1>5 DEF CreateDirectory
  <2>2. UNCHANGED opened
    BY <1>5 DEF CreateDirectory
  <2> QED  BY <1>1, <2>1, <2>2, DirectoryMade, TableStep
<1>6. ASSUME NEW path \in ProperPath, NEW target \in Targets,
             CreateSymlink(target, path)
      PROVE  IInv'
  <2>1. PICK r \in MakeSymlink(fs, target, path) : fs' = r.fs
    BY <1>6 DEF CreateSymlink
  <2>2. UNCHANGED opened
    BY <1>6 DEF CreateSymlink
  <2> QED  BY <1>1, <2>1, <2>2, SymlinkMade, TableStep
<1>7. ASSUME NEW d \in Descriptors, Close(d)
      PROVE  IInv'
  BY <1>7 DEF Close, IInv, Sound, RootStays, Accounted
<1>8. ASSUME NEW d \in Descriptors, WriteFile(d)
      PROVE  IInv'
  BY <1>8, IInvWriteFile
<1>9. ASSUME NEW old \in ProperPath, NEW new \in ProperPath, Rename(old, new)
      PROVE  IInv'
  <2>1. PICK r \in Renamed(fs, old, new) : fs' = r.fs
    BY <1>9 DEF Rename
  <2>2. UNCHANGED opened
    BY <1>9 DEF Rename
  <2> QED  BY <1>1, <2>1, <2>2, Moved, TableStep
<1>10. CASE UNCHANGED vars
  BY <1>10 DEF vars, IInv, Sound, RootStays, Accounted
<1> QED
  BY <1>2, <1>3, <1>4, <1>5, <1>6, <1>7, <1>8, <1>9, <1>10, GivenPaths, GivenTargets
  DEF Next

--------------------------------------------------------------------------------

\* The table keeps its form whatever calls are made, wherever they fail.
THEOREM NamespaceInvariant == Spec => []IInv
<1>1. IInv /\ [Next]_vars => IInv'
  BY IInvNext
<1> QED  BY IInvInit, <1>1, PTL DEF Spec

LEMMA AccountedTypes == IInv => TypeOK /\ SpaceNeverInvented
<1> SUFFICES ASSUME IInv PROVE TypeOK /\ SpaceNeverInvented
  OBVIOUS
<1>1. /\ fs \in Table /\ RootStays(fs) /\ fs.space + Held(fs.node) <= Space + 1
      /\ opened \in [Descriptors -> Inodes \cup {NoInode}]
  BY DEF IInv, Sound, Accounted
<1>2. fs.node \in [Inodes -> Node] /\ fs.space \in Nat /\ Counts(fs.node)
  BY <1>1, TableCounts DEF Table
<1>3. fs.node[Root].clusters <= Held(fs.node) /\ Held(fs.node) \in Nat
      /\ fs.node[Root].clusters \in Nat
  BY <1>2, HeldIsNat, RootIsInode DEF Counts
<1>4. fs.space <= Space
  BY <1>1, <1>2, <1>3, NamespaceAssumption DEF RootStays
<1>5. TypeOK
  BY <1>1, <1>2, <1>4, NamespaceAssumption DEF TypeOK
<1>6. SpaceNeverInvented
  BY <1>1, Zenon DEF SpaceNeverInvented, Held
<1> QED  BY <1>5, <1>6

\* Every inode is of the form of the table, no disk has more free clusters
\* than it had when it was formatted, and every descriptor is on an inode.
THEOREM NamespaceTypes == Spec => []TypeOK
<1> QED  BY NamespaceInvariant, AccountedTypes, PTL

\* No call, however it fails, gives a cluster back twice: the free clusters
\* and those of all inodes are together at most those of the disk.
THEOREM SpaceAlwaysAccounted == Spec => []SpaceNeverInvented
<1> QED  BY NamespaceInvariant, AccountedTypes, PTL

--------------------------------------------------------------------------------
(* Names, while no directory outgrows one cluster: then a directory that   *)
(* could not be written is as it was, and no call disturbs another name.   *)

OneClusterDirectories ==
  IsFiniteSet(Components) /\ Cardinality(Components) <= PerCluster

\* No name twice in a list.
Distinct(s) == \A k, l \in 1 .. Len(s) : s[k].name = s[l].name => k = l

\* A list has an entry for the inode j under a name that is not a dot.
Enters(s, name, j) ==
  /\ name \notin {Dot, DotDot}
  /\ \E k \in 1 .. Len(s) : s[k].name = name /\ s[k].inode = j

\* The same of any name, "." and ".." included.
Has(s, name, j) == \E k \in 1 .. Len(s) : s[k].name = name /\ s[k].inode = j

Leads(f, i, name, j) == Enters(f.node[i].entries, name, j)

\* Every name leads to an inode in use, no two to the same.
Tidy(f) ==
  /\ \A i \in Inodes : Distinct(f.node[i].entries)
  /\ \A i \in Inodes : \A name, j : Leads(f, i, name, j) => f.node[j].used
  /\ \A h, i \in Inodes : \A n, m, j :
        Leads(f, h, n, j) /\ Leads(f, i, m, j) => h = i /\ n = m

\* No name leads to this inode.
Unnamed(f, j) == \A i \in Inodes : \A name : ~Leads(f, i, name, j)

LEMMA Entries ==
  ASSUME NEW f, Sound(f), NEW i \in Inodes
  PROVE  /\ f.node[i].entries \in Seq(Entry)
         /\ \A k \in 1 .. Len(f.node[i].entries) : f.node[i].entries[k] \in Entry
<1>1. f.node[i].entries \in Seq(Entry)
  BY DEF Sound, EntryList
<1> QED  BY <1>1

LEMMA FoundSomewhere ==
  ASSUME NEW f, Sound(f), NEW dir \in Inodes, NEW name, Holds(f, dir, name)
  PROVE  \E k \in 1 .. Len(f.node[dir].entries) :
            /\ f.node[dir].entries[k].name = name
            /\ FindEntry(f, dir, name) = f.node[dir].entries[k].inode
<1> DEFINE entries == f.node[dir].entries
           k == CHOOSE k \in Position(entries, name) :
                    \A l \in Position(entries, name) : k <= l
<1>1. entries \in Seq(Entry) /\ Position(entries, name) # {}
  BY Entries DEF Holds
<1>2. k \in 1 .. Len(entries) /\ entries[k].name = name
  BY <1>1, FirstOne
<1>3. FindEntry(f, dir, name) = entries[k].inode
  BY Zenon DEF FindEntry
<1> HIDE DEF k
<1> QED  BY <1>2, <1>3

\* What is found under a name is what the name leads to, and the other way
\* round.
LEMMA FoundLeads ==
  ASSUME NEW f, Sound(f), NEW dir \in Inodes, NEW name, name \notin {Dot, DotDot},
         Holds(f, dir, name)
  PROVE  Leads(f, dir, name, FindEntry(f, dir, name))
<1>1. \E k \in 1 .. Len(f.node[dir].entries) :
         /\ f.node[dir].entries[k].name = name
         /\ FindEntry(f, dir, name) = f.node[dir].entries[k].inode
  BY FoundSomewhere
<1> QED  BY <1>1 DEF Leads, Enters

LEMMA LeadsFound ==
  ASSUME NEW f, Sound(f), NEW dir \in Inodes, Distinct(f.node[dir].entries),
         NEW name, NEW j, Leads(f, dir, name, j)
  PROVE  /\ j \in Inodes /\ Holds(f, dir, name) /\ FindEntry(f, dir, name) = j
         /\ name \in Components
<1> DEFINE entries == f.node[dir].entries
<1>1. /\ entries \in Seq(Entry)
      /\ \A k \in 1 .. Len(entries) : entries[k] \in Entry
  BY Entries
<1> PICK k \in 1 .. Len(entries) : entries[k].name = name /\ entries[k].inode = j
  BY DEF Leads, Enters
<1>2. k \in Position(entries, name)
  BY <1>1 DEF Position
<1>3. Position(entries, name) # {}
  BY <1>2
<1>4. Holds(f, dir, name)
  BY <1>3, RootIsInode DEF Holds
<1>5. \E l \in 1 .. Len(entries) :
         entries[l].name = name /\ FindEntry(f, dir, name) = entries[l].inode
  BY <1>4, FoundSomewhere
<1>6. FindEntry(f, dir, name) = j
  BY <1>5 DEF Distinct
<1>7. j \in Inodes /\ name \in Components
  BY <1>1 DEF Entry
<1> QED  BY <1>4, <1>6, <1>7

\* A change that enters no inode which has a name, and adds at most one.
Gains(f, g, dir, name, t) ==
  \A i \in Inodes : \A n, j : Leads(g, i, n, j) =>
     /\ g.node[j].used
     /\ \/ Leads(f, i, n, j)
        \/ i = dir /\ n = name /\ j = t /\ Unnamed(f, t)

LEMMA TidyStep ==
  ASSUME NEW f, NEW g, Tidy(f), NEW dir, NEW name, NEW t,
         \A i \in Inodes : Distinct(g.node[i].entries), Gains(f, g, dir, name, t)
  PROVE  /\ Tidy(g)
         /\ \A j : j # t /\ Unnamed(f, j) => Unnamed(g, j)
<1>1. ASSUME NEW h \in Inodes, NEW i \in Inodes, NEW n, NEW m, NEW j,
             Leads(g, h, n, j), Leads(g, i, m, j)
      PROVE  h = i /\ n = m
  BY <1>1 DEF Tidy, Unnamed, Gains
<1>2. \A j : j # t /\ Unnamed(f, j) => Unnamed(g, j)
  BY DEF Unnamed, Gains
<1> QED  BY <1>1, <1>2 DEF Tidy, Gains

\* A change that enters nothing.
LEMMA TidyFewer ==
  ASSUME NEW f, NEW g, Tidy(f),
         \A i \in Inodes : Distinct(g.node[i].entries),
         \A i \in Inodes : \A n, j : Leads(g, i, n, j) =>
            Leads(f, i, n, j) /\ g.node[j].used
  PROVE  /\ Tidy(g)
         /\ \A j : Unnamed(f, j) => Unnamed(g, j)
<1>1. ASSUME NEW h \in Inodes, NEW i \in Inodes, NEW n, NEW m, NEW j,
             Leads(g, h, n, j), Leads(g, i, m, j)
      PROVE  h = i /\ n = m
  BY <1>1 DEF Tidy
<1>2. \A j : Unnamed(f, j) => Unnamed(g, j)
  BY DEF Unnamed
<1> QED  BY <1>1, <1>2 DEF Tidy

\* A list without doubles fits in one cluster.
LEMMA ShortList ==
  ASSUME OneClusterDirectories, NEW s \in Seq(Entry), Distinct(s)
  PROVE  Clusters(s) \in Nat /\ Clusters(s) <= 1
<1>1. Len(s) <= PerCluster
  <2> DEFINE names == [k \in 1 .. Len(s) |-> s[k].name]
  <2>1. SUFFICES ASSUME PerCluster < Len(s) PROVE FALSE
    BY DirectoriesAssumption
  <2>2. /\ IsFiniteSet(1 .. Len(s)) /\ Cardinality(1 .. Len(s)) = Len(s)
    <3>1. Len(s) \in Nat
      OBVIOUS
    <3> HIDE DEF names
    <3>2. IsFiniteSet(1 .. Len(s))
          /\ Cardinality(1 .. Len(s)) = IF 1 > Len(s) THEN 0 ELSE Len(s) - 1 + 1
      BY <3>1, FS_Interval
    <3> QED  BY <3>1, <3>2
  <2>3. IsFiniteSet(Components) /\ Cardinality(Components) <= PerCluster
    BY DEF OneClusterDirectories
  <2>7. Cardinality(Components) \in Nat
    BY <2>3, FS_CardinalityType
  <2>8. Cardinality(Components) < Cardinality(1 .. Len(s))
    BY <2>1, <2>2, <2>3, <2>7, DirectoriesAssumption
  <2>9. \A k \in 1 .. Len(s) : s[k] \in Entry
    OBVIOUS
  <2>4. names \in [1 .. Len(s) -> Components]
    BY <2>9 DEF Entry
  <2> HIDE DEF names
  <2>5. PICK k, l \in 1 .. Len(s) : k # l /\ names[k] = names[l]
    BY <2>2, <2>3, <2>4, <2>8, FS_PigeonHole
  <2>6. s[k].name = s[l].name
    BY <2>5 DEF names
  <2> QED  BY <2>5, <2>6 DEF Distinct
<1> DEFINE n == Len(s) + PerCluster - 1
<1>2. n \in Nat /\ n < 2 * PerCluster /\ PerCluster \in Nat \ {0}
  BY <1>1, DirectoriesAssumption
<1>3. Clusters(s) = n \div PerCluster
  BY DEF Clusters
<1> HIDE DEF n
<1> QED  BY <1>2, <1>3

SameLists(f, g) ==
  \A i \in Inodes : /\ g.node[i].used = f.node[i].used
                    /\ g.node[i].entries = f.node[i].entries

\* What becomes of a directory that is saved: all or nothing.
AllOrNothing(f, dir, new, r) ==
  \/ r.ok = FALSE /\ SameLists(f, r.fs)
  \/ /\ r.ok = TRUE /\ r.fs.node[dir].entries = new
     /\ \A i \in Inodes : r.fs.node[i].used = f.node[i].used
     /\ \A i \in Inodes : i # dir => r.fs.node[i].entries = f.node[i].entries

LEMMA SavedWhole ==
  ASSUME NEW f, Sound(f), NEW dir \in Inodes, NEW new, EntryList(new),
         Clusters(new) <= 1, NEW r \in SaveEntries(f, dir, new)
  PROVE  AllOrNothing(f, dir, new, r)
<1> DEFINE held == f.node[dir].clusters
           grown == IF Clusters(new) > held THEN Clusters(new) - held ELSE 0
           last == IF grown > f.space THEN held + f.space + 1 ELSE Clusters(new)
           g == [f EXCEPT !.node[dir].entries = new,
                          !.node[dir].clusters = held + grown,
                          !.space = @ - grown]
           stops == UNION {StopsAt(f, dir, new, j) : j \in 1 .. last}
           ends == IF grown > f.space THEN {} ELSE {Ok(g)}
<1>1. /\ f \in Table /\ held \in Nat /\ f.space \in Nat
      /\ f.node[dir] \in Node
  BY TableCounts DEF Sound, Counts
<1>2. new \in Seq(Entry) /\ Clusters(new) \in Nat
  BY ClustersTaken DEF EntryList
<1>3. last <= 1
  BY <1>1, <1>2
<1>4. r \in stops \cup ends
  BY Zenon DEF SaveEntries
<1> HIDE DEF ends, last
<1>5. CASE r \in stops
  <2>1. PICK j \in 1 .. last : r \in StopsAt(f, dir, new, j)
    BY <1>5, Zenon
  <2>2. j = 1
    BY <1>1, <1>2, <1>3 DEF last
  <2> DEFINE old == f.node[dir].entries
             h(l) == [f EXCEPT !.node[dir].entries = Overwritten(@, new, 1),
                               !.space = @ - l]
  <2>3. \E l : r = Failed(h(l))
    BY <2>1, <2>2 DEF StopsAt
  <2>4. PICK l : r = Failed(h(l))
    BY <2>3
  <2>5. Overwritten(old, new, 1) = old
    <3>1. old \in Seq(Entry)
      BY Entries
    <3>2. (1 - 1) * PerCluster = 0
      BY DirectoriesAssumption
    <3>3. old = [k \in 1 .. Len(old) |-> old[k]]
      BY <3>1
    <3> HIDE DEF old
    <3>4. \A k \in 1 .. Len(old) : ~(k <= 0)
      BY <3>1
    <3> QED  BY <3>2, <3>3, <3>4 DEF Overwritten
  <2>6. SameLists(f, h(l))
    <3>1. f.node \in [Inodes -> Node]
      BY <1>1 DEF Table
    <3>2. h(l).node = [f.node EXCEPT ![dir].entries = Overwritten(@, new, 1)]
      BY <1>1 DEF Table
    <3>3. h(l).node[dir] = [f.node[dir] EXCEPT !.entries = old]
      BY <2>5, <3>1, <3>2
    <3>4. \A i \in Inodes : i # dir => h(l).node[i] = f.node[i]
      BY <3>1, <3>2
    <3>5. h(l).node[dir].entries = old /\ h(l).node[dir].used = f.node[dir].used
      BY <1>1, <3>3 DEF Node
    <3> QED  BY <3>4, <3>5 DEF SameLists
  <2>7. r.ok = FALSE /\ r.fs = h(l)
    BY <2>4, Results
  <2> QED  BY <2>6, <2>7 DEF AllOrNothing
<1>6. CASE r \in ends
  <2>1. r = Ok(g)
    BY <1>6 DEF ends
  <2>2. r.ok = TRUE /\ r.fs = g
    BY <2>1, Results
  <2>3. f.node \in [Inodes -> Node]
    BY <1>1 DEF Table
  <2> HIDE DEF grown
  <2>4. g.node = [f.node EXCEPT ![dir] =
                      [f.node[dir] EXCEPT !.entries = new, !.clusters = held + grown]]
    BY <1>1 DEF Table
  <2> HIDE DEF g
  <2>5. /\ g.node[dir] = [f.node[dir] EXCEPT !.entries = new, !.clusters = held + grown]
        /\ \A i \in Inodes : i # dir => g.node[i] = f.node[i]
    BY <2>3, <2>4
  <2>6. g.node[dir].entries = new /\ g.node[dir].used = f.node[dir].used
    BY <1>1, <2>5 DEF Node
  <2> QED  BY <2>2, <2>5, <2>6 DEF AllOrNothing
<1> QED  BY <1>4, <1>5, <1>6

LEMMA TidyLists ==
  ASSUME NEW f, Sound(f), NEW g, Tidy(f), SameLists(f, g)
  PROVE  /\ Tidy(g)
         /\ \A j : Unnamed(f, j) => Unnamed(g, j)
<1>1. \A i \in Inodes : \A n, j : Leads(g, i, n, j) => Leads(f, i, n, j)
  BY DEF SameLists, Leads
<1>2. \A i \in Inodes : Distinct(g.node[i].entries)
  BY DEF SameLists, Tidy
<1>3. \A i \in Inodes : \A n, j : Leads(f, i, n, j) => g.node[j].used
  BY LeadsFound DEF Tidy, SameLists
<1> QED  BY <1>1, <1>2, <1>3, TidyFewer

\* An inode is cleared, or taken when no name leads to it.
LEMMA TidyNode ==
  ASSUME NEW f, Sound(f), NEW g, Tidy(f), NEW i \in Inodes,
         \A j \in Inodes : j # i => g.node[j] = f.node[j],
         g.node[i].entries = << >>, g.node[i].used \/ Unnamed(f, i)
  PROVE  /\ Tidy(g)
         /\ \A j : Unnamed(f, j) => Unnamed(g, j)
<1>1. \A n, j : ~Enters(<< >>, n, j)
  BY DEF Enters
<1>2. \A h \in Inodes : \A n, j : Leads(g, h, n, j) => h # i /\ Leads(f, h, n, j)
  BY <1>1 DEF Leads
<1>3. Distinct(<< >>)
  BY DEF Distinct
<1>4. \A h \in Inodes : Distinct(g.node[h].entries)
  BY <1>3 DEF Tidy
<1>5. ASSUME NEW h \in Inodes, NEW n, NEW j, Leads(g, h, n, j)
      PROVE  g.node[j].used
  <2>1. Leads(f, h, n, j) /\ f.node[j].used
    BY <1>2, <1>5 DEF Tidy
  <2>2. j \in Inodes
    BY <2>1, LeadsFound DEF Tidy
  <2>3. j = i => g.node[i].used
    BY <2>1 DEF Unnamed
  <2> QED  BY <2>1, <2>2, <2>3
<1> QED  BY <1>2, <1>4, <1>5, TidyFewer

--------------------------------------------------------------------------------
(* What the changes of a list do to its names. *)

\* A list is made of elements of another one, in which each is found again.
LEMMA DistinctPicked ==
  ASSUME NEW s, Distinct(s), NEW t, NEW at,
         \A k \in 1 .. Len(t) : at[k] \in 1 .. Len(s) /\ t[k] = s[at[k]],
         \A k, l \in 1 .. Len(t) : at[k] = at[l] => k = l
  PROVE  /\ Distinct(t)
         /\ \A n, j : Enters(t, n, j) => Enters(s, n, j)
<1>1. ASSUME NEW k \in 1 .. Len(t), NEW l \in 1 .. Len(t), t[k].name = t[l].name
      PROVE  k = l
  <2>1. s[at[k]].name = s[at[l]].name
    BY <1>1
  <2>2. at[k] = at[l]
    BY <2>1 DEF Distinct
  <2> QED  BY <2>2
<1>2. ASSUME NEW n, NEW j, Enters(t, n, j)
      PROVE  Enters(s, n, j)
  <2>1. PICK k \in 1 .. Len(t) : t[k].name = n /\ t[k].inode = j
    BY <1>2 DEF Enters
  <2>2. at[k] \in 1 .. Len(s) /\ s[at[k]].name = n /\ s[at[k]].inode = j
    BY <2>1
  <2> QED  BY <1>2, <2>2 DEF Enters
<1>3. Distinct(t)
  BY <1>1 DEF Distinct
<1> QED  BY <1>2, <1>3

LEMMA RemoveShape ==
  ASSUME NEW s \in Seq(Entry), NEW k \in 1 .. Len(s)
  PROVE  /\ Len(RemoveAt(s, k)) = Len(s) - 1
         /\ \A l \in 1 .. Len(s) - 1 :
               RemoveAt(s, k)[l] = IF l < k THEN s[l] ELSE s[l + 1]
<1> DEFINE a == SubSeq(s, 1, k - 1)
           b == SubSeq(s, k + 1, Len(s))
           t == RemoveAt(s, k)
<1>1. k \in Int /\ Len(s) \in Nat /\ k >= 1 /\ k <= Len(s)
  OBVIOUS
<1>2. /\ a \in Seq(Entry) /\ Len(a) = k - 1
      /\ \A l \in 1 .. k - 1 : a[l] = s[l]
  <2>1. 1 \in 1 .. Len(s) + 1 /\ k - 1 \in 0 .. Len(s)
    BY <1>1
  <2>2. /\ a \in Seq(Entry)
        /\ Len(a) = IF 1 <= k - 1 THEN k - 1 - 1 + 1 ELSE 0
        /\ \A l \in 1 .. k - 1 - 1 + 1 : a[l] = s[1 + l - 1]
    BY <1>1, <2>1, SubSeqProperties
  <2> HIDE DEF a
  <2> QED  BY <1>1, <2>2
<1>3. /\ b \in Seq(Entry) /\ Len(b) = Len(s) - k
      /\ \A l \in 1 .. Len(s) - k : b[l] = s[k + l]
  <2>1. k + 1 \in 1 .. Len(s) + 1 /\ Len(s) \in 0 .. Len(s)
    BY <1>1
  <2>2. /\ b \in Seq(Entry)
        /\ Len(b) = IF k + 1 <= Len(s) THEN Len(s) - (k + 1) + 1 ELSE 0
        /\ \A l \in 1 .. Len(s) - (k + 1) + 1 : b[l] = s[(k + 1) + l - 1]
    BY <1>1, <2>1, SubSeqProperties
  <2> HIDE DEF b
  <2> QED  BY <1>1, <2>2
<1>4. t = a \o b
  BY DEF RemoveAt
<1> HIDE DEF a, b, t
<1>5. /\ Len(t) = Len(s) - 1
      /\ \A l \in 1 .. Len(s) - 1 : t[l] = IF l <= k - 1 THEN a[l] ELSE b[l - (k - 1)]
  <2>1. /\ Len(t) = Len(a) + Len(b)
        /\ \A l \in 1 .. Len(a) + Len(b) :
              t[l] = IF l <= Len(a) THEN a[l] ELSE b[l - Len(a)]
    BY <1>2, <1>3, <1>4, ConcatProperties
  <2> QED  BY <1>1, <1>2, <1>3, <2>1
<1>6. ASSUME NEW l \in 1 .. Len(s) - 1
      PROVE  t[l] = IF l < k THEN s[l] ELSE s[l + 1]
  <2>1. CASE l < k
    BY <1>1, <1>2, <1>5, <2>1
  <2>2. CASE ~(l < k)
    <3>1. l - (k - 1) \in 1 .. Len(s) - k /\ t[l] = b[l - (k - 1)]
      BY <1>1, <1>5, <2>2
    <3>2. t[l] = s[k + (l - (k - 1))] /\ k + (l - (k - 1)) = l + 1
      BY <1>1, <1>3, <3>1
    <3> QED  BY <2>2, <3>2
  <2> QED  BY <2>1, <2>2
<1> QED  BY <1>5, <1>6 DEF t

LEMMA DistinctRemoved ==
  ASSUME NEW s \in Seq(Entry), Distinct(s), NEW k \in 1 .. Len(s)
  PROVE  LET t == RemoveAt(s, k)
         IN  /\ Distinct(t)
             /\ \A n, j : Enters(t, n, j) => Enters(s, n, j) /\ n # s[k].name
             /\ \A n, j : Has(s, n, j) /\ n # s[k].name => Has(t, n, j)
<1> DEFINE t == RemoveAt(s, k)
           at == [l \in 1 .. Len(t) |-> IF l < k THEN l ELSE l + 1]
<1>1. k \in Int /\ Len(s) \in Nat /\ k >= 1 /\ k <= Len(s)
  OBVIOUS
<1>2. /\ Len(t) = Len(s) - 1
      /\ \A l \in 1 .. Len(s) - 1 : t[l] = IF l < k THEN s[l] ELSE s[l + 1]
  BY RemoveShape
<1> HIDE DEF t
<1>3. \A l \in 1 .. Len(t) : at[l] \in 1 .. Len(s) /\ t[l] = s[at[l]] /\ at[l] # k
  BY <1>1, <1>2
<1>4. \A l, m \in 1 .. Len(t) : at[l] = at[m] => l = m
  BY <1>1, <1>2
<1>5. \A l \in 1 .. Len(s) : l # k => \E m \in 1 .. Len(t) : t[m] = s[l]
  <2> TAKE l \in 1 .. Len(s)
  <2> HAVE l # k
  <2>1. CASE l < k
    <3>1. l \in 1 .. Len(t) /\ t[l] = s[l]
      BY <1>1, <1>2, <2>1
    <3> QED  BY <3>1
  <2>2. CASE l > k
    <3>1. l - 1 \in 1 .. Len(t) /\ t[l - 1] = s[l - 1 + 1] /\ l - 1 + 1 = l
      BY <1>1, <1>2, <2>2
    <3> QED  BY <3>1
  <2> QED  BY <1>1, <2>1, <2>2
<1> HIDE DEF at
<1>6. Distinct(t) /\ \A n, j : Enters(t, n, j) => Enters(s, n, j)
  BY <1>3, <1>4, DistinctPicked
<1>7. ASSUME NEW n, NEW j, Enters(t, n, j)
      PROVE  n # s[k].name
  <2>1. PICK l \in 1 .. Len(t) : t[l].name = n
    BY <1>7 DEF Enters
  <2>2. at[l] \in 1 .. Len(s) /\ s[at[l]].name = n /\ at[l] # k
    BY <1>3, <2>1
  <2> QED  BY <2>2 DEF Distinct
<1>8. ASSUME NEW n, NEW j, Has(s, n, j), n # s[k].name
      PROVE  Has(t, n, j)
  <2>1. PICK l \in 1 .. Len(s) : s[l].name = n /\ s[l].inode = j
    BY <1>8 DEF Has
  <2>2. l # k
    BY <1>8, <2>1
  <2> QED  BY <1>5, <2>1, <2>2 DEF Has
<1> QED  BY <1>6, <1>7, <1>8 DEF t

LEMMA InsertShape ==
  ASSUME NEW s \in Seq(Entry), NEW name \in Components, NEW i \in Inodes
  PROVE  \E p \in 1 .. Len(s) + 1 :
            LET t == Insert(s, name, i)
            IN  /\ Len(t) = Len(s) + 1
                /\ t[p] = [name |-> name, inode |-> i]
                /\ \A l \in 1 .. Len(s) + 1 : l < p => t[l] = s[l]
                /\ \A l \in 1 .. Len(s) + 1 : l > p => t[l] = s[l - 1]
<1> DEFINE before == {k \in DOMAIN s : s[k].name < name}
           p == 1 + Cardinality(before)
           e == [name |-> name, inode |-> i]
           a == SubSeq(s, 1, p - 1)
           b == SubSeq(s, p, Len(s))
           t == a \o <<e>> \o b
<1>1. Len(s) \in Nat /\ DOMAIN s = 1 .. Len(s)
  OBVIOUS
<1>2. Cardinality(before) \in 0 .. Len(s)
  <2>1. IsFiniteSet(1 .. Len(s)) /\ Cardinality(1 .. Len(s)) = Len(s)
    BY <1>1, FS_Interval
  <2>2. before \subseteq 1 .. Len(s)
    BY <1>1
  <2> HIDE DEF before
  <2>3. Cardinality(before) <= Len(s) /\ IsFiniteSet(before)
    BY <2>1, <2>2, FS_Subset
  <2> QED  BY <1>1, <2>3, FS_CardinalityType
<1> HIDE DEF before
<1>3. p \in Int /\ p >= 1 /\ p <= Len(s) + 1
  BY <1>1, <1>2
<1>4. Insert(s, name, i) = t
  BY Zenon DEF Insert, InsertAt, before, p, e
<1> HIDE DEF p
<1>5. /\ Len(a) = p - 1
      /\ \A l \in 1 .. p - 1 : a[l] = s[l]
  <2>1. 1 \in 1 .. Len(s) + 1 /\ p - 1 \in 0 .. Len(s)
    BY <1>1, <1>3
  <2>2. /\ Len(a) = IF 1 <= p - 1 THEN p - 1 - 1 + 1 ELSE 0
        /\ \A l \in 1 .. p - 1 - 1 + 1 : a[l] = s[1 + l - 1]
    BY <1>3, <2>1, SubSeqProperties
  <2> HIDE DEF a
  <2> QED  BY <1>3, <2>2
<1>6. /\ Len(b) = Len(s) - p + 1
      /\ \A l \in 1 .. Len(s) - p + 1 : b[l] = s[p + l - 1]
  <2>1. p \in 1 .. Len(s) + 1 /\ Len(s) \in 0 .. Len(s)
    BY <1>1, <1>3
  <2>2. /\ Len(b) = IF p <= Len(s) THEN Len(s) - p + 1 ELSE 0
        /\ \A l \in 1 .. Len(s) - p + 1 : b[l] = s[p + l - 1]
    BY <1>3, <2>1, SubSeqProperties
  <2> HIDE DEF b
  <2> QED  BY <1>1, <1>3, <2>2
<1>7. a \in Seq(Entry) /\ b \in Seq(Entry)
  BY <1>1, <1>3, SubSeqProperties
<1>8. <<e>> \in Seq(Entry) /\ Len(<<e>>) = 1 /\ <<e>>[1] = e
  BY DEF Entry
<1>9. e.name = name /\ e.inode = i
  OBVIOUS
<1> DEFINE c == <<e>>
           d == a \o c
<1> HIDE DEF a, b, e
<1>10. /\ d \in Seq(Entry) /\ Len(d) = p
       /\ \A l \in 1 .. p : d[l] = IF l <= p - 1 THEN s[l] ELSE e
  <2> HIDE DEF c
  <2>1. c \in Seq(Entry) /\ Len(c) = 1 /\ c[1] = e
    BY <1>8 DEF c
  <2>2. /\ d \in Seq(Entry) /\ Len(d) = Len(a) + Len(c)
        /\ \A l \in 1 .. Len(a) + Len(c) :
              d[l] = IF l <= Len(a) THEN a[l] ELSE c[l - Len(a)]
    BY <1>7, <2>1, ConcatProperties
  <2> HIDE DEF d
  <2>3. \A l \in 1 .. p : ~(l <= p - 1) => l - (p - 1) = 1
    BY <1>3
  <2> QED  BY <1>3, <1>5, <2>1, <2>2, <2>3
<1> HIDE DEF d
<1>11. /\ Len(t) = Len(s) + 1
       /\ \A l \in 1 .. Len(s) + 1 : t[l] = IF l <= p THEN d[l] ELSE b[l - p]
  <2>1. t = d \o b
    BY DEF d, c
  <2> HIDE DEF t
  <2>2. /\ Len(t) = Len(d) + Len(b)
        /\ \A l \in 1 .. Len(d) + Len(b) :
              t[l] = IF l <= Len(d) THEN d[l] ELSE b[l - Len(d)]
    BY <1>7, <1>10, <2>1, ConcatProperties
  <2>3. Len(d) = p /\ Len(b) = Len(s) - p + 1 /\ Len(d) + Len(b) = Len(s) + 1
    BY <1>1, <1>3, <1>6, <1>10
  <2> QED  BY <2>2, <2>3
<1> HIDE DEF t
<1>12. \A l \in 1 .. Len(s) + 1 : l < p => t[l] = s[l]
  BY <1>1, <1>3, <1>10, <1>11
<1>13. ASSUME NEW l \in 1 .. Len(s) + 1, l > p
       PROVE  t[l] = s[l - 1]
  <2>1. l - p \in 1 .. Len(s) - p + 1 /\ t[l] = b[l - p]
    BY <1>1, <1>3, <1>11, <1>13
  <2>2. t[l] = s[p + (l - p) - 1] /\ p + (l - p) - 1 = l - 1
    BY <1>3, <1>6, <2>1
  <2> QED  BY <2>2
<1>14. t[p] = e /\ p \in 1 .. Len(s) + 1
  BY <1>1, <1>3, <1>10, <1>11
<1> QED  BY <1>4, <1>11, <1>12, <1>13, <1>14 DEF e

LEMMA DistinctInserted ==
  ASSUME NEW s \in Seq(Entry), Distinct(s), NEW name \in Components,
         NEW i \in Inodes, \A k \in 1 .. Len(s) : s[k].name # name
  PROVE  LET t == Insert(s, name, i)
         IN  /\ Distinct(t)
             /\ \A n, j : Enters(t, n, j) => Enters(s, n, j) \/ (n = name /\ j = i)
             /\ \A n, j : Has(s, n, j) => Has(t, n, j)
<1> DEFINE t == Insert(s, name, i)
           e == [name |-> name, inode |-> i]
<1>1. PICK p \in 1 .. Len(s) + 1 :
        /\ Len(t) = Len(s) + 1 /\ t[p] = e
        /\ \A l \in 1 .. Len(s) + 1 : l < p => t[l] = s[l]
        /\ \A l \in 1 .. Len(s) + 1 : l > p => t[l] = s[l - 1]
  BY InsertShape
<1> HIDE DEF t
<1>2. Len(s) \in Nat /\ p \in Int /\ e.name = name /\ e.inode = i
  OBVIOUS
<1> HIDE DEF e
<1> DEFINE at == [l \in 1 .. Len(t) |-> IF l < p THEN l ELSE l - 1]
<1>12. \A l \in 1 .. Len(t) : l # p => at[l] \in 1 .. Len(s) /\ t[l] = s[at[l]]
  BY <1>1, <1>2
<1>13. \A l, m \in 1 .. Len(t) : l # p /\ m # p /\ at[l] = at[m] => l = m
  BY <1>1, <1>2
<1>14. t[p] = e /\ p \in 1 .. Len(t)
  BY <1>1
<1> HIDE DEF at
<1>15. ASSUME NEW k \in 1 .. Len(t), NEW l \in 1 .. Len(t), t[k].name = t[l].name
       PROVE  k = l
  <2>1. CASE k # p /\ l # p
    <3>1. s[at[k]].name = s[at[l]].name /\ at[k] \in 1 .. Len(s) /\ at[l] \in 1 .. Len(s)
      BY <1>12, <1>15, <2>1
    <3>2. at[k] = at[l]
      BY <3>1 DEF Distinct
    <3> QED  BY <1>13, <2>1, <3>2
  <2>2. ASSUME k = p, l # p
        PROVE  FALSE
    <3>1. s[at[l]].name = name /\ at[l] \in 1 .. Len(s)
      BY <1>2, <1>12, <1>14, <1>15, <2>2
    <3> QED  BY <3>1
  <2>3. ASSUME k # p, l = p
        PROVE  FALSE
    <3>1. s[at[k]].name = name /\ at[k] \in 1 .. Len(s)
      BY <1>2, <1>12, <1>14, <1>15, <2>3
    <3> QED  BY <3>1
  <2> QED  BY <2>1, <2>2, <2>3
<1>16. ASSUME NEW n, NEW j, Enters(t, n, j)
       PROVE  Enters(s, n, j) \/ (n = name /\ j = i)
  <2>1. PICK l \in 1 .. Len(t) : t[l].name = n /\ t[l].inode = j
    BY <1>16 DEF Enters
  <2>2. CASE l = p
    BY <1>2, <1>14, <2>1, <2>2
  <2>3. CASE l # p
    <3>1. at[l] \in 1 .. Len(s) /\ s[at[l]].name = n /\ s[at[l]].inode = j
      BY <1>12, <2>1, <2>3
    <3> QED  BY <1>16, <3>1 DEF Enters
  <2> QED  BY <2>2, <2>3
<1>17. Distinct(t)
  BY <1>15 DEF Distinct
<1>18. ASSUME NEW n, NEW j, Has(s, n, j)
       PROVE  Has(t, n, j)
  <2>1. PICK l \in 1 .. Len(s) : s[l].name = n /\ s[l].inode = j
    BY <1>18 DEF Has
  <2>2. CASE l < p
    <3>1. l \in 1 .. Len(t) /\ t[l] = s[l]
      BY <1>1, <1>2, <2>2
    <3> QED  BY <2>1, <3>1 DEF Has
  <2>3. CASE l >= p
    <3>1. l + 1 \in 1 .. Len(t) /\ t[l + 1] = s[l + 1 - 1] /\ l + 1 - 1 = l
      BY <1>1, <1>2, <2>3
    <3> QED  BY <2>1, <3>1 DEF Has
  <2> QED  BY <1>2, <2>2, <2>3
<1> QED  BY <1>16, <1>17, <1>18 DEF t

LEMMA DistinctUpdated ==
  ASSUME NEW s \in Seq(Entry), Distinct(s), NEW k \in 1 .. Len(s),
         s[k].name = DotDot, NEW i
  PROVE  LET t == [s EXCEPT ![k].inode = i]
         IN  /\ Distinct(t)
             /\ \A n, j : Enters(t, n, j) <=> Enters(s, n, j)
             /\ \A j : Has(s, Dot, j) => Has(t, Dot, j)
             /\ Has(t, DotDot, i)
<1> DEFINE t == [s EXCEPT ![k].inode = i]
<1>1. \A l \in 1 .. Len(s) : s[l] \in Entry
  OBVIOUS
<1>2. /\ Len(t) = Len(s) /\ \A l \in 1 .. Len(s) : l # k => t[l] = s[l]
      /\ t[k] = [s[k] EXCEPT !.inode = i]
  OBVIOUS
<1>3. t[k].name = DotDot /\ t[k].inode = i
  BY <1>1, <1>2 DEF Entry
<1> HIDE DEF t
<1>4. \A l \in 1 .. Len(s) : t[l].name = s[l].name
  BY <1>2, <1>3
<1>5. Distinct(t)
  BY <1>2, <1>4 DEF Distinct
<1>6. \A n, j : Enters(t, n, j) <=> Enters(s, n, j)
  BY <1>2, <1>4 DEF Enters
<1>7. \A j : Has(s, Dot, j) => Has(t, Dot, j)
  BY <1>2 DEF Has, Dot, DotDot
<1>8. Has(t, DotDot, i)
  BY <1>2, <1>3 DEF Has
<1> QED  BY <1>5, <1>6, <1>7, <1>8 DEF t

--------------------------------------------------------------------------------
(* The operations on a directory keep the names tidy. *)

SameUsed(f, g) == \A i \in Inodes : g.node[i].used = f.node[i].used

\* A new list has the names of the old one, and at most that of a used
\* inode which had none.
Adds(f, dir, new, name, t) ==
  \A n, j : Enters(new, n, j) =>
     \/ Leads(f, dir, n, j)
     \/ n = name /\ j = t /\ Unnamed(f, t) /\ f.node[t].used /\ t \in Inodes

LEMMA SavedTidy ==
  ASSUME OneClusterDirectories, NEW f, Sound(f), Tidy(f), NEW dir \in Inodes,
         NEW new, EntryList(new), Distinct(new), NEW name, NEW t,
         Adds(f, dir, new, name, t), NEW r \in SaveEntries(f, dir, new)
  PROVE  /\ Tidy(r.fs) /\ SameUsed(f, r.fs)
         /\ \A j : Unnamed(f, j) /\ (j # t \/ ~r.ok) => Unnamed(r.fs, j)
<1>1. Clusters(new) <= 1
  BY ShortList DEF EntryList
<1>2. AllOrNothing(f, dir, new, r)
  BY <1>1, SavedWhole
<1>3. ASSUME r.ok = FALSE, SameLists(f, r.fs)
      PROVE  /\ Tidy(r.fs) /\ SameUsed(f, r.fs)
             /\ \A j : Unnamed(f, j) => Unnamed(r.fs, j)
  BY <1>3, TidyLists DEF SameLists, SameUsed
<1>4. ASSUME r.ok = TRUE, r.fs.node[dir].entries = new,
             \A i \in Inodes : r.fs.node[i].used = f.node[i].used,
             \A i \in Inodes : i # dir => r.fs.node[i].entries = f.node[i].entries
      PROVE  /\ Tidy(r.fs) /\ SameUsed(f, r.fs)
             /\ \A j : Unnamed(f, j) /\ j # t => Unnamed(r.fs, j)
  <2> DEFINE g == r.fs
  <2>1. \A i \in Inodes : Distinct(g.node[i].entries)
    BY <1>4 DEF Tidy
  <2>2. ASSUME NEW i \in Inodes, NEW n, NEW j, Leads(g, i, n, j)
        PROVE  /\ g.node[j].used
               /\ \/ Leads(f, i, n, j)
                  \/ i = dir /\ n = name /\ j = t /\ Unnamed(f, t)
    <3>1. \/ Leads(f, i, n, j)
          \/ /\ i = dir /\ n = name /\ j = t /\ Unnamed(f, t)
             /\ f.node[t].used /\ t \in Inodes
      BY <1>4, <2>2 DEF Leads, Adds
    <3>2. Leads(f, i, n, j) => f.node[j].used /\ j \in Inodes
      BY LeadsFound DEF Tidy
    <3> QED  BY <1>4, <3>1, <3>2
  <2> HIDE DEF g
  <2>3. Tidy(g) /\ \A j : j # t /\ Unnamed(f, j) => Unnamed(g, j)
    <3>1. Gains(f, g, dir, name, t)
      BY <2>2 DEF Gains
    <3> QED  BY <2>1, <3>1, TidyStep
  <2>4. SameUsed(f, r.fs)
    BY <1>4 DEF SameUsed
  <2> QED  BY <2>3, <2>4 DEF g
<1> QED  BY <1>2, <1>3, <1>4 DEF AllOrNothing

LEMMA SavedFewer ==
  ASSUME OneClusterDirectories, NEW f, Sound(f), Tidy(f), NEW dir \in Inodes,
         NEW new, EntryList(new), Distinct(new),
         \A n, j : Enters(new, n, j) => Leads(f, dir, n, j),
         NEW r \in SaveEntries(f, dir, new)
  PROVE  /\ Tidy(r.fs) /\ SameUsed(f, r.fs)
         /\ \A j \in Inodes : Unnamed(f, j) => Unnamed(r.fs, j)
<1>1. Adds(f, dir, new, Dot, NoInode)
  BY DEF Adds
<1>2. /\ Tidy(r.fs) /\ SameUsed(f, r.fs)
      /\ \A j : Unnamed(f, j) /\ (j # NoInode \/ ~r.ok) => Unnamed(r.fs, j)
  BY <1>1, SavedTidy
<1> QED  BY <1>2, RootIsInode

LEMMA InsertTidy ==
  ASSUME OneClusterDirectories, NEW f, Sound(f), Tidy(f), NEW dir \in Inodes,
         NEW name \in Components, NEW i \in Inodes \ {Root},
         Unnamed(f, i), f.node[i].used, NEW r \in InsertEntry(f, dir, name, i)
  PROVE  /\ Tidy(r.fs) /\ SameUsed(f, r.fs)
         /\ \A j : Unnamed(f, j) /\ (j # i \/ ~r.ok) => Unnamed(r.fs, j)
<1> DEFINE stuck == \/ name \in {Dot, DotDot}
                    \/ f.node[dir].type # "directory"
                    \/ Holds(f, dir, name)
           old == f.node[dir].entries
           new == Insert(old, name, i)
<1>1. CASE stuck
  <2>1. r = Failed(f)
    BY <1>1 DEF InsertEntry
  <2> QED  BY <2>1, Results DEF SameUsed
<1>2. CASE ~stuck
  <2>1. r \in SaveEntries(f, dir, new)
    BY <1>2 DEF InsertEntry
  <2>2. EntryList(old) /\ Distinct(old) /\ old \in Seq(Entry)
    BY DEF Sound, Tidy, EntryList
  <2>3. EntryList(new)
    BY <1>2, <2>2, ListInserted
  <2>4. \A k \in 1 .. Len(old) : old[k].name # name
    <3>1. ~(Position(old, name) # {})
      BY <1>2, RootIsInode DEF Holds
    <3>2. DOMAIN old = 1 .. Len(old)
      BY <2>2
    <3> QED  BY <3>1, <3>2 DEF Position
  <2> HIDE DEF old
  <2>5. Distinct(new) /\ \A n, j : Enters(new, n, j) =>
                            Enters(old, n, j) \/ (n = name /\ j = i)
    BY <2>2, <2>4, DistinctInserted
  <2> HIDE DEF new
  <2>6. Adds(f, dir, new, name, i)
    BY <2>5 DEF Leads, old, Adds
  <2> QED  BY <2>1, <2>3, <2>5, <2>6, SavedTidy
<1> QED  BY <1>1, <1>2

LEMMA RemoveTidy ==
  ASSUME OneClusterDirectories, NEW f, Sound(f), Tidy(f), NEW dir \in Inodes,
         NEW name, NEW r \in RemoveEntry(f, dir, name)
  PROVE  /\ Tidy(r.fs) /\ SameUsed(f, r.fs)
         /\ \A j \in Inodes : Unnamed(f, j) => Unnamed(r.fs, j)
         /\ r.ok => Unnamed(r.fs, FindEntry(f, dir, name))
<1> DEFINE stuck == name \in {Dot, DotDot} \/ ~Holds(f, dir, name)
           old == f.node[dir].entries
           k == CHOOSE k \in Position(old, name) :
                    \A l \in Position(old, name) : k <= l
           new == RemoveAt(old, k)
<1>1. CASE stuck
  <2>1. r = Failed(f)
    BY <1>1 DEF RemoveEntry
  <2> QED  BY <2>1, Results DEF SameUsed
<1>2. CASE ~stuck
  <2>1. r \in SaveEntries(f, dir, new)
    BY <1>2, Zenon DEF RemoveEntry
  <2>2. EntryList(old) /\ Distinct(old) /\ old \in Seq(Entry) /\ Position(old, name) # {}
    BY <1>2 DEF Sound, Tidy, EntryList, Holds
  <2>3. k \in 1 .. Len(old) /\ old[k].name = name
    BY <2>2, FirstOne
  <2> HIDE DEF k, old
  <2>4. EntryList(new)
    BY <2>2, <2>3, ListRemoved
  <2>5. Distinct(new) /\ \A n, j : Enters(new, n, j) => Enters(old, n, j) /\ n # name
    BY <2>2, <2>3, DistinctRemoved
  <2> HIDE DEF new
  <2>6. \A n, j : Enters(new, n, j) => Leads(f, dir, n, j)
    BY <2>5 DEF Leads, old
  <2>7. /\ Tidy(r.fs) /\ SameUsed(f, r.fs)
        /\ \A j \in Inodes : Unnamed(f, j) => Unnamed(r.fs, j)
    BY <2>1, <2>4, <2>5, <2>6, SavedFewer
  <2>9. ASSUME r.ok
        PROVE  Unnamed(r.fs, FindEntry(f, dir, name))
    <3> DEFINE i == FindEntry(f, dir, name)
    <3>1. Leads(f, dir, name, i)
      BY <1>2, FoundLeads
    <3>2. Clusters(new) <= 1
      BY <2>4, <2>5, ShortList DEF EntryList
    <3>3. /\ r.fs.node[dir].entries = new
          /\ \A h \in Inodes : h # dir => r.fs.node[h].entries = f.node[h].entries
      <4>1. AllOrNothing(f, dir, new, r)
        BY <2>1, <2>4, <3>2, SavedWhole
      <4> QED  BY <2>9, <4>1 DEF AllOrNothing
    <3> HIDE DEF i
    <3>4. ASSUME NEW h \in Inodes, NEW n, Leads(r.fs, h, n, i)
          PROVE  FALSE
      <4>1. Leads(f, h, n, i) /\ (h = dir => n # name)
        BY <2>5, <3>3, <3>4 DEF Leads, old
      <4> QED  BY <3>1, <4>1 DEF Tidy
    <3>5. Unnamed(r.fs, i)
      BY <3>4 DEF Unnamed
    <3> QED  BY <3>5 DEF i
  <2> QED  BY <2>7, <2>9
<1> QED  BY <1>1, <1>2

LEMMA UpdateTidy ==
  ASSUME OneClusterDirectories, NEW f, Sound(f), Tidy(f), NEW dir \in Inodes,
         NEW i \in Inodes, NEW r \in UpdateEntry(f, dir, DotDot, i)
  PROVE  /\ Tidy(r.fs) /\ SameUsed(f, r.fs)
         /\ \A h \in Inodes : \A n, j : Leads(r.fs, h, n, j) <=> Leads(f, h, n, j)
<1> DEFINE old == f.node[dir].entries
           k == CHOOSE k \in Position(old, DotDot) :
                    \A l \in Position(old, DotDot) : k <= l
           new == [old EXCEPT ![k].inode = i]
<1>1. CASE ~Holds(f, dir, DotDot)
  <2>1. r = Failed(f)
    BY <1>1 DEF UpdateEntry
  <2> QED  BY <2>1, Results DEF SameUsed
<1>2. CASE Holds(f, dir, DotDot)
  <2>1. r \in SaveEntries(f, dir, new)
    BY <1>2, Zenon DEF UpdateEntry
  <2>2. EntryList(old) /\ Distinct(old) /\ old \in Seq(Entry) /\ Position(old, DotDot) # {}
    BY <1>2 DEF Sound, Tidy, EntryList, Holds
  <2>3. k \in 1 .. Len(old) /\ old[k].name = DotDot
    BY <2>2, FirstOne, ZenonT(60)
  <2> HIDE DEF k, old
  <2>4. EntryList(new)
    BY <2>2, <2>3, ListUpdated
  <2>5. Distinct(new) /\ \A n, j : Enters(new, n, j) <=> Enters(old, n, j)
    BY <2>2, <2>3, DistinctUpdated
  <2> HIDE DEF new
  <2>6. \A n, j : Enters(new, n, j) => Leads(f, dir, n, j)
    BY <2>5 DEF Leads, old
  <2>7. Tidy(r.fs) /\ SameUsed(f, r.fs)
    BY <2>1, <2>4, <2>5, <2>6, SavedFewer
  <2>8. Clusters(new) <= 1
    BY <2>4, <2>5, ShortList DEF EntryList
  <2>9. \/ SameLists(f, r.fs)
        \/ /\ r.fs.node[dir].entries = new
           /\ \A h \in Inodes : h # dir => r.fs.node[h].entries = f.node[h].entries
    <3>1. AllOrNothing(f, dir, new, r)
      BY <2>1, <2>4, <2>8, SavedWhole
    <3> QED  BY <3>1 DEF AllOrNothing
  <2>10. \A h \in Inodes : \A n, j : Leads(r.fs, h, n, j) <=> Leads(f, h, n, j)
    BY <2>5, <2>9 DEF SameLists, Leads, old
  <2> QED  BY <2>7, <2>10
<1> QED  BY <1>1, <1>2

LEMMA DotsTidy ==
  ASSUME OneClusterDirectories, NEW f, Sound(f), Tidy(f), NEW i \in Inodes,
         NEW parent \in Inodes, NEW r \in CreateNew(f, i, parent)
  PROVE  /\ Tidy(r.fs) /\ SameUsed(f, r.fs)
         /\ \A j \in Inodes : Unnamed(f, j) => Unnamed(r.fs, j)
<1> DEFINE one == [name |-> Dot, inode |-> i]
           two == [name |-> DotDot, inode |-> parent]
           new == <<one, two>>
<1>1. Fits(one) /\ Fits(two) /\ one.name = Dot /\ two.name = DotDot
  BY DEF Fits, Entry, Components
<1>2. r \in SaveEntries(f, i, new)
  BY Zenon DEF CreateNew
<1> HIDE DEF one, two
<1>3. /\ new \in Seq(Entry) /\ Len(new) = 2 /\ new[1] = one /\ new[2] = two
      /\ \A k \in 1 .. Len(new) : Fits(new[k])
  BY <1>1 DEF Fits
<1> HIDE DEF new
<1>4. EntryList(new)
  BY <1>3, ListElements
<1>5. Distinct(new)
  BY <1>1, <1>3 DEF Distinct, Dot, DotDot
<1>6. \A n, j : ~Enters(new, n, j)
  BY <1>1, <1>3 DEF Enters
<1> QED  BY <1>2, <1>4, <1>5, <1>6, SavedFewer

--------------------------------------------------------------------------------
(* And so does each call. *)

LEMMA MadeTidy ==
  ASSUME NEW f, Sound(f), Tidy(f), NEW i \in Inodes, ~f.node[i].used,
         NEW type \in {"regular", "directory", "symlink"}
  PROVE  LET g == WithNode(f, i, type)
         IN  Tidy(g) /\ Unnamed(g, i) /\ g.node[i].used
<1> DEFINE g == WithNode(f, i, type)
           n == [FreeNode EXCEPT !.used = TRUE, !.type = type]
<1>1. f.node \in [Inodes -> Node] /\ f \in Table
  BY DEF Sound, Table
<1>2. n.used /\ n.entries = << >>
  BY DEF FreeNode
<1>3. g = [f EXCEPT !.node[i] = n]
  BY DEF WithNode
<1> HIDE DEF g, n
<1>4. g.node[i] = n /\ \A j \in Inodes : j # i => g.node[j] = f.node[j]
  BY <1>1, <1>3 DEF Table
<1>5. Unnamed(f, i)
  BY DEF Tidy, Unnamed
<1>6. g.node[i].entries = << >> /\ g.node[i].used
  BY <1>2, <1>4
<1>7. Tidy(g) /\ \A j : Unnamed(f, j) => Unnamed(g, j)
  BY <1>4, <1>6, TidyNode
<1> QED  BY <1>5, <1>6, <1>7 DEF g

LEMMA FreedTidy ==
  ASSUME NEW f, Sound(f), Tidy(f), NEW i \in Inodes, Unnamed(f, i)
  PROVE  Tidy(FreeInode(f, i))
<1> DEFINE g == FreeInode(f, i)
<1>1. f.node \in [Inodes -> Node] /\ f \in Table
  BY DEF Sound, Table
<1>2. FreeNode.entries = << >>
  BY DEF FreeNode
<1>3. g = [f EXCEPT !.node[i] = FreeNode]
  BY DEF FreeInode
<1> HIDE DEF g
<1>4. g.node[i] = FreeNode /\ \A j \in Inodes : j # i => g.node[j] = f.node[j]
  BY <1>1, <1>3 DEF Table
<1>5. g.node[i].entries = << >>
  BY <1>2, <1>4
<1>6. Tidy(g)
  BY <1>4, <1>5, TidyNode
<1> QED  BY <1>6 DEF g

\* Only the clusters or the target of an inode change.
LEMMA ListsLeft ==
  ASSUME NEW f, f \in Table, NEW g, NEW i \in Inodes,
         \A j \in Inodes : j # i => g.node[j] = f.node[j],
         g.node[i].entries = f.node[i].entries, g.node[i].used = f.node[i].used
  PROVE  SameLists(f, g)
BY DEF SameLists

LEMMA TruncateLists ==
  ASSUME NEW f, Sound(f), NEW i \in Inodes
  PROVE  SameLists(f, Truncate(f, i))
<1> DEFINE n == [f.node[i] EXCEPT !.clusters = 0]
           sp == f.space + f.node[i].clusters
           g == Truncate(f, i)
<1>1. f \in Table /\ f.node[i] \in Node /\ f.node \in [Inodes -> Node]
  BY TableCounts DEF Sound, Table
<1>2. n.entries = f.node[i].entries /\ n.used = f.node[i].used
  BY <1>1 DEF Node
<1>3. g = [f EXCEPT !.node[i] = n, !.space = sp]
  BY <1>1 DEF Table, Truncate
<1> HIDE DEF g, n, sp
<1>4. g.node[i] = n /\ \A j \in Inodes : j # i => g.node[j] = f.node[j]
  BY <1>1, <1>3 DEF Table
<1>5. SameLists(f, g)
  BY <1>1, <1>2, <1>4, ListsLeft
<1> QED  BY <1>5 DEF g

LEMMA TruncateTidy ==
  ASSUME NEW f, Sound(f), Tidy(f), NEW i \in Inodes
  PROVE  Tidy(Truncate(f, i)) /\ \A j : Unnamed(f, j) => Unnamed(Truncate(f, i), j)
BY TruncateLists, TidyLists

LEMMA TruncateAndFreeTidy ==
  ASSUME NEW f, Sound(f), Tidy(f), NEW i \in Inodes \ {Root}, Unnamed(f, i)
  PROVE  Tidy(TruncateAndFree(f, i))
<1>1. Tidy(Truncate(f, i)) /\ Unnamed(Truncate(f, i), i)
  BY TruncateTidy
<1>2. Sound(Truncate(f, i))
  BY Truncated
<1> QED  BY <1>1, <1>2, FreedTidy DEF TruncateAndFree

LEMMA TargetLists ==
  ASSUME NEW f, f \in Table, NEW i \in Inodes, NEW target,
         NEW r \in WriteTarget(f, i, target)
  PROVE  SameLists(f, r.fs)
<1> DEFINE less == [f EXCEPT !.space = @ - 1]
           n == [f.node[i] EXCEPT !.clusters = 1, !.target = target]
           g == [f EXCEPT !.space = @ - 1, !.node[i].clusters = 1,
                          !.node[i].target = target]
<1>1. f \in Table /\ f.node[i] \in Node /\ f.node \in [Inodes -> Node]
  BY TableCounts DEF Table
<1>2. r = Failed(f) \/ r = Ok(g) \/ r = Failed(less)
  <2> HIDE DEF g, less
  <2> DEFINE a == IF f.space = 0 THEN {Failed(f)} ELSE {Ok(g)}
             b == IF WriteFaults /\ f.space > 0 THEN {Failed(f), Failed(less)} ELSE {}
  <2>1. r \in a \cup b
    BY Zenon DEF WriteTarget, g, less
  <2>2. r \in a => r = Failed(f) \/ r = Ok(g)
    OBVIOUS
  <2>3. r \in b => r = Failed(f) \/ r = Failed(less)
    OBVIOUS
  <2> HIDE DEF a, b
  <2> QED  BY <2>1, <2>2, <2>3
<1>3. SameLists(f, g)
  <2>1. n.entries = f.node[i].entries /\ n.used = f.node[i].used
    BY <1>1 DEF Node
  <2>2. g = [f EXCEPT !.node[i] = n, !.space = @ - 1]
    BY <1>1 DEF Table
  <2> HIDE DEF g, n
  <2>3. g.node[i] = n /\ \A j \in Inodes : j # i => g.node[j] = f.node[j]
    BY <1>1, <2>2 DEF Table
  <2> QED  BY <1>1, <2>1, <2>3, ListsLeft
<1>4. SameLists(f, less)
  <2>1. less.node = f.node
    BY <1>1 DEF Table
  <2> HIDE DEF less
  <2> QED  BY <2>1 DEF SameLists
<1>5. SameLists(f, f)
  BY DEF SameLists
<1> HIDE DEF g, less
<1> QED  BY <1>2, <1>3, <1>4, <1>5, Results

LEMMA FileCreatedTidy ==
  ASSUME OneClusterDirectories, Sound(fs), Tidy(fs), NEW path \in ProperPath,
         NEW r \in CreateFile(path)
  PROVE  Tidy(r.fs)
<1> DEFINE parent == ParentOf(fs, path)
           i == AllocateInode(fs)
           made == WithNode(fs, i, "regular")
<1>1. CASE parent = NoInode \/ i = NoInode
  <2>1. r = [ok |-> FALSE, fs |-> fs, inode |-> NoInode]
    BY <1>1, Zenon DEF CreateFile
  <2>2. r.fs = fs
    BY <2>1
  <2> QED  BY <2>2
<1>2. CASE ~(parent = NoInode \/ i = NoInode)
  <2>1. /\ parent \in Inodes /\ i \in Inodes \ {Root} /\ ~fs.node[i].used
        /\ Last(path) \in Components
    BY <1>2, Parent, Allocated, Given
  <2>2. Sound(made)
    BY <2>1, NodeMade
  <2>3. Tidy(made) /\ Unnamed(made, i) /\ made.node[i].used
    BY <2>1, MadeTidy
  <2>4. r \in {[ok |-> s.ok, inode |-> i,
                fs |-> IF s.ok THEN s.fs ELSE FreeInode(s.fs, i)] :
               s \in InsertEntry(made, parent, Last(path), i)}
    BY <1>2, Zenon DEF CreateFile
  <2> HIDE DEF parent, i, made
  <2>5. PICK s \in InsertEntry(made, parent, Last(path), i) :
          r = [ok |-> s.ok, inode |-> i,
               fs |-> IF s.ok THEN s.fs ELSE FreeInode(s.fs, i)]
    BY <2>4
  <2>6. Sound(s.fs) /\ s.ok \in BOOLEAN
    BY <2>1, <2>2, Inserted
  <2>7. /\ Tidy(s.fs)
        /\ \A j : Unnamed(made, j) /\ (j # i \/ ~s.ok) => Unnamed(s.fs, j)
    BY <2>1, <2>2, <2>3, InsertTidy
  <2>8. ~s.ok => Tidy(FreeInode(s.fs, i))
    BY <2>1, <2>3, <2>6, <2>7, FreedTidy
  <2>9. r.fs = IF s.ok THEN s.fs ELSE FreeInode(s.fs, i)
    BY <2>5
  <2> QED  BY <2>6, <2>7, <2>8, <2>9
<1> QED  BY <1>1, <1>2

LEMMA OpenedTidy ==
  ASSUME NEW f, Sound(f), Tidy(f), NEW i \in Inodes, NEW truncate \in BOOLEAN,
         OpenInode(f, i, truncate)
  PROVE  \E g : Tidy(g) /\ fs' = g
<1> DEFINE free == {d \in Descriptors : opened[d] = NoInode}
           cut == Truncate(f, i)
<1>1. fs' = f \/ fs' = cut
  <2>1. CASE f.node[i].type # "regular"
    BY <2>1, Zenon DEF OpenInode
  <2>2. CASE f.node[i].type = "regular"
    <3>1. fs' = IF truncate THEN cut ELSE f
      BY <2>2, Zenon DEF OpenInode
    <3> QED  BY <3>1
  <2> QED  BY <2>1, <2>2
<1>2. Tidy(cut)
  BY TruncateTidy
<1> HIDE DEF cut
<1> QED  BY <1>1, <1>2

LEMMA DirectoryMadeTidy ==
  ASSUME OneClusterDirectories, NEW f, Sound(f), Tidy(f), NEW path \in ProperPath,
         NEW r \in MakeDirectory(f, path)
  PROVE  Tidy(r.fs)
<1> DEFINE parent == ParentOf(f, path)
           i == AllocateInode(f)
           made == WithNode(f, i, "directory")
           entered(s) == IF s.ok THEN InsertEntry(s.fs, parent, Last(path), i)
                         ELSE {Failed(FreeInode(s.fs, i))}
<1>1. CASE parent = NoInode \/ i = NoInode
  <2>1. r = Failed(f)
    BY <1>1, Zenon DEF MakeDirectory
  <2> QED  BY <2>1, Results
<1>2. CASE ~(parent = NoInode \/ i = NoInode)
  <2>1. /\ parent \in Inodes /\ i \in Inodes \ {Root} /\ ~f.node[i].used
        /\ Last(path) \in Components
    BY <1>2, Parent, Allocated, Given
  <2>2. Sound(made)
    BY <2>1, NodeMade
  <2>3. Tidy(made) /\ Unnamed(made, i) /\ made.node[i].used
    BY <2>1, MadeTidy
  <2>4. r \in UNION {entered(s) : s \in CreateNew(made, i, parent)}
    BY <1>2, Zenon DEF MakeDirectory
  <2> HIDE DEF parent, i, made
  <2>5. PICK s \in CreateNew(made, i, parent) : r \in entered(s)
    BY <2>4, Zenon
  <2>6. Sound(s.fs) /\ s.ok \in BOOLEAN
    BY <2>1, <2>2, DotsMade
  <2>7. /\ Tidy(s.fs) /\ SameUsed(made, s.fs)
        /\ \A j \in Inodes : Unnamed(made, j) => Unnamed(s.fs, j)
    BY <2>1, <2>2, <2>3, DotsTidy
  <2>8. Unnamed(s.fs, i) /\ s.fs.node[i].used
    BY <2>1, <2>3, <2>7 DEF SameUsed
  <2>9. CASE s.ok
    <3>1. r \in InsertEntry(s.fs, parent, Last(path), i)
      BY <2>5, <2>9
    <3> QED  BY <2>1, <2>6, <2>7, <2>8, <3>1, InsertTidy
  <2>10. CASE ~s.ok
    <3>1. r = Failed(FreeInode(s.fs, i))
      BY <2>5, <2>10
    <3>2. Tidy(FreeInode(s.fs, i))
      BY <2>1, <2>6, <2>7, <2>8, FreedTidy
    <3> QED  BY <3>1, <3>2, Results
  <2> QED  BY <2>9, <2>10
<1> QED  BY <1>1, <1>2

LEMMA SymlinkMadeTidy ==
  ASSUME OneClusterDirectories, NEW f, Sound(f), Tidy(f),
         NEW target \in Targets, NEW path \in ProperPath,
         NEW r \in MakeSymlink(f, target, path)
  PROVE  Tidy(r.fs)
<1> DEFINE parent == ParentOf(f, path)
           i == AllocateInode(f)
           made == WithNode(f, i, "symlink")
           entered(s) == {IF t.ok THEN t ELSE Failed(TruncateAndFree(t.fs, i)) :
                          t \in InsertEntry(s.fs, parent, Last(path), i)}
           after(s) == IF s.ok THEN entered(s) ELSE {Failed(FreeInode(s.fs, i))}
           stuck == parent = NoInode \/ Holds(f, parent, Last(path)) \/ i = NoInode
<1>1. CASE stuck
  <2>1. r = Failed(f)
    BY <1>1, Zenon DEF MakeSymlink
  <2> QED  BY <2>1, Results
<1>2. CASE ~stuck
  <2>1. /\ parent \in Inodes /\ i \in Inodes \ {Root} /\ ~f.node[i].used
        /\ Last(path) \in Components
    BY <1>2, Parent, Allocated, Given
  <2>2. Sound(made) /\ made.node[i].clusters = 0
    <3>1. f \in [node : [Inodes -> Node], space : Nat]
      BY DEF Sound, Table
    <3> HIDE DEF i
    <3>2. made.node[i] = [FreeNode EXCEPT !.used = TRUE, !.type = "symlink"]
      BY <2>1, <3>1 DEF WithNode
    <3>3. [FreeNode EXCEPT !.used = TRUE, !.type = "symlink"].clusters = 0
      BY DEF FreeNode
    <3> HIDE DEF made
    <3>4. made.node[i].clusters = 0
      BY <3>2, <3>3
    <3>5. Sound(made)
      BY <2>1, NodeMade DEF made
    <3> QED  BY <3>4, <3>5
  <2>3. Tidy(made) /\ Unnamed(made, i) /\ made.node[i].used
    BY <2>1, MadeTidy
  <2>4. r \in UNION {after(s) : s \in WriteTarget(made, i, target)}
    BY <1>2, Zenon DEF MakeSymlink
  <2> HIDE DEF parent, i, made
  <2>5. PICK s \in WriteTarget(made, i, target) : r \in after(s)
    BY <2>4, Zenon
  <2>6. target \in Targets
    BY NamespaceAssumption DEF Targets
  <2>7. Sound(s.fs) /\ s.ok \in BOOLEAN
    BY <2>1, <2>2, <2>6, TargetWritten
  <2>8. SameLists(made, s.fs)
    <3>1. made \in Table
      BY <2>2 DEF Sound
    <3> QED  BY <2>1, <3>1, TargetLists
  <2>9. Tidy(s.fs) /\ Unnamed(s.fs, i) /\ s.fs.node[i].used
    BY <2>1, <2>2, <2>3, <2>8, TidyLists DEF SameLists
  <2>10. CASE s.ok
    <3>1. PICK t \in InsertEntry(s.fs, parent, Last(path), i) :
            r = IF t.ok THEN t ELSE Failed(TruncateAndFree(t.fs, i))
      BY <2>5, <2>10
    <3>2. Sound(t.fs) /\ t.ok \in BOOLEAN
      BY <2>1, <2>7, Inserted
    <3>3. /\ Tidy(t.fs)
          /\ \A j : Unnamed(s.fs, j) /\ (j # i \/ ~t.ok) => Unnamed(t.fs, j)
      BY <2>1, <2>7, <2>9, InsertTidy
    <3>4. ~t.ok => Tidy(TruncateAndFree(t.fs, i))
      BY <2>1, <2>9, <3>2, <3>3, TruncateAndFreeTidy
    <3> QED  BY <3>1, <3>2, <3>3, <3>4, Results
  <2>11. CASE ~s.ok
    <3>1. r = Failed(FreeInode(s.fs, i))
      BY <2>5, <2>11
    <3>2. Tidy(FreeInode(s.fs, i))
      BY <2>1, <2>7, <2>9, FreedTidy
    <3> QED  BY <3>1, <3>2, Results
  <2> QED  BY <2>10, <2>11
<1> QED  BY <1>1, <1>2

SameLeads(f, g) ==
  \A i \in Inodes : \A n, j : Leads(g, i, n, j) <=> Leads(f, i, n, j)

LEMMA ReparentedTidy ==
  ASSUME OneClusterDirectories, NEW f, Sound(f), Tidy(f), NEW i \in Inodes,
         NEW parent \in Inodes, NEW r \in Reparent(f, i, parent)
  PROVE  Tidy(r.fs) /\ SameLeads(f, r.fs)
<1>1. CASE f.node[i].type = "directory"
  <2>1. r \in UpdateEntry(f, i, DotDot, parent)
    BY <1>1 DEF Reparent
  <2>2. /\ Tidy(r.fs)
        /\ \A h \in Inodes : \A n, j : Leads(r.fs, h, n, j) <=> Leads(f, h, n, j)
    BY <2>1, UpdateTidy
  <2> QED  BY <2>2 DEF SameLeads
<1>2. CASE f.node[i].type # "directory"
  <2>1. r = Ok(f)
    BY <1>2 DEF Reparent
  <2> QED  BY <2>1, Results DEF SameLeads
<1> QED  BY <1>1, <1>2

LEMMA RelinkedLists ==
  ASSUME NEW f, Sound(f), NEW i \in Inodes, NEW from, NEW to,
         NEW r \in Relink(f, i, from, to)
  PROVE  SameLists(f, r.fs)
<1> DEFINE moved == /\ f.node[i].type = "symlink"
                    /\ from # to
                    /\ ~f.node[i].target.absolute
<1>1. CASE ~moved
  <2>1. r = Ok(f)
    BY <1>1 DEF Relink
  <2> QED  BY <2>1, Results DEF SameLists
<1>2. CASE moved
  <2> DEFINE cut == Truncate(f, i)
             n == [cut.node[i] EXCEPT !.target = NoTarget]
             empty == [cut EXCEPT !.node[i].target = NoTarget]
             longer == [f.node[i].target EXCEPT !.path = <<DotDot>> \o @]
  <2>1. i # Root
    BY <1>2 DEF Sound, RootStays
  <2>2. SameLists(f, cut)
    BY TruncateLists
  <2>3. Sound(cut)
    BY <2>1, Truncated
  <2> HIDE DEF cut
  <2>4. cut \in Table /\ cut.node[i] \in Node /\ cut.node \in [Inodes -> Node]
    BY <2>3, TableCounts DEF Sound, Table
  <2>5. n \in Node /\ n.entries = cut.node[i].entries /\ n.used = cut.node[i].used
    <3>1. NoTarget \in Targets
      BY DEF NoTarget, Targets
    <3> QED  BY <2>4, <3>1 DEF Node, Targets
  <2>6. empty = [cut EXCEPT !.node[i] = n]
    BY <2>4 DEF Table
  <2>7. r \in WriteTarget(empty, i, longer)
    BY <1>2, Zenon DEF Relink, PrefixTarget, cut
  <2> HIDE DEF empty, n, longer
  <2>8. /\ empty \in Table /\ empty.node[i] = n
        /\ \A j \in Inodes : j # i => empty.node[j] = cut.node[j]
    <3> DEFINE nodes == [cut.node EXCEPT ![i] = n]
    <3>1. /\ nodes \in [Inodes -> Node] /\ nodes[i] = n
          /\ \A j \in Inodes : j # i => nodes[j] = cut.node[j]
      BY <2>4, <2>5
    <3>2. empty = [cut EXCEPT !.node = nodes]
      BY <2>4, <2>6 DEF Table
    <3> HIDE DEF nodes
    <3>3. empty \in Table /\ empty.node = nodes
      BY <2>4, <3>1, <3>2 DEF Table
    <3> QED  BY <3>1, <3>3
  <2>9. SameLists(cut, empty)
    BY <2>4, <2>5, <2>8, ListsLeft
  <2>10. SameLists(empty, r.fs)
    BY <2>7, <2>8, TargetLists
  <2> QED  BY <2>2, <2>9, <2>10 DEF SameLists
<1> QED  BY <1>1, <1>2

LEMMA EntryMovedTidy ==
  ASSUME OneClusterDirectories, NEW f, Sound(f), Tidy(f), NEW from \in Inodes,
         NEW old, NEW to \in Inodes, NEW new \in Components, NEW i \in Inodes,
         old \notin {Dot, DotDot} => i # Root /\ Leads(f, from, old, i),
         NEW r \in MoveEntry(f, from, old, to, new, i)
  PROVE  Tidy(r.fs)
<1> DEFINE moved(s) == IF s.ok THEN InsertEntry(s.fs, to, new, i) ELSE {s}
<1>1. r \in UNION {moved(s) : s \in RemoveEntry(f, from, old)}
  BY Zenon DEF MoveEntry
<1>2. PICK s \in RemoveEntry(f, from, old) : r \in moved(s)
  BY <1>1, Zenon
<1>3. /\ Sound(s.fs) /\ s.ok \in BOOLEAN
      /\ s.ok => old \notin {Dot, DotDot}
  BY Removed
<1>4. /\ Tidy(s.fs) /\ SameUsed(f, s.fs)
      /\ s.ok => Unnamed(s.fs, FindEntry(f, from, old))
  BY RemoveTidy
<1>5. CASE s.ok
  <2>1. r \in InsertEntry(s.fs, to, new, i)
    BY <1>2, <1>5
  <2>2. i \in Inodes \ {Root} /\ Leads(f, from, old, i)
    BY <1>3, <1>5
  <2>3. FindEntry(f, from, old) = i /\ f.node[i].used
    BY <2>2, LeadsFound DEF Tidy
  <2>4. Unnamed(s.fs, i) /\ s.fs.node[i].used
    BY <1>4, <1>5, <2>3 DEF SameUsed
  <2> QED  BY <1>3, <1>4, <2>1, <2>2, <2>4, InsertTidy
<1>6. CASE ~s.ok
  BY <1>2, <1>4, <1>6
<1> QED  BY <1>5, <1>6

LEMMA MovedTidy ==
  ASSUME OneClusterDirectories, NEW f, Sound(f), Tidy(f), NEW old \in ProperPath,
         NEW new \in ProperPath, NEW r \in Renamed(f, old, new)
  PROVE  Tidy(r.fs)
<1> DEFINE from == ParentOf(f, old)
           to == ParentOf(f, new)
           i == FindEntry(f, from, Last(old))
           moved(s) == IF s.ok
                       THEN MoveEntry(s.fs, from, Last(old), to, Last(new), i)
                       ELSE {s}
           linked(s) == UNION {moved(t) : t \in Relink(s.fs, i, from, to)}
           after(s) == IF s.ok THEN linked(s) ELSE {s}
<1>1. CASE from = NoInode \/ to = NoInode \/ i = NoInode
  <2>1. r = Failed(f)
    BY <1>1, Zenon DEF Renamed
  <2> QED  BY <2>1, Results
<1>2. CASE ~(from = NoInode \/ to = NoInode \/ i = NoInode)
  <2>1. /\ from \in Inodes /\ to \in Inodes /\ Last(new) \in Components
    BY <1>2, Parent, Given
  <2>2. i \in Inodes /\ (Last(old) \notin {Dot, DotDot} => i # Root)
    BY <1>2, <2>1, Found
  <2>3. Last(old) \notin {Dot, DotDot} => Leads(f, from, Last(old), i)
    <3>1. Holds(f, from, Last(old))
      BY <1>2 DEF FindEntry
    <3> QED  BY <2>1, <3>1, FoundLeads
  <2>4. r \in UNION {after(s) : s \in Reparent(f, i, to)}
    BY <1>2, Zenon DEF Renamed
  <2> HIDE DEF from, to, i
  <2>5. PICK s \in Reparent(f, i, to) : r \in after(s)
    BY <2>4, Zenon
  <2>6. Sound(s.fs) /\ s.ok \in BOOLEAN
    BY <2>1, <2>2, Reparented
  <2>7. Tidy(s.fs) /\ SameLeads(f, s.fs)
    BY <2>1, <2>2, ReparentedTidy
  <2>8. CASE s.ok
    <3>1. r \in linked(s)
      BY <2>5, <2>8
    <3>2. PICK t \in Relink(s.fs, i, from, to) : r \in moved(t)
      BY <3>1, Zenon
    <3>3. Sound(t.fs) /\ t.ok \in BOOLEAN
      BY <2>2, <2>6, Relinked
    <3>4. SameLists(s.fs, t.fs)
      BY <2>2, <2>6, RelinkedLists
    <3>5. Tidy(t.fs)
      BY <2>6, <2>7, <3>4, TidyLists
    <3>6. Last(old) \notin {Dot, DotDot} => i # Root /\ Leads(t.fs, from, Last(old), i)
      <4>1. Leads(f, from, Last(old), i) => Leads(s.fs, from, Last(old), i)
        BY <2>1, <2>7 DEF SameLeads
      <4>2. Leads(s.fs, from, Last(old), i) => Leads(t.fs, from, Last(old), i)
        BY <2>1, <3>4 DEF SameLists, Leads
      <4> QED  BY <2>2, <2>3, <4>1, <4>2
    <3>7. CASE t.ok
      <4>1. r \in MoveEntry(t.fs, from, Last(old), to, Last(new), i)
        BY <3>2, <3>7
      <4> QED  BY <2>1, <2>2, <3>3, <3>5, <3>6, <4>1, EntryMovedTidy
    <3>8. CASE ~t.ok
      BY <3>2, <3>5, <3>8
    <3> QED  BY <3>3, <3>7, <3>8
  <2>9. CASE ~s.ok
    BY <2>5, <2>7, <2>9
  <2> QED  BY <2>6, <2>8, <2>9
<1> QED  BY <1>1, <1>2

LEMMA TidyAfter ==
  ASSUME NEW f, Tidy(f), fs' = f
  PROVE  Tidy(fs)'
BY DEF Tidy, Leads, Enters, Distinct

LEMMA TidyInit == Init => Tidy(fs)
<1> SUFFICES ASSUME Init PROVE Tidy(fs)
  OBVIOUS
<1> DEFINE one == [name |-> Dot, inode |-> Root]
           two == [name |-> DotDot, inode |-> Root]
           root == [used |-> TRUE, type |-> "directory",
                    entries |-> << one, two >>, clusters |-> 1, target |-> NoTarget]
           table == [i \in Inodes |-> IF i = Root THEN root ELSE FreeNode]
<1>1. fs = [node |-> table, space |-> Space]
  BY DEF Init
<1>2. one.name = Dot /\ two.name = DotDot
  OBVIOUS
<1>3. root.entries = << one, two >> /\ FreeNode.entries = << >>
  BY DEF FreeNode
<1> HIDE DEF one, two, root
<1>4. fs.node = table
  BY <1>1
<1>5. \A i \in Inodes : \/ fs.node[i].entries = << one, two >>
                        \/ fs.node[i].entries = << >>
  BY <1>3, <1>4
<1>6. Distinct(<< one, two >>) /\ Distinct(<< >>)
  BY <1>2 DEF Distinct, Dot, DotDot
<1>7. \A n, j : ~Enters(<< one, two >>, n, j) /\ ~Enters(<< >>, n, j)
  BY <1>2 DEF Enters
<1> HIDE DEF table
<1>8. \A i \in Inodes : Distinct(fs.node[i].entries)
  BY <1>5, <1>6
<1>9. \A i \in Inodes : \A n, j : ~Leads(fs, i, n, j)
  BY <1>5, <1>7 DEF Leads
<1> QED  BY <1>8, <1>9 DEF Tidy

LEMMA TidyOpen ==
  ASSUME OneClusterDirectories, Sound(fs), Tidy(fs), NEW path \in ProperPath,
         NEW create \in BOOLEAN, NEW truncate \in BOOLEAN,
         Open(path, create, truncate)
  PROVE  Tidy(fs)'
<1> DEFINE i == ResolvePath(fs, path)
<1>1. i \in Inodes \cup {NoInode}
  BY Given, Resolved
<1>2. CASE i # NoInode
  <2>1. OpenInode(fs, i, truncate) /\ i \in Inodes
    BY <1>1, <1>2, Zenon DEF Open
  <2>2. PICK g : Tidy(g) /\ fs' = g
    BY <2>1, OpenedTidy
  <2> QED  BY <2>2, TidyAfter
<1>3. CASE i = NoInode
  <2>1. PICK r \in CreateFile(path) :
          IF r.ok THEN OpenInode(r.fs, r.inode, truncate)
          ELSE fs' = r.fs /\ UNCHANGED opened
    BY <1>3, Zenon DEF Open
  <2>2. /\ Sound(r.fs) /\ (r.ok => r.inode \in Inodes \ {Root})
        /\ Tidy(r.fs)
    BY FileCreated, FileCreatedTidy
  <2>3. CASE r.ok
    <3>1. OpenInode(r.fs, r.inode, truncate) /\ r.inode \in Inodes
      BY <2>1, <2>2, <2>3
    <3>2. PICK g : Tidy(g) /\ fs' = g
      BY <2>2, <3>1, OpenedTidy
    <3> QED  BY <3>2, TidyAfter
  <2>4. CASE ~r.ok
    BY <2>1, <2>2, <2>4, TidyAfter
  <2> QED  BY <2>3, <2>4
<1> QED  BY <1>2, <1>3

LEMMA TidyWriteFile ==
  ASSUME IInv, Tidy(fs), NEW d \in Descriptors, WriteFile(d)
  PROVE  Tidy(fs)'
<1> DEFINE i == opened[d]
           g == [fs EXCEPT !.space = @ - 1, !.node[i].clusters = @ + 1]
           n == [fs.node[i] EXCEPT !.clusters = @ + 1]
<1>1. i \in Inodes /\ fs' = g /\ Sound(fs)
  BY Zenon DEF WriteFile, IInv
<1>2. fs \in Table /\ fs.node[i] \in Node /\ fs.node \in [Inodes -> Node]
  BY <1>1, TableCounts DEF Sound, Table
<1> HIDE DEF i
<1>3. n.entries = fs.node[i].entries /\ n.used = fs.node[i].used
  BY <1>2 DEF Node
<1>4. g = [fs EXCEPT !.node[i] = n, !.space = @ - 1]
  BY <1>1, <1>2 DEF Table
<1> HIDE DEF g, n
<1>5. g.node[i] = n /\ \A j \in Inodes : j # i => g.node[j] = fs.node[j]
  BY <1>1, <1>2, <1>4 DEF Table
<1>6. SameLists(fs, g)
  BY <1>1, <1>2, <1>3, <1>5, ListsLeft
<1>7. Tidy(g)
  BY <1>1, <1>6, TidyLists
<1> QED  BY <1>1, <1>7, TidyAfter

LEMMA TidyRemoveFile ==
  ASSUME OneClusterDirectories, Sound(fs), Tidy(fs), NEW path \in ProperPath,
         RemoveFile(path)
  PROVE  Tidy(fs)'
<1> DEFINE parent == ParentOf(fs, path)
           target == FindEntry(fs, parent, Last(path))
<1>1. /\ parent # NoInode /\ target # NoInode
      /\ fs.node[target].type # "directory"
      /\ \E r \in RemoveEntry(fs, parent, Last(path)) :
            fs' = IF r.ok THEN TruncateAndFree(r.fs, target) ELSE r.fs
  BY Zenon DEF RemoveFile
<1>2. parent \in Inodes /\ target \in Inodes
  BY <1>1, Parent, Found
<1>3. target # Root
  BY <1>1 DEF Sound, RootStays
<1>4. PICK r \in RemoveEntry(fs, parent, Last(path)) :
        fs' = IF r.ok THEN TruncateAndFree(r.fs, target) ELSE r.fs
  BY <1>1
<1>5. Sound(r.fs) /\ r.ok \in BOOLEAN
  BY <1>2, Removed
<1>6. Tidy(r.fs) /\ (r.ok => Unnamed(r.fs, target))
  BY <1>2, RemoveTidy
<1> HIDE DEF parent, target
<1>7. r.ok => Tidy(TruncateAndFree(r.fs, target))
  BY <1>2, <1>3, <1>5, <1>6, TruncateAndFreeTidy
<1> QED  BY <1>4, <1>5, <1>6, <1>7, TidyAfter

LEMMA TidyRemoveDirectory ==
  ASSUME OneClusterDirectories, Sound(fs), Tidy(fs), NEW path \in ProperPath,
         RemoveDirectory(path)
  PROVE  Tidy(fs)'
<1> DEFINE parent == ParentOf(fs, path)
           target == FindEntry(fs, parent, Last(path))
<1>1. /\ parent # NoInode /\ target # NoInode
      /\ \E r \in RemoveEntry(fs, parent, Last(path)) :
            fs' = IF r.ok THEN FreeInode(r.fs, target) ELSE r.fs
  BY Zenon DEF RemoveDirectory
<1>2. parent \in Inodes /\ target \in Inodes
  BY <1>1, Parent, Found
<1>3. PICK r \in RemoveEntry(fs, parent, Last(path)) :
        fs' = IF r.ok THEN FreeInode(r.fs, target) ELSE r.fs
  BY <1>1
<1>4. Sound(r.fs) /\ r.ok \in BOOLEAN
  BY <1>2, Removed
<1>5. Tidy(r.fs) /\ (r.ok => Unnamed(r.fs, target))
  BY <1>2, RemoveTidy
<1> HIDE DEF parent, target
<1>6. r.ok => Tidy(FreeInode(r.fs, target))
  BY <1>2, <1>4, <1>5, FreedTidy
<1> QED  BY <1>3, <1>4, <1>5, <1>6, TidyAfter

LEMMA TidyNext == OneClusterDirectories /\ IInv /\ Tidy(fs) /\ [Next]_vars => Tidy(fs)'
<1> SUFFICES ASSUME OneClusterDirectories, IInv, Tidy(fs), [Next]_vars
             PROVE  Tidy(fs)'
  OBVIOUS
<1>1. Sound(fs)
  BY DEF IInv
<1>2. ASSUME NEW path \in ProperPath, NEW create \in BOOLEAN,
             NEW truncate \in BOOLEAN, Open(path, create, truncate)
      PROVE  Tidy(fs)'
  BY <1>1, <1>2, TidyOpen
<1>3. ASSUME NEW path \in ProperPath, RemoveFile(path)
      PROVE  Tidy(fs)'
  BY <1>1, <1>3, TidyRemoveFile
<1>4. ASSUME NEW path \in ProperPath, RemoveDirectory(path)
      PROVE  Tidy(fs)'
  BY <1>1, <1>4, TidyRemoveDirectory
<1>5. ASSUME NEW path \in ProperPath, CreateDirectory(path)
      PROVE  Tidy(fs)'
  <2>1. PICK r \in MakeDirectory(fs, path) : fs' = r.fs
    BY <1>5 DEF CreateDirectory
  <2>2. Tidy(r.fs)
    BY <1>1, DirectoryMadeTidy
  <2> QED  BY <2>1, <2>2, TidyAfter
<1>6. ASSUME NEW path \in ProperPath, NEW target \in Targets,
             CreateSymlink(target, path)
      PROVE  Tidy(fs)'
  <2>1. PICK r \in MakeSymlink(fs, target, path) : fs' = r.fs
    BY <1>6 DEF CreateSymlink
  <2>2. Tidy(r.fs)
    BY <1>1, SymlinkMadeTidy
  <2> QED  BY <2>1, <2>2, TidyAfter
<1>7. ASSUME NEW d \in Descriptors, Close(d)
      PROVE  Tidy(fs)'
  <2>1. fs' = fs
    BY <1>7 DEF Close
  <2> QED  BY <2>1 DEF Tidy, Leads, Enters, Distinct
<1>8. ASSUME NEW d \in Descriptors, WriteFile(d)
      PROVE  Tidy(fs)'
  BY <1>8, TidyWriteFile
<1>9. ASSUME NEW old \in ProperPath, NEW new \in ProperPath, Rename(old, new)
      PROVE  Tidy(fs)'
  <2>1. PICK r \in Renamed(fs, old, new) : fs' = r.fs
    BY <1>9 DEF Rename
  <2>2. Tidy(r.fs)
    BY <1>1, MovedTidy
  <2> QED  BY <2>1, <2>2, TidyAfter
<1>10. CASE UNCHANGED vars
  BY <1>10 DEF vars, Tidy, Leads, Enters, Distinct
<1> QED
  BY <1>2, <1>3, <1>4, <1>5, <1>6, <1>7, <1>8, <1>9, <1>10, GivenPaths, GivenTargets
  DEF Next

--------------------------------------------------------------------------------
(* What can be reached by names is the least set with the root in it that  *)
(* no name leads out of.                                                   *)

Deeper(S) == S \cup UNION {{e.inode : e \in Named(dir)} : dir \in S}

Least(S, R) ==
  /\ R \in SUBSET Inodes /\ S \subseteq R /\ Deeper(R) = R
  /\ \A T \in SUBSET Inodes : S \subseteq T /\ Deeper(T) = T => R \subseteq T

LEMMA NamedLeads ==
  ASSUME Sound(fs), NEW dir \in Inodes, NEW e \in Named(dir)
  PROVE  e.inode \in Inodes /\ Leads(fs, dir, e.name, e.inode)
<1>1. PICK k \in DOMAIN fs.node[dir].entries :
        e = fs.node[dir].entries[k] /\ fs.node[dir].entries[k].name > DotDot
  BY DEF Named
<1>2. k \in 1 .. Len(fs.node[dir].entries) /\ fs.node[dir].entries[k] \in Entry
  BY Entries
<1>3. e.name \notin {Dot, DotDot}
  BY <1>1 DEF Dot, DotDot
<1>4. Leads(fs, dir, e.name, e.inode)
  BY <1>1, <1>2, <1>3 DEF Leads, Enters
<1> QED  BY <1>1, <1>2, <1>4 DEF Entry

LEMMA DeeperInodes ==
  ASSUME Sound(fs), NEW S \in SUBSET Inodes
  PROVE  Deeper(S) \in SUBSET Inodes /\ S \subseteq Deeper(S)
BY NamedLeads DEF Deeper

LEMMA DeeperGrows ==
  ASSUME NEW S, NEW T, S \subseteq T
  PROVE  Deeper(S) \subseteq Deeper(T)
BY DEF Deeper

LEMMA ReachableLeast ==
  ASSUME Sound(fs)
  PROVE  Least({Root}, Reachable)
<1> DEFINE Sets == SUBSET Inodes
           from == CHOOSE g : g = [S \in Sets |->
                       IF Deeper(S) = S THEN S ELSE g[Deeper(S)]]
           closing(S) == {i \in Inodes : \A T \in Sets :
                              S \subseteq T /\ Deeper(T) = T => i \in T}
           h == [S \in Sets |-> closing(S)]
<1>1. \A S \in Sets : Deeper(S) \in Sets /\ S \subseteq Deeper(S)
  BY DeeperInodes
<1>2. \A S \in Sets : h[S] = IF Deeper(S) = S THEN S ELSE h[Deeper(S)]
  <2> TAKE S \in Sets
  <2>1. ASSUME Deeper(S) = S
        PROVE  closing(S) = S
    BY <2>1
  <2>2. \A T \in Sets : Deeper(T) = T => (S \subseteq T <=> Deeper(S) \subseteq T)
    BY <1>1, DeeperGrows
  <2>3. closing(S) = closing(Deeper(S))
    BY <2>2
  <2>4. h[S] = closing(S) /\ h[Deeper(S)] = closing(Deeper(S))
    BY <1>1
  <2> HIDE DEF h, closing
  <2> QED  BY <2>1, <2>3, <2>4
<1>3. h = [S \in Sets |-> IF Deeper(S) = S THEN S ELSE h[Deeper(S)]]
  <2>1. h = [S \in Sets |-> h[S]]
    OBVIOUS
  <2> HIDE DEF h
  <2> QED  BY <1>2, <2>1
<1>4. from = [S \in Sets |-> IF Deeper(S) = S THEN S ELSE from[Deeper(S)]]
  BY <1>3
<1>5. Reachable = from[{Root}]
  BY Zenon DEF Reachable, Deeper
<1> HIDE DEF from, h
<1>6. \A S \in Sets : from[S] = IF Deeper(S) = S THEN S ELSE from[Deeper(S)]
  BY <1>4
<1> DEFINE size(S) == Cardinality(Inodes \ S)
           Bad == {n \in Nat : \E S \in Sets : size(S) = n /\ ~Least(S, from[S])}
<1>7. IsFiniteSet(Inodes)
  BY FS_Interval, DirectoriesAssumption DEF Inodes, Root
<1>8. \A S \in Sets : size(S) \in Nat
  BY <1>7, FS_Subset, FS_CardinalityType
<1>9. ASSUME NEW S \in Sets, NEW T \in Sets, S \subseteq T, S # T
      PROVE  size(T) < size(S)
  <2>1. IsFiniteSet(Inodes \ S) /\ Inodes \ T \in SUBSET (Inodes \ S)
    BY <1>7, <1>9, FS_Subset
  <2>2. Inodes \ T # Inodes \ S
    BY <1>9
  <2>3. size(T) <= size(S) /\ size(T) # size(S)
    BY <2>1, <2>2, FS_Subset
  <2> QED  BY <1>8, <2>3
<1>10. \A S \in Sets : Least(S, from[S])
  <2> HIDE DEF size
  <2>1. SUFFICES ASSUME Bad # {} PROVE FALSE
    BY <1>8
  <2>2. PICK n \in Bad : \A m \in Bad : n <= m
    <3> HIDE DEF Bad
    <3>1. Bad \in SUBSET Nat
      BY DEF Bad
    <3> QED  BY <2>1, <3>1, LeastNatural
  <2>3. PICK S \in Sets : size(S) = n /\ ~Least(S, from[S])
    BY <2>2
  <2>4. CASE Deeper(S) = S
    BY <1>6, <2>3, <2>4 DEF Least
  <2>5. CASE Deeper(S) # S
    <3> DEFINE D == Deeper(S)
    <3>1. D \in Sets /\ S \subseteq D /\ from[S] = from[D]
      BY <1>1, <1>6, <2>5
    <3>2. size(D) < size(S) /\ size(D) \in Nat /\ size(S) \in Nat
      BY <1>8, <1>9, <2>5, <3>1
    <3>3. Least(D, from[D])
      <4>1. SUFFICES ASSUME ~Least(D, from[D]) PROVE FALSE
        OBVIOUS
      <4> HIDE DEF D
      <4>2. size(D) \in Bad
        BY <3>1, <3>2, <4>1
      <4> HIDE DEF Bad
      <4>3. n <= size(D)
        BY <2>2, <4>2
      <4> QED  BY <2>3, <3>2, <4>3
    <3>4. \A T \in Sets : S \subseteq T /\ Deeper(T) = T => D \subseteq T
      BY DeeperGrows
    <3> HIDE DEF D
    <3>5. Least(S, from[D])
      BY <3>1, <3>3, <3>4 DEF Least
    <3> QED  BY <2>3, <3>1, <3>5
  <2> QED  BY <2>4, <2>5
<1>11. {Root} \in Sets
  BY RootIsInode
<1> QED  BY <1>5, <1>10, <1>11

LEMMA TidyNames == Sound(fs) /\ Tidy(fs) => NoDanglingEntries /\ OneName
<1> SUFFICES ASSUME Sound(fs), Tidy(fs) PROVE NoDanglingEntries /\ OneName
  OBVIOUS
<1>1. Reachable \subseteq Inodes
  BY ReachableLeast DEF Least
<1>2. NoDanglingEntries
  <2>1. ASSUME NEW dir \in Reachable, NEW e \in Named(dir)
        PROVE  fs.node[e.inode].used
    BY <1>1, NamedLeads DEF Tidy
  <2> QED  BY <2>1 DEF NoDanglingEntries
<1>3. ASSUME NEW i \in Inodes
      PROVE  Cardinality(Places(i)) <= 1
  <2>1. ASSUME NEW p \in Places(i)
        PROVE  \E dir \in Inodes : \E n :
                  p = [dir |-> dir, name |-> n] /\ Leads(fs, dir, n, i)
    <3>1. PICK dir \in Reachable :
            p \in {[dir |-> dir, name |-> e.name] :
                      e \in {e \in Named(dir) : e.inode = i}}
      BY Zenon DEF Places
    <3>2. PICK e \in Named(dir) : e.inode = i /\ p = [dir |-> dir, name |-> e.name]
      BY <3>1
    <3>3. Leads(fs, dir, e.name, i)
      BY <1>1, <3>2, NamedLeads
    <3> QED  BY <1>1, <3>2, <3>3
  <2>2. \A p, q \in Places(i) : p = q
    BY <2>1 DEF Tidy
  <2>3. CASE Places(i) = {}
    BY <2>3, FS_EmptySet
  <2>4. CASE Places(i) # {}
    <3>1. PICK p : p \in Places(i)
      BY <2>4
    <3>2. Places(i) = {p}
      BY <2>2, <3>1
    <3>3. Cardinality({p}) = 1
      BY FS_Singleton, Zenon
    <3> QED  BY <3>2, <3>3
  <2> QED  BY <2>3, <2>4
<1> QED  BY <1>2, <1>3 DEF OneName

--------------------------------------------------------------------------------

\* While a directory fits in a cluster, every name leads to an inode in use
\* and no two to the same, whatever calls are made and wherever they fail.
THEOREM NamesStayTidy == OneClusterDirectories => (Spec => [](Sound(fs) /\ Tidy(fs)))
<1> SUFFICES ASSUME OneClusterDirectories PROVE Spec => [](Sound(fs) /\ Tidy(fs))
  OBVIOUS
<1>1. Init => IInv /\ Tidy(fs)
  BY IInvInit, TidyInit
<1>2. IInv /\ Tidy(fs) /\ [Next]_vars => IInv' /\ Tidy(fs)'
  BY IInvNext, TidyNext
<1>3. IInv => Sound(fs)
  BY DEF IInv
<1> QED  BY <1>1, <1>2, <1>3, PTL DEF Spec

\* While a directory fits in a cluster, no call, however it fails, leaves a
\* name that can be reached on an inode that is free again.
THEOREM NamesLeadToUsed == OneClusterDirectories => (Spec => []NoDanglingEntries)
<1> SUFFICES ASSUME OneClusterDirectories PROVE Spec => []NoDanglingEntries
  OBVIOUS
<1> QED  BY NamesStayTidy, TidyNames, PTL

\* While a directory fits in a cluster, no inode comes to have two names.
THEOREM NamesStayApart == OneClusterDirectories => (Spec => []OneName)
<1> SUFFICES ASSUME OneClusterDirectories PROVE Spec => []OneName
  OBVIOUS
<1> QED  BY NamesStayTidy, TidyNames, PTL

--------------------------------------------------------------------------------
(* Where "." and ".." lead, on a disk that writes what it is given and for *)
(* paths that end in a name.                                               *)

\* What else a directory that is saved keeps.
LEMMA SavedRest ==
  ASSUME NEW f, Sound(f), NEW dir \in Inodes, NEW new, EntryList(new),
         Clusters(new) <= 1, NEW r \in SaveEntries(f, dir, new)
  PROVE  /\ \A i \in Inodes : i # dir => r.fs.node[i] = f.node[i]
         /\ r.fs.node[dir].type = f.node[dir].type
         /\ r.fs.node[dir].clusters >= f.node[dir].clusters
         /\ r.ok /\ Len(new) # 0 => r.fs.node[dir].clusters >= 1
         /\ ~WriteFaults /\ f.node[dir].clusters >= 1 => r.ok
<1> DEFINE held == f.node[dir].clusters
           grown == IF Clusters(new) > held THEN Clusters(new) - held ELSE 0
           last == IF grown > f.space THEN held + f.space + 1 ELSE Clusters(new)
           g == [f EXCEPT !.node[dir].entries = new,
                          !.node[dir].clusters = held + grown,
                          !.space = @ - grown]
           stops == UNION {StopsAt(f, dir, new, j) : j \in 1 .. last}
           ends == IF grown > f.space THEN {} ELSE {Ok(g)}
<1>1. /\ f \in Table /\ held \in Nat /\ f.space \in Nat
      /\ f.node[dir] \in Node /\ f.node \in [Inodes -> Node]
  BY TableCounts DEF Sound, Counts, Table
<1>2. new \in Seq(Entry) /\ Clusters(new) \in Nat
  BY ClustersTaken DEF EntryList
<1>3. last <= 1
  BY <1>1, <1>2
<1>4. r \in stops \cup ends
  BY Zenon DEF SaveEntries
<1>5. Len(new) # 0 => Clusters(new) >= 1
  <2>1. SUFFICES ASSUME Len(new) # 0, Clusters(new) = 0 PROVE FALSE
    BY <1>2
  <2> DEFINE n == Len(new) + PerCluster - 1
  <2>2. n \in Nat /\ n >= PerCluster /\ PerCluster \in Nat /\ PerCluster > 0
    BY <1>2, <2>1, DirectoriesAssumption
  <2>3. n \div PerCluster = 0
    BY <2>1 DEF Clusters
  <2> HIDE DEF n
  <2> QED  BY <2>2, <2>3
<1>6. grown \in Nat /\ held + grown >= Clusters(new)
  BY <1>1, <1>2
<1> HIDE DEF ends, last
<1>7. CASE r \in stops
  <2>1. PICK j \in 1 .. last : r \in StopsAt(f, dir, new, j)
    BY <1>7, Zenon
  <2>2. j = 1
    BY <1>1, <1>2, <1>3 DEF last
  <2> DEFINE h(l) == [f EXCEPT !.node[dir].entries = Overwritten(@, new, 1),
                               !.space = @ - l]
  <2>3. \E l : r = Failed(h(l))
    BY <2>1, <2>2 DEF StopsAt
  <2>4. PICK l : r = Failed(h(l))
    BY <2>3
  <2>5. ~WriteFaults => ~(held >= 1)
    <3>1. SUFFICES ASSUME ~WriteFaults, held >= 1 PROVE FALSE
      OBVIOUS
    <3>2. ~(1 > held)
      BY <1>1, <3>1
    <3>3. StopsAt(f, dir, new, 1) = {}
      BY <3>1, <3>2, Zenon DEF StopsAt
    <3> QED  BY <2>1, <2>2, <3>3
  <2>6. h(l).node = [f.node EXCEPT ![dir].entries = Overwritten(@, new, 1)]
    BY <1>1 DEF Table
  <2>7. r.ok = FALSE /\ r.fs = h(l)
    BY <2>4, Results
  <2> HIDE DEF h
  <2>8. \A i \in Inodes : i # dir => h(l).node[i] = f.node[i]
    BY <1>1, <2>6
  <2>9. h(l).node[dir] = [f.node[dir] EXCEPT !.entries = Overwritten(@, new, 1)]
    BY <1>1, <2>6
  <2>10. h(l).node[dir].type = f.node[dir].type /\ h(l).node[dir].clusters = held
    BY <1>1, <2>9 DEF Node
  <2> QED  BY <1>1, <2>5, <2>7, <2>8, <2>10
<1>8. CASE r \in ends
  <2>1. r = Ok(g)
    BY <1>8 DEF ends
  <2>2. r.ok = TRUE /\ r.fs = g
    BY <2>1, Results
  <2> DEFINE total == held + grown
  <2> HIDE DEF grown
  <2>3. g.node = [f.node EXCEPT ![dir] =
                      [f.node[dir] EXCEPT !.entries = new, !.clusters = total]]
    BY <1>1 DEF Table
  <2> HIDE DEF g, total
  <2>4. /\ g.node[dir] = [f.node[dir] EXCEPT !.entries = new, !.clusters = total]
        /\ \A i \in Inodes : i # dir => g.node[i] = f.node[i]
    BY <1>1, <2>3
  <2>5. g.node[dir].type = f.node[dir].type /\ g.node[dir].clusters = total
    BY <1>1, <2>4 DEF Node
  <2>6. total >= held /\ (Len(new) # 0 => total >= 1)
    BY <1>1, <1>2, <1>5, <1>6 DEF total
  <2> QED  BY <2>2, <2>4, <2>5, <2>6
<1> QED  BY <1>4, <1>7, <1>8

Dotted(f, i, h) ==
  Has(f.node[i].entries, Dot, i) /\ Has(f.node[i].entries, DotDot, h)

\* Only directories have entries, which take clusters; the root is its own
\* parent.
Form(f) ==
  /\ \A i \in Inodes : f.node[i].type # "directory" => f.node[i].entries = << >>
  /\ \A i \in Inodes : f.node[i].entries # << >> => f.node[i].clusters >= 1
  /\ Dotted(f, Root, Root)

\* The ".." of every directory that has a name, but for x, is the directory
\* of its name.
Parents(f, x) ==
  \A h, i \in Inodes : \A n :
      i # x /\ Leads(f, h, n, i) /\ f.node[i].type = "directory" => Dotted(f, i, h)

SameTypes(f, g) == \A i \in Inodes : g.node[i].type = f.node[i].type

\* What "." and ".." of i lead to in f they lead to in g.
DotsKept(f, g, i) ==
  \A d \in {Dot, DotDot} : \A j :
      Has(f.node[i].entries, d, j) => Has(g.node[i].entries, d, j)

LEMMA ParentsKept ==
  ASSUME NEW f, NEW g, NEW x, Parents(f, x),
         \A h, i \in Inodes : \A n :
            i # x /\ Leads(g, h, n, i) /\ g.node[i].type = "directory" =>
               /\ Leads(f, h, n, i) /\ f.node[i].type = "directory"
               /\ DotsKept(f, g, i)
  PROVE  Parents(g, x)
<1> SUFFICES ASSUME NEW h \in Inodes, NEW i \in Inodes, NEW n,
                    i # x, Leads(g, h, n, i), g.node[i].type = "directory"
             PROVE  Dotted(g, i, h)
  BY DEF Parents
<1>1. Dotted(f, i, h) /\ DotsKept(f, g, i)
  BY DEF Parents
<1> QED  BY <1>1 DEF Dotted, DotsKept

LEMMA UnnamedParents ==
  ASSUME NEW f, NEW i, Unnamed(f, i), Parents(f, i)
  PROVE  Parents(f, NoInode)
BY DEF Parents, Unnamed

LEMMA FewerParents ==
  ASSUME NEW f, NEW x, Parents(f, NoInode)
  PROVE  Parents(f, x)
BY RootIsInode DEF Parents

\* A change that is to no list of entries.
LEMMA ListsForm ==
  ASSUME NEW f, Form(f), NEW g, SameLists(f, g), SameTypes(f, g),
         \A i \in Inodes : f.node[i].type = "directory" =>
                              g.node[i].clusters >= f.node[i].clusters,
         f \in Table, g \in Table
  PROVE  Form(g) /\ \A x : Parents(f, x) => Parents(g, x)
<1>1. \A i \in Inodes : g.node[i].type # "directory" => g.node[i].entries = << >>
  BY DEF Form, SameLists, SameTypes
<1>2. ASSUME NEW i \in Inodes, g.node[i].entries # << >>
      PROVE  g.node[i].clusters >= 1
  <2>1. f.node[i].clusters >= 1 /\ f.node[i].type = "directory"
    BY <1>2 DEF Form, SameLists
  <2>2. f.node[i].clusters \in Nat /\ g.node[i].clusters \in Nat
    BY TableCounts DEF Counts
  <2> QED  BY <2>1, <2>2
<1>3. Dotted(g, Root, Root)
  BY RootIsInode DEF Form, SameLists, Dotted
<1>4. ASSUME NEW x, Parents(f, x)
      PROVE  Parents(g, x)
  BY <1>4 DEF Parents, SameLists, SameTypes, Leads, Dotted
<1> QED  BY <1>1, <1>2, <1>3, <1>4 DEF Form

\* An inode is cleared, or taken, that is not the root and has no name.
LEMMA NodeForm ==
  ASSUME NEW f, Sound(f), Tidy(f), Form(f), NEW g, NEW i \in Inodes \ {Root},
         Unnamed(f, i), \A j \in Inodes : j # i => g.node[j] = f.node[j],
         g.node[i].entries = << >>
  PROVE  Form(g) /\ (Parents(f, NoInode) => Parents(g, NoInode))
<1>1. Form(g)
  BY RootIsInode DEF Form, Dotted
<1>2. ASSUME NEW h \in Inodes, NEW j \in Inodes, NEW n, Leads(g, h, n, j),
             g.node[j].type = "directory"
      PROVE  Leads(f, h, n, j) /\ f.node[j].type = "directory" /\ DotsKept(f, g, j)
  <2>1. ~Enters(<< >>, n, j)
    BY DEF Enters
  <2>2. h # i /\ Leads(f, h, n, j)
    BY <1>2, <2>1 DEF Leads
  <2>3. j # i
    BY <2>2 DEF Unnamed
  <2> QED  BY <1>2, <2>2, <2>3 DEF DotsKept
<1>3. ASSUME Parents(f, NoInode)
      PROVE  Parents(g, NoInode)
  BY <1>2, <1>3, ParentsKept
<1> QED  BY <1>1, <1>3

\* A directory is saved.
LEMMA SavedForm ==
  ASSUME OneClusterDirectories, NEW f, Sound(f), Form(f),
         NEW dir \in Inodes, f.node[dir].type = "directory",
         NEW new, EntryList(new), Distinct(new),
         dir = Root => Has(new, Dot, Root) /\ Has(new, DotDot, Root),
         NEW r \in SaveEntries(f, dir, new)
  PROVE  Form(r.fs) /\ SameTypes(f, r.fs)
<1>1. Clusters(new) <= 1 /\ new \in Seq(Entry)
  BY ShortList DEF EntryList
<1>2. AllOrNothing(f, dir, new, r)
  BY <1>1, SavedWhole
<1>3. /\ \A i \in Inodes : i # dir => r.fs.node[i] = f.node[i]
      /\ r.fs.node[dir].type = f.node[dir].type
      /\ r.fs.node[dir].clusters >= f.node[dir].clusters
      /\ r.ok /\ Len(new) # 0 => r.fs.node[dir].clusters >= 1
  BY <1>1, SavedRest
<1>4. SameTypes(f, r.fs)
  BY <1>3 DEF SameTypes
<1>5. f \in Table /\ r.fs \in Table
  BY Saved DEF Sound
<1>6. CASE r.ok = FALSE /\ SameLists(f, r.fs)
  <2>1. \A i \in Inodes : f.node[i].type = "directory" =>
                             r.fs.node[i].clusters >= f.node[i].clusters
    <3>1. \A i \in Inodes : f.node[i].clusters \in Nat
      BY <1>5, TableCounts DEF Counts
    <3> QED  BY <1>3, <3>1
  <2> QED  BY <1>4, <1>5, <1>6, <2>1, ListsForm
<1>7. CASE r.ok = TRUE /\ r.fs.node[dir].entries = new
  <2>1. \A i \in Inodes : r.fs.node[i].type # "directory" => r.fs.node[i].entries = << >>
    BY <1>3 DEF Form
  <2>2. \A i \in Inodes : r.fs.node[i].entries # << >> => r.fs.node[i].clusters >= 1
    <3>1. new # << >> => Len(new) # 0
      BY <1>1
    <3> QED  BY <1>3, <1>7, <3>1 DEF Form
  <2>3. Dotted(r.fs, Root, Root)
    BY <1>3, <1>7, RootIsInode DEF Form, Dotted
  <2> QED  BY <1>4, <2>1, <2>2, <2>3 DEF Form
<1> QED  BY <1>2, <1>6, <1>7 DEF AllOrNothing

LEMMA InsertForm ==
  ASSUME OneClusterDirectories, NEW f, Sound(f), Tidy(f), Form(f),
         NEW dir \in Inodes, NEW name \in Components, NEW i \in Inodes \ {Root},
         Unnamed(f, i), Parents(f, i),
         f.node[i].type = "directory" => Dotted(f, i, dir),
         NEW r \in InsertEntry(f, dir, name, i)
  PROVE  Form(r.fs) /\ SameTypes(f, r.fs) /\ Parents(r.fs, NoInode)
<1> DEFINE stuck == \/ name \in {Dot, DotDot}
                    \/ f.node[dir].type # "directory"
                    \/ Holds(f, dir, name)
           old == f.node[dir].entries
           new == Insert(old, name, i)
<1>1. CASE stuck
  <2>1. r = Failed(f)
    BY <1>1 DEF InsertEntry
  <2> QED  BY <2>1, Results, UnnamedParents DEF SameTypes
<1>2. CASE ~stuck
  <2>1. r \in SaveEntries(f, dir, new)
    BY <1>2 DEF InsertEntry
  <2>2. EntryList(old) /\ Distinct(old) /\ old \in Seq(Entry)
    BY DEF Sound, Tidy, EntryList
  <2>3. EntryList(new)
    BY <1>2, <2>2, ListInserted
  <2>4. \A k \in 1 .. Len(old) : old[k].name # name
    <3>1. ~(Position(old, name) # {})
      BY <1>2, RootIsInode DEF Holds
    <3>2. DOMAIN old = 1 .. Len(old)
      BY <2>2
    <3> QED  BY <3>1, <3>2 DEF Position
  <2> HIDE DEF old
  <2>5. /\ Distinct(new)
        /\ \A n, j : Enters(new, n, j) => Enters(old, n, j) \/ (n = name /\ j = i)
        /\ \A n, j : Has(old, n, j) => Has(new, n, j)
    BY <2>2, <2>4, DistinctInserted
  <2> HIDE DEF new
  <2>6. dir = Root => Has(new, Dot, Root) /\ Has(new, DotDot, Root)
    BY <2>5 DEF Form, Dotted, old
  <2>7. Form(r.fs) /\ SameTypes(f, r.fs)
    BY <1>2, <2>1, <2>3, <2>5, <2>6, SavedForm
  <2>8. Clusters(new) <= 1
    BY <2>3, <2>5, ShortList DEF EntryList
  <2>9. AllOrNothing(f, dir, new, r)
    BY <2>1, <2>3, <2>8, SavedWhole
  <2>10. \A h \in Inodes : DotsKept(f, r.fs, h)
    BY <2>5, <2>9 DEF AllOrNothing, SameLists, DotsKept, old
  <2>11. \A h \in Inodes : \A n, j : Leads(r.fs, h, n, j) =>
            Leads(f, h, n, j) \/ (h = dir /\ j = i)
    BY <2>5, <2>9 DEF AllOrNothing, SameLists, Leads, old
  <2>12. ASSUME NEW h \in Inodes, NEW j \in Inodes, NEW n, Leads(r.fs, h, n, j),
                r.fs.node[j].type = "directory"
         PROVE  Dotted(r.fs, j, h)
    <3>1. f.node[j].type = "directory"
      BY <2>7, <2>12 DEF SameTypes
    <3>2. Dotted(f, j, h)
      <4>1. CASE Leads(f, h, n, j)
        BY <3>1, <4>1 DEF Parents, Unnamed
      <4>2. CASE h = dir /\ j = i
        BY <3>1, <4>2
      <4> QED  BY <2>11, <2>12, <4>1, <4>2
    <3> QED  BY <2>10, <3>2 DEF Dotted, DotsKept
  <2>13. Parents(r.fs, NoInode)
    BY <2>12 DEF Parents
  <2> QED  BY <2>7, <2>13
<1> QED  BY <1>1, <1>2

LEMMA RemoveForm ==
  ASSUME OneClusterDirectories, NEW f, Sound(f), Tidy(f), Form(f),
         NEW dir \in Inodes, NEW name, NEW r \in RemoveEntry(f, dir, name)
  PROVE  /\ Form(r.fs) /\ SameTypes(f, r.fs)
         /\ \A i \in Inodes : DotsKept(f, r.fs, i)
         /\ \A x : Parents(f, x) => Parents(r.fs, x)
         /\ ~WriteFaults /\ name \notin {Dot, DotDot} /\ Holds(f, dir, name) => r.ok
<1> DEFINE stuck == name \in {Dot, DotDot} \/ ~Holds(f, dir, name)
           old == f.node[dir].entries
           k == CHOOSE k \in Position(old, name) :
                    \A l \in Position(old, name) : k <= l
           new == RemoveAt(old, k)
<1>1. CASE stuck
  <2>1. r = Failed(f)
    BY <1>1 DEF RemoveEntry
  <2> QED  BY <1>1, <2>1, Results DEF SameTypes, DotsKept
<1>2. CASE ~stuck
  <2>1. r \in SaveEntries(f, dir, new)
    BY <1>2, Zenon DEF RemoveEntry
  <2>2. EntryList(old) /\ Distinct(old) /\ old \in Seq(Entry) /\ Position(old, name) # {}
    BY <1>2 DEF Sound, Tidy, EntryList, Holds
  <2>3. k \in 1 .. Len(old) /\ old[k].name = name
    BY <2>2, FirstOne
  <2>4. f.node[dir].type = "directory" /\ f.node[dir].clusters >= 1
    <3>1. old # << >>
      BY <2>2 DEF Position
    <3> QED  BY <3>1 DEF Form
  <2> HIDE DEF k, old
  <2>5. EntryList(new)
    BY <2>2, <2>3, ListRemoved
  <2>6. /\ Distinct(new)
        /\ \A n, j : Enters(new, n, j) => Enters(old, n, j) /\ n # old[k].name
        /\ \A n, j : Has(old, n, j) /\ n # old[k].name => Has(new, n, j)
    BY <2>2, <2>3, DistinctRemoved
  <2> HIDE DEF new
  <2>7. \A d \in {Dot, DotDot} : \A j : Has(old, d, j) => Has(new, d, j)
    BY <1>2, <2>3, <2>6
  <2>8. dir = Root => Has(new, Dot, Root) /\ Has(new, DotDot, Root)
    BY <2>7 DEF Form, Dotted, old
  <2>9. Form(r.fs) /\ SameTypes(f, r.fs)
    BY <2>1, <2>4, <2>5, <2>6, <2>8, SavedForm
  <2>10. Clusters(new) <= 1
    BY <2>5, <2>6, ShortList DEF EntryList
  <2>11. AllOrNothing(f, dir, new, r)
    BY <2>1, <2>5, <2>10, SavedWhole
  <2>12. \A i \in Inodes : DotsKept(f, r.fs, i)
    BY <2>7, <2>11 DEF AllOrNothing, SameLists, DotsKept, old
  <2>13. \A h \in Inodes : \A n, j : Leads(r.fs, h, n, j) => Leads(f, h, n, j)
    BY <2>6, <2>11 DEF AllOrNothing, SameLists, Leads, old
  <2>14. ~WriteFaults => r.ok
    BY <2>1, <2>4, <2>5, <2>10, SavedRest
  <2>15. ASSUME NEW x, Parents(f, x)
         PROVE  Parents(r.fs, x)
    BY <2>9, <2>12, <2>13, <2>15, ParentsKept DEF SameTypes
  <2> QED  BY <2>9, <2>12, <2>14, <2>15
<1> QED  BY <1>1, <1>2

LEMMA UpdateForm ==
  ASSUME OneClusterDirectories, NEW f, Sound(f), Tidy(f), Form(f),
         NEW i \in Inodes \ {Root}, f.node[i].type = "directory", NEW to \in Inodes,
         Parents(f, NoInode), NEW r \in UpdateEntry(f, i, DotDot, to)
  PROVE  /\ Form(r.fs) /\ SameTypes(f, r.fs)
         /\ ~r.ok => Parents(r.fs, NoInode)
         /\ r.ok => Parents(r.fs, i) /\ Has(r.fs.node[i].entries, DotDot, to)
         /\ r.ok => \A j : Has(f.node[i].entries, Dot, j) =>
                              Has(r.fs.node[i].entries, Dot, j)
<1> DEFINE old == f.node[i].entries
           k == CHOOSE k \in Position(old, DotDot) :
                    \A l \in Position(old, DotDot) : k <= l
           new == [old EXCEPT ![k].inode = to]
<1>1. CASE ~Holds(f, i, DotDot)
  <2>1. r = Failed(f)
    BY <1>1 DEF UpdateEntry
  <2> QED  BY <2>1, Results DEF SameTypes
<1>2. CASE Holds(f, i, DotDot)
  <2>1. r \in SaveEntries(f, i, new)
    BY <1>2, Zenon DEF UpdateEntry
  <2>2. EntryList(old) /\ Distinct(old) /\ old \in Seq(Entry) /\ Position(old, DotDot) # {}
    BY <1>2 DEF Sound, Tidy, EntryList, Holds
  <2>3. k \in 1 .. Len(old) /\ old[k].name = DotDot
    BY <2>2, FirstOne, ZenonT(60)
  <2> HIDE DEF k, old
  <2>4. EntryList(new)
    BY <2>2, <2>3, ListUpdated
  <2>5. /\ Distinct(new)
        /\ \A n, j : Enters(new, n, j) <=> Enters(old, n, j)
        /\ \A j : Has(old, Dot, j) => Has(new, Dot, j)
        /\ Has(new, DotDot, to)
    BY <2>2, <2>3, DistinctUpdated
  <2> HIDE DEF new
  <2>6. Form(r.fs) /\ SameTypes(f, r.fs)
    BY <2>1, <2>4, <2>5, SavedForm
  <2>7. Clusters(new) <= 1
    BY <2>4, <2>5, ShortList DEF EntryList
  <2>8. AllOrNothing(f, i, new, r)
    BY <2>1, <2>4, <2>7, SavedWhole
  <2>9. CASE r.ok = FALSE /\ SameLists(f, r.fs)
    <3>1. Parents(r.fs, NoInode)
      BY <2>6, <2>9 DEF SameTypes, SameLists, Parents, Leads, Dotted
    <3> QED  BY <2>6, <2>9, <3>1
  <2>10. CASE r.ok = TRUE /\ r.fs.node[i].entries = new
    <3>1. \A h \in Inodes : h # i => r.fs.node[h].entries = f.node[h].entries
      BY <2>8, <2>10 DEF AllOrNothing
    <3>2. \A h \in Inodes : \A n, j : Leads(r.fs, h, n, j) => Leads(f, h, n, j)
      BY <2>5, <2>10, <3>1 DEF Leads, old
    <3>3. \A h \in Inodes : h # i => DotsKept(f, r.fs, h)
      BY <3>1 DEF DotsKept
    <3>4. Parents(f, i)
      BY FewerParents
    <3>5. Parents(r.fs, i)
      BY <2>6, <3>2, <3>3, <3>4, ParentsKept DEF SameTypes
    <3> QED  BY <2>5, <2>6, <2>10, <3>5 DEF old
  <2> QED  BY <2>8, <2>9, <2>10 DEF AllOrNothing
<1> QED  BY <1>1, <1>2

LEMMA DotsForm ==
  ASSUME OneClusterDirectories, NEW f, Sound(f), Tidy(f), Form(f),
         NEW i \in Inodes \ {Root}, f.node[i].type = "directory", Unnamed(f, i),
         NEW parent \in Inodes, Parents(f, NoInode), NEW r \in CreateNew(f, i, parent)
  PROVE  /\ Form(r.fs) /\ SameTypes(f, r.fs) /\ Parents(r.fs, NoInode)
         /\ r.ok => Dotted(r.fs, i, parent)
<1> DEFINE one == [name |-> Dot, inode |-> i]
           two == [name |-> DotDot, inode |-> parent]
           new == <<one, two>>
<1>1. /\ Fits(one) /\ Fits(two) /\ one.name = Dot /\ two.name = DotDot
      /\ one.inode = i /\ two.inode = parent
  BY DEF Fits, Entry, Components
<1>2. r \in SaveEntries(f, i, new)
  BY Zenon DEF CreateNew
<1> HIDE DEF one, two
<1>3. /\ new \in Seq(Entry) /\ Len(new) = 2 /\ new[1] = one /\ new[2] = two
      /\ \A k \in 1 .. Len(new) : Fits(new[k])
  BY <1>1 DEF Fits
<1> HIDE DEF new
<1>4. EntryList(new)
  BY <1>3, ListElements
<1>5. Distinct(new)
  BY <1>1, <1>3 DEF Distinct, Dot, DotDot
<1>6. (\A n, j : ~Enters(new, n, j)) /\ Has(new, Dot, i) /\ Has(new, DotDot, parent)
  BY <1>1, <1>3 DEF Enters, Has
<1>7. Form(r.fs) /\ SameTypes(f, r.fs)
  BY <1>2, <1>4, <1>5, SavedForm
<1>8. Clusters(new) <= 1
  BY <1>4, <1>5, ShortList DEF EntryList
<1>9. AllOrNothing(f, i, new, r)
  BY <1>2, <1>4, <1>8, SavedWhole
<1>10. \A h \in Inodes : h # i => DotsKept(f, r.fs, h)
  BY <1>9 DEF AllOrNothing, SameLists, DotsKept
<1>11. \A h \in Inodes : \A n, j : Leads(r.fs, h, n, j) => Leads(f, h, n, j)
  BY <1>6, <1>9 DEF AllOrNothing, SameLists, Leads
<1>12. \A h \in Inodes : \A n, j : Leads(r.fs, h, n, j) => j # i
  BY <1>11 DEF Unnamed
<1>13. Parents(r.fs, NoInode)
  BY <1>7, <1>10, <1>11, <1>12, ParentsKept DEF SameTypes
<1>14. r.ok => Dotted(r.fs, i, parent)
  BY <1>6, <1>9 DEF AllOrNothing, Dotted
<1> QED  BY <1>7, <1>13, <1>14

\* Form and parents together.
Upright(f) == Form(f) /\ Parents(f, NoInode)

\* An inode in use stays so, and what it is.
Stay(f, g) ==
  \A i \in Inodes : f.node[i].used =>
     g.node[i].used /\ g.node[i].type = f.node[i].type

\* Only the clusters or the target of something that is no directory change.
LEMMA OneKept ==
  ASSUME NEW f, f \in Table, NEW g, g \in Table, NEW i \in Inodes,
         \A j \in Inodes : j # i => g.node[j] = f.node[j],
         f.node[i].type # "directory",
         g.node[i].entries = f.node[i].entries, g.node[i].used = f.node[i].used,
         g.node[i].type = f.node[i].type
  PROVE  /\ SameLists(f, g) /\ SameTypes(f, g) /\ Stay(f, g)
         /\ Upright(f) => Upright(g)
<1>1. SameLists(f, g)
  BY ListsLeft
<1>2. SameTypes(f, g)
  BY DEF SameTypes
<1>3. Stay(f, g)
  BY DEF Stay
<1>4. \A j \in Inodes : f.node[j].type = "directory" =>
                           g.node[j].clusters >= f.node[j].clusters
  <2>1. \A j \in Inodes : f.node[j].clusters \in Nat
    BY TableCounts DEF Counts
  <2> QED  BY <2>1
<1>5. Upright(f) => Upright(g)
  BY <1>1, <1>2, <1>4, ListsForm DEF Upright
<1> QED  BY <1>1, <1>2, <1>3, <1>5

LEMMA TruncateForm ==
  ASSUME NEW f, Sound(f), NEW i \in Inodes \ {Root}, f.node[i].type # "directory"
  PROVE  /\ Stay(f, Truncate(f, i)) /\ SameTypes(f, Truncate(f, i))
         /\ Upright(f) => Upright(Truncate(f, i))
<1> DEFINE n == [f.node[i] EXCEPT !.clusters = 0]
           sp == f.space + f.node[i].clusters
           g == Truncate(f, i)
<1>1. f \in Table /\ f.node[i] \in Node /\ f.node \in [Inodes -> Node]
  BY TableCounts DEF Sound, Table
<1>2. n.entries = f.node[i].entries /\ n.used = f.node[i].used
      /\ n.type = f.node[i].type
  BY <1>1 DEF Node
<1>3. g = [f EXCEPT !.node[i] = n, !.space = sp]
  BY <1>1 DEF Table, Truncate
<1>4. g \in Table
  BY Truncated DEF Sound
<1> HIDE DEF g, n, sp
<1>5. g.node[i] = n /\ \A j \in Inodes : j # i => g.node[j] = f.node[j]
  BY <1>1, <1>3 DEF Table
<1>6. /\ Stay(f, g) /\ SameTypes(f, g)
      /\ Upright(f) => Upright(g)
  BY <1>1, <1>2, <1>4, <1>5, OneKept
<1> QED  BY <1>6 DEF g

LEMMA TargetForm ==
  ASSUME NEW f, f \in Table, NEW i \in Inodes, f.node[i].type # "directory",
         NEW target \in Targets, NEW r \in WriteTarget(f, i, target)
  PROVE  /\ Stay(f, r.fs) /\ SameTypes(f, r.fs)
         /\ Upright(f) => Upright(r.fs)
<1> DEFINE v == f.space - 1
           less == [f EXCEPT !.space = @ - 1]
           n == [f.node[i] EXCEPT !.clusters = 1, !.target = target]
           g == [f EXCEPT !.space = @ - 1, !.node[i].clusters = 1,
                          !.node[i].target = target]
<1>1. f \in Table /\ f.node[i] \in Node /\ f.node \in [Inodes -> Node]
      /\ f.space \in Nat
  BY TableCounts DEF Table
<1>2. r = Failed(f) \/ (f.space > 0 /\ (r = Ok(g) \/ r = Failed(less)))
  <2> HIDE DEF g, less
  <2> DEFINE a == IF f.space = 0 THEN {Failed(f)} ELSE {Ok(g)}
             b == IF WriteFaults /\ f.space > 0 THEN {Failed(f), Failed(less)} ELSE {}
  <2>1. r \in a \cup b
    BY Zenon DEF WriteTarget, g, less
  <2>2. r \in a => r = Failed(f) \/ (f.space > 0 /\ r = Ok(g))
    BY <1>1
  <2>3. r \in b => r = Failed(f) \/ (f.space > 0 /\ r = Failed(less))
    OBVIOUS
  <2> HIDE DEF a, b
  <2> QED  BY <2>1, <2>2, <2>3
<1>3. /\ Stay(f, f) /\ SameTypes(f, f)
      /\ Upright(f) => Upright(f)
  BY DEF Stay, SameTypes
<1>4. f.space > 0 => v \in Nat
  BY <1>1
<1>5. ASSUME f.space > 0
      PROVE  /\ Stay(f, g) /\ SameTypes(f, g)
             /\ Upright(f) => Upright(g)
  <2>1. /\ n.entries = f.node[i].entries /\ n.used = f.node[i].used
        /\ n.type = f.node[i].type /\ n \in Node
    BY <1>1 DEF Node, Targets
  <2>2. g = [f EXCEPT !.node[i] = n, !.space = v]
    BY <1>1 DEF Table
  <2>3. v \in Nat
    BY <1>4, <1>5
  <2> HIDE DEF g, n, v
  <2>4. g.node[i] = n /\ \A j \in Inodes : j # i => g.node[j] = f.node[j]
    BY <1>1, <2>2 DEF Table
  <2>5. g \in Table
    BY <1>1, <2>1, <2>2, <2>3 DEF Table
  <2> QED  BY <1>1, <2>1, <2>4, <2>5, OneKept
<1>6. ASSUME f.space > 0
      PROVE  /\ Stay(f, less) /\ SameTypes(f, less)
             /\ Upright(f) => Upright(less)
  <2>1. less = [f EXCEPT !.space = v]
    BY <1>1 DEF Table
  <2>2. v \in Nat
    BY <1>4, <1>6
  <2> HIDE DEF less, v
  <2>3. less \in Table /\ less.node = f.node
    BY <1>1, <2>1, <2>2 DEF Table
  <2> QED  BY <1>1, <2>3, OneKept
<1> HIDE DEF g, less
<1> QED  BY <1>2, <1>3, <1>5, <1>6, Results

LEMMA MadeForm ==
  ASSUME NEW f, Sound(f), Tidy(f), Upright(f), NEW i \in Inodes \ {Root},
         ~f.node[i].used, NEW type \in {"regular", "directory", "symlink"}
  PROVE  LET g == WithNode(f, i, type)
         IN  Upright(g) /\ Stay(f, g) /\ g.node[i].type = type
<1> DEFINE g == WithNode(f, i, type)
           n == [FreeNode EXCEPT !.used = TRUE, !.type = type]
<1>1. f.node \in [Inodes -> Node] /\ f \in Table
  BY DEF Sound, Table
<1>2. n.type = type /\ n.entries = << >>
  BY DEF FreeNode
<1>3. g = [f EXCEPT !.node[i] = n]
  BY DEF WithNode
<1> HIDE DEF g, n
<1>4. g.node[i] = n /\ \A j \in Inodes : j # i => g.node[j] = f.node[j]
  BY <1>1, <1>3 DEF Table
<1>5. Unnamed(f, i)
  BY DEF Tidy, Unnamed
<1>6. g.node[i].entries = << >> /\ g.node[i].type = type
  BY <1>2, <1>4
<1>7. Upright(g)
  BY <1>4, <1>5, <1>6, NodeForm DEF Upright
<1>8. Stay(f, g)
  BY <1>4 DEF Stay
<1> QED  BY <1>6, <1>7, <1>8 DEF g

LEMMA FreedForm ==
  ASSUME NEW f, Sound(f), Tidy(f), Upright(f), NEW i \in Inodes \ {Root},
         Unnamed(f, i)
  PROVE  /\ Upright(FreeInode(f, i))
         /\ \A j \in Inodes : j # i => FreeInode(f, i).node[j] = f.node[j]
<1> DEFINE g == FreeInode(f, i)
<1>1. f.node \in [Inodes -> Node] /\ f \in Table
  BY DEF Sound, Table
<1>2. FreeNode.entries = << >>
  BY DEF FreeNode
<1>3. g = [f EXCEPT !.node[i] = FreeNode]
  BY DEF FreeInode
<1> HIDE DEF g
<1>4. g.node[i] = FreeNode /\ \A j \in Inodes : j # i => g.node[j] = f.node[j]
  BY <1>1, <1>3 DEF Table
<1>5. g.node[i].entries = << >>
  BY <1>2, <1>4
<1>6. Upright(g)
  BY <1>4, <1>5, NodeForm DEF Upright
<1> QED  BY <1>4, <1>6 DEF g

LEMMA RelinkForm ==
  ASSUME NEW f, Sound(f), NEW i \in Inodes, NEW from, NEW to,
         NEW r \in Relink(f, i, from, to)
  PROVE  /\ Stay(f, r.fs) /\ SameTypes(f, r.fs)
         /\ Upright(f) => Upright(r.fs)
         /\ f.node[i].type = "directory" => r = Ok(f)
<1> DEFINE moved == /\ f.node[i].type = "symlink"
                    /\ from # to
                    /\ ~f.node[i].target.absolute
<1>1. CASE ~moved
  <2>1. r = Ok(f)
    BY <1>1 DEF Relink
  <2> QED  BY <2>1, Results DEF Stay, SameTypes
<1>2. CASE moved
  <2> DEFINE cut == Truncate(f, i)
             n == [cut.node[i] EXCEPT !.target = NoTarget]
             empty == [cut EXCEPT !.node[i].target = NoTarget]
             longer == [f.node[i].target EXCEPT !.path = <<DotDot>> \o @]
  <2>1. i # Root
    BY <1>2 DEF Sound, RootStays
  <2>2. /\ Stay(f, cut) /\ SameTypes(f, cut)
        /\ Upright(f) => Upright(cut)
    BY <1>2, <2>1, TruncateForm
  <2>3. Sound(cut)
    BY <2>1, Truncated
  <2>4. longer \in Targets
    <3>1. f.node[i].target \in Targets
      BY TableCounts DEF Sound, Node, Targets
    <3>2. <<DotDot>> \o f.node[i].target.path \in Seq(Components)
      BY <3>1 DEF Targets, Components
    <3> QED  BY <3>1, <3>2 DEF Targets
  <2> HIDE DEF cut
  <2>5. cut \in Table /\ cut.node[i] \in Node /\ cut.node \in [Inodes -> Node]
    BY <2>3, TableCounts DEF Sound, Table
  <2>6. /\ n \in Node /\ n.entries = cut.node[i].entries
        /\ n.used = cut.node[i].used /\ n.type = cut.node[i].type
    <3>1. NoTarget \in Targets
      BY DEF NoTarget, Targets
    <3> QED  BY <2>5, <3>1 DEF Node, Targets
  <2>7. empty = [cut EXCEPT !.node[i] = n]
    BY <2>5 DEF Table
  <2>8. r \in WriteTarget(empty, i, longer)
    BY <1>2, Zenon DEF Relink, PrefixTarget, cut
  <2> HIDE DEF empty, n, longer
  <2>9. /\ empty \in Table /\ empty.node[i] = n
        /\ \A j \in Inodes : j # i => empty.node[j] = cut.node[j]
    <3> DEFINE nodes == [cut.node EXCEPT ![i] = n]
    <3>1. /\ nodes \in [Inodes -> Node] /\ nodes[i] = n
          /\ \A j \in Inodes : j # i => nodes[j] = cut.node[j]
      BY <2>5, <2>6
    <3>2. empty = [cut EXCEPT !.node = nodes]
      BY <2>5, <2>7 DEF Table
    <3> HIDE DEF nodes
    <3>3. empty \in Table /\ empty.node = nodes
      BY <2>5, <3>1, <3>2 DEF Table
    <3> QED  BY <3>1, <3>3
  <2>10. cut.node[i].type # "directory"
    BY <1>2, <2>2 DEF SameTypes
  <2>11. /\ Stay(cut, empty) /\ SameTypes(cut, empty)
         /\ Upright(cut) => Upright(empty)
    BY <2>5, <2>6, <2>9, <2>10, OneKept
  <2>12. empty.node[i].type # "directory"
    BY <2>6, <2>9, <2>10
  <2>13. /\ Stay(empty, r.fs) /\ SameTypes(empty, r.fs)
         /\ Upright(empty) => Upright(r.fs)
    BY <2>4, <2>8, <2>9, <2>12, TargetForm
  <2>14. Stay(f, r.fs) /\ SameTypes(f, r.fs)
    BY <2>2, <2>11, <2>13 DEF Stay, SameTypes
  <2> QED  BY <1>2, <2>2, <2>11, <2>13, <2>14
<1> QED  BY <1>1, <1>2

--------------------------------------------------------------------------------
(* And after each call. *)

LEMMA StayTwice ==
  ASSUME NEW f, NEW g, NEW h, Stay(f, g), Stay(g, h)
  PROVE  Stay(f, h)
BY DEF Stay

LEMMA SameStay ==
  ASSUME NEW f, NEW g, SameUsed(f, g), SameTypes(f, g)
  PROVE  Stay(f, g)
BY DEF Stay, SameUsed, SameTypes

\* The inode that was taken is given back.
LEMMA StayFreed ==
  ASSUME NEW f, NEW g, NEW i, Stay(f, g), ~f.node[i].used,
         \A j \in Inodes : j # i => FreeInode(g, i).node[j] = g.node[j]
  PROVE  Stay(f, FreeInode(g, i))
BY DEF Stay

LEMMA FileCreatedForm ==
  ASSUME OneClusterDirectories, Sound(fs), Tidy(fs), Upright(fs),
         NEW path \in ProperPath, NEW r \in CreateFile(path)
  PROVE  /\ Upright(r.fs) /\ Stay(fs, r.fs)
         /\ r.ok => r.fs.node[r.inode].used /\ r.fs.node[r.inode].type = "regular"
<1> DEFINE parent == ParentOf(fs, path)
           i == AllocateInode(fs)
           made == WithNode(fs, i, "regular")
<1>1. CASE parent = NoInode \/ i = NoInode
  <2>1. r = [ok |-> FALSE, fs |-> fs, inode |-> NoInode]
    BY <1>1, Zenon DEF CreateFile
  <2>2. r.fs = fs /\ r.ok = FALSE
    BY <2>1
  <2> QED  BY <2>2 DEF Stay
<1>2. CASE ~(parent = NoInode \/ i = NoInode)
  <2>1. /\ parent \in Inodes /\ i \in Inodes \ {Root} /\ ~fs.node[i].used
        /\ Last(path) \in Components
    BY <1>2, Parent, Allocated, Given
  <2>2. Sound(made)
    BY <2>1, NodeMade
  <2>3. Tidy(made) /\ Unnamed(made, i) /\ made.node[i].used
    BY <2>1, MadeTidy
  <2>4. Upright(made) /\ Stay(fs, made) /\ made.node[i].type = "regular"
    BY <2>1, MadeForm
  <2>5. r \in {[ok |-> s.ok, inode |-> i,
                fs |-> IF s.ok THEN s.fs ELSE FreeInode(s.fs, i)] :
               s \in InsertEntry(made, parent, Last(path), i)}
    BY <1>2, Zenon DEF CreateFile
  <2> HIDE DEF parent, i, made
  <2>6. PICK s \in InsertEntry(made, parent, Last(path), i) :
          r = [ok |-> s.ok, inode |-> i,
               fs |-> IF s.ok THEN s.fs ELSE FreeInode(s.fs, i)]
    BY <2>5
  <2>7. Sound(s.fs) /\ s.ok \in BOOLEAN
    BY <2>1, <2>2, Inserted
  <2>8. /\ Tidy(s.fs) /\ SameUsed(made, s.fs)
        /\ \A j : Unnamed(made, j) /\ (j # i \/ ~s.ok) => Unnamed(s.fs, j)
    BY <2>1, <2>2, <2>3, InsertTidy
  <2>9. Form(made) /\ Parents(made, NoInode) /\ Parents(made, i)
    BY <2>4, FewerParents DEF Upright
  <2>10. Form(s.fs) /\ SameTypes(made, s.fs) /\ Parents(s.fs, NoInode)
    BY <2>1, <2>2, <2>3, <2>4, <2>9, InsertForm
  <2>11. Upright(s.fs)
    BY <2>10 DEF Upright
  <2>12. Stay(fs, s.fs)
    BY <2>4, <2>8, <2>10, SameStay, StayTwice
  <2>13. ASSUME ~s.ok
         PROVE  Upright(FreeInode(s.fs, i)) /\ Stay(fs, FreeInode(s.fs, i))
    <3>1. Unnamed(s.fs, i)
      BY <2>3, <2>8, <2>13
    <3>2. /\ Upright(FreeInode(s.fs, i))
          /\ \A j \in Inodes : j # i => FreeInode(s.fs, i).node[j] = s.fs.node[j]
      BY <2>1, <2>7, <2>8, <2>11, <3>1, FreedForm
    <3> QED  BY <2>1, <2>12, <3>2, StayFreed
  <2>14. s.fs.node[i].used /\ s.fs.node[i].type = "regular"
    BY <2>1, <2>3, <2>4, <2>8, <2>10 DEF SameUsed, SameTypes
  <2>15. /\ r.fs = IF s.ok THEN s.fs ELSE FreeInode(s.fs, i)
         /\ r.ok = s.ok /\ r.inode = i
    BY <2>6
  <2> QED  BY <2>7, <2>11, <2>12, <2>13, <2>14, <2>15
<1> QED  BY <1>1, <1>2

LEMMA DirectoryMadeForm ==
  ASSUME OneClusterDirectories, NEW f, Sound(f), Tidy(f), Upright(f),
         NEW path \in ProperPath, NEW r \in MakeDirectory(f, path)
  PROVE  Upright(r.fs) /\ Stay(f, r.fs)
<1> DEFINE parent == ParentOf(f, path)
           i == AllocateInode(f)
           made == WithNode(f, i, "directory")
           entered(s) == IF s.ok THEN InsertEntry(s.fs, parent, Last(path), i)
                         ELSE {Failed(FreeInode(s.fs, i))}
<1>1. CASE parent = NoInode \/ i = NoInode
  <2>1. r = Failed(f)
    BY <1>1, Zenon DEF MakeDirectory
  <2> QED  BY <2>1, Results DEF Stay
<1>2. CASE ~(parent = NoInode \/ i = NoInode)
  <2>1. /\ parent \in Inodes /\ i \in Inodes \ {Root} /\ ~f.node[i].used
        /\ Last(path) \in Components
    BY <1>2, Parent, Allocated, Given
  <2>2. Sound(made)
    BY <2>1, NodeMade
  <2>3. Tidy(made) /\ Unnamed(made, i) /\ made.node[i].used
    BY <2>1, MadeTidy
  <2>4. Upright(made) /\ Stay(f, made) /\ made.node[i].type = "directory"
    BY <2>1, MadeForm
  <2>5. r \in UNION {entered(s) : s \in CreateNew(made, i, parent)}
    BY <1>2, Zenon DEF MakeDirectory
  <2> HIDE DEF parent, i, made
  <2>6. PICK s \in CreateNew(made, i, parent) : r \in entered(s)
    BY <2>5, Zenon
  <2>7. Sound(s.fs) /\ s.ok \in BOOLEAN
    BY <2>1, <2>2, DotsMade
  <2>8. /\ Tidy(s.fs) /\ SameUsed(made, s.fs)
        /\ \A j \in Inodes : Unnamed(made, j) => Unnamed(s.fs, j)
    BY <2>1, <2>2, <2>3, DotsTidy
  <2>9. /\ Form(s.fs) /\ SameTypes(made, s.fs) /\ Parents(s.fs, NoInode)
        /\ s.ok => Dotted(s.fs, i, parent)
    BY <2>1, <2>2, <2>3, <2>4, DotsForm DEF Upright
  <2>10. Unnamed(s.fs, i) /\ s.fs.node[i].used
    BY <2>1, <2>3, <2>8 DEF SameUsed
  <2>11. Stay(f, s.fs)
    BY <2>4, <2>8, <2>9, SameStay, StayTwice
  <2>12. CASE s.ok
    <3>1. r \in InsertEntry(s.fs, parent, Last(path), i)
      BY <2>6, <2>12
    <3>2. SameUsed(s.fs, r.fs)
      BY <2>1, <2>7, <2>8, <2>10, <3>1, InsertTidy
    <3>3. Parents(s.fs, i) /\ Dotted(s.fs, i, parent)
      BY <2>9, <2>12, FewerParents
    <3>4. Form(r.fs) /\ SameTypes(s.fs, r.fs) /\ Parents(r.fs, NoInode)
      BY <2>1, <2>7, <2>8, <2>9, <2>10, <3>1, <3>3, InsertForm
    <3>5. Stay(f, r.fs)
      BY <2>11, <3>2, <3>4, SameStay, StayTwice
    <3> QED  BY <3>4, <3>5 DEF Upright
  <2>13. CASE ~s.ok
    <3>1. r = Failed(FreeInode(s.fs, i))
      BY <2>6, <2>13
    <3>2. Upright(s.fs)
      BY <2>9 DEF Upright
    <3>3. /\ Upright(FreeInode(s.fs, i))
          /\ \A j \in Inodes : j # i => FreeInode(s.fs, i).node[j] = s.fs.node[j]
      BY <2>1, <2>7, <2>8, <2>10, <3>2, FreedForm
    <3>4. Stay(f, FreeInode(s.fs, i))
      BY <2>1, <2>11, <3>3, StayFreed
    <3> QED  BY <3>1, <3>3, <3>4, Results
  <2> QED  BY <2>12, <2>13
<1> QED  BY <1>1, <1>2

LEMMA SymlinkMadeForm ==
  ASSUME OneClusterDirectories, NEW f, Sound(f), Tidy(f), Upright(f),
         NEW target \in Targets, NEW path \in ProperPath,
         NEW r \in MakeSymlink(f, target, path)
  PROVE  Upright(r.fs) /\ Stay(f, r.fs)
<1> DEFINE parent == ParentOf(f, path)
           i == AllocateInode(f)
           made == WithNode(f, i, "symlink")
           entered(s) == {IF t.ok THEN t ELSE Failed(TruncateAndFree(t.fs, i)) :
                          t \in InsertEntry(s.fs, parent, Last(path), i)}
           after(s) == IF s.ok THEN entered(s) ELSE {Failed(FreeInode(s.fs, i))}
           stuck == parent = NoInode \/ Holds(f, parent, Last(path)) \/ i = NoInode
<1>1. CASE stuck
  <2>1. r = Failed(f)
    BY <1>1, Zenon DEF MakeSymlink
  <2> QED  BY <2>1, Results DEF Stay
<1>2. CASE ~stuck
  <2>1. /\ parent \in Inodes /\ i \in Inodes \ {Root} /\ ~f.node[i].used
        /\ Last(path) \in Components
    BY <1>2, Parent, Allocated, Given
  <2>2. Sound(made) /\ made.node[i].clusters = 0
    <3>1. f \in [node : [Inodes -> Node], space : Nat]
      BY DEF Sound, Table
    <3> HIDE DEF i
    <3>2. made.node[i] = [FreeNode EXCEPT !.used = TRUE, !.type = "symlink"]
      BY <2>1, <3>1 DEF WithNode
    <3>3. [FreeNode EXCEPT !.used = TRUE, !.type = "symlink"].clusters = 0
      BY DEF FreeNode
    <3> HIDE DEF made
    <3>4. made.node[i].clusters = 0
      BY <3>2, <3>3
    <3>5. Sound(made)
      BY <2>1, NodeMade DEF made
    <3> QED  BY <3>4, <3>5
  <2>3. Tidy(made) /\ Unnamed(made, i) /\ made.node[i].used
    BY <2>1, MadeTidy
  <2>4. Upright(made) /\ Stay(f, made) /\ made.node[i].type = "symlink"
    BY <2>1, MadeForm
  <2>5. r \in UNION {after(s) : s \in WriteTarget(made, i, target)}
    BY <1>2, Zenon DEF MakeSymlink
  <2> HIDE DEF parent, i, made
  <2>6. PICK s \in WriteTarget(made, i, target) : r \in after(s)
    BY <2>5, Zenon
  <2>7. target \in Targets
    BY NamespaceAssumption DEF Targets
  <2>8. Sound(s.fs) /\ s.ok \in BOOLEAN
    BY <2>1, <2>2, <2>7, TargetWritten
  <2>9. made \in Table
    BY <2>2 DEF Sound
  <2>10. SameLists(made, s.fs)
    BY <2>1, <2>9, TargetLists
  <2>11. Tidy(s.fs) /\ Unnamed(s.fs, i) /\ s.fs.node[i].used
    BY <2>1, <2>2, <2>3, <2>10, TidyLists DEF SameLists
  <2>12. Stay(made, s.fs) /\ SameTypes(made, s.fs) /\ Upright(s.fs)
    BY <2>1, <2>4, <2>7, <2>9, TargetForm
  <2>13. Stay(f, s.fs) /\ s.fs.node[i].type = "symlink"
    BY <2>1, <2>4, <2>12, StayTwice DEF SameTypes
  <2>14. CASE s.ok
    <3>1. PICK t \in InsertEntry(s.fs, parent, Last(path), i) :
            r = IF t.ok THEN t ELSE Failed(TruncateAndFree(t.fs, i))
      BY <2>6, <2>14
    <3>2. Sound(t.fs) /\ t.ok \in BOOLEAN
      BY <2>1, <2>8, Inserted
    <3>3. /\ Tidy(t.fs) /\ SameUsed(s.fs, t.fs)
          /\ \A j : Unnamed(s.fs, j) /\ (j # i \/ ~t.ok) => Unnamed(t.fs, j)
      BY <2>1, <2>8, <2>11, InsertTidy
    <3>4. Form(s.fs) /\ Parents(s.fs, NoInode) /\ Parents(s.fs, i)
      BY <2>12, FewerParents DEF Upright
    <3>5. Form(t.fs) /\ SameTypes(s.fs, t.fs) /\ Parents(t.fs, NoInode)
      BY <2>1, <2>8, <2>11, <2>13, <3>4, InsertForm
    <3>6. Upright(t.fs)
      BY <3>5 DEF Upright
    <3>7. Stay(f, t.fs)
      BY <2>13, <3>3, <3>5, SameStay, StayTwice
    <3>8. ASSUME ~t.ok
          PROVE  /\ Upright(TruncateAndFree(t.fs, i))
                 /\ Stay(f, TruncateAndFree(t.fs, i))
      <4> DEFINE cut == Truncate(t.fs, i)
      <4>1. t.fs.node[i].type # "directory"
        BY <2>1, <2>13, <3>5 DEF SameTypes
      <4>2. Sound(cut) /\ Upright(cut) /\ Stay(t.fs, cut)
        BY <2>1, <3>2, <3>6, <4>1, Truncated, TruncateForm
      <4>3. Tidy(cut) /\ Unnamed(cut, i)
        BY <2>1, <2>11, <3>2, <3>3, <3>8, TruncateTidy
      <4>4. TruncateAndFree(t.fs, i) = FreeInode(cut, i)
        BY DEF TruncateAndFree
      <4> HIDE DEF cut
      <4>5. /\ Upright(FreeInode(cut, i))
            /\ \A j \in Inodes : j # i => FreeInode(cut, i).node[j] = cut.node[j]
        BY <2>1, <4>2, <4>3, FreedForm
      <4>6. Stay(f, cut)
        BY <3>7, <4>2, StayTwice
      <4>7. Stay(f, FreeInode(cut, i))
        BY <2>1, <4>5, <4>6, StayFreed
      <4> QED  BY <4>4, <4>5, <4>7
    <3> QED  BY <3>1, <3>2, <3>6, <3>7, <3>8, Results
  <2>15. CASE ~s.ok
    <3>1. r = Failed(FreeInode(s.fs, i))
      BY <2>6, <2>15
    <3>2. /\ Upright(FreeInode(s.fs, i))
          /\ \A j \in Inodes : j # i => FreeInode(s.fs, i).node[j] = s.fs.node[j]
      BY <2>1, <2>8, <2>11, <2>12, FreedForm
    <3>3. Stay(f, FreeInode(s.fs, i))
      BY <2>1, <2>13, <3>2, StayFreed
    <3> QED  BY <3>1, <3>2, <3>3, Results
  <2> QED  BY <2>14, <2>15
<1> QED  BY <1>1, <1>2

\* Nothing disturbs a move: the disk writes what it is given, and what is
\* moved is called by its name.
Undisturbed ==
  /\ OneClusterDirectories
  /\ ~WriteFaults
  /\ \A path \in PathsGiven : Last(path) \in Names

LEMMA ProperNames ==
  ASSUME Undisturbed, NEW path \in ProperPath
  PROVE  Last(path) \in Components \ {Dot, DotDot}
BY DirectoriesAssumption DEF Undisturbed, ProperPath, Ends, Components, Dot, DotDot

LEMMA ReparentForm ==
  ASSUME OneClusterDirectories, NEW f, Sound(f), Tidy(f), Upright(f),
         NEW i \in Inodes \ {Root}, NEW from, Dotted(f, i, from) \/
         f.node[i].type # "directory", NEW to \in Inodes, NEW r \in Reparent(f, i, to)
  PROVE  /\ Form(r.fs) /\ SameTypes(f, r.fs) /\ Stay(f, r.fs) /\ Parents(r.fs, i)
         /\ ~r.ok \/ f.node[i].type # "directory" => Upright(r.fs)
         /\ r.ok /\ f.node[i].type = "directory" => Dotted(r.fs, i, to)
<1> USE DEF Upright
<1>1. CASE f.node[i].type # "directory"
  <2>1. r = Ok(f)
    BY <1>1 DEF Reparent
  <2>2. r.fs = f
    BY <2>1, Results
  <2>3. Parents(f, i)
    BY FewerParents
  <2> QED  BY <1>1, <2>2, <2>3 DEF SameTypes, Stay
<1>2. CASE f.node[i].type = "directory"
  <2>1. r \in UpdateEntry(f, i, DotDot, to)
    BY <1>2 DEF Reparent
  <2>2. /\ Form(r.fs) /\ SameTypes(f, r.fs)
        /\ ~r.ok => Parents(r.fs, NoInode)
        /\ r.ok => Parents(r.fs, i) /\ Has(r.fs.node[i].entries, DotDot, to)
        /\ r.ok => \A j : Has(f.node[i].entries, Dot, j) =>
                             Has(r.fs.node[i].entries, Dot, j)
    BY <1>2, <2>1, UpdateForm
  <2>3. SameUsed(f, r.fs)
    BY <2>1, UpdateTidy
  <2>4. Stay(f, r.fs)
    BY <2>2, <2>3, SameStay
  <2>5. Parents(r.fs, i)
    BY <2>2, FewerParents
  <2>6. r.ok => Dotted(r.fs, i, to)
    BY <1>2, <2>2 DEF Dotted
  <2> QED  BY <1>2, <2>2, <2>4, <2>5, <2>6
<1> QED  BY <1>1, <1>2

LEMMA EntryMovedForm ==
  ASSUME Undisturbed, NEW f, Sound(f), Tidy(f), Form(f), NEW from \in Inodes,
         NEW old \in Components \ {Dot, DotDot}, NEW to \in Inodes,
         NEW new \in Components, NEW i \in Inodes \ {Root},
         Leads(f, from, old, i), Parents(f, i),
         f.node[i].type = "directory" => Dotted(f, i, to),
         NEW r \in MoveEntry(f, from, old, to, new, i)
  PROVE  Upright(r.fs) /\ Stay(f, r.fs)
<1> DEFINE moved(s) == IF s.ok THEN InsertEntry(s.fs, to, new, i) ELSE {s}
<1>1. r \in UNION {moved(s) : s \in RemoveEntry(f, from, old)}
  BY Zenon DEF MoveEntry
<1>2. PICK s \in RemoveEntry(f, from, old) : r \in moved(s)
  BY <1>1, Zenon
<1>3. Sound(s.fs)
  BY Removed
<1>4. Distinct(f.node[from].entries)
  BY DEF Tidy
<1>5. Holds(f, from, old) /\ FindEntry(f, from, old) = i /\ f.node[i].used
  BY <1>4, LeadsFound DEF Tidy
<1>6. OneClusterDirectories /\ ~WriteFaults
  BY DEF Undisturbed
<1>7. /\ Form(s.fs) /\ SameTypes(f, s.fs)
      /\ \A j \in Inodes : DotsKept(f, s.fs, j)
      /\ \A x : Parents(f, x) => Parents(s.fs, x)
      /\ s.ok
  BY <1>5, <1>6, RemoveForm
<1>8. /\ Tidy(s.fs) /\ SameUsed(f, s.fs)
      /\ s.ok => Unnamed(s.fs, FindEntry(f, from, old))
  BY <1>6, RemoveTidy
<1>9. Unnamed(s.fs, i) /\ s.fs.node[i].used
  BY <1>5, <1>7, <1>8 DEF SameUsed
<1>10. r \in InsertEntry(s.fs, to, new, i)
  BY <1>2, <1>7
<1>11. s.fs.node[i].type = "directory" => Dotted(s.fs, i, to)
  BY <1>7 DEF SameTypes, Dotted, DotsKept
<1>12. Parents(s.fs, i)
  BY <1>7
<1>13. SameUsed(s.fs, r.fs)
  BY <1>3, <1>6, <1>8, <1>9, <1>10, InsertTidy
<1>14. Form(r.fs) /\ SameTypes(s.fs, r.fs) /\ Parents(r.fs, NoInode)
  BY <1>3, <1>6, <1>7, <1>8, <1>9, <1>10, <1>11, <1>12, InsertForm
<1>15. Stay(f, s.fs) /\ Stay(s.fs, r.fs)
  BY <1>7, <1>8, <1>13, <1>14, SameStay
<1> QED  BY <1>14, <1>15, StayTwice DEF Upright

LEMMA MovedForm ==
  ASSUME Undisturbed, NEW f, Sound(f), Tidy(f), Upright(f), NEW old \in ProperPath,
         NEW new \in ProperPath, NEW r \in Renamed(f, old, new)
  PROVE  Upright(r.fs) /\ Stay(f, r.fs)
<1> DEFINE from == ParentOf(f, old)
           to == ParentOf(f, new)
           i == FindEntry(f, from, Last(old))
           moved(s) == IF s.ok
                       THEN MoveEntry(s.fs, from, Last(old), to, Last(new), i)
                       ELSE {s}
           linked(s) == UNION {moved(t) : t \in Relink(s.fs, i, from, to)}
           after(s) == IF s.ok THEN linked(s) ELSE {s}
<1>1. CASE from = NoInode \/ to = NoInode \/ i = NoInode
  <2>1. r = Failed(f)
    BY <1>1, Zenon DEF Renamed
  <2> QED  BY <2>1, Results DEF Stay
<1>2. CASE ~(from = NoInode \/ to = NoInode \/ i = NoInode)
  <2>1. /\ from \in Inodes /\ to \in Inodes
        /\ Last(new) \in Components /\ Last(old) \in Components \ {Dot, DotDot}
    BY <1>2, Parent, ProperNames
  <2>2. i \in Inodes \ {Root}
    BY <1>2, <2>1, Found
  <2>3. Leads(f, from, Last(old), i)
    <3>1. Holds(f, from, Last(old))
      BY <1>2 DEF FindEntry
    <3> QED  BY <2>1, <3>1, FoundLeads
  <2>4. r \in UNION {after(s) : s \in Reparent(f, i, to)}
    BY <1>2, Zenon DEF Renamed
  <2> HIDE DEF from, to, i
  <2>5. PICK s \in Reparent(f, i, to) : r \in after(s)
    BY <2>4, Zenon
  <2>6. OneClusterDirectories
    BY DEF Undisturbed
  <2>7. Sound(s.fs) /\ s.ok \in BOOLEAN
    BY <2>1, <2>2, Reparented
  <2>8. Tidy(s.fs) /\ SameLeads(f, s.fs)
    BY <2>1, <2>2, <2>6, ReparentedTidy
  <2>9. Dotted(f, i, from) \/ f.node[i].type # "directory"
    BY <2>1, <2>2, <2>3, RootIsInode DEF Upright, Parents
  <2>10. /\ Form(s.fs) /\ SameTypes(f, s.fs) /\ Stay(f, s.fs) /\ Parents(s.fs, i)
         /\ ~s.ok \/ f.node[i].type # "directory" => Upright(s.fs)
         /\ s.ok /\ f.node[i].type = "directory" => Dotted(s.fs, i, to)
    BY <2>1, <2>2, <2>6, <2>9, ReparentForm
  <2>11. CASE s.ok
    <3>1. r \in linked(s)
      BY <2>5, <2>11
    <3>2. PICK t \in Relink(s.fs, i, from, to) : r \in moved(t)
      BY <3>1, Zenon
    <3>3. Sound(t.fs) /\ t.ok \in BOOLEAN
      BY <2>2, <2>7, Relinked
    <3>4. SameLists(s.fs, t.fs)
      BY <2>2, <2>7, RelinkedLists
    <3>5. Tidy(t.fs)
      BY <2>7, <2>8, <3>4, TidyLists
    <3>6. Leads(t.fs, from, Last(old), i)
      <4>1. Leads(s.fs, from, Last(old), i)
        BY <2>1, <2>3, <2>8 DEF SameLeads
      <4> QED  BY <2>1, <3>4, <4>1 DEF SameLists, Leads
    <3>7. /\ Stay(s.fs, t.fs) /\ SameTypes(s.fs, t.fs)
          /\ Upright(s.fs) => Upright(t.fs)
          /\ s.fs.node[i].type = "directory" => t = Ok(s.fs)
      BY <2>2, <2>7, RelinkForm
    <3>8. /\ s.fs.node[i].type = f.node[i].type /\ t.fs.node[i].type = f.node[i].type
          /\ Stay(f, t.fs)
      BY <2>2, <2>10, <3>7, StayTwice DEF SameTypes
    <3>9. /\ Form(t.fs) /\ Parents(t.fs, i)
          /\ t.fs.node[i].type = "directory" => Dotted(t.fs, i, to)
          /\ ~t.ok => Upright(t.fs)
      <4>1. CASE f.node[i].type = "directory"
        <5>1. t.fs = s.fs /\ t.ok = TRUE
          BY <3>7, <3>8, <4>1, Results
        <5> QED  BY <2>10, <2>11, <4>1, <5>1
      <4>2. CASE f.node[i].type # "directory"
        <5>1. Upright(t.fs)
          BY <2>10, <3>7, <4>2
        <5>2. Parents(t.fs, i)
          BY <5>1, FewerParents DEF Upright
        <5> QED  BY <3>8, <4>2, <5>1, <5>2 DEF Upright
      <4> QED  BY <4>1, <4>2
    <3>10. CASE t.ok
      <4>1. r \in MoveEntry(t.fs, from, Last(old), to, Last(new), i)
        BY <3>2, <3>10
      <4>2. Upright(r.fs) /\ Stay(t.fs, r.fs)
        BY <2>1, <2>2, <3>3, <3>5, <3>6, <3>9, <4>1, EntryMovedForm
      <4> QED  BY <3>8, <4>2, StayTwice
    <3>11. CASE ~t.ok
      BY <3>2, <3>8, <3>9, <3>11
    <3> QED  BY <3>3, <3>10, <3>11
  <2>12. CASE ~s.ok
    BY <2>5, <2>10, <2>12
  <2> QED  BY <2>7, <2>11, <2>12
<1> QED  BY <1>1, <1>2

--------------------------------------------------------------------------------
(* Where a walk can come to: everything that can be reached is named from  *)
(* something that can be reached, so that no ".." leads out.               *)

LEMMA HasFound ==
  ASSUME NEW f, Sound(f), NEW dir \in Inodes, Distinct(f.node[dir].entries),
         NEW name, NEW j, Has(f.node[dir].entries, name, j)
  PROVE  FindEntry(f, dir, name) = j
<1> DEFINE entries == f.node[dir].entries
<1>1. entries \in Seq(Entry)
  BY Entries
<1> PICK k \in 1 .. Len(entries) : entries[k].name = name /\ entries[k].inode = j
  BY DEF Has
<1>2. k \in Position(entries, name)
  BY <1>1 DEF Position
<1>3. Holds(f, dir, name)
  BY <1>2, RootIsInode DEF Holds
<1>4. \E l \in 1 .. Len(entries) :
         entries[l].name = name /\ FindEntry(f, dir, name) = entries[l].inode
  BY <1>3, FoundSomewhere
<1> QED  BY <1>4 DEF Distinct

\* What a name leads to is in what Named lists.
LEMMA LeadsNamed ==
  ASSUME Sound(fs), NEW dir \in Inodes, NEW n, NEW j, Leads(fs, dir, n, j)
  PROVE  \E e \in Named(dir) : e.inode = j
<1> DEFINE entries == fs.node[dir].entries
<1>1. /\ entries \in Seq(Entry)
      /\ \A k \in 1 .. Len(entries) : entries[k] \in Entry
  BY Entries
<1> PICK k \in 1 .. Len(entries) : entries[k].name = n /\ entries[k].inode = j
  BY DEF Leads, Enters
<1>2. n \notin {Dot, DotDot} /\ n \in Components
  BY <1>1 DEF Leads, Enters, Entry
<1>3. n > DotDot
  BY <1>2, DirectoriesAssumption DEF Components, Dot, DotDot
<1>4. entries[k] \in Named(dir)
  BY <1>1, <1>3 DEF Named
<1> QED  BY <1>4

LEMMA LeadsOn ==
  ASSUME Sound(fs), NEW dir \in Reachable, NEW n, NEW j, Leads(fs, dir, n, j)
  PROVE  j \in Reachable
<1>1. Least({Root}, Reachable)
  BY ReachableLeast
<1>2. dir \in Inodes /\ Deeper(Reachable) = Reachable
  BY <1>1 DEF Least
<1>3. PICK e \in Named(dir) : e.inode = j
  BY <1>2, LeadsNamed
<1>4. j \in Deeper(Reachable)
  BY <1>3 DEF Deeper
<1> QED  BY <1>2, <1>4

LEMMA NamedFrom ==
  ASSUME Sound(fs)
  PROVE  /\ Root \in Reachable /\ Reachable \in SUBSET Inodes
         /\ \A i \in Reachable \ {Root} : \E h \in Reachable : \E n : Leads(fs, h, n, i)
<1> DEFINE T == {i \in Reachable :
                    i = Root \/ \E h \in Reachable : \E n : Leads(fs, h, n, i)}
<1>1. /\ Reachable \in SUBSET Inodes /\ {Root} \subseteq Reachable
      /\ \A S \in SUBSET Inodes :
            {Root} \subseteq S /\ Deeper(S) = S => Reachable \subseteq S
  BY ReachableLeast DEF Least
<1>2. T \in SUBSET Inodes /\ {Root} \subseteq T
  BY <1>1
<1>3. ASSUME NEW dir \in T, NEW e \in Named(dir)
      PROVE  e.inode \in T
  <2>1. dir \in Reachable /\ dir \in Inodes
    BY <1>1
  <2>2. Leads(fs, dir, e.name, e.inode)
    BY <2>1, NamedLeads
  <2>3. e.inode \in Reachable
    BY <2>1, <2>2, LeadsOn
  <2> QED  BY <2>1, <2>2, <2>3
<1>4. Deeper(T) = T
  <2> HIDE DEF T
  <2> QED  BY <1>3 DEF Deeper
<1>5. Reachable \subseteq T
  <2> HIDE DEF T
  <2> QED  BY <1>1, <1>2, <1>4
<1> QED  BY <1>1, <1>5

LEMMA ReachableClosed ==
  ASSUME Sound(fs), Tidy(fs), Upright(fs)
  PROVE  /\ Closed(fs, Reachable)
         /\ \A i \in Reachable : i \in Inodes /\ fs.node[i].used
<1>1. /\ Root \in Reachable /\ Reachable \in SUBSET Inodes
      /\ \A i \in Reachable \ {Root} : \E h \in Reachable : \E n : Leads(fs, h, n, i)
  BY NamedFrom
<1>2. ASSUME NEW i \in Reachable
      PROVE  i \in Inodes /\ fs.node[i].used
  <2>1. i = Root => fs.node[i].used
    BY DEF Sound, RootStays
  <2>2. i # Root => fs.node[i].used
    BY <1>1 DEF Tidy
  <2> QED  BY <1>1, <2>1, <2>2
<1>3. ASSUME NEW i \in Reachable, NEW name
      PROVE  FindEntry(fs, i, name) \in Reachable \cup {NoInode}
  <2>1. i \in Inodes /\ Distinct(fs.node[i].entries)
    BY <1>2 DEF Tidy
  <2>2. CASE ~Holds(fs, i, name)
    BY <2>2 DEF FindEntry
  <2>3. CASE Holds(fs, i, name) /\ name \notin {Dot, DotDot}
    <3>1. Leads(fs, i, name, FindEntry(fs, i, name))
      BY <2>1, <2>3, FoundLeads
    <3> QED  BY <3>1, LeadsOn
  <2>4. CASE Holds(fs, i, name) /\ name \in {Dot, DotDot}
    <3>1. fs.node[i].type = "directory"
      <4>1. fs.node[i].entries # << >>
        BY <2>4 DEF Holds, Position
      <4> QED  BY <2>1, <4>1 DEF Upright, Form
    <3>2. \E h \in Reachable : Dotted(fs, i, h)
      <4>1. i = Root => Dotted(fs, i, Root)
        BY DEF Upright, Form
      <4>2. ASSUME i # Root
            PROVE  \E h \in Reachable : Dotted(fs, i, h)
        <5>1. PICK h \in Reachable : \E n : Leads(fs, h, n, i)
          BY <1>1, <4>2
        <5>2. h \in Inodes /\ i # NoInode
          BY <1>1, <2>1, RootIsInode
        <5>3. Dotted(fs, i, h)
          BY <2>1, <3>1, <5>1, <5>2 DEF Upright, Parents
        <5> QED  BY <5>3
      <4> QED  BY <1>1, <4>1, <4>2
    <3>3. PICK h \in Reachable : Dotted(fs, i, h)
      BY <3>2
    <3>4. name = Dot => FindEntry(fs, i, name) = i
      BY <2>1, <3>3, HasFound DEF Dotted
    <3>5. name = DotDot => FindEntry(fs, i, name) = h
      BY <2>1, <3>3, HasFound DEF Dotted
    <3> QED  BY <2>4, <3>4, <3>5
  <2> QED  BY <2>2, <2>3, <2>4
<1> QED  BY <1>1, <1>2, <1>3 DEF Closed

\* What a path leads to is in use.
LEMMA ResolvedUsed ==
  ASSUME Sound(fs), Tidy(fs), Upright(fs), NEW path \in Seq(Components),
         ResolvePath(fs, path) # NoInode
  PROVE  fs.node[ResolvePath(fs, path)].used
<1>1. Closed(fs, Reachable) /\ \A i \in Reachable : fs.node[i].used
  BY ReachableClosed
<1>2. ResolvePath(fs, path) \in Reachable \cup {NoInode}
  BY <1>1, WalkStays
<1> QED  BY <1>1, <1>2

LEMMA UprightParents ==
  Sound(fs) /\ Tidy(fs) /\ Upright(fs) => DotDotIsParent
<1> SUFFICES ASSUME Sound(fs), Tidy(fs), Upright(fs), NEW dir \in Reachable,
                    NEW e \in Named(dir), fs.node[e.inode].type = "directory"
             PROVE  /\ FindEntry(fs, e.inode, DotDot) = dir
                    /\ FindEntry(fs, e.inode, Dot) = e.inode
  BY DEF DotDotIsParent
<1>1. dir \in Inodes
  BY NamedFrom
<1>2. e.inode \in Inodes /\ Leads(fs, dir, e.name, e.inode)
  BY <1>1, NamedLeads
<1>3. e.inode # NoInode /\ Distinct(fs.node[e.inode].entries)
  BY <1>2, RootIsInode DEF Tidy
<1>4. Dotted(fs, e.inode, dir)
  BY <1>1, <1>2, <1>3 DEF Upright, Parents
<1> QED  BY <1>2, <1>3, <1>4, HasFound DEF Dotted

--------------------------------------------------------------------------------
(* Calls keep this, and the files that are open. *)

Kept == Upright(fs) /\ OpenFilesStay

LEMMA UprightAfter ==
  ASSUME NEW f, Upright(f), fs' = f
  PROVE  Upright(fs)'
BY DEF Upright, Form, Parents, Leads, Enters, Dotted, Has

\* A call that opens nothing and frees at most t, which is not open.
LEMMA KeptAfter ==
  ASSUME IInv, Kept, NEW f, Upright(f), fs' = f, UNCHANGED opened,
         NEW t, ~IsInodeOpen(t),
         \A i \in Inodes : i # t /\ fs.node[i].used =>
            f.node[i].used /\ f.node[i].type = fs.node[i].type
  PROVE  Kept'
<1>1. Upright(fs)'
  BY UprightAfter
<1>2. ASSUME NEW d \in Descriptors, opened'[d] # NoInode
      PROVE  fs'.node[opened'[d]].used /\ fs'.node[opened'[d]].type = "regular"
  <2>1. opened[d] \in Inodes /\ opened[d] # t
    BY <1>2 DEF IInv, IsInodeOpen
  <2>2. fs.node[opened[d]].used /\ fs.node[opened[d]].type = "regular"
    BY <1>2 DEF Kept, OpenFilesStay
  <2> QED  BY <2>1, <2>2
<1>3. OpenFilesStay'
  BY <1>2 DEF OpenFilesStay
<1> QED  BY <1>1, <1>3 DEF Kept

LEMMA KeptStay ==
  ASSUME IInv, Kept, NEW f, Upright(f), Stay(fs, f), fs' = f, UNCHANGED opened
  PROVE  Kept'
<1>1. Upright(fs)'
  BY UprightAfter
<1>2. ASSUME NEW d \in Descriptors, opened'[d] # NoInode
      PROVE  fs'.node[opened'[d]].used /\ fs'.node[opened'[d]].type = "regular"
  <2>1. opened[d] \in Inodes
    BY <1>2 DEF IInv
  <2>2. fs.node[opened[d]].used /\ fs.node[opened[d]].type = "regular"
    BY <1>2 DEF Kept, OpenFilesStay
  <2> QED  BY <2>1, <2>2 DEF Stay
<1>3. OpenFilesStay'
  BY <1>2 DEF OpenFilesStay
<1> QED  BY <1>1, <1>3 DEF Kept

LEMMA KeptOpenInode ==
  ASSUME IInv, Kept, NEW f, Sound(f), Upright(f), Stay(fs, f),
         NEW i \in Inodes, f.node[i].used, NEW truncate \in BOOLEAN,
         OpenInode(f, i, truncate)
  PROVE  Kept'
<1>1. CASE f.node[i].type # "regular"
  <2>1. fs' = f /\ UNCHANGED opened
    BY <1>1, Zenon DEF OpenInode
  <2> QED  BY <2>1, KeptStay
<1>2. CASE f.node[i].type = "regular"
  <2> DEFINE free == {d \in Descriptors : opened[d] = NoInode}
             d == CHOOSE d \in free : \A e \in free : d <= e
             g == IF truncate THEN Truncate(f, i) ELSE f
  <2>1. /\ fs' = g
        /\ opened' = opened \/ opened' = [opened EXCEPT ![d] = i]
    BY <1>2, Zenon DEF OpenInode
  <2> HIDE DEF d
  <2>2. i \in Inodes \ {Root}
    BY <1>2 DEF Sound, RootStays
  <2>3. /\ Stay(f, Truncate(f, i)) /\ SameTypes(f, Truncate(f, i))
        /\ Upright(Truncate(f, i))
    BY <1>2, <2>2, TruncateForm
  <2>4. Stay(f, f) /\ SameTypes(f, f)
    BY DEF Stay, SameTypes
  <2>5. Stay(f, g) /\ SameTypes(f, g) /\ Upright(g)
    <3> HIDE DEF Upright, Stay, SameTypes
    <3> QED  BY <2>3, <2>4
  <2> HIDE DEF g
  <2>6. g.node[i].used /\ g.node[i].type = "regular"
    BY <1>2, <2>5 DEF Stay
  <2>7. Stay(fs, g)
    BY <2>5, StayTwice
  <2>8. Upright(fs)'
    BY <2>1, <2>5, UprightAfter
  <2>9. ASSUME NEW e \in Descriptors, opened'[e] # NoInode
        PROVE  fs'.node[opened'[e]].used /\ fs'.node[opened'[e]].type = "regular"
    <3>1. opened'[e] = i \/ opened'[e] = opened[e]
      BY <2>1 DEF IInv
    <3>2. CASE opened'[e] = i
      BY <2>1, <2>6, <3>2
    <3>3. CASE opened'[e] = opened[e]
      <4>1. opened[e] \in Inodes
        BY <2>9, <3>3 DEF IInv
      <4>2. fs.node[opened[e]].used /\ fs.node[opened[e]].type = "regular"
        BY <2>9, <3>3 DEF Kept, OpenFilesStay
      <4> QED  BY <2>1, <2>7, <3>3, <4>1, <4>2 DEF Stay
    <3> QED  BY <3>1, <3>2, <3>3
  <2>10. OpenFilesStay'
    BY <2>9 DEF OpenFilesStay
  <2> QED  BY <2>8, <2>10 DEF Kept
<1> QED  BY <1>1, <1>2

LEMMA KeptOpen ==
  ASSUME OneClusterDirectories, IInv, Tidy(fs), Kept, NEW path \in ProperPath,
         NEW create \in BOOLEAN, NEW truncate \in BOOLEAN,
         Open(path, create, truncate)
  PROVE  Kept'
<1> DEFINE i == ResolvePath(fs, path)
<1>1. i \in Inodes \cup {NoInode} /\ Sound(fs) /\ Upright(fs)
  BY Given, Resolved DEF IInv, Kept
<1>2. CASE i # NoInode
  <2>1. OpenInode(fs, i, truncate) /\ i \in Inodes
    BY <1>1, <1>2, Zenon DEF Open
  <2>2. fs.node[i].used
    BY <1>1, <1>2, Given, ResolvedUsed
  <2>3. Stay(fs, fs)
    BY DEF Stay
  <2> QED  BY <1>1, <2>1, <2>2, <2>3, KeptOpenInode
<1>3. CASE i = NoInode
  <2>1. PICK r \in CreateFile(path) :
          IF r.ok THEN OpenInode(r.fs, r.inode, truncate)
          ELSE fs' = r.fs /\ UNCHANGED opened
    BY <1>3, Zenon DEF Open
  <2>2. Sound(r.fs) /\ (r.ok => r.inode \in Inodes \ {Root})
    BY <1>1, FileCreated
  <2>3. /\ Upright(r.fs) /\ Stay(fs, r.fs)
        /\ r.ok => r.fs.node[r.inode].used /\ r.fs.node[r.inode].type = "regular"
    BY <1>1, FileCreatedForm
  <2>4. CASE r.ok
    <3>1. OpenInode(r.fs, r.inode, truncate) /\ r.inode \in Inodes
      BY <2>1, <2>2, <2>4
    <3> QED  BY <2>2, <2>3, <2>4, <3>1, KeptOpenInode
  <2>5. CASE ~r.ok
    BY <2>1, <2>3, <2>5, KeptStay
  <2> QED  BY <2>4, <2>5
<1> QED  BY <1>2, <1>3

LEMMA KeptWriteFile ==
  ASSUME IInv, Kept, NEW d \in Descriptors, WriteFile(d)
  PROVE  Kept'
<1> DEFINE i == opened[d]
           g == [fs EXCEPT !.space = @ - 1, !.node[i].clusters = @ + 1]
<1>1. i \in Inodes /\ fs.space > 0 /\ fs' = g /\ UNCHANGED opened /\ Sound(fs)
  BY Zenon DEF WriteFile, IInv
<1>2. fs.node[i].type = "regular"
  BY <1>1, RootIsInode DEF Kept, OpenFilesStay
<1>3. /\ fs \in Table /\ fs.space \in Nat /\ fs.node[i] \in Node
      /\ fs.node[i].clusters \in Nat /\ fs.node \in [Inodes -> Node]
  BY <1>1, TableCounts DEF Sound, Counts, Table
<1> HIDE DEF i
<1> DEFINE held == fs.node[i].clusters + 1
           left == fs.space - 1
           n == [fs.node[i] EXCEPT !.clusters = held]
<1>4. held \in Nat /\ left \in Nat
  BY <1>1, <1>3
<1>5. g = [fs EXCEPT !.node[i] = n, !.space = left]
  BY <1>1, <1>3 DEF Table
<1> HIDE DEF held, left
<1>6. /\ n \in Node /\ n.entries = fs.node[i].entries
      /\ n.used = fs.node[i].used /\ n.type = fs.node[i].type
  BY <1>3, <1>4 DEF Node
<1> HIDE DEF n, g
<1>7. /\ g \in Table /\ g.node[i] = n
      /\ \A j \in Inodes : j # i => g.node[j] = fs.node[j]
  BY <1>1, <1>3, <1>4, <1>5, <1>6 DEF Table
<1>8. fs.node[i].type # "directory"
  BY <1>2
<1>9. Stay(fs, g) /\ (Upright(fs) => Upright(g))
  BY <1>1, <1>3, <1>6, <1>7, <1>8, OneKept
<1>10. Upright(g)
  BY <1>9 DEF Kept
<1> QED  BY <1>1, <1>9, <1>10, KeptStay

LEMMA KeptRemoveFile ==
  ASSUME OneClusterDirectories, IInv, Tidy(fs), Kept, NEW path \in ProperPath,
         RemoveFile(path)
  PROVE  Kept'
<1> DEFINE parent == ParentOf(fs, path)
           target == FindEntry(fs, parent, Last(path))
<1>1. /\ parent # NoInode /\ target # NoInode /\ ~IsInodeOpen(target)
      /\ fs.node[target].type # "directory" /\ UNCHANGED opened
      /\ \E r \in RemoveEntry(fs, parent, Last(path)) :
            fs' = IF r.ok THEN TruncateAndFree(r.fs, target) ELSE r.fs
  BY Zenon DEF RemoveFile
<1>2. Sound(fs) /\ Form(fs) /\ Parents(fs, NoInode)
  BY DEF IInv, Kept, Upright
<1>3. parent \in Inodes /\ target \in Inodes
  BY <1>1, <1>2, Parent, Found
<1>4. target \in Inodes \ {Root}
  BY <1>1, <1>2, <1>3 DEF Sound, RootStays
<1>5. PICK r \in RemoveEntry(fs, parent, Last(path)) :
        fs' = IF r.ok THEN TruncateAndFree(r.fs, target) ELSE r.fs
  BY <1>1
<1>6. Sound(r.fs) /\ r.ok \in BOOLEAN
  BY <1>2, <1>3, Removed
<1>7. Tidy(r.fs) /\ SameUsed(fs, r.fs) /\ (r.ok => Unnamed(r.fs, target))
  BY <1>2, <1>3, RemoveTidy
<1>8. /\ Form(r.fs) /\ SameTypes(fs, r.fs)
      /\ \A x : Parents(fs, x) => Parents(r.fs, x)
  BY <1>2, <1>3, RemoveForm
<1> HIDE DEF parent, target
<1>9. Upright(r.fs) /\ Stay(fs, r.fs)
  BY <1>2, <1>7, <1>8, SameStay DEF Upright
<1>10. CASE ~r.ok
  BY <1>1, <1>5, <1>9, <1>10, KeptStay
<1>11. CASE r.ok
  <2> DEFINE cut == Truncate(r.fs, target)
             g == FreeInode(cut, target)
  <2>1. r.fs.node[target].type # "directory"
    BY <1>1, <1>4, <1>8 DEF SameTypes
  <2>2. Sound(cut) /\ Upright(cut) /\ Stay(r.fs, cut)
    BY <1>4, <1>6, <1>9, <2>1, Truncated, TruncateForm
  <2>3. Tidy(cut) /\ Unnamed(cut, target)
    BY <1>4, <1>6, <1>7, <1>11, TruncateTidy
  <2>4. fs' = g
    BY <1>5, <1>11 DEF TruncateAndFree
  <2> HIDE DEF cut
  <2>5. /\ Upright(g)
        /\ \A j \in Inodes : j # target => g.node[j] = cut.node[j]
    BY <1>4, <2>2, <2>3, FreedForm
  <2> HIDE DEF g
  <2>6. Stay(fs, cut)
    BY <1>9, <2>2, StayTwice
  <2>7. \A i \in Inodes : i # target /\ fs.node[i].used =>
           g.node[i].used /\ g.node[i].type = fs.node[i].type
    BY <2>5, <2>6 DEF Stay
  <2> QED  BY <1>1, <2>4, <2>5, <2>7, KeptAfter
<1> QED  BY <1>6, <1>10, <1>11

LEMMA KeptRemoveDirectory ==
  ASSUME OneClusterDirectories, IInv, Tidy(fs), Kept, NEW path \in ProperPath,
         RemoveDirectory(path)
  PROVE  Kept'
<1> DEFINE parent == ParentOf(fs, path)
           target == FindEntry(fs, parent, Last(path))
           g(r) == FreeInode(r.fs, target)
<1>1. /\ parent # NoInode /\ target # NoInode /\ ~IsInodeOpen(target)
      /\ UNCHANGED opened
      /\ \E r \in RemoveEntry(fs, parent, Last(path)) :
            fs' = IF r.ok THEN FreeInode(r.fs, target) ELSE r.fs
  BY Zenon DEF RemoveDirectory
<1>2. Sound(fs) /\ Form(fs) /\ Parents(fs, NoInode)
  BY DEF IInv, Kept, Upright
<1>3. /\ parent \in Inodes /\ target \in Inodes
      /\ Last(path) \notin {Dot, DotDot} => target # Root
  BY <1>1, <1>2, Parent, Found
<1>4. PICK r \in RemoveEntry(fs, parent, Last(path)) :
        fs' = IF r.ok THEN FreeInode(r.fs, target) ELSE r.fs
  BY <1>1
<1>5. Sound(r.fs) /\ r.ok \in BOOLEAN /\ (r.ok => Last(path) \notin {Dot, DotDot})
  BY <1>2, <1>3, Removed
<1>6. Tidy(r.fs) /\ SameUsed(fs, r.fs) /\ (r.ok => Unnamed(r.fs, target))
  BY <1>2, <1>3, RemoveTidy
<1>7. /\ Form(r.fs) /\ SameTypes(fs, r.fs)
      /\ \A x : Parents(fs, x) => Parents(r.fs, x)
  BY <1>2, <1>3, RemoveForm
<1> HIDE DEF parent, target
<1>8. Upright(r.fs) /\ Stay(fs, r.fs)
  BY <1>2, <1>6, <1>7, SameStay DEF Upright
<1>9. CASE ~r.ok
  BY <1>1, <1>4, <1>8, <1>9, KeptStay
<1>10. CASE r.ok
  <2>1. target \in Inodes \ {Root}
    BY <1>3, <1>5, <1>10
  <2>2. fs' = g(r)
    BY <1>4, <1>10
  <2>3. /\ Upright(g(r))
        /\ \A j \in Inodes : j # target => g(r).node[j] = r.fs.node[j]
    BY <1>5, <1>6, <1>8, <1>10, <2>1, FreedForm
  <2> HIDE DEF g
  <2>4. \A i \in Inodes : i # target /\ fs.node[i].used =>
           g(r).node[i].used /\ g(r).node[i].type = fs.node[i].type
    BY <1>8, <2>3 DEF Stay
  <2> QED  BY <1>1, <2>2, <2>3, <2>4, KeptAfter
<1> QED  BY <1>5, <1>9, <1>10

LEMMA KeptInit == Init => Kept
<1> SUFFICES ASSUME Init PROVE Kept
  OBVIOUS
<1> DEFINE one == [name |-> Dot, inode |-> Root]
           two == [name |-> DotDot, inode |-> Root]
           root == [used |-> TRUE, type |-> "directory",
                    entries |-> << one, two >>, clusters |-> 1, target |-> NoTarget]
           table == [i \in Inodes |-> IF i = Root THEN root ELSE FreeNode]
<1>1. fs = [node |-> table, space |-> Space] /\ opened = [d \in Descriptors |-> NoInode]
  BY DEF Init
<1>2. /\ one.name = Dot /\ two.name = DotDot
      /\ one.inode = Root /\ two.inode = Root
  OBVIOUS
<1>3. /\ root.entries = << one, two >> /\ root.type = "directory"
      /\ root.clusters = 1
      /\ FreeNode.entries = << >> /\ FreeNode.type = "regular"
  BY DEF FreeNode
<1> HIDE DEF one, two, root
<1>4. fs.node = table
  BY <1>1
<1>5. /\ fs.node[Root] = root
      /\ \A i \in Inodes : i # Root => fs.node[i] = FreeNode
  BY <1>4, RootIsInode
<1> HIDE DEF table
<1>6. \A n, j : ~Enters(<< one, two >>, n, j) /\ ~Enters(<< >>, n, j)
  BY <1>2 DEF Enters
<1>7. Has(<< one, two >>, Dot, Root) /\ Has(<< one, two >>, DotDot, Root)
  BY <1>2 DEF Has
<1>8. Dotted(fs, Root, Root)
  BY <1>3, <1>5, <1>7 DEF Dotted
<1>9. Form(fs)
  <2>1. \A i \in Inodes : fs.node[i].type # "directory" => fs.node[i].entries = << >>
    BY <1>3, <1>5
  <2>2. \A i \in Inodes : fs.node[i].entries # << >> => fs.node[i].clusters >= 1
    BY <1>3, <1>5
  <2> QED  BY <1>8, <2>1, <2>2 DEF Form
<1>10. \A i \in Inodes : \A n, j : ~Leads(fs, i, n, j)
  BY <1>3, <1>5, <1>6 DEF Leads
<1>11. Upright(fs)
  BY <1>9, <1>10 DEF Upright, Parents
<1>12. OpenFilesStay
  BY <1>1 DEF OpenFilesStay
<1> QED  BY <1>11, <1>12 DEF Kept

LEMMA KeptNext == Undisturbed /\ IInv /\ Tidy(fs) /\ Kept /\ [Next]_vars => Kept'
<1> SUFFICES ASSUME Undisturbed, IInv, Tidy(fs), Kept, [Next]_vars
             PROVE  Kept'
  OBVIOUS
<1>1. Sound(fs) /\ Upright(fs) /\ OneClusterDirectories
  BY DEF IInv, Kept, Undisturbed
<1>2. ASSUME NEW path \in ProperPath, NEW create \in BOOLEAN,
             NEW truncate \in BOOLEAN, Open(path, create, truncate)
      PROVE  Kept'
  BY <1>1, <1>2, KeptOpen
<1>3. ASSUME NEW path \in ProperPath, RemoveFile(path)
      PROVE  Kept'
  BY <1>1, <1>3, KeptRemoveFile
<1>4. ASSUME NEW path \in ProperPath, RemoveDirectory(path)
      PROVE  Kept'
  BY <1>1, <1>4, KeptRemoveDirectory
<1>5. ASSUME NEW path \in ProperPath, CreateDirectory(path)
      PROVE  Kept'
  <2>1. PICK r \in MakeDirectory(fs, path) : fs' = r.fs
    BY <1>5 DEF CreateDirectory
  <2>2. UNCHANGED opened
    BY <1>5 DEF CreateDirectory
  <2>3. Upright(r.fs) /\ Stay(fs, r.fs)
    BY <1>1, DirectoryMadeForm
  <2> QED  BY <2>1, <2>2, <2>3, KeptStay
<1>6. ASSUME NEW path \in ProperPath, NEW target \in Targets,
             CreateSymlink(target, path)
      PROVE  Kept'
  <2>1. PICK r \in MakeSymlink(fs, target, path) : fs' = r.fs
    BY <1>6 DEF CreateSymlink
  <2>2. UNCHANGED opened
    BY <1>6 DEF CreateSymlink
  <2>3. Upright(r.fs) /\ Stay(fs, r.fs)
    BY <1>1, SymlinkMadeForm
  <2> QED  BY <2>1, <2>2, <2>3, KeptStay
<1>7. ASSUME NEW d \in Descriptors, Close(d)
      PROVE  Kept'
  <2>1. fs' = fs /\ opened' = [opened EXCEPT ![d] = NoInode]
    BY <1>7 DEF Close
  <2>2. OpenFilesStay'
    BY <2>1 DEF OpenFilesStay, Kept, IInv
  <2>3. Upright(fs)'
    BY <1>1, <2>1 DEF Upright, Form, Parents, Leads, Enters, Dotted, Has
  <2> QED  BY <2>2, <2>3 DEF Kept
<1>8. ASSUME NEW d \in Descriptors, WriteFile(d)
      PROVE  Kept'
  BY <1>8, KeptWriteFile
<1>9. ASSUME NEW old \in ProperPath, NEW new \in ProperPath, Rename(old, new)
      PROVE  Kept'
  <2>1. PICK r \in Renamed(fs, old, new) : fs' = r.fs
    BY <1>9 DEF Rename
  <2>2. UNCHANGED opened
    BY <1>9 DEF Rename
  <2>3. Upright(r.fs) /\ Stay(fs, r.fs)
    BY <1>1, MovedForm
  <2> QED  BY <2>1, <2>2, <2>3, KeptStay
<1>10. CASE UNCHANGED vars
  BY <1>10 DEF vars, Kept, Upright, Form, Parents, Leads, Enters, Dotted, Has,
               OpenFilesStay
<1> QED
  BY <1>2, <1>3, <1>4, <1>5, <1>6, <1>7, <1>8, <1>9, <1>10, GivenPaths, GivenTargets
  DEF Next

--------------------------------------------------------------------------------

\* If nothing disturbs moves, "." and ".." of every directory that has a name
\* lead where they should, and what is open is a file in use.
THEOREM TreeStaysUpright == Undisturbed => (Spec => [](IInv /\ Tidy(fs) /\ Kept))
<1> SUFFICES ASSUME Undisturbed PROVE Spec => [](IInv /\ Tidy(fs) /\ Kept)
  OBVIOUS
<1>1. OneClusterDirectories
  BY DEF Undisturbed
<1>2. Init => IInv /\ Tidy(fs) /\ Kept
  BY IInvInit, TidyInit, KeptInit
<1>3. IInv /\ Tidy(fs) /\ Kept /\ [Next]_vars => IInv' /\ Tidy(fs)' /\ Kept'
  BY <1>1, IInvNext, TidyNext, KeptNext
<1> QED  BY <1>2, <1>3, PTL DEF Spec

LEMMA KeptShows == IInv /\ Tidy(fs) /\ Kept => DotDotIsParent /\ OpenFilesStay
BY UprightParents DEF IInv, Kept

\* The ".." of a directory is the one it is entered in, after every sequence
\* of calls, moves that fail for a full disk or a taken name among them.
THEOREM DotDotLeadsToParent == Undisturbed => (Spec => []DotDotIsParent)
<1> SUFFICES ASSUME Undisturbed PROVE Spec => []DotDotIsParent
  OBVIOUS
<1> QED  BY TreeStaysUpright, KeptShows, PTL

\* No call frees the inode of an open file, or makes it anything else, and
\* none opens an inode that is not in use, whatever links and ".." it goes
\* through.
THEOREM OpenFilesAlwaysStay == Undisturbed => (Spec => []OpenFilesStay)
<1> SUFFICES ASSUME Undisturbed PROVE Spec => []OpenFilesStay
  OBVIOUS
<1> QED  BY TreeStaysUpright, KeptShows, PTL
================================================================================
